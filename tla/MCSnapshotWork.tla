--------------------------- MODULE MCSnapshotWork ---------------------------
(* SnapshotWork on small instances.  Blocks and contents are               *)
(* interchangeable, and so are devices that may, or may not, fail: nothing *)
(* orders them.                                                            *)
EXTENDS SnapshotWork

Symm == Permutations(Blocks) \cup Permutations(Contents)
        \cup Permutations(Faulty) \cup Permutations(Devs \ Faulty)

=============================================================================
