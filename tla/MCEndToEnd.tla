----------------------------- MODULE MCEndToEnd -----------------------------
(* EndToEnd on small instances; as many epochs as mounts, so that the      *)
(* bound never blocks an allocation.                                       *)
EXTENDS EndToEnd, TLC

ASSUME EnoughEpochs == Cardinality(Epochs) >= Cardinality(Mounts)

Symm == Permutations(Objs) \cup Permutations(Epochs) \cup Permutations(Mounts)
            \cup Permutations(Writers) \cup Permutations(Contents)
=============================================================================
