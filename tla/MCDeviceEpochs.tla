--------------------------- MODULE MCDeviceEpochs ---------------------------
(***************************************************************************)
(* DeviceEpochs for TLC.  Epochs has as many elements as Mounts in every   *)
(* configuration, since a mount event allocates at most one epoch: an      *)
(* allocation is then never blocked by the bound.                          *)
(***************************************************************************)
EXTENDS DeviceEpochs, TLC

ASSUME EnoughEpochs == Cardinality(Epochs) >= Cardinality(Mounts)

Symm == Permutations(Objs) \cup Permutations(Epochs) \cup Permutations(Mounts)
            \cup Permutations(Users) \cup Permutations(Admins)
            \cup Permutations(Writers)
=============================================================================
