------------------------ MODULE MCSinglefilefsProbes ------------------------
(* SinglefilefsProbes on small instances.  A thread is the number of the   *)
(* bucket its key falls into.                                              *)
EXTENDS SinglefilefsProbes

MCHash == [t \in Threads |-> t]

=============================================================================
