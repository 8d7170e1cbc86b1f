--------------------------- MODULE MCBatcherLocks ---------------------------
(* Instances of BatcherLocks for TLC. *)
EXTENDS BatcherLocks, TLC

TaskSymmetry == Permutations(Handlers) \cup Permutations(Users)
=============================================================================
