------------------------- MODULE MCQueueExtraction -------------------------
(* Instances of QueueExtraction for TLC. *)
EXTENDS QueueExtraction, TLC

UserSymmetry == Permutations(Users)
=============================================================================
