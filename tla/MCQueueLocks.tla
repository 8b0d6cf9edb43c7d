--------------------------- MODULE MCQueueLocks ---------------------------
(* Instances of QueueLocks for TLC. *)
EXTENDS QueueLocks

LockSymmetry == Permutations(Orders) \cup Permutations(Tasks)
=============================================================================
