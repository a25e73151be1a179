---------------------------- MODULE MCQueueDispatch ----------------------------
(* Instances of QueueDispatch for TLC. *)
EXTENDS QueueDispatch

CONSTANTS q1, q2

MCQueueJobs == {q1, q2}

QueueJobSymmetry == Permutations(MCQueueJobs)
===============================================================================
