---------------------------- MODULE MCQueueLock ----------------------------
(* Three runs overlapping on one queue. *)
EXTENDS QueueLock

CONSTANTS p1, p2, p3, n1, n2, n3

MCProc == {p1, p2, p3}
MCInode == {n1, n2, n3}

=============================================================================
