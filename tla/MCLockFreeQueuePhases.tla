------------------------ MODULE MCLockFreeQueuePhases ------------------------
(* Instances of LockFreeQueuePhases for TLC.                               *)
EXTENDS LockFreeQueuePhases, TLC

Symmetry == Permutations(Threads) \cup Permutations(Items)
=============================================================================
