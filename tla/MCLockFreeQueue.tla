--------------------------- MODULE MCLockFreeQueue ---------------------------
(* Instances of LockFreeQueue for TLC.                                     *)
EXTENDS LockFreeQueue, TLC

Symmetry == Permutations(Threads) \cup Permutations(Items)
=============================================================================
