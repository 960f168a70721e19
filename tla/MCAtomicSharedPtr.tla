-------------------------- MODULE MCAtomicSharedPtr --------------------------
(* Instances of AtomicSharedPtr for TLC.                                   *)
EXTENDS AtomicSharedPtr

\* Two addresses, as large as the pointer half allows.
TopBlocks == PtrMod - 2 .. PtrMod - 1
=============================================================================
