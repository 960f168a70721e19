--------------------------- MODULE MCRingbufOrder ---------------------------
(* Instances of RingbufOrder for TLC.                                      *)
EXTENDS RingbufOrder, TLC

Symmetry == Permutations(Producers \cup Consumers) \cup Permutations(Items)
=============================================================================
