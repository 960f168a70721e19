--------------------------- MODULE MCRingbufQueue ---------------------------
(* Instances of RingbufQueue for TLC.                                      *)
EXTENDS RingbufQueue, TLC

\* Threads that are both producers and consumers, and items, are exchangeable.
Symmetry == Permutations(Producers \cup Consumers) \cup Permutations(Items)
=============================================================================
