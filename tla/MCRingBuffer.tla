----------------------------- MODULE MCRingBuffer -----------------------------
(* RingBuffer with two producers and two consumers, for TLC.               *)
EXTENDS RingBuffer, TLC

Symmetry == Permutations(Producers) \cup Permutations(Consumers)
===============================================================================
