---------------------------- MODULE MCCollector ----------------------------
(* Small heaps for Collector. *)
EXTENDS Collector, TLC

CONSTANTS a1, a2, a3, s1, s2

(* Addresses are interchangeable, and so are the slots. *)
Symmetry == Permutations(Objs) \cup Permutations(Slots)
=============================================================================
