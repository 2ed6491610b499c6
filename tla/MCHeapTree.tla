----------------------------- MODULE MCHeapTree -----------------------------
(* Instances of HeapTree: nine entries are enough for three levels, for a  *)
(* heir that is the left child and one that is deeper, and for rotations   *)
(* of both kinds on the way up from a removal.                             *)
EXTENDS HeapTree
=============================================================================
