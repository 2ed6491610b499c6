---------------------------- MODULE MCSyncBlock ----------------------------
(* Model-checking instances of SyncBlock.                                  *)
EXTENDS SyncBlock

(* A three-bit count: it wraps within the depth the search reaches. *)
MCCountMod == 2 ^ 3
=============================================================================
