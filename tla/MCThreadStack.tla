--------------------------- MODULE MCThreadStack ---------------------------
(* A first method, a small one of one argument and a wide one of two,      *)
(* which end in calls of each other or of themselves, a constructor and a  *)
(* finalizer.  The small one catches exceptions and its result has another *)
(* type: its method state is taken over only by itself, and it takes over  *)
(* no other.  The first method is the only one taken over by a larger one, *)
(* and it only runs at the bottom or in place of the wide one: what        *)
(* happens at the end of the chunk then (WithinChunk) is not part of this. *)
EXTENDS ThreadStack, TLC

CONSTANTS first, small, wide, ctor, final

MCMethods == {first, small, wide, ctor, final}
By(vFirst, vSmall, vWide, vCtor, vFinal) ==
  first :> vFirst @@ small :> vSmall @@ wide :> vWide @@ ctor :> vCtor @@ final :> vFinal

MCMaxStack == By(2, 2, 2, 1, 1)
MCParams == By(0, 1, 2, 1, 1)
MCLocals == By(1, 0, 0, 0, 0)
MCReturnType == By("object", "string", "object", "void", "void")
MCReturns == By(1, 1, 1, 0, 0)
MCLiterals == By({1, 2}, {}, {}, {}, {})
MCCalls == By({small, wide, ctor}, {ctor}, {small}, {}, {})
MCTailCalls == By({wide}, {small, wide}, {first, small, wide}, {}, {})
=============================================================================
