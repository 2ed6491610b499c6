--------------------------- MODULE MCInterpreter ---------------------------
(* Programs for Interpreter: a method "main" that calls "m", which calls   *)
(* "n"; "k" only writes to the log, "cctor" is a static constructor.       *)
EXTENDS Language, TLC

(* Exception types: A and B are derived from E. *)
MCIsDerived(base, type) == base = type \/ base = "E"

Leaf == [k |-> <<LogS(1)>>,
         cctor |-> <<LogS(2), StaticS("T", "cctor"), CallS("k")>>]

MainBodies == <<
  <<TryS(<<CallS("m"), LogS(3)>>, <<CatchS("E", <<LogS(4)>>)>>), CallS("k")>>,
  <<TryS(<<CallS("m"), CallS("m")>>,
         <<CatchS("A", <<CallS("k")>>), CatchS("E", <<LogS(5)>>)>>), CallS("m")>>,
  <<InvokeS(<<"k", "m", "k">>), LogS(6)>> >>

MBodies == <<
  <<CallS("n"), LogS(7)>>,
  <<TryS(<<CallS("n"), LogS(8)>>, <<CatchS("A", <<LogS(9)>>)>>), LogS(10)>>,
  <<TryS(<<CallS("n")>>, <<CatchS("A", <<LogS(11), RethrowS>>)>>)>>,
  <<TryS(<<TryS(<<CallS("n")>>, <<CatchS("A", <<LogS(12)>>)>>), CallS("n")>>,
         <<CatchS("B", <<CallS("k")>>)>>)>>,
  <<FinallyS(<<CallS("k")>>, <<LogS(13), CallS("k")>>), CallS("n")>>,
  <<InvokeS(<<"n", "k">>), StaticS("T", "cctor")>>,
  <<StaticS("T", "cctor"), TailS("n")>>,
  <<TryS(<<CallS("n")>>, <<CatchS("B", <<LogS(21)>>)>>), TailS("n")>> >>

NBodies == <<
  <<LogS(14)>>,
  <<ThrowS("A")>>,
  <<LogS(22), TailS("k")>>,
  <<ThrowS("B")>>,
  <<TryS(<<ThrowS("A")>>, <<CatchS("B", <<LogS(15)>>), CatchS("A", <<LogS(16)>>)>>)>>,
  <<StaticS("T", "cctor"), LogS(17)>>,
  <<FinallyS(<<CallS("k"), ThrowS("A")>>, <<LogS(18)>>)>>,
  <<TryS(<<FinallyS(<<CallS("k")>>, <<LogS(19)>>), StaticS("T", "cctor"), ThrowS("B")>>,
         <<CatchS("A", <<LogS(20)>>)>>)>> >>

MCPrograms ==
  {Program([main |-> MainBodies[i], m |-> MBodies[j], n |-> NBodies[k]] @@ Leaf, {}) :
     i \in DOMAIN MainBodies, j \in DOMAIN MBodies, k \in DOMAIN NBodies}

(* An exception that passes through a finally block of a calling method.   *)
MCFinallyPrograms == {
  Program([main |-> <<TryS(<<CallS("m")>>, <<CatchS("A", <<LogS(4)>>)>>)>>,
           m |-> <<FinallyS(<<CallS("n")>>, <<LogS(21)>>)>>,
           n |-> <<LogS(14), ThrowS("A")>>] @@ Leaf, {21}) }

(* The code of finally blocks: no program has one in a finally block.      *)
FinalPlaces(body) ==
  {p \in Places(body) : \E n \in DOMAIN body.handlers :
     /\ body.handlers[n].kind = "finally"
     /\ body.handlers[n].start <= p
     /\ \A q \in body.handlers[n].start .. p - 1 : body.code[q].op # "endfinally"}

(* All of the programs are Structured. *)
ASSUME ProgramsAssumption ==
  \A pr \in MCPrograms \cup MCFinallyPrograms :
    /\ Main \in DOMAIN pr.methods
    /\ \A m \in DOMAIN pr.methods :
         InPlace(DOMAIN pr.methods, pr.methods[m], FinalPlaces(pr.methods[m]))
=============================================================================
