------------------------------ MODULE Language ------------------------------
(***************************************************************************)
(* Structured programs for Interpreter: how a compiler lays them out as    *)
(* instructions and exception handlers, and what they mean.                *)
(***************************************************************************)
EXTENDS Interpreter, Integers, SequencesExt

(* Statements. *)
LogS(n) == [s |-> "log", n |-> n]
CallS(m) == [s |-> "call", method |-> m]
TailS(m) == [s |-> "tailcall", method |-> m]  \* last in a method, in no block
InvokeS(ms) == [s |-> "invoke", methods |-> ms]
StaticS(type, cctor) == [s |-> "static", type |-> type, cctor |-> cctor]
ThrowS(type) == [s |-> "throw", type |-> type]
RethrowS == [s |-> "rethrow"]
TryS(body, catches) == [s |-> "try", body |-> body, catches |-> catches]
CatchS(type, body) == [type |-> type, body |-> body]
FinallyS(body, fin) == [s |-> "finally", body |-> body, fin |-> fin]

-----------------------------------------------------------------------------
(* Code. *)

Op(stmt) ==
  CASE stmt.s = "log" -> [op |-> "log", n |-> stmt.n]
    [] stmt.s = "call" -> [op |-> "call", method |-> stmt.method]
    [] stmt.s = "tailcall" -> [op |-> "tailcall", method |-> stmt.method]
    [] stmt.s = "invoke" -> [op |-> "invoke", methods |-> stmt.methods]
    [] stmt.s = "static" -> [op |-> "static", type |-> stmt.type, cctor |-> stmt.cctor]
    [] stmt.s = "throw" -> [op |-> "throw", type |-> stmt.type]
    [] stmt.s = "rethrow" -> [op |-> "rethrow"]

LeaveOp(to) == [op |-> "leave", to |-> to]
EndsInThrow(stmts) == stmts # <<>> /\ Last(stmts).s \in {"throw", "rethrow"}

RECURSIVE Size(_), SizeOf(_)
(* The number of instructions of statements; a block that is left ends in  *)
(* a leave instruction, unless it ends in a throw.                         *)
SizeOf(stmts) == FoldSeq(LAMBDA stmt, n : n + Size(stmt), 0, stmts)
LeftSize(stmts) == SizeOf(stmts) + (IF EndsInThrow(stmts) THEN 0 ELSE 1)
Size(stmt) ==
  CASE stmt.s = "try" ->
         LeftSize(stmt.body) + FoldSeq(LAMBDA c, n : n + LeftSize(c.body), 0, stmt.catches)
    [] stmt.s = "finally" -> LeftSize(stmt.body) + SizeOf(stmt.fin) + 1
    [] OTHER -> 1

Layout(code, handlers) == [code |-> code, handlers |-> handlers]
Both(a, b) == Layout(a.code \o b.code, a.handlers \o b.handlers)

RECURSIVE Compile(_, _), CompileStmt(_, _), CompileCatches(_, _, _, _)

(* The statements as code that starts at the place "at". *)
Compile(stmts, at) ==
  IF stmts = <<>> THEN Layout(<<>>, <<>>)
  ELSE Both(CompileStmt(Head(stmts), at), Compile(Tail(stmts), at + Size(Head(stmts))))

CompileLeft(stmts, at, to) ==
  Both(Compile(stmts, at),
       Layout(IF EndsInThrow(stmts) THEN <<>> ELSE <<LeaveOp(to)>>, <<>>))

Handler(kind, type, tryStart, tryEnd, start) ==
  Layout(<<>>, <<[kind |-> kind, type |-> type, tryStart |-> tryStart,
                  tryEnd |-> tryEnd, start |-> start]>>)

(* The handlers of a try block that covers [from, to). *)
CompileCatches(catches, at, range, to) ==
  IF catches = <<>> THEN Layout(<<>>, <<>>)
  ELSE LET c == Head(catches) IN
       Both(Both(CompileLeft(c.body, at, to),
                 Handler("catch", c.type, range[1], range[2], at)),
            CompileCatches(Tail(catches), at + LeftSize(c.body), range, to))

CompileStmt(stmt, at) ==
  LET to == at + Size(stmt) IN
  IF stmt.s = "try"
  THEN LET end == at + LeftSize(stmt.body) IN
       Both(CompileLeft(stmt.body, at, to), CompileCatches(stmt.catches, end, <<at, end>>, to))
  ELSE IF stmt.s = "finally"
  THEN LET end == at + LeftSize(stmt.body) IN
       Both(Both(CompileLeft(stmt.body, at, to), Compile(stmt.fin, end)),
            Both(Layout(<<[op |-> "endfinally"]>>, <<>>), Handler("finally", "none", at, end, end)))
  ELSE Layout(<<Op(stmt)>>, <<>>)

Method(stmts) == Both(Compile(stmts, 1), Layout(<<[op |-> "return"]>>, <<>>))

-----------------------------------------------------------------------------
(* Meaning. *)

(* What statements do from a state: the log, the types initialised, and    *)
(* the exception that leaves them, or "none", or "unhandled": an exception *)
(* that nothing around it catches ends the program on the spot, with no    *)
(* finally block run.  "caught" are the types caught around the statements. *)
State(logged, init, caught) ==
  [log |-> logged, init |-> init, caught |-> caught, out |-> "none"]

Raised(st, type) ==
  [st EXCEPT !.out =
     IF \E base \in st.caught : IsDerived(base, type) THEN type ELSE "unhandled"]

RECURSIVE Does(_, _, _, _), DoesStmt(_, _, _, _), DoesAll(_, _, _)

DoesAll(src, methods, st) ==
  IF methods = <<>> \/ st.out # "none" THEN st
  ELSE DoesAll(src, Tail(methods), Does(src, src[Head(methods)], st, "none"))

(* "current" is the exception of the catch block around the statements.    *)
Does(src, stmts, st, current) ==
  IF stmts = <<>> \/ st.out # "none" THEN st
  ELSE Does(src, Tail(stmts), DoesStmt(src, Head(stmts), st, current), current)

DoesTry(src, stmt, st, current) ==
  LET types == {stmt.catches[i].type : i \in DOMAIN stmt.catches}
      tried == Does(src, stmt.body, [st EXCEPT !.caught = @ \cup types], current)
      fits == {i \in DOMAIN stmt.catches :
                 /\ tried.out \notin {"none", "unhandled"}
                 /\ IsDerived(stmt.catches[i].type, tried.out)}
      i == CHOOSE k \in fits : \A j \in fits : k <= j
      after == [tried EXCEPT !.caught = st.caught]
  IN IF fits = {} THEN after
     ELSE Does(src, stmt.catches[i].body, [after EXCEPT !.out = "none"], tried.out)

DoesFinally(src, stmt, st, current) ==
  LET tried == Does(src, stmt.body, st, current)
      done == Does(src, stmt.fin, [tried EXCEPT !.out = "none"], current)
  IN IF tried.out = "unhandled" THEN tried
     ELSE IF done.out # "none" THEN done ELSE [done EXCEPT !.out = tried.out]

DoesStmt(src, stmt, st, current) ==
  CASE stmt.s = "log" -> [st EXCEPT !.log = Append(@, stmt.n)]
    [] stmt.s \in {"call", "tailcall"} -> Does(src, src[stmt.method], st, "none")
    [] stmt.s = "invoke" -> DoesAll(src, stmt.methods, st)
    [] stmt.s = "static" ->
         IF stmt.type \in st.init THEN st
         ELSE LET marked == [st EXCEPT !.init = @ \cup {stmt.type}] IN
              IF stmt.cctor = "none" THEN marked
              ELSE Does(src, src[stmt.cctor], marked, "none")
    [] stmt.s = "throw" -> Raised(st, stmt.type)
    [] stmt.s = "rethrow" -> Raised(st, current)
    [] stmt.s = "try" -> DoesTry(src, stmt, st, current)
    [] stmt.s = "finally" -> DoesFinally(src, stmt, st, current)

(* A program for Interpreter, from the statements of its methods.          *)
Program(src, finallyLogs) ==
  LET end == Does(src, src[Main], State(<<>>, {}, {}), "none") IN
  [methods |-> [m \in DOMAIN src |-> Method(src[m])],
   expected |-> [status |-> IF end.out = "none" THEN "exit" ELSE "crash", log |-> end.log],
   finallyLogs |-> finallyLogs]
=============================================================================
