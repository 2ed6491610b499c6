---------------------------- MODULE Interpreter ----------------------------
(***************************************************************************)
(* The control flow of JIT_Execute for one thread: calls and returns,      *)
(* multicast delegates, static constructors, and exceptions with catch and *)
(* finally blocks.  Values are left out; a "log" instruction stands for    *)
(* what a program does between those.                                      *)
(*                                                                         *)
(* Every instruction takes one place in the code of its method, so that an *)
(* instruction pointer behind it still identifies it.                      *)
(***************************************************************************)
EXTENDS Naturals, Sequences

CONSTANTS Programs,   \* the programs to run: for every method its code and
                      \* its handlers, inner before outer ones, and what the
                      \* language specifies the program to do
          Main,       \* the method a thread starts with
          MaxLog,     \* bound: the log is cut at this length
          IsDerived(_, _)  \* Type_IsDerivedFromOrSame of a base and a type

ASSUME LogAssumption == MaxLog \in Nat

VARIABLES
  prog,        \* the program that runs
  stack,       \* the method states from the outermost call to the current
  pc,          \* pCurOp: the next instruction of the current method
  status,      \* "run"; "exit"; "crash" on an unhandled exception; "wild":
               \* pCurOp points where no program put it
  exc,         \* pCurrentExceptionObject: the type of the exception
  catchDepth, catchHandler, \* pCatchMethodState, pCatchExceptionHandler
  nextFinally, \* nextFinallyUnwindStack
  initialised, \* types with isTypeInitialised
  log          \* the numbers of the "log" instructions executed

thread == <<exc, catchDepth, catchHandler, nextFinally>>
vars == <<prog, stack, pc, status, thread, initialised, log>>

(* tMethodState. ipOffset is what SAVE_METHOD_STATE stored last, not the   *)
(* current place.                                                          *)
Frame(method) ==
  [method |-> method, ipOffset |-> 1, endFinally |-> 0, nextDelegate |-> <<>>]

Init ==
  /\ prog \in Programs
  /\ stack = <<Frame(Main)>>
  /\ pc = 1
  /\ status = "run"
  /\ exc = "none"
  /\ catchDepth = 0
  /\ catchHandler = 0
  /\ nextFinally = 0
  /\ initialised = {}
  /\ log = <<>>

Depth == Len(stack)
Top == stack[Depth]
Code(f) == prog.methods[f.method].code
Handlers(f) == prog.methods[f.method].handlers
Instr == Code(Top)[pc]

Executing(op) == status = "run" /\ Instr.op = op

(* A method state as SAVE_METHOD_STATE leaves it before instruction p.     *)
Saved(s, p) == [s EXCEPT ![Len(s)].ipOffset = p]

(* CHANGE_METHOD_STATE to a new method state. *)
Push(s, p, method) ==
  /\ stack' = Append(Saved(s, p), Frame(method))
  /\ pc' = 1

(* GO_NEXT_CHECK: the slice of the thread may end here, which saves the    *)
(* method state.                                                           *)
GoNextCheck(s, p) ==
  /\ stack' \in {s, Saved(s, p)}
  /\ pc' = p

-----------------------------------------------------------------------------
(* Calls. *)

Log ==
  /\ Executing("log")
  /\ log' = IF Len(log) < MaxLog THEN Append(log, Instr.n) ELSE log
  /\ pc' = pc + 1
  /\ UNCHANGED <<prog, stack, status, thread, initialised>>

Call ==
  /\ Executing("call")
  /\ Push(stack, pc + 1, Instr.method)
  /\ UNCHANGED <<prog, status, thread, initialised, log>>

(* A tail call takes over the method state of the caller, when that has no *)
(* handlers and no delegates left to call or calls itself.  Return types   *)
(* are left out: all methods modelled return nothing.                      *)
TailCall ==
  /\ Executing("tailcall")
  /\ IF Instr.method = Top.method \/ (Handlers(Top) = <<>> /\ Top.nextDelegate = <<>>)
     THEN stack' = [stack EXCEPT ![Depth] = Frame(Instr.method)] /\ pc' = 1
     ELSE Push(stack, pc + 1, Instr.method)
  /\ UNCHANGED <<prog, status, thread, initialised, log>>

(* Mutants: the delegates after the second are forgotten; none is done. *)
RestOne(methods) == SubSeq(methods, 2, 2)
RestSame(methods) == methods

Rest(methods) == Tail(methods)

(* Call the first of a list of delegates and remember the others.          *)
InvokeFirst(s, p, methods) ==
  Push([s EXCEPT ![Len(s)].nextDelegate = Rest(methods)], p, Head(methods))

(* With delegates left over from an earlier call, the interpreter takes    *)
(* its operand for the next instruction.                                   *)
InvokeDelegate ==
  /\ Executing("invoke")
  /\ IF Top.nextDelegate = <<>>
     THEN InvokeFirst(stack, pc + 1, Instr.methods) /\ UNCHANGED status
     ELSE status' = "wild" /\ UNCHANGED <<stack, pc>>
  /\ UNCHANGED <<prog, thread, initialised, log>>

(* The caller goes on, with the next delegate if there is one.             *)
Return ==
  /\ Executing("return")
  /\ IF Depth = 1
     THEN status' = "exit" /\ UNCHANGED <<stack, pc>>
     ELSE LET callers == SubSeq(stack, 1, Depth - 1)
              caller == callers[Depth - 1]
          IN /\ IF caller.nextDelegate = <<>>
                THEN stack' = callers /\ pc' = caller.ipOffset
                ELSE InvokeFirst(callers, caller.ipOffset, caller.nextDelegate)
             /\ UNCHANGED status
  /\ UNCHANGED <<prog, thread, initialised, log>>

(* An access to a static field runs the static constructor first, and the  *)
(* same instruction again afterwards.                                      *)
LoadStaticField ==
  /\ Executing("static")
  /\ initialised' = initialised \cup {Instr.type}
  /\ IF Instr.type \notin initialised /\ Instr.cctor # "none"
     THEN Push(stack, pc, Instr.cctor)
     ELSE pc' = pc + 1 /\ UNCHANGED stack
  /\ UNCHANGED <<prog, status, thread, log>>

-----------------------------------------------------------------------------
(* Exceptions. *)

InTry(f, i, kind) ==
  LET h == Handlers(f)[i] IN
  /\ h.kind = kind
  /\ f.ipOffset - 1 >= h.tryStart
  /\ f.ipOffset - 1 < h.tryEnd

First(S) == CHOOSE i \in S : \A j \in S : i <= j

Catches(f, type) ==
  {i \in DOMAIN Handlers(f) :
     InTry(f, i, "catch") /\ IsDerived(Handlers(f)[i].type, type)}

Finallys(f, from) == {i \in DOMAIN Handlers(f) : i > from /\ InTry(f, i, "finally")}

(* Mutant: the finally blocks done with stay counted. *)
AfterCatchKept(s, depth, next) == next

(* nextFinallyUnwindStack at the catch handler. *)
AfterCatch(s, depth, next) == IF Len(s) > depth THEN 0 ELSE next

(* The frames of s from the top down to the catching one are left, and in  *)
(* each of them the finally blocks around the place it has reached are     *)
(* run; the first "next" handlers of the topmost frame are done with.      *)
(* On the way into a finally block pCurOp is loaded before the start of    *)
(* the block is stored: execution goes on at the place saved last and, in  *)
(* another method than the current one, at the offset reached in that.     *)
Unwind(s, next, depth, handler) ==
  LET reach == [n \in depth + 1 .. Len(s) |->
                  Finallys(s[n], IF n = Len(s) THEN next ELSE 0)]
      stops == {n \in depth + 1 .. Len(s) : reach[n] # {}}
      n == CHOOSE k \in stops : \A j \in stops : j <= k
      i == First(reach[n])
      caught == Handlers(s[depth])[handler].start
  IN IF stops = {}
     THEN /\ stack' = Saved(SubSeq(s, 1, depth), caught)
          /\ pc' = caught
          /\ nextFinally' = AfterCatch(s, depth, next)
          /\ UNCHANGED status
     ELSE /\ GoNextCheck(Saved(SubSeq(s, 1, n), Handlers(s[n])[i].start), s[n].ipOffset)
          /\ nextFinally' = i
          /\ status' = IF n = Len(s) THEN status ELSE "wild"

(* Mutant: callers of the caller are not searched. *)
CatchFramesNear(s, type) ==
  {n \in DOMAIN s : n >= Len(s) - 1 /\ Catches(s[n], type) # {}}

CatchFrames(s, type) == {n \in DOMAIN s : Catches(s[n], type) # {}}

(* The innermost handler for an exception, then the unwinding down to it.  *)
ThrowException(s, type) ==
  /\ exc' = type
  /\ LET frames == CatchFrames(s, type) IN
     IF frames = {}
     THEN /\ status' = "crash"
          /\ UNCHANGED <<stack, pc, catchDepth, catchHandler, nextFinally>>
     ELSE LET depth == CHOOSE n \in frames : \A k \in frames : k <= n IN
          /\ catchDepth' = depth
          /\ catchHandler' = First(Catches(s[depth], type))
          /\ Unwind(s, nextFinally, depth, catchHandler')
  /\ UNCHANGED <<prog, initialised, log>>

Throw == Executing("throw") /\ ThrowException(Saved(stack, pc + 1), Instr.type)

Rethrow == Executing("rethrow") /\ ThrowException(Saved(stack, pc + 1), exc)

(* Leaving a try or catch block runs the first finally block around the    *)
(* place where the method state was saved last.                            *)
Leave ==
  /\ Executing("leave")
  /\ LET finallys == Finallys(Top, 0) IN
     IF finallys = {}
     THEN GoNextCheck(stack, Instr.to)
     ELSE GoNextCheck([stack EXCEPT ![Depth].endFinally = Instr.to],
                      Handlers(Top)[First(finallys)].start)
  /\ UNCHANGED <<prog, status, thread, initialised, log>>

(* The end of a finally block goes on with the unwinding, if there is one, *)
(* or else where the leave wanted to go.  The unwinding never ends when    *)
(* the catching frame has been left already.                               *)
EndFinally ==
  /\ Executing("endfinally")
  /\ IF nextFinally = 0
     THEN GoNextCheck(stack, Top.endFinally) /\ UNCHANGED <<status, nextFinally>>
     ELSE IF Depth > catchDepth
     THEN Unwind(stack, nextFinally, catchDepth, catchHandler)
     ELSE status' = "wild" /\ UNCHANGED <<stack, pc, nextFinally>>
  /\ UNCHANGED <<prog, exc, catchDepth, catchHandler, initialised, log>>

Next ==
  \/ Log \/ Call \/ TailCall \/ InvokeDelegate \/ Return \/ LoadStaticField
  \/ Throw \/ Rethrow \/ Leave \/ EndFinally

Spec == Init /\ [][Next]_vars

(* The scheduler gives the thread slice after slice. *)
FairSpec == Spec /\ WF_vars(Next)

-----------------------------------------------------------------------------
(* Programs as compilers lay them out: control stays in the code of its    *)
(* method, and the code of finally blocks, the places "final", is entered  *)
(* at the start of a block and left at the end of one.                     *)

Places(body) == 1 .. Len(body.code)
Covered(h) == h.tryStart .. h.tryEnd - 1
Throws(body) == {p \in Places(body) : body.code[p].op \in {"throw", "rethrow"}}

CodeInPlace(methods, body, final) ==
  \A p \in Places(body) :
    LET i == body.code[p] IN
    /\ i.op \in {"log", "call", "tailcall", "invoke", "static"} =>
         p + 1 \in Places(body) /\ (p + 1 \in final => p \in final)
    /\ i.op \in {"call", "tailcall"} => i.method \in methods
    /\ i.op = "invoke" => i.methods \in Seq(methods) /\ i.methods # <<>>
    /\ i.op = "static" => i.cctor \in methods \cup {"none"}
    /\ i.op = "leave" => i.to \in Places(body) /\ (i.to \in final => p \in final)
    /\ i.op = "endfinally" => p \in final

HandlersInPlace(body, final) ==
  \A n \in 1 .. Len(body.handlers) :
    LET h == body.handlers[n] IN
    /\ {h.start, h.tryStart, h.tryEnd} \subseteq Places(body)
    /\ h.kind = "catch" /\ h.start \in final => h.tryStart .. h.tryEnd \subseteq final

(* The end of the finally block is reached without a call or a throw. *)
Quiet(body) ==
  {p \in Places(body) :
     \E end \in p .. Len(body.code) :
       /\ body.code[end].op = "endfinally"
       /\ \A q \in p .. end - 1 : body.code[q].op = "log"}

(* Where unwinding may go on in the method that throws, since it enters a  *)
(* finally block at the place saved last.                                  *)
Unwound(body) ==
  {p + 1 : p \in Throws(body)} \cup
  {body.handlers[n].start : n \in {k \in 1 .. Len(body.handlers) :
     /\ body.handlers[k].kind = "finally"
     /\ Covered(body.handlers[k]) \cap Throws(body) # {}}}

(* A throw in a try block with a finally block is followed by that block,  *)
(* and the block only writes: calls and exceptions of a finally block that *)
(* is run by an exception are not supported.                               *)
UnwindsInPlace(body) ==
  \A n \in 1 .. Len(body.handlers) :
    LET h == body.handlers[n] IN
    h.kind = "finally" =>
      \A p \in Unwound(body) :
        p - 1 \in Covered(h) => {p, h.start} \subseteq Quiet(body) /\ h.start \in Unwound(body)

InPlace(methods, body, final) ==
  /\ Len(body.code) \in Nat /\ Len(body.handlers) \in Nat
  /\ DOMAIN body.handlers = 1 .. Len(body.handlers)
  /\ final \subseteq Places(body) \ {1}
  /\ Places(body) # {}
  /\ CodeInPlace(methods, body, final)
  /\ HandlersInPlace(body, final)
  /\ UnwindsInPlace(body)

Structured(pr) ==
  /\ Main \in DOMAIN pr.methods
  /\ \A m \in DOMAIN pr.methods :
       \E final \in SUBSET Places(pr.methods[m]) : InPlace(DOMAIN pr.methods, pr.methods[m], final)

StructuredPrograms == \A pr \in Programs : Structured(pr)

(* Nothing that a called method throws passes a finally block or a list of *)
(* delegates: the frame of a call is left with an exception only where it  *)
(* has neither.  A static field counts as the place before it, since the   *)
(* method state that waits for a static constructor is saved there.        *)
PlainCalls(body) ==
  \A n \in 1 .. Len(body.handlers) :
    \A p \in Covered(body.handlers[n]) :
      /\ body.handlers[n].kind = "finally" =>
           /\ body.code[p].op \notin {"call", "tailcall", "invoke"}
           /\ body.code[p + 1].op # "static"
      /\ body.handlers[n].kind = "catch" => body.code[p].op # "invoke"

Plain(pr) == \A m \in DOMAIN pr.methods : PlainCalls(pr.methods[m])

-----------------------------------------------------------------------------
(* Properties *)

Methods == DOMAIN prog.methods

FrameOK(f) ==
  /\ f.method \in Methods
  /\ f.ipOffset \in 1 .. Len(Code(f)) + 1
  /\ f.endFinally \in 0 .. Len(Code(f))
  /\ \A i \in DOMAIN f.nextDelegate : f.nextDelegate[i] \in Methods

(* The current method runs inside its code, a pending unwinding has its    *)
(* catching frame below the current one, with a handler of that method.    *)
TypeOK ==
  /\ Depth > 0
  /\ \A n \in 1 .. Depth : FrameOK(stack[n])
  /\ status \in {"run", "exit", "crash", "wild"}
  /\ status = "run" => pc \in 1 .. Len(Code(Top))
  /\ nextFinally \in 0 .. Len(Handlers(Top))
  /\ nextFinally > 0 => catchDepth < Depth
  /\ Len(log) <= MaxLog

(* Execution never goes on where no program has put it, in programs whose  *)
(* calls pass no exception through a finally block or a list of delegates. *)
NeverWild == Plain(prog) => status # "wild"

(* When the program ends it has done just what the language says, in that  *)
(* order: each delegate of a list, each static constructor once and before *)
(* the first access, the innermost handler for an exception, each finally  *)
(* block that is left.                                                     *)
AsSpecified ==
  status # "run" => status = prog.expected.status /\ log = prog.expected.log

(* Every program ends: unwinding, leaving, initialising and invoking make  *)
(* progress however they are nested and wherever slices end.               *)
Ends == <>(status # "run")

(* "Run all finally clauses during unwinding" (JIT_Execute.c:3302). *)
FinallyClausesRun ==
  status # "run" =>
    \A i \in DOMAIN prog.expected.log :
      prog.expected.log[i] \in prog.finallyLogs =>
        \E j \in DOMAIN log : log[j] = prog.expected.log[i]
=============================================================================
