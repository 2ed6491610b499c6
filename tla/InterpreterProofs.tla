------------------------- MODULE InterpreterProofs -------------------------
(***************************************************************************)
(* Proofs about Interpreter, for any programs that are Structured.         *)
(***************************************************************************)
EXTENDS Interpreter, SequenceTheorems, WellFoundedInduction, TLAPS

MethodsOf(pr) == DOMAIN pr.methods
Body(pr, f) == pr.methods[f.method]
State(pr) == [method : MethodsOf(pr), ipOffset : Nat, endFinally : Nat, nextDelegate : Seq(MethodsOf(pr))]

(* The code of the finally blocks of a method. *)
Final(pr, m) == CHOOSE final \in SUBSET Places(pr.methods[m]) : InPlace(MethodsOf(pr), pr.methods[m], final)

MayBe(pr, f) ==
  /\ f \in State(pr)
  /\ f.ipOffset \in 1 .. Len(Body(pr, f).code) + 1
  /\ f.endFinally \in 0 .. Len(Body(pr, f).code)

(* A method state may go on at the place p: code of a finally block knows  *)
(* where to go at its end.                                                 *)
GoesOn(pr, f, p) == p \in Places(Body(pr, f)) /\ (p \in Final(pr, f.method) => f.endFinally > 0)

(* A method state that has called another one. *)
Waits(pr, f) == MayBe(pr, f) /\ GoesOn(pr, f, f.ipOffset)

StackOK(pr, s) ==
  /\ s \in Seq(State(pr)) /\ s # <<>>
  /\ MayBe(pr, s[Len(s)])
  /\ \A n \in 1 .. Len(s) - 1 : Waits(pr, s[n])

(* The exception that a finally block is run by is caught further down. *)
Caught(pr, s, depth, handler) ==
  /\ depth \in 1 .. Len(s) - 1
  /\ handler \in 1 .. Len(Body(pr, s[depth]).handlers)
  /\ GoesOn(pr, s[depth], Body(pr, s[depth]).handlers[handler].start)

Unwinding(pr, s, next, depth, handler) ==
  /\ next \in 1 .. Len(Body(pr, s[Len(s)]).handlers)
  /\ Caught(pr, s, depth, handler)

(* Where the current method goes on, normally or while unwinding. *)
Running(pr, s, p, next) ==
  LET f == s[Len(s)]
      body == Body(pr, f)
  IN IF next = 0 THEN GoesOn(pr, f, p)
     ELSE p \in Quiet(body) /\ f.ipOffset \in Quiet(body) \cap Unwound(body)

Good(pr, s, p, stat, next, depth, handler) ==
  /\ StackOK(pr, s)
  /\ next = 0 \/ Unwinding(pr, s, next, depth, handler)
  /\ stat \in {"run", "exit", "crash", "wild"}
  /\ stat = "run" => Running(pr, s, p, next)

LogOK(l) == (\E S : l \in Seq(S)) /\ Len(l) <= MaxLog

IInv ==
  /\ Structured(prog)
  /\ Good(prog, stack, pc, status, nextFinally, catchDepth, catchHandler)
  /\ LogOK(log)

-----------------------------------------------------------------------------
(* Numbers *)

LEMMA LeastOf ==
  ASSUME NEW S \in SUBSET Nat, S # {}
  PROVE  \E x \in S : \A y \in S : x <= y
<1>1. \E x \in S : \A y \in S : ~ (<<y, x>> \in OpToRel(<, Nat))
  BY NatLessThanWellFounded, WFMin
<1>2. PICK x \in S : \A y \in S : ~ (<<y, x>> \in OpToRel(<, Nat))
  BY <1>1
<1>3. ASSUME NEW y \in S PROVE x <= y
  <2>1. ~ (y < x)
    BY <1>2 DEF OpToRel
  <2> QED BY <2>1
<1> QED BY <1>3

LEMMA MostOf ==
  ASSUME NEW N \in Nat, NEW S \in SUBSET (1 .. N), S # {}
  PROVE  \E x \in S : \A y \in S : y <= x
<1> DEFINE T == {N - x : x \in S}
<1>1. T \in SUBSET Nat /\ T # {}
  <2>1. PICK x \in S : TRUE
    OBVIOUS
  <2>2. N - x \in T
    BY <2>1
  <2>3. T \in SUBSET Nat
    OBVIOUS
  <2> QED BY <2>2, <2>3
<1>2. PICK z \in T : \A y \in T : z <= y
  BY <1>1, LeastOf
<1>3. PICK x \in S : z = N - x
  OBVIOUS
<1>4. ASSUME NEW y \in S PROVE y <= x
  <2>1. N - x <= N - y
    BY <1>2, <1>3
  <2> QED BY <2>1
<1> QED BY <1>4

LEMMA FirstIs ==
  ASSUME NEW S \in SUBSET Nat, S # {}
  PROVE  First(S) \in S
BY LeastOf DEF First

-----------------------------------------------------------------------------
(* Programs *)

LEMMA FinalOK ==
  ASSUME NEW pr, Structured(pr), NEW m \in MethodsOf(pr)
  PROVE  InPlace(MethodsOf(pr), pr.methods[m], Final(pr, m))
<1>1. \E final \in SUBSET Places(pr.methods[m]) : InPlace(MethodsOf(pr), pr.methods[m], final)
  BY DEF Structured, MethodsOf
<1> QED BY <1>1 DEF Final

(* What the layout says of the instruction at p. *)
LEMMA CodeAt ==
  ASSUME NEW pr, Structured(pr), NEW m \in MethodsOf(pr), NEW p \in Places(pr.methods[m])
  PROVE  LET i == pr.methods[m].code[p]
             final == Final(pr, m)
         IN /\ i.op \in {"log", "call", "tailcall", "invoke", "static"} =>
                 p + 1 \in Places(pr.methods[m]) /\ (p + 1 \in final => p \in final)
            /\ i.op \in {"call", "tailcall"} => i.method \in MethodsOf(pr)
            /\ i.op = "invoke" => i.methods \in Seq(MethodsOf(pr)) /\ i.methods # <<>>
            /\ i.op = "static" => i.cctor \in MethodsOf(pr) \cup {"none"}
            /\ i.op = "leave" => i.to \in Places(pr.methods[m]) /\ (i.to \in final => p \in final)
            /\ i.op = "endfinally" => p \in final
<1>1. CodeInPlace(MethodsOf(pr), pr.methods[m], Final(pr, m))
  BY FinalOK DEF InPlace
<1> QED BY <1>1 DEF CodeInPlace

(* The same for single instructions. *)
LEMMA InvokeAt ==
  ASSUME NEW pr, Structured(pr), NEW m \in MethodsOf(pr), NEW p \in Places(pr.methods[m]),
         NEW i, i = pr.methods[m].code[p], i.op = "invoke"
  PROVE  i.methods \in Seq(MethodsOf(pr)) /\ i.methods # <<>>
BY CodeAt

LEMMA EndFinallyAt ==
  ASSUME NEW pr, Structured(pr), NEW m \in MethodsOf(pr), NEW p \in Places(pr.methods[m]),
         NEW i, i = pr.methods[m].code[p], i.op = "endfinally"
  PROVE  p \in Final(pr, m)
BY CodeAt

LEMMA LeaveAt ==
  ASSUME NEW pr, Structured(pr), NEW m \in MethodsOf(pr), NEW p \in Places(pr.methods[m]),
         NEW i, i = pr.methods[m].code[p], i.op = "leave"
  PROVE  i.to \in Places(pr.methods[m]) /\ (i.to \in Final(pr, m) => p \in Final(pr, m))
BY CodeAt

LEMMA CallAt ==
  ASSUME NEW pr, Structured(pr), NEW m \in MethodsOf(pr), NEW p \in Places(pr.methods[m]),
         NEW i, i = pr.methods[m].code[p], i.op \in {"call", "tailcall"}
  PROVE  i.method \in MethodsOf(pr)
BY CodeAt

LEMMA StaticAt ==
  ASSUME NEW pr, Structured(pr), NEW m \in MethodsOf(pr), NEW p \in Places(pr.methods[m]),
         NEW i, i = pr.methods[m].code[p], i.op = "static"
  PROVE  i.cctor \in MethodsOf(pr) \cup {"none"}
BY CodeAt

LEMMA BodyOK ==
  ASSUME NEW pr, Structured(pr), NEW m \in MethodsOf(pr)
  PROVE  /\ Len(pr.methods[m].code) \in Nat /\ Len(pr.methods[m].handlers) \in Nat
         /\ DOMAIN pr.methods[m].handlers = 1 .. Len(pr.methods[m].handlers)
         /\ 1 \in Places(pr.methods[m]) /\ 1 \notin Final(pr, m)
         /\ HandlersInPlace(pr.methods[m], Final(pr, m))
         /\ UnwindsInPlace(pr.methods[m])
<1>1. InPlace(MethodsOf(pr), pr.methods[m], Final(pr, m))
  BY FinalOK
<1> QED BY <1>1 DEF InPlace, Places

LEMMA QuietCode ==
  ASSUME NEW body, Len(body.code) \in Nat, NEW p \in Quiet(body)
  PROVE  /\ p \in Places(body)
         /\ body.code[p].op \in {"log", "endfinally"}
         /\ body.code[p].op = "log" => p + 1 \in Quiet(body)
<1>1. p \in Places(body) /\ p \in Nat
  BY DEF Quiet, Places
<1>2. PICK end \in p .. Len(body.code) :
        body.code[end].op = "endfinally" /\ \A q \in p .. end - 1 : body.code[q].op = "log"
  BY DEF Quiet
<1>3. CASE end = p
  BY <1>1, <1>2, <1>3
<1>4. CASE end # p
  <2>1. p \in p .. end - 1
    BY <1>1, <1>4
  <2>2. body.code[p].op = "log"
    BY <1>2, <2>1
  <2>3. p + 1 \in Places(body) /\ end \in p + 1 .. Len(body.code)
    BY <1>1, <1>4 DEF Places
  <2>4. \A q \in p + 1 .. end - 1 : body.code[q].op = "log"
    BY <1>1, <1>2
  <2>5. p + 1 \in Quiet(body)
    BY <1>2, <2>3, <2>4 DEF Quiet
  <2> QED BY <1>1, <2>2, <2>5
<1> QED BY <1>3, <1>4

-----------------------------------------------------------------------------
(* Method states *)

LEMMA FrameType ==
  ASSUME NEW pr, Structured(pr), NEW m \in MethodsOf(pr)
  PROVE  MayBe(pr, Frame(m)) /\ GoesOn(pr, Frame(m), 1) /\ Frame(m).method = m
<1>1. Frame(m) \in State(pr) /\ Frame(m).ipOffset = 1 /\ Frame(m).endFinally = 0 /\ Frame(m).method = m
  BY DEF Frame, State
<1> QED BY <1>1, BodyOK DEF MayBe, GoesOn, Body, Places

(* SAVE_METHOD_STATE stores the place only. *)
LEMMA FrameSaved ==
  ASSUME NEW pr, NEW f, MayBe(pr, f), Structured(pr), NEW p \in 1 .. Len(Body(pr, f).code) + 1
  PROVE  LET g == [f EXCEPT !.ipOffset = p] IN
         /\ MayBe(pr, g) /\ Body(pr, g) = Body(pr, f) /\ g.ipOffset = p
         /\ g.method = f.method /\ g.endFinally = f.endFinally /\ g.nextDelegate = f.nextDelegate
         /\ \A q : GoesOn(pr, f, q) <=> GoesOn(pr, g, q)
<1> DEFINE g == [f EXCEPT !.ipOffset = p]
<1>1. f \in State(pr) /\ Len(Body(pr, f).code) \in Nat
  BY BodyOK DEF MayBe, State, Body
<1>2. g \in State(pr) /\ g.ipOffset = p /\ g.method = f.method /\ g.endFinally = f.endFinally
      /\ g.nextDelegate = f.nextDelegate
  BY <1>1 DEF State
<1>3. Body(pr, g) = Body(pr, f)
  BY <1>2 DEF Body
<1> QED BY <1>2, <1>3 DEF MayBe, GoesOn

LEMMA SavedFacts ==
  ASSUME NEW pr, Structured(pr), NEW s, StackOK(pr, s),
         NEW p \in 1 .. Len(Body(pr, s[Len(s)]).code) + 1
  PROVE  LET t == Saved(s, p)
             f == s[Len(s)]
         IN /\ Len(t) = Len(s) /\ Len(s) \in Nat \ {0}
            /\ t[Len(s)] = [f EXCEPT !.ipOffset = p]
            /\ \A n \in 1 .. Len(s) - 1 : t[n] = s[n]
            /\ StackOK(pr, t)
<1> DEFINE t == Saved(s, p)
           f == s[Len(s)]
           g == [f EXCEPT !.ipOffset = p]
<1>1. s \in Seq(State(pr)) /\ Len(s) \in Nat \ {0} /\ MayBe(pr, f) /\ f \in State(pr)
  BY DEF StackOK
<1>2. t = [s EXCEPT ![Len(s)] = g]
  BY DEF Saved
<1>3. MayBe(pr, g)
  BY <1>1, FrameSaved
<1>4. g \in State(pr)
  BY <1>3 DEF MayBe
<1> HIDE DEF t, g
<1>5. t \in Seq(State(pr)) /\ Len(t) = Len(s) /\ t[Len(s)] = g
      /\ \A n \in 1 .. Len(s) - 1 : t[n] = s[n]
  BY <1>1, <1>2, <1>4
<1>6. StackOK(pr, t)
  BY <1>1, <1>3, <1>5 DEF StackOK
<1> QED BY <1>1, <1>5, <1>6 DEF t, g

(* The same without the record. *)
LEMMA SavedAs ==
  ASSUME NEW pr, Structured(pr), NEW s, StackOK(pr, s), NEW body, body = Body(pr, s[Len(s)]),
         NEW p \in 1 .. Len(body.code) + 1, NEW t, t = Saved(s, p)
  PROVE  /\ StackOK(pr, t) /\ Len(t) = Len(s)
         /\ Body(pr, t[Len(t)]) = body /\ t[Len(t)].ipOffset = p
         /\ \A n \in 1 .. Len(s) - 1 : t[n] = s[n]
<1> DEFINE f == s[Len(s)]
           g == [f EXCEPT !.ipOffset = p]
<1>1. /\ StackOK(pr, t) /\ Len(t) = Len(s) /\ t[Len(s)] = g
      /\ \A n \in 1 .. Len(s) - 1 : t[n] = s[n]
  BY SavedFacts
<1>2. MayBe(pr, f)
  BY DEF StackOK
<1>3. Body(pr, g) = Body(pr, f) /\ g.ipOffset = p
  BY <1>2, FrameSaved
<1> HIDE DEF g
<1> QED BY <1>1, <1>3

(* A call: the caller waits at p. *)
LEMMA PushOK ==
  ASSUME NEW pr, Structured(pr), NEW s, StackOK(pr, s), NEW m \in MethodsOf(pr), NEW p,
         GoesOn(pr, s[Len(s)], p)
  PROVE  LET t == Append(Saved(s, p), Frame(m)) IN
         StackOK(pr, t) /\ GoesOn(pr, t[Len(t)], 1)
<1> DEFINE f == s[Len(s)]
           u == Saved(s, p)
           t == Append(u, Frame(m))
<1>1. p \in 1 .. Len(Body(pr, f).code) + 1 /\ MayBe(pr, f)
  <2>1. MayBe(pr, f) /\ f.method \in MethodsOf(pr)
    BY DEF StackOK, MayBe, State
  <2>2. Len(Body(pr, f).code) \in Nat
    BY <2>1, BodyOK DEF Body
  <2> QED BY <2>1, <2>2 DEF GoesOn, Places
<1>2. /\ StackOK(pr, u) /\ Len(u) = Len(s) /\ Len(s) \in Nat \ {0}
      /\ u[Len(s)] = [f EXCEPT !.ipOffset = p]
  BY <1>1, SavedFacts
<1>3. Waits(pr, u[Len(u)])
  BY <1>1, <1>2, FrameSaved DEF Waits
<1>4. MayBe(pr, Frame(m)) /\ GoesOn(pr, Frame(m), 1) /\ Frame(m) \in State(pr)
  BY FrameType DEF MayBe
<1> HIDE DEF u
<1>5. u \in Seq(State(pr)) /\ \A n \in 1 .. Len(u) - 1 : Waits(pr, u[n])
  BY <1>2 DEF StackOK
<1>6. /\ t \in Seq(State(pr)) /\ Len(t) = Len(u) + 1 /\ t[Len(t)] = Frame(m)
      /\ \A n \in 1 .. Len(u) : t[n] = u[n]
  BY <1>4, <1>5
<1> HIDE DEF t
<1>7. \A n \in 1 .. Len(t) - 1 : Waits(pr, t[n])
  <2> TAKE n \in 1 .. Len(t) - 1
  <2>1. n \in 1 .. Len(u) - 1 \/ n = Len(u)
    BY <1>6, <1>2
  <2> QED BY <2>1, <1>2, <1>3, <1>5, <1>6
<1>8. t # <<>>
  BY <1>6
<1>9. StackOK(pr, t)
  BY <1>4, <1>6, <1>7, <1>8 DEF StackOK
<1> QED BY <1>4, <1>6, <1>9 DEF t, u

(* The method states below n, with n, are a stack again. *)
LEMMA CutOK ==
  ASSUME NEW pr, Structured(pr), NEW s, StackOK(pr, s), NEW n \in 1 .. Len(s)
  PROVE  LET t == SubSeq(s, 1, n) IN
         /\ StackOK(pr, t) /\ Len(t) = n
         /\ \A k \in 1 .. n : t[k] = s[k]
<1> DEFINE t == SubSeq(s, 1, n)
<1>1. s \in Seq(State(pr)) /\ Len(s) \in Nat
  BY DEF StackOK
<1>2. t \in Seq(State(pr)) /\ Len(t) = n /\ \A k \in 1 .. n : t[k] = s[k]
  BY <1>1
<1>3. MayBe(pr, s[n])
  <2>1. n = Len(s) \/ n \in 1 .. Len(s) - 1
    BY <1>1
  <2> QED BY <2>1 DEF StackOK, Waits
<1> HIDE DEF t
<1>4. t # <<>>
  BY <1>2
<1>5. \A k \in 1 .. n - 1 : Waits(pr, t[k])
  BY <1>1, <1>2 DEF StackOK
<1>6. StackOK(pr, t)
  BY <1>2, <1>3, <1>4, <1>5 DEF StackOK
<1> QED BY <1>2, <1>6 DEF t
(* Where the current method state may go on, with or without being saved.  *)
LEMMA GoNextOK ==
  ASSUME NEW pr, Structured(pr), NEW s, StackOK(pr, s), NEW p, GoesOn(pr, s[Len(s)], p),
         NEW t \in {s, Saved(s, p)}
  PROVE  StackOK(pr, t) /\ GoesOn(pr, t[Len(t)], p)
<1> DEFINE f == s[Len(s)]
<1>1. MayBe(pr, f) /\ f.method \in MethodsOf(pr)
  BY DEF StackOK, MayBe, State
<1>2. p \in 1 .. Len(Body(pr, f).code) + 1
  <2>1. Len(Body(pr, f).code) \in Nat
    BY <1>1, BodyOK DEF Body
  <2> QED BY <2>1 DEF GoesOn, Places
<1>3. CASE t = Saved(s, p)
  <2>1. StackOK(pr, t) /\ Len(t) = Len(s) /\ t[Len(s)] = [f EXCEPT !.ipOffset = p]
    BY <1>2, <1>3, SavedFacts
  <2> QED BY <2>1, <1>1, <1>2, FrameSaved
<1>4. CASE t = s
  BY <1>4
<1> QED BY <1>3, <1>4

-----------------------------------------------------------------------------
(* Steps *)

LEMMA Closing ==
  ASSUME IInv, prog' = prog,
         Good(prog, stack', pc', status', nextFinally', catchDepth', catchHandler'), LogOK(log')
  PROVE  IInv'
BY DEF IInv

(* The instruction that is executed. *)
LEMMA Now ==
  ASSUME IInv, status = "run"
  PROVE  /\ StackOK(prog, stack) /\ MayBe(prog, Top) /\ Top = stack[Len(stack)]
         /\ Top.method \in MethodsOf(prog) /\ Body(prog, Top) = prog.methods[Top.method]
         /\ pc \in Places(Body(prog, Top)) /\ Instr = Body(prog, Top).code[pc]
         /\ nextFinally = 0 => GoesOn(prog, Top, pc)
         /\ nextFinally # 0 => /\ Unwinding(prog, stack, nextFinally, catchDepth, catchHandler)
                               /\ pc \in Quiet(Body(prog, Top)) /\ Instr.op \in {"log", "endfinally"}
                               /\ Instr.op = "log" => pc + 1 \in Quiet(Body(prog, Top))
<1>1. Good(prog, stack, pc, status, nextFinally, catchDepth, catchHandler) /\ Structured(prog)
  BY DEF IInv
<1>2. StackOK(prog, stack) /\ Top = stack[Len(stack)] /\ MayBe(prog, Top)
  BY <1>1 DEF Good, StackOK, Top, Depth
<1>3. Top.method \in MethodsOf(prog) /\ Body(prog, Top) = prog.methods[Top.method]
      /\ Instr = Body(prog, Top).code[pc]
  BY <1>2 DEF MayBe, State, Body, Instr, Code
<1>4. Len(Body(prog, Top).code) \in Nat
  BY <1>1, <1>3, BodyOK
<1>5. Running(prog, stack, pc, nextFinally)
  BY <1>1 DEF Good
<1>6. CASE nextFinally = 0
  <2>1. GoesOn(prog, Top, pc)
    BY <1>2, <1>5, <1>6 DEF Running
  <2> QED BY <1>2, <1>3, <1>6, <2>1 DEF GoesOn
<1>7. CASE nextFinally # 0
  <2>1. pc \in Quiet(Body(prog, Top))
    BY <1>2, <1>5, <1>7 DEF Running
  <2>2. Unwinding(prog, stack, nextFinally, catchDepth, catchHandler)
    BY <1>1, <1>7 DEF Good
  <2> QED BY <1>2, <1>3, <1>4, <1>7, <2>1, <2>2, QuietCode
<1> QED BY <1>6, <1>7

(* In code that is not run by an exception. *)
LEMMA NowUnlessQuiet ==
  ASSUME IInv, NEW op, Executing(op), op \notin {"log", "endfinally"}
  PROVE  /\ status = "run" /\ nextFinally = 0 /\ Structured(prog) /\ Instr.op = op
         /\ StackOK(prog, stack) /\ Top = stack[Len(stack)] /\ MayBe(prog, Top)
         /\ Top.method \in MethodsOf(prog) /\ Body(prog, Top) = prog.methods[Top.method]
         /\ GoesOn(prog, Top, pc) /\ pc \in Places(prog.methods[Top.method])
         /\ Instr = prog.methods[Top.method].code[pc]
         /\ LogOK(log)
BY Now DEF Executing, IInv

(* An instruction that is not the last one and goes on behind itself. *)
LEMMA NextPlace ==
  ASSUME NEW pr, Structured(pr), NEW f, f.method \in MethodsOf(pr), NEW p, GoesOn(pr, f, p),
         Body(pr, f).code[p].op \in {"log", "call", "tailcall", "invoke", "static"}
  PROVE  GoesOn(pr, f, p + 1)
BY CodeAt DEF GoesOn, Body

LEMMA GoodRunning ==
  ASSUME NEW pr, NEW s, StackOK(pr, s), NEW p, GoesOn(pr, s[Len(s)], p), NEW depth, NEW handler
  PROVE  Good(pr, s, p, "run", 0, depth, handler)
BY DEF Good, Running

LEMMA LogGood == ASSUME IInv, Log PROVE IInv'
<1>1. /\ status = "run" /\ Instr.op = "log"
      /\ prog' = prog /\ stack' = stack /\ status' = status
      /\ nextFinally' = nextFinally /\ catchDepth' = catchDepth /\ catchHandler' = catchHandler
      /\ pc' = pc + 1 /\ log' = IF Len(log) < MaxLog THEN Append(log, Instr.n) ELSE log
  BY DEF Log, Executing, thread
<1>2. Structured(prog) /\ Good(prog, stack, pc, status, nextFinally, catchDepth, catchHandler) /\ LogOK(log)
  BY DEF IInv
<1>3. Running(prog, stack, pc + 1, nextFinally)
  <2>1. CASE nextFinally = 0
    BY <1>1, <1>2, <2>1, Now, NextPlace DEF Running
  <2>2. CASE nextFinally # 0
    <3>1. pc + 1 \in Quiet(Body(prog, Top)) /\ Top = stack[Len(stack)]
      BY <1>1, <2>2, Now
    <3>2. Top.ipOffset \in Quiet(Body(prog, Top)) \cap Unwound(Body(prog, Top))
      BY <1>1, <1>2, <2>2, <3>1 DEF Good, Running
    <3> QED BY <2>2, <3>1, <3>2 DEF Running
  <2> QED BY <2>1, <2>2
<1>4. LogOK(log')
  <2>1. PICK S : log \in Seq(S)
    BY <1>2 DEF LogOK
  <2>2. Len(log) <= MaxLog /\ MaxLog \in Nat /\ Len(log) \in Nat
    BY <1>2, <2>1, LogAssumption DEF LogOK
  <2>3. CASE Len(log) < MaxLog
    <3> DEFINE T == S \cup {Instr.n}
    <3>1. log \in Seq(T) /\ Instr.n \in T
      BY <2>1, SeqDef
    <3>2. Append(log, Instr.n) \in Seq(T) /\ Len(Append(log, Instr.n)) = Len(log) + 1
      BY <3>1
    <3> HIDE DEF T
    <3> QED BY <1>1, <2>2, <2>3, <3>2 DEF LogOK
  <2>4. CASE ~ (Len(log) < MaxLog)
    BY <1>1, <1>2, <2>4
  <2> QED BY <2>3, <2>4
<1>5. Good(prog, stack', pc', status', nextFinally', catchDepth', catchHandler')
  BY <1>1, <1>2, <1>3 DEF Good
<1> QED BY <1>1, <1>4, <1>5, Closing

LEMMA CallGood == ASSUME IInv, Call PROVE IInv'
<1>1. /\ prog' = prog /\ log' = log /\ status' = status /\ nextFinally' = nextFinally
      /\ stack' = Append(Saved(stack, pc + 1), Frame(Instr.method)) /\ pc' = 1
      /\ Executing("call")
  BY DEF Call, Push, thread
<1>2. GoesOn(prog, Top, pc + 1) /\ Instr.method \in MethodsOf(prog)
  BY <1>1, NowUnlessQuiet, NextPlace, CallAt
<1>3. StackOK(prog, stack') /\ GoesOn(prog, stack'[Len(stack')], pc')
  BY <1>1, <1>2, NowUnlessQuiet, PushOK
<1> QED BY <1>1, <1>3, GoodRunning, NowUnlessQuiet, Closing

(* The current method state is replaced by another one. *)
LEMMA ReplaceOK ==
  ASSUME NEW pr, Structured(pr), NEW s, StackOK(pr, s), NEW g, MayBe(pr, g)
  PROVE  LET t == [s EXCEPT ![Len(s)] = g] IN
         StackOK(pr, t) /\ Len(t) = Len(s) /\ t[Len(t)] = g
<1> DEFINE t == [s EXCEPT ![Len(s)] = g]
<1>1. s \in Seq(State(pr)) /\ Len(s) \in Nat \ {0} /\ g \in State(pr)
  BY DEF StackOK, MayBe
<1>2. t \in Seq(State(pr)) /\ Len(t) = Len(s) /\ t[Len(s)] = g
      /\ \A n \in 1 .. Len(s) - 1 : t[n] = s[n]
  BY <1>1
<1> HIDE DEF t
<1>3. t # <<>>
  BY <1>1, <1>2
<1>4. StackOK(pr, t)
  BY <1>1, <1>2, <1>3 DEF StackOK
<1> QED BY <1>2, <1>4 DEF t

LEMMA TailCallGood == ASSUME IInv, TailCall PROVE IInv'
<1>1. prog' = prog /\ log' = log /\ status' = status /\ nextFinally' = nextFinally
      /\ Executing("tailcall")
  BY DEF TailCall, thread
<1>2. GoesOn(prog, Top, pc + 1) /\ Instr.method \in MethodsOf(prog)
  BY <1>1, NowUnlessQuiet, NextPlace, CallAt
<1>3. StackOK(prog, stack') /\ GoesOn(prog, stack'[Len(stack')], pc')
  <2>1. CASE stack' = Append(Saved(stack, pc + 1), Frame(Instr.method)) /\ pc' = 1
    BY <1>1, <1>2, <2>1, NowUnlessQuiet, PushOK
  <2>2. CASE stack' = [stack EXCEPT ![Depth] = Frame(Instr.method)] /\ pc' = 1
    <3> DEFINE g == Frame(Instr.method)
    <3>1. stack' = [stack EXCEPT ![Len(stack)] = g] /\ pc' = 1
      BY <2>2 DEF Depth
    <3>2. StackOK(prog, stack) /\ Structured(prog)
      BY <1>1, NowUnlessQuiet
    <3>3. MayBe(prog, g) /\ GoesOn(prog, g, 1)
      BY <1>2, <3>2, FrameType
    <3> HIDE DEF g
    <3>4. StackOK(prog, [stack EXCEPT ![Len(stack)] = g])
      BY <3>2, <3>3, ReplaceOK
    <3>5. stack'[Len(stack')] = g
      BY <3>1, <3>2, <3>3, ReplaceOK
    <3> QED BY <3>1, <3>3, <3>4, <3>5
  <2> QED BY <2>1, <2>2 DEF TailCall, Push
<1> QED BY <1>1, <1>3, GoodRunning, NowUnlessQuiet, Closing

(* The first of some delegates is called and the others are remembered. *)
LEMMA InvokeFirstOK ==
  ASSUME NEW s, StackOK(prog, s), Structured(prog), NEW p, GoesOn(prog, s[Len(s)], p),
         NEW ms \in Seq(MethodsOf(prog)), ms # <<>>, InvokeFirst(s, p, ms)
  PROVE  StackOK(prog, stack') /\ GoesOn(prog, stack'[Len(stack')], pc')
<1> DEFINE f == s[Len(s)]
           g == [f EXCEPT !.nextDelegate = Rest(ms)]
           t == [s EXCEPT ![Len(s)].nextDelegate = Rest(ms)]
<1>1. stack' = Append(Saved(t, p), Frame(Head(ms))) /\ pc' = 1
  BY DEF InvokeFirst, Push
<1>2. Rest(ms) \in Seq(MethodsOf(prog)) /\ Head(ms) \in MethodsOf(prog)
  BY DEF Rest
<1>3. MayBe(prog, f) /\ f \in State(prog)
  BY DEF StackOK, MayBe
<1>4. g \in State(prog) /\ g.method = f.method /\ g.ipOffset = f.ipOffset /\ g.endFinally = f.endFinally
  BY <1>2, <1>3 DEF State
<1>5. MayBe(prog, g) /\ GoesOn(prog, g, p)
  BY <1>3, <1>4 DEF MayBe, GoesOn, Body
<1>6. t = [s EXCEPT ![Len(s)] = g]
  OBVIOUS
<1> HIDE DEF t, g
<1>7. StackOK(prog, t) /\ t[Len(t)] = g
  <2>1. StackOK(prog, s) /\ Structured(prog) /\ MayBe(prog, g)
    BY <1>5
  <2>2. StackOK(prog, [s EXCEPT ![Len(s)] = g])
    BY ONLY <2>1, ReplaceOK
  <2>3. [s EXCEPT ![Len(s)] = g][Len([s EXCEPT ![Len(s)] = g])] = g
    BY ONLY <2>1, ReplaceOK
  <2> QED BY <1>6, <2>2, <2>3
<1> QED BY <1>1, <1>2, <1>5, <1>7, PushOK

LEMMA InvokeDelegateGood == ASSUME IInv, InvokeDelegate PROVE IInv'
<1>1. /\ prog' = prog /\ log' = log /\ nextFinally' = nextFinally
      /\ catchDepth' = catchDepth /\ catchHandler' = catchHandler
      /\ Executing("invoke")
  BY DEF InvokeDelegate, thread
<1>2. /\ GoesOn(prog, Top, pc + 1)
      /\ Instr.methods \in Seq(MethodsOf(prog)) /\ Instr.methods # <<>>
  BY <1>1, NowUnlessQuiet, NextPlace, InvokeAt
<1>3. CASE InvokeFirst(stack, pc + 1, Instr.methods) /\ status' = status
  <2>1. StackOK(prog, stack') /\ GoesOn(prog, stack'[Len(stack')], pc')
    BY <1>1, <1>2, <1>3, NowUnlessQuiet, InvokeFirstOK
  <2> QED BY <1>1, <1>3, <2>1, GoodRunning, NowUnlessQuiet, Closing
<1>4. CASE status' = "wild" /\ stack' = stack /\ pc' = pc
  <2>1. Good(prog, stack', pc', status', nextFinally', catchDepth', catchHandler')
    BY <1>1, <1>4, NowUnlessQuiet DEF Good
  <2> QED BY <1>1, <2>1, NowUnlessQuiet, Closing
<1> QED BY <1>3, <1>4 DEF InvokeDelegate

LEMMA ReturnGood == ASSUME IInv, Return PROVE IInv'
<1>1. /\ prog' = prog /\ log' = log /\ nextFinally' = nextFinally
      /\ catchDepth' = catchDepth /\ catchHandler' = catchHandler
      /\ Executing("return")
  BY DEF Return, thread
<1>2. /\ status = "run" /\ nextFinally = 0 /\ Structured(prog) /\ StackOK(prog, stack) /\ LogOK(log)
  BY <1>1, NowUnlessQuiet
<1>3. CASE Depth = 1
  <2>1. status' = "exit" /\ stack' = stack /\ pc' = pc
    BY <1>3 DEF Return
  <2>2. Good(prog, stack', pc', status', nextFinally', catchDepth', catchHandler')
    BY <1>1, <1>2, <2>1 DEF Good
  <2> QED BY <1>1, <1>2, <2>2, Closing
<1>4. CASE Depth # 1
  <2> DEFINE callers == SubSeq(stack, 1, Depth - 1)
             caller == callers[Depth - 1]
  <2>1. Len(stack) \in Nat \ {0} /\ Depth - 1 \in 1 .. Len(stack) /\ Depth = Len(stack)
    <3>1. stack \in Seq(State(prog)) /\ stack # <<>>
      BY <1>2 DEF StackOK
    <3>2. Len(stack) \in Nat \ {0} /\ Depth = Len(stack)
      BY <3>1 DEF Depth
    <3> QED BY <1>4, <3>2
  <2>2. StackOK(prog, callers) /\ Len(callers) = Depth - 1 /\ caller = stack[Depth - 1]
    BY <1>2, <2>1, CutOK
  <2>3. Waits(prog, caller)
    BY <1>2, <2>1, <2>2 DEF StackOK
  <2>4. GoesOn(prog, callers[Len(callers)], caller.ipOffset) /\ caller \in State(prog)
    BY <2>2, <2>3 DEF Waits, MayBe
  <2>5. caller.nextDelegate \in Seq(MethodsOf(prog))
    BY <2>4 DEF State
  <2>6. /\ IF caller.nextDelegate = <<>>
           THEN stack' = callers /\ pc' = caller.ipOffset
           ELSE InvokeFirst(callers, caller.ipOffset, caller.nextDelegate)
        /\ status' = status
    BY <1>4 DEF Return
  <2> HIDE DEF callers, caller
  <2>7. StackOK(prog, stack') /\ GoesOn(prog, stack'[Len(stack')], pc')
    <3>1. CASE caller.nextDelegate = <<>>
      BY <2>2, <2>4, <2>6, <3>1
    <3>2. CASE caller.nextDelegate # <<>>
      BY <1>2, <2>2, <2>4, <2>5, <2>6, <3>2, InvokeFirstOK
    <3> QED BY <3>1, <3>2
  <2> QED BY <1>1, <1>2, <2>6, <2>7, GoodRunning, Closing
<1> QED BY <1>3, <1>4

LEMMA LoadStaticFieldGood == ASSUME IInv, LoadStaticField PROVE IInv'
<1>1. prog' = prog /\ log' = log /\ status' = status /\ nextFinally' = nextFinally
      /\ Executing("static")
  BY DEF LoadStaticField, thread
<1>2. GoesOn(prog, Top, pc + 1) /\ Instr.cctor \in MethodsOf(prog) \cup {"none"}
  BY <1>1, NowUnlessQuiet, NextPlace, StaticAt
<1>3. StackOK(prog, stack') /\ GoesOn(prog, stack'[Len(stack')], pc')
  <2>1. CASE Instr.cctor # "none" /\ stack' = Append(Saved(stack, pc), Frame(Instr.cctor)) /\ pc' = 1
    BY <1>1, <1>2, <2>1, NowUnlessQuiet, PushOK
  <2>2. CASE pc' = pc + 1 /\ stack' = stack
    BY <1>1, <1>2, <2>2, NowUnlessQuiet
  <2> QED BY <2>1, <2>2 DEF LoadStaticField, Push
<1> QED BY <1>1, <1>3, GoodRunning, NowUnlessQuiet, Closing

LEMMA HandlerOK ==
  ASSUME NEW pr, Structured(pr), NEW m \in MethodsOf(pr), NEW n \in 1 .. Len(pr.methods[m].handlers)
  PROVE  LET body == pr.methods[m]
             h == body.handlers[n]
             final == Final(pr, m)
         IN /\ {h.start, h.tryStart, h.tryEnd} \subseteq Places(body)
            /\ h.kind = "catch" /\ h.start \in final => h.tryStart .. h.tryEnd \subseteq final
            /\ h.kind = "finally" =>
                 \A p \in Unwound(body) :
                   p - 1 \in Covered(h) => {p, h.start} \subseteq Quiet(body) /\ h.start \in Unwound(body)
BY BodyOK DEF HandlersInPlace, UnwindsInPlace

(* The two outcomes of unwinding: the handler is reached, or a finally     *)
(* block is on the way.                                                    *)
LEMMA UnwindCaught ==
  ASSUME NEW s, Structured(prog), StackOK(prog, s), NEW depth \in 1 .. Len(s), NEW handler, NEW p,
         p = Body(prog, s[depth]).handlers[handler].start, GoesOn(prog, s[depth], p),
         stack' = Saved(SubSeq(s, 1, depth), p), pc' = p, status' = "run", nextFinally' = 0
  PROVE  Good(prog, stack', pc', status', nextFinally', depth, handler)
<1> DEFINE t == SubSeq(s, 1, depth)
<1>1. StackOK(prog, t) /\ Len(t) = depth /\ t[depth] = s[depth]
  BY CutOK
<1>2. GoesOn(prog, t[Len(t)], p)
  BY <1>1
<1> HIDE DEF t
<1>3. StackOK(prog, Saved(t, p)) /\ GoesOn(prog, Saved(t, p)[Len(Saved(t, p))], p)
  BY <1>1, <1>2, GoNextOK
<1> QED BY <1>3, GoodRunning DEF t

LEMMA UnwindFinally ==
  ASSUME NEW s, Structured(prog), StackOK(prog, s), NEW depth, NEW handler,
         NEW n \in 1 .. Len(s), Caught(prog, SubSeq(s, 1, n), depth, handler),
         NEW i \in 1 .. Len(Body(prog, s[n]).handlers),
         n = Len(s) => /\ s[n].ipOffset \in Quiet(Body(prog, s[n])) \cap Unwound(Body(prog, s[n]))
                       /\ Body(prog, s[n]).handlers[i].start \in Quiet(Body(prog, s[n])) \cap Unwound(Body(prog, s[n])),
         GoNextCheck(Saved(SubSeq(s, 1, n), Body(prog, s[n]).handlers[i].start), s[n].ipOffset),
         nextFinally' = i, status' = IF n = Len(s) THEN "run" ELSE "wild"
  PROVE  Good(prog, stack', pc', status', nextFinally', depth, handler)
<1> DEFINE t == SubSeq(s, 1, n)
           f == s[n]
           body == Body(prog, f)
           start == body.handlers[i].start
           u == Saved(t, start)
           q == f.ipOffset
           v == Saved(u, q)
<1>1. StackOK(prog, t) /\ Len(t) = n /\ t[n] = f /\ Len(t) \in Nat
  BY CutOK
<1>2. MayBe(prog, f) /\ f.method \in MethodsOf(prog) /\ body = prog.methods[f.method]
  BY <1>1 DEF StackOK, MayBe, State, Body
<1>3. start \in 1 .. Len(body.code) + 1
  <2>1. Len(body.code) \in Nat
    BY <1>2, BodyOK
  <2>2. start \in Places(body)
    BY <1>2, HandlerOK
  <2> QED BY <2>1, <2>2 DEF Places
<1>4. q \in 1 .. Len(body.code) + 1
  BY <1>2 DEF MayBe
<1>5. body = Body(prog, f)
  OBVIOUS
<1> HIDE DEF t, start, body, f
<1>6. /\ StackOK(prog, u) /\ Len(u) = n /\ Body(prog, u[n]) = body /\ u[n].ipOffset = start
      /\ \A k \in 1 .. n - 1 : u[k] = t[k]
  <2>1. u = Saved(t, start) /\ Structured(prog) /\ body = Body(prog, t[Len(t)])
    BY <1>1, <1>5
  <2> HIDE DEF u
  <2>2. StackOK(prog, u) /\ Len(u) = Len(t) /\ Body(prog, u[Len(u)]) = body /\ u[Len(u)].ipOffset = start
        /\ \A k \in 1 .. Len(t) - 1 : u[k] = t[k]
    BY ONLY <1>1, <1>3, <2>1, SavedAs
  <2> QED BY <1>1, <2>2
<1> HIDE DEF u, q
<1>7. body = Body(prog, u[Len(u)])
  BY <1>6
<1>8. /\ StackOK(prog, v) /\ Len(v) = Len(u) /\ Body(prog, v[Len(v)]) = body /\ v[Len(v)].ipOffset = q
      /\ \A k \in 1 .. Len(u) - 1 : v[k] = u[k]
  <2>1. v = Saved(u, q) /\ Structured(prog) /\ StackOK(prog, u)
    BY <1>6
  <2> HIDE DEF v
  <2> QED BY <1>4, <1>7, <2>1, SavedAs
<1>9. /\ StackOK(prog, stack') /\ Len(stack') = n /\ Body(prog, stack'[n]) = body
       /\ stack'[n].ipOffset \in {start, q} /\ pc' = q
       /\ \A k \in 1 .. n - 1 : stack'[k] = t[k]
  <2>1. stack' \in {u, v} /\ pc' = q
    BY DEF GoNextCheck, u, v, t, start, body, f, q
  <2> HIDE DEF v
  <2>2. CASE stack' = u
    BY <2>1, <2>2, <1>6
  <2>3. CASE stack' = v
    BY <2>1, <2>3, <1>6, <1>8
  <2> QED BY <2>1, <2>2, <2>3
<1>10. Unwinding(prog, stack', i, depth, handler)
  <2>1. Caught(prog, t, depth, handler)
    BY DEF t
  <2>2. depth \in 1 .. n - 1 /\ stack'[depth] = t[depth]
    BY <1>1, <1>9, <2>1 DEF Caught
  <2>3. Caught(prog, stack', depth, handler)
    BY <1>9, <2>1, <2>2 DEF Caught
  <2> QED BY <1>9, <2>3 DEF Unwinding, body, f
<1>11. n = Len(s) => Running(prog, stack', pc', i)
  BY <1>9 DEF Running, start, body, f, q
<1> QED BY <1>9, <1>10, <1>11 DEF Good

LEMMA InTryIs ==
  ASSUME NEW f, f.method \in MethodsOf(prog), Structured(prog), NEW i, i \in DOMAIN Handlers(f), NEW kind, InTry(f, i, kind),
         f.ipOffset \in Nat
  PROVE  /\ i \in 1 .. Len(Body(prog, f).handlers)
         /\ Body(prog, f).handlers[i].kind = kind
         /\ f.ipOffset - 1 \in Covered(Body(prog, f).handlers[i])
<1> DEFINE h == Body(prog, f).handlers[i]
<1>1. Handlers(f) = Body(prog, f).handlers /\ i \in 1 .. Len(Body(prog, f).handlers)
  BY BodyOK DEF Handlers, Body
<1>2. {h.start, h.tryStart, h.tryEnd} \subseteq Places(Body(prog, f))
  BY <1>1, HandlerOK DEF Body
<1>3. Len(Body(prog, f).code) \in Nat
  BY BodyOK DEF Body
<1>4. h.tryStart \in Nat /\ h.tryEnd \in Nat
  BY <1>2, <1>3 DEF Places
<1>5. h.kind = kind /\ f.ipOffset - 1 >= h.tryStart /\ f.ipOffset - 1 < h.tryEnd
  BY <1>1 DEF InTry
<1> HIDE DEF h
<1>6. f.ipOffset - 1 \in h.tryStart .. h.tryEnd - 1
  BY <1>4, <1>5
<1> QED BY <1>1, <1>5, <1>6 DEF Covered, h

LEMMA FrameAt ==
  ASSUME NEW pr, NEW s, StackOK(pr, s), NEW n \in 1 .. Len(s)
  PROVE  MayBe(pr, s[n]) /\ s[n].method \in MethodsOf(pr) /\ s[n].ipOffset \in Nat
<1>1. Len(s) \in Nat
  BY DEF StackOK
<1>2. n = Len(s) \/ n \in 1 .. Len(s) - 1
  BY <1>1
<1>3. MayBe(pr, s[n])
  BY <1>2 DEF StackOK, Waits
<1> QED BY <1>3 DEF MayBe, State

(* Unwinding stops at a finally block or at the handler. *)
LEMMA UnwindOK ==
  ASSUME Structured(prog), NEW s, StackOK(prog, s), status = "run",
         NEW depth \in 1 .. Len(s), NEW handler \in 1 .. Len(Body(prog, s[depth]).handlers),
         GoesOn(prog, s[depth], Body(prog, s[depth]).handlers[handler].start),
         NEW next, next # 0 => depth < Len(s),
         s[Len(s)].ipOffset \in Unwound(Body(prog, s[Len(s)])),
         Unwind(s, next, depth, handler)
  PROVE  Good(prog, stack', pc', status', nextFinally', depth, handler)
<1> DEFINE reach == [n \in depth + 1 .. Len(s) |-> Finallys(s[n], IF n = Len(s) THEN next ELSE 0)]
           stops == {n \in depth + 1 .. Len(s) : reach[n] # {}}
           n == CHOOSE k \in stops : \A j \in stops : j <= k
           i == First(reach[n])
           caught == Handlers(s[depth])[handler].start
<1>1. IF stops = {}
      THEN /\ stack' = Saved(SubSeq(s, 1, depth), caught)
           /\ pc' = caught
           /\ nextFinally' = AfterCatch(s, depth, next)
           /\ status' = status
      ELSE /\ GoNextCheck(Saved(SubSeq(s, 1, n), Handlers(s[n])[i].start), s[n].ipOffset)
           /\ nextFinally' = i
           /\ status' = IF n = Len(s) THEN status ELSE "wild"
  BY DEF Unwind
<1>2. Len(s) \in Nat
  BY DEF StackOK
<1>3. CASE stops = {}
  <2>1. nextFinally' = 0
    BY <1>1, <1>2, <1>3 DEF AfterCatch
  <2>2. caught = Body(prog, s[depth]).handlers[handler].start
    BY DEF Handlers, Body
  <2> HIDE DEF caught, stops, n, i
  <2> QED BY <1>1, <1>3, <2>1, <2>2, UnwindCaught
<1>4. CASE stops # {}
  <2>1. n \in stops
    <3>1. stops \in SUBSET (1 .. Len(s))
      BY <1>2
    <3> HIDE DEF stops
    <3>2. \E k \in stops : \A j \in stops : j <= k
      BY <1>2, <1>4, <3>1, MostOf
    <3> QED BY <3>2
  <2>2. n \in depth + 1 .. Len(s) /\ n \in 1 .. Len(s)
        /\ reach[n] # {} /\ reach[n] = Finallys(s[n], IF n = Len(s) THEN next ELSE 0)
    <3> HIDE DEF n
    <3>1. n \in depth + 1 .. Len(s) /\ reach[n] # {}
      <4> HIDE DEF reach
      <4> QED BY <2>1
    <3>2. n \in 1 .. Len(s)
      BY <1>2, <3>1
    <3>3. reach[n] = Finallys(s[n], IF n = Len(s) THEN next ELSE 0)
      BY <3>1
    <3> HIDE DEF reach
    <3> QED BY <3>1, <3>2, <3>3
  <2> HIDE DEF n, reach, stops
  <2>3. MayBe(prog, s[n]) /\ s[n].method \in MethodsOf(prog) /\ s[n].ipOffset \in Nat
    BY <2>2, FrameAt
  <2>4. DOMAIN Handlers(s[n]) = 1 .. Len(Body(prog, s[n]).handlers)
        /\ Handlers(s[n]) = Body(prog, s[n]).handlers
    BY <2>3, BodyOK DEF Handlers, Body
  <2>5. i \in reach[n]
    <3>1. reach[n] \subseteq Nat
      BY <2>2, <2>4 DEF Finallys
    <3> QED BY <2>2, <3>1, FirstIs
  <2>6. i \in DOMAIN Handlers(s[n]) /\ InTry(s[n], i, "finally")
    BY <2>2, <2>5 DEF Finallys
  <2> HIDE DEF i
  <2>7. /\ i \in 1 .. Len(Body(prog, s[n]).handlers)
        /\ Body(prog, s[n]).handlers[i].kind = "finally"
        /\ s[n].ipOffset - 1 \in Covered(Body(prog, s[n]).handlers[i])
    BY <2>3, <2>6, InTryIs
  <2>8. n = Len(s) => /\ s[n].ipOffset \in Quiet(Body(prog, s[n])) \cap Unwound(Body(prog, s[n]))
                      /\ Body(prog, s[n]).handlers[i].start \in Quiet(Body(prog, s[n])) \cap Unwound(Body(prog, s[n]))
    BY <2>3, <2>7, HandlerOK DEF Body
  <2>9. Caught(prog, SubSeq(s, 1, n), depth, handler)
    <3>1. Len(SubSeq(s, 1, n)) = n /\ \A k \in 1 .. n : SubSeq(s, 1, n)[k] = s[k]
      BY <2>2, CutOK
    <3>2. depth \in 1 .. n - 1 /\ depth \in 1 .. n
      BY <1>2, <2>2
    <3> QED BY <3>1, <3>2 DEF Caught
  <2>10. /\ GoNextCheck(Saved(SubSeq(s, 1, n), Body(prog, s[n]).handlers[i].start), s[n].ipOffset)
         /\ nextFinally' = i /\ status' = IF n = Len(s) THEN "run" ELSE "wild"
    BY <1>1, <1>4, <2>4
  <2> QED BY <2>2, <2>7, <2>8, <2>9, <2>10, UnwindFinally
<1> QED BY <1>3, <1>4

(* The handler found for an exception may be entered. *)
LEMMA CatchFound ==
  ASSUME Structured(prog), NEW f, MayBe(prog, f), NEW type, Catches(f, type) # {},
         \/ GoesOn(prog, f, f.ipOffset)
         \/ GoesOn(prog, f, f.ipOffset - 1)
  PROVE  LET handler == First(Catches(f, type)) IN
         /\ handler \in 1 .. Len(Body(prog, f).handlers)
         /\ GoesOn(prog, f, Body(prog, f).handlers[handler].start)
<1> DEFINE handler == First(Catches(f, type))
           h == Body(prog, f).handlers[handler]
<1>1. f.method \in MethodsOf(prog) /\ f.ipOffset \in Nat
  BY DEF MayBe, State
<1>2. DOMAIN Handlers(f) = 1 .. Len(Body(prog, f).handlers)
  BY <1>1, BodyOK DEF Handlers, Body
<1>3. Catches(f, type) \subseteq Nat
  BY <1>2 DEF Catches
<1>4. handler \in Catches(f, type)
  BY <1>3, FirstIs
<1>5. handler \in DOMAIN Handlers(f) /\ InTry(f, handler, "catch")
  BY <1>4 DEF Catches
<1> HIDE DEF handler
<1>6. handler \in 1 .. Len(Body(prog, f).handlers) /\ h.kind = "catch" /\ f.ipOffset - 1 \in Covered(h)
  BY <1>1, <1>5, InTryIs
<1>7. /\ {h.start, h.tryStart, h.tryEnd} \subseteq Places(Body(prog, f))
      /\ h.start \in Final(prog, f.method) => h.tryStart .. h.tryEnd \subseteq Final(prog, f.method)
  BY <1>1, <1>6, HandlerOK DEF Body
<1>8. h.start \in Final(prog, f.method) => f.endFinally > 0
  <2>1. h.tryStart \in Nat /\ h.tryEnd \in Nat
    <3>1. Len(Body(prog, f).code) \in Nat
      BY <1>1, BodyOK DEF Body
    <3> QED BY <3>1, <1>7 DEF Places
  <2> HIDE DEF h
  <2>2. f.ipOffset \in h.tryStart .. h.tryEnd /\ f.ipOffset - 1 \in h.tryStart .. h.tryEnd
    BY <1>1, <1>6, <2>1 DEF Covered
  <2> QED BY <1>7, <2>2 DEF GoesOn
<1> QED BY <1>6, <1>7, <1>8 DEF GoesOn, handler

LEMMA ThrowGood ==
  ASSUME IInv, NEW op \in {"throw", "rethrow"}, Executing(op), NEW type,
         ThrowException(Saved(stack, pc + 1), type)
  PROVE  IInv'
<1> DEFINE s == Saved(stack, pc + 1)
           frames == CatchFrames(s, type)
           body == Body(prog, Top)
<1>1. /\ status = "run" /\ nextFinally = 0 /\ Structured(prog) /\ Instr.op = op
      /\ StackOK(prog, stack) /\ Top = stack[Len(stack)] /\ MayBe(prog, Top)
      /\ Top.method \in MethodsOf(prog) /\ body = prog.methods[Top.method]
      /\ GoesOn(prog, Top, pc) /\ pc \in Places(body) /\ Instr = body.code[pc]
      /\ LogOK(log)
  BY NowUnlessQuiet
<1>2. prog' = prog /\ log' = log
  BY DEF ThrowException
<1>3. pc \in Nat /\ pc + 1 \in 1 .. Len(body.code) + 1
  <2>1. Len(body.code) \in Nat
    BY <1>1, BodyOK
  <2> QED BY <1>1, <2>1 DEF Places
<1>4. pc + 1 \in Unwound(body)
  <2>1. pc \in Throws(body)
    BY <1>1 DEF Throws
  <2> QED BY <2>1 DEF Unwound
<1> HIDE DEF body
<1>5. /\ StackOK(prog, s) /\ Len(s) = Len(stack) /\ Len(stack) \in Nat
      /\ s[Len(s)] = [Top EXCEPT !.ipOffset = pc + 1]
      /\ \A n \in 1 .. Len(s) - 1 : s[n] = stack[n]
  BY <1>1, <1>3, SavedFacts DEF body
<1>6. /\ Body(prog, s[Len(s)]) = body /\ s[Len(s)].ipOffset = pc + 1
      /\ GoesOn(prog, s[Len(s)], pc)
  <2> DEFINE g == [Top EXCEPT !.ipOffset = pc + 1]
  <2>1. Body(prog, g) = body /\ g.ipOffset = pc + 1 /\ GoesOn(prog, g, pc)
    BY <1>1, <1>3, FrameSaved DEF body
  <2> QED BY <1>5, <2>1
<1> HIDE DEF s
<1>7. CASE frames = {}
  <2>1. status' = "crash" /\ stack' = stack /\ nextFinally' = 0
    BY <1>1, <1>7 DEF ThrowException, s
  <2>2. Good(prog, stack', pc', status', nextFinally', catchDepth', catchHandler')
    BY <1>1, <2>1 DEF Good
  <2> QED BY <1>1, <1>2, <2>2, Closing
<1>8. CASE frames # {}
  <2> DEFINE depth == CHOOSE n \in frames : \A k \in frames : k <= n
             handler == First(Catches(s[depth], type))
  <2>1. catchDepth' = depth /\ catchHandler' = handler /\ Unwind(s, nextFinally, depth, handler)
    BY <1>8 DEF ThrowException, s
  <2>2. depth \in frames
    <3>1. frames \in SUBSET (1 .. Len(s)) /\ Len(s) \in Nat
      BY <1>5 DEF CatchFrames, StackOK
    <3> HIDE DEF frames
    <3>2. \E n \in frames : \A k \in frames : k <= n
      BY <1>8, <3>1, MostOf
    <3> QED BY <3>2
  <2> HIDE DEF depth
  <2>3. depth \in 1 .. Len(s) /\ Catches(s[depth], type) # {}
    BY <1>5, <2>2 DEF CatchFrames, StackOK
  <2>4. MayBe(prog, s[depth])
    BY <1>5, <2>3, FrameAt
  <2>5. GoesOn(prog, s[depth], s[depth].ipOffset) \/ GoesOn(prog, s[depth], s[depth].ipOffset - 1)
    <3>1. CASE depth = Len(s)
      BY <1>3, <1>6, <3>1
    <3>2. CASE depth # Len(s)
      <4>1. depth \in 1 .. Len(s) - 1
        BY <1>5, <2>3, <3>2
      <4> QED BY <1>5, <4>1 DEF StackOK, Waits
    <3> QED BY <3>1, <3>2
  <2>6. /\ handler \in 1 .. Len(Body(prog, s[depth]).handlers)
        /\ GoesOn(prog, s[depth], Body(prog, s[depth]).handlers[handler].start)
    BY <1>1, <2>3, <2>4, <2>5, CatchFound
  <2> HIDE DEF handler
  <2>7. Good(prog, stack', pc', status', nextFinally', depth, handler)
    BY <1>1, <1>4, <1>5, <1>6, <2>1, <2>3, <2>6, UnwindOK
  <2> QED BY <1>1, <1>2, <2>1, <2>7, Closing
<1> QED BY <1>7, <1>8

LEMMA LeaveGood == ASSUME IInv, Leave PROVE IInv'
<1> DEFINE finallys == Finallys(Top, 0)
           to == Instr.to
<1>1. prog' = prog /\ log' = log /\ status' = status /\ nextFinally' = nextFinally
      /\ catchDepth' = catchDepth /\ catchHandler' = catchHandler /\ Executing("leave")
  BY DEF Leave, thread
<1>2. /\ status = "run" /\ nextFinally = 0 /\ Structured(prog)
      /\ StackOK(prog, stack) /\ Top = stack[Len(stack)] /\ MayBe(prog, Top)
      /\ Top.method \in MethodsOf(prog) /\ GoesOn(prog, Top, pc) /\ LogOK(log)
      /\ Body(prog, Top) = prog.methods[Top.method]
  BY <1>1, NowUnlessQuiet
<1>3. to \in Places(Body(prog, Top)) /\ (to \in Final(prog, Top.method) => pc \in Final(prog, Top.method))
  BY <1>1, <1>2, NowUnlessQuiet, LeaveAt
<1> HIDE DEF to
<1>4. StackOK(prog, stack') /\ GoesOn(prog, stack'[Len(stack')], pc')
  <2>1. CASE finallys = {}
    <3>1. GoesOn(prog, Top, to)
      BY <1>2, <1>3 DEF GoesOn
    <3>2. stack' \in {stack, Saved(stack, to)} /\ pc' = to
      BY <2>1 DEF Leave, GoNextCheck, to
    <3> QED BY <1>2, <3>1, <3>2, GoNextOK
  <2>2. CASE finallys # {}
    <3> DEFINE g == [Top EXCEPT !.endFinally = to]
               u == [stack EXCEPT ![Len(stack)] = g]
               i == First(finallys)
               start == Handlers(Top)[i].start
    <3>1. stack' \in {u, Saved(u, start)} /\ pc' = start
      <4>1. u = [stack EXCEPT ![Depth].endFinally = to]
        BY <1>2 DEF Depth
      <4> QED BY <2>2, <4>1 DEF Leave, GoNextCheck, to
    <3>2. DOMAIN Handlers(Top) = 1 .. Len(Body(prog, Top).handlers)
          /\ Handlers(Top) = Body(prog, Top).handlers
      BY <1>2, BodyOK DEF Handlers, Body
    <3>3. i \in DOMAIN Handlers(Top)
      <4>1. finallys \subseteq DOMAIN Handlers(Top)
        BY DEF Finallys
      <4>2. finallys \subseteq Nat
        BY <3>2, <4>1
      <4> HIDE DEF finallys
      <4>3. i \in finallys
        BY <2>2, <4>2, FirstIs
      <4> QED BY <4>1, <4>3
    <3> HIDE DEF i
    <3>4. start \in Places(Body(prog, Top))
      BY <1>2, <3>2, <3>3, HandlerOK
    <3> HIDE DEF start
    <3>5. Len(Body(prog, Top).code) \in Nat
      BY <1>2, BodyOK
    <3>6. to \in 1 .. Len(Body(prog, Top).code)
      BY <1>3 DEF Places
    <3>7. g \in State(prog) /\ g.method = Top.method /\ g.ipOffset = Top.ipOffset /\ g.endFinally = to
      BY <1>2, <3>5, <3>6 DEF MayBe, State
    <3> HIDE DEF g
    <3>8. MayBe(prog, g) /\ GoesOn(prog, g, start)
      BY <1>2, <3>4, <3>5, <3>6, <3>7 DEF MayBe, GoesOn, Body
    <3>9. StackOK(prog, u) /\ u[Len(u)] = g
      BY <1>2, <3>8, ReplaceOK
    <3> HIDE DEF u
    <3> QED BY <1>2, <3>1, <3>8, <3>9, GoNextOK
  <2> QED BY <2>1, <2>2
<1> QED BY <1>1, <1>2, <1>4, GoodRunning, Closing

LEMMA EndFinallyGood == ASSUME IInv, EndFinally PROVE IInv'
<1>1. /\ prog' = prog /\ log' = log /\ catchDepth' = catchDepth /\ catchHandler' = catchHandler
      /\ status = "run" /\ Instr.op = "endfinally"
  BY DEF EndFinally, Executing
<1>2. /\ Structured(prog) /\ LogOK(log)
      /\ Good(prog, stack, pc, status, nextFinally, catchDepth, catchHandler)
  BY DEF IInv
<1>3. /\ StackOK(prog, stack) /\ MayBe(prog, Top) /\ Top = stack[Len(stack)]
      /\ Top.method \in MethodsOf(prog) /\ Body(prog, Top) = prog.methods[Top.method]
      /\ pc \in Places(Body(prog, Top)) /\ Instr = Body(prog, Top).code[pc]
  BY <1>1, Now
<1>4. CASE nextFinally = 0
  <2>1. stack' \in {stack, Saved(stack, Top.endFinally)} /\ pc' = Top.endFinally
        /\ status' = status /\ nextFinally' = nextFinally
    BY <1>4 DEF EndFinally, GoNextCheck
  <2>2. GoesOn(prog, Top, pc) /\ pc \in Final(prog, Top.method)
    BY <1>1, <1>2, <1>3, <1>4, Now, EndFinallyAt
  <2>3. Top.endFinally \in Places(Body(prog, Top)) /\ Top.endFinally > 0
    <3>1. Len(Body(prog, Top).code) \in Nat /\ Top.endFinally \in 0 .. Len(Body(prog, Top).code)
      BY <1>2, <1>3, BodyOK DEF MayBe
    <3> QED BY <2>2, <3>1 DEF GoesOn, Places
  <2>4. GoesOn(prog, Top, Top.endFinally)
    BY <2>3 DEF GoesOn
  <2>5. StackOK(prog, stack') /\ GoesOn(prog, stack'[Len(stack')], pc')
    BY <1>2, <1>3, <2>1, <2>4, GoNextOK
  <2> QED BY <1>1, <1>2, <1>4, <2>1, <2>5, GoodRunning, Closing
<1>5. CASE nextFinally # 0
  <2>1. Unwinding(prog, stack, nextFinally, catchDepth, catchHandler)
    BY <1>1, <1>5, Now
  <2>2. catchDepth \in 1 .. Len(stack) - 1 /\ Len(stack) \in Nat
    BY <1>3, <2>1 DEF Unwinding, Caught, StackOK
  <2>3. Unwind(stack, nextFinally, catchDepth, catchHandler)
    BY <1>5, <2>2 DEF EndFinally, Depth
  <2>4. Top.ipOffset \in Unwound(Body(prog, Top))
    BY <1>1, <1>2, <1>3, <1>5 DEF Good, Running
  <2>5. catchDepth \in 1 .. Len(stack) /\ catchDepth < Len(stack)
    BY <2>2
  <2>6. Good(prog, stack', pc', status', nextFinally', catchDepth, catchHandler)
    BY <1>1, <1>2, <1>3, <2>1, <2>3, <2>4, <2>5, UnwindOK DEF Unwinding, Caught
  <2> QED BY <1>1, <1>2, <2>6, Closing
<1> QED BY <1>4, <1>5

-----------------------------------------------------------------------------
(* Types *)

LEMMA IInvInit == ASSUME StructuredPrograms, Init PROVE IInv
<1>1. Structured(prog)
  BY DEF Init, StructuredPrograms
<1>2. Main \in MethodsOf(prog)
  BY <1>1 DEF Structured, MethodsOf
<1>3. MayBe(prog, Frame(Main)) /\ GoesOn(prog, Frame(Main), 1) /\ Frame(Main) \in State(prog)
  BY <1>1, <1>2, FrameType DEF MayBe
<1> DEFINE f == Frame(Main)
<1>4. stack = <<f>> /\ pc = 1 /\ status = "run" /\ nextFinally = 0 /\ log = <<>>
  BY DEF Init
<1> HIDE DEF f
<1>5. stack \in Seq(State(prog)) /\ stack # <<>> /\ Len(stack) = 1 /\ stack[1] = f
  BY <1>3, <1>4 DEF f
<1>6. StackOK(prog, stack) /\ GoesOn(prog, stack[Len(stack)], pc)
  BY <1>3, <1>4, <1>5 DEF StackOK, f
<1>7. LogOK(log)
  <2>1. log \in Seq({}) /\ Len(log) = 0
    BY <1>4
  <2> QED BY <2>1, LogAssumption DEF LogOK
<1> QED BY <1>1, <1>4, <1>6, <1>7, GoodRunning DEF IInv

LEMMA IInvStep == ASSUME IInv, [Next]_vars PROVE IInv'
<1>1. CASE UNCHANGED vars
  BY <1>1 DEF vars, thread, IInv
<1>2. CASE Throw
  <2>1. Executing("throw") /\ ThrowException(Saved(stack, pc + 1), Instr.type)
    BY <1>2 DEF Throw
  <2> QED BY <2>1, ThrowGood
<1>3. CASE Rethrow
  <2>1. Executing("rethrow") /\ ThrowException(Saved(stack, pc + 1), exc)
    BY <1>3 DEF Rethrow
  <2> QED BY <2>1, ThrowGood
<1> QED
  BY <1>1, <1>2, <1>3, LogGood, CallGood, TailCallGood, InvokeDelegateGood, ReturnGood, LoadStaticFieldGood,
     LeaveGood, EndFinallyGood DEF Next

(* Where control is, what the method states hold and how far unwinding has *)
(* come fit together, for all programs laid out as compilers do it.        *)
THEOREM Invariance == ASSUME StructuredPrograms PROVE Spec => []IInv
<1>1. Init => IInv
  BY IInvInit
<1>2. IInv /\ [Next]_vars => IInv'
  BY IInvStep
<1> QED BY <1>1, <1>2, PTL DEF Spec

(* The current method runs inside its code, and an exception that is on    *)
(* its way is caught in a method state further down, by a handler of that. *)
THEOREM TypeCorrect == ASSUME StructuredPrograms PROVE Spec => []TypeOK
<1>1. IInv => TypeOK
  <2> SUFFICES ASSUME IInv PROVE TypeOK
    OBVIOUS
  <2>1. /\ Structured(prog) /\ Good(prog, stack, pc, status, nextFinally, catchDepth, catchHandler)
        /\ LogOK(log)
    BY DEF IInv
  <2>2. StackOK(prog, stack) /\ Top = stack[Len(stack)] /\ Depth = Len(stack)
    BY <2>1 DEF Good, Top, Depth
  <2>3. Depth \in Nat /\ Depth > 0
    BY <2>2 DEF StackOK
  <2>4. ASSUME NEW n \in 1 .. Depth PROVE FrameOK(stack[n])
    <3>1. MayBe(prog, stack[n]) /\ stack[n].method \in MethodsOf(prog)
      BY <2>2, <2>4, FrameAt
    <3>2. stack[n].nextDelegate \in Seq(MethodsOf(prog))
      BY <3>1 DEF MayBe, State
    <3>3. \A i \in DOMAIN stack[n].nextDelegate : stack[n].nextDelegate[i] \in MethodsOf(prog)
      BY <3>2
    <3> QED BY <3>1, <3>3 DEF FrameOK, MayBe, Methods, MethodsOf, Code, Body
  <2>5. status = "run" => pc \in 1 .. Len(Code(Top))
    BY Now DEF Places, Code, Body
  <2>6. nextFinally \in 0 .. Len(Handlers(Top)) /\ (nextFinally > 0 => catchDepth < Depth)
    <3>1. Top.method \in MethodsOf(prog)
      BY <2>2, <2>3, FrameAt
    <3>2. Len(Handlers(Top)) \in Nat /\ Handlers(Top) = Body(prog, Top).handlers
      BY <2>1, <3>1, BodyOK DEF Handlers, Body
    <3>3. CASE nextFinally = 0
      BY <3>2, <3>3
    <3>4. CASE Unwinding(prog, stack, nextFinally, catchDepth, catchHandler)
      <4>1. nextFinally \in 1 .. Len(Handlers(Top)) /\ catchDepth \in 1 .. Depth - 1
        BY <2>2, <3>2, <3>4 DEF Unwinding, Caught
      <4> QED BY <2>3, <3>2, <4>1
    <3> QED BY <2>1, <3>3, <3>4 DEF Good
  <2> QED BY <2>1, <2>3, <2>4, <2>5, <2>6 DEF TypeOK, Good, LogOK
<1> QED BY <1>1, Invariance, PTL

-----------------------------------------------------------------------------
(* Execution stays on course when calls pass no exceptions through finally *)
(* blocks and lists of delegates.                                          *)

(* A method state that waits for a call, an initialisation or a delegate;  *)
(* only in the last case it may have further ones to call.                 *)
WaitsPlainly(pr, f) ==
  LET body == Body(pr, f)
      q == f.ipOffset
  IN /\ \/ q - 1 \in Places(body) /\ body.code[q - 1].op \in {"call", "tailcall", "invoke"}
        \/ body.code[q].op = "static"
     /\ f.nextDelegate # <<>> => body.code[q - 1].op = "invoke"

Plainly(pr, s) == s[Len(s)].nextDelegate = <<>> /\ \A n \in 1 .. Len(s) - 1 : WaitsPlainly(pr, s[n])

OnCourse ==
  Plain(prog) =>
    /\ status # "wild"
    /\ Plainly(prog, stack)
    /\ nextFinally # 0 => stack[catchDepth].nextDelegate = <<>>

(* Saving the method state keeps the delegates. *)
LEMMA SavedPlainly ==
  ASSUME NEW pr, Structured(pr), NEW s, StackOK(pr, s),
         NEW p \in 1 .. Len(Body(pr, s[Len(s)]).code) + 1
  PROVE  LET t == Saved(s, p) IN
         /\ StackOK(pr, t) /\ Len(t) = Len(s) /\ Body(pr, t[Len(t)]) = Body(pr, s[Len(s)])
         /\ \A k \in 1 .. Len(s) : t[k].nextDelegate = s[k].nextDelegate
         /\ Plainly(pr, s) => Plainly(pr, t)
<1> DEFINE t == Saved(s, p)
           f == s[Len(s)]
           g == [f EXCEPT !.ipOffset = p]
<1>1. /\ Len(t) = Len(s) /\ Len(s) \in Nat \ {0} /\ t[Len(s)] = g
      /\ \A n \in 1 .. Len(s) - 1 : t[n] = s[n]
      /\ StackOK(pr, t)
  BY SavedFacts
<1>2. MayBe(pr, f)
  BY DEF StackOK
<1>3. g.nextDelegate = f.nextDelegate /\ Body(pr, g) = Body(pr, f)
  BY <1>2, FrameSaved
<1> HIDE DEF t, g
<1>4. \A k \in 1 .. Len(s) : t[k].nextDelegate = s[k].nextDelegate
  <2> TAKE k \in 1 .. Len(s)
  <2>1. k = Len(s) \/ k \in 1 .. Len(s) - 1
    BY <1>1
  <2> QED BY <2>1, <1>1, <1>3
<1>5. Plainly(pr, s) => Plainly(pr, t)
  BY <1>1, <1>3 DEF Plainly
<1> QED BY <1>1, <1>3, <1>4, <1>5 DEF t

LEMMA CutPlainly ==
  ASSUME NEW pr, Structured(pr), NEW s, StackOK(pr, s), Plainly(pr, s), NEW n \in 1 .. Len(s),
         s[n].nextDelegate = <<>>
  PROVE  Plainly(pr, SubSeq(s, 1, n))
<1> DEFINE t == SubSeq(s, 1, n)
<1>1. Len(t) = n /\ Len(s) \in Nat /\ \A k \in 1 .. n : t[k] = s[k]
  BY CutOK DEF StackOK
<1> HIDE DEF t
<1>2. \A k \in 1 .. n - 1 : WaitsPlainly(pr, t[k])
  BY <1>1 DEF Plainly
<1> QED BY <1>1, <1>2 DEF Plainly, t

(* A call from the place before p, or from p to a static constructor. *)
LEMMA PushPlainly ==
  ASSUME NEW pr, Structured(pr), NEW s, StackOK(pr, s), NEW m \in MethodsOf(pr), NEW p,
         GoesOn(pr, s[Len(s)], p), \A n \in 1 .. Len(s) - 1 : WaitsPlainly(pr, s[n]),
         NEW body, body = Body(pr, s[Len(s)]),
         \/ p - 1 \in Places(body) /\ body.code[p - 1].op \in {"call", "tailcall", "invoke"}
         \/ body.code[p].op = "static",
         s[Len(s)].nextDelegate # <<>> => body.code[p - 1].op = "invoke"
  PROVE  Plainly(pr, Append(Saved(s, p), Frame(m)))
<1> DEFINE f == s[Len(s)]
           g == [f EXCEPT !.ipOffset = p]
           u == Saved(s, p)
           t == Append(u, Frame(m))
<1>1. p \in 1 .. Len(Body(pr, f).code) + 1 /\ MayBe(pr, f)
  <2>1. MayBe(pr, f) /\ f.method \in MethodsOf(pr)
    BY DEF StackOK, MayBe, State
  <2>2. Len(Body(pr, f).code) \in Nat
    BY <2>1, BodyOK DEF Body
  <2> QED BY <2>1, <2>2 DEF GoesOn, Places
<1>2. /\ StackOK(pr, u) /\ Len(u) = Len(s) /\ Len(s) \in Nat \ {0} /\ u[Len(s)] = g
      /\ \A n \in 1 .. Len(s) - 1 : u[n] = s[n]
  BY <1>1, SavedFacts
<1>3. Body(pr, g) = Body(pr, f) /\ g.ipOffset = p /\ g.nextDelegate = f.nextDelegate
  BY <1>1, FrameSaved
<1>4. Frame(m) \in State(pr) /\ Frame(m).nextDelegate = <<>>
  BY FrameType DEF MayBe, Frame
<1> HIDE DEF u, g
<1>5. WaitsPlainly(pr, g)
  BY <1>3 DEF WaitsPlainly
<1>6. u \in Seq(State(pr))
  BY <1>2 DEF StackOK
<1>7. Len(t) = Len(u) + 1 /\ t[Len(t)] = Frame(m) /\ \A n \in 1 .. Len(u) : t[n] = u[n]
  BY <1>4, <1>6
<1> HIDE DEF t
<1>8. \A n \in 1 .. Len(t) - 1 : WaitsPlainly(pr, t[n])
  <2> TAKE n \in 1 .. Len(t) - 1
  <2>1. n \in 1 .. Len(s) - 1 \/ n = Len(s)
    BY <1>2, <1>7
  <2>2. n \in 1 .. Len(u)
    BY <1>2, <2>1
  <2> QED BY <2>1, <2>2, <1>2, <1>5, <1>7
<1> QED BY <1>4, <1>7, <1>8 DEF Plainly, t, u

(* An exception of a call finds no finally blocks in the method state that *)
(* waits, and if it is caught there, no delegates left to call.            *)
LEMMA WaitsWithout ==
  ASSUME Structured(prog), Plain(prog), NEW f, MayBe(prog, f), WaitsPlainly(prog, f)
  PROVE  /\ Finallys(f, 0) = {}
         /\ \A type : Catches(f, type) # {} => f.nextDelegate = <<>>
<1> DEFINE body == Body(prog, f)
<1>1. f.method \in MethodsOf(prog) /\ f.ipOffset \in Nat /\ body = prog.methods[f.method]
  BY DEF MayBe, State, Body
<1>2. PlainCalls(body)
  BY <1>1 DEF Plain, MethodsOf
<1>3. Finallys(f, 0) = {}
  <2> SUFFICES ASSUME NEW i \in Finallys(f, 0) PROVE FALSE
    OBVIOUS
  <2>1. i \in DOMAIN Handlers(f) /\ InTry(f, i, "finally")
    BY DEF Finallys
  <2>2. /\ i \in 1 .. Len(body.handlers) /\ body.handlers[i].kind = "finally"
        /\ f.ipOffset - 1 \in Covered(body.handlers[i])
    BY <1>1, <2>1, InTryIs
  <2> HIDE DEF body
  <2>3. body.code[f.ipOffset - 1].op \notin {"call", "tailcall", "invoke"}
        /\ body.code[(f.ipOffset - 1) + 1].op # "static"
    BY <1>2, <2>2 DEF PlainCalls
  <2>4. (f.ipOffset - 1) + 1 = f.ipOffset
    BY <1>1
  <2> QED BY <2>3, <2>4 DEF WaitsPlainly, body
<1>4. ASSUME NEW type, Catches(f, type) # {} PROVE f.nextDelegate = <<>>
  <2>1. PICK i \in DOMAIN Handlers(f) : InTry(f, i, "catch")
    BY <1>4 DEF Catches
  <2>2. /\ i \in 1 .. Len(body.handlers) /\ body.handlers[i].kind = "catch"
        /\ f.ipOffset - 1 \in Covered(body.handlers[i])
    BY <1>1, <2>1, InTryIs
  <2> HIDE DEF body
  <2>3. body.code[f.ipOffset - 1].op # "invoke"
    BY <1>2, <2>2 DEF PlainCalls
  <2> QED BY <2>3 DEF WaitsPlainly, body
<1> QED BY <1>3, <1>4

(* Unwinding passes the method states that wait and stops in the current   *)
(* one or in the catching one.                                             *)
LEMMA UnwindPlainly ==
  ASSUME Structured(prog), Plain(prog), NEW s, StackOK(prog, s), Plainly(prog, s), status = "run",
         NEW depth \in 1 .. Len(s), s[depth].nextDelegate = <<>>,
         NEW handler \in 1 .. Len(Body(prog, s[depth]).handlers),
         NEW next, Unwind(s, next, depth, handler)
  PROVE  /\ status' = "run" /\ Plainly(prog, stack')
         /\ stack'[depth].nextDelegate = <<>>
<1> DEFINE reach == [n \in depth + 1 .. Len(s) |-> Finallys(s[n], IF n = Len(s) THEN next ELSE 0)]
           stops == {n \in depth + 1 .. Len(s) : reach[n] # {}}
           n == CHOOSE k \in stops : \A j \in stops : j <= k
           i == First(reach[n])
           caught == Handlers(s[depth])[handler].start
<1>1. IF stops = {}
      THEN stack' = Saved(SubSeq(s, 1, depth), caught) /\ status' = status
      ELSE /\ GoNextCheck(Saved(SubSeq(s, 1, n), Handlers(s[n])[i].start), s[n].ipOffset)
           /\ status' = IF n = Len(s) THEN status ELSE "wild"
  BY DEF Unwind
<1>2. Len(s) \in Nat
  BY DEF StackOK
<1>3. CASE stops = {}
  <2> DEFINE t == SubSeq(s, 1, depth)
  <2>1. StackOK(prog, t) /\ Len(t) = depth /\ t[depth] = s[depth]
    BY CutOK
  <2>2. Plainly(prog, t)
    BY CutPlainly
  <2>3. caught \in 1 .. Len(Body(prog, t[Len(t)]).code) + 1
    <3>1. s[depth].method \in MethodsOf(prog)
      BY FrameAt
    <3>2. Len(Body(prog, s[depth]).code) \in Nat /\ caught \in Places(Body(prog, s[depth]))
      BY <3>1, BodyOK, HandlerOK DEF Body, Handlers
    <3> HIDE DEF caught, t
    <3> QED BY <2>1, <3>2 DEF Places
  <2> HIDE DEF t, caught, stops, n, i
  <2>4. stack' = Saved(t, caught) /\ status' = "run"
    BY <1>1, <1>3 DEF t
  <2> QED BY <2>1, <2>2, <2>3, <2>4, SavedPlainly
<1>4. CASE stops # {}
  <2>1. n \in stops
    <3>1. stops \in SUBSET (1 .. Len(s))
      BY <1>2
    <3> HIDE DEF stops
    <3>2. \E k \in stops : \A j \in stops : j <= k
      BY <1>2, <1>4, <3>1, MostOf
    <3> QED BY <3>2
  <2>2. n \in depth + 1 .. Len(s) /\ n \in 1 .. Len(s)
        /\ reach[n] # {} /\ reach[n] = Finallys(s[n], IF n = Len(s) THEN next ELSE 0)
    <3> HIDE DEF n
    <3>1. n \in depth + 1 .. Len(s) /\ reach[n] # {}
      <4> HIDE DEF reach
      <4> QED BY <2>1
    <3>2. n \in 1 .. Len(s)
      BY <1>2, <3>1
    <3>3. reach[n] = Finallys(s[n], IF n = Len(s) THEN next ELSE 0)
      BY <3>1
    <3> HIDE DEF reach
    <3> QED BY <3>1, <3>2, <3>3
  <2> HIDE DEF n, reach, stops
  <2>3. MayBe(prog, s[n]) /\ s[n].method \in MethodsOf(prog)
    BY <2>2, FrameAt
  <2>4. n = Len(s)
    <3> SUFFICES ASSUME n # Len(s) PROVE FALSE
      OBVIOUS
    <3>1. n \in 1 .. Len(s) - 1
      BY <1>2, <2>2
    <3>2. WaitsPlainly(prog, s[n])
      BY <3>1 DEF Plainly
    <3> QED BY <2>2, <2>3, <3>2, WaitsWithout
  <2>5. SubSeq(s, 1, Len(s)) = s
    BY DEF StackOK
  <2> DEFINE f == s[Len(s)]
             body == Body(prog, f)
             start == Handlers(f)[i].start
             u == Saved(s, start)
             v == Saved(u, f.ipOffset)
  <2>6. Len(body.code) \in Nat /\ f.ipOffset \in 1 .. Len(body.code) + 1
    BY <2>3, <2>4, BodyOK DEF Body, MayBe
  <2>7. DOMAIN Handlers(f) = 1 .. Len(body.handlers) /\ Handlers(f) = body.handlers
    BY <2>3, <2>4, BodyOK DEF Handlers, Body
  <2>8. i \in 1 .. Len(body.handlers)
    <3>1. reach[n] \subseteq Nat /\ reach[n] \subseteq 1 .. Len(body.handlers)
      BY <2>2, <2>4, <2>7 DEF Finallys
    <3>2. i \in reach[n]
      BY <2>2, <3>1, FirstIs
    <3> QED BY <3>1, <3>2
  <2> HIDE DEF i
  <2>9. start \in Places(body)
    BY <2>3, <2>4, <2>7, <2>8, HandlerOK DEF Body
  <2>10. start \in 1 .. Len(body.code) + 1
    <3> HIDE DEF start, body
    <3> QED BY <2>6, <2>9 DEF Places
  <2>11. stack' \in {u, v} /\ status' = "run"
    BY <1>1, <1>4, <2>4, <2>5 DEF GoNextCheck
  <2> HIDE DEF start
  <2>12. /\ StackOK(prog, u) /\ Len(u) = Len(s) /\ Body(prog, u[Len(u)]) = body
         /\ Plainly(prog, u) /\ u[depth].nextDelegate = <<>>
    BY <2>10, SavedPlainly
  <2> HIDE DEF u
  <2>13. Plainly(prog, v) /\ v[depth].nextDelegate = <<>>
    <3>1. f.ipOffset \in 1 .. Len(Body(prog, u[Len(u)]).code) + 1
      BY <2>6, <2>12
    <3> HIDE DEF f, body
    <3> QED BY <2>12, <3>1, SavedPlainly
  <2> HIDE DEF v
  <2> QED BY <2>11, <2>12, <2>13
<1> QED BY <1>3, <1>4

(* The steps of code that no exception runs. *)
LEMMA CourseClosing ==
  ASSUME prog' = prog, nextFinally' = 0,
         Plain(prog) => status' # "wild" /\ Plainly(prog, stack')
  PROVE  OnCourse'
BY DEF OnCourse

LEMMA CalledPlainly ==
  ASSUME IInv, OnCourse, Plain(prog), NEW op \in {"call", "tailcall"}, Executing(op),
         stack' = Append(Saved(stack, pc + 1), Frame(Instr.method))
  PROVE  Plainly(prog, stack')
<1>1. /\ Structured(prog) /\ StackOK(prog, stack) /\ Top = stack[Len(stack)]
      /\ Top.method \in MethodsOf(prog) /\ Body(prog, Top) = prog.methods[Top.method]
      /\ GoesOn(prog, Top, pc) /\ pc \in Places(Body(prog, Top))
      /\ Instr = Body(prog, Top).code[pc] /\ Instr.op = op
  BY NowUnlessQuiet
<1>2. GoesOn(prog, Top, pc + 1) /\ Instr.method \in MethodsOf(prog)
  BY <1>1, NextPlace, CallAt
<1>3. (pc + 1) - 1 = pc
  <2>1. Len(Body(prog, Top).code) \in Nat
    BY <1>1, BodyOK
  <2> QED BY <1>1, <2>1 DEF Places
<1>4. Plainly(prog, stack)
  BY DEF OnCourse
<1>5. (pc + 1) - 1 \in Places(Body(prog, Top)) /\ Body(prog, Top).code[(pc + 1) - 1].op \in {"call", "tailcall", "invoke"}
  BY <1>1, <1>3
<1>6. Top.nextDelegate = <<>> /\ \A n \in 1 .. Len(stack) - 1 : WaitsPlainly(prog, stack[n])
  BY <1>1, <1>4 DEF Plainly
<1> DEFINE body == Body(prog, Top)
           p == pc + 1
           m == Instr.method
<1>7. body = Body(prog, stack[Len(stack)]) /\ GoesOn(prog, stack[Len(stack)], p) /\ m \in MethodsOf(prog)
      /\ stack[Len(stack)].nextDelegate = <<>> /\ stack' = Append(Saved(stack, p), Frame(m))
  BY <1>1, <1>2, <1>6
<1>8. p - 1 \in Places(body) /\ body.code[p - 1].op \in {"call", "tailcall", "invoke"}
  BY <1>5
<1> HIDE DEF body, p, m
<1> QED BY <1>1, <1>6, <1>7, <1>8, PushPlainly

LEMMA CallOnCourse == ASSUME IInv, OnCourse, Call PROVE OnCourse'
<1>1. /\ prog' = prog /\ status' = status /\ nextFinally' = nextFinally
      /\ stack' = Append(Saved(stack, pc + 1), Frame(Instr.method)) /\ Executing("call")
  BY DEF Call, Push, thread
<1>2. status = "run" /\ nextFinally = 0
  BY <1>1, NowUnlessQuiet
<1> QED BY <1>1, <1>2, CalledPlainly, CourseClosing

LEMMA TailCallOnCourse == ASSUME IInv, OnCourse, TailCall PROVE OnCourse'
<1>1. prog' = prog /\ status' = status /\ nextFinally' = nextFinally /\ Executing("tailcall")
  BY DEF TailCall, thread
<1>2. /\ status = "run" /\ nextFinally = 0 /\ Structured(prog) /\ StackOK(prog, stack)
      /\ Top.method \in MethodsOf(prog) /\ pc \in Places(prog.methods[Top.method])
      /\ Instr = prog.methods[Top.method].code[pc] /\ Instr.op = "tailcall"
  BY <1>1, NowUnlessQuiet
<1>3. ASSUME Plain(prog) PROVE Plainly(prog, stack')
  <2>1. CASE stack' = Append(Saved(stack, pc + 1), Frame(Instr.method))
    BY <1>1, <1>3, <2>1, CalledPlainly
  <2>2. CASE stack' = [stack EXCEPT ![Depth] = Frame(Instr.method)]
    <3> DEFINE g == Frame(Instr.method)
    <3>1. Instr.method \in MethodsOf(prog)
      BY <1>2, CallAt
    <3>2. g \in State(prog) /\ g.nextDelegate = <<>>
      BY <1>2, <3>1, FrameType DEF MayBe, Frame
    <3>3. Plainly(prog, stack)
      BY <1>3 DEF OnCourse
    <3>4. stack' = [stack EXCEPT ![Len(stack)] = g] /\ stack \in Seq(State(prog)) /\ Len(stack) \in Nat \ {0}
      BY <1>2, <2>2 DEF Depth, StackOK
    <3> HIDE DEF g
    <3>5. Len(stack') = Len(stack) /\ stack'[Len(stack)] = g /\ \A n \in 1 .. Len(stack) - 1 : stack'[n] = stack[n]
      BY <3>4
    <3> QED BY <3>2, <3>3, <3>5 DEF Plainly
  <2> QED BY <2>1, <2>2 DEF TailCall, Push
<1> QED BY <1>1, <1>2, <1>3, CourseClosing

(* The others of the delegates are remembered behind an invocation. *)
LEMMA InvokePlainly ==
  ASSUME Structured(prog), NEW s, StackOK(prog, s), NEW p, GoesOn(prog, s[Len(s)], p),
         NEW ms \in Seq(MethodsOf(prog)), ms # <<>>, InvokeFirst(s, p, ms),
         \A n \in 1 .. Len(s) - 1 : WaitsPlainly(prog, s[n]),
         \/ p - 1 \in Places(Body(prog, s[Len(s)]))
         \/ Body(prog, s[Len(s)]).code[p].op = "static",
         Body(prog, s[Len(s)]).code[p - 1].op = "invoke"
  PROVE  Plainly(prog, stack')
<1> DEFINE f == s[Len(s)]
           g == [f EXCEPT !.nextDelegate = Rest(ms)]
           t == [s EXCEPT ![Len(s)].nextDelegate = Rest(ms)]
<1>1. stack' = Append(Saved(t, p), Frame(Head(ms)))
  BY DEF InvokeFirst, Push
<1>2. Rest(ms) \in Seq(MethodsOf(prog)) /\ Head(ms) \in MethodsOf(prog)
  BY DEF Rest
<1>3. MayBe(prog, f) /\ f \in State(prog) /\ s \in Seq(State(prog)) /\ Len(s) \in Nat \ {0}
  BY DEF StackOK, MayBe
<1>4. g \in State(prog) /\ g.method = f.method /\ g.ipOffset = f.ipOffset /\ g.endFinally = f.endFinally
  BY <1>2, <1>3 DEF State
<1>5. MayBe(prog, g) /\ GoesOn(prog, g, p) /\ Body(prog, g) = Body(prog, f)
  BY <1>3, <1>4 DEF MayBe, GoesOn, Body
<1>6. t = [s EXCEPT ![Len(s)] = g]
  OBVIOUS
<1> HIDE DEF t, g
<1>7. StackOK(prog, t) /\ t[Len(t)] = g
  <2>1. StackOK(prog, s) /\ Structured(prog) /\ MayBe(prog, g)
    BY <1>5
  <2>2. StackOK(prog, [s EXCEPT ![Len(s)] = g])
    BY ONLY <2>1, ReplaceOK
  <2>3. [s EXCEPT ![Len(s)] = g][Len([s EXCEPT ![Len(s)] = g])] = g
    BY ONLY <2>1, ReplaceOK
  <2> QED BY <1>6, <2>2, <2>3
<1>8. \A n \in 1 .. Len(t) - 1 : WaitsPlainly(prog, t[n])
  <2>1. Len(t) = Len(s) /\ \A n \in 1 .. Len(s) - 1 : t[n] = s[n]
    BY <1>3, <1>4, <1>6
  <2> QED BY <2>1
<1> DEFINE body == Body(prog, g)
<1>9. /\ \/ p - 1 \in Places(body) /\ body.code[p - 1].op \in {"call", "tailcall", "invoke"}
         \/ body.code[p].op = "static"
      /\ body.code[p - 1].op = "invoke"
  BY <1>5
<1>10. body = Body(prog, t[Len(t)]) /\ GoesOn(prog, t[Len(t)], p)
  BY <1>5, <1>7
<1> HIDE DEF body
<1> QED BY <1>1, <1>2, <1>7, <1>8, <1>9, <1>10, PushPlainly

LEMMA InvokeDelegateOnCourse == ASSUME IInv, OnCourse, InvokeDelegate PROVE OnCourse'
<1>1. prog' = prog /\ nextFinally' = nextFinally /\ Executing("invoke")
  BY DEF InvokeDelegate, thread
<1>2. /\ status = "run" /\ nextFinally = 0 /\ Structured(prog)
      /\ StackOK(prog, stack) /\ Top = stack[Len(stack)]
      /\ Top.method \in MethodsOf(prog) /\ Body(prog, Top) = prog.methods[Top.method]
      /\ GoesOn(prog, Top, pc) /\ pc \in Places(Body(prog, Top))
      /\ Instr = Body(prog, Top).code[pc] /\ Instr.op = "invoke"
  BY <1>1, NowUnlessQuiet
<1>3. /\ GoesOn(prog, Top, pc + 1)
      /\ Instr.methods \in Seq(MethodsOf(prog)) /\ Instr.methods # <<>>
  <2>1. GoesOn(prog, Top, pc + 1)
    BY <1>2, NextPlace
  <2>2. pc \in Places(prog.methods[Top.method]) /\ Instr = prog.methods[Top.method].code[pc]
    BY <1>2
  <2>3. Instr.methods \in Seq(MethodsOf(prog)) /\ Instr.methods # <<>>
    BY <1>2, <2>2, InvokeAt
  <2> QED BY <2>1, <2>3
<1>4. (pc + 1) - 1 = pc
  <2>1. Len(Body(prog, Top).code) \in Nat
    BY <1>2, BodyOK
  <2> QED BY <1>2, <2>1 DEF Places
<1>5. ASSUME Plain(prog) PROVE status' # "wild" /\ Plainly(prog, stack')
  <2>1. Plainly(prog, stack) /\ Top.nextDelegate = <<>>
    BY <1>2, <1>5 DEF OnCourse, Plainly
  <2>2. InvokeFirst(stack, pc + 1, Instr.methods) /\ status' = status
    BY <2>1 DEF InvokeDelegate
  <2>3. \A n \in 1 .. Len(stack) - 1 : WaitsPlainly(prog, stack[n])
    BY <2>1 DEF Plainly
  <2> DEFINE p == pc + 1
             ms == Instr.methods
             body == Body(prog, stack[Len(stack)])
  <2>4. p - 1 \in Places(body) /\ body.code[p - 1].op = "invoke" /\ GoesOn(prog, stack[Len(stack)], p)
    <3>1. body = Body(prog, Top) /\ GoesOn(prog, stack[Len(stack)], p)
      BY <1>2, <1>3
    <3>2. p - 1 = pc
      BY <1>4
    <3> HIDE DEF p, body
    <3> QED BY <1>2, <3>1, <3>2
  <2>5. InvokeFirst(stack, p, ms) /\ ms \in Seq(MethodsOf(prog)) /\ ms # <<>>
    BY <1>3, <2>2
  <2> HIDE DEF p, ms
  <2>6. Plainly(prog, stack')
    BY <1>2, <2>3, <2>4, <2>5, InvokePlainly
  <2> QED BY <1>2, <2>2, <2>6
<1> QED BY <1>1, <1>2, <1>5, CourseClosing

LEMMA ReturnOnCourse == ASSUME IInv, OnCourse, Return PROVE OnCourse'
<1>1. prog' = prog /\ nextFinally' = nextFinally /\ Executing("return")
  BY DEF Return, thread
<1>2. /\ status = "run" /\ nextFinally = 0 /\ Structured(prog) /\ StackOK(prog, stack)
  BY <1>1, NowUnlessQuiet
<1>3. CASE Depth = 1
  <2>1. status' = "exit" /\ stack' = stack
    BY <1>3 DEF Return
  <2> QED BY <1>1, <1>2, <2>1, CourseClosing DEF OnCourse
<1>4. CASE Depth # 1
  <2> DEFINE callers == SubSeq(stack, 1, Depth - 1)
             caller == callers[Depth - 1]
  <2>1. Len(stack) \in Nat \ {0} /\ Depth - 1 \in 1 .. Len(stack) /\ Depth = Len(stack)
    <3>1. stack \in Seq(State(prog)) /\ stack # <<>>
      BY <1>2 DEF StackOK
    <3>2. Len(stack) \in Nat \ {0} /\ Depth = Len(stack)
      BY <3>1 DEF Depth
    <3> QED BY <1>4, <3>2
  <2>2. /\ StackOK(prog, callers) /\ Len(callers) = Depth - 1 /\ caller = stack[Depth - 1]
        /\ \A k \in 1 .. Depth - 1 : callers[k] = stack[k]
    BY <1>2, <2>1, CutOK
  <2>3. Waits(prog, caller)
    BY <1>2, <2>1, <2>2 DEF StackOK
  <2>4. GoesOn(prog, callers[Len(callers)], caller.ipOffset) /\ caller \in State(prog)
    BY <2>2, <2>3 DEF Waits, MayBe
  <2>5. caller.nextDelegate \in Seq(MethodsOf(prog))
    BY <2>4 DEF State
  <2>6. /\ IF caller.nextDelegate = <<>>
           THEN stack' = callers
           ELSE InvokeFirst(callers, caller.ipOffset, caller.nextDelegate)
        /\ status' = status
    BY <1>4 DEF Return
  <2>7. ASSUME Plain(prog) PROVE Plainly(prog, stack')
    <3>1. Plainly(prog, stack)
      BY <2>7 DEF OnCourse
    <3>2. CASE caller.nextDelegate = <<>>
      <4>1. stack[Depth - 1].nextDelegate = <<>>
        BY <2>2, <3>2
      <4> QED BY <1>2, <2>1, <2>6, <3>1, <3>2, <4>1, CutPlainly
    <3>3. CASE caller.nextDelegate # <<>>
      <4>1. InvokeFirst(callers, caller.ipOffset, caller.nextDelegate)
        BY <2>6, <3>3
      <4>2. WaitsPlainly(prog, caller) /\ caller = callers[Len(callers)]
        BY <2>1, <2>2, <3>1 DEF Plainly
      <4>3. \A n \in 1 .. Len(callers) - 1 : WaitsPlainly(prog, callers[n])
        BY <2>1, <2>2, <3>1 DEF Plainly
      <4> HIDE DEF callers, caller
      <4>4. /\ \/ caller.ipOffset - 1 \in Places(Body(prog, callers[Len(callers)]))
               \/ Body(prog, callers[Len(callers)]).code[caller.ipOffset].op = "static"
            /\ Body(prog, callers[Len(callers)]).code[caller.ipOffset - 1].op = "invoke"
        BY <3>3, <4>2 DEF WaitsPlainly
      <4> QED BY <1>2, <2>2, <2>4, <2>5, <3>3, <4>1, <4>3, <4>4, InvokePlainly
    <3> QED BY <3>2, <3>3
  <2> QED BY <1>1, <1>2, <2>6, <2>7, CourseClosing
<1> QED BY <1>3, <1>4

LEMMA LoadStaticFieldOnCourse == ASSUME IInv, OnCourse, LoadStaticField PROVE OnCourse'
<1>1. prog' = prog /\ status' = status /\ nextFinally' = nextFinally /\ Executing("static")
  BY DEF LoadStaticField, thread
<1>2. /\ status = "run" /\ nextFinally = 0 /\ Structured(prog)
      /\ StackOK(prog, stack) /\ Top = stack[Len(stack)]
      /\ Top.method \in MethodsOf(prog) /\ Body(prog, Top) = prog.methods[Top.method]
      /\ GoesOn(prog, Top, pc) /\ pc \in Places(Body(prog, Top))
      /\ Instr = Body(prog, Top).code[pc] /\ Instr.op = "static"
  BY <1>1, NowUnlessQuiet
<1>3. Instr.cctor \in MethodsOf(prog) \cup {"none"}
  BY <1>2, StaticAt
<1>4. ASSUME Plain(prog) PROVE Plainly(prog, stack')
  <2>1. Plainly(prog, stack) /\ Top.nextDelegate = <<>>
    BY <1>2, <1>4 DEF OnCourse, Plainly
  <2>2. CASE Instr.cctor # "none" /\ stack' = Append(Saved(stack, pc), Frame(Instr.cctor))
    <3> DEFINE body == Body(prog, Top)
    <3>1. body = Body(prog, stack[Len(stack)]) /\ body.code[pc].op = "static"
      BY <1>2
    <3>2. stack[Len(stack)].nextDelegate = <<>> /\ \A n \in 1 .. Len(stack) - 1 : WaitsPlainly(prog, stack[n])
      BY <2>1 DEF Plainly
    <3> HIDE DEF body
    <3> QED BY <1>2, <1>3, <2>2, <3>1, <3>2, PushPlainly
  <2>3. CASE stack' = stack
    BY <2>1, <2>3
  <2> QED BY <2>2, <2>3 DEF LoadStaticField, Push
<1> QED BY <1>1, <1>2, <1>4, CourseClosing

LEMMA LeaveOnCourse == ASSUME IInv, OnCourse, Leave PROVE OnCourse'
<1> DEFINE finallys == Finallys(Top, 0)
           to == Instr.to
<1>1. prog' = prog /\ status' = status /\ nextFinally' = nextFinally /\ Executing("leave")
  BY DEF Leave, thread
<1>2. /\ status = "run" /\ nextFinally = 0 /\ Structured(prog)
      /\ StackOK(prog, stack) /\ Top = stack[Len(stack)] /\ MayBe(prog, Top)
      /\ Top.method \in MethodsOf(prog) /\ Body(prog, Top) = prog.methods[Top.method]
  BY <1>1, NowUnlessQuiet
<1>3. to \in 1 .. Len(Body(prog, Top).code) /\ Len(Body(prog, Top).code) \in Nat
  <2>1. /\ pc \in Places(prog.methods[Top.method]) /\ Instr.op = "leave"
        /\ Instr = prog.methods[Top.method].code[pc]
    BY <1>1, NowUnlessQuiet
  <2>2. to \in Places(prog.methods[Top.method])
    BY <1>2, <2>1, LeaveAt
  <2>3. Len(prog.methods[Top.method].code) \in Nat
    BY <1>2, BodyOK
  <2> HIDE DEF to
  <2> QED BY <1>2, <2>2, <2>3 DEF Places
<1> HIDE DEF to
<1>4. ASSUME Plain(prog) PROVE Plainly(prog, stack')
  <2>1. Plainly(prog, stack)
    BY <1>4 DEF OnCourse
  <2>2. CASE finallys = {}
    <3>1. stack' \in {stack, Saved(stack, to)}
      BY <2>2 DEF Leave, GoNextCheck, to
    <3>2. to \in 1 .. Len(Body(prog, stack[Len(stack)]).code) + 1
      BY <1>2, <1>3
    <3> QED BY <1>2, <2>1, <3>1, <3>2, SavedPlainly
  <2>3. CASE finallys # {}
    <3> DEFINE g == [Top EXCEPT !.endFinally = to]
               u == [stack EXCEPT ![Len(stack)] = g]
               i == First(finallys)
               start == Handlers(Top)[i].start
    <3>1. stack' \in {u, Saved(u, start)}
      <4>1. u = [stack EXCEPT ![Depth].endFinally = to]
        BY <1>2 DEF Depth
      <4> QED BY <2>3, <4>1 DEF Leave, GoNextCheck, to
    <3>2. DOMAIN Handlers(Top) = 1 .. Len(Body(prog, Top).handlers)
          /\ Handlers(Top) = Body(prog, Top).handlers
      BY <1>2, BodyOK DEF Handlers, Body
    <3>3. i \in DOMAIN Handlers(Top)
      <4>1. finallys \subseteq DOMAIN Handlers(Top)
        BY DEF Finallys
      <4>2. finallys \subseteq Nat
        BY <3>2, <4>1
      <4> HIDE DEF finallys
      <4>3. i \in finallys
        BY <2>3, <4>2, FirstIs
      <4> QED BY <4>1, <4>3
    <3> HIDE DEF i
    <3>4. start \in Places(Body(prog, Top))
      BY <1>2, <3>2, <3>3, HandlerOK
    <3> HIDE DEF start
    <3>5. /\ g \in State(prog) /\ g.method = Top.method /\ g.ipOffset = Top.ipOffset /\ g.endFinally = to
          /\ g.nextDelegate = Top.nextDelegate
      BY <1>2, <1>3 DEF MayBe, State
    <3>6. MayBe(prog, g) /\ Body(prog, g) = Body(prog, Top)
      BY <1>2, <1>3, <3>5 DEF MayBe, Body
    <3> HIDE DEF g
    <3>7. StackOK(prog, u) /\ u[Len(u)] = g
      BY <1>2, <3>6, ReplaceOK
    <3>8. Len(u) = Len(stack) /\ \A n \in 1 .. Len(stack) - 1 : u[n] = stack[n]
      <4>1. stack \in Seq(State(prog)) /\ Len(stack) \in Nat
        BY <1>2 DEF StackOK
      <4> QED BY <3>5, <4>1
    <3> HIDE DEF u
    <3>9. Plainly(prog, u)
      BY <1>2, <2>1, <3>5, <3>7, <3>8 DEF Plainly
    <3>10. start \in 1 .. Len(Body(prog, u[Len(u)]).code) + 1
      BY <1>3, <3>4, <3>6, <3>7 DEF Places
    <3> QED BY <1>2, <3>1, <3>7, <3>9, <3>10, SavedPlainly
  <2> QED BY <2>2, <2>3
<1> QED BY <1>1, <1>2, <1>4, CourseClosing

LEMMA EndFinallyOnCourse == ASSUME IInv, OnCourse, EndFinally PROVE OnCourse'
<1>1. /\ prog' = prog /\ catchDepth' = catchDepth /\ catchHandler' = catchHandler
      /\ status = "run" /\ Instr.op = "endfinally"
  BY DEF EndFinally, Executing
<1>2. Structured(prog) /\ Good(prog, stack, pc, status, nextFinally, catchDepth, catchHandler)
  BY DEF IInv
<1>3. /\ StackOK(prog, stack) /\ MayBe(prog, Top) /\ Top = stack[Len(stack)]
      /\ Top.method \in MethodsOf(prog) /\ Body(prog, Top) = prog.methods[Top.method]
  BY <1>1, Now
<1>4. CASE nextFinally = 0
  <2>1. stack' \in {stack, Saved(stack, Top.endFinally)} /\ status' = status /\ nextFinally' = nextFinally
    BY <1>4 DEF EndFinally, GoNextCheck
  <2>2. Top.endFinally \in 1 .. Len(Body(prog, stack[Len(stack)]).code) + 1
    <3>1. GoesOn(prog, Top, pc) /\ pc \in Final(prog, Top.method)
      BY <1>1, <1>2, <1>3, <1>4, Now, EndFinallyAt
    <3>2. Len(Body(prog, Top).code) \in Nat /\ Top.endFinally \in 0 .. Len(Body(prog, Top).code)
      BY <1>2, <1>3, BodyOK DEF MayBe
    <3> QED BY <1>3, <3>1, <3>2 DEF GoesOn
  <2>3. ASSUME Plain(prog) PROVE Plainly(prog, stack')
    BY <1>2, <1>3, <2>1, <2>2, <2>3, SavedPlainly DEF OnCourse
  <2> QED BY <1>1, <1>4, <2>1, <2>3, CourseClosing
<1>5. CASE nextFinally # 0
  <2>1. Unwinding(prog, stack, nextFinally, catchDepth, catchHandler)
    BY <1>1, <1>5, Now
  <2>2. /\ catchDepth \in 1 .. Len(stack) - 1 /\ Len(stack) \in Nat
        /\ catchHandler \in 1 .. Len(Body(prog, stack[catchDepth]).handlers)
    BY <1>3, <2>1 DEF Unwinding, Caught, StackOK
  <2>3. Unwind(stack, nextFinally, catchDepth, catchHandler) /\ catchDepth \in 1 .. Len(stack)
    BY <1>5, <2>2 DEF EndFinally, Depth
  <2>4. ASSUME Plain(prog)
        PROVE  status' = "run" /\ Plainly(prog, stack') /\ stack'[catchDepth].nextDelegate = <<>>
    <3>1. Plainly(prog, stack) /\ stack[catchDepth].nextDelegate = <<>>
      BY <1>5, <2>4 DEF OnCourse
    <3> QED BY <1>1, <1>2, <1>3, <2>2, <2>3, <2>4, <3>1, UnwindPlainly
  <2> QED BY <1>1, <2>4 DEF OnCourse
<1> QED BY <1>4, <1>5

LEMMA ThrowOnCourse ==
  ASSUME IInv, OnCourse, NEW op \in {"throw", "rethrow"}, Executing(op), NEW type,
         ThrowException(Saved(stack, pc + 1), type)
  PROVE  OnCourse'
<1> DEFINE p == pc + 1
           s == Saved(stack, p)
           frames == CatchFrames(s, type)
<1>1. /\ status = "run" /\ nextFinally = 0 /\ Structured(prog)
      /\ StackOK(prog, stack) /\ Top = stack[Len(stack)]
      /\ Top.method \in MethodsOf(prog) /\ Body(prog, Top) = prog.methods[Top.method]
      /\ pc \in Places(Body(prog, Top))
  BY NowUnlessQuiet
<1>2. prog' = prog
  BY DEF ThrowException
<1>3. p \in 1 .. Len(Body(prog, stack[Len(stack)]).code) + 1
  <2>1. Len(Body(prog, Top).code) \in Nat
    BY <1>1, BodyOK
  <2> QED BY <1>1, <2>1 DEF Places
<1>4. CASE frames = {}
  <2>1. status' = "crash" /\ stack' = stack /\ nextFinally' = 0
    BY <1>1, <1>4 DEF ThrowException
  <2> QED BY <1>2, <2>1, CourseClosing DEF OnCourse
<1>5. CASE frames # {}
  <2> DEFINE depth == CHOOSE n \in frames : \A k \in frames : k <= n
             handler == First(Catches(s[depth], type))
  <2>1. catchDepth' = depth /\ catchHandler' = handler /\ Unwind(s, nextFinally, depth, handler)
    BY <1>5 DEF ThrowException
  <2> HIDE DEF p
  <2>2. StackOK(prog, s) /\ Len(s) \in Nat /\ DOMAIN s = 1 .. Len(s)
    <3>1. StackOK(prog, s)
      BY <1>1, <1>3, SavedPlainly
    <3> HIDE DEF s
    <3> QED BY <3>1 DEF StackOK
  <2>3. Plain(prog) => Plainly(prog, s)
    BY <1>1, <1>3, SavedPlainly DEF OnCourse
  <2> HIDE DEF s
  <2>4. depth \in frames
    <3>1. frames \in SUBSET (1 .. Len(s))
      BY <2>2 DEF CatchFrames
    <3> HIDE DEF frames
    <3>2. \E n \in frames : \A k \in frames : k <= n
      BY <1>5, <2>2, <3>1, MostOf
    <3> QED BY <3>2
  <2> HIDE DEF depth
  <2>5. depth \in 1 .. Len(s) /\ Catches(s[depth], type) # {}
    BY <2>2, <2>4 DEF CatchFrames
  <2>6. MayBe(prog, s[depth]) /\ s[depth].method \in MethodsOf(prog)
    BY <2>2, <2>5, FrameAt
  <2>7. handler \in 1 .. Len(Body(prog, s[depth]).handlers)
    <3>1. DOMAIN Handlers(s[depth]) = 1 .. Len(Body(prog, s[depth]).handlers)
      BY <1>1, <2>6, BodyOK DEF Handlers, Body
    <3>2. Catches(s[depth], type) \subseteq 1 .. Len(Body(prog, s[depth]).handlers)
      BY <3>1 DEF Catches
    <3>3. handler \in Catches(s[depth], type)
      <4> HIDE DEF handler
      <4>1. Catches(s[depth], type) \in SUBSET Nat
        BY <3>2
      <4> QED BY <2>5, <4>1, FirstIs DEF handler
    <3> QED BY <3>2, <3>3
  <2> HIDE DEF handler
  <2>8. ASSUME Plain(prog)
        PROVE  status' = "run" /\ Plainly(prog, stack') /\ stack'[depth].nextDelegate = <<>>
    <3>1. Plainly(prog, s)
      BY <2>3, <2>8
    <3>2. s[depth].nextDelegate = <<>>
      <4>1. CASE depth = Len(s)
        BY <3>1, <4>1 DEF Plainly
      <4>2. CASE depth # Len(s)
        <5>1. depth \in 1 .. Len(s) - 1
          <6>1. Len(s) \in Nat /\ depth \in 1 .. Len(s)
            BY <2>2, <2>5
          <6> HIDE DEF frames
          <6> QED BY <4>2, <6>1
        <5>2. WaitsPlainly(prog, s[depth])
          BY <3>1, <5>1 DEF Plainly
        <5> QED BY <1>1, <2>5, <2>6, <2>8, <5>2, WaitsWithout
      <4> QED BY <4>1, <4>2
    <3> QED BY <1>1, <2>1, <2>2, <2>5, <2>7, <2>8, <3>1, <3>2, UnwindPlainly
  <2> QED BY <1>2, <2>1, <2>8 DEF OnCourse
<1> QED BY <1>4, <1>5

LEMMA OnCourseInit == Init => OnCourse
<1> SUFFICES ASSUME Init PROVE OnCourse
  OBVIOUS
<1> DEFINE f == Frame(Main)
<1>1. stack = <<f>> /\ status = "run" /\ nextFinally = 0 /\ f.nextDelegate = <<>>
  BY DEF Init, Frame
<1> HIDE DEF f
<1>2. Len(stack) = 1 /\ stack[1] = f
  BY <1>1
<1> QED BY <1>1, <1>2 DEF OnCourse, Plainly

LEMMA OnCourseStep == ASSUME IInv, OnCourse, [Next]_vars PROVE OnCourse'
<1>1. CASE UNCHANGED vars
  BY <1>1 DEF vars, thread, OnCourse
<1>2. CASE Throw
  <2>1. Executing("throw") /\ ThrowException(Saved(stack, pc + 1), Instr.type)
    BY <1>2 DEF Throw
  <2> QED BY <2>1, ThrowOnCourse
<1>3. CASE Rethrow
  <2>1. Executing("rethrow") /\ ThrowException(Saved(stack, pc + 1), exc)
    BY <1>3 DEF Rethrow
  <2> QED BY <2>1, ThrowOnCourse
<1>4. CASE Log
  BY <1>4 DEF Log, thread, OnCourse
<1> QED
  BY <1>1, <1>2, <1>3, <1>4, CallOnCourse, TailCallOnCourse, InvokeDelegateOnCourse, ReturnOnCourse,
     LoadStaticFieldOnCourse, LeaveOnCourse, EndFinallyOnCourse DEF Next

(* Wherever slices end, the interpreter enters a finally block, a handler  *)
(* or a delegate only where the program has put it, in programs whose      *)
(* calls pass no exception through a finally block or a list of delegates. *)
THEOREM StaysOnCourse == ASSUME StructuredPrograms PROVE Spec => []NeverWild
<1>1. Init => OnCourse
  BY OnCourseInit
<1>2. IInv /\ OnCourse /\ [Next]_vars => OnCourse'
  BY OnCourseStep
<1>3. OnCourse => NeverWild
  BY DEF OnCourse, NeverWild
<1> QED BY <1>1, <1>2, <1>3, Invariance, PTL DEF Spec
=============================================================================
