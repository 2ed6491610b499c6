------------------------- MODULE ThreadStackProofs -------------------------
(***************************************************************************)
(* Proofs about ThreadStack, for any methods, sizes and chunk.             *)
(***************************************************************************)
EXTENDS ThreadStack, SequenceTheorems, TLAPS

State == [addr : Nat, method : Methods, stackOfs : Nat]

(* Method states fs adjoin, their evaluation stacks keep to their sizes,   *)
(* none lies in another, and the last one ends at end.                     *)
Adjoins(fs, end) ==
  /\ fs \in Seq(State)
  /\ fs # <<>>
  /\ \A i \in 1 .. Len(fs) : fs[i].stackOfs <= MaxStack[fs[i].method]
  /\ fs[1].addr = 0
  /\ \A i \in 1 .. Len(fs) - 1 : fs[i + 1].addr = End(fs[i])
  /\ \A i, j \in 1 .. Len(fs) : i < j => End(fs[i]) <= fs[j].addr
  /\ end = End(fs[Len(fs)])

IsMemory(mem) == mem \in [0 .. ChunkSize - 1 -> Values]

(* Only the tail call that leaves the chunk ends beyond it. *)
IInv ==
  /\ IsMemory(memory)
  /\ Adjoins(frames, ofs)
  /\ status \in {"run", "exit", "crash", "overrun"}
  /\ status # "overrun" => ofs <= ChunkSize

-----------------------------------------------------------------------------
(* Sizes and memory *)

LEMMA FrameSizeType ==
  ASSUME NEW m \in Methods
  PROVE  FrameSize(m) \in Nat \ {0}
  BY SizesAssumption DEF FrameSize

LEMMA EndType ==
  ASSUME NEW f \in State
  PROVE  /\ End(f) \in Nat
         /\ f.addr < End(f)
         /\ EvalStack(f) \in Nat /\ Parameters(f) \in Nat /\ CurEvalStack(f) \in Nat
         /\ f.addr < EvalStack(f) /\ EvalStack(f) <= Parameters(f)
         /\ Parameters(f) + Params[f.method] + Locals[f.method] = End(f)
         /\ CurEvalStack(f) = EvalStack(f) + f.stackOfs
         /\ f.stackOfs <= MaxStack[f.method] => CurEvalStack(f) <= Parameters(f)
  BY SizesAssumption, FrameSizeType
  DEF State, End, EvalStack, Parameters, CurEvalStack, FrameSize

LEMMA MethodStateType ==
  ASSUME NEW addr \in Nat, NEW m \in Methods
  PROVE  /\ MethodState(addr, m) \in State
         /\ MethodState(addr, m).addr = addr
         /\ MethodState(addr, m).method = m
         /\ MethodState(addr, m).stackOfs = 0
         /\ End(MethodState(addr, m)) = addr + FrameSize(m)
  BY DEF MethodState, State, End

LEMMA WriteType ==
  ASSUME NEW mem, IsMemory(mem), NEW addr, NEW v \in Values
  PROVE  IsMemory(Write(mem, addr, v))
  BY DEF IsMemory, Write

(* What is moved comes from the chunk; it may go beyond. *)
LEMMA MoveType ==
  ASSUME NEW mem, IsMemory(mem), NEW to \in Int, NEW from \in Nat, NEW n \in Nat,
         from + n <= ChunkSize
  PROVE  IsMemory(Move(mem, to, from, n))
  <1> SUFFICES ASSUME NEW a \in 0 .. ChunkSize - 1
               PROVE  Move(mem, to, from, n)[a] \in Values
    BY DEF IsMemory, Move
  <1>1. CASE a \in to .. to + n - 1
    <2>1. from + a - to \in 0 .. ChunkSize - 1
      BY <1>1, SizesAssumption
    <2> QED
      BY <1>1, <2>1 DEF Move, IsMemory
  <1>2. CASE a \notin to .. to + n - 1
    BY <1>2 DEF Move, IsMemory
  <1> QED
    BY <1>1, <1>2

-----------------------------------------------------------------------------
(* Sequences of method states *)

LEMMA AdjoinsFacts ==
  ASSUME NEW fs, NEW end, Adjoins(fs, end)
  PROVE  /\ Len(fs) \in Nat \ {0}
         /\ fs[Len(fs)] \in State
         /\ fs[Len(fs)].stackOfs <= MaxStack[fs[Len(fs)].method]
         /\ end \in Nat
         /\ end = End(fs[Len(fs)])
  <1>1. Len(fs) \in Nat \ {0}
    BY EmptySeq DEF Adjoins
  <1>2. fs[Len(fs)] \in State
    BY <1>1, ElementOfSeq DEF Adjoins
  <1> QED
    BY <1>1, <1>2, EndType DEF Adjoins

(* Only what the current method has on its stack changes. *)
LEMMA AdjoinsStackOfs ==
  ASSUME NEW fs, NEW end, Adjoins(fs, end),
         NEW n \in Nat, n <= MaxStack[fs[Len(fs)].method]
  PROVE  Adjoins([fs EXCEPT ![Len(fs)].stackOfs = n], end)
  <1> DEFINE d == Len(fs)
             f == [fs[d] EXCEPT !.stackOfs = n]
             gs == [fs EXCEPT ![d] = f]
  <1>1. d \in Nat \ {0} /\ fs[d] \in State /\ fs \in Seq(State)
    BY AdjoinsFacts DEF Adjoins
  <1>2. /\ f \in State /\ f.addr = fs[d].addr /\ f.method = fs[d].method
        /\ f.stackOfs = n /\ End(f) = End(fs[d])
    BY <1>1 DEF State, End
  <1>3. /\ gs \in Seq(State) /\ Len(gs) = d
        /\ \A j \in 1 .. d : gs[j] = IF j = d THEN f ELSE fs[j]
    BY <1>1, <1>2, ExceptSeq
  <1>4. [fs EXCEPT ![d].stackOfs = n] = gs
    OBVIOUS
  <1> HIDE DEF f, gs, d
  <1>5. \A j \in 1 .. d : /\ gs[j].addr = fs[j].addr
                          /\ End(gs[j]) = End(fs[j])
    BY <1>1, <1>2, <1>3
  <1>6. /\ \A j \in 1 .. d : fs[j].stackOfs <= MaxStack[fs[j].method]
        /\ fs[1].addr = 0
        /\ \A j \in 1 .. d - 1 : fs[j + 1].addr = End(fs[j])
        /\ \A i, j \in 1 .. d : i < j => End(fs[i]) <= fs[j].addr
        /\ end = End(fs[d])
    BY DEF Adjoins, d
  <1>7. \A j \in 1 .. d : gs[j].stackOfs <= MaxStack[gs[j].method]
    BY <1>1, <1>2, <1>3, <1>6 DEF d
  <1>8. \A j \in 1 .. d - 1 : gs[j + 1].addr = End(gs[j])
    BY <1>1, <1>5, <1>6
  <1>9. gs[1].addr = 0 /\ end = End(gs[d]) /\ gs # <<>>
    BY <1>1, <1>3, <1>5, <1>6
  <1>10. \A i, j \in 1 .. d : i < j => End(gs[i]) <= gs[j].addr
    BY <1>1, <1>5, <1>6
  <1> QED
    BY <1>3, <1>4, <1>7, <1>8, <1>9, <1>10 DEF Adjoins, d

(* A call. *)
LEMMA AdjoinsAppend ==
  ASSUME NEW fs, NEW end, Adjoins(fs, end), NEW m \in Methods
  PROVE  Adjoins(Append(fs, MethodState(end, m)), End(MethodState(end, m)))
  <1> DEFINE d == Len(fs)
             f == MethodState(end, m)
             gs == Append(fs, f)
  <1>1. d \in Nat \ {0} /\ end \in Nat /\ end = End(fs[d]) /\ fs \in Seq(State)
    BY AdjoinsFacts DEF Adjoins
  <1>2. f \in State /\ f.addr = end /\ f.stackOfs <= MaxStack[f.method]
    BY <1>1, MethodStateType, SizesAssumption
  <1>3. /\ gs \in Seq(State) /\ gs # <<>> /\ Len(gs) = d + 1
        /\ \A j \in 1 .. d : gs[j] = fs[j]
        /\ gs[d + 1] = f
    BY <1>1, <1>2, AppendProperties
  <1> HIDE DEF f, gs, d
  <1>4. /\ \A j \in 1 .. d : fs[j].stackOfs <= MaxStack[fs[j].method]
        /\ fs[1].addr = 0
        /\ \A j \in 1 .. d - 1 : fs[j + 1].addr = End(fs[j])
        /\ \A i, j \in 1 .. d : i < j => End(fs[i]) <= fs[j].addr
    BY DEF Adjoins, d
  <1>5. \A j \in 1 .. d + 1 : gs[j].stackOfs <= MaxStack[gs[j].method]
    BY <1>1, <1>2, <1>3, <1>4
  <1>6. ASSUME NEW j \in 1 .. d
        PROVE  gs[j + 1].addr = End(gs[j])
    <2>1. CASE j = d
      BY <1>1, <1>2, <1>3, <2>1
    <2>2. CASE j # d
      <3>1. j \in 1 .. d - 1 /\ j + 1 \in 1 .. d
        BY <1>1, <1>6, <2>2
      <3> QED
        BY <1>3, <1>4, <3>1
    <2> QED
      BY <2>1, <2>2
  <1>7. gs[1].addr = 0 /\ End(f) = End(gs[Len(gs)])
    BY <1>1, <1>3, <1>4
  <1>8. ASSUME NEW i \in 1 .. d + 1, NEW j \in 1 .. d + 1, i < j
        PROVE  End(gs[i]) <= gs[j].addr
    <2>1. CASE j \in 1 .. d
      BY <1>1, <1>3, <1>4, <1>8, <2>1
    <2>2. CASE j = d + 1
      <3>1. End(fs[i]) <= end
        <4>1. CASE i = d
          BY <1>1, <4>1
        <4>2. CASE i < d
          <5>1. fs[i] \in State /\ fs[d] \in State
            BY <1>1, <1>8, <4>2, ElementOfSeq DEF d
          <5>2. End(fs[i]) <= fs[d].addr
            <6>1. i \in 1 .. d /\ d \in 1 .. d
              BY <1>1, <1>8, <4>2
            <6> QED
              BY <1>4, <4>2, <6>1
          <5>3. /\ fs[d].addr \in Nat /\ fs[d].addr < End(fs[d])
                /\ End(fs[i]) \in Nat /\ End(fs[d]) \in Nat
            BY <5>1, EndType DEF State
          <5> QED
            BY <1>1, <5>2, <5>3
        <4> QED
          BY <1>1, <1>8, <2>2, <4>1, <4>2
      <3>2. gs[i] = fs[i] /\ gs[j].addr = end
        BY <1>1, <1>2, <1>3, <1>8, <2>2
      <3> QED
        BY <3>1, <3>2
    <2> QED
      BY <1>1, <1>8, <2>1, <2>2
  <1> QED
    BY <1>1, <1>3, <1>5, <1>6, <1>7, <1>8 DEF Adjoins, f, gs

(* The method states above the n-th are left. *)
LEMMA AdjoinsPrefix ==
  ASSUME NEW fs, NEW end, Adjoins(fs, end), NEW n \in 1 .. Len(fs)
  PROVE  /\ Adjoins(SubSeq(fs, 1, n), IF n = Len(fs) THEN end ELSE fs[n + 1].addr)
         /\ Len(SubSeq(fs, 1, n)) = n
         /\ SubSeq(fs, 1, n)[n] = fs[n]
         /\ (IF n = Len(fs) THEN end ELSE fs[n + 1].addr) = End(fs[n])
  <1> DEFINE d == Len(fs)
             gs == SubSeq(fs, 1, n)
  <1>1. d \in Nat \ {0} /\ fs \in Seq(State)
    BY AdjoinsFacts DEF Adjoins
  <1>2. \A j \in 1 .. n : fs[j] \in State
    BY <1>1, ElementOfSeq
  <1>3. /\ gs \in Seq(State) /\ Len(gs) = n
        /\ \A j \in 1 .. n : gs[j] = fs[j]
    BY <1>1, <1>2, SubSeqProperties
  <1> HIDE DEF gs, d
  <1>4. /\ \A j \in 1 .. d : fs[j].stackOfs <= MaxStack[fs[j].method]
        /\ fs[1].addr = 0
        /\ \A j \in 1 .. d - 1 : fs[j + 1].addr = End(fs[j])
        /\ \A i, j \in 1 .. d : i < j => End(fs[i]) <= fs[j].addr
        /\ end = End(fs[d])
    BY DEF Adjoins, d
  <1>5. n \in 1 .. d
    BY DEF d
  <1>6. (IF n = d THEN end ELSE fs[n + 1].addr) = End(fs[n])
    BY <1>1, <1>4, <1>5
  <1>7. \A j \in 1 .. n : gs[j].stackOfs <= MaxStack[gs[j].method]
    BY <1>1, <1>3, <1>4, <1>5
  <1>8. \A j \in 1 .. n - 1 : gs[j + 1].addr = End(gs[j])
    <2> SUFFICES ASSUME NEW j \in 1 .. n - 1
                 PROVE  gs[j + 1].addr = End(gs[j])
      OBVIOUS
    <2>1. j \in 1 .. d - 1 /\ j \in 1 .. n /\ j + 1 \in 1 .. n
      BY <1>1, <1>5
    <2> QED
      BY <2>1, <1>3, <1>4
  <1>9. gs[1].addr = 0 /\ gs # <<>> /\ End(fs[n]) = End(gs[Len(gs)])
    BY <1>1, <1>3, <1>4, <1>5
  <1>10. \A i, j \in 1 .. n : i < j => End(gs[i]) <= gs[j].addr
    <2> SUFFICES ASSUME NEW i \in 1 .. n, NEW j \in 1 .. n, i < j
                 PROVE  End(gs[i]) <= gs[j].addr
      OBVIOUS
    <2>1. i \in 1 .. d /\ j \in 1 .. d
      BY <1>1, <1>5
    <2> QED
      BY <2>1, <1>3, <1>4
  <1>11. Adjoins(gs, End(fs[n]))
    BY <1>3, <1>7, <1>8, <1>9, <1>10 DEF Adjoins
  <1> QED
    BY <1>3, <1>5, <1>6, <1>11 DEF d, gs

(* A tail call: another method takes over the last method state. *)
LEMMA AdjoinsReplace ==
  ASSUME NEW fs, NEW end, Adjoins(fs, end), NEW m \in Methods
  PROVE  LET f == MethodState(fs[Len(fs)].addr, m)
         IN Adjoins([fs EXCEPT ![Len(fs)] = f], End(f))
  <1> DEFINE d == Len(fs)
             f == MethodState(fs[d].addr, m)
             gs == [fs EXCEPT ![d] = f]
  <1>1. d \in Nat \ {0} /\ fs[d] \in State /\ fs \in Seq(State)
    BY AdjoinsFacts DEF Adjoins
  <1>2. fs[d].addr \in Nat
    BY <1>1 DEF State
  <1>3. /\ f \in State /\ f.addr = fs[d].addr
        /\ f.stackOfs <= MaxStack[f.method]
    <2>1. f \in State /\ f.addr = fs[d].addr /\ f.method = m /\ f.stackOfs = 0
      BY <1>2, MethodStateType
    <2> QED
      BY <2>1, SizesAssumption
  <1>4. /\ gs \in Seq(State) /\ Len(gs) = d
        /\ \A j \in 1 .. d : gs[j] = IF j = d THEN f ELSE fs[j]
    BY <1>1, <1>3, ExceptSeq
  <1> HIDE DEF f, gs, d
  <1>5. /\ \A j \in 1 .. d : fs[j].stackOfs <= MaxStack[fs[j].method]
        /\ fs[1].addr = 0
        /\ \A j \in 1 .. d - 1 : fs[j + 1].addr = End(fs[j])
        /\ \A i, j \in 1 .. d : i < j => End(fs[i]) <= fs[j].addr
    BY DEF Adjoins, d
  <1>6. \A j \in 1 .. d : gs[j].stackOfs <= MaxStack[gs[j].method]
    BY <1>1, <1>3, <1>4, <1>5
  <1>7. \A j \in 1 .. d : gs[j].addr = fs[j].addr
    BY <1>1, <1>3, <1>4
  <1>8. ASSUME NEW j \in 1 .. d - 1
        PROVE  gs[j + 1].addr = End(gs[j])
    <2>1. j \in 1 .. d /\ j + 1 \in 1 .. d /\ j # d
      BY <1>1, <1>8
    <2>2. gs[j] = fs[j]
      BY <1>4, <2>1
    <2> QED
      BY <1>5, <1>7, <2>1, <2>2
  <1>9. ASSUME NEW i \in 1 .. d, NEW j \in 1 .. d, i < j
        PROVE  End(gs[i]) <= gs[j].addr
    <2>1. i # d
      BY <1>1, <1>9
    <2>2. gs[i] = fs[i]
      BY <1>4, <2>1
    <2> QED
      BY <1>5, <1>7, <1>9, <2>2
  <1>10. gs[1].addr = 0 /\ gs # <<>> /\ End(f) = End(gs[Len(gs)])
    BY <1>1, <1>4, <1>5, <1>7
  <1> QED
    BY <1>4, <1>6, <1>8, <1>9, <1>10 DEF Adjoins, d, f, gs

-----------------------------------------------------------------------------
(* The invariant *)

LEMMA Initially == Init => IInv
  <1> SUFFICES ASSUME Init PROVE IInv
    OBVIOUS
  <1> DEFINE f == MethodState(0, Main)
  <1>1. /\ f \in State /\ f.addr = 0 /\ f.stackOfs = 0 /\ f.method = Main
        /\ End(f) = FrameSize(Main)
    <2>1. 0 \in Nat /\ Main \in Methods
      BY SizesAssumption
    <2>2. FrameSize(Main) \in Nat
      BY <2>1, FrameSizeType
    <2>3. End(f) = 0 + FrameSize(Main)
      BY <2>1, MethodStateType, Zenon
    <2>4. f \in State /\ f.addr = 0 /\ f.stackOfs = 0 /\ f.method = Main
      BY <2>1, MethodStateType, Zenon
    <2> QED
      BY <2>2, <2>3, <2>4
  <1>2. f.stackOfs <= MaxStack[f.method]
    BY <1>1, SizesAssumption
  <1> HIDE DEF f
  <1>3. <<f>> \in Seq(State) /\ Len(<<f>>) = 1 /\ <<f>>[1] = f /\ <<f>> # <<>>
    BY <1>1
  <1>4. Adjoins(<<f>>, End(f))
    BY <1>1, <1>2, <1>3 DEF Adjoins
  <1>5. Adjoins(frames, ofs) /\ ofs <= ChunkSize
    BY <1>1, <1>4, SizesAssumption DEF Init, f
  <1>6. IsMemory(memory)
    BY DEF Init, IsMemory
  <1> QED
    BY <1>5, <1>6 DEF Init, IInv

(* The current method, while it runs. *)
LEMMA TopFacts ==
  ASSUME IInv, Running
  PROVE  /\ Adjoins(frames, ofs) /\ ofs \in Nat /\ ofs <= ChunkSize
         /\ IsMemory(memory)
         /\ Depth \in Nat \ {0} /\ Top \in State
         /\ Top.method \in Methods /\ Top.addr \in Nat /\ Top.stackOfs \in Nat
         /\ Top.stackOfs <= MaxStack[Top.method] /\ MaxStack[Top.method] \in Nat
         /\ EvalStack(Top) \in Nat
         /\ CurEvalStack(Top) = EvalStack(Top) + Top.stackOfs
         /\ CurEvalStack(Top) <= Parameters(Top)
         /\ Parameters(Top) \in Nat
         /\ Parameters(Top) + Params[Top.method] + Locals[Top.method] = ofs
         /\ CurEvalStack(Top) <= ofs
         /\ Top.addr < ofs
  <1>1. /\ Depth \in Nat \ {0} /\ Top \in State /\ ofs \in Nat
        /\ Top.stackOfs <= MaxStack[Top.method] /\ ofs = End(Top)
    BY AdjoinsFacts DEF IInv, Depth, Top
  <1>2. Top.method \in Methods /\ Top.addr \in Nat /\ Top.stackOfs \in Nat
    BY <1>1 DEF State
  <1>3. /\ MaxStack[Top.method] \in Nat
        /\ Params[Top.method] \in Nat /\ Locals[Top.method] \in Nat
    BY <1>2, SizesAssumption
  <1>4. /\ EvalStack(Top) \in Nat /\ Parameters(Top) \in Nat
        /\ CurEvalStack(Top) = EvalStack(Top) + Top.stackOfs
        /\ CurEvalStack(Top) <= Parameters(Top)
        /\ Parameters(Top) + Params[Top.method] + Locals[Top.method] = ofs
        /\ Top.addr < ofs
    BY <1>1, EndType
  <1>5. CurEvalStack(Top) <= ofs
    BY <1>1, <1>2, <1>3, <1>4
  <1> QED
    BY <1>1, <1>2, <1>3, <1>4, <1>5 DEF IInv, Running

LEMMA StackOfsAdjoins ==
  ASSUME IInv, Running, NEW n \in Nat, n <= MaxStack[Top.method]
  PROVE  Adjoins(StackOfs(n), ofs)
  BY TopFacts, AdjoinsStackOfs DEF StackOfs, Top, Depth

LEMMA CopyParametersType ==
  ASSUME IInv, Running, NEW mem, IsMemory(mem), NEW f \in State,
         NEW n \in Nat, n <= Top.stackOfs, NEW below \in Nat
  PROVE  IsMemory(CopyParameters(mem, f, n, below))
  <1>1. Parameters(f) + below \in Int
    BY EndType
  <1>2. CurEvalStack(Top) - n \in Nat /\ CurEvalStack(Top) - n + n <= ChunkSize
    BY TopFacts, SizesAssumption
  <1> QED
    BY <1>1, <1>2, MoveType DEF CopyParameters

LEMMA PushInv ==
  ASSUME IInv, NEW v \in Values, Push(v)
  PROVE  IInv'
  <1>1. Running
    BY DEF Push
  <1>2. Adjoins(frames', ofs')
    BY <1>1, TopFacts, StackOfsAdjoins DEF Push
  <1>3. IsMemory(memory')
    BY <1>1, TopFacts, WriteType DEF Push
  <1> QED
    BY <1>2, <1>3 DEF IInv, Push

LEMMA LoadInv ==
  ASSUME IInv, NEW i, LoadParamLocal(i)
  PROVE  IInv'
  <1>1. Running /\ i \in 0 .. Params[Top.method] + Locals[Top.method] - 1
    BY DEF LoadParamLocal
  <1>2. Adjoins(frames', ofs')
    BY <1>1, TopFacts, StackOfsAdjoins DEF LoadParamLocal
  <1>3. Parameters(Top) + i \in 0 .. ChunkSize - 1
    BY <1>1, TopFacts, SizesAssumption
  <1>4. IsMemory(memory')
    BY <1>1, <1>3, TopFacts, WriteType DEF LoadParamLocal, IsMemory
  <1> QED
    BY <1>2, <1>4 DEF IInv, LoadParamLocal

LEMMA StoreInv ==
  ASSUME IInv, NEW i, StoreParamLocal(i)
  PROVE  IInv'
  <1>1. Running
    BY DEF StoreParamLocal
  <1>2. Adjoins(frames', ofs')
    BY <1>1, TopFacts, StackOfsAdjoins DEF StoreParamLocal
  <1>3. CurEvalStack(Top) - 1 \in 0 .. ChunkSize - 1
    BY <1>1, TopFacts, SizesAssumption DEF StoreParamLocal
  <1>4. IsMemory(memory')
    BY <1>1, <1>3, TopFacts, WriteType DEF StoreParamLocal, IsMemory
  <1> QED
    BY <1>2, <1>4 DEF IInv, StoreParamLocal

LEMMA CrashInv ==
  ASSUME IInv, Running, NEW end, Crash(end)
  PROVE  IInv'
  BY TopFacts DEF IInv, Crash

LEMMA PlainCallInv ==
  ASSUME IInv, Running, NEW m \in Methods, Top.stackOfs >= Params[m], PlainCall(m)
  PROVE  IInv'
  <1> DEFINE f == MethodState(ofs, m)
  <1>1. CASE Crash(End(f))
    BY <1>1, CrashInv
  <1>2. CASE ~Crash(End(f))
    <2>1. Params[m] \in Nat /\ ofs \in Nat
      BY TopFacts, SizesAssumption
    <2>2. f \in State
      BY <2>1, MethodStateType
    <2>3. Adjoins(StackOfs(Top.stackOfs - Params[m]), ofs)
      BY <2>1, TopFacts, StackOfsAdjoins
    <2>4. Adjoins(Append(StackOfs(Top.stackOfs - Params[m]), f), End(f))
      BY <2>3, AdjoinsAppend
    <2>5. IsMemory(CopyParameters(memory, f, Params[m], 0))
      BY <2>1, <2>2, TopFacts, CopyParametersType
    <2>6. /\ StackAlloc(End(f))
          /\ memory' = CopyParameters(memory, f, Params[m], 0)
          /\ frames' = Append(StackOfs(Top.stackOfs - Params[m]), f)
          /\ ofs' = End(f)
          /\ status' = status
      BY <1>2 DEF PlainCall
    <2> QED
      BY <2>4, <2>5, <2>6 DEF IInv, StackAlloc
  <1> QED
    BY <1>1, <1>2

LEMMA TailCallInv ==
  ASSUME IInv, NEW m \in Methods, TailCall(m)
  PROVE  IInv'
  <1> DEFINE f == MethodState(Top.addr, m)
  <1>1. Running /\ Top.stackOfs = Params[m]
    BY DEF TailCall
  <1>2. Params[m] \in Nat
    BY SizesAssumption
  <1>3. CASE ReusesFrame(m)
    <2>1. f \in State
      BY <1>1, TopFacts, MethodStateType
    <2>2. Adjoins([frames EXCEPT ![Depth] = f], End(f))
      BY <1>1, TopFacts, AdjoinsReplace DEF Top, Depth
    <2>3. IsMemory(CopyParameters(memory, f, Params[m], 0))
      BY <1>1, <1>2, <2>1, TopFacts, CopyParametersType
    <2>4. /\ memory' = CopyParameters(memory, f, Params[m], 0)
          /\ frames' = [frames EXCEPT ![Depth] = f]
          /\ ofs' = End(f)
          /\ status' = IF End(f) > ChunkSize THEN "overrun" ELSE "run"
      BY <1>3 DEF TailCall
    <2>5. End(f) \in Nat /\ ChunkSize \in Nat
      BY <2>1, EndType, SizesAssumption
    <2> QED
      BY <2>2, <2>3, <2>4, <2>5 DEF IInv
  <1>4. CASE ~ReusesFrame(m)
    BY <1>1, <1>2, <1>4, TopFacts, PlainCallInv DEF TailCall
  <1> QED
    BY <1>3, <1>4

(* With or without the finalizer on top. *)
LEMMA RunFinalizerInv ==
  ASSUME IInv, Running, NEW mem, IsMemory(mem), NEW fs, NEW end, Adjoins(fs, end),
         end <= ChunkSize, NEW pending \in Values, RunFinalizer(mem, fs, end, pending)
  PROVE  IInv'
  <1>1. CASE memory' = mem /\ frames' = fs /\ ofs' = end /\ UNCHANGED status
    BY <1>1 DEF IInv
  <1>2. ASSUME NEW m \in Finalizers, Crash(End(MethodState(end, m)))
        PROVE  IInv'
    BY <1>2, CrashInv
  <1>3. ASSUME NEW m \in Finalizers,
               LET f == MethodState(end, m)
               IN /\ StackAlloc(End(f))
                  /\ memory' = Write(mem, Parameters(f), pending)
                  /\ frames' = Append(fs, f)
                  /\ ofs' = End(f)
                  /\ UNCHANGED status
        PROVE  IInv'
    <2>1. m \in Methods
      BY CodeAssumption
    <2>2. Adjoins(Append(fs, MethodState(end, m)), End(MethodState(end, m)))
      BY <2>1, AdjoinsAppend
    <2>3. IsMemory(Write(mem, Parameters(MethodState(end, m)), pending))
      BY WriteType
    <2> QED
      BY <1>3, <2>2, <2>3 DEF IInv, StackAlloc
  <1> QED
    BY <1>1, <1>2, <1>3 DEF RunFinalizer

LEMMA NewObjectInv ==
  ASSUME IInv, NEW m \in Methods, NEW obj \in Objects, NEW pending \in Objects,
         NewObject(m, obj, pending)
  PROVE  IInv'
  <1> DEFINE f == MethodState(ofs, m)
             n == Params[m] - 1
             passed == CopyParameters(Write(memory, Parameters(f), obj), f, n, 1)
             mem == Write(passed, CurEvalStack(Top) - n, obj)
             fs == Append(StackOfs(Top.stackOfs - n + 1), f)
  <1>1. /\ Running /\ m \in Constructors
        /\ Top.stackOfs >= n /\ Top.stackOfs - n < MaxStack[Top.method]
    BY DEF NewObject
  <1>2. n \in Nat
    BY <1>1, CodeAssumption, SizesAssumption
  <1>3. obj \in Values /\ pending \in Values
    BY CodeAssumption
  <1>4. f \in State
    BY <1>1, TopFacts, MethodStateType
  <1>5. IsMemory(mem)
    <2>1. IsMemory(Write(memory, Parameters(f), obj))
      BY <1>1, <1>3, TopFacts, WriteType
    <2>2. IsMemory(passed)
      BY <1>1, <1>2, <1>4, <2>1, CopyParametersType
    <2> QED
      BY <1>3, <2>2, WriteType
  <1>6. Adjoins(fs, End(f))
    <2>1. Adjoins(StackOfs(Top.stackOfs - n + 1), ofs)
      <3>1. /\ Top.stackOfs - n + 1 \in Nat
            /\ Top.stackOfs - n + 1 <= MaxStack[Top.method]
        BY <1>1, <1>2, TopFacts
      <3> QED
        BY <1>1, <3>1, StackOfsAdjoins
    <2> QED
      BY <2>1, AdjoinsAppend
  <1>7. \/ Crash(End(f))
        \/ StackAlloc(End(f)) /\ RunFinalizer(mem, fs, End(f), pending)
    BY DEF NewObject
  <1> HIDE DEF mem, fs, f
  <1>8. CASE Crash(End(f))
    BY <1>1, <1>8, CrashInv
  <1>9. CASE StackAlloc(End(f)) /\ RunFinalizer(mem, fs, End(f), pending)
    BY <1>1, <1>3, <1>5, <1>6, <1>9, RunFinalizerInv DEF StackAlloc
  <1> QED
    BY <1>7, <1>8, <1>9

LEMMA NewVectorInv ==
  ASSUME IInv, NEW obj \in Objects, NEW pending \in Objects, NewVector(obj, pending)
  PROVE  IInv'
  <1> DEFINE mem == Write(memory, CurEvalStack(Top) - 1, obj)
  <1>1. Running /\ RunFinalizer(mem, frames, ofs, pending)
    BY DEF NewVector
  <1>2. obj \in Values /\ pending \in Values
    BY CodeAssumption
  <1>3. IsMemory(mem)
    BY <1>1, <1>2, TopFacts, WriteType
  <1> QED
    BY <1>1, <1>2, <1>3, TopFacts, RunFinalizerInv

LEMMA ReturnInv ==
  ASSUME IInv, Return
  PROVE  IInv'
  <1> DEFINE n == Returns[Top.method]
             caller == frames[Depth - 1]
             below == SubSeq(frames, 1, Depth - 1)
  <1>1. Running /\ Top.stackOfs >= n
    BY DEF Return
  <1>2. CASE Depth = 1
    <2>1. ofs <= ChunkSize /\ UNCHANGED <<memory, ofs, frames>> /\ status' = "exit"
      BY <1>1, <1>2, TopFacts DEF Return
    <2> QED
      BY <2>1 DEF IInv
  <1>3. CASE Depth # 1
    <2>1. n \in Nat /\ Depth \in Nat /\ Depth - 1 \in 1 .. Len(frames) /\ Depth = Len(frames)
      <3>1. Depth \in Nat \ {0} /\ Depth = Len(frames) /\ Top.method \in Methods
        BY <1>1, TopFacts DEF Depth
      <3>2. n \in Nat
        BY <3>1, SizesAssumption
      <3> QED
        BY <1>3, <3>1, <3>2
    <2>2. /\ caller.stackOfs + n <= MaxStack[caller.method]
          /\ memory' = Move(memory, CurEvalStack(caller), CurEvalStack(Top) - n, n)
          /\ frames' = [below EXCEPT ![Depth - 1].stackOfs = @ + n]
          /\ ofs' = Top.addr
          /\ UNCHANGED status
      BY <1>3 DEF Return
    <2>3. caller \in State
      BY <2>1, ElementOfSeq, TopFacts, <1>1 DEF Adjoins
    <2>4. /\ Adjoins(below, Top.addr)
          /\ Len(below) = Depth - 1 /\ below[Depth - 1] = caller
      <3>1. /\ Adjoins(below, IF Depth - 1 = Len(frames) THEN ofs
                              ELSE frames[Depth - 1 + 1].addr)
            /\ Len(below) = Depth - 1 /\ below[Depth - 1] = caller
        BY <1>1, <2>1, TopFacts, AdjoinsPrefix
      <3>2. Depth - 1 # Len(frames) /\ Depth - 1 + 1 = Depth
        BY <2>1
      <3> QED
        BY <3>1, <3>2 DEF Top
    <2>5. caller.stackOfs + n \in Nat
      BY <2>1, <2>3 DEF State
    <2> DEFINE gs == [below EXCEPT ![Len(below)].stackOfs = caller.stackOfs + n]
    <2>6. frames' = gs
      BY <2>2, <2>4
    <2>7. Adjoins(gs, Top.addr)
      BY <2>2, <2>4, <2>5, AdjoinsStackOfs
    <2>8. CurEvalStack(caller) \in Int
      BY <2>3, EndType
    <2>9. IsMemory(memory')
      <3>1. /\ CurEvalStack(Top) \in Nat /\ n <= CurEvalStack(Top)
            /\ CurEvalStack(Top) <= ChunkSize
        <4>1. /\ EvalStack(Top) \in Nat /\ Top.stackOfs \in Nat /\ ofs \in Nat
              /\ CurEvalStack(Top) = EvalStack(Top) + Top.stackOfs
              /\ CurEvalStack(Top) <= ofs /\ ofs <= ChunkSize
          BY <1>1, TopFacts
        <4> HIDE DEF n
        <4> QED
          BY <1>1, <2>1, <4>1, SizesAssumption
      <3>2. CurEvalStack(Top) - n \in Nat /\ CurEvalStack(Top) - n + n <= ChunkSize
        <4> HIDE DEF n
        <4> QED
          BY <2>1, <3>1
      <3> QED
        BY <1>1, <2>1, <2>2, <2>8, <3>2, TopFacts, MoveType
    <2>10. Top.addr <= ChunkSize
      BY <1>1, TopFacts, SizesAssumption
    <2> QED
      BY <2>2, <2>6, <2>7, <2>9, <2>10 DEF IInv
  <1> QED
    BY <1>2, <1>3

LEMMA ThrowInv ==
  ASSUME IInv, NEW n \in 1 .. Depth, Throw(n)
  PROVE  IInv'
  <1> DEFINE below == SubSeq(frames, 1, n)
  <1>1. /\ Running /\ Top.stackOfs > 0 /\ frames[n].method \in Catching
        /\ memory' = Write(memory, EvalStack(frames[n]), memory[CurEvalStack(Top) - 1])
        /\ frames' = [below EXCEPT ![n].stackOfs = 1]
        /\ ofs' = StackFree(n)
        /\ UNCHANGED status
    BY DEF Throw
  <1>2. n \in 1 .. Len(frames)
    BY DEF Depth
  <1>3. /\ Adjoins(below, ofs') /\ Len(below) = n /\ below[n] = frames[n]
        /\ ofs' = End(frames[n])
    BY <1>1, <1>2, TopFacts, AdjoinsPrefix DEF StackFree, Depth
  <1>4. 1 \in Nat /\ 1 <= MaxStack[frames[n].method]
    <2>1. frames[n].method \in Methods /\ MaxStack[frames[n].method] > 0
      BY <1>1, CodeAssumption
    <2>2. MaxStack[frames[n].method] \in Nat
      BY <2>1, SizesAssumption
    <2> QED
      BY <2>1, <2>2
  <1>5. Adjoins(frames', ofs')
    <2>1. Adjoins([below EXCEPT ![Len(below)].stackOfs = 1], ofs')
      BY <1>3, <1>4, AdjoinsStackOfs
    <2> QED
      BY <1>1, <1>3, <2>1
  <1>6. CurEvalStack(Top) - 1 \in 0 .. ChunkSize - 1
    <2>1. /\ EvalStack(Top) \in Nat /\ Top.stackOfs \in Nat /\ ofs \in Nat
          /\ CurEvalStack(Top) = EvalStack(Top) + Top.stackOfs
          /\ CurEvalStack(Top) <= ofs /\ ofs <= ChunkSize
      BY <1>1, TopFacts
    <2> QED
      BY <1>1, <2>1, SizesAssumption
  <1>7. IsMemory(memory')
    BY <1>1, <1>6, TopFacts, WriteType DEF IsMemory
  <1>8. ofs' <= ChunkSize
    <2>1. CASE n = Depth
      BY <1>1, <2>1, TopFacts DEF StackFree
    <2>2. CASE n # Depth
      <3>1. n < Depth /\ Depth \in 1 .. Len(frames) /\ Depth = Len(frames)
        BY <1>1, <1>2, <2>2, TopFacts DEF Depth
      <3>2. End(frames[n]) <= Top.addr
        <4>1. \A i, j \in 1 .. Len(frames) : i < j => End(frames[i]) <= frames[j].addr
          BY <1>1, TopFacts DEF Adjoins
        <4> QED
          BY <1>2, <3>1, <4>1 DEF Top
      <3>3. Top.addr \in Nat /\ ofs \in Nat /\ Top.addr < ofs /\ ofs <= ChunkSize
        BY <1>1, TopFacts
      <3>4. frames[n] \in State
        <4>1. frames \in Seq(State)
          BY <1>1, TopFacts DEF Adjoins
        <4> QED
          BY <1>2, <4>1, ElementOfSeq
      <3>5. End(frames[n]) \in Nat /\ ofs' = End(frames[n])
        BY <1>3, <3>4, EndType
      <3> QED
        BY <3>2, <3>3, <3>5, SizesAssumption
    <2> QED
      BY <2>1, <2>2
  <1> QED
    BY <1>1, <1>5, <1>7, <1>8 DEF IInv

LEMMA Step == IInv /\ [Next]_vars => IInv'
  <1> SUFFICES ASSUME IInv, [Next]_vars PROVE IInv'
    OBVIOUS
  <1>1. CASE UNCHANGED vars
    BY <1>1 DEF vars, IInv
  <1>2. CASE Return
    BY <1>2, ReturnInv
  <1>3. ASSUME NEW v \in Values, Push(v)
        PROVE  IInv'
    BY <1>3, PushInv
  <1>4. ASSUME NEW m \in Methods, Call(m)
        PROVE  IInv'
    BY <1>4, PlainCallInv DEF Call
  <1>5. ASSUME NEW m \in Methods, TailCall(m)
        PROVE  IInv'
    BY <1>5, TailCallInv
  <1>6. ASSUME NEW m \in Methods, NEW obj \in Objects, NEW pending \in Objects,
               NewObject(m, obj, pending)
        PROVE  IInv'
    BY <1>6, NewObjectInv
  <1>7. ASSUME NEW obj \in Objects, NEW pending \in Objects, NewVector(obj, pending)
        PROVE  IInv'
    BY <1>7, NewVectorInv
  <1>8. ASSUME NEW i, LoadParamLocal(i) \/ StoreParamLocal(i)
        PROVE  IInv'
    BY <1>8, LoadInv, StoreInv
  <1>9. ASSUME NEW n \in 1 .. Depth, Throw(n)
        PROVE  IInv'
    BY <1>9, ThrowInv
  <1> QED
    BY <1>1, <1>2, <1>3, <1>4, <1>5, <1>6, <1>7, <1>8, <1>9 DEF Next

LEMMA Invariance == Spec => []IInv
  BY Initially, Step, PTL DEF Spec

-----------------------------------------------------------------------------
(* Theorems *)

LEMMA IInvImplies == IInv => TypeOK /\ FramesAdjoin
  <1> SUFFICES ASSUME IInv PROVE TypeOK /\ FramesAdjoin
    OBVIOUS
  <1>1. ofs \in Nat
    BY AdjoinsFacts DEF IInv
  <1>2. TypeOK
    BY <1>1 DEF IInv, Adjoins, IsMemory, TypeOK, State
  <1>3. FramesAdjoin
    BY DEF IInv, Adjoins, FramesAdjoin
  <1> QED
    BY <1>2, <1>3

(* Words read and written by instructions, calls, returns and exceptions   *)
(* come from the chunk, and evaluation stacks keep to the declared size.   *)
THEOREM Types == Spec => []TypeOK
  BY Invariance, IInvImplies, PTL

(* Calls, tail calls, finalizers, returns and exceptions leave the method  *)
(* states of a thread one behind the other.                                *)
THEOREM MethodStatesAdjoin == Spec => []FramesAdjoin
  BY Invariance, IInvImplies, PTL

(* A tail call gives the method state of its caller to a larger method.    *)
GrowingTailCall ==
  \E m \in Methods :
    TailCall(m) /\ ReusesFrame(m) /\ FrameSize(Top.method) < FrameSize(m)

LEMMA OverrunStep ==
  ASSUME IInv, ofs <= ChunkSize, [Next]_vars, status' = "overrun", status # "overrun"
  PROVE  GrowingTailCall
  <1>1. ASSUME NEW m \in Methods, TailCall(m)
        PROVE  GrowingTailCall
    <2> DEFINE f == MethodState(Top.addr, m)
    <2>1. Running
      BY <1>1 DEF TailCall
    <2>2. CASE ReusesFrame(m)
      <3>1. Top.method \in Methods /\ Top.addr \in Nat
        BY <2>1, TopFacts
      <3>2. FrameSize(m) \in Nat /\ FrameSize(Top.method) \in Nat
        BY <3>1, FrameSizeType
      <3>3. End(f) = Top.addr + FrameSize(m)
        BY <3>1, MethodStateType
      <3>4. ofs = Top.addr + FrameSize(Top.method)
        BY <2>1, TopFacts, AdjoinsFacts DEF End, Top, Depth
      <3>5. End(f) > ChunkSize
        BY <1>1, <2>2 DEF TailCall
      <3>6. FrameSize(Top.method) < FrameSize(m)
        BY <3>1, <3>2, <3>3, <3>4, <3>5, SizesAssumption
      <3> QED
        BY <1>1, <2>2, <3>6 DEF GrowingTailCall
    <2>3. CASE ~ReusesFrame(m)
      BY <1>1, <2>3 DEF TailCall, PlainCall, Crash
    <2> QED
      BY <2>2, <2>3
  <1>2. ASSUME NEW m \in Methods, NEW obj, NEW pending, NewObject(m, obj, pending)
        PROVE  FALSE
    BY <1>2 DEF NewObject, RunFinalizer, Crash
  <1>3. ASSUME NEW obj, NEW pending, NewVector(obj, pending)
        PROVE  FALSE
    BY <1>3 DEF NewVector, RunFinalizer, Crash
  <1>4. ASSUME NEW m, Call(m)
        PROVE  FALSE
    BY <1>4 DEF Call, PlainCall, Crash
  <1>5. CASE Return
    BY <1>5 DEF Return
  <1>6. ASSUME NEW v, Push(v) \/ LoadParamLocal(v) \/ StoreParamLocal(v) \/ Throw(v)
        PROVE  FALSE
    BY <1>6 DEF Push, LoadParamLocal, StoreParamLocal, Throw
  <1> QED
    BY <1>1, <1>2, <1>3, <1>4, <1>5, <1>6 DEF Next, vars

LEMMA AfterOverrun ==
  ASSUME [Next]_vars, status = "overrun"
  PROVE  UNCHANGED vars
  <1>1. ~Running
    BY DEF Running
  <1> QED
    BY <1>1 DEF Next, vars, Return, Push, Call, TailCall, NewObject, NewVector,
                LoadParamLocal, StoreParamLocal, Throw

(* "Thread-local stack is too large" (Thread.c:110) stops a program before *)
(* a method state lies beyond the chunk: the one step that passes the end  *)
(* is a tail call of a larger method (MethodState.c:153).                  *)
THEOREM OnlyTailCallsOverrun ==
  Spec => [][WithinChunk => WithinChunk' \/ GrowingTailCall]_vars
  <1>1. ASSUME IInv, IInv', [Next]_vars, WithinChunk, ~WithinChunk'
        PROVE  GrowingTailCall
    <2>1. status' = "overrun"
      BY <1>1, SizesAssumption DEF IInv, WithinChunk
    <2>2. status # "overrun"
      BY <1>1, AfterOverrun DEF WithinChunk, vars
    <2> QED
      BY <1>1, <2>1, <2>2, OverrunStep DEF WithinChunk
  <1>2. IInv /\ IInv' /\ [Next]_vars => [WithinChunk => WithinChunk' \/ GrowingTailCall]_vars
    BY <1>1
  <1> QED
    BY <1>2, Invariance, PTL DEF Spec

-----------------------------------------------------------------------------
(***************************************************************************)
(* ThreadStack implements CallFrames.  What methods see is written as a    *)
(* function of the memory and the method states, so that the moves of one  *)
(* step can be reasoned about in turn.                                     *)
(***************************************************************************)

WordsIn(mem, addr, n) == [k \in 1 .. n |-> mem[addr + k - 1]]

FrameIn(mem, f) ==
  [method |-> f.method,
   vars |-> WordsIn(mem, Parameters(f), Params[f.method] + Locals[f.method]),
   eval |-> WordsIn(mem, EvalStack(f), f.stackOfs)]

Seen(mem, fs) == [i \in 1 .. Len(fs) |-> FrameIn(mem, fs[i])]

Invocations == Seen(memory, frames)

Invoked == [method : Methods, vars : Seq(Values), eval : Seq(Values)]

-----------------------------------------------------------------------------
(* Words *)

InChunk(addr, n) == addr \in Nat /\ n \in Nat /\ addr + n <= ChunkSize

LEMMA WordsType ==
  ASSUME NEW mem, IsMemory(mem), NEW addr, NEW n, InChunk(addr, n)
  PROVE  /\ WordsIn(mem, addr, n) \in Seq(Values)
         /\ Len(WordsIn(mem, addr, n)) = n
         /\ DOMAIN WordsIn(mem, addr, n) = 1 .. n
         /\ \A k \in 1 .. n : /\ WordsIn(mem, addr, n)[k] = mem[addr + k - 1]
                              /\ mem[addr + k - 1] \in Values
  <1>1. n \in Nat /\ addr \in Nat /\ addr + n <= ChunkSize /\ ChunkSize \in Nat
    BY SizesAssumption DEF InChunk
  <1>2. \A k \in 1 .. n : addr + k - 1 \in 0 .. ChunkSize - 1
    BY <1>1
  <1>3. \A k \in 1 .. n : mem[addr + k - 1] \in Values
    BY <1>2 DEF IsMemory
  <1>4. WordsIn(mem, addr, n) \in [1 .. n -> Values]
    BY <1>3 DEF WordsIn
  <1>5. WordsIn(mem, addr, n) \in Seq(Values) /\ Len(WordsIn(mem, addr, n)) = n
    BY <1>1, <1>4
  <1> QED
    BY <1>3, <1>5 DEF WordsIn

(* Words that were moved are the same words. *)
LEMMA WordsCopied ==
  ASSUME NEW mem, NEW mem2, NEW from \in Int, NEW to \in Int, NEW n \in Nat,
         \A k \in 0 .. n - 1 : mem2[to + k] = mem[from + k]
  PROVE  WordsIn(mem2, to, n) = WordsIn(mem, from, n)
  <1>1. ASSUME NEW k \in 1 .. n
        PROVE  mem2[to + k - 1] = mem[from + k - 1]
    <2>1. k - 1 \in 0 .. n - 1 /\ to + (k - 1) = to + k - 1 /\ from + (k - 1) = from + k - 1
      OBVIOUS
    <2> QED
      BY <2>1
  <1> QED
    BY <1>1 DEF WordsIn

LEMMA WordsFirst ==
  ASSUME NEW mem, IsMemory(mem), NEW addr, NEW n, InChunk(addr, n), NEW i \in 0 .. n
  PROVE  SubSeq(WordsIn(mem, addr, n), 1, i) = WordsIn(mem, addr, i)
  <1> DEFINE w == WordsIn(mem, addr, n)
             p == SubSeq(w, 1, i)
             q == WordsIn(mem, addr, i)
  <1>1. n \in Nat /\ i \in Nat /\ i <= n /\ InChunk(addr, i)
    BY SizesAssumption DEF InChunk
  <1>2. /\ w \in Seq(Values) /\ Len(w) = n
        /\ \A k \in 1 .. n : w[k] = mem[addr + k - 1] /\ w[k] \in Values
    BY WordsType
  <1>3. /\ q \in Seq(Values) /\ Len(q) = i
        /\ \A k \in 1 .. i : q[k] = mem[addr + k - 1]
    BY <1>1, WordsType
  <1> HIDE DEF w, q
  <1>4. \A k \in 1 .. i : w[k] \in Values
    BY <1>1, <1>2
  <1>5. /\ p \in Seq(Values) /\ Len(p) = IF 1 <= i THEN i - 1 + 1 ELSE 0
        /\ \A k \in 1 .. i - 1 + 1 : p[k] = w[1 + k - 1]
    BY <1>1, <1>4, SubSeqProperties
  <1> HIDE DEF p
  <1>6. Len(p) = i /\ \A k \in 1 .. i : p[k] = q[k]
    BY <1>1, <1>2, <1>3, <1>5
  <1>7. p = q
    BY <1>3, <1>5, <1>6, SeqEqual
  <1> QED
    BY <1>7 DEF p, q, w

(* The last l of n words. *)
LastIn(mem, addr, n, l) == SubSeq(WordsIn(mem, addr, n), n - l + 1, n)

LEMMA WordsLast ==
  ASSUME NEW mem, IsMemory(mem), NEW addr, NEW n, InChunk(addr, n), NEW l \in 0 .. n
  PROVE  LastIn(mem, addr, n, l) = WordsIn(mem, addr + (n - l), l)
  <1> DEFINE w == WordsIn(mem, addr, n)
             j == n - l + 1
             b == addr + (n - l)
             p == SubSeq(w, j, n)
             q == WordsIn(mem, b, l)
  <1>1. /\ n \in Nat /\ l \in Nat /\ l <= n /\ InChunk(b, l) /\ addr \in Nat
        /\ j = n - l + 1 /\ b = addr + (n - l)
    BY SizesAssumption DEF InChunk
  <1> HIDE DEF b, j
  <1>2. /\ w \in Seq(Values) /\ Len(w) = n
        /\ \A k \in 1 .. n : w[k] = mem[addr + k - 1] /\ w[k] \in Values
    BY WordsType
  <1>3. /\ q \in Seq(Values) /\ Len(q) = l
        /\ \A k \in 1 .. l : q[k] = mem[b + k - 1]
    <2>1. InChunk(b, l)
      BY <1>1
    <2> QED
      BY <2>1, WordsType
  <1> HIDE DEF w, q
  <1>4. j \in Int /\ \A k \in j .. n : w[k] \in Values
    BY <1>1, <1>2
  <1>5. /\ p \in Seq(Values) /\ Len(p) = IF j <= n THEN n - j + 1 ELSE 0
        /\ \A k \in 1 .. n - j + 1 : p[k] = w[j + k - 1]
    BY <1>1, <1>4, SubSeqProperties
  <1> HIDE DEF p
  <1>6. Len(p) = l
    BY <1>1, <1>5
  <1>7. ASSUME NEW k \in 1 .. l
        PROVE  p[k] = q[k]
    <2> DEFINE i == j + k - 1
    <2>1. i \in 1 .. n /\ k \in 1 .. n - j + 1 /\ addr + i - 1 = b + k - 1
      BY <1>1
    <2>2. p[k] = w[i]
      BY <1>5, <2>1
    <2> HIDE DEF i
    <2> QED
      BY <1>2, <1>3, <2>1, <2>2
  <1>8. p = q
    BY <1>1, <1>3, <1>5, <1>6, <1>7, SeqEqual
  <1> QED
    BY <1>8 DEF LastIn, p, q, w, b, j

LEMMA WordsAppend ==
  ASSUME NEW mem, IsMemory(mem), NEW addr, NEW n \in Nat, InChunk(addr, n + 1)
  PROVE  WordsIn(mem, addr, n + 1) = Append(WordsIn(mem, addr, n), mem[addr + n])
  <1> DEFINE w == WordsIn(mem, addr, n)
             q == WordsIn(mem, addr, n + 1)
             p == Append(w, mem[addr + n])
  <1>1. InChunk(addr, n) /\ addr \in Nat /\ n + 1 \in Nat
    BY SizesAssumption DEF InChunk
  <1>2. /\ w \in Seq(Values) /\ Len(w) = n
        /\ \A k \in 1 .. n : w[k] = mem[addr + k - 1]
    BY <1>1, WordsType
  <1>3. /\ q \in Seq(Values) /\ Len(q) = n + 1
        /\ \A k \in 1 .. n + 1 : q[k] = mem[addr + k - 1] /\ q[k] \in Values
    BY <1>1, WordsType
  <1>4. mem[addr + n] \in Values /\ q[n + 1] = mem[addr + n]
    <2>1. n + 1 \in 1 .. n + 1 /\ addr + (n + 1) - 1 = addr + n
      BY <1>1
    <2> QED
      BY <1>3, <2>1
  <1> HIDE DEF w, q
  <1>5. /\ p \in Seq(Values) /\ Len(p) = n + 1
        /\ \A k \in 1 .. n : p[k] = w[k]
        /\ p[n + 1] = mem[addr + n]
    BY <1>2, <1>4, AppendProperties
  <1> HIDE DEF p
  <1>6. ASSUME NEW k \in 1 .. n + 1
        PROVE  p[k] = q[k]
    <2>1. k = n + 1 \/ k \in 1 .. n
      OBVIOUS
    <2> QED
      BY <1>2, <1>3, <1>4, <1>5, <2>1
  <1>7. p = q
    BY <1>3, <1>5, <1>6, SeqEqual
  <1> QED
    BY <1>7 DEF p, q, w

LEMMA WordsConcat ==
  ASSUME NEW mem, IsMemory(mem), NEW addr, NEW n \in Nat, NEW k \in Nat,
         InChunk(addr, n + k)
  PROVE  WordsIn(mem, addr, n + k) = WordsIn(mem, addr, n) \o WordsIn(mem, addr + n, k)
  <1> DEFINE w == WordsIn(mem, addr, n)
             b == addr + n
             u == WordsIn(mem, b, k)
             q == WordsIn(mem, addr, n + k)
             p == w \o u
  <1>1. InChunk(addr, n) /\ InChunk(b, k) /\ addr \in Nat /\ b = addr + n
    BY SizesAssumption DEF InChunk
  <1> HIDE DEF b
  <1>2. /\ w \in Seq(Values) /\ Len(w) = n
        /\ \A i \in 1 .. n : w[i] = mem[addr + i - 1]
    <2>1. InChunk(addr, n)
      BY <1>1
    <2> QED
      BY <2>1, WordsType
  <1>3. /\ u \in Seq(Values) /\ Len(u) = k
        /\ \A i \in 1 .. k : u[i] = mem[b + i - 1]
    <2>1. InChunk(b, k)
      BY <1>1
    <2> QED
      BY <2>1, WordsType
  <1>4. /\ q \in Seq(Values) /\ Len(q) = n + k
        /\ \A i \in 1 .. n + k : q[i] = mem[addr + i - 1]
    BY <1>1, WordsType
  <1> HIDE DEF w, u, q
  <1>5. /\ p \in Seq(Values) /\ Len(p) = n + k
        /\ \A i \in 1 .. n + k : p[i] = IF i <= n THEN w[i] ELSE u[i - n]
    BY <1>2, <1>3, ConcatProperties
  <1> HIDE DEF p
  <1>6. ASSUME NEW i \in 1 .. n + k
        PROVE  p[i] = q[i]
    <2>1. CASE i <= n
      <3>1. i \in 1 .. n
        BY <2>1
      <3> QED
        BY <1>2, <1>4, <1>5, <2>1, <3>1
    <2>2. CASE ~(i <= n)
      <3>1. i - n \in 1 .. k /\ b + (i - n) - 1 = addr + i - 1
        BY <1>1, <2>2
      <3> QED
        BY <1>3, <1>4, <1>5, <2>2, <3>1
    <2> QED
      BY <2>1, <2>2
  <1>7. p = q
    BY <1>4, <1>5, <1>6, SeqEqual
  <1> QED
    BY <1>7 DEF p, q, w, u, b

LEMMA WordsWritten ==
  ASSUME NEW mem, IsMemory(mem), NEW addr, NEW n, InChunk(addr, n),
         NEW i \in 1 .. n, NEW a, a = addr + i - 1, NEW v
  PROVE  WordsIn(Write(mem, a, v), addr, n)
           = [WordsIn(mem, addr, n) EXCEPT ![i] = v]
  <1>1. n \in Nat /\ addr \in Nat /\ addr + n <= ChunkSize
    BY DEF InChunk
  <1>2. ASSUME NEW k \in 1 .. n
        PROVE  Write(mem, a, v)[addr + k - 1]
                 = IF k = i THEN v ELSE mem[addr + k - 1]
    <2>1. addr + k - 1 \in 0 .. ChunkSize - 1 /\ (addr + k - 1 = a <=> k = i)
      BY <1>1, SizesAssumption
    <2> QED
      BY <2>1 DEF Write, IsMemory
  <1> QED
    BY <1>2 DEF WordsIn

-----------------------------------------------------------------------------
(* Invocations *)

LEMMA StateInChunk ==
  ASSUME NEW f \in State, End(f) <= ChunkSize, f.stackOfs <= MaxStack[f.method]
  PROVE  /\ f.method \in Methods /\ f.stackOfs \in Nat /\ f.addr \in Nat
         /\ InChunk(EvalStack(f), MaxStack[f.method])
         /\ InChunk(EvalStack(f), f.stackOfs)
         /\ InChunk(Parameters(f), Params[f.method] + Locals[f.method])
         /\ f.addr < EvalStack(f)
         /\ Parameters(f) = EvalStack(f) + MaxStack[f.method]
         /\ End(f) = Parameters(f) + (Params[f.method] + Locals[f.method])
         /\ MaxStack[f.method] \in Nat /\ Params[f.method] \in Nat /\ Locals[f.method] \in Nat
  <1>1. f.method \in Methods /\ f.stackOfs \in Nat /\ f.addr \in Nat
    BY DEF State
  <1>2. MaxStack[f.method] \in Nat /\ Params[f.method] \in Nat /\ Locals[f.method] \in Nat
    BY <1>1, SizesAssumption
  <1>3. /\ EvalStack(f) \in Nat /\ Parameters(f) \in Nat /\ End(f) \in Nat
        /\ f.addr < EvalStack(f)
        /\ Parameters(f) + Params[f.method] + Locals[f.method] = End(f)
    BY EndType
  <1>4. Parameters(f) = EvalStack(f) + MaxStack[f.method]
    BY DEF Parameters
  <1>5. ChunkSize \in Nat
    BY SizesAssumption
  <1> QED
    BY <1>1, <1>2, <1>3, <1>4, <1>5 DEF InChunk

LEMMA FrameType ==
  ASSUME NEW f \in State, End(f) <= ChunkSize, f.stackOfs <= MaxStack[f.method],
         NEW mem, IsMemory(mem)
  PROVE  /\ FrameIn(mem, f) \in Invoked
         /\ FrameIn(mem, f).method = f.method
         /\ FrameIn(mem, f).vars
              = WordsIn(mem, Parameters(f), Params[f.method] + Locals[f.method])
         /\ FrameIn(mem, f).eval = WordsIn(mem, EvalStack(f), f.stackOfs)
  <1>1. /\ f.method \in Methods
        /\ InChunk(EvalStack(f), f.stackOfs)
        /\ InChunk(Parameters(f), Params[f.method] + Locals[f.method])
    BY StateInChunk
  <1>2. WordsIn(mem, Parameters(f), Params[f.method] + Locals[f.method]) \in Seq(Values)
    BY <1>1, WordsType
  <1>3. WordsIn(mem, EvalStack(f), f.stackOfs) \in Seq(Values)
    BY <1>1, WordsType
  <1> QED
    BY <1>1, <1>2, <1>3 DEF FrameIn, Invoked

(* What is written elsewhere does not change an invocation. *)
LEMMA FrameKept ==
  ASSUME NEW f \in State, End(f) <= ChunkSize, f.stackOfs <= MaxStack[f.method],
         NEW mem, NEW mem2,
         \A a \in f.addr .. End(f) - 1 : mem2[a] = mem[a]
  PROVE  FrameIn(mem2, f) = FrameIn(mem, f)
  <1> DEFINE e == EvalStack(f)
             p == Parameters(f)
             n == Params[f.method] + Locals[f.method]
             k == f.stackOfs
  <1>1. /\ e \in Nat /\ p \in Nat /\ n \in Nat /\ k \in Nat /\ f.addr \in Nat
        /\ f.addr < e /\ e + k <= p /\ p + n = End(f)
    BY StateInChunk DEF InChunk
  <1> HIDE DEF e, p, n, k
  <1>2. \A j \in 0 .. n - 1 : mem2[p + j] = mem[p + j]
    <2> SUFFICES ASSUME NEW j \in 0 .. n - 1
                 PROVE  mem2[p + j] = mem[p + j]
      OBVIOUS
    <2>1. p + j \in f.addr .. End(f) - 1
      BY <1>1
    <2> QED
      BY <2>1
  <1>3. \A j \in 0 .. k - 1 : mem2[e + j] = mem[e + j]
    <2> SUFFICES ASSUME NEW j \in 0 .. k - 1
                 PROVE  mem2[e + j] = mem[e + j]
      OBVIOUS
    <2>1. e + j \in f.addr .. End(f) - 1
      BY <1>1
    <2> QED
      BY <2>1
  <1>4. WordsIn(mem2, p, n) = WordsIn(mem, p, n)
    BY <1>1, <1>2, WordsCopied
  <1>5. WordsIn(mem2, e, k) = WordsIn(mem, e, k)
    BY <1>1, <1>3, WordsCopied
  <1> QED
    BY <1>4, <1>5 DEF FrameIn, e, p, n, k

LEMMA AdjoinsInside ==
  ASSUME NEW fs, NEW end, Adjoins(fs, end), NEW i \in 1 .. Len(fs)
  PROVE  /\ fs[i] \in State /\ fs[i].stackOfs <= MaxStack[fs[i].method]
         /\ End(fs[i]) \in Nat /\ End(fs[i]) <= end
         /\ fs[i].addr \in Nat /\ fs[i].addr < End(fs[i])
  <1> DEFINE d == Len(fs)
  <1>1. /\ d \in Nat \ {0} /\ fs[d] \in State /\ end = End(fs[d]) /\ fs \in Seq(State)
    BY AdjoinsFacts DEF Adjoins
  <1>2. fs[i] \in State /\ fs[i].stackOfs <= MaxStack[fs[i].method]
    BY <1>1, ElementOfSeq DEF Adjoins
  <1>3. /\ End(fs[i]) \in Nat /\ fs[i].addr < End(fs[i]) /\ fs[i].addr \in Nat
        /\ End(fs[d]) \in Nat /\ fs[d].addr < End(fs[d]) /\ fs[d].addr \in Nat
    BY <1>1, <1>2, EndType DEF State
  <1>4. i < d => End(fs[i]) <= fs[d].addr
    BY <1>1 DEF Adjoins
  <1>5. i = d \/ i < d
    BY <1>1
  <1> QED
    BY <1>1, <1>2, <1>3, <1>4, <1>5

LEMMA SeenType ==
  ASSUME NEW fs, NEW end, Adjoins(fs, end), end <= ChunkSize, NEW mem, IsMemory(mem)
  PROVE  /\ Seen(mem, fs) \in Seq(Invoked)
         /\ Len(Seen(mem, fs)) = Len(fs)
         /\ DOMAIN Seen(mem, fs) = 1 .. Len(fs)
         /\ \A i \in 1 .. Len(fs) : Seen(mem, fs)[i] = FrameIn(mem, fs[i])
  <1>1. Len(fs) \in Nat
    BY AdjoinsFacts
  <1>2. ASSUME NEW i \in 1 .. Len(fs)
        PROVE  FrameIn(mem, fs[i]) \in Invoked
    <2>1. /\ fs[i] \in State /\ fs[i].stackOfs <= MaxStack[fs[i].method]
          /\ End(fs[i]) <= end /\ End(fs[i]) \in Nat /\ end \in Nat /\ ChunkSize \in Nat
      BY AdjoinsInside, AdjoinsFacts, SizesAssumption
    <2>2. End(fs[i]) <= ChunkSize
      BY <2>1
    <2> QED
      BY <2>1, <2>2, FrameType
  <1>3. Seen(mem, fs) \in [1 .. Len(fs) -> Invoked]
    BY <1>2 DEF Seen
  <1> QED
    BY <1>1, <1>3 DEF Seen

(* The invocations below the n-th. *)
LEMMA BelowKept ==
  ASSUME NEW fs, NEW end, Adjoins(fs, end), end <= ChunkSize, NEW n \in 1 .. Len(fs),
         NEW mem, NEW mem2,
         \A a \in Nat : a < fs[n].addr => mem2[a] = mem[a],
         NEW i \in 1 .. n - 1
  PROVE  FrameIn(mem2, fs[i]) = FrameIn(mem, fs[i])
  <1>1. Len(fs) \in Nat
    BY AdjoinsFacts
  <1>2. i \in 1 .. Len(fs) /\ i < n
    BY <1>1
  <1>3. End(fs[i]) <= fs[n].addr
    BY <1>2 DEF Adjoins
  <1>4. /\ fs[i] \in State /\ fs[i].stackOfs <= MaxStack[fs[i].method]
        /\ End(fs[i]) \in Nat /\ End(fs[i]) <= end /\ fs[i].addr \in Nat
    BY <1>2, AdjoinsInside
  <1>5. fs[n].addr \in Nat /\ end \in Nat /\ ChunkSize \in Nat
    BY AdjoinsInside, AdjoinsFacts, SizesAssumption
  <1>6. End(fs[i]) <= ChunkSize
    BY <1>4, <1>5
  <1>7. \A a \in fs[i].addr .. End(fs[i]) - 1 : mem2[a] = mem[a]
    <2> SUFFICES ASSUME NEW a \in fs[i].addr .. End(fs[i]) - 1
                 PROVE  mem2[a] = mem[a]
      OBVIOUS
    <2>1. a \in Nat /\ a < fs[n].addr
      BY <1>3, <1>4, <1>5
    <2> QED
      BY <2>1
  <1> QED
    BY <1>4, <1>6, <1>7, FrameKept

(* The method states above the n-th are left, and the n-th has k words on  *)
(* its evaluation stack; the n-th invocation has the words w there.        *)
Left(fs, n, k) == [SubSeq(fs, 1, n) EXCEPT ![n].stackOfs = k]
LeftWith(s, n, w) == [SubSeq(s, 1, n) EXCEPT ![n].eval = w]

LEMMA EvalReplaced ==
  ASSUME NEW fs, NEW end, Adjoins(fs, end), end <= ChunkSize,
         NEW mem, IsMemory(mem), NEW mem2, IsMemory(mem2),
         NEW n \in 1 .. Len(fs), NEW k \in Nat, k <= MaxStack[fs[n].method],
         \A a \in Nat : a < EvalStack(fs[n]) => mem2[a] = mem[a],
         \A a \in Nat : Parameters(fs[n]) <= a /\ a < End(fs[n]) => mem2[a] = mem[a]
  PROVE  Seen(mem2, Left(fs, n, k))
           = LeftWith(Seen(mem, fs), n, WordsIn(mem2, EvalStack(fs[n]), k))
  <1> DEFINE f == fs[n]
             g == [f EXCEPT !.stackOfs = k]
             below == SubSeq(fs, 1, n)
             gs == [below EXCEPT ![n] = g]
             s == Seen(mem, fs)
             sub == SubSeq(s, 1, n)
             w == WordsIn(mem2, EvalStack(f), k)
             h == [FrameIn(mem, f) EXCEPT !.eval = w]
             r == [sub EXCEPT ![n] = h]
             t == Seen(mem2, gs)
  <1>1. /\ f \in State /\ f.stackOfs <= MaxStack[f.method] /\ f.method \in Methods
        /\ End(f) \in Nat /\ End(f) <= end /\ f.addr \in Nat
        /\ end \in Nat /\ ChunkSize \in Nat /\ End(f) <= ChunkSize
        /\ Len(fs) \in Nat /\ n \in Nat /\ n \in 1 .. n
        /\ k <= MaxStack[f.method]
    <2>1. /\ f \in State /\ f.stackOfs <= MaxStack[f.method]
          /\ End(f) \in Nat /\ End(f) <= end /\ f.addr \in Nat
      BY AdjoinsInside
    <2>2. end \in Nat /\ ChunkSize \in Nat /\ Len(fs) \in Nat /\ f.method \in Methods
          /\ k <= MaxStack[f.method]
      BY <2>1, AdjoinsFacts, SizesAssumption DEF State
    <2> HIDE DEF f
    <2> QED
      BY <2>1, <2>2
  <1>2. /\ g \in State /\ g.addr = f.addr /\ g.method = f.method /\ g.stackOfs = k
        /\ EvalStack(g) = EvalStack(f) /\ Parameters(g) = Parameters(f) /\ End(g) = End(f)
    BY <1>1 DEF State, EvalStack, Parameters, End
  <1>3. /\ Adjoins(below, End(f)) /\ Len(below) = n /\ below[n] = f
        /\ below \in Seq(State)
    <2> DEFINE rest == IF n = Len(fs) THEN end ELSE fs[n + 1].addr
    <2>1. Adjoins(below, rest) /\ Len(below) = n /\ below[n] = f /\ rest = End(f)
      BY AdjoinsPrefix
    <2> HIDE DEF rest, below, f
    <2>2. Adjoins(below, End(f))
      BY <2>1
    <2> QED
      BY <2>1, <2>2 DEF Adjoins
  <1>4. \A j \in 1 .. n : below[j] = fs[j]
    <2>1. \A j \in 1 .. n : fs[j] \in State
      <3>1. \A j \in 1 .. n : j \in 1 .. Len(fs)
        BY <1>1
      <3> QED
        BY <3>1, AdjoinsInside
    <2>2. \A j \in 1 .. n - 1 + 1 : below[j] = fs[1 + j - 1]
      BY <1>1, <2>1, SubSeqProperties
    <2> HIDE DEF below
    <2> QED
      BY <1>1, <2>2
  <1>5. Adjoins([below EXCEPT ![Len(below)].stackOfs = k], End(f))
    BY <1>3, AdjoinsStackOfs
  <1>6. [below EXCEPT ![n].stackOfs = k] = gs
    BY <1>3
  <1>7. Adjoins(gs, End(f))
    BY <1>3, <1>5, <1>6
  <1> HIDE DEF below, g, f
  <1>8. Len(gs) = n /\ \A j \in 1 .. n : gs[j] = IF j = n THEN g ELSE below[j]
    BY <1>1, <1>2, <1>3, ExceptSeq
  <1>9. /\ s \in Seq(Invoked) /\ Len(s) = Len(fs)
        /\ \A i \in 1 .. Len(fs) : s[i] = FrameIn(mem, fs[i])
    BY SeenType
  <1> HIDE DEF gs
  <1>10. /\ t \in Seq(Invoked) /\ Len(t) = n
         /\ \A i \in 1 .. n : t[i] = FrameIn(mem2, gs[i])
    BY <1>1, <1>7, <1>8, SeenType
  <1> HIDE DEF s, t
  <1>11. \A j \in 1 .. n : s[j] \in Invoked /\ s[j] = FrameIn(mem, fs[j])
    <2>1. \A j \in 1 .. n : j \in 1 .. Len(s)
      BY <1>1, <1>9
    <2> QED
      BY <1>9, <2>1, ElementOfSeq
  <1>12. /\ sub \in Seq(Invoked) /\ Len(sub) = n
         /\ \A j \in 1 .. n : sub[j] = FrameIn(mem, fs[j])
    <2>1. /\ sub \in Seq(Invoked) /\ Len(sub) = IF 1 <= n THEN n - 1 + 1 ELSE 0
          /\ \A j \in 1 .. n - 1 + 1 : sub[j] = s[1 + j - 1]
      BY <1>1, <1>11, SubSeqProperties
    <2> HIDE DEF sub
    <2> QED
      BY <1>1, <1>11, <2>1
  <1>13. /\ FrameIn(mem, f) \in Invoked
         /\ FrameIn(mem2, g) \in Invoked
    <2>1. FrameIn(mem, f) \in Invoked
      BY <1>1, FrameType
    <2>2. End(g) <= ChunkSize /\ g.stackOfs <= MaxStack[g.method] /\ g \in State
      BY <1>1, <1>2
    <2>3. FrameIn(mem2, g) \in Invoked
      BY <2>2, FrameType
    <2> QED
      BY <2>1, <2>3
  <1>14. FrameIn(mem2, g) = h
    <2> DEFINE p == Parameters(f)
               m == Params[f.method] + Locals[f.method]
    <2>1. p \in Nat /\ m \in Nat /\ p + m = End(f)
      BY <1>1, StateInChunk DEF InChunk
    <2>2. \A j \in 0 .. m - 1 : mem2[p + j] = mem[p + j]
      <3> HIDE DEF p, m
      <3> SUFFICES ASSUME NEW j \in 0 .. m - 1
                   PROVE  mem2[p + j] = mem[p + j]
        OBVIOUS
      <3>1. p + j \in Nat /\ p <= p + j /\ p + j < End(f)
        BY <2>1
      <3> QED
        BY <3>1 DEF p, f
    <2> HIDE DEF p, m
    <2>3. WordsIn(mem2, p, m) = WordsIn(mem, p, m)
      <3>1. p \in Int /\ m \in Nat
        BY <2>1
      <3> QED
        BY <2>2, <3>1, WordsCopied
    <2>4. FrameIn(mem, f) = [method |-> f.method, vars |-> WordsIn(mem, p, m),
                             eval |-> WordsIn(mem, EvalStack(f), f.stackOfs)]
      BY DEF FrameIn, p, m
    <2>5. FrameIn(mem2, g) = [method |-> f.method, vars |-> WordsIn(mem2, p, m), eval |-> w]
      BY <1>2 DEF FrameIn, p, m
    <2> QED
      BY <2>3, <2>4, <2>5
  <1>15. h \in Invoked
    BY <1>13, <1>14
  <1> HIDE DEF sub, h
  <1>16. /\ r \in Seq(Invoked) /\ Len(r) = n
         /\ \A j \in 1 .. n : r[j] = IF j = n THEN h ELSE sub[j]
    BY <1>1, <1>12, <1>15, ExceptSeq
  <1>17. ASSUME NEW j \in 1 .. n
         PROVE  t[j] = r[j]
    <2>1. CASE j = n
      BY <1>8, <1>10, <1>14, <1>16, <2>1
    <2>2. CASE j # n
      <3>1. j \in 1 .. n - 1
        BY <1>1, <2>2
      <3>2. \A a \in Nat : a < fs[n].addr => mem2[a] = mem[a]
        <4>1. f.addr \in Nat /\ EvalStack(f) \in Nat /\ f.addr < EvalStack(f)
          BY <1>1, EndType
        <4>2. \A a \in Nat : a < EvalStack(f) => mem2[a] = mem[a]
          BY DEF f
        <4>3. \A a \in Nat : a < f.addr => mem2[a] = mem[a]
          BY <4>1, <4>2
        <4> QED
          BY <4>3 DEF f
      <3>3. FrameIn(mem2, fs[j]) = FrameIn(mem, fs[j])
        BY <3>1, <3>2, BelowKept
      <3> QED
        BY <1>4, <1>8, <1>10, <1>12, <1>16, <2>2, <3>3
    <2> QED
      BY <2>1, <2>2
  <1> HIDE DEF r
  <1>18. t = r
    BY <1>10, <1>16, <1>17, SeqEqual
  <1>19. r = [sub EXCEPT ![n].eval = w]
    BY <1>12, <1>1 DEF r, h, f
  <1> QED
    BY <1>6, <1>18, <1>19 DEF t, gs, sub, s, w, f, below, Left, LeftWith

-----------------------------------------------------------------------------
(* The operators of CallFrames, in terms of Invocations *)

Current == Invocations[Len(Invocations)]

LEMMA UnfoldedPush ==
  ASSUME NEW v
  PROVE  Abstract!Push(v) <=>
           /\ Running /\ v \in Literals[Current.method]
           /\ Invocations' = [Invocations EXCEPT ![Len(Invocations)].eval = Append(Current.eval, v)]
           /\ status' = status
  BY DEF Abstract!Push, Abstract!Depth, Abstract!Top, Abstract!Running, Running, Abstract!Eval,
         Current, Invocations, Seen, FrameIn, WordsIn, Frame, Words

LEMMA UnfoldedLoad ==
  ASSUME NEW i
  PROVE  Abstract!Load(i) <=>
           /\ Running /\ i \in DOMAIN Current.vars
           /\ Invocations' = [Invocations EXCEPT ![Len(Invocations)].eval
                                = Append(Current.eval, Current.vars[i])]
           /\ status' = status
  BY DEF Abstract!Load, Abstract!Depth, Abstract!Top, Abstract!Running, Running, Abstract!Eval,
         Current, Invocations, Seen, FrameIn, WordsIn, Frame, Words

LEMMA UnfoldedStore ==
  ASSUME NEW i
  PROVE  Abstract!Store(i) <=>
           /\ Running /\ i \in DOMAIN Current.vars /\ Current.eval # <<>>
           /\ Invocations' =
                [Invocations EXCEPT
                   ![Len(Invocations)].vars[i]
                     = SubSeq(Current.eval, Len(Current.eval) - 1 + 1, Len(Current.eval))[1],
                   ![Len(Invocations)].eval
                     = SubSeq(Current.eval, 1, Len(Current.eval) - 1)]
           /\ status' = status
  BY DEF Abstract!Store, Abstract!Depth, Abstract!Top, Abstract!Running, Running,
         Abstract!Args, Abstract!Rest,
         Current, Invocations, Seen, FrameIn, WordsIn, Frame, Words

(* "after" has invocations of the methods called on top of "below". *)
Entered(after, below, called) ==
  /\ Len(after) = Len(below) + Len(called)
  /\ SubSeq(after, 1, Len(below)) = below
  /\ \A i \in DOMAIN called :
       Abstract!IsFrame(after[Len(below) + i], called[i].method, called[i].args)

(* The current invocation with another evaluation stack. *)
WithEval(e) == [Invocations EXCEPT ![Len(Invocations)].eval = e]
LastWords(n) == SubSeq(Current.eval, Len(Current.eval) - n + 1, Len(Current.eval))
FirstWords(n) == SubSeq(Current.eval, 1, Len(Current.eval) - n)

LEMMA UnfoldedCall ==
  ASSUME NEW m
  PROVE  Abstract!Call(m) <=>
           /\ Running /\ m \in Calls[Current.method] /\ Len(Current.eval) >= Params[m]
           /\ Entered(Invocations', WithEval(FirstWords(Params[m])),
                      <<[method |-> m, args |-> LastWords(Params[m])]>>)
           /\ status' = status
  BY DEF Abstract!Call, Abstract!Depth, Abstract!Top, Abstract!Running, Running, Abstract!Eval,
         Abstract!Args, Abstract!Rest, Abstract!Enters, Abstract!Invocation, Entered,
         WithEval, LastWords, FirstWords,
         Current, Invocations, Seen, FrameIn, WordsIn, Frame, Words

LEMMA UnfoldedTailCall ==
  ASSUME NEW m
  PROVE  Abstract!TailCall(m) <=>
           /\ Running /\ m \in TailCalls[Current.method] /\ Len(Current.eval) = Params[m]
           /\ \/ Entered(Invocations', SubSeq(Invocations, 1, Len(Invocations) - 1),
                         <<[method |-> m, args |-> Current.eval]>>)
              \/ Entered(Invocations', WithEval(<<>>),
                         <<[method |-> m, args |-> Current.eval]>>)
           /\ status' = status
  BY DEF Abstract!TailCall, Abstract!Depth, Abstract!Top, Abstract!Running, Running,
         Abstract!Eval, Abstract!Enters, Abstract!Invocation, Entered, WithEval,
         Current, Invocations, Seen, FrameIn, WordsIn, Frame, Words

LEMMA UnfoldedReturn ==
  Abstract!Return <=>
    /\ Running /\ Len(Invocations) > 1 /\ Len(Current.eval) >= Returns[Current.method]
    /\ Invocations' = [SubSeq(Invocations, 1, Len(Invocations) - 1) EXCEPT
                         ![Len(Invocations) - 1].eval = @ \o LastWords(Returns[Current.method])]
    /\ status' = status
  BY DEF Abstract!Return, Abstract!Depth, Abstract!Top, Abstract!Running, Running,
         Abstract!Args, LastWords,
         Current, Invocations, Seen, FrameIn, WordsIn, Frame, Words

LEMMA UnfoldedThrow ==
  ASSUME NEW n
  PROVE  Abstract!Throw(n) <=>
           /\ Running /\ Current.eval # <<>> /\ n \in 1 .. Len(Invocations)
           /\ Invocations[n].method \in Catching
           /\ Invocations' = [SubSeq(Invocations, 1, n) EXCEPT ![n].eval = LastWords(1)]
           /\ status' = status
  BY DEF Abstract!Throw, Abstract!Depth, Abstract!Top, Abstract!Running, Running,
         Abstract!Args, LastWords,
         Current, Invocations, Seen, FrameIn, WordsIn, Frame, Words

LEMMA UnfoldedStop ==
  Abstract!Stop <=>
    /\ Running /\ status' \in {"exit", "crash"}
    /\ Invocations' = Invocations
  BY DEF Abstract!Stop, Abstract!Running, Running,
         Invocations, Seen, FrameIn, WordsIn, Frame, Words

EntersWithFinalizer(below, called, pending, after) ==
  \/ Entered(after, below, called)
  \/ \E f \in Finalizers :
       Entered(after, below, Append(called, [method |-> f, args |-> <<pending>>]))

LEMMA UnfoldedNewObject ==
  ASSUME NEW m, NEW obj, NEW pending
  PROVE  Abstract!NewObject(m, obj, pending) <=>
           /\ Running /\ m \in Calls[Current.method] \cap Constructors
           /\ Len(Current.eval) >= Params[m] - 1
           /\ EntersWithFinalizer(
                WithEval(Append(FirstWords(Params[m] - 1), obj)),
                <<[method |-> m, args |-> <<obj>> \o LastWords(Params[m] - 1)]>>,
                pending, Invocations')
           /\ status' = status
  BY DEF Abstract!NewObject, Abstract!AndFinalizer, Abstract!Depth, Abstract!Top,
         Abstract!Running, Running, Abstract!Eval,
         Abstract!Args, Abstract!Rest, Abstract!Enters, Abstract!Invocation,
         Entered, EntersWithFinalizer, WithEval, LastWords, FirstWords,
         Current, Invocations, Seen, FrameIn, WordsIn, Frame, Words

LEMMA UnfoldedNewVector ==
  ASSUME NEW obj, NEW pending
  PROVE  Abstract!NewVector(obj, pending) <=>
           /\ Running /\ Current.method \in Allocating /\ Current.eval # <<>>
           /\ EntersWithFinalizer(WithEval(Append(FirstWords(1), obj)), <<>>,
                                  pending, Invocations')
           /\ status' = status
  BY DEF Abstract!NewVector, Abstract!AndFinalizer, Abstract!Depth, Abstract!Top,
         Abstract!Running, Running, Abstract!Eval,
         Abstract!Rest, Abstract!Enters, Abstract!Invocation,
         Entered, EntersWithFinalizer, WithEval, FirstWords,
         Current, Invocations, Seen, FrameIn, WordsIn, Frame, Words

-----------------------------------------------------------------------------
(* New invocations *)

LEMMA EnteredNone ==
  ASSUME NEW below \in Seq(Invoked)
  PROVE  Entered(below, below, <<>>)
  <1>1. Len(below) \in Nat /\ SubSeq(below, 1, Len(below)) = below
    BY SubSeqFull, LenProperties
  <1> QED
    BY <1>1 DEF Entered

LEMMA EnteredOne ==
  ASSUME NEW below \in Seq(Invoked), NEW x \in Invoked, NEW c,
         Abstract!IsFrame(x, c.method, c.args)
  PROVE  Entered(Append(below, x), below, <<c>>)
  <1> DEFINE n == Len(below)
             s == Append(below, x)
             called == <<c>>
  <1>1. /\ s \in Seq(Invoked) /\ Len(s) = n + 1 /\ n \in Nat
        /\ \A i \in 1 .. n : s[i] = below[i]
        /\ s[n + 1] = x
    BY AppendProperties, LenProperties
  <1>2. SubSeq(s, 1, n) = below
    <2> DEFINE t == SubSeq(s, 1, n)
    <2> HIDE DEF s
    <2>1. \A i \in 1 .. n : s[i] \in Invoked
      BY <1>1, ElementOfSeq
    <2>2. /\ t \in Seq(Invoked) /\ Len(t) = IF 1 <= n THEN n - 1 + 1 ELSE 0
          /\ \A i \in 1 .. n - 1 + 1 : t[i] = s[1 + i - 1]
      BY <1>1, <2>1, SubSeqProperties
    <2> HIDE DEF t
    <2>3. Len(t) = Len(below) /\ \A i \in 1 .. Len(t) : t[i] = below[i]
      BY <1>1, <2>2
    <2>4. t = below
      BY <2>2, <2>3, SeqEqual
    <2> QED
      BY <2>4 DEF t
  <1>3. Len(called) = 1 /\ DOMAIN called = {1} /\ called[1] = c
    OBVIOUS
  <1> HIDE DEF s, called
  <1>4. \A i \in DOMAIN called : Abstract!IsFrame(s[n + i], called[i].method, called[i].args)
    <2> SUFFICES ASSUME NEW i \in DOMAIN called
                 PROVE  Abstract!IsFrame(s[n + i], called[i].method, called[i].args)
      OBVIOUS
    <2>1. i = 1 /\ s[n + i] = x /\ called[i] = c
      BY <1>1, <1>3
    <2> QED
      BY <2>1
  <1> QED
    BY <1>1, <1>2, <1>3, <1>4 DEF Entered, s, called

LEMMA EnteredTwo ==
  ASSUME NEW below \in Seq(Invoked), NEW x \in Invoked, NEW y \in Invoked, NEW c, NEW e,
         Abstract!IsFrame(x, c.method, c.args), Abstract!IsFrame(y, e.method, e.args)
  PROVE  Entered(Append(Append(below, x), y), below, Append(<<c>>, e))
  <1> DEFINE n == Len(below)
             r == Append(below, x)
             s == Append(r, y)
             called == Append(<<c>>, e)
  <1>1. /\ r \in Seq(Invoked) /\ Len(r) = n + 1 /\ n \in Nat
        /\ \A i \in 1 .. n : r[i] = below[i]
        /\ r[n + 1] = x
    BY AppendProperties, LenProperties
  <1> HIDE DEF r
  <1>2. /\ s \in Seq(Invoked) /\ Len(s) = n + 1 + 1
        /\ \A i \in 1 .. n + 1 : s[i] = r[i]
        /\ s[n + 1 + 1] = y
    BY <1>1, AppendProperties
  <1> HIDE DEF s
  <1>3. SubSeq(s, 1, n) = below
    <2> DEFINE t == SubSeq(s, 1, n)
    <2>1. \A i \in 1 .. n : s[i] \in Invoked
      <3>1. \A i \in 1 .. n : i \in 1 .. Len(s)
        BY <1>1, <1>2
      <3> QED
        BY <1>2, <3>1, ElementOfSeq
    <2>2. /\ t \in Seq(Invoked) /\ Len(t) = IF 1 <= n THEN n - 1 + 1 ELSE 0
          /\ \A i \in 1 .. n - 1 + 1 : t[i] = s[1 + i - 1]
      BY <1>1, <2>1, SubSeqProperties
    <2> HIDE DEF t
    <2>3. Len(t) = Len(below) /\ \A i \in 1 .. Len(t) : t[i] = below[i]
      BY <1>1, <1>2, <2>2
    <2>4. t = below
      BY <2>2, <2>3, SeqEqual
    <2> QED
      BY <2>4 DEF t
  <1>4. Len(called) = 2 /\ DOMAIN called = {1, 2} /\ called[1] = c /\ called[2] = e
    OBVIOUS
  <1> HIDE DEF called
  <1>5. \A i \in DOMAIN called : Abstract!IsFrame(s[n + i], called[i].method, called[i].args)
    <2> SUFFICES ASSUME NEW i \in DOMAIN called
                 PROVE  Abstract!IsFrame(s[n + i], called[i].method, called[i].args)
      OBVIOUS
    <2>1. (i = 1 /\ s[n + i] = x /\ called[i] = c) \/ (i = 2 /\ s[n + i] = y /\ called[i] = e)
      <3>1. n + 1 \in 1 .. n + 1 /\ n + 1 + 1 = n + 2
        BY <1>1
      <3> QED
        BY <1>1, <1>2, <1>4, <3>1
    <2> QED
      BY <2>1
  <1>6. Len(s) = n + Len(called)
    BY <1>1, <1>2, <1>4
  <1> QED
    BY <1>3, <1>5, <1>6 DEF Entered, r, s, called

(* A new method state holds its arguments, and nothing on its stack. *)
LEMMA NewFrame ==
  ASSUME NEW addr \in Nat, NEW m \in Methods, End(MethodState(addr, m)) <= ChunkSize,
         NEW mem, IsMemory(mem)
  PROVE  /\ FrameIn(mem, MethodState(addr, m)) \in Invoked
         /\ Abstract!IsFrame(FrameIn(mem, MethodState(addr, m)), m,
                             WordsIn(mem, Parameters(MethodState(addr, m)), Params[m]))
  <1> DEFINE f == MethodState(addr, m)
             n == Params[m] + Locals[m]
             w == WordsIn(mem, Parameters(f), n)
  <1>1. f \in State /\ f.method = m /\ f.stackOfs = 0
    BY MethodStateType
  <1>2. Params[m] \in Nat /\ Locals[m] \in Nat /\ MaxStack[m] \in Nat
    BY SizesAssumption
  <1>3. f.stackOfs <= MaxStack[f.method]
    BY <1>1, <1>2
  <1>4. InChunk(Parameters(f), n) /\ InChunk(EvalStack(f), 0)
    BY <1>1, <1>3, StateInChunk
  <1>5. /\ FrameIn(mem, f) \in Invoked /\ FrameIn(mem, f).method = m
        /\ FrameIn(mem, f).vars = w /\ FrameIn(mem, f).eval = WordsIn(mem, EvalStack(f), 0)
    BY <1>1, <1>3, FrameType
  <1>6. WordsIn(mem, EvalStack(f), 0) = <<>>
    BY DEF WordsIn
  <1>7. Len(w) = n
    BY <1>4, WordsType
  <1>8. SubSeq(w, 1, Params[m]) = WordsIn(mem, Parameters(f), Params[m])
    <2>1. Params[m] \in 0 .. n
      BY <1>2
    <2> QED
      BY <1>4, <2>1, WordsFirst
  <1> HIDE DEF w, n, f
  <1>9. Abstract!IsFrame(FrameIn(mem, f), m, WordsIn(mem, Parameters(f), Params[m]))
    BY <1>5, <1>6, <1>7, <1>8 DEF Abstract!IsFrame, n
  <1> QED
    BY <1>5, <1>9 DEF f

(* A method state on top of the others, with what they hold left alone. *)
LEMMA SeenAppend ==
  ASSUME NEW fs, NEW end, Adjoins(fs, end), NEW m \in Methods,
         End(MethodState(end, m)) <= ChunkSize,
         NEW mem, IsMemory(mem), NEW mem2, IsMemory(mem2),
         \A a \in Nat : a < end => mem2[a] = mem[a]
  PROVE  Seen(mem2, Append(fs, MethodState(end, m)))
           = Append(Seen(mem, fs), FrameIn(mem2, MethodState(end, m)))
  <1> DEFINE f == MethodState(end, m)
             n == Len(fs)
             gs == Append(fs, f)
             s == Seen(mem, fs)
             x == FrameIn(mem2, f)
             r == Append(s, x)
             t == Seen(mem2, gs)
  <1>1. end \in Nat /\ ChunkSize \in Nat /\ n \in Nat /\ end <= ChunkSize
    <2>1. end \in Nat /\ ChunkSize \in Nat /\ n \in Nat
      BY AdjoinsFacts, SizesAssumption
    <2>2. f \in State /\ f.addr = end
      BY <2>1, MethodStateType
    <2>3. f.addr < End(f) /\ End(f) \in Nat
      BY <2>2, EndType
    <2> QED
      BY <2>1, <2>2, <2>3
  <1>2. Adjoins(gs, End(f)) /\ f \in State
    BY <1>1, AdjoinsAppend, MethodStateType
  <1>3. Len(gs) = n + 1 /\ gs[n + 1] = f /\ \A i \in 1 .. n : gs[i] = fs[i]
    <2>1. fs \in Seq(State)
      BY DEF Adjoins
    <2> QED
      BY <1>2, <2>1, AppendProperties
  <1>4. x \in Invoked
    BY <1>1, NewFrame
  <1> HIDE DEF gs, x
  <1>5. /\ s \in Seq(Invoked) /\ Len(s) = n
        /\ \A i \in 1 .. n : s[i] = FrameIn(mem, fs[i])
    BY <1>1, SeenType
  <1>6. /\ t \in Seq(Invoked) /\ Len(t) = n + 1
        /\ \A i \in 1 .. n + 1 : t[i] = FrameIn(mem2, gs[i])
    BY <1>2, <1>3, SeenType
  <1> HIDE DEF s, t
  <1>7. /\ r \in Seq(Invoked) /\ Len(r) = n + 1
        /\ \A i \in 1 .. n : r[i] = s[i]
        /\ r[n + 1] = x
    BY <1>4, <1>5, AppendProperties
  <1> HIDE DEF r
  <1>8. ASSUME NEW i \in 1 .. n + 1
        PROVE  t[i] = r[i]
    <2>1. CASE i = n + 1
      BY <1>3, <1>6, <1>7, <2>1 DEF x
    <2>2. CASE i # n + 1
      <3>1. i \in 1 .. n
        BY <1>1, <2>2
      <3>2. /\ fs[i] \in State /\ fs[i].stackOfs <= MaxStack[fs[i].method]
            /\ End(fs[i]) \in Nat /\ End(fs[i]) <= end /\ fs[i].addr \in Nat
        BY <3>1, AdjoinsInside
      <3>3. \A a \in fs[i].addr .. End(fs[i]) - 1 : mem2[a] = mem[a]
        <4> SUFFICES ASSUME NEW a \in fs[i].addr .. End(fs[i]) - 1
                     PROVE  mem2[a] = mem[a]
          OBVIOUS
        <4>1. a \in Nat /\ a < end
          BY <1>1, <3>2
        <4> QED
          BY <4>1
      <3>4. End(fs[i]) <= ChunkSize
        BY <1>1, <3>2
      <3>5. FrameIn(mem2, fs[i]) = FrameIn(mem, fs[i])
        BY <3>2, <3>3, <3>4, FrameKept
      <3> QED
        BY <1>3, <1>5, <1>6, <1>7, <3>1, <3>5
    <2> QED
      BY <2>1, <2>2
  <1>9. t = r
    BY <1>6, <1>7, <1>8, SeqEqual
  <1> QED
    BY <1>9 DEF t, gs, r, s, x

-----------------------------------------------------------------------------
(* The current invocation *)

LEMMA CurrentFacts ==
  ASSUME IInv, Running
  PROVE  /\ Invocations \in Seq(Invoked) /\ Len(Invocations) = Depth
         /\ Depth = Len(frames) /\ Depth \in 1 .. Len(frames)
         /\ \A i \in 1 .. Depth : Invocations[i] = FrameIn(memory, frames[i])
         /\ Current.method = Top.method
         /\ Current.vars
              = WordsIn(memory, Parameters(Top), Params[Top.method] + Locals[Top.method])
         /\ Current.eval = WordsIn(memory, EvalStack(Top), Top.stackOfs)
         /\ Len(Current.eval) = Top.stackOfs
         /\ DOMAIN Current.vars = 1 .. Params[Top.method] + Locals[Top.method]
  <1>1. /\ Adjoins(frames, ofs) /\ ofs <= ChunkSize /\ IsMemory(memory)
        /\ Depth \in Nat \ {0} /\ Top \in State /\ ofs \in Nat
    BY TopFacts
  <1>2. Depth = Len(frames) /\ Depth \in 1 .. Len(frames)
    BY <1>1 DEF Depth
  <1>3. /\ Invocations \in Seq(Invoked) /\ Len(Invocations) = Depth
        /\ \A i \in 1 .. Depth : Invocations[i] = FrameIn(memory, frames[i])
    BY <1>1, <1>2, SeenType DEF Invocations
  <1>4. Top.stackOfs <= MaxStack[Top.method] /\ End(Top) <= ChunkSize
    BY <1>1, <1>2, AdjoinsFacts DEF Top
  <1>5. Current = FrameIn(memory, Top)
    BY <1>2, <1>3 DEF Current, Top
  <1>6. /\ Current.method = Top.method
        /\ Current.vars
             = WordsIn(memory, Parameters(Top), Params[Top.method] + Locals[Top.method])
        /\ Current.eval = WordsIn(memory, EvalStack(Top), Top.stackOfs)
    BY <1>1, <1>4, <1>5, FrameType
  <1>7. /\ InChunk(EvalStack(Top), Top.stackOfs)
        /\ InChunk(Parameters(Top), Params[Top.method] + Locals[Top.method])
    BY <1>1, <1>4, StateInChunk
  <1>8. /\ Len(Current.eval) = Top.stackOfs
        /\ DOMAIN Current.vars = 1 .. Params[Top.method] + Locals[Top.method]
    BY <1>1, <1>6, <1>7, WordsType
  <1> QED
    BY <1>2, <1>3, <1>6, <1>8

(* Its sizes. *)
LEMMA CurrentSizes ==
  ASSUME IInv, Running
  PROVE  /\ Top \in State /\ Top.method \in Methods
         /\ Top.addr \in Nat /\ Top.stackOfs \in Nat /\ EvalStack(Top) \in Nat
         /\ ofs \in Nat /\ ChunkSize \in Nat /\ ofs <= ChunkSize /\ End(Top) = ofs
         /\ MaxStack[Top.method] \in Nat /\ Params[Top.method] \in Nat
         /\ Locals[Top.method] \in Nat
         /\ Top.stackOfs <= MaxStack[Top.method]
         /\ Top.addr < EvalStack(Top)
         /\ CurEvalStack(Top) = EvalStack(Top) + Top.stackOfs
         /\ Parameters(Top) = EvalStack(Top) + MaxStack[Top.method]
         /\ ofs = Parameters(Top) + (Params[Top.method] + Locals[Top.method])
  <1>1. /\ Adjoins(frames, ofs) /\ ofs <= ChunkSize /\ Top \in State /\ ofs \in Nat
        /\ EvalStack(Top) \in Nat /\ CurEvalStack(Top) = EvalStack(Top) + Top.stackOfs
    BY TopFacts
  <1>2. End(Top) = ofs /\ Top.stackOfs <= MaxStack[Top.method]
    BY <1>1, AdjoinsFacts DEF Top, Depth
  <1> QED
    BY <1>1, <1>2, StateInChunk, SizesAssumption

LEMMA CurrentWords ==
  ASSUME IInv, Running, NEW n \in Nat, n <= Top.stackOfs
  PROVE  /\ FirstWords(n) = WordsIn(memory, EvalStack(Top), Top.stackOfs - n)
         /\ LastWords(n) = WordsIn(memory, CurEvalStack(Top) - n, n)
         /\ InChunk(CurEvalStack(Top) - n, n)
  <1> DEFINE e == EvalStack(Top)
             k == Top.stackOfs
             c == CurEvalStack(Top)
  <1>1. /\ e \in Nat /\ k \in Nat /\ c = e + k /\ n <= k
        /\ InChunk(e, k) /\ IsMemory(memory) /\ InChunk(c - n, n)
    <2>1. /\ Top \in State /\ End(Top) <= ChunkSize /\ Top.stackOfs <= MaxStack[Top.method]
          /\ c = e + k /\ k \in Nat /\ e \in Nat /\ ChunkSize \in Nat
      BY CurrentSizes
    <2>2. InChunk(e, k) /\ IsMemory(memory)
      BY <2>1, StateInChunk, TopFacts
    <2>3. InChunk(c - n, n)
      BY <2>1, <2>2 DEF InChunk
    <2> QED
      BY <2>1, <2>2, <2>3
  <1>2. Current.eval = WordsIn(memory, e, k) /\ Len(Current.eval) = k
    BY CurrentFacts
  <1> HIDE DEF e, k, c
  <1>3. FirstWords(n) = SubSeq(WordsIn(memory, e, k), 1, k - n)
    BY <1>2 DEF FirstWords
  <1>4. k - n \in 0 .. k
    BY <1>1
  <1>5. FirstWords(n) = WordsIn(memory, e, k - n)
    BY <1>1, <1>3, <1>4, WordsFirst
  <1>6. LastWords(n) = LastIn(memory, e, k, n)
    BY <1>2 DEF LastWords, LastIn
  <1>7. LastIn(memory, e, k, n) = WordsIn(memory, e + (k - n), n)
    <2>1. n \in 0 .. k
      BY <1>1
    <2> QED
      BY <1>1, <2>1, WordsLast
  <1>8. e + (k - n) = c - n
    BY <1>1
  <1>9. LastWords(n) = WordsIn(memory, c - n, n)
    BY <1>6, <1>7, <1>8
  <1> QED
    BY <1>1, <1>5, <1>9 DEF e, k, c

(* The evaluation stack of the current method is replaced. *)
LEMMA CurrentEval ==
  ASSUME IInv, Running, NEW mem, IsMemory(mem),
         NEW k \in Nat, k <= MaxStack[Top.method],
         \A a \in Nat : a < EvalStack(Top) => mem[a] = memory[a],
         \A a \in Nat : Parameters(Top) <= a /\ a < ofs => mem[a] = memory[a]
  PROVE  Seen(mem, StackOfs(k)) = WithEval(WordsIn(mem, EvalStack(Top), k))
  <1>1. /\ Adjoins(frames, ofs) /\ ofs <= ChunkSize /\ IsMemory(memory)
        /\ Depth \in 1 .. Len(frames) /\ Depth = Len(frames)
        /\ Invocations \in Seq(Invoked) /\ Len(Invocations) = Depth
        /\ End(Top) = ofs /\ frames \in Seq(State)
    BY TopFacts, CurrentFacts, CurrentSizes DEF Adjoins
  <1>2. Top = frames[Depth]
    BY DEF Top
  <1>3. Seen(mem, Left(frames, Depth, k))
          = LeftWith(Seen(memory, frames), Depth, WordsIn(mem, EvalStack(frames[Depth]), k))
    <2>1. k <= MaxStack[frames[Depth].method]
      BY <1>2
    <2>2. \A a \in Nat : a < EvalStack(frames[Depth]) => mem[a] = memory[a]
      BY <1>2
    <2>3. \A a \in Nat : Parameters(frames[Depth]) <= a /\ a < End(frames[Depth])
                           => mem[a] = memory[a]
      BY <1>1, <1>2
    <2>4. /\ Adjoins(frames, ofs) /\ ofs <= ChunkSize /\ IsMemory(memory)
          /\ Depth \in 1 .. Len(frames)
      BY <1>1
    <2> QED
      BY <2>1, <2>2, <2>3, <2>4, EvalReplaced
  <1>4. SubSeq(frames, 1, Depth) = frames /\ SubSeq(Invocations, 1, Depth) = Invocations
    BY <1>1, SubSeqFull
  <1> QED
    BY <1>1, <1>2, <1>3, <1>4 DEF StackOfs, WithEval, Invocations, Left, LeftWith

(* A word is put on the evaluation stack, above the first n. *)
LEMMA WordPushed ==
  ASSUME IInv, Running, NEW n \in Nat, n <= Top.stackOfs, n < MaxStack[Top.method],
         NEW v \in Values
  PROVE  /\ IsMemory(Write(memory, EvalStack(Top) + n, v))
         /\ Seen(Write(memory, EvalStack(Top) + n, v), StackOfs(n + 1))
              = WithEval(Append(FirstWords(Top.stackOfs - n), v))
  <1> DEFINE e == EvalStack(Top)
             mem == Write(memory, e + n, v)
  <1>1. /\ IsMemory(memory) /\ e \in Nat /\ ChunkSize \in Nat /\ Top.stackOfs \in Nat
        /\ Parameters(Top) = e + MaxStack[Top.method] /\ MaxStack[Top.method] \in Nat
        /\ ofs \in Nat /\ ofs <= ChunkSize /\ Parameters(Top) <= ofs
    <2>1. /\ Params[Top.method] \in Nat /\ Locals[Top.method] \in Nat
          /\ ofs = Parameters(Top) + (Params[Top.method] + Locals[Top.method])
          /\ Parameters(Top) = e + MaxStack[Top.method] /\ MaxStack[Top.method] \in Nat
          /\ e \in Nat
      BY CurrentSizes
    <2> QED
      BY <2>1, CurrentSizes, TopFacts
  <1>2. IsMemory(mem)
    BY <1>1, WriteType
  <1>3. /\ \A a : a # e + n => mem[a] = memory[a]
        /\ mem[e + n] = v
    <2>1. e + n \in 0 .. ChunkSize - 1
      BY <1>1
    <2> QED
      BY <1>1, <2>1 DEF Write, IsMemory
  <1> HIDE DEF mem, e
  <1>4. Seen(mem, StackOfs(n + 1)) = WithEval(WordsIn(mem, e, n + 1))
    <2>1. n + 1 \in Nat /\ n + 1 <= MaxStack[Top.method]
      BY <1>1
    <2>2. \A a \in Nat : a < e => mem[a] = memory[a]
      BY <1>1, <1>3
    <2>3. \A a \in Nat : Parameters(Top) <= a /\ a < ofs => mem[a] = memory[a]
      BY <1>1, <1>3
    <2> QED
      BY <1>2, <2>1, <2>2, <2>3, CurrentEval DEF e
  <1>5. WordsIn(mem, e, n + 1) = Append(WordsIn(mem, e, n), mem[e + n])
    <2>1. InChunk(e, n + 1)
      BY <1>1 DEF InChunk
    <2> QED
      BY <1>2, <2>1, WordsAppend
  <1>6. WordsIn(mem, e, n) = WordsIn(memory, e, n)
    <2>1. \A k \in 0 .. n - 1 : mem[e + k] = memory[e + k]
      BY <1>1, <1>3
    <2>2. e \in Int
      BY <1>1
    <2> QED
      BY <2>1, <2>2, WordsCopied
  <1>7. FirstWords(Top.stackOfs - n) = WordsIn(memory, e, n)
    <2>1. Top.stackOfs - n \in Nat /\ Top.stackOfs - n <= Top.stackOfs
          /\ Top.stackOfs - (Top.stackOfs - n) = n
      BY <1>1
    <2>2. FirstWords(Top.stackOfs - n)
            = WordsIn(memory, e, Top.stackOfs - (Top.stackOfs - n))
      BY <2>1, CurrentWords DEF e
    <2> QED
      BY <2>1, <2>2
  <1>8. Seen(mem, StackOfs(n + 1)) = WithEval(Append(FirstWords(Top.stackOfs - n), v))
    BY <1>3, <1>4, <1>5, <1>6, <1>7
  <1> QED
    BY <1>2, <1>8 DEF mem, e

-----------------------------------------------------------------------------
(* Within a method *)

LEMMA AfterStep ==
  Invocations' = Seen(memory', frames')
  BY DEF Invocations, Seen, FrameIn, WordsIn

LEMMA PushStep ==
  ASSUME IInv, NEW v \in Values, Push(v)
  PROVE  Abstract!Push(v)
  <1>1. /\ Running /\ v \in Literals[Top.method] /\ Top.stackOfs < MaxStack[Top.method]
        /\ memory' = Write(memory, EvalStack(Top) + Top.stackOfs, v)
        /\ frames' = StackOfs(Top.stackOfs + 1)
        /\ status' = status
    BY DEF Push, CurEvalStack
  <1>2. Top.stackOfs \in Nat /\ Top.stackOfs <= Top.stackOfs
    BY <1>1, CurrentSizes
  <1>3. Invocations' = WithEval(Append(FirstWords(Top.stackOfs - Top.stackOfs), v))
    BY <1>1, <1>2, WordPushed, AfterStep
  <1>4. FirstWords(Top.stackOfs - Top.stackOfs) = Current.eval
    <2>1. Top.stackOfs - Top.stackOfs = 0 /\ Top.stackOfs - 0 = Top.stackOfs
      BY <1>2
    <2>2. FirstWords(0) = WordsIn(memory, EvalStack(Top), Top.stackOfs - 0)
      BY <1>1, <1>2, CurrentWords
    <2> QED
      BY <1>1, <2>1, <2>2, CurrentFacts
  <1>5. Current.method = Top.method
    BY <1>1, CurrentFacts
  <1> QED
    BY <1>1, <1>3, <1>4, <1>5, UnfoldedPush DEF WithEval

(* The current method state is replaced, by one at the same address. *)
LEMMA CurrentReplaced ==
  ASSUME IInv, Running, NEW mem, IsMemory(mem),
         NEW g \in State, g.stackOfs <= MaxStack[g.method], End(g) <= ChunkSize,
         \A a \in Nat : a < Top.addr => mem[a] = memory[a]
  PROVE  Seen(mem, [frames EXCEPT ![Depth] = g])
           = [Invocations EXCEPT ![Len(Invocations)] = FrameIn(mem, g)]
  <1> DEFINE d == Depth
             gs == [frames EXCEPT ![d] = g]
             x == FrameIn(mem, g)
             r == [Invocations EXCEPT ![d] = x]
  <1>1. /\ Adjoins(frames, ofs) /\ ofs <= ChunkSize /\ IsMemory(memory)
        /\ d \in 1 .. Len(frames) /\ d = Len(frames) /\ d \in Nat
        /\ Invocations \in Seq(Invoked) /\ Len(Invocations) = d
        /\ \A i \in 1 .. d : Invocations[i] = FrameIn(memory, frames[i])
        /\ frames \in Seq(State)
    BY TopFacts, CurrentFacts DEF Adjoins
  <1>2. \A a \in Nat : a < frames[d].addr => mem[a] = memory[a]
    BY DEF Top
  <1> HIDE DEF d
  <1>3. x \in Invoked
    BY FrameType
  <1>4. Len(gs) = d /\ \A i \in 1 .. d : gs[i] = IF i = d THEN g ELSE frames[i]
    BY <1>1, ExceptSeq
  <1> HIDE DEF gs, x
  <1>5. /\ r \in Seq(Invoked) /\ Len(r) = d
        /\ \A i \in 1 .. d : r[i] = IF i = d THEN x ELSE Invocations[i]
    BY <1>1, <1>3, ExceptSeq
  <1> HIDE DEF r
  <1>6. ASSUME NEW i \in 1 .. d
        PROVE  FrameIn(mem, gs[i]) = r[i]
    <2>1. CASE i = d
      BY <1>4, <1>5, <2>1 DEF x
    <2>2. CASE i # d
      <3>1. i \in 1 .. d - 1
        BY <1>1, <2>2
      <3>2. FrameIn(mem, frames[i]) = FrameIn(memory, frames[i])
        BY <1>1, <1>2, <3>1, BelowKept
      <3> QED
        BY <1>1, <1>4, <1>5, <2>2, <3>2
    <2> QED
      BY <2>1, <2>2
  <1>7. r = [i \in 1 .. d |-> r[i]]
    BY <1>5, LenProperties
  <1>8. Seen(mem, gs) = r
    BY <1>4, <1>6, <1>7 DEF Seen
  <1> QED
    BY <1>1, <1>8 DEF gs, r, x, d

LEMMA LoadStep ==
  ASSUME IInv, NEW i, LoadParamLocal(i)
  PROVE  Abstract!Load(i + 1) /\ i + 1 \in DOMAIN Current.vars
  <1> DEFINE n == Params[Top.method] + Locals[Top.method]
             v == memory[Parameters(Top) + i]
  <1>1. /\ Running /\ i \in 0 .. n - 1
        /\ Top.stackOfs < MaxStack[Top.method]
        /\ memory' = Write(memory, EvalStack(Top) + Top.stackOfs, v)
        /\ frames' = StackOfs(Top.stackOfs + 1)
        /\ status' = status
    <2>1. /\ Running /\ i \in 0 .. Params[Top.method] + Locals[Top.method] - 1
          /\ Top.stackOfs < MaxStack[Top.method]
          /\ memory' = Write(memory, EvalStack(Top) + Top.stackOfs, v)
          /\ frames' = StackOfs(Top.stackOfs + 1)
          /\ status' = status
      BY DEF LoadParamLocal, CurEvalStack
    <2>2. Params[Top.method] \in Nat /\ Locals[Top.method] \in Nat
      BY <2>1, CurrentSizes
    <2>3. i \in 0 .. n - 1
      BY <2>1, <2>2
    <2> QED
      BY <2>1, <2>3
  <1>2. /\ Top.stackOfs \in Nat /\ Top.stackOfs <= Top.stackOfs /\ n \in Nat
        /\ InChunk(Parameters(Top), n) /\ IsMemory(memory)
    BY <1>1, CurrentSizes, StateInChunk, TopFacts
  <1>3. /\ i + 1 \in 1 .. n /\ Parameters(Top) + (i + 1) - 1 = Parameters(Top) + i
        /\ Parameters(Top) \in Nat
    BY <1>1, <1>2 DEF InChunk
  <1>4. Current.vars[i + 1] = v /\ v \in Values /\ i + 1 \in DOMAIN Current.vars
    <2>1. Current.vars = WordsIn(memory, Parameters(Top), n)
      BY <1>1, CurrentFacts
    <2>2. \A k \in 1 .. n :
            /\ WordsIn(memory, Parameters(Top), n)[k] = memory[Parameters(Top) + k - 1]
            /\ memory[Parameters(Top) + k - 1] \in Values
      BY <1>2, WordsType
    <2>3. DOMAIN Current.vars = 1 .. n
      BY <1>1, CurrentFacts
    <2> QED
      BY <1>3, <2>1, <2>2, <2>3
  <1> HIDE DEF v, n
  <1>5. Invocations' = WithEval(Append(FirstWords(Top.stackOfs - Top.stackOfs), v))
    BY <1>1, <1>2, <1>4, WordPushed, AfterStep
  <1>6. FirstWords(Top.stackOfs - Top.stackOfs) = Current.eval
    <2>1. Top.stackOfs - Top.stackOfs = 0 /\ Top.stackOfs - 0 = Top.stackOfs
      BY <1>2
    <2>2. FirstWords(0) = WordsIn(memory, EvalStack(Top), Top.stackOfs - 0)
      BY <1>1, <1>2, CurrentWords
    <2> QED
      BY <1>1, <2>1, <2>2, CurrentFacts
  <1>7. Invocations' = WithEval(Append(Current.eval, Current.vars[i + 1]))
    BY <1>4, <1>5, <1>6
  <1> QED
    BY <1>1, <1>4, <1>7, UnfoldedLoad DEF WithEval

LEMMA StoreStep ==
  ASSUME IInv, NEW i, StoreParamLocal(i)
  PROVE  Abstract!Store(i + 1) /\ i + 1 \in DOMAIN Current.vars
  <1> DEFINE n == Params[Top.method] + Locals[Top.method]
             k == Top.stackOfs
             p == Parameters(Top)
             e == EvalStack(Top)
             v == memory[CurEvalStack(Top) - 1]
             mem == Write(memory, p + i, v)
             g == [Top EXCEPT !.stackOfs = k - 1]
  <1>1. /\ Running /\ i \in 0 .. n - 1 /\ k > 0
        /\ memory' = mem
        /\ frames' = StackOfs(k - 1)
        /\ status' = status
    <2>1. /\ Running /\ i \in 0 .. Params[Top.method] + Locals[Top.method] - 1 /\ k > 0
          /\ memory' = mem
          /\ frames' = StackOfs(k - 1)
          /\ status' = status
      BY DEF StoreParamLocal
    <2>2. Params[Top.method] \in Nat /\ Locals[Top.method] \in Nat
      BY <2>1, CurrentSizes
    <2>3. i \in 0 .. n - 1
      BY <2>1, <2>2
    <2> QED
      BY <2>1, <2>3
  <1>2. /\ k \in Nat /\ n \in Nat /\ p \in Nat /\ e \in Nat /\ Top \in State
        /\ Top.addr \in Nat /\ Top.addr < e /\ e + k <= p /\ p + n <= ChunkSize
        /\ ChunkSize \in Nat /\ CurEvalStack(Top) = e + k
        /\ InChunk(p, n) /\ InChunk(e, k) /\ IsMemory(memory)
        /\ k <= MaxStack[Top.method] /\ MaxStack[Top.method] \in Nat
        /\ End(Top) = ofs /\ ofs <= ChunkSize
    <2>1. /\ k \in Nat /\ n \in Nat /\ Top \in State /\ e \in Nat
          /\ Top.addr \in Nat /\ Top.addr < e /\ p = e + MaxStack[Top.method]
          /\ MaxStack[Top.method] \in Nat /\ k <= MaxStack[Top.method]
          /\ ofs = p + n /\ ofs <= ChunkSize /\ ChunkSize \in Nat /\ End(Top) = ofs
          /\ CurEvalStack(Top) = e + k
      BY <1>1, CurrentSizes
    <2>2. IsMemory(memory) /\ InChunk(p, n) /\ InChunk(e, k)
      BY <1>1, <2>1, TopFacts, StateInChunk
    <2> HIDE DEF k, n, p, e
    <2> QED
      BY <2>1, <2>2
  <1>3. g \in State /\ g.method = Top.method /\ g.stackOfs = k - 1
        /\ EvalStack(g) = e /\ Parameters(g) = p /\ End(g) = End(Top)
    BY <1>1, <1>2 DEF State, EvalStack, Parameters, End
  <1>4. StackOfs(k - 1) = [frames EXCEPT ![Depth] = g]
    BY DEF StackOfs, Top
  <1>5. v \in Values
    <2>1. CurEvalStack(Top) - 1 \in 0 .. ChunkSize - 1
      BY <1>1, <1>2
    <2> QED
      BY <1>2, <2>1 DEF IsMemory
  <1>6. g.stackOfs <= MaxStack[g.method]
    BY <1>1, <1>2, <1>3
  <1> HIDE DEF g, v, k, n, p, e
  <1>7. IsMemory(mem) /\ \A a : a # p + i => mem[a] = memory[a]
    <2>1. IsMemory(mem)
      BY <1>2, <1>5, WriteType
    <2>2. \A a : a # p + i => mem[a] = memory[a]
      BY DEF Write
    <2> QED
      BY <2>1, <2>2
  <1> HIDE DEF mem
  <1>8. /\ \A a \in Nat : a < Top.addr => mem[a] = memory[a]
        /\ \A j \in 0 .. k - 1 - 1 : mem[e + j] = memory[e + j]
    BY <1>1, <1>2, <1>7
  <1>9. Invocations' = [Invocations EXCEPT ![Len(Invocations)] = FrameIn(mem, g)]
    <2>1. End(g) <= ChunkSize
      BY <1>2, <1>3
    <2>2. Seen(mem, [frames EXCEPT ![Depth] = g])
            = [Invocations EXCEPT ![Len(Invocations)] = FrameIn(mem, g)]
      BY <1>1, <1>3, <1>6, <1>7, <1>8, <2>1, CurrentReplaced
    <2> QED
      BY <1>1, <1>4, <2>2, AfterStep
  <1>10. i + 1 \in 1 .. n /\ p + (i + 1) - 1 = p + i
    BY <1>1, <1>2
  <1>11. WordsIn(mem, p, n) = [WordsIn(memory, p, n) EXCEPT ![i + 1] = v]
    <2> DEFINE j == i + 1
    <2>1. j \in 1 .. n /\ p + j - 1 = p + i
      BY <1>10
    <2> HIDE DEF j
    <2> DEFINE a == p + i
    <2>2. a = p + j - 1
      BY <2>1
    <2> HIDE DEF a
    <2>3. WordsIn(Write(memory, a, v), p, n) = [WordsIn(memory, p, n) EXCEPT ![j] = v]
      BY <1>2, <2>1, <2>2, WordsWritten
    <2> QED
      BY <2>3 DEF j, mem, a
  <1>12. WordsIn(mem, e, k - 1) = WordsIn(memory, e, k - 1)
    <2>1. k - 1 \in Nat /\ e \in Int
      BY <1>1, <1>2
    <2> QED
      BY <1>8, <2>1, WordsCopied
  <1>13. FirstWords(1) = WordsIn(memory, e, k - 1)
    <2>1. 1 \in Nat /\ 1 <= k
      BY <1>1, <1>2
    <2> QED
      BY <1>1, <2>1, CurrentWords DEF e, k
  <1>14. LastWords(1)[1] = v
    <2>1. LastWords(1) = WordsIn(memory, CurEvalStack(Top) - 1, 1)
      <3>1. 1 \in Nat /\ 1 <= k
        BY <1>1, <1>2
      <3> QED
        BY <1>1, <3>1, CurrentWords DEF k
    <2>2. WordsIn(memory, CurEvalStack(Top) - 1, 1)[1] = memory[CurEvalStack(Top) - 1 + 1 - 1]
      BY DEF WordsIn
    <2>3. CurEvalStack(Top) - 1 + 1 - 1 = CurEvalStack(Top) - 1
      BY <1>2
    <2> QED
      BY <2>1, <2>2, <2>3 DEF v
  <1>15. /\ Current.vars = WordsIn(memory, p, n) /\ DOMAIN Current.vars = 1 .. n
         /\ Current.eval = WordsIn(memory, e, k) /\ Len(Current.eval) = k
         /\ Current.method = Top.method
    BY <1>1, CurrentFacts DEF p, n, e, k
  <1>16. FrameIn(mem, g) = [method |-> Current.method,
                            vars |-> [Current.vars EXCEPT ![i + 1] = LastWords(1)[1]],
                            eval |-> FirstWords(1)]
    BY <1>3, <1>11, <1>12, <1>13, <1>14, <1>15 DEF FrameIn, n
  <1>17. Current.eval # <<>>
    BY <1>1, <1>2, <1>15
  <1>18. Invocations' =
           [Invocations EXCEPT ![Len(Invocations)].vars[i + 1] = LastWords(1)[1],
                               ![Len(Invocations)].eval = FirstWords(1)]
    <2> DEFINE d == Len(Invocations)
               y == LastWords(1)[1]
               z == FirstWords(1)
               h == [method |-> Current.method, vars |-> [Current.vars EXCEPT ![i + 1] = y],
                     eval |-> z]
    <2>1. /\ Invocations \in Seq(Invoked) /\ d \in DOMAIN Invocations
          /\ Invocations[d] = Current /\ Current \in Invoked
      <3>1. /\ Invocations \in Seq(Invoked) /\ d = Depth
            /\ Depth \in 1 .. Len(frames) /\ d = Len(frames)
        BY <1>1, CurrentFacts
      <3>2. DOMAIN Invocations = 1 .. d /\ d \in 1 .. d
        BY <3>1, LenProperties
      <3> QED
        BY <3>1, <3>2, ElementOfSeq DEF Current
    <2> HIDE DEF d, y, z
    <2>2. [Invocations EXCEPT ![d].vars[i + 1] = y, ![d].eval = z]
            = [Invocations EXCEPT ![d] = h]
      <3> DEFINE j == i + 1
                 vs == [Current.vars EXCEPT ![j] = y]
                 c == [Current EXCEPT !.vars[j] = y]
                 f == [Invocations EXCEPT ![d] = c]
      <3>1. Current = [method |-> Current.method, vars |-> Current.vars, eval |-> Current.eval]
        BY <2>1 DEF Invoked
      <3>2. [c EXCEPT !.eval = z] = h
        <4>1. c = [Current EXCEPT !.vars = vs]
          OBVIOUS
        <4>2. h = [method |-> Current.method, vars |-> vs, eval |-> z]
          OBVIOUS
        <4> HIDE DEF vs, h, c
        <4>3. c = [method |-> Current.method, vars |-> vs, eval |-> Current.eval]
          BY <3>1, <4>1
        <4>4. [c EXCEPT !.eval = z] = [method |-> Current.method, vars |-> vs, eval |-> z]
          BY <4>3
        <4> QED
          BY <4>2, <4>4
      <3> HIDE DEF h, j
      <3>3. [Invocations EXCEPT ![d].vars[j] = y, ![d].eval = z]
              = [[Invocations EXCEPT ![d].vars[j] = y] EXCEPT ![d].eval = z]
        OBVIOUS
      <3>4. [Invocations EXCEPT ![d].vars[j] = y] = f
        BY <2>1
      <3> HIDE DEF c
      <3>5. f[d] = c
        BY <2>1
      <3>6. [f EXCEPT ![d].eval = z] = [f EXCEPT ![d] = h]
        BY <3>2, <3>5
      <3>7. [f EXCEPT ![d] = h] = [Invocations EXCEPT ![d] = h]
        BY <2>1
      <3> QED
        BY <3>3, <3>4, <3>6, <3>7 DEF j
    <2> QED
      BY <1>9, <1>16, <2>2 DEF d, y, z
  <1> QED
    BY <1>1, <1>10, <1>15, <1>17, <1>18, UnfoldedStore DEF LastWords, FirstWords

-----------------------------------------------------------------------------
(* Calls *)

LEMMA Moved ==
  ASSUME NEW mem, IsMemory(mem), NEW to \in Nat, NEW from \in Nat, NEW n \in Nat,
         to + n <= ChunkSize
  PROVE  /\ \A k \in 0 .. n - 1 : Move(mem, to, from, n)[to + k] = mem[from + k]
         /\ \A a \in Nat : a < ChunkSize /\ (a < to \/ a >= to + n)
                             => Move(mem, to, from, n)[a] = mem[a]
  <1>1. ChunkSize \in Nat /\ DOMAIN mem = 0 .. ChunkSize - 1
    BY SizesAssumption DEF IsMemory
  <1>2. ASSUME NEW k \in 0 .. n - 1
        PROVE  Move(mem, to, from, n)[to + k] = mem[from + k]
    <2>1. /\ to + k \in DOMAIN mem /\ to + k \in to .. to + n - 1
          /\ from + (to + k) - to = from + k
      BY <1>1
    <2> QED
      BY <2>1 DEF Move
  <1>3. ASSUME NEW a \in Nat, a < ChunkSize, a < to \/ a >= to + n
        PROVE  Move(mem, to, from, n)[a] = mem[a]
    <2>1. a \in DOMAIN mem /\ a \notin to .. to + n - 1
      BY <1>1, <1>3
    <2> QED
      BY <2>1 DEF Move
  <1> QED
    BY <1>2, <1>3

LEMMA WordsMoved ==
  ASSUME NEW mem, IsMemory(mem), NEW to \in Nat, NEW from \in Nat, NEW n \in Nat,
         to + n <= ChunkSize
  PROVE  WordsIn(Move(mem, to, from, n), to, n) = WordsIn(mem, from, n)
  <1> DEFINE mem2 == Move(mem, to, from, n)
  <1>1. \A k \in 0 .. n - 1 : mem2[to + k] = mem[from + k]
    BY Moved
  <1>2. to \in Int /\ from \in Int
    OBVIOUS
  <1> HIDE DEF mem2
  <1>3. WordsIn(mem2, to, n) = WordsIn(mem, from, n)
    BY <1>1, <1>2, WordsCopied
  <1> QED
    BY <1>3 DEF mem2

LEMMA CrashStep ==
  ASSUME Running, NEW end, Crash(end)
  PROVE  Abstract!Stop
  <1>1. memory' = memory /\ frames' = frames /\ status' = "crash"
    BY DEF Crash
  <1>2. Invocations' = Invocations
    BY <1>1, AfterStep DEF Invocations
  <1> QED
    BY <1>1, <1>2, UnfoldedStop

Called(m, args) == [method |-> m, args |-> args]

(* A method state on top of others. *)
LEMMA EntersOne ==
  ASSUME NEW fs, NEW end, Adjoins(fs, end), NEW m \in Methods,
         End(MethodState(end, m)) <= ChunkSize,
         NEW mem, IsMemory(mem), NEW mem2, IsMemory(mem2),
         \A a \in Nat : a < end => mem2[a] = mem[a],
         NEW args, args = WordsIn(mem2, Parameters(MethodState(end, m)), Params[m])
  PROVE  Entered(Seen(mem2, Append(fs, MethodState(end, m))), Seen(mem, fs),
                 <<Called(m, args)>>)
  <1> DEFINE x == FrameIn(mem2, MethodState(end, m))
             s == Seen(mem, fs)
             c == Called(m, args)
  <1>1. end \in Nat /\ end <= ChunkSize
    <2>1. end \in Nat /\ ChunkSize \in Nat
      BY AdjoinsFacts, SizesAssumption
    <2>2. MethodState(end, m) \in State /\ MethodState(end, m).addr = end
      BY <2>1, MethodStateType
    <2>3. end < End(MethodState(end, m)) /\ End(MethodState(end, m)) \in Nat
      BY <2>2, EndType
    <2> QED
      BY <2>1, <2>3
  <1>2. s \in Seq(Invoked)
    BY <1>1, SeenType
  <1>3. x \in Invoked /\ Abstract!IsFrame(x, c.method, c.args)
    <2>1. c.method = m /\ c.args = args
      BY DEF Called
    <2> QED
      BY <1>1, <2>1, NewFrame
  <1>4. Seen(mem2, Append(fs, MethodState(end, m))) = Append(s, x)
    BY SeenAppend
  <1> HIDE DEF x, s, c
  <1>5. Entered(Append(s, x), s, <<c>>)
    BY <1>2, <1>3, EnteredOne
  <1> QED
    BY <1>4, <1>5 DEF s, c

(* Two of them. *)
LEMMA EntersTwo ==
  ASSUME NEW fs, NEW end, Adjoins(fs, end), NEW m \in Methods, NEW q \in Methods,
         NEW end2, end2 = End(MethodState(end, m)),
         End(MethodState(end2, q)) <= ChunkSize,
         NEW mem, IsMemory(mem), NEW mem2, IsMemory(mem2), NEW mem3, IsMemory(mem3),
         \A a \in Nat : a < end => mem2[a] = mem[a],
         \A a \in Nat : a < end2 => mem3[a] = mem2[a],
         NEW args, args = WordsIn(mem2, Parameters(MethodState(end, m)), Params[m]),
         NEW args2, args2 = WordsIn(mem3, Parameters(MethodState(end2, q)), Params[q])
  PROVE  Entered(Seen(mem3, Append(Append(fs, MethodState(end, m)), MethodState(end2, q))),
                 Seen(mem, fs),
                 Append(<<Called(m, args)>>, Called(q, args2)))
  <1> DEFINE f == MethodState(end, m)
             g == MethodState(end2, q)
             x == FrameIn(mem2, f)
             y == FrameIn(mem3, g)
             s == Seen(mem, fs)
             c == Called(m, args)
             e == Called(q, args2)
  <1>1. /\ end \in Nat /\ end <= ChunkSize /\ end2 \in Nat /\ End(f) <= ChunkSize
    <2>1. end \in Nat /\ ChunkSize \in Nat
      BY AdjoinsFacts, SizesAssumption
    <2>2. f \in State /\ f.addr = end
      BY <2>1, MethodStateType
    <2>3. end < End(f) /\ End(f) \in Nat
      BY <2>2, EndType
    <2>4. g \in State /\ g.addr = end2
      BY <2>3, MethodStateType
    <2>5. end2 < End(g) /\ End(g) \in Nat
      BY <2>4, EndType
    <2> QED
      BY <2>1, <2>3, <2>5
  <1>2. s \in Seq(Invoked)
    BY <1>1, SeenType
  <1>3. x \in Invoked /\ Abstract!IsFrame(x, c.method, c.args)
    <2>1. c.method = m /\ c.args = args
      BY DEF Called
    <2> QED
      BY <1>1, <2>1, NewFrame
  <1>4. y \in Invoked /\ Abstract!IsFrame(y, e.method, e.args)
    <2>1. e.method = q /\ e.args = args2
      BY DEF Called
    <2> QED
      BY <1>1, <2>1, NewFrame
  <1>5. Seen(mem2, Append(fs, f)) = Append(s, x)
    BY <1>1, SeenAppend
  <1>6. Adjoins(Append(fs, f), end2)
    BY AdjoinsAppend
  <1>7. Seen(mem3, Append(Append(fs, f), g)) = Append(Seen(mem2, Append(fs, f)), y)
    <2> DEFINE gs == Append(fs, f)
    <2> HIDE DEF gs, f
    <2>1. Seen(mem3, Append(gs, g)) = Append(Seen(mem2, gs), y)
      BY <1>6, SeenAppend DEF gs
    <2> QED
      BY <2>1 DEF gs
  <1> HIDE DEF x, y, s, c, e, f, g
  <1>8. Entered(Append(Append(s, x), y), s, Append(<<c>>, e))
    BY <1>2, <1>3, <1>4, EnteredTwo
  <1> QED
    BY <1>5, <1>7, <1>8 DEF s, c, e, f, g

(* A call that finds memory. *)
LEMMA PlainCallStep ==
  ASSUME IInv, Running, NEW m \in Methods, Top.stackOfs >= Params[m], PlainCall(m)
  PROVE  \/ Abstract!Stop
         \/ /\ Entered(Invocations', WithEval(FirstWords(Params[m])),
                       <<Called(m, LastWords(Params[m]))>>)
            /\ status' = status
  <1> DEFINE f == MethodState(ofs, m)
             n == Params[m]
             k == Top.stackOfs - n
             fs == StackOfs(k)
             c == CurEvalStack(Top)
             mem == Move(memory, Parameters(f) + 0, c - n, n)
  <1>1. CASE Crash(End(f))
    BY <1>1, CrashStep
  <1>2. CASE ~Crash(End(f))
    <2>1. /\ End(f) <= ChunkSize
          /\ memory' = mem /\ frames' = Append(fs, f) /\ status' = status
      BY <1>2 DEF PlainCall, StackAlloc, CopyParameters
    <2>2. /\ n \in Nat /\ ofs \in Nat /\ Top.stackOfs \in Nat /\ k \in Nat
          /\ k <= MaxStack[Top.method] /\ ChunkSize \in Nat /\ ofs <= ChunkSize
          /\ IsMemory(memory) /\ InChunk(c - n, n) /\ c - n \in Nat
      <3>1. /\ n \in Nat /\ ofs \in Nat /\ Top.stackOfs \in Nat /\ ofs <= ChunkSize
            /\ Top.stackOfs <= MaxStack[Top.method] /\ MaxStack[Top.method] \in Nat
            /\ ChunkSize \in Nat /\ IsMemory(memory)
        BY CurrentSizes, TopFacts, SizesAssumption
      <3>2. InChunk(c - n, n)
        BY <3>1, CurrentWords
      <3> HIDE DEF c
      <3> QED
        BY <3>1, <3>2 DEF InChunk
    <2>3. /\ f \in State /\ f.addr = ofs /\ f.method = m /\ f.stackOfs = 0
          /\ f.stackOfs <= MaxStack[f.method]
      <3>1. f \in State /\ f.addr = ofs /\ f.method = m /\ f.stackOfs = 0
        BY <2>2, MethodStateType
      <3> QED
        BY <3>1, SizesAssumption
    <2>4. /\ Parameters(f) \in Nat /\ ofs < Parameters(f) /\ Parameters(f) + n <= ChunkSize
          /\ Parameters(f) + 0 = Parameters(f)
      <3>1. /\ InChunk(Parameters(f), Params[f.method] + Locals[f.method])
            /\ f.addr < EvalStack(f) /\ Parameters(f) = EvalStack(f) + MaxStack[f.method]
            /\ MaxStack[f.method] \in Nat /\ Locals[f.method] \in Nat
            /\ InChunk(EvalStack(f), MaxStack[f.method])
        BY <2>1, <2>3, StateInChunk
      <3> QED
        BY <2>2, <2>3, <3>1 DEF InChunk
    <2>5. Adjoins(fs, ofs)
      BY <2>2, StackOfsAdjoins
    <2>6. IsMemory(mem)
      <3>1. Parameters(f) + 0 \in Int /\ c - n + n <= ChunkSize
        BY <2>2, <2>4 DEF InChunk
      <3> QED
        BY <2>2, <3>1, MoveType
    <2>7. mem = Move(memory, Parameters(f), c - n, n)
      BY <2>4
    <2> HIDE DEF mem, f, k, c, n
    <2>8. /\ \A j \in 0 .. n - 1 : mem[Parameters(f) + j] = memory[c - n + j]
          /\ \A a \in Nat : a < ChunkSize /\ a < Parameters(f) => mem[a] = memory[a]
      <3> DEFINE b == c - n
      <3>1. b \in Nat
        BY <2>2
      <3> HIDE DEF b
      <3>2. /\ \A j \in 0 .. n - 1 :
                 Move(memory, Parameters(f), b, n)[Parameters(f) + j] = memory[b + j]
            /\ \A a \in Nat : a < ChunkSize /\ (a < Parameters(f) \/ a >= Parameters(f) + n)
                                => Move(memory, Parameters(f), b, n)[a] = memory[a]
        BY <2>2, <2>4, <3>1, Moved
      <3> QED
        BY <2>7, <3>2 DEF b
    <2>9. \A a \in Nat : a < ofs => mem[a] = memory[a]
      BY <2>2, <2>4, <2>8
    <2>10. WordsIn(mem, Parameters(f), n) = LastWords(n)
      <3>1. WordsIn(mem, Parameters(f), n) = WordsIn(memory, c - n, n)
        <4> DEFINE b == c - n
                   p == Parameters(f)
        <4>1. /\ b \in Nat /\ p \in Nat /\ n \in Nat /\ p + n <= ChunkSize
              /\ IsMemory(memory)
          BY <2>2, <2>4
        <4>2. mem = Move(memory, p, b, n)
          BY <2>7
        <4> HIDE DEF b, p
        <4>3. WordsIn(mem, p, n) = WordsIn(memory, b, n)
          BY <4>1, <4>2, WordsMoved
        <4> QED
          BY <4>3 DEF b, p
      <3>2. n <= Top.stackOfs
        BY <2>2 DEF n
      <3> QED
        BY <2>2, <3>1, <3>2, CurrentWords DEF c
    <2>11. Seen(memory, fs) = WithEval(FirstWords(n))
      <3>1. Seen(memory, fs) = WithEval(WordsIn(memory, EvalStack(Top), k))
        BY <2>2, CurrentEval
      <3>2. n <= Top.stackOfs /\ k = Top.stackOfs - n
        BY <2>2 DEF n, k
      <3> QED
        BY <2>2, <3>1, <3>2, CurrentWords
    <2>12. Entered(Seen(mem, Append(fs, f)), Seen(memory, fs), <<Called(m, LastWords(n))>>)
      BY <2>1, <2>2, <2>5, <2>6, <2>9, <2>10, EntersOne DEF f, n
    <2> QED
      BY <2>1, <2>11, <2>12, AfterStep DEF n
  <1> QED
    BY <1>1, <1>2

LEMMA CallStep ==
  ASSUME IInv, NEW m \in Methods, Call(m)
  PROVE  Abstract!Call(m) \/ Abstract!Stop
  <1>1. Running /\ m \in Calls[Top.method] /\ Top.stackOfs >= Params[m] /\ PlainCall(m)
    BY DEF Call
  <1>2. Current.method = Top.method /\ Len(Current.eval) = Top.stackOfs
    BY <1>1, CurrentFacts
  <1>3. CASE /\ Entered(Invocations', WithEval(FirstWords(Params[m])),
                        <<Called(m, LastWords(Params[m]))>>)
             /\ status' = status
    BY <1>1, <1>2, <1>3, UnfoldedCall DEF Called
  <1> QED
    BY <1>1, <1>3, PlainCallStep

LEMMA LastReplaced ==
  ASSUME NEW s \in Seq(Invoked), s # <<>>, NEW x \in Invoked
  PROVE  /\ [s EXCEPT ![Len(s)] = x] = Append(SubSeq(s, 1, Len(s) - 1), x)
         /\ SubSeq(s, 1, Len(s) - 1) \in Seq(Invoked)
  <1> DEFINE d == Len(s)
             below == SubSeq(s, 1, d - 1)
             r == [s EXCEPT ![d] = x]
             t == Append(below, x)
  <1>1. d \in Nat \ {0} /\ d \in 1 .. d /\ \A i \in 1 .. d : s[i] \in Invoked
    BY EmptySeq, LenProperties, ElementOfSeq
  <1> HIDE DEF d
  <1>2. /\ below \in Seq(Invoked) /\ Len(below) = IF 1 <= d - 1 THEN d - 1 - 1 + 1 ELSE 0
        /\ \A i \in 1 .. d - 1 - 1 + 1 : below[i] = s[1 + i - 1]
    <2>1. \A i \in 1 .. d - 1 : s[i] \in Invoked
      BY <1>1
    <2> QED
      BY <1>1, <2>1, SubSeqProperties
  <1> HIDE DEF below
  <1>3. Len(below) = d - 1 /\ \A i \in 1 .. d - 1 : below[i] = s[i]
    BY <1>1, <1>2
  <1>4. /\ r \in Seq(Invoked) /\ Len(r) = d
        /\ \A i \in 1 .. d : r[i] = IF i = d THEN x ELSE s[i]
    BY <1>1, ExceptSeq DEF d
  <1>5. /\ t \in Seq(Invoked) /\ Len(t) = d - 1 + 1
        /\ \A i \in 1 .. d - 1 : t[i] = below[i]
        /\ t[d - 1 + 1] = x
    BY <1>1, <1>2, <1>3, AppendProperties
  <1> HIDE DEF r, t
  <1>6. ASSUME NEW i \in 1 .. d
        PROVE  r[i] = t[i]
    <2>1. CASE i = d
      BY <1>1, <1>4, <1>5, <2>1
    <2>2. CASE i # d
      BY <1>1, <1>3, <1>4, <1>5, <2>2
    <2> QED
      BY <2>1, <2>2
  <1>7. r = t
    BY <1>1, <1>4, <1>5, <1>6, SeqEqual
  <1> QED
    BY <1>2, <1>7 DEF r, t, below, d

LEMMA TailCallStep ==
  ASSUME IInv, WithinChunk', NEW m \in Methods, TailCall(m)
  PROVE  Abstract!TailCall(m) \/ Abstract!Stop
  <1> DEFINE f == MethodState(Top.addr, m)
             n == Params[m]
             c == CurEvalStack(Top)
             mem == Move(memory, Parameters(f) + 0, c - n, n)
             x == FrameIn(mem, f)
             below == SubSeq(Invocations, 1, Len(Invocations) - 1)
  <1>1. /\ Running /\ m \in TailCalls[Top.method] /\ Top.stackOfs = n
        /\ n \in Nat /\ n <= Top.stackOfs
    <2>1. Running /\ m \in TailCalls[Top.method] /\ Top.stackOfs = n
      BY DEF TailCall
    <2>2. n \in Nat
      BY SizesAssumption
    <2> QED
      BY <2>1, <2>2
  <1>2. /\ Current.method = Top.method /\ Len(Current.eval) = Top.stackOfs
        /\ Current.eval = WordsIn(memory, EvalStack(Top), Top.stackOfs)
        /\ Invocations \in Seq(Invoked) /\ Len(Invocations) = Depth /\ Depth = Len(frames)
        /\ Depth \in 1 .. Len(frames)
    BY <1>1, CurrentFacts
  <1>3. /\ EvalStack(Top) \in Nat /\ c = EvalStack(Top) + n /\ c - n = EvalStack(Top)
        /\ Top.addr \in Nat /\ ChunkSize \in Nat
    <2>1. /\ EvalStack(Top) \in Nat /\ c = EvalStack(Top) + Top.stackOfs
          /\ Top.addr \in Nat /\ ChunkSize \in Nat
      BY <1>1, CurrentSizes
    <2> HIDE DEF c, n
    <2> QED
      BY <1>1, <2>1
  <1>4. LastWords(n) = Current.eval /\ FirstWords(n) = <<>>
    <2>1. /\ FirstWords(n) = WordsIn(memory, EvalStack(Top), Top.stackOfs - n)
          /\ LastWords(n) = WordsIn(memory, c - n, n)
      BY <1>1, CurrentWords
    <2>2. Top.stackOfs - n = 0
      BY <1>1
    <2>3. WordsIn(memory, EvalStack(Top), 0) = <<>>
      BY DEF WordsIn
    <2> QED
      BY <1>1, <1>2, <1>3, <2>1, <2>2, <2>3
  <1>5. CASE ReusesFrame(m)
    <2>1. /\ memory' = mem /\ frames' = [frames EXCEPT ![Depth] = f] /\ ofs' = End(f)
          /\ status' = IF End(f) > ChunkSize THEN "overrun" ELSE "run"
      BY <1>5 DEF TailCall, CopyParameters
    <2>2. End(f) <= ChunkSize
      BY <2>1 DEF WithinChunk
    <2>3. /\ f \in State /\ f.addr = Top.addr /\ f.method = m /\ f.stackOfs = 0
          /\ f.stackOfs <= MaxStack[f.method] /\ End(f) \in Nat
      <3>1. f \in State /\ f.addr = Top.addr /\ f.method = m /\ f.stackOfs = 0
        BY <1>3, MethodStateType
      <3> QED
        BY <3>1, EndType, SizesAssumption
    <2>4. status' = status
      BY <1>1, <1>3, <2>1, <2>2, <2>3 DEF Running
    <2>5. /\ Parameters(f) \in Nat /\ Top.addr < Parameters(f)
          /\ Parameters(f) + n <= ChunkSize /\ Parameters(f) + 0 = Parameters(f)
      <3>1. /\ InChunk(Parameters(f), Params[f.method] + Locals[f.method])
            /\ f.addr < EvalStack(f) /\ Parameters(f) = EvalStack(f) + MaxStack[f.method]
            /\ MaxStack[f.method] \in Nat /\ Locals[f.method] \in Nat
            /\ InChunk(EvalStack(f), MaxStack[f.method])
        BY <2>2, <2>3, StateInChunk
      <3> QED
        BY <1>1, <1>3, <2>3, <3>1 DEF InChunk
    <2>6. IsMemory(memory) /\ InChunk(c - n, n)
      BY <1>1, CurrentWords, TopFacts
    <2>7. IsMemory(mem)
      <3>1. Parameters(f) + 0 \in Int /\ c - n \in Nat /\ c - n + n <= ChunkSize
        BY <1>3, <2>5, <2>6 DEF InChunk
      <3> QED
        BY <1>1, <2>6, <3>1, MoveType
    <2>8. mem = Move(memory, Parameters(f), EvalStack(Top), n)
      BY <1>3, <2>5
    <2> HIDE DEF mem, f, c, n
    <2>9. WordsIn(mem, Parameters(f), n) = Current.eval
      <3> DEFINE p == Parameters(f)
                 b == EvalStack(Top)
      <3>1. b \in Nat /\ p \in Nat /\ n \in Nat /\ p + n <= ChunkSize /\ IsMemory(memory)
        BY <1>1, <1>3, <2>5, <2>6
      <3> HIDE DEF p, b
      <3>2. WordsIn(Move(memory, p, b, n), p, n) = WordsIn(memory, b, n)
        BY <3>1, WordsMoved
      <3> QED
        BY <1>1, <1>2, <2>8, <3>2 DEF p, b
    <2>10. \A a \in Nat : a < Top.addr => mem[a] = memory[a]
      <3> DEFINE p == Parameters(f)
                 b == EvalStack(Top)
      <3>1. b \in Nat /\ p \in Nat /\ n \in Nat /\ p + n <= ChunkSize /\ IsMemory(memory)
        BY <1>1, <1>3, <2>5, <2>6
      <3> HIDE DEF p, b
      <3>2. \A a \in Nat : a < ChunkSize /\ (a < p \/ a >= p + n)
                             => Move(memory, p, b, n)[a] = memory[a]
        BY <3>1, Moved
      <3>3. \A a \in Nat : a < Top.addr => a < ChunkSize /\ a < p
        BY <1>1, <1>3, <2>5 DEF p
      <3> QED
        BY <2>8, <3>2, <3>3 DEF p, b
    <2>11. Invocations' = [Invocations EXCEPT ![Len(Invocations)] = x]
      BY <1>1, <2>1, <2>2, <2>3, <2>7, <2>10, CurrentReplaced, AfterStep
    <2>12. x \in Invoked /\ Abstract!IsFrame(x, m, Current.eval)
      BY <1>3, <2>2, <2>7, <2>9, NewFrame DEF f, n
    <2> HIDE DEF x
    <2>13. Invocations' = Append(below, x) /\ below \in Seq(Invoked)
      <3>1. Invocations # <<>>
        BY <1>2
      <3> QED
        BY <1>2, <2>11, <2>12, <3>1, LastReplaced
    <2> HIDE DEF below
    <2>14. Entered(Append(below, x), below, <<Called(m, Current.eval)>>)
      <3> DEFINE k == Called(m, Current.eval)
      <3>1. k.method = m /\ k.args = Current.eval
        BY DEF Called
      <3> HIDE DEF k
      <3>2. Entered(Append(below, x), below, <<k>>)
        BY <2>12, <2>13, <3>1, EnteredOne
      <3> QED
        BY <3>2 DEF k
    <2> QED
      BY <1>1, <1>2, <2>4, <2>13, <2>14, UnfoldedTailCall DEF Called, below, n
  <1>6. CASE ~ReusesFrame(m)
    <2>1. PlainCall(m)
      BY <1>6 DEF TailCall
    <2>2. Top.stackOfs >= Params[m]
      BY <1>1
    <2>3. \/ Abstract!Stop
          \/ /\ Entered(Invocations', WithEval(<<>>), <<Called(m, Current.eval)>>)
             /\ status' = status
      BY <1>1, <1>4, <2>1, <2>2, PlainCallStep
    <2> QED
      BY <1>1, <1>2, <2>3, UnfoldedTailCall DEF Called
  <1> QED
    BY <1>5, <1>6

-----------------------------------------------------------------------------
(* Allocations *)

LEMMA WordsOne ==
  ASSUME NEW mem, NEW a \in Int
  PROVE  WordsIn(mem, a, 1) = <<mem[a]>>
  <1>1. \A k \in 1 .. 1 : mem[a + k - 1] = mem[a]
    OBVIOUS
  <1>2. WordsIn(mem, a, 1) = [k \in 1 .. 1 |-> mem[a]]
    BY <1>1 DEF WordsIn
  <1> QED
    BY <1>2

(* The words behind the first of them. *)
RestIn(mem, addr, n) == WordsIn(mem, addr + 1, n - 1)

LEMMA WordsFromFirst ==
  ASSUME NEW mem, IsMemory(mem), NEW addr, NEW n, n > 0, InChunk(addr, n)
  PROVE  WordsIn(mem, addr, n) = <<mem[addr]>> \o RestIn(mem, addr, n)
  <1> DEFINE i == 1
             k == n - 1
  <1>1. i \in Nat /\ k \in Nat /\ i + k = n /\ addr \in Int
    BY DEF InChunk
  <1>2. InChunk(addr, i + k)
    BY <1>1
  <1>3. WordsIn(mem, addr, 1) = <<mem[addr]>>
    BY <1>1, WordsOne
  <1>4. i \in Nat /\ k \in Nat
    BY <1>1
  <1> HIDE DEF i, k
  <1>5. WordsIn(mem, addr, i + k) = WordsIn(mem, addr, i) \o WordsIn(mem, addr + i, k)
    BY <1>2, <1>4, WordsConcat
  <1> QED
    BY <1>1, <1>3, <1>5 DEF RestIn, i, k

LEMMA Written ==
  ASSUME NEW mem, IsMemory(mem), NEW p \in Nat, p < ChunkSize, NEW v \in Values
  PROVE  /\ IsMemory(Write(mem, p, v))
         /\ Write(mem, p, v)[p] = v
         /\ \A a : a # p => Write(mem, p, v)[a] = mem[a]
  <1>1. p \in 0 .. ChunkSize - 1
    BY SizesAssumption
  <1> QED
    BY <1>1, WriteType DEF Write, IsMemory

(* Where the parameters of a new method state lie. *)
LEMMA NewParameters ==
  ASSUME NEW end \in Nat, NEW m \in Methods, End(MethodState(end, m)) <= ChunkSize
  PROVE  /\ Parameters(MethodState(end, m)) \in Nat
         /\ end < Parameters(MethodState(end, m))
         /\ Parameters(MethodState(end, m)) + Params[m] <= ChunkSize
         /\ Parameters(MethodState(end, m)) + Params[m] <= End(MethodState(end, m))
  <1> DEFINE f == MethodState(end, m)
  <1>1. f \in State /\ f.addr = end /\ f.method = m /\ f.stackOfs = 0
    BY MethodStateType
  <1>2. f.stackOfs <= MaxStack[f.method] /\ ChunkSize \in Nat /\ Params[m] \in Nat
    BY <1>1, SizesAssumption
  <1> HIDE DEF f
  <1>3. /\ InChunk(Parameters(f), Params[f.method] + Locals[f.method])
        /\ f.addr < EvalStack(f) /\ Parameters(f) = EvalStack(f) + MaxStack[f.method]
        /\ MaxStack[f.method] \in Nat /\ Locals[f.method] \in Nat
        /\ End(f) = Parameters(f) + (Params[f.method] + Locals[f.method])
        /\ InChunk(EvalStack(f), MaxStack[f.method])
    BY <1>1, <1>2, StateInChunk DEF f
  <1>4. /\ Parameters(f) \in Nat /\ end < Parameters(f)
        /\ Parameters(f) + Params[m] <= ChunkSize
        /\ Parameters(f) + Params[m] <= End(f)
    BY <1>1, <1>2, <1>3 DEF InChunk
  <1> QED
    BY <1>4 DEF f

(* The method state of a finalizer. *)
LEMMA FinalizerFrame ==
  ASSUME NEW end \in Nat, NEW q \in Finalizers, End(MethodState(end, q)) <= ChunkSize,
         NEW mem, IsMemory(mem), NEW v \in Values,
         NEW mem2, mem2 = Write(mem, Parameters(MethodState(end, q)), v)
  PROVE  /\ q \in Methods
         /\ IsMemory(mem2)
         /\ \A a \in Nat : a < end => mem2[a] = mem[a]
         /\ <<v>> = WordsIn(mem2, Parameters(MethodState(end, q)), Params[q])
  <1> DEFINE p == Parameters(MethodState(end, q))
  <1>1. q \in Methods /\ Params[q] = 1
    BY CodeAssumption
  <1>2. p \in Nat /\ end < p /\ p + 1 <= ChunkSize /\ mem2 = Write(mem, p, v)
    BY <1>1, NewParameters
  <1> HIDE DEF p
  <1>3. IsMemory(mem2) /\ mem2[p] = v /\ \A a : a # p => mem2[a] = mem[a]
    <2>1. p \in 0 .. ChunkSize - 1
      BY <1>2, SizesAssumption
    <2> QED
      BY <1>2, <2>1, WriteType DEF Write, IsMemory
  <1>4. WordsIn(mem2, p, 1) = <<v>>
    BY <1>2, <1>3, WordsOne
  <1>5. \A a \in Nat : a < end => mem2[a] = mem[a]
    BY <1>2, <1>3
  <1> QED
    BY <1>1, <1>3, <1>4, <1>5 DEF p

(* What follows an allocation, after which one method state lies on top of *)
(* the others, the caller's among them.                                    *)
LEMMA FinalizerAfterOne ==
  ASSUME Running, NEW fs, NEW end, Adjoins(fs, end), NEW m \in Methods,
         NEW end2, end2 = End(MethodState(end, m)), end2 <= ChunkSize,
         NEW mem, IsMemory(mem), NEW mem2, IsMemory(mem2),
         \A a \in Nat : a < end => mem2[a] = mem[a],
         NEW args, args = WordsIn(mem2, Parameters(MethodState(end, m)), Params[m]),
         NEW pending \in Values,
         RunFinalizer(mem2, Append(fs, MethodState(end, m)), end2, pending)
  PROVE  \/ Abstract!Stop
         \/ /\ EntersWithFinalizer(Seen(mem, fs), <<Called(m, args)>>, pending, Invocations')
            /\ status' = status
  <1> DEFINE f == MethodState(end, m)
             below == Seen(mem, fs)
  <1>1. end \in Nat /\ end2 \in Nat
    <2>1. end \in Nat
      BY AdjoinsFacts
    <2>2. f \in State
      BY <2>1, MethodStateType
    <2> QED
      BY <2>1, <2>2, EndType
  <1> HIDE DEF below
  <1>2. CASE memory' = mem2 /\ frames' = Append(fs, f) /\ ofs' = end2 /\ UNCHANGED status
    <2>1. Invocations' = Seen(mem2, Append(fs, f))
      BY <1>2, AfterStep
    <2>2. End(f) <= ChunkSize
      OBVIOUS
    <2>3. Entered(Seen(mem2, Append(fs, f)), below, <<Called(m, args)>>)
      BY <2>2, EntersOne DEF below
    <2> QED
      BY <1>2, <2>1, <2>3 DEF EntersWithFinalizer, below
  <1>3. ASSUME NEW q \in Finalizers, Crash(End(MethodState(end2, q)))
        PROVE  Abstract!Stop
    BY <1>3, CrashStep
  <1>4. ASSUME NEW q \in Finalizers,
               LET g == MethodState(end2, q)
               IN /\ StackAlloc(End(g))
                  /\ memory' = Write(mem2, Parameters(g), pending)
                  /\ frames' = Append(Append(fs, f), g)
                  /\ ofs' = End(g)
                  /\ UNCHANGED status
        PROVE  /\ EntersWithFinalizer(below, <<Called(m, args)>>, pending, Invocations')
               /\ status' = status
    <2> DEFINE g == MethodState(end2, q)
               mem3 == Write(mem2, Parameters(g), pending)
               args2 == <<pending>>
    <2>1. End(g) <= ChunkSize
      BY <1>4 DEF StackAlloc
    <2>2. Invocations' = Seen(mem3, Append(Append(fs, f), g)) /\ status' = status
      BY <1>4, AfterStep
    <2>3. /\ q \in Methods /\ IsMemory(mem3)
          /\ \A a \in Nat : a < end2 => mem3[a] = mem2[a]
          /\ args2 = WordsIn(mem3, Parameters(g), Params[q])
      BY <1>1, <2>1, FinalizerFrame
    <2> HIDE DEF mem3, args2
    <2>4. Entered(Seen(mem3, Append(Append(fs, f), g)), below,
                  Append(<<Called(m, args)>>, Called(q, args2)))
      BY <2>1, <2>3, EntersTwo DEF below
    <2> HIDE DEF f, g
    <2>5. \E r \in Finalizers :
            Entered(Invocations', below,
                    Append(<<Called(m, args)>>, [method |-> r, args |-> <<pending>>]))
      BY <2>2, <2>4 DEF Called, args2
    <2> QED
      BY <2>2, <2>5 DEF EntersWithFinalizer
  <1> QED
    BY <1>2, <1>3, <1>4 DEF RunFinalizer, below

LEMMA NewObjectStep ==
  ASSUME IInv, NEW m \in Methods, NEW obj \in Objects, NEW pending \in Objects,
         NewObject(m, obj, pending)
  PROVE  Abstract!NewObject(m, obj, pending) \/ Abstract!Stop
  <1> DEFINE c == MethodState(ofs, m)
             n == Params[m] - 1
             p == Parameters(c)
             k == Top.stackOfs - n
             b == CurEvalStack(Top) - n
             fs == StackOfs(k + 1)
             mem1 == Write(memory, p, obj)
             mem2 == Move(mem1, p + 1, b, n)
             mem3 == Write(mem2, b, obj)
             mem4 == Write(memory, EvalStack(Top) + k, obj)
             below == WithEval(Append(FirstWords(n), obj))
             args == <<obj>> \o LastWords(n)
  <1>1. /\ Running /\ m \in Calls[Top.method] \cap Constructors
        /\ Top.stackOfs >= n /\ Top.stackOfs - n < MaxStack[Top.method]
        /\ \/ Crash(End(c))
           \/ StackAlloc(End(c)) /\ RunFinalizer(mem3, Append(fs, c), End(c), pending)
    BY DEF NewObject, CopyParameters
  <1>2. obj \in Values /\ pending \in Values /\ Params[m] \in Nat /\ Params[m] > 0
    BY <1>1, CodeAssumption, SizesAssumption
  <1>3. /\ n \in Nat /\ k \in Nat /\ k < MaxStack[Top.method] /\ k <= Top.stackOfs
        /\ n <= Top.stackOfs /\ Params[m] = 1 + n /\ Top.stackOfs \in Nat
        /\ k + 1 \in Nat /\ k + 1 <= MaxStack[Top.method] /\ Top.stackOfs - k = n
    BY <1>1, <1>2, CurrentSizes
  <1>4. CASE Crash(End(c))
    BY <1>1, <1>4, CrashStep
  <1>5. CASE End(c) <= ChunkSize /\ RunFinalizer(mem3, Append(fs, c), End(c), pending)
    <2>1. /\ ofs \in Nat /\ ChunkSize \in Nat /\ ofs <= ChunkSize /\ IsMemory(memory)
          /\ EvalStack(Top) \in Nat /\ CurEvalStack(Top) = EvalStack(Top) + Top.stackOfs
          /\ CurEvalStack(Top) <= ofs
          /\ EvalStack(Top) + MaxStack[Top.method] <= ofs
          /\ MaxStack[Top.method] \in Nat
      <3>1. /\ ofs = Parameters(Top) + (Params[Top.method] + Locals[Top.method])
            /\ Params[Top.method] \in Nat /\ Locals[Top.method] \in Nat
            /\ Parameters(Top) = EvalStack(Top) + MaxStack[Top.method]
            /\ MaxStack[Top.method] \in Nat /\ EvalStack(Top) \in Nat
        BY <1>1, CurrentSizes
      <3>2. EvalStack(Top) + MaxStack[Top.method] <= ofs
        BY <3>1
      <3> QED
        BY <1>1, <3>1, <3>2, TopFacts, SizesAssumption
    <2>2. p \in Nat /\ ofs < p /\ p + Params[m] <= ChunkSize
      BY <1>5, <2>1, NewParameters
    <2>3. /\ b \in Nat /\ b < ofs /\ b + n <= ofs /\ b = EvalStack(Top) + k
          /\ b + n = CurEvalStack(Top)
      <3> HIDE DEF n
      <3> QED
        BY <1>3, <2>1
    <2> HIDE DEF p, b, k, n
    <2>4. IsMemory(mem4) /\ Seen(mem4, fs) = below
      <3>1. /\ IsMemory(mem4)
            /\ Seen(mem4, fs) = WithEval(Append(FirstWords(Top.stackOfs - k), obj))
        BY <1>1, <1>2, <1>3, WordPushed
      <3> QED
        BY <1>3, <3>1
    <2>5. /\ IsMemory(mem1) /\ mem1[p] = obj /\ \A a : a # p => mem1[a] = memory[a]
      <3>1. p < ChunkSize
        BY <1>2, <2>1, <2>2
      <3> QED
        BY <1>2, <2>1, <2>2, <3>1, Written
    <2>6. /\ p + 1 \in Nat /\ p + 1 + n <= ChunkSize /\ b + n <= ChunkSize /\ p + 1 \in Int
          /\ b < p /\ b + n <= p /\ b < ChunkSize /\ EvalStack(Top) + k < ChunkSize
      BY <1>3, <2>1, <2>2, <2>3
    <2> HIDE DEF mem1
    <2>7. IsMemory(mem2)
      BY <1>3, <2>3, <2>5, <2>6, MoveType
    <2>8. /\ \A j \in 0 .. n - 1 : mem2[p + 1 + j] = mem1[b + j]
          /\ \A a \in Nat : a < p + 1 => mem2[a] = mem1[a]
      <3> DEFINE r == p + 1
      <3>1. /\ r \in Nat /\ r + n <= ChunkSize /\ IsMemory(mem1)
            /\ n \in Nat /\ b \in Nat
        BY <1>3, <2>3, <2>5, <2>6
      <3> HIDE DEF r
      <3>2. /\ \A j \in 0 .. n - 1 : Move(mem1, r, b, n)[r + j] = mem1[b + j]
            /\ \A a \in Nat : a < ChunkSize /\ (a < r \/ a >= r + n)
                                => Move(mem1, r, b, n)[a] = mem1[a]
        BY <3>1, Moved
      <3>3. \A a \in Nat : a < r => a < ChunkSize
        BY <1>3, <2>1, <3>1
      <3> QED
        BY <3>2, <3>3 DEF r
    <2> HIDE DEF mem2
    <2>9. IsMemory(mem3) /\ mem3[b] = obj /\ \A a : a # b => mem3[a] = mem2[a]
      BY <1>2, <2>3, <2>6, <2>7, Written
    <2>10. mem4[b] = obj /\ \A a : a # b => mem4[a] = memory[a]
      <3>1. mem4 = Write(memory, b, obj)
        BY <2>3
      <3> HIDE DEF mem4
      <3> QED
        BY <1>2, <2>1, <2>3, <2>6, <3>1, Written
    <2> HIDE DEF mem3, mem4
    <2>11. /\ WordsIn(mem3, p, Params[m]) = <<obj>> \o WordsIn(memory, b, n)
           /\ \A a \in Nat : a < p => mem3[a] = mem4[a]
      <3>1. \A a \in Nat : a < p => mem3[a] = mem4[a]
        BY <2>2, <2>5, <2>8, <2>9, <2>10
      <3>2. mem3[p] = obj
        BY <2>2, <2>5, <2>6, <2>8, <2>9
      <3> DEFINE r == p + 1
      <3>3. b \in Int /\ r \in Int /\ n \in Nat
        BY <1>3, <2>2, <2>3
      <3>4. \A j \in 0 .. n - 1 : mem3[r + j] = memory[b + j]
        <4> SUFFICES ASSUME NEW j \in 0 .. n - 1
                     PROVE  mem3[p + 1 + j] = memory[b + j]
          OBVIOUS
        <4>1. p + 1 + j # b /\ b + j # p
          BY <1>3, <2>2, <2>3, <2>6
        <4> QED
          BY <2>5, <2>8, <2>9, <4>1
      <3> HIDE DEF r
      <3>5. WordsIn(mem3, r, n) = WordsIn(memory, b, n)
        BY <3>3, <3>4, WordsCopied
      <3>6. WordsIn(mem3, p, Params[m]) = <<mem3[p]>> \o RestIn(mem3, p, Params[m])
        <4>1. IsMemory(mem3) /\ Params[m] > 0
          BY <1>2, <2>9
        <4>2. InChunk(p, Params[m])
          BY <1>2, <2>2 DEF InChunk
        <4> QED
          BY <4>1, <4>2, WordsFromFirst
      <3>7. RestIn(mem3, p, Params[m]) = WordsIn(mem3, r, n)
        BY DEF RestIn, r, n
      <3> QED
        BY <3>1, <3>2, <3>5, <3>6, <3>7
    <2>12. WordsIn(memory, b, n) = LastWords(n)
      BY <1>1, <1>3, CurrentWords DEF b
    <2>13. args = WordsIn(mem3, p, Params[m])
      BY <1>3, <2>11, <2>12
    <2>14. \A a \in Nat : a < ofs => mem3[a] = mem4[a]
      BY <2>1, <2>2, <2>11
    <2>15. Adjoins(fs, ofs)
      BY <1>1, <1>3, StackOfsAdjoins
    <2> HIDE DEF fs, args
    <2>16. \/ Abstract!Stop
           \/ /\ EntersWithFinalizer(Seen(mem4, fs), <<Called(m, args)>>, pending, Invocations')
              /\ status' = status
      <3> DEFINE end2 == End(c)
      <3>1. end2 = End(MethodState(ofs, m)) /\ end2 <= ChunkSize
        BY <1>5
      <3>2. RunFinalizer(mem3, Append(fs, MethodState(ofs, m)), end2, pending)
        BY <1>5
      <3>3. args = WordsIn(mem3, Parameters(MethodState(ofs, m)), Params[m])
        BY <2>13 DEF p
      <3> HIDE DEF end2
      <3> QED
        BY <1>1, <1>2, <2>4, <2>9, <2>14, <2>15, <3>1, <3>2, <3>3, FinalizerAfterOne
    <2>17. Current.method = Top.method /\ Len(Current.eval) = Top.stackOfs
      BY <1>1, CurrentFacts
    <2>18. ASSUME EntersWithFinalizer(below, <<Called(m, args)>>, pending, Invocations'),
                  status' = status
           PROVE  Abstract!NewObject(m, obj, pending)
      <3>1. Len(Current.eval) >= n
        BY <1>3, <2>17
      <3> QED
        BY <1>1, <2>17, <2>18, <3>1, UnfoldedNewObject DEF Called, args, n
    <2> QED
      BY <2>4, <2>16, <2>18
  <1> QED
    BY <1>1, <1>4, <1>5 DEF StackAlloc

LEMMA NewVectorStep ==
  ASSUME IInv, NEW obj \in Objects, NEW pending \in Objects, NewVector(obj, pending)
  PROVE  Abstract!NewVector(obj, pending) \/ Abstract!Stop
  <1> DEFINE k == Top.stackOfs - 1
             b == CurEvalStack(Top) - 1
             mem == Write(memory, b, obj)
             below == WithEval(Append(FirstWords(1), obj))
  <1>1. /\ Running /\ Top.method \in Allocating /\ Top.stackOfs > 0
        /\ RunFinalizer(mem, frames, ofs, pending)
    BY DEF NewVector
  <1>2. obj \in Values /\ pending \in Values
    BY CodeAssumption
  <1>3. /\ k \in Nat /\ k <= Top.stackOfs /\ k < MaxStack[Top.method]
        /\ Top.stackOfs - k = 1 /\ k + 1 = Top.stackOfs /\ b = EvalStack(Top) + k
    BY <1>1, CurrentSizes
  <1>4. /\ frames \in Seq(State) /\ Depth \in 1 .. Len(frames) /\ Adjoins(frames, ofs)
        /\ Current.method = Top.method /\ Len(Current.eval) = Top.stackOfs
        /\ ofs \in Nat /\ ofs <= ChunkSize
    BY <1>1, CurrentFacts, TopFacts DEF Adjoins
  <1>5. StackOfs(Top.stackOfs) = frames
    <2>1. [Top EXCEPT !.stackOfs = Top.stackOfs] = Top
      <3>1. Top \in State
        BY <1>1, CurrentSizes
      <3> QED
        BY <3>1 DEF State
    <2>2. [frames EXCEPT ![Depth] = Top] = frames
      BY <1>4 DEF Top
    <2>3. StackOfs(Top.stackOfs) = [frames EXCEPT ![Depth] = [Top EXCEPT !.stackOfs = Top.stackOfs]]
      BY DEF StackOfs, Top
    <2> QED
      BY <2>1, <2>2, <2>3
  <1>6. IsMemory(mem) /\ Seen(mem, frames) = below
    <2> HIDE DEF k
    <2>1. /\ IsMemory(Write(memory, EvalStack(Top) + k, obj))
          /\ Seen(Write(memory, EvalStack(Top) + k, obj), StackOfs(k + 1))
               = WithEval(Append(FirstWords(Top.stackOfs - k), obj))
      BY <1>1, <1>2, <1>3, WordPushed
    <2> QED
      BY <1>3, <1>5, <2>1
  <1>7. Current.eval # <<>>
    BY <1>1, <1>4
  <1> HIDE DEF mem, below
  <1>8. ASSUME EntersWithFinalizer(below, <<>>, pending, Invocations'), status' = status
        PROVE  Abstract!NewVector(obj, pending)
    BY <1>1, <1>4, <1>7, <1>8, UnfoldedNewVector DEF below
  <1>9. CASE memory' = mem /\ frames' = frames /\ ofs' = ofs /\ UNCHANGED status
    <2>1. Invocations' = below
      BY <1>6, <1>9, AfterStep
    <2>2. below \in Seq(Invoked)
      BY <1>4, <1>6, SeenType
    <2>3. Entered(Invocations', below, <<>>)
      BY <2>1, <2>2, EnteredNone
    <2> QED
      BY <1>8, <1>9, <2>3 DEF EntersWithFinalizer
  <1>10. ASSUME NEW q \in Finalizers, Crash(End(MethodState(ofs, q)))
         PROVE  Abstract!Stop
    BY <1>1, <1>10, CrashStep
  <1>11. ASSUME NEW q \in Finalizers,
                LET g == MethodState(ofs, q)
                IN /\ StackAlloc(End(g))
                   /\ memory' = Write(mem, Parameters(g), pending)
                   /\ frames' = Append(frames, g)
                   /\ ofs' = End(g)
                   /\ UNCHANGED status
         PROVE  Abstract!NewVector(obj, pending)
    <2> DEFINE g == MethodState(ofs, q)
               mem2 == Write(mem, Parameters(g), pending)
               args == <<pending>>
    <2>1. End(g) <= ChunkSize
      BY <1>11 DEF StackAlloc
    <2>2. Invocations' = Seen(mem2, Append(frames, g)) /\ status' = status
      BY <1>11, AfterStep
    <2>3. /\ q \in Methods /\ IsMemory(mem2)
          /\ \A a \in Nat : a < ofs => mem2[a] = mem[a]
          /\ args = WordsIn(mem2, Parameters(g), Params[q])
      BY <1>2, <1>4, <1>6, <2>1, FinalizerFrame
    <2> HIDE DEF mem2, args
    <2>4. Entered(Seen(mem2, Append(frames, g)), Seen(mem, frames), <<Called(q, args)>>)
      BY <1>4, <1>6, <2>1, <2>3, EntersOne
    <2>5. <<Called(q, args)>> = Append(<<>>, [method |-> q, args |-> <<pending>>])
      BY DEF Called, args
    <2> HIDE DEF g
    <2>6. EntersWithFinalizer(below, <<>>, pending, Invocations')
      BY <1>6, <2>2, <2>4, <2>5 DEF EntersWithFinalizer
    <2> QED
      BY <1>8, <2>2, <2>6
  <1> QED
    BY <1>1, <1>9, <1>10, <1>11 DEF RunFinalizer, mem

-----------------------------------------------------------------------------
(* Returns and exceptions *)

LEMMA LastOfPrefix ==
  ASSUME NEW s \in Seq(Invoked), NEW n \in 1 .. Len(s)
  PROVE  SubSeq(s, 1, n)[n] = s[n]
  <1>1. Len(s) \in Nat /\ \A i \in 1 .. n : s[i] \in Invoked
    BY LenProperties, ElementOfSeq
  <1>2. \A i \in 1 .. n : SubSeq(s, 1, n)[i] = s[1 + i - 1]
    BY <1>1, SubSeqProperties
  <1> QED
    BY <1>1, <1>2

(* The invocations below the current one, and what returns leave there.    *)
LEMMA ReturnStep ==
  ASSUME IInv, Return
  PROVE  Abstract!Return \/ Abstract!Stop
  <1> DEFINE n == Returns[Top.method]
             d == Depth - 1
             caller == frames[d]
             e == EvalStack(caller)
             so == caller.stackOfs
             to == CurEvalStack(caller)
             from == CurEvalStack(Top) - n
             mem == Move(memory, to, from, n)
             k == so + n
  <1>1. Running /\ Top.stackOfs >= n
    BY DEF Return
  <1>2. /\ Adjoins(frames, ofs) /\ ofs \in Nat /\ ofs <= ChunkSize /\ IsMemory(memory)
        /\ Invocations \in Seq(Invoked) /\ Len(Invocations) = Depth
        /\ Depth = Len(frames) /\ Depth \in Nat \ {0}
        /\ \A i \in 1 .. Depth : Invocations[i] = FrameIn(memory, frames[i])
        /\ Current.method = Top.method /\ Len(Current.eval) = Top.stackOfs
        /\ ChunkSize \in Nat /\ Top.method \in Methods /\ Top.stackOfs \in Nat
    BY <1>1, CurrentFacts, CurrentSizes, TopFacts
  <1>3. CASE Depth = 1
    <2>1. status' = "exit" /\ memory' = memory /\ frames' = frames
      BY <1>3 DEF Return
    <2>2. Invocations' = Invocations
      BY <2>1, AfterStep DEF Invocations
    <2> QED
      BY <1>1, <2>1, <2>2, UnfoldedStop
  <1>4. CASE Depth # 1
    <2>1. /\ so + n <= MaxStack[caller.method]
          /\ memory' = mem
          /\ frames' = [SubSeq(frames, 1, d) EXCEPT ![d].stackOfs = @ + n]
          /\ status' = status
      BY <1>4 DEF Return
    <2>2. /\ d \in 1 .. Len(frames) /\ d \in 1 .. Len(Invocations) /\ d \in 1 .. Depth
          /\ n \in Nat /\ Len(Invocations) > 1 /\ Len(Invocations) - 1 = d
      <3>1. n \in Nat
        BY <1>2, SizesAssumption
      <3>2. Depth \in Nat /\ Depth > 1 /\ Len(Invocations) = Depth /\ Len(frames) = Depth
        BY <1>2, <1>4
      <3> HIDE DEF n, caller, e, so, to, from, mem, k
      <3> QED
        BY <3>1, <3>2
    <2>3. /\ caller \in State /\ so <= MaxStack[caller.method]
          /\ End(caller) <= ChunkSize
      <3>1. /\ caller \in State /\ so <= MaxStack[caller.method]
            /\ End(caller) <= ofs /\ End(caller) \in Nat
        BY <1>2, <2>2, AdjoinsInside
      <3> QED
        BY <1>2, <3>1
    <2>4. /\ caller.method \in Methods /\ so \in Nat
          /\ InChunk(e, MaxStack[caller.method]) /\ InChunk(e, so)
          /\ Parameters(caller) = e + MaxStack[caller.method]
          /\ End(caller) = Parameters(caller) + (Params[caller.method] + Locals[caller.method])
          /\ MaxStack[caller.method] \in Nat /\ Params[caller.method] \in Nat
          /\ Locals[caller.method] \in Nat
      BY <2>3, StateInChunk
    <2>5. to = e + so
      BY DEF CurEvalStack
    <2>6. LastWords(n) = WordsIn(memory, from, n) /\ InChunk(from, n)
      BY <1>1, <2>2, CurrentWords
    <2> HIDE DEF to, from, e, so, n, d
    <2>7. /\ to \in Nat /\ from \in Nat /\ to + n <= ChunkSize /\ from + n <= ChunkSize
          /\ e \in Nat /\ to \in Int /\ from \in Int /\ e \in Int
          /\ k \in Nat /\ k <= MaxStack[caller.method]
          /\ to + n <= Parameters(caller) /\ End(caller) \in Nat
          /\ Parameters(caller) \in Nat
      <3>1. e \in Nat /\ from \in Nat /\ from + n <= ChunkSize
        BY <2>4, <2>6 DEF InChunk
      <3>2. e + MaxStack[caller.method] <= ChunkSize
        BY <2>4 DEF InChunk
      <3>3. /\ so + n <= MaxStack[caller.method] /\ so \in Nat /\ n \in Nat
            /\ ChunkSize \in Nat /\ MaxStack[caller.method] \in Nat
            /\ Parameters(caller) = e + MaxStack[caller.method]
        BY <1>2, <2>1, <2>2, <2>4
      <3>4. End(caller) \in Nat
        BY <2>3, EndType
      <3> HIDE DEF caller
      <3> QED
        BY <2>5, <3>1, <3>2, <3>3, <3>4
    <2>8. IsMemory(mem)
      BY <1>2, <2>2, <2>7, MoveType
    <2>9. /\ \A j \in 0 .. n - 1 : mem[to + j] = memory[from + j]
          /\ \A a \in Nat : a < ChunkSize /\ (a < to \/ a >= to + n) => mem[a] = memory[a]
      <3>1. IsMemory(memory) /\ to \in Nat /\ from \in Nat /\ n \in Nat /\ to + n <= ChunkSize
        BY <1>2, <2>2, <2>7
      <3> QED
        BY <3>1, Moved
    <2>10. WordsIn(mem, to, n) = LastWords(n)
      <3>1. IsMemory(memory) /\ to \in Nat /\ from \in Nat /\ n \in Nat /\ to + n <= ChunkSize
        BY <1>2, <2>2, <2>7
      <3>2. WordsIn(mem, to, n) = WordsIn(memory, from, n)
        BY <3>1, WordsMoved
      <3> QED
        BY <2>6, <3>2
    <2> HIDE DEF mem, caller
    <2>11. /\ \A a \in Nat : a < e => mem[a] = memory[a]
           /\ \A a \in Nat : Parameters(caller) <= a /\ a < End(caller) => mem[a] = memory[a]
           /\ \A j \in 0 .. so - 1 : mem[e + j] = memory[e + j]
      <3>1. \A a \in Nat : a < e => a < ChunkSize /\ a < to
        BY <1>2, <2>2, <2>4, <2>5, <2>7
      <3>2. \A a \in Nat : Parameters(caller) <= a /\ a < End(caller)
                             => a < ChunkSize /\ a >= to + n
        BY <1>2, <2>2, <2>3, <2>7
      <3>3. \A j \in 0 .. so - 1 : e + j \in Nat /\ e + j < ChunkSize /\ e + j < to
        BY <1>2, <2>2, <2>4, <2>5, <2>7
      <3> QED
        BY <2>9, <3>1, <3>2, <3>3
    <2>12. WordsIn(mem, e, so) = WordsIn(memory, e, so)
      <3>1. /\ e \in Int /\ so \in Nat
            /\ \A j \in 0 .. so - 1 : mem[e + j] = memory[e + j]
        BY <2>4, <2>7, <2>11
      <3> QED
        BY <3>1, WordsCopied
    <2>13. WordsIn(mem, e, k) = WordsIn(memory, e, so) \o LastWords(n)
      <3>1. InChunk(e, so + n)
        BY <1>2, <2>2, <2>4, <2>5, <2>7 DEF InChunk
      <3>2. so \in Nat /\ n \in Nat
        BY <2>2, <2>4
      <3>3. WordsIn(mem, e, so + n) = WordsIn(mem, e, so) \o WordsIn(mem, e + so, n)
        BY <2>8, <3>1, <3>2, WordsConcat
      <3> QED
        BY <2>5, <2>10, <2>12, <3>3
    <2>14. frames' = Left(frames, d, k)
      <3>1. SubSeq(frames, 1, d)[d] = frames[d]
        BY <1>2, <2>2, AdjoinsPrefix
      <3>2. frames' = [SubSeq(frames, 1, d) EXCEPT ![d].stackOfs = so + n]
        BY <2>1, <3>1 DEF so, caller
      <3> QED
        BY <3>2 DEF Left
    <2> HIDE DEF k
    <2>15. Invocations' = LeftWith(Invocations, d, WordsIn(mem, e, k))
      <3>1. k <= MaxStack[frames[d].method] /\ k \in Nat
        BY <2>7 DEF caller
      <3>2. /\ \A a \in Nat : a < EvalStack(frames[d]) => mem[a] = memory[a]
            /\ \A a \in Nat : Parameters(frames[d]) <= a /\ a < End(frames[d])
                                => mem[a] = memory[a]
        BY <2>11 DEF caller, e
      <3>3. /\ Adjoins(frames, ofs) /\ ofs <= ChunkSize /\ IsMemory(memory)
            /\ IsMemory(mem) /\ d \in 1 .. Len(frames)
        BY <1>2, <2>2, <2>8
      <3>4. Seen(mem, Left(frames, d, k))
              = LeftWith(Seen(memory, frames), d, WordsIn(mem, EvalStack(frames[d]), k))
        BY <3>1, <3>2, <3>3, EvalReplaced
      <3> QED
        BY <2>1, <2>14, <3>4, AfterStep DEF Invocations, e, caller
    <2>16. Invocations[d].eval = WordsIn(memory, e, so)
      BY <1>2, <2>2, <2>3, FrameType DEF e, so, caller
    <2>17. SubSeq(Invocations, 1, d)[d] = Invocations[d]
      BY <1>2, <2>2, LastOfPrefix
    <2>18. Invocations' = [SubSeq(Invocations, 1, d) EXCEPT ![d].eval = @ \o LastWords(n)]
      BY <2>13, <2>15, <2>16, <2>17 DEF LeftWith
    <2> QED
      BY <1>1, <1>2, <2>1, <2>2, <2>18, UnfoldedReturn DEF n
  <1> QED
    BY <1>3, <1>4

LEMMA ThrowStep ==
  ASSUME IInv, NEW n \in 1 .. Depth, Throw(n)
  PROVE  Abstract!Throw(n)
  <1> DEFINE f == frames[n]
             e == EvalStack(f)
             c == CurEvalStack(Top) - 1
             v == memory[c]
             mem == Write(memory, e, v)
  <1>1. /\ Running /\ Top.stackOfs > 0 /\ f.method \in Catching
        /\ memory' = mem /\ frames' = Left(frames, n, 1) /\ status' = status
    BY DEF Throw, Left
  <1>2. /\ Adjoins(frames, ofs) /\ ofs \in Nat /\ ofs <= ChunkSize /\ IsMemory(memory)
        /\ Invocations \in Seq(Invoked) /\ Len(Invocations) = Depth
        /\ Depth = Len(frames) /\ n \in 1 .. Len(frames) /\ n \in 1 .. Len(Invocations)
        /\ \A i \in 1 .. Depth : Invocations[i] = FrameIn(memory, frames[i])
        /\ Len(Current.eval) = Top.stackOfs
        /\ ChunkSize \in Nat /\ Top.stackOfs \in Nat
    BY <1>1, CurrentFacts, CurrentSizes, TopFacts
  <1>3. f \in State /\ f.stackOfs <= MaxStack[f.method] /\ End(f) <= ChunkSize
    <2>1. /\ f \in State /\ f.stackOfs <= MaxStack[f.method]
          /\ End(f) <= ofs /\ End(f) \in Nat
      BY <1>2, AdjoinsInside
    <2> QED
      BY <1>2, <2>1
  <1>4. /\ InChunk(e, MaxStack[f.method]) /\ MaxStack[f.method] \in Nat
        /\ MaxStack[f.method] > 0
        /\ Parameters(f) = e + MaxStack[f.method]
    BY <1>1, <1>3, StateInChunk, CodeAssumption
  <1>5. e \in Nat /\ e < ChunkSize /\ e < Parameters(f)
    BY <1>2, <1>4 DEF InChunk
  <1>6. LastWords(1) = WordsIn(memory, c, 1) /\ InChunk(c, 1)
    <2> DEFINE i == 1
    <2>1. i \in Nat /\ i <= Top.stackOfs
      BY <1>1, <1>2
    <2> HIDE DEF i
    <2>2. LastWords(i) = WordsIn(memory, CurEvalStack(Top) - i, i)
          /\ InChunk(CurEvalStack(Top) - i, i)
      BY <1>1, <2>1, CurrentWords
    <2> QED
      BY <2>2 DEF i
  <1>7. c \in Int /\ v \in Values
    <2>1. c \in 0 .. ChunkSize - 1
      BY <1>2, <1>6 DEF InChunk
    <2> QED
      BY <1>2, <2>1 DEF IsMemory
  <1>8. LastWords(1) = <<v>>
    BY <1>6, <1>7, WordsOne
  <1> HIDE DEF c, v
  <1>9. IsMemory(mem) /\ mem[e] = v /\ \A a : a # e => mem[a] = memory[a]
    BY <1>2, <1>5, <1>7, Written
  <1> HIDE DEF mem
  <1>10. WordsIn(mem, e, 1) = <<v>>
    BY <1>5, <1>9, WordsOne
  <1>11. /\ \A a \in Nat : a < e => mem[a] = memory[a]
         /\ \A a \in Nat : Parameters(f) <= a /\ a < End(f) => mem[a] = memory[a]
    <2>1. Parameters(f) \in Nat
      BY <1>3, EndType
    <2> QED
      BY <1>5, <1>9, <2>1
  <1>12. Invocations' = LeftWith(Invocations, n, <<v>>)
    <2> DEFINE k == 1
    <2>1. k \in Nat /\ k <= MaxStack[frames[n].method]
      BY <1>4
    <2>2. /\ \A a \in Nat : a < EvalStack(frames[n]) => mem[a] = memory[a]
          /\ \A a \in Nat : Parameters(frames[n]) <= a /\ a < End(frames[n])
                              => mem[a] = memory[a]
      BY <1>11
    <2> HIDE DEF k
    <2>3. Seen(mem, Left(frames, n, k))
            = LeftWith(Seen(memory, frames), n, WordsIn(mem, EvalStack(frames[n]), k))
      BY <1>2, <1>9, <2>1, <2>2, EvalReplaced
    <2> QED
      BY <1>1, <1>10, <2>3, AfterStep DEF Invocations, k
  <1>13. Invocations[n].method = f.method
    BY <1>2, <1>3, FrameType
  <1>14. Current.eval # <<>>
    BY <1>1, <1>2
  <1> QED
    BY <1>1, <1>2, <1>8, <1>12, <1>13, <1>14, UnfoldedThrow DEF LeftWith

-----------------------------------------------------------------------------
(* The refinement *)

LEMMA InitStep == Init => Abstract!Init
  <1> SUFFICES ASSUME Init PROVE Abstract!Init
    OBVIOUS
  <1> DEFINE f == MethodState(0, Main)
             x == FrameIn(memory, f)
  <1>1. frames = <<f>> /\ status = "run" /\ IsMemory(memory)
    BY Initially DEF Init, IInv
  <1>2. 0 \in Nat /\ Main \in Methods
    BY SizesAssumption
  <1>3. End(f) <= ChunkSize
    <2>1. End(f) = 0 + FrameSize(Main) /\ FrameSize(Main) \in Nat
      BY <1>2, MethodStateType, FrameSizeType
    <2> QED
      BY <2>1, SizesAssumption
  <1>4. Abstract!IsFrame(x, Main, WordsIn(memory, Parameters(f), Params[Main]))
    BY <1>1, <1>2, <1>3, NewFrame
  <1>5. Invocations = <<x>>
    BY <1>1 DEF Invocations, Seen
  <1> HIDE DEF x, f
  <1>6. /\ Len(Invocations) = 1
        /\ Abstract!IsFrame(Invocations[1], Main,
                            SubSeq(Invocations[1].vars, 1, Params[Main]))
    BY <1>4, <1>5 DEF Abstract!IsFrame
  <1>7. Abstract!Init <=>
          /\ Len(Invocations) = 1
          /\ Abstract!IsFrame(Invocations[1], Main,
                              SubSeq(Invocations[1].vars, 1, Params[Main]))
          /\ status = "run"
    BY DEF Abstract!Init, Invocations, Seen, FrameIn, WordsIn, Frame, Words
  <1> QED
    BY <1>1, <1>6, <1>7

LEMMA UnfoldedNext ==
  Abstract!Next <=>
    \/ Abstract!Return \/ Abstract!Stop
    \/ \E v \in UNION {Literals[m] : m \in Methods} : Abstract!Push(v)
    \/ \E i \in DOMAIN Current.vars : Abstract!Load(i) \/ Abstract!Store(i)
    \/ \E m \in Methods :
         \/ Abstract!Call(m) \/ Abstract!TailCall(m)
         \/ \E obj, pending \in Objects : Abstract!NewObject(m, obj, pending)
    \/ \E obj, pending \in Objects : Abstract!NewVector(obj, pending)
    \/ \E n \in 1 .. Len(Invocations) : Abstract!Throw(n)
  BY DEF Abstract!Next, Abstract!Depth, Abstract!Top,
         Current, Invocations, Seen, FrameIn, WordsIn, Frame, Words

LEMMA NextStep == IInv /\ WithinChunk' /\ [Next]_vars => [Abstract!Next]_(Abstract!vars)
  <1> SUFFICES ASSUME IInv, WithinChunk', [Next]_vars
               PROVE  [Abstract!Next]_(Abstract!vars)
    OBVIOUS
  <1>1. CASE UNCHANGED vars
    BY <1>1 DEF vars, Abstract!vars, Frame, Words
  <1>2. CASE Return
    BY <1>2, ReturnStep, UnfoldedNext
  <1>3. ASSUME NEW v \in Values, Push(v)
        PROVE  Abstract!Next
    <2>1. v \in UNION {Literals[m] : m \in Methods}
      <3>1. Running /\ v \in Literals[Top.method]
        BY <1>3 DEF Push
      <3>2. Top.method \in Methods
        BY <3>1, TopFacts
      <3> QED
        BY <3>1, <3>2
    <2> QED
      BY <1>3, <2>1, PushStep, UnfoldedNext
  <1>4. ASSUME NEW m \in Methods, Call(m)
        PROVE  Abstract!Next
    BY <1>4, CallStep, UnfoldedNext
  <1>5. ASSUME NEW m \in Methods, TailCall(m)
        PROVE  Abstract!Next
    BY <1>5, TailCallStep, UnfoldedNext
  <1>6. ASSUME NEW m \in Methods, NEW obj \in Objects, NEW pending \in Objects,
               NewObject(m, obj, pending)
        PROVE  Abstract!Next
    BY <1>6, NewObjectStep, UnfoldedNext
  <1>7. ASSUME NEW obj \in Objects, NEW pending \in Objects, NewVector(obj, pending)
        PROVE  Abstract!Next
    BY <1>7, NewVectorStep, UnfoldedNext
  <1>8. ASSUME NEW i, LoadParamLocal(i)
        PROVE  Abstract!Next
    BY <1>8, LoadStep, UnfoldedNext
  <1>9. ASSUME NEW i, StoreParamLocal(i)
        PROVE  Abstract!Next
    BY <1>9, StoreStep, UnfoldedNext
  <1>10. ASSUME NEW n \in 1 .. Depth, Throw(n)
         PROVE  Abstract!Next
    <2>1. n \in 1 .. Len(Invocations)
      <3>1. Running
        BY <1>10 DEF Throw
      <3> QED
        BY <3>1, CurrentFacts
    <2> QED
      BY <1>10, <2>1, ThrowStep, UnfoldedNext
  <1> QED
    BY <1>1, <1>2, <1>3, <1>4, <1>5, <1>6, <1>7, <1>8, <1>9, <1>10 DEF Next

(* As long as no method state lies beyond the chunk, the moves of words    *)
(* between method states are what methods see as calls, tail calls,        *)
(* finalizers, returns and exceptions: each invocation keeps its           *)
(* parameters, locals and evaluation stack whatever the others do.         *)
THEOREM Refinement == Spec /\ []WithinChunk => ImplementsCallFrames
  BY InitStep, NextStep, Invariance, PTL DEF Spec, ImplementsCallFrames, Abstract!Spec
=============================================================================
