--------------------------- MODULE SchedulerProofs ---------------------------
(***************************************************************************)
(* Proofs about Scheduler, for any programs, slice and width of the times. *)
(***************************************************************************)
EXTENDS Scheduler, SequenceTheorems, TLAPS

(* The locks of the threads, with what is proved of them. *)
LockProofs == INSTANCE SyncBlockProofs WITH ExitOnlyHeld <- TRUE

Types ==
  /\ prog \in Programs
  /\ pc \in [Threads -> Nat \ {0}]
  /\ pAllThreads \in Seq(Threads)
  /\ state \in [Threads -> {"none", "UNSTARTED", "RUNNING"}]
  /\ background \subseteq Threads
  /\ pAsync \in [Threads -> Call \cup {NULL}]
  /\ vm \in {"execute", "scan", "returned", "crashed"}
  /\ cur \in Threads /\ prev \in Threads /\ pCurrentThread \in Threads
  /\ budget \in 1 .. Slice
  /\ minSleepTime \in 0 .. NoSleepTime
  /\ result \in {"none", "exit", "blocked"}
  /\ \A t \in Threads : pAsync[t] # NULL /\ pAsync[t].op = "lock" => pAsync[t].obj \in Objects

(* The list holds each thread that was created and did not end, once; it   *)
(* holds the threads the scan stands on, and the one that runs is running, *)
(* in its own name.                                                        *)
ListInv ==
  /\ \A i, j \in DOMAIN pAllThreads : pAllThreads[i] = pAllThreads[j] => i = j
  /\ vm # "returned" => InList(cur) /\ InList(prev)
  /\ \A t \in Threads : InList(t) => state[t] # "none"
  /\ \A t \in Threads : state[t] = "UNSTARTED" => InList(t)
  /\ vm = "execute" => state[cur] = "RUNNING" /\ pCurrentThread = cur

Blocked(t) ==
  state[t] = "RUNNING" =>
    /\ pAsync[t] # NULL
    /\ pAsync[t].op = "lock" => ~Locks!CanEnter(sync[pAsync[t].obj], t)

(* The places behind that of prev, round to that of cur. *)
Passed(i) ==
  IF Place(prev) <= Place(cur)
  THEN Place(prev) < i /\ i <= Place(cur)
  ELSE i > Place(prev) \/ i <= Place(cur)

(* The threads the scan passed over since it began are blocked. *)
RoundInv ==
  /\ vm = "scan" => \A i \in DOMAIN pAllThreads : Passed(i) => Blocked(pAllThreads[i])
  /\ result # "none" <=> vm = "returned"
  /\ result = "blocked" => \A i \in DOMAIN pAllThreads : Blocked(pAllThreads[i])

IInv == Types /\ ListInv /\ RoundInv

-----------------------------------------------------------------------------
(* Instructions, calls and places *)

LEMMA InstructionType ==
  ASSUME NEW i \in Instructions
  PROVE  /\ i.op \in {"new", "start", "background"} => i.thread \in Threads
         /\ i.op = "enter" => i.obj \in Objects /\ i.time \in Int /\ i.else \in Nat \ {0}
         /\ i.op = "exit" => i.obj \in Objects
         /\ i.op = "sleep" => i.time \in Int
         /\ i.op = "weak" => i.ref \in WeakRefs /\ i.obj \in Objects \cup {NULL}
         /\ i.op = "loop" => i.to \in Nat \ {0}
  BY DEF Instructions

LEMMA ExecutingType ==
  ASSUME Types, NEW op, Executing(op)
  PROVE  /\ vm = "execute" /\ pc[cur] \in Nat \ {0} /\ pc[cur] <= Len(prog[cur])
         /\ Instr(cur) \in Instructions /\ Instr(cur).op = op
  <1>1. prog \in [Threads -> Seq(Instructions)] /\ cur \in Threads /\ pc[cur] \in Nat \ {0}
    BY ProgramsAssumption DEF Types
  <1>2. prog[cur] \in Seq(Instructions) /\ pc[cur] \in 1 .. Len(prog[cur])
    BY <1>1 DEF Executing
  <1>3. prog[cur][pc[cur]] \in Instructions
    BY <1>2, ElementOfSeq
  <1> QED
    BY <1>1, <1>3 DEF Executing, Instr

LEMMA CallType ==
  ASSUME NEW time \in Int
  PROVE  /\ SleepCall(time) \in Call /\ SleepCall(time) # NULL /\ SleepCall(time).op = "sleep"
  <1>1. 0 \in 0 .. MaxElapsed
    BY SchedulerAssumption
  <1>2. SleepCall(time) \in Call /\ SleepCall(time).op = "sleep"
    BY <1>1 DEF SleepCall, Call
  <1> QED
    BY <1>2, NoCall

LEMMA LockCallType ==
  ASSUME NEW i \in Instructions, i.op = "enter"
  PROVE  LockCall(i) \in Call /\ LockCall(i).obj = i.obj
  <1>1. 0 \in 0 .. MaxElapsed
    BY SchedulerAssumption
  <1>2. i.obj \in Objects /\ i.time \in Int /\ i.else \in Nat \ {0}
    BY InstructionType
  <1> QED
    BY <1>1, <1>2 DEF LockCall, Call

(* After a try the thread is at a place of its program. *)
LEMMA GoOnType ==
  ASSUME Types, NEW t \in Threads, NEW got, NEW else \in Nat \ {0}, GoOn(t, got, else)
  PROVE  pc' \in [Threads -> Nat \ {0}] /\ \A u \in Threads : u # t => pc'[u] = pc[u]
  <1>1. pc[t] + 1 \in Nat \ {0}
    BY DEF Types
  <1>2. PICK n \in Nat \ {0} : pc' = [pc EXCEPT ![t] = n]
    BY <1>1 DEF GoOn
  <1> QED
    BY <1>2 DEF Types

Distinct(l) == \A i, j \in DOMAIN l : l[i] = l[j] => i = j

LEMMA PlaceFacts ==
  ASSUME NEW l \in Seq(Threads), Distinct(l), NEW t, \E i \in DOMAIN l : l[i] = t
  PROVE  LET p == CHOOSE i \in DOMAIN l : l[i] = t IN
         /\ p \in 1 .. Len(l) /\ l[p] = t
         /\ \A i \in 1 .. Len(l) : l[i] = t => i = p
  BY DEF Distinct

LEMMA TimeLeft ==
  ASSUME NEW call \in Call
  PROVE  SleepRemaining(call) \in Int
  <1>1. \A x \in Int : I32(x) \in Int
    <2> SUFFICES ASSUME NEW x \in Int
                 PROVE  I32(x) \in Int
      OBVIOUS
    <2>1. x % TimeMod \in Int
      BY SchedulerAssumption
    <2> QED
      BY <2>1, SchedulerAssumption DEF I32
  <1>2. call.time \in Int /\ call.elapsed \in Int
    BY SchedulerAssumption DEF Call
  <1>3. call.time - I32(call.elapsed) \in Int
    BY <1>1, <1>2
  <1> QED
    BY <1>1, <1>3 DEF SleepRemaining

-----------------------------------------------------------------------------
(* The slice of a thread *)

(* What a step of the running thread does to the loop of Thread_Execute.   *)
GoesOn ==
  /\ vm' \in {"execute", "scan"}
  /\ cur' = cur /\ pCurrentThread' = pCurrentThread
  /\ prev' \in {prev, cur} /\ (vm' = "scan" => prev' = cur)
  /\ budget' \in 1 .. Slice
  /\ minSleepTime' \in 0 .. NoSleepTime
  /\ result' = result

LEMMA SliceGoesOn ==
  ASSUME Types, vm = "execute", Continue \/ EndSlice
  PROVE  GoesOn
  <1>1. NoSleepTime \in 0 .. NoSleepTime
    BY SchedulerAssumption DEF NoSleepTime
  <1>2. CASE EndSlice
    BY <1>1, <1>2 DEF EndSlice, GoesOn, Types
  <1>3. CASE budget > 1 /\ budget' = budget - 1
             /\ UNCHANGED <<vm, cur, prev, pCurrentThread, minSleepTime, result>>
    BY <1>3, SchedulerAssumption DEF GoesOn, Types
  <1> QED
    BY <1>2, <1>3 DEF Continue

(* What a native call that creates no thread leaves to prove. *)
OrdinaryCall ==
  /\ vm = "execute"
  /\ pc[cur] <= Len(prog[cur])
  /\ GoesOn
  /\ UNCHANGED <<prog, pAllThreads, state>>
  /\ background' \subseteq Threads
  /\ pc' \in [Threads -> Nat \ {0}]
  /\ \A t \in Threads : t # cur => pc'[t] = pc[t]
  /\ pAsync' \in [Threads -> Call \cup {NULL}]
  /\ \A t \in Threads : pAsync'[t] # NULL /\ pAsync'[t].op = "lock" => pAsync'[t].obj \in Objects

LEMMA NextInstrType ==
  ASSUME Types, NextInstr
  PROVE  pc' \in [Threads -> Nat \ {0}] /\ \A t \in Threads : t # cur => pc'[t] = pc[t]
  BY DEF Types, NextInstr

LEMMA BlockType ==
  ASSUME Types, vm = "execute",
         NEW call \in Call, call.op = "lock" => call.obj \in Objects, Block(call)
  PROVE  /\ GoesOn
         /\ pAsync' \in [Threads -> Call \cup {NULL}]
         /\ \A t \in Threads :
              pAsync'[t] # NULL /\ pAsync'[t].op = "lock" => pAsync'[t].obj \in Objects
  <1>1. GoesOn
    BY SliceGoesOn DEF Block
  <1> QED
    BY <1>1 DEF Block, Types

LEMMA CallsAreOrdinary ==
  ASSUME Types, SetBackground \/ Loop \/ Sleep \/ TryEnter \/ Exit \/ SetWeakTarget
  PROVE  OrdinaryCall
  <1>1. CASE SetBackground
    <2>1. Executing("background") /\ Continue /\ NextInstr
      BY <1>1 DEF SetBackground
    <2>2. vm = "execute" /\ pc[cur] <= Len(prog[cur]) /\ Instr(cur).thread \in Threads
      BY <2>1, ExecutingType, InstructionType
    <2> QED
      BY <1>1, <2>1, <2>2, SliceGoesOn, NextInstrType DEF SetBackground, OrdinaryCall, Types
  <1>2. CASE Loop
    <2>1. Executing("loop") /\ Continue
      BY <1>2 DEF Loop
    <2>2. vm = "execute" /\ pc[cur] <= Len(prog[cur]) /\ Instr(cur).to \in Nat \ {0}
      BY <2>1, ExecutingType, InstructionType
    <2> QED
      BY <1>2, <2>1, <2>2, SliceGoesOn DEF Loop, OrdinaryCall, Types, threads
  <1>3. CASE Sleep
    <2>1. Executing("sleep") /\ Block(SleepCall(Instr(cur).time)) /\ NextInstr
          /\ UNCHANGED threads
      BY <1>3 DEF Sleep
    <2>2. vm = "execute" /\ pc[cur] <= Len(prog[cur]) /\ Instr(cur).time \in Int
      BY <2>1, ExecutingType, InstructionType
    <2>3. SleepCall(Instr(cur).time) \in Call /\ SleepCall(Instr(cur).time).op # "lock"
      BY <2>2, CallType
    <2> QED
      BY <2>1, <2>2, <2>3, BlockType, NextInstrType DEF OrdinaryCall, Types, threads
  <1>4. CASE TryEnter
    <2> DEFINE call == LockCall(Instr(cur))
               else == Instr(cur).else
               got == Locks!CanEnter(sync[Instr(cur).obj], pCurrentThread)
    <2>1. Executing("enter") /\ UNCHANGED threads
      BY <1>4 DEF TryEnter
    <2>2. vm = "execute" /\ pc[cur] <= Len(prog[cur]) /\ else \in Nat \ {0} /\ cur \in Threads
          /\ call \in Call /\ call.obj \in Objects
      BY <2>1, ExecutingType, InstructionType, LockCallType DEF Types
    <2>3. \/ Continue /\ GoOn(cur, got, else) /\ UNCHANGED pAsync
          \/ Block(call) /\ UNCHANGED pc
      BY <1>4 DEF TryEnter
    <2> HIDE DEF call, else, got
    <2>4. pc' \in [Threads -> Nat \ {0}] /\ \A t \in Threads : t # cur => pc'[t] = pc[t]
      BY <2>2, <2>3, GoOnType DEF Types
    <2>5. /\ GoesOn
          /\ pAsync' \in [Threads -> Call \cup {NULL}]
          /\ \A t \in Threads :
               pAsync'[t] # NULL /\ pAsync'[t].op = "lock" => pAsync'[t].obj \in Objects
      BY <2>2, <2>3, SliceGoesOn, BlockType DEF Types
    <2> QED
      BY <2>1, <2>2, <2>4, <2>5 DEF OrdinaryCall, Types, threads
  <1>5. CASE Exit
    <2>1. Executing("exit") /\ NextInstr /\ UNCHANGED <<threads, pAsync>> /\ EndSlice
      BY <1>5 DEF Exit
    <2>2. vm = "execute" /\ pc[cur] <= Len(prog[cur])
      BY <2>1, ExecutingType
    <2> QED
      BY <2>1, <2>2, SliceGoesOn, NextInstrType DEF OrdinaryCall, Types, threads
  <1>6. CASE SetWeakTarget
    <2>1. Executing("weak") /\ NextInstr /\ UNCHANGED <<threads, pAsync>> /\ Continue
      BY <1>6 DEF SetWeakTarget
    <2>2. vm = "execute" /\ pc[cur] <= Len(prog[cur])
      BY <2>1, ExecutingType
    <2> QED
      BY <2>1, <2>2, SliceGoesOn, NextInstrType DEF OrdinaryCall, Types, threads
  <1> QED
    BY <1>1, <1>2, <1>3, <1>4, <1>5, <1>6

-----------------------------------------------------------------------------
(* The list of threads *)

LEMMA FirstFacts ==
  ASSUME NEW l \in Seq(Threads), Distinct(l), NEW u \in Threads, \A i \in DOMAIN l : l[i] # u
  PROVE  LET m == <<u>> \o l IN
         /\ m \in Seq(Threads) /\ Distinct(m)
         /\ \A t : (\E i \in DOMAIN m : m[i] = t) <=> t = u \/ \E i \in DOMAIN l : l[i] = t
  <1> DEFINE m == <<u>> \o l
             n == Len(l)
  <1>1. n \in Nat /\ DOMAIN l = 1 .. n
    BY LenProperties
  <1>2. <<u>> \in Seq(Threads) /\ Len(<<u>>) = 1 /\ <<u>>[1] = u
    OBVIOUS
  <1>3. /\ m \in Seq(Threads) /\ Len(m) = 1 + n
        /\ \A i \in 1 .. 1 + n : m[i] = IF i <= 1 THEN <<u>>[i] ELSE l[i - 1]
    BY <1>2, ConcatProperties
  <1>4. DOMAIN m = 1 .. 1 + n
    BY <1>3, LenProperties
  <1> HIDE DEF m, n
  <1>5. m[1] = u /\ 1 \in 1 .. 1 + n
    BY <1>1, <1>2, <1>3
  <1>6. ASSUME NEW i \in 1 .. 1 + n, i # 1
        PROVE  i - 1 \in 1 .. n /\ m[i] = l[i - 1]
    <2>1. i - 1 \in 1 .. n /\ ~(i <= 1)
      BY <1>1, <1>6
    <2> QED
      BY <1>3, <2>1
  <1>7. ASSUME NEW i \in 1 .. n
        PROVE  i + 1 \in 1 .. 1 + n /\ m[i + 1] = l[i]
    <2>1. i + 1 \in 1 .. 1 + n /\ ~(i + 1 <= 1) /\ (i + 1) - 1 = i
      BY <1>1
    <2> QED
      BY <1>3, <2>1
  <1>8. Distinct(m)
    <2> SUFFICES ASSUME NEW i \in 1 .. 1 + n, NEW j \in 1 .. 1 + n, m[i] = m[j]
                 PROVE  i = j
      BY <1>4 DEF Distinct
    <2>1. CASE i = 1 \/ j = 1
      BY <1>1, <1>5, <1>6, <2>1
    <2>2. CASE i # 1 /\ j # 1
      <3>1. i - 1 = j - 1
        BY <1>1, <1>6, <2>2 DEF Distinct
      <3> QED
        BY <1>1, <3>1
    <2> QED
      BY <2>1, <2>2
  <1>9. ASSUME NEW t
        PROVE  (\E i \in DOMAIN m : m[i] = t) <=> t = u \/ \E i \in DOMAIN l : l[i] = t
    <2>1. ASSUME NEW i \in 1 .. 1 + n, m[i] = t, t # u
          PROVE  \E j \in 1 .. n : l[j] = t
      <3>1. i # 1
        BY <1>5, <2>1
      <3> QED
        BY <1>6, <2>1, <3>1
    <2>2. ASSUME NEW j \in 1 .. n, l[j] = t
          PROVE  \E i \in 1 .. 1 + n : m[i] = t
      BY <1>7, <2>2
    <2> QED
      BY <1>1, <1>4, <1>5, <2>1, <2>2
  <1> QED
    BY <1>3, <1>8, <1>9 DEF m

LEMMA WithoutFacts ==
  ASSUME NEW l \in Seq(Threads), Distinct(l), NEW p \in 1 .. Len(l)
  PROVE  LET m == SubSeq(l, 1, p - 1) \o SubSeq(l, p + 1, Len(l)) IN
         /\ m \in Seq(Threads) /\ Distinct(m)
         /\ \A t : (\E i \in DOMAIN m : m[i] = t) <=> t # l[p] /\ \E i \in DOMAIN l : l[i] = t
  <1> DEFINE n == Len(l)
             a == SubSeq(l, 1, p - 1)
             b == SubSeq(l, p + 1, n)
             m == a \o b
  <1>1. n \in Nat /\ DOMAIN l = 1 .. n /\ p \in 1 .. n
    BY LenProperties
  <1>2. a \in Seq(Threads) /\ Len(a) = p - 1 /\ \A i \in 1 .. p - 1 : a[i] = l[i]
    BY <1>1
  <1>3. b \in Seq(Threads) /\ Len(b) = n - p /\ \A i \in 1 .. n - p : b[i] = l[p + i]
    <2>1. \A i \in p + 1 .. n : l[i] \in Threads
      BY <1>1
    <2>2. p + 1 \in Int /\ n \in Int
      BY <1>1
    <2>3. /\ b \in Seq(Threads)
          /\ Len(b) = IF p + 1 <= n THEN n - (p + 1) + 1 ELSE 0
          /\ \A i \in 1 .. n - (p + 1) + 1 : b[i] = l[(p + 1) + i - 1]
      <3> HIDE DEF n
      <3> QED
        BY <2>1, <2>2, SubSeqProperties
    <2> HIDE DEF b, n
    <2>4. Len(b) = n - p
      BY <1>1, <2>3
    <2>5. ASSUME NEW i \in 1 .. n - p
          PROVE  b[i] = l[p + i]
      <3>1. i \in 1 .. n - (p + 1) + 1 /\ (p + 1) + i - 1 = p + i
        BY <1>1
      <3> QED
        BY <2>3, <3>1
    <2> QED
      BY <2>3, <2>4, <2>5
  <1> HIDE DEF a, b, n
  <1>9. /\ m \in Seq(Threads) /\ Len(m) = Len(a) + Len(b)
        /\ \A i \in 1 .. Len(a) + Len(b) : m[i] = IF i <= Len(a) THEN a[i] ELSE b[i - Len(a)]
    BY <1>2, <1>3, ConcatProperties
  <1> HIDE DEF m
  <1>4. /\ m \in Seq(Threads) /\ Len(m) = (p - 1) + (n - p)
        /\ \A i \in 1 .. (p - 1) + (n - p) : m[i] = IF i <= p - 1 THEN a[i] ELSE b[i - (p - 1)]
    BY <1>2, <1>3, <1>9
  <1>5. DOMAIN m = 1 .. n - 1
    <2>1. (p - 1) + (n - p) = n - 1
      BY <1>1
    <2> QED
      BY <1>4, <2>1, LenProperties
  <1>6. ASSUME NEW i \in 1 .. n - 1
        PROVE  /\ i < p => i \in 1 .. n /\ m[i] = l[i]
               /\ i >= p => i + 1 \in 1 .. n /\ m[i] = l[i + 1]
    <2>1. i \in 1 .. (p - 1) + (n - p)
      BY <1>1
    <2>2. CASE i < p
      <3>1. i <= p - 1 /\ i \in 1 .. p - 1 /\ i \in 1 .. n /\ ~(i >= p)
        BY <1>1, <2>2
      <3> QED
        BY <1>2, <1>4, <2>1, <3>1
    <2>3. CASE i >= p
      <3>1. /\ ~(i <= p - 1) /\ i - (p - 1) \in 1 .. n - p /\ i + 1 \in 1 .. n /\ ~(i < p)
            /\ p + (i - (p - 1)) = i + 1
        BY <1>1, <2>3
      <3>2. m[i] = b[i - (p - 1)]
        BY <1>4, <2>1, <3>1
      <3>3. b[i - (p - 1)] = l[p + (i - (p - 1))]
        BY <1>3, <3>1
      <3> QED
        BY <3>1, <3>2, <3>3
    <2> QED
      BY <1>1, <2>2, <2>3
  <1>7. Distinct(m)
    <2> SUFFICES ASSUME NEW i \in 1 .. n - 1, NEW j \in 1 .. n - 1, m[i] = m[j]
                 PROVE  i = j
      BY <1>5 DEF Distinct
    <2> DEFINE x == IF i < p THEN i ELSE i + 1
               y == IF j < p THEN j ELSE j + 1
    <2>1. x \in 1 .. n /\ y \in 1 .. n /\ m[i] = l[x] /\ m[j] = l[y]
      BY <1>1, <1>6
    <2>2. x = y
      BY <1>1, <2>1 DEF Distinct
    <2> QED
      BY <1>1, <2>2
  <1>8. ASSUME NEW t
        PROVE  (\E i \in DOMAIN m : m[i] = t) <=> t # l[p] /\ \E i \in DOMAIN l : l[i] = t
    <2>1. ASSUME NEW i \in 1 .. n - 1, m[i] = t
          PROVE  t # l[p] /\ \E j \in 1 .. n : l[j] = t
      <3> DEFINE x == IF i < p THEN i ELSE i + 1
      <3>1. x \in 1 .. n /\ m[i] = l[x] /\ x # p
        BY <1>1, <1>6
      <3>2. l[x] # l[p]
        BY <1>1, <3>1 DEF Distinct
      <3> QED
        BY <2>1, <3>1, <3>2
    <2>2. ASSUME NEW j \in 1 .. n, l[j] = t, t # l[p]
          PROVE  \E i \in 1 .. n - 1 : m[i] = t
      <3> DEFINE x == IF j < p THEN j ELSE j - 1
      <3>1. x \in 1 .. n - 1 /\ (j < p => x < p /\ x = j) /\ (~(j < p) => x >= p /\ x + 1 = j)
        BY <1>1, <2>2
      <3>2. m[x] = l[j]
        BY <1>1, <1>6, <3>1
      <3> HIDE DEF x
      <3> QED
        BY <2>2, <3>1, <3>2
    <2> QED
      BY <1>1, <1>5, <2>1, <2>2
  <1> QED
    BY <1>4, <1>7, <1>8 DEF m, a, b, n

-----------------------------------------------------------------------------
(* The steps of the running thread *)

(* A scan that has just begun has passed over nobody. *)
LEMMA NewRound ==
  ASSUME NEW l \in Seq(Threads), pAllThreads' = l, Distinct(l),
         cur' = prev', \E i \in DOMAIN l : l[i] = cur'
  PROVE  \A i \in DOMAIN l : ~(Passed(i)')
  <1>1. Place(cur)' \in 1 .. Len(l) /\ Place(prev)' = Place(cur)'
    BY PlaceFacts DEF Place
  <1>2. DOMAIN l = 1 .. Len(l) /\ Len(l) \in Nat
    BY LenProperties
  <1> QED
    BY <1>1, <1>2 DEF Passed

LEMMA OrdinaryKeeps ==
  ASSUME IInv, OrdinaryCall
  PROVE  IInv'
  <1>1. Types'
    BY DEF IInv, Types, OrdinaryCall, GoesOn
  <1>2. ListInv'
    BY DEF IInv, Types, ListInv, InList, OrdinaryCall, GoesOn
  <1>3. RoundInv'
    <2>1. vm' = "scan" => \A i \in DOMAIN pAllThreads : ~(Passed(i)')
      BY NewRound DEF IInv, Types, ListInv, InList, Distinct, OrdinaryCall, GoesOn
    <2>2. vm' # "returned" /\ result' = "none"
      BY DEF IInv, RoundInv, OrdinaryCall, GoesOn
    <2> QED
      BY <2>1, <2>2 DEF RoundInv, OrdinaryCall
  <1> QED
    BY <1>1, <1>2, <1>3 DEF IInv

LEMMA NewThreadKeeps ==
  ASSUME IInv, NewThread
  PROVE  /\ IInv'
         /\ \A t \in Threads : InList(t) => InList(t)'
         /\ \A t \in Threads : state'[t] # state[t] => InList(t)'
  <1> DEFINE u == Instr(cur).thread
             m == <<u>> \o pAllThreads
  <1>1. Types /\ ListInv /\ RoundInv
    BY DEF IInv
  <1>2. vm = "execute" /\ u \in Threads
    BY <1>1, ExecutingType, InstructionType DEF NewThread
  <1>3. /\ state[u] = "none" /\ pAllThreads' = m /\ state' = [state EXCEPT ![u] = "UNSTARTED"]
        /\ NextInstr /\ Continue /\ UNCHANGED <<prog, background, pAsync>>
    BY DEF NewThread
  <1>4. GoesOn /\ pc' \in [Threads -> Nat \ {0}]
    BY <1>1, <1>2, <1>3, SliceGoesOn, NextInstrType
  <1>5. pAllThreads \in Seq(Threads) /\ Distinct(pAllThreads)
        /\ \A i \in DOMAIN pAllThreads : pAllThreads[i] # u
    BY <1>1, <1>2, <1>3 DEF Types, ListInv, Distinct, InList
  <1>6. /\ m \in Seq(Threads) /\ Distinct(m)
        /\ \A t : (\E i \in DOMAIN m : m[i] = t)
                  <=> t = u \/ \E i \in DOMAIN pAllThreads : pAllThreads[i] = t
    BY <1>2, <1>5, FirstFacts
  <1> HIDE DEF u, m
  <1>7. \A t : InList(t)' <=> t = u \/ InList(t)
    BY <1>3, <1>6 DEF InList
  <1>8. Types'
    BY <1>1, <1>2, <1>3, <1>4, <1>6 DEF Types, GoesOn
  <1>9. state'[u] = "UNSTARTED" /\ \A t \in Threads : t # u => state'[t] = state[t]
    BY <1>1, <1>2, <1>3 DEF Types
  <1>10. ListInv'
    <2>1. Distinct(pAllThreads')
      BY <1>3, <1>6
    <2>2. InList(cur)' /\ InList(prev)'
      BY <1>1, <1>2, <1>4, <1>7 DEF ListInv, GoesOn, Types
    <2>3. /\ cur # u /\ cur' = cur /\ state[cur] = "RUNNING" /\ cur \in Threads
          /\ pCurrentThread' = cur
      BY <1>1, <1>2, <1>3, <1>4 DEF ListInv, GoesOn, Types
    <2>4. \A t \in Threads : InList(t)' => state'[t] # "none"
      BY <1>1, <1>7, <1>9 DEF ListInv
    <2>5. \A t \in Threads : state'[t] = "UNSTARTED" => InList(t)'
      BY <1>1, <1>7, <1>9 DEF ListInv
    <2> QED
      BY <1>9, <2>1, <2>2, <2>3, <2>4, <2>5 DEF ListInv, Distinct
  <1>11. RoundInv'
    <2>1. vm' = "scan" => \A i \in DOMAIN m : ~(Passed(i)')
      <3>1. InList(cur)'
        BY <1>1, <1>2, <1>4, <1>7 DEF ListInv, GoesOn, Types
      <3> QED
        BY <1>3, <1>4, <1>6, <3>1, NewRound DEF InList, GoesOn
    <2>2. vm' # "returned" /\ result' = "none"
      BY <1>1, <1>2, <1>4 DEF RoundInv, GoesOn
    <2> QED
      BY <1>3, <2>1, <2>2 DEF RoundInv
  <1> QED
    BY <1>7, <1>8, <1>9, <1>10, <1>11 DEF IInv

LEMMA StartKeeps ==
  ASSUME IInv, Start
  PROVE  IInv'
  <1> DEFINE u == Instr(cur).thread
  <1>1. Types /\ ListInv /\ RoundInv
    BY DEF IInv
  <1>2. vm = "execute" /\ u \in Threads /\ cur \in Threads
    BY <1>1, ExecutingType, InstructionType DEF Start, Types
  <1>3. /\ state' = [state EXCEPT ![u] = "RUNNING"]
        /\ pc' = [pc EXCEPT ![cur] = @ + 1, ![u] = 1]
        /\ Continue /\ UNCHANGED <<prog, pAllThreads, background, pAsync>>
    BY DEF Start
  <1>4. GoesOn
    BY <1>1, <1>2, <1>3, SliceGoesOn
  <1> HIDE DEF u
  <1>5. pc' \in [Threads -> Nat \ {0}]
    BY <1>1, <1>2, <1>3 DEF Types
  <1>6. /\ state' \in [Threads -> {"none", "UNSTARTED", "RUNNING"}]
        /\ state'[u] = "RUNNING" /\ \A t \in Threads : t # u => state'[t] = state[t]
    BY <1>1, <1>2, <1>3 DEF Types
  <1>7. Types'
    BY <1>1, <1>3, <1>4, <1>5, <1>6 DEF Types, GoesOn
  <1>8. ListInv'
    <2>1. \A t : InList(t)' <=> InList(t)
      BY <1>3 DEF InList
    <2>2. InList(cur)' /\ InList(prev)' /\ cur' = cur /\ state'[cur] = "RUNNING"
          /\ pCurrentThread' = cur
      BY <1>1, <1>2, <1>4, <1>6, <2>1 DEF ListInv, GoesOn
    <2>3. \A i, j \in DOMAIN pAllThreads' : pAllThreads'[i] = pAllThreads'[j] => i = j
      BY <1>1, <1>3 DEF ListInv
    <2> QED
      BY <1>1, <1>6, <2>1, <2>2, <2>3 DEF ListInv
  <1>9. RoundInv'
    <2>1. vm' = "scan" => \A i \in DOMAIN pAllThreads : ~(Passed(i)')
      BY <1>1, <1>2, <1>3, <1>4, NewRound DEF ListInv, Types, InList, Distinct, GoesOn
    <2>2. vm' # "returned" /\ result' = "none"
      BY <1>1, <1>2, <1>4 DEF RoundInv, GoesOn
    <2> QED
      BY <1>3, <2>1, <2>2 DEF RoundInv
  <1> QED
    BY <1>7, <1>8, <1>9 DEF IInv

LEMMA EndThreadKeeps ==
  ASSUME IInv, EndThread
  PROVE  /\ IInv'
         /\ \A t \in Threads : InList(t)' <=> t # cur /\ InList(t)
  <1> DEFINE p == Place(cur)
             m == RemoveThread(cur)
  <1>1. Types /\ ListInv /\ RoundInv
    BY DEF IInv
  <1>2. /\ vm = "execute" /\ pAllThreads' = m
        /\ UNCHANGED <<prog, state, background, pc, pAsync, pCurrentThread, budget>>
        /\ cur \in Threads /\ state[cur] = "RUNNING"
    BY <1>1 DEF EndThread, ListInv, Types
  <1>3. /\ pAllThreads \in Seq(Threads) /\ Distinct(pAllThreads)
        /\ \E i \in DOMAIN pAllThreads : pAllThreads[i] = cur
    BY <1>1, <1>2 DEF Types, ListInv, Distinct, InList
  <1>4. p \in 1 .. Len(pAllThreads) /\ pAllThreads[p] = cur
    BY <1>3, PlaceFacts DEF Place
  <1>5. m = SubSeq(pAllThreads, 1, p - 1) \o SubSeq(pAllThreads, p + 1, Len(pAllThreads))
    BY DEF RemoveThread
  <1> HIDE DEF p
  <1>6. /\ m \in Seq(Threads) /\ Distinct(m)
        /\ \A t : (\E i \in DOMAIN m : m[i] = t)
                  <=> t # cur /\ \E i \in DOMAIN pAllThreads : pAllThreads[i] = t
    <2> DEFINE w == SubSeq(pAllThreads, 1, p - 1) \o SubSeq(pAllThreads, p + 1, Len(pAllThreads))
    <2>1. /\ w \in Seq(Threads) /\ Distinct(w)
          /\ \A t : (\E i \in DOMAIN w : w[i] = t)
                    <=> t # pAllThreads[p] /\ \E i \in DOMAIN pAllThreads : pAllThreads[i] = t
      <3> HIDE DEF m
      <3> QED
        BY <1>3, <1>4, WithoutFacts
    <2>2. m = w
      BY <1>5
    <2> HIDE DEF m, w
    <2> QED
      BY <1>4, <2>1, <2>2
  <1> HIDE DEF m
  <1>7. \A t : InList(t)' <=> t # cur /\ InList(t)
    BY <1>2, <1>6 DEF InList
  <1>8. CASE CanExit(m)
    <2>1. vm' = "returned" /\ result' = "exit" /\ UNCHANGED <<cur, prev, minSleepTime>>
      BY <1>2, <1>8 DEF EndThread
    <2>2. Types'
      BY <1>1, <1>2, <1>6, <2>1 DEF Types
    <2>3. ListInv'
      BY <1>1, <1>2, <1>6, <1>7, <2>1 DEF ListInv, Distinct
    <2>4. RoundInv'
      BY <2>1 DEF RoundInv
    <2> QED
      BY <1>7, <2>2, <2>3, <2>4 DEF IInv
  <1>9. CASE ~CanExit(m)
    <2>1. /\ vm' = "scan" /\ cur' = Head(m) /\ prev' = Head(m)
          /\ minSleepTime' = NoSleepTime /\ result' = result
      BY <1>2, <1>9 DEF EndThread
    <2>2. 1 \in DOMAIN m /\ Head(m) = m[1] /\ Head(m) \in Threads
      <3>1. m # <<>>
        BY <1>9 DEF CanExit
      <3>2. Len(m) \in Nat /\ Len(m) # 0
        BY <1>6, <3>1, EmptySeq, LenProperties
      <3>3. 1 \in DOMAIN m
        BY <1>6, <3>2, LenProperties
      <3> QED
        BY <1>6, <3>1, <3>3, ElementOfSeq, LenProperties
    <2>3. NoSleepTime \in 0 .. NoSleepTime
      BY SchedulerAssumption DEF NoSleepTime
    <2>4. Types'
      BY <1>1, <1>2, <1>6, <2>1, <2>2, <2>3 DEF Types
    <2>5. InList(cur)' /\ InList(prev)'
      BY <1>2, <2>1, <2>2 DEF InList
    <2>6. ListInv'
      BY <1>1, <1>2, <1>6, <1>7, <2>1, <2>5 DEF ListInv, Distinct
    <2>7. RoundInv'
      <3>1. \A i \in DOMAIN m : ~(Passed(i)')
        BY <1>2, <1>6, <2>1, <2>5, NewRound DEF InList
      <3>2. result' = "none"
        BY <1>1, <1>2, <2>1 DEF RoundInv
      <3> QED
        BY <1>2, <2>1, <3>1, <3>2 DEF RoundInv
    <2> QED
      BY <1>7, <2>4, <2>6, <2>7 DEF IInv
  <1> QED
    BY <1>8, <1>9

-----------------------------------------------------------------------------
(* The scan *)

(* What a step of the scan does: thread t gets a slice, or is passed over, *)
(* or it was the last thread of the round and Thread_Execute returns, or   *)
(* crashes.                                                                *)
ScanStep(t) ==
  /\ vm = "scan" /\ t = After(cur) /\ cur' = t /\ pCurrentThread' = t /\ prev' = prev
  /\ UNCHANGED threads
  /\ pc' \in [Threads -> Nat \ {0}] /\ \A u \in Threads : u # t => pc'[u] = pc[u]
  /\ budget' \in 1 .. Slice
  /\ minSleepTime' \in 0 .. NoSleepTime
  /\ pAsync' \in [Threads -> Call \cup {NULL}]
  /\ \A u \in Threads : pAsync'[u] # NULL /\ pAsync'[u].op = "lock" => pAsync'[u].obj \in Objects
  /\ \/ vm' = "execute" /\ state[t] = "RUNNING" /\ result' = result
     \/ vm' = "crashed" /\ result' = result
     \/ /\ vm' = "scan" /\ (t = prev => state[t] # "RUNNING") /\ result' = result
        /\ Blocked(t) /\ UNCHANGED <<pAsync, sync>>
     \/ /\ vm' = "returned" /\ t = prev /\ result' = "blocked"
        /\ Blocked(t) /\ UNCHANGED <<pAsync, sync>>

LEMMA ScanSteps ==
  ASSUME Types, NEW t \in Threads,
         \/ ScanNotRunning(t) \/ ScanReady(t) \/ ScanSleepOver(t) \/ ScanSleeping(t)
         \/ ScanWildCall(t) \/ ScanLockOver(t) \/ ScanLockWait(t)
  PROVE  ScanStep(t)
  <1>1. Slice \in 1 .. Slice /\ 5 \in 0 .. NoSleepTime
    BY SchedulerAssumption DEF NoSleepTime
  <1>2. CASE ScanNotRunning(t)
    BY <1>2 DEF ScanNotRunning, Scanning, MoveTo, ScanStep, Types, Blocked, locks
  <1>3. CASE ScanReady(t)
    BY <1>1, <1>3 DEF ScanReady, Scanning, Switch, MoveTo, BeginSlice, ScanStep, Types
  <1>4. CASE ScanSleepOver(t)
    BY <1>1, <1>4 DEF ScanSleepOver, Scanning, IsBlockedBy, Switch, MoveTo, BeginSlice, ScanStep, Types
  <1>5. CASE ScanSleeping(t)
    <2> DEFINE left == SleepRemaining(pAsync[t])
    <2>1. /\ vm = "scan" /\ t = After(cur) /\ state[t] = "RUNNING"
          /\ pAsync[t] # NULL /\ pAsync[t].op = "sleep" /\ left > 0
          /\ minSleepTime' = IF left < minSleepTime THEN left ELSE minSleepTime
          /\ PassOver(t) /\ UNCHANGED <<locks, threads, pc, pAsync>>
      BY <1>5 DEF ScanSleeping, Scanning, IsBlockedBy
    <2>2. left \in Int
      BY <2>1, TimeLeft DEF Types
    <2> HIDE DEF left
    <2>3. minSleepTime' \in 0 .. NoSleepTime
      BY <2>1, <2>2, SchedulerAssumption DEF Types, NoSleepTime
    <2>4. Blocked(t)
      BY <2>1 DEF Blocked
    <2> QED
      BY <2>1, <2>3, <2>4 DEF PassOver, MoveTo, ScanStep, Types, locks
  <1>6. CASE ScanLockOver(t)
    <2> DEFINE else == pAsync[t].else
               got == Locks!CanEnter(sync[pAsync[t].obj], t)
    <2>1. /\ vm = "scan" /\ t = After(cur) /\ state[t] = "RUNNING" /\ Switch(t)
          /\ pAsync[t] # NULL
          /\ pAsync' = [pAsync EXCEPT ![t] = NULL] /\ UNCHANGED threads
      BY <1>6 DEF ScanLockOver, Scanning, IsBlockedBy
    <2>2. GoOn(t, got, else)
      BY <1>6 DEF ScanLockOver
    <2>3. else \in Nat \ {0}
      BY <2>1 DEF Types, Call
    <2> HIDE DEF else, got
    <2>4. pc' \in [Threads -> Nat \ {0}] /\ \A u \in Threads : u # t => pc'[u] = pc[u]
      BY <2>2, <2>3, GoOnType
    <2> QED
      BY <1>1, <2>1, <2>4 DEF Switch, MoveTo, BeginSlice, ScanStep, Types
  <1>7. CASE ScanLockWait(t)
    <2>1. /\ vm = "scan" /\ t = After(cur) /\ state[t] = "RUNNING"
          /\ pAsync[t] # NULL /\ ~Locks!CanEnter(sync[pAsync[t].obj], t)
          /\ minSleepTime' = 5
          /\ PassOver(t) /\ UNCHANGED <<locks, threads, pc, pAsync>>
      BY <1>7 DEF ScanLockWait, Scanning, IsBlockedBy
    <2>2. Blocked(t)
      BY <2>1 DEF Blocked
    <2> QED
      BY <1>1, <2>1, <2>2 DEF PassOver, MoveTo, ScanStep, Types, locks
  <1>8. CASE ScanWildCall(t)
    BY <1>8 DEF ScanWildCall, Scanning, MoveTo, ScanStep, Types
  <1> QED
    BY <1>2, <1>3, <1>4, <1>5, <1>6, <1>7, <1>8

LEMMA ModNext ==
  ASSUME NEW n \in Nat, NEW i \in 1 .. n
  PROVE  (i % n) + 1 = IF i = n THEN 1 ELSE i + 1
  OBVIOUS

(* The next thread of the list, round from the last to the first. *)
LEMMA AfterFacts ==
  ASSUME Types, ListInv, vm # "returned"
  PROVE  LET n == Len(pAllThreads)
             c == Place(cur)
             p == Place(prev)
             k == IF c = n THEN 1 ELSE c + 1
         IN /\ n \in Nat /\ DOMAIN pAllThreads = 1 .. n
            /\ c \in 1 .. n /\ p \in 1 .. n /\ pAllThreads[p] = prev
            /\ k \in 1 .. n /\ After(cur) = pAllThreads[k]
            /\ \A i \in 1 .. n : pAllThreads[i] = After(cur) => i = k
  <1> DEFINE n == Len(pAllThreads)
             c == Place(cur)
             p == Place(prev)
             k == IF c = n THEN 1 ELSE c + 1
  <1>1. pAllThreads \in Seq(Threads) /\ Distinct(pAllThreads)
    BY DEF Types, ListInv, Distinct
  <1>2. n \in Nat /\ DOMAIN pAllThreads = 1 .. n
    BY <1>1, LenProperties
  <1>3. c \in 1 .. n
    BY <1>1, PlaceFacts DEF Place, ListInv, InList
  <1>4. p \in 1 .. n /\ pAllThreads[p] = prev
    BY <1>1, PlaceFacts DEF Place, ListInv, InList
  <1>5. After(cur) = pAllThreads[(c % n) + 1]
    BY DEF After
  <1> HIDE DEF n, c, p
  <1>6. k \in 1 .. n /\ (c % n) + 1 = k
    <2>1. k \in 1 .. n
      BY <1>2, <1>3
    <2> HIDE DEF k
    <2>2. (c % n) + 1 = IF c = n THEN 1 ELSE c + 1
      BY <1>2, <1>3, ModNext
    <2> QED
      BY <2>1, <2>2 DEF k
  <1>7. \A i \in 1 .. n : pAllThreads[i] = After(cur) => i = k
    BY <1>1, <1>2, <1>5, <1>6 DEF Distinct
  <1> QED
    BY <1>2, <1>3, <1>4, <1>5, <1>6, <1>7 DEF n, c, p

LEMMA ScanKeeps ==
  ASSUME IInv, NEW t \in Threads, ScanStep(t)
  PROVE  IInv'
  <1> DEFINE n == Len(pAllThreads)
             c == Place(cur)
             p == Place(prev)
             k == IF c = n THEN 1 ELSE c + 1
  <1>1. Types /\ ListInv /\ RoundInv
    BY DEF IInv
  <1>2. /\ vm = "scan" /\ t = After(cur) /\ cur' = t /\ pCurrentThread' = t /\ prev' = prev
        /\ UNCHANGED <<prog, pAllThreads, state, background>>
    BY DEF ScanStep, threads
  <1>3. /\ n \in Nat /\ DOMAIN pAllThreads = 1 .. n
        /\ c \in 1 .. n /\ p \in 1 .. n /\ pAllThreads[p] = prev
        /\ k \in 1 .. n /\ pAllThreads[k] = t
        /\ \A i \in 1 .. n : pAllThreads[i] = t => i = k
    BY <1>1, <1>2, AfterFacts
  <1> HIDE DEF n, c, p, k
  <1>4. \A u : InList(u)' <=> InList(u)
    BY <1>2 DEF InList
  <1>5. Types'
    <2>1. vm' \in {"execute", "scan", "returned", "crashed"} /\ result' \in {"none", "exit", "blocked"}
      BY <1>1 DEF ScanStep, Types
    <2> QED
      BY <1>1, <1>2, <2>1 DEF Types, ScanStep
  <1>6. ListInv'
    <2>1. InList(cur)' /\ InList(prev)'
      BY <1>1, <1>2, <1>3, <1>4 DEF ListInv, InList
    <2>2. vm' = "execute" => state'[cur'] = "RUNNING" /\ pCurrentThread' = cur'
      BY <1>2 DEF ScanStep
    <2>3. \A i, j \in DOMAIN pAllThreads' : pAllThreads'[i] = pAllThreads'[j] => i = j
      BY <1>1, <1>2 DEF ListInv
    <2> QED
      BY <1>1, <1>2, <1>4, <2>1, <2>2, <2>3 DEF ListInv
  <1>7. Place(prev)' = p /\ Place(cur)' = k
    <2>1. Place(prev)' = p
      BY <1>2 DEF Place, p
    <2>2. /\ pAllThreads \in Seq(Threads) /\ Distinct(pAllThreads)
          /\ \E i \in DOMAIN pAllThreads : pAllThreads[i] = t
      BY <1>1, <1>3 DEF Types, ListInv, Distinct
    <2>3. Place(cur)' \in 1 .. n /\ pAllThreads[Place(cur)'] = t
      BY <1>2, <2>2, PlaceFacts DEF Place, n
    <2> QED
      BY <1>3, <2>1, <2>3
  <1>8. ASSUME NEW i \in 1 .. n, i # k, k # p, Passed(i)'
        PROVE  Passed(i)
    <2>1. IF p <= k THEN p < i /\ i <= k ELSE i > p \/ i <= k
      BY <1>7, <1>8 DEF Passed
    <2>2. IF p <= c THEN p < i /\ i <= c ELSE i > p \/ i <= c
      BY <1>3, <1>8, <2>1 DEF k
    <2> QED
      BY <2>2 DEF Passed, p, c
  <1>9. ASSUME NEW i \in 1 .. n, k = p
        PROVE  /\ i # k => Passed(i)
               /\ ~(Passed(i)')
    <2>1. i # k => IF p <= c THEN p < i /\ i <= c ELSE i > p \/ i <= c
      BY <1>3, <1>9 DEF k
    <2>2. ~(IF p <= k THEN p < i /\ i <= k ELSE i > p \/ i <= k)
      BY <1>3, <1>9
    <2>3. i # k => Passed(i)
      BY <2>1 DEF Passed, p, c
    <2>4. ~(Passed(i)')
      BY <1>7, <2>2 DEF Passed
    <2> QED
      BY <2>3, <2>4
  <1>10. t = prev <=> k = p
    BY <1>3
  <1>11. \A i \in 1 .. n : Passed(i) => Blocked(pAllThreads[i])
    BY <1>1, <1>2, <1>3 DEF RoundInv
  <1>12. RoundInv'
    <2>1. CASE vm' \in {"execute", "crashed"}
      <3>1. result' = "none"
        BY <1>1, <1>2, <2>1 DEF RoundInv, ScanStep
      <3> QED
        BY <2>1, <3>1 DEF RoundInv
    <2>2. CASE vm' = "scan"
      <3>1. Blocked(t) /\ UNCHANGED <<pAsync, sync, state, pAllThreads>> /\ result' = result
        BY <1>2, <2>2 DEF ScanStep
      <3>2. ASSUME NEW i \in 1 .. n, Passed(i)'
            PROVE  Blocked(pAllThreads[i])
        BY <1>3, <1>8, <1>9, <1>11, <3>1, <3>2
      <3>3. \A i \in 1 .. n : Passed(i)' => Blocked(pAllThreads[i])'
        BY <3>1, <3>2 DEF Blocked, Locks!CanEnter, Locks!EnsureSync, Locks!NewSync
      <3>4. result' = "none"
        BY <1>1, <1>2, <3>1 DEF RoundInv
      <3> QED
        BY <1>3, <2>2, <3>1, <3>3, <3>4 DEF RoundInv
    <2>3. CASE vm' = "returned"
      <3>1. /\ Blocked(t) /\ UNCHANGED <<pAsync, sync, state, pAllThreads>>
            /\ result' = "blocked" /\ k = p
        BY <1>2, <1>10, <2>3 DEF ScanStep
      <3>2. ASSUME NEW i \in 1 .. n
            PROVE  Blocked(pAllThreads[i])
        BY <1>3, <1>9, <1>11, <3>1
      <3>3. \A i \in 1 .. n : Blocked(pAllThreads[i])'
        BY <3>1, <3>2 DEF Blocked, Locks!CanEnter, Locks!EnsureSync, Locks!NewSync
      <3> QED
        BY <1>3, <2>3, <3>1, <3>3 DEF RoundInv
    <2> QED
      BY <2>1, <2>2, <2>3 DEF ScanStep
  <1> QED
    BY <1>5, <1>6, <1>12 DEF IInv

-----------------------------------------------------------------------------
(* The clock *)

LEMMA TickKeeps ==
  ASSUME IInv, Tick
  PROVE  IInv'
  <1>1. Types /\ ListInv /\ RoundInv
    BY DEF IInv
  <1>2. /\ vm # "returned"
        /\ UNCHANGED <<sync, prog, pAllThreads, state, background, pc,
                       vm, cur, prev, pCurrentThread, budget, minSleepTime, result>>
    BY DEF Tick, locks, threads, loop
  <1>3. ASSUME NEW t \in Threads
        PROVE  /\ pAsync'[t] \in Call \cup {NULL}
               /\ pAsync'[t] # NULL <=> pAsync[t] # NULL
               /\ pAsync[t] # NULL =>
                    pAsync'[t].op = pAsync[t].op /\ pAsync'[t].obj = pAsync[t].obj
    <2>1. pAsync[t] \in Call \cup {NULL}
      BY <1>1 DEF Types
    <2>2. pAsync'[t] = IF t \in Ticking THEN [pAsync[t] EXCEPT !.elapsed = @ + 1] ELSE pAsync[t]
      BY DEF Tick
    <2>3. CASE t \in Ticking
      <3> DEFINE c == pAsync[t]
                 d == [c EXCEPT !.elapsed = @ + 1]
      <3>1. c \in Call /\ c # NULL /\ c.elapsed < MaxElapsed
        BY <2>1, <2>3 DEF Ticking
      <3>2. c.elapsed + 1 \in 0 .. MaxElapsed
        BY <3>1, SchedulerAssumption DEF Call
      <3> HIDE DEF c
      <3>3. d \in Call /\ d.op = c.op /\ d.obj = c.obj
        BY <3>1, <3>2 DEF Call
      <3>4. pAsync'[t] = d
        BY <2>2, <2>3 DEF c
      <3> HIDE DEF d
      <3> QED
        BY <3>1, <3>3, <3>4, NoCall DEF c
    <2>4. CASE t \notin Ticking
      BY <2>1, <2>2, <2>4
    <2> QED
      BY <2>3, <2>4
  <1>4. pAsync' \in [Threads -> Call \cup {NULL}]
    <2>1. pAsync' = [t \in Threads |-> pAsync'[t]]
      BY DEF Tick
    <2> QED
      BY <1>3, <2>1
  <1>5. Types'
    BY <1>1, <1>2, <1>3, <1>4 DEF Types
  <1>6. ListInv'
    BY <1>1, <1>2 DEF ListInv, InList
  <1>7. RoundInv'
    <2>1. \A t \in Threads : Blocked(t) => Blocked(t)'
      BY <1>2, <1>3 DEF Blocked, Locks!CanEnter, Locks!EnsureSync, Locks!NewSync
    <2>2. \A i \in DOMAIN pAllThreads : pAllThreads[i] \in Threads
      BY <1>1, ElementOfSeq, LenProperties DEF Types
    <2>3. \A i \in DOMAIN pAllThreads : Blocked(pAllThreads[i]) => Blocked(pAllThreads[i])'
      BY <1>2, <2>1, <2>2 DEF Blocked
    <2>4. \A i \in DOMAIN pAllThreads : Passed(i)' => Passed(i)
      BY <1>2 DEF Passed, Place
    <2> QED
      BY <1>1, <1>2, <2>3, <2>4 DEF RoundInv
  <1> QED
    BY <1>5, <1>6, <1>7 DEF IInv

-----------------------------------------------------------------------------
(* The invariant *)

LEMMA InitIInv == Init => IInv
  <1> SUFFICES ASSUME Init
               PROVE  IInv
    OBVIOUS
  <1>1. pAllThreads = <<Main>> /\ Main \in Threads
    BY SchedulerAssumption DEF Init
  <1>2. pAllThreads \in Seq(Threads) /\ DOMAIN pAllThreads = {1} /\ pAllThreads[1] = Main
    BY <1>1
  <1>3. Slice \in 1 .. Slice /\ NoSleepTime \in 0 .. NoSleepTime
    BY SchedulerAssumption DEF NoSleepTime
  <1>4. Types
    BY <1>1, <1>2, <1>3 DEF Init, Types
  <1>5. ListInv
    BY <1>1, <1>2 DEF Init, ListInv, InList
  <1>6. RoundInv
    BY DEF Init, RoundInv
  <1> QED
    BY <1>4, <1>5, <1>6 DEF IInv

LEMMA NextIInv == IInv /\ [Next]_vars => IInv'
  <1> SUFFICES ASSUME IInv, [Next]_vars
               PROVE  IInv'
    OBVIOUS
  <1>1. CASE NewThread
    BY <1>1, NewThreadKeeps
  <1>2. CASE Start
    BY <1>2, StartKeeps
  <1>3. CASE SetBackground \/ Loop \/ Sleep \/ TryEnter \/ Exit \/ SetWeakTarget
    BY <1>3, CallsAreOrdinary, OrdinaryKeeps DEF IInv
  <1>4. CASE EndThread
    BY <1>4, EndThreadKeeps
  <1>5. CASE Scan
    <2>1. PICK t \in Threads :
            \/ ScanNotRunning(t) \/ ScanReady(t) \/ ScanSleepOver(t) \/ ScanSleeping(t)
            \/ ScanWildCall(t) \/ ScanLockOver(t) \/ ScanLockWait(t)
      BY <1>5 DEF Scan
    <2>2. ScanStep(t)
      BY <2>1, ScanSteps DEF IInv
    <2> QED
      BY <2>2, ScanKeeps
  <1>6. CASE Tick
    BY <1>6, TickKeeps
  <1>7. CASE UNCHANGED vars
    <2>1. Types' /\ ListInv'
      BY <1>7 DEF IInv, Types, ListInv, InList, vars, locks, threads, loop
    <2>2. UNCHANGED <<sync, state, pAsync, pAllThreads, vm, cur, prev, result>>
      BY <1>7 DEF vars, locks, threads, loop
    <2>3. RoundInv'
      BY <2>2 DEF IInv, RoundInv, Passed, Place, Blocked,
                  Locks!CanEnter, Locks!EnsureSync, Locks!NewSync
    <2> QED
      BY <2>1, <2>3 DEF IInv
  <1> QED
    BY <1>1, <1>2, <1>3, <1>4, <1>5, <1>6, <1>7 DEF Next, Execute

(* The inductive invariant holds in every state. *)
THEOREM Invariance == Spec => []IInv
  BY InitIInv, NextIInv, PTL DEF Spec

(* Thread_Execute gives up only when every thread is blocked, although it  *)
(* polled each of them at another time and the list grew and shrank.       *)
THEOREM GivesUpWhenBlocked == Spec => []AllBlockedOnReturn
  <1>1. IInv => AllBlockedOnReturn
    BY DEF IInv, RoundInv, Blocked, AllBlockedOnReturn
  <1> QED
    BY <1>1, Invariance, PTL

-----------------------------------------------------------------------------
(* The blocks of the locks *)

(* A block of the right type that counts no entries unless it has an owner. *)
RightBlock(b) ==
  /\ b \in Locks!Sync \cup {NULL}
  /\ b # NULL /\ b.pThread = NULL => b.count = 0

LEMMA EnsuredBlock ==
  ASSUME NEW b, RightBlock(b)
  PROVE  RightBlock(Locks!EnsureSync(b)) /\ Locks!EnsureSync(b) \in Locks!Sync
  <1>1. Locks!NewSync \in Locks!Sync /\ Locks!NewSync.count = 0
    BY SchedulerAssumption DEF Locks!NewSync, Locks!Sync
  <1> QED
    BY <1>1 DEF RightBlock, Locks!EnsureSync

LEMMA DeletedBlock ==
  ASSUME NEW b, RightBlock(b)
  PROVE  RightBlock(Locks!DeleteSync(b))
  BY DEF RightBlock, Locks!DeleteSync

(* Threads, whoever they are, keep blocks right by entering and leaving,   *)
(* with or without success.                                                *)
LEMMA EnteredBlock ==
  ASSUME NEW b, RightBlock(b), NEW t \in Threads
  PROVE  RightBlock(Locks!EnteredSync(b, t))
  <1> DEFINE s == Locks!EnsureSync(b)
             e == [pThread |-> t, count |-> 1, weakRef |-> s.weakRef]
             n == (s.count + 1) % CountMod
             d == [s EXCEPT !.count = n]
  <1>1. RightBlock(s) /\ s \in Locks!Sync /\ t # NULL
    BY EnsuredBlock, SchedulerAssumption
  <1>2. Locks!EnteredSync(b, t) = IF s.pThread = NULL THEN e ELSE IF s.pThread = t THEN d ELSE s
    BY DEF Locks!EnteredSync
  <1> HIDE DEF s
  <1>3. e \in Locks!Sync /\ e.pThread = t
    BY <1>1, SchedulerAssumption DEF Locks!Sync
  <1>4. s.count \in 0 .. CountMod - 1
    BY <1>1 DEF Locks!Sync
  <1>5. n \in 0 .. CountMod - 1
    BY <1>4, SchedulerAssumption
  <1> HIDE DEF n
  <1>6. d \in Locks!Sync /\ d.pThread = s.pThread
    BY <1>1, <1>5 DEF Locks!Sync
  <1> HIDE DEF e, d
  <1> QED
    BY <1>1, <1>2, <1>3, <1>6 DEF RightBlock

LEMMA ExitedBlock ==
  ASSUME NEW b, RightBlock(b), NEW t \in Threads
  PROVE  RightBlock(Locks!ExitedSync(b, t))
  <1> DEFINE n == (b.count + CountMod - 1) % CountMod
             d == [b EXCEPT !.count = n]
  <1>1. Locks!ExitedSync(b, t) =
          IF ~Locks!ExitSucceeds(b, t) THEN b
          ELSE IF d.count = 0 THEN Locks!DeleteSync(d) ELSE d
    BY DEF Locks!ExitedSync
  <1>2. CASE Locks!ExitSucceeds(b, t)
    <2>1. b \in Locks!Sync /\ b.pThread = t /\ t # NULL
      BY <1>2, SchedulerAssumption DEF Locks!ExitSucceeds, RightBlock
    <2>2. b.count \in 0 .. CountMod - 1
      BY <2>1 DEF Locks!Sync
    <2>3. n \in 0 .. CountMod - 1
      BY <2>2, SchedulerAssumption
    <2> HIDE DEF n
    <2>4. d \in Locks!Sync /\ d.pThread = t
      BY <2>1, <2>3 DEF Locks!Sync
    <2> HIDE DEF d
    <2>5. RightBlock(d)
      BY <2>1, <2>4 DEF RightBlock
    <2> QED
      BY <1>1, <1>2, <2>5, DeletedBlock
  <1>3. CASE ~Locks!ExitSucceeds(b, t)
    BY <1>1, <1>3
  <1> QED
    BY <1>2, <1>3

LEMMA LinkedBlocks ==
  ASSUME NEW b, RightBlock(b), NEW w \in WeakRefs
  PROVE  /\ RightBlock(Locks!LinkSync(b, w))
         /\ b # NULL => RightBlock(Locks!UnlinkSync(b, w))
  <1> DEFINE s == Locks!EnsureSync(b)
             l == [s EXCEPT !.weakRef = @ \cup {w}]
             u == [b EXCEPT !.weakRef = @ \ {w}]
  <1>1. RightBlock(s) /\ s \in Locks!Sync
    BY EnsuredBlock
  <1>2. Locks!LinkSync(b, w) = l /\ Locks!UnlinkSync(b, w) = Locks!DeleteSync(u)
    BY DEF Locks!LinkSync, Locks!UnlinkSync
  <1> HIDE DEF s
  <1>3. l \in Locks!Sync /\ l.pThread = s.pThread /\ l.count = s.count
    BY <1>1 DEF Locks!Sync
  <1>4. b # NULL => u \in Locks!Sync /\ u.pThread = b.pThread /\ u.count = b.count
    BY DEF RightBlock, Locks!Sync
  <1> HIDE DEF l, u
  <1>5. RightBlock(l) /\ (b # NULL => RightBlock(u))
    BY <1>1, <1>3, <1>4, NoLockBlock DEF RightBlock
  <1> QED
    BY <1>2, <1>5, DeletedBlock

RightLocks ==
  /\ sync \in [Objects -> Locks!Sync \cup {NULL}]
  /\ \A o \in Objects : RightBlock(sync[o])
  /\ target \in [WeakRefs -> Objects \cup {NULL}]
  /\ entered \in [Threads -> [Objects -> 0 .. MaxDepth]]

LEMMA TypeOfLocks == RightLocks <=> Locks!TypeOK
  BY DEF RightLocks, RightBlock, Locks!TypeOK

LEMMA RightSync ==
  ASSUME NEW f \in [Objects -> Locks!Sync \cup {NULL}], \A o \in Objects : RightBlock(f[o]),
         NEW o \in Objects, NEW b, RightBlock(b)
  PROVE  /\ [f EXCEPT ![o] = b] \in [Objects -> Locks!Sync \cup {NULL}]
         /\ \A u \in Objects : RightBlock([f EXCEPT ![o] = b][u])
  BY DEF RightBlock

LEMMA TryEnterTyped ==
  ASSUME RightLocks, NEW t \in Threads, NEW name \in Threads, NEW o \in Objects,
         SyncTryEnter(t, name, o)
  PROVE  RightLocks'
  <1>1. RightBlock(Locks!EnteredSync(sync[o], name))
    BY EnteredBlock DEF RightLocks
  <1>2. sync' = [sync EXCEPT ![o] = Locks!EnteredSync(sync[o], name)] /\ target' = target
    BY DEF SyncTryEnter
  <1>3. /\ sync' \in [Objects -> Locks!Sync \cup {NULL}]
        /\ \A u \in Objects : RightBlock(sync'[u])
    BY <1>1, <1>2, RightSync DEF RightLocks
  <1>4. entered' \in [Threads -> [Objects -> 0 .. MaxDepth]]
    <2>1. /\ entered[t][o] < MaxDepth /\ entered[t] \in [Objects -> 0 .. MaxDepth]
          /\ entered[t][o] + 1 \in 0 .. MaxDepth
      BY SchedulerAssumption DEF SyncTryEnter, RightLocks
    <2>2. [entered EXCEPT ![t][o] = @ + 1] \in [Threads -> [Objects -> 0 .. MaxDepth]]
      BY <2>1 DEF RightLocks
    <2> QED
      BY <2>2 DEF SyncTryEnter, RightLocks
  <1> QED
    BY <1>2, <1>3, <1>4 DEF RightLocks, RightBlock

LEMMA ExitTyped ==
  ASSUME RightLocks, NEW t \in Threads, NEW name \in Threads, NEW o \in Objects,
         SyncExit(t, name, o)
  PROVE  RightLocks'
  <1>1. RightBlock(Locks!ExitedSync(sync[o], name))
    BY ExitedBlock DEF RightLocks
  <1>2. sync' = [sync EXCEPT ![o] = Locks!ExitedSync(sync[o], name)] /\ target' = target
    BY DEF SyncExit
  <1>3. /\ sync' \in [Objects -> Locks!Sync \cup {NULL}]
        /\ \A u \in Objects : RightBlock(sync'[u])
    BY <1>1, <1>2, RightSync DEF RightLocks
  <1>4. entered' \in [Threads -> [Objects -> 0 .. MaxDepth]]
    <2> DEFINE n == IF entered[t][o] > 0 THEN entered[t][o] - 1 ELSE 0
    <2>1. n \in 0 .. MaxDepth
      BY SchedulerAssumption DEF RightLocks
    <2>2. entered' = [entered EXCEPT ![t][o] = n]
      BY DEF SyncExit
    <2> HIDE DEF n
    <2> QED
      BY <2>1, <2>2 DEF RightLocks
  <1> QED
    BY <1>2, <1>3, <1>4 DEF RightLocks, RightBlock

LEMMA SetTargetTyped ==
  ASSUME RightLocks, NEW w \in WeakRefs, NEW o \in Objects \cup {NULL}, Locks!SetTarget(w, o)
  PROVE  RightLocks'
  <1> DEFINE f == Locks!Unlinked(w)
  <1>1. /\ sync' = Locks!Linked(f, w, o) /\ target' = [target EXCEPT ![w] = o]
        /\ entered' = entered /\ Locks!InTargetList(w)
    BY DEF Locks!SetTarget
  <1>2. f \in [Objects -> Locks!Sync \cup {NULL}] /\ \A u \in Objects : RightBlock(f[u])
    <2>1. CASE target[w] = NULL
      BY <2>1 DEF Locks!Unlinked, RightLocks
    <2>2. CASE target[w] # NULL
      <3> DEFINE old == target[w]
      <3>1. old \in Objects /\ sync[old] # NULL
        BY <1>1, <2>2 DEF Locks!InTargetList, RightLocks
      <3>2. f = [sync EXCEPT ![old] = Locks!UnlinkSync(sync[old], w)]
        BY <2>2 DEF Locks!Unlinked
      <3> HIDE DEF f, old
      <3>3. RightBlock(Locks!UnlinkSync(sync[old], w))
        BY <3>1, LinkedBlocks DEF RightLocks
      <3> QED
        BY <3>1, <3>2, <3>3, RightSync DEF RightLocks
    <2> QED
      BY <2>1, <2>2
  <1> HIDE DEF f
  <1>3. /\ sync' \in [Objects -> Locks!Sync \cup {NULL}]
        /\ \A u \in Objects : RightBlock(sync'[u])
    <2>1. CASE o = NULL
      BY <1>1, <1>2, <2>1 DEF Locks!Linked
    <2>2. CASE o # NULL
      <3>1. o \in Objects /\ sync' = [f EXCEPT ![o] = Locks!LinkSync(f[o], w)]
        BY <1>1, <2>2 DEF Locks!Linked
      <3>2. RightBlock(Locks!LinkSync(f[o], w))
        BY <1>2, <3>1, LinkedBlocks
      <3> QED
        BY <1>2, <3>1, <3>2, RightSync
    <2> QED
      BY <2>1, <2>2
  <1> QED
    BY <1>1, <1>3 DEF RightLocks, RightBlock

-----------------------------------------------------------------------------
(* The locks of the scheduler *)

(* What a step does with the locks. *)
LockAction ==
  \/ \E t \in Threads, o \in Objects : SyncTryEnter(t, t, o)
  \/ \E o \in Objects : Executing("exit") /\ Instr(cur).obj = o /\ SyncExit(cur, cur, o)
  \/ \E w \in WeakRefs, o \in Objects \cup {NULL} : Locks!SetTarget(w, o)
  \/ UNCHANGED locks

(* Whoever tries or exits does so in its own name. *)
LEMMA LockActions == IInv /\ [Next]_vars => LockAction
  <1> SUFFICES ASSUME IInv, [Next]_vars
               PROVE  LockAction
    OBVIOUS
  <1>1. Types /\ ListInv /\ cur \in Threads
    BY DEF IInv, Types
  <1>2. CASE TryEnter
    <2> DEFINE o == Instr(cur).obj
    <2>1. o \in Objects /\ vm = "execute" /\ SyncTryEnter(cur, pCurrentThread, o)
      BY <1>1, <1>2, ExecutingType, InstructionType DEF TryEnter
    <2>2. pCurrentThread = cur
      BY <1>1, <2>1 DEF ListInv
    <2> HIDE DEF o
    <2> QED
      BY <1>1, <2>1, <2>2 DEF LockAction
  <1>3. CASE Exit
    <2>1. /\ Executing("exit") /\ Instr(cur).obj \in Objects /\ vm = "execute"
          /\ SyncExit(cur, pCurrentThread, Instr(cur).obj)
      BY <1>1, <1>3, ExecutingType, InstructionType DEF Exit
    <2>2. pCurrentThread = cur
      BY <1>1, <2>1 DEF ListInv
    <2> QED
      BY <1>1, <2>1, <2>2 DEF LockAction
  <1>4. CASE SetWeakTarget
    <2> DEFINE w == Instr(cur).ref
               o == Instr(cur).obj
    <2>1. w \in WeakRefs /\ o \in Objects \cup {NULL} /\ Locks!SetTarget(w, o)
      BY <1>1, <1>4, ExecutingType, InstructionType DEF SetWeakTarget
    <2> HIDE DEF w, o
    <2> QED
      BY <2>1 DEF LockAction
  <1>5. CASE Scan
    <2>1. PICK t \in Threads :
            \/ ScanNotRunning(t) \/ ScanReady(t) \/ ScanSleepOver(t) \/ ScanSleeping(t)
            \/ ScanWildCall(t) \/ ScanLockOver(t) \/ ScanLockWait(t)
      BY <1>5 DEF Scan
    <2>2. CASE ScanLockOver(t)
      <3> DEFINE o == pAsync[t].obj
      <3>1. o \in Objects /\ SyncTryEnter(t, t, o)
        BY <1>1, <2>2 DEF ScanLockOver, IsBlockedBy, Types
      <3> HIDE DEF o
      <3> QED
        BY <3>1 DEF LockAction
    <2>3. CASE ~ScanLockOver(t)
      BY <2>1, <2>3
      DEF ScanNotRunning, ScanReady, ScanSleepOver, ScanSleeping, ScanWildCall, ScanLockWait,
          LockAction
    <2> QED
      BY <2>2, <2>3
  <1>6. CASE NewThread \/ SetBackground \/ Start \/ Loop \/ Sleep \/ EndThread \/ Tick
             \/ UNCHANGED vars
    BY <1>6
    DEF NewThread, SetBackground, Start, Loop, Sleep, EndThread, Tick, vars, LockAction
  <1> QED
    BY <1>2, <1>3, <1>4, <1>5, <1>6 DEF Next, Execute

LEMMA LocksTyped == IInv /\ RightLocks /\ [Next]_vars => RightLocks'
  <1> SUFFICES ASSUME IInv, RightLocks, LockAction
               PROVE  RightLocks'
    BY LockActions
  <1>1. cur \in Threads
    BY DEF IInv, Types
  <1>2. CASE UNCHANGED locks
    BY <1>2 DEF RightLocks, RightBlock, locks
  <1> QED
    BY <1>1, <1>2, TryEnterTyped, ExitTyped, SetTargetTyped DEF LockAction

LEMMA LocksAreRight == Spec => []RightLocks
  <1>1. Init => RightLocks
    BY SchedulerAssumption DEF Init, Locks!Init, RightLocks, RightBlock
  <1> QED
    BY <1>1, LocksTyped, Invariance, PTL DEF Spec

(* The types of the scheduler's state, the locks' included, whatever the   *)
(* programs exit.                                                          *)
THEOREM TypeCorrect == Spec => []TypeOK
  <1>1. IInv /\ RightLocks => TypeOK
    BY TypeOfLocks DEF IInv, Types, TypeOK
  <1> QED
    BY <1>1, Invariance, LocksAreRight, PTL

(* A thread exits what it has entered, or what is not in its name; the     *)
(* exception is a block that its weak references kept after its last exit. *)
NoExtraExit ==
  Executing("exit") =>
    LET o == Instr(cur).obj IN
    entered[cur][o] > 0 \/ ~Locks!ExitSucceeds(sync[o], cur)

LEMMA LockStep == IInv /\ RightLocks /\ NoExtraExit /\ [Next]_vars => [Locks!Next]_(Locks!vars)
  <1> SUFFICES ASSUME IInv, RightLocks, NoExtraExit, LockAction
               PROVE  [Locks!Next]_(Locks!vars)
    BY LockActions
  <1>1. cur \in Threads
    BY DEF IInv, Types
  <1>2. ASSUME NEW t \in Threads, NEW o \in Objects, SyncTryEnter(t, t, o)
        PROVE  Locks!Next
    <2>1. Locks!SyncTryEnter(t, o)
      BY <1>2 DEF SyncTryEnter, Locks!SyncTryEnter
    <2> QED
      BY <2>1 DEF Locks!Next
  <1>3. ASSUME NEW o \in Objects, Executing("exit"), Instr(cur).obj = o, SyncExit(cur, cur, o)
        PROVE  Locks!Next \/ UNCHANGED locks
    <2>1. CASE entered[cur][o] > 0
      <3>1. Locks!SyncExit(cur, o)
        BY <1>3, <2>1 DEF SyncExit, Locks!SyncExit
      <3> QED
        BY <1>1, <3>1 DEF Locks!Next
    <2>2. CASE ~(entered[cur][o] > 0)
      <3>1. ~Locks!ExitSucceeds(sync[o], cur)
        BY <1>3, <2>2 DEF NoExtraExit
      <3>2. Locks!ExitedSync(sync[o], cur) = sync[o]
        BY <3>1 DEF Locks!ExitedSync
      <3>3. sync' = sync
        BY <1>3, <3>2 DEF SyncExit, RightLocks
      <3>4. entered[cur][o] = 0
        BY <1>1, <2>2, SchedulerAssumption DEF RightLocks
      <3>5. entered' = entered
        BY <1>1, <1>3, <3>4 DEF SyncExit, RightLocks
      <3> QED
        BY <1>3, <3>3, <3>5 DEF SyncExit, locks
    <2> QED
      BY <2>1, <2>2
  <1>4. ASSUME NEW w \in WeakRefs, NEW o \in Objects \cup {NULL}, Locks!SetTarget(w, o)
        PROVE  Locks!Next
    BY <1>4 DEF Locks!Next
  <1> QED
    BY <1>1, <1>2, <1>3, <1>4 DEF LockAction, locks, Locks!vars

(* Then the locks are used as SyncBlock says. *)
LEMMA LocksAreUsed == Spec /\ []NoExtraExit => Locks!Spec
  <1>1. Init => Locks!Init
    BY DEF Init
  <1> QED
    BY <1>1, LockStep, Invariance, LocksAreRight, PTL DEF Spec, Locks!Spec

LEMMA SameLocks == Locks!Spec => LockProofs!Spec
  <1>1. Locks!Init => LockProofs!Init
    BY DEF Locks!Init, LockProofs!Init
  <1>2. [Locks!Next]_(Locks!vars) => [LockProofs!Next]_(LockProofs!vars)
    BY DEF Locks!Next, Locks!vars, Locks!SyncTryEnter, Locks!SyncExit, Locks!SetTarget,
           Locks!CanEnter, Locks!EnteredSync, Locks!ExitedSync, Locks!ExitSucceeds,
           Locks!EnsureSync, Locks!NewSync, Locks!DeleteSync, Locks!InTargetList,
           Locks!Linked, Locks!Unlinked, Locks!LinkSync, Locks!UnlinkSync,
           LockProofs!Next, LockProofs!vars, LockProofs!SyncTryEnter, LockProofs!SyncExit,
           LockProofs!SetTarget, LockProofs!CanEnter, LockProofs!EnteredSync,
           LockProofs!ExitedSync, LockProofs!ExitSucceeds, LockProofs!EnsureSync,
           LockProofs!NewSync, LockProofs!DeleteSync, LockProofs!InTargetList,
           LockProofs!Linked, LockProofs!Unlinked, LockProofs!LinkSync, LockProofs!UnlinkSync
  <1> QED
    BY <1>1, <1>2, PTL DEF Locks!Spec, LockProofs!Spec

LEMMA LocksAreSafe ==
  Locks!Spec => []Locks!HeldBlockAgrees /\ []Locks!MutualExclusion
  <1>1. LockProofs!SafePrograms
    BY DEF LockProofs!SafePrograms
  <1>2. /\ NULL \notin Threads \cup Objects \cup WeakRefs /\ MaxDepth \in Nat /\ CountMod \in Nat
        /\ MaxDepth < CountMod /\ CountMod > 1 /\ TRUE \in BOOLEAN
    BY SchedulerAssumption
  <1>3. NULL \notin LockProofs!Sync
    BY NoLockBlock DEF Locks!Sync, LockProofs!Sync
  <1>4. LockProofs!Spec => []LockProofs!HeldBlockAgrees
    BY <1>1, <1>2, <1>3, LockProofs!HeldBlocksStay
  <1>5. LockProofs!Spec => []LockProofs!MutualExclusion
    BY <1>1, <1>2, <1>3, LockProofs!Exclusion
  <1>6. LockProofs!HeldBlockAgrees => Locks!HeldBlockAgrees
    BY DEF LockProofs!HeldBlockAgrees, Locks!HeldBlockAgrees
  <1>7. LockProofs!MutualExclusion => Locks!MutualExclusion
    BY DEF LockProofs!MutualExclusion, Locks!MutualExclusion
  <1> QED
    BY <1>4, <1>5, <1>6, <1>7, SameLocks, PTL

(* The name in which locks are taken and left follows the thread, through  *)
(* slices, polls and the end of threads: the block of a lock names the     *)
(* thread that goes on with it, with its depth.                            *)
THEOREM LocksInOwnName == Spec /\ []NoExtraExit => []LocksHeldInOwnName
  BY LocksAreUsed, LocksAreSafe, PTL DEF LocksHeldInOwnName

(* Of the threads of any programs that exit nothing extra, at most one is  *)
(* inside Monitor.Enter and Monitor.Exit of an object, also when it waited *)
(* there and was let in by the scan.                                       *)
THEOREM Exclusion == Spec /\ []NoExtraExit => []Locks!MutualExclusion
  BY LocksAreUsed, LocksAreSafe, PTL

(* To the threads of such programs each object is one re-entrant lock:     *)
(* tries, polls and the scan of Thread_Execute take and give it up as      *)
(* MonitorSpec says.                                                       *)
THEOREM LocksAreMonitors == Spec /\ []NoExtraExit => LockProofs!ImplementsMonitor
  <1>1. LockProofs!SafePrograms
    BY DEF LockProofs!SafePrograms
  <1>2. /\ NULL \notin Threads \cup Objects \cup WeakRefs /\ MaxDepth \in Nat /\ CountMod \in Nat
        /\ MaxDepth < CountMod /\ CountMod > 1 /\ TRUE \in BOOLEAN
    BY SchedulerAssumption
  <1>3. NULL \notin LockProofs!Sync
    BY NoLockBlock DEF Locks!Sync, LockProofs!Sync
  <1>4. LockProofs!Spec => LockProofs!ImplementsMonitor
    BY <1>1, <1>2, <1>3, LockProofs!Refinement
  <1> QED
    BY <1>4, LocksAreUsed, SameLocks, PTL

-----------------------------------------------------------------------------
(* No thread is lost *)

(* Thread.Start is called of threads that were created and not started:    *)
(* the code does not look, and runs a thread that ended without putting it *)
(* back in the list.                                                       *)
StartsOnlyNew == Executing("start") => state[Instr(cur).thread] = "UNSTARTED"

NoneLost == \A t \in Threads : Unfinished(t) => InList(t)

LEMMA InitNoneLost == Init => NoneLost
  BY DEF Init, NoneLost, Unfinished, InList

LEMMA NextNoneLost == IInv /\ NoneLost /\ StartsOnlyNew /\ [Next]_vars => NoneLost'
  <1> SUFFICES ASSUME IInv, NoneLost, StartsOnlyNew, [Next]_vars
               PROVE  NoneLost'
    OBVIOUS
  <1>1. Types /\ ListInv /\ cur \in Threads
    BY DEF IInv, Types
  <1>2. CASE OrdinaryCall
    <2>1. InList(cur)
      BY <1>1, <1>2 DEF OrdinaryCall, ListInv
    <2>2. \A t \in Threads : t # cur => pc'[t] = pc[t]
      BY <1>2 DEF OrdinaryCall
    <2>3. UNCHANGED <<prog, pAllThreads, state>>
      BY <1>2 DEF OrdinaryCall
    <2> QED
      BY <2>1, <2>2, <2>3 DEF NoneLost, Unfinished, InList
  <1>3. CASE NewThread
    <2>1. /\ \A t \in Threads : InList(t) => InList(t)'
          /\ \A t \in Threads : state'[t] # state[t] => InList(t)'
      BY <1>3, NewThreadKeeps
    <2>2. NextInstr /\ prog' = prog /\ vm = "execute"
      BY <1>3 DEF NewThread, Executing
    <2>3. InList(cur) /\ \A t \in Threads : t # cur => pc'[t] = pc[t]
      BY <1>1, <2>2, NextInstrType DEF ListInv
    <2> QED
      BY <1>1, <2>1, <2>2, <2>3 DEF NoneLost, Unfinished
  <1>4. CASE Start
    <2> DEFINE u == Instr(cur).thread
    <2>1. Executing("start") /\ vm = "execute" /\ u \in Threads
      BY <1>1, <1>4, ExecutingType, InstructionType DEF Start
    <2>2. InList(u) /\ InList(cur)
      BY <1>1, <2>1 DEF StartsOnlyNew, ListInv
    <2>3. /\ state' = [state EXCEPT ![u] = "RUNNING"] /\ UNCHANGED <<prog, pAllThreads>>
          /\ pc' = [pc EXCEPT ![cur] = @ + 1, ![u] = 1]
      BY <1>4 DEF Start
    <2> HIDE DEF u
    <2>4. \A t \in Threads : t # u /\ t # cur => state'[t] = state[t] /\ pc'[t] = pc[t]
      BY <1>1, <2>1, <2>3 DEF Types
    <2>5. \A t : InList(t) <=> InList(t)'
      BY <2>3 DEF InList
    <2> QED
      BY <2>2, <2>3, <2>4, <2>5 DEF NoneLost, Unfinished
  <1>5. CASE EndThread
    <2>1. \A t \in Threads : InList(t)' <=> t # cur /\ InList(t)
      BY <1>5, EndThreadKeeps
    <2>2. pc[cur] > Len(prog[cur]) /\ UNCHANGED <<prog, state, pc>>
      BY <1>5 DEF EndThread
    <2>3. pc[cur] \in Nat /\ Len(prog[cur]) \in Nat
      BY <1>1, ProgramsAssumption, LenProperties DEF Types
    <2>4. ~Unfinished(cur)
      BY <2>2, <2>3 DEF Unfinished
    <2>5. \A t : Unfinished(t)' <=> Unfinished(t)
      BY <2>2 DEF Unfinished
    <2> QED
      BY <2>1, <2>4, <2>5 DEF NoneLost
  <1>6. CASE UNCHANGED <<prog, pAllThreads, state, pc>>
    BY <1>6 DEF NoneLost, Unfinished, InList
  <1>7. CASE Scan
    <2>1. PICK t \in Threads : ScanStep(t)
      BY <1>1, <1>7, ScanSteps DEF Scan
    <2>2. /\ vm = "scan" /\ t = After(cur) /\ UNCHANGED <<prog, pAllThreads, state>>
          /\ \A u \in Threads : u # t => pc'[u] = pc[u]
      BY <2>1 DEF ScanStep, threads
    <2>3. InList(t)
      BY <1>1, <2>2, AfterFacts DEF InList
    <2> QED
      BY <2>2, <2>3 DEF NoneLost, Unfinished, InList
  <1>8. ASSUME SetBackground \/ Loop \/ Sleep \/ TryEnter \/ Exit \/ SetWeakTarget
        PROVE  OrdinaryCall
    BY <1>1, <1>8, CallsAreOrdinary
  <1> QED
    BY <1>2, <1>3, <1>4, <1>5, <1>6, <1>7, <1>8 DEF Next, Execute, Tick, vars, threads

(* Threads are put in front of the list and taken out of its middle while  *)
(* Thread_Execute walks it, and none that has something to run is dropped  *)
(* or met twice.                                                           *)
THEOREM NoThreadIsLost == Spec /\ []StartsOnlyNew => []NoThreadLost
  <1>1. IInv /\ NoneLost => NoThreadLost
    BY DEF IInv, ListInv, NoneLost, NoThreadLost
  <1> QED
    BY <1>1, InitNoneLost, NextNoneLost, Invariance, PTL DEF Spec
=============================================================================
