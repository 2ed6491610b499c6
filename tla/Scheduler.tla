----------------------------- MODULE Scheduler -----------------------------
(***************************************************************************)
(* The green-thread scheduler (Thread.c), with the native calls that block *)
(* or release threads (Monitor, Thread.Sleep) and those that create them.  *)
(*                                                                         *)
(* One operating-system thread runs Thread_Execute.  It gives the current  *)
(* thread a slice of the interpreter, and then walks round the circular    *)
(* list of threads, polling the asynchronous call of each blocked thread,  *)
(* until it finds one that can run.  What a thread does is a program: the  *)
(* sequence of its native calls.  Everything between two native calls only *)
(* uses up the slice.                                                      *)
(***************************************************************************)
EXTENDS Integers, Sequences

CONSTANTS Threads, Objects, WeakRefs, NULL, CountMod, MaxDepth, \* see SyncBlock
          Main,        \* the thread CLIFile_Execute creates
          Programs,    \* the programs to run: functions from threads to
                       \* sequences of instructions
          Slice,       \* 100 in the code: calls a thread makes in a slice
          TimeMod,     \* 2^32 in the code: the width of the 32-bit times
          MaxElapsed   \* bound: times since a call began are capped at this

(* The native calls of a program; "else" is where it goes on without the   *)
(* lock that it tried to enter.                                            *)
Instructions ==
  [op : {"new", "start", "background"}, thread : Threads]
  \cup [op : {"enter"}, obj : Objects, time : Int, else : Nat \ {0}]
  \cup [op : {"exit"}, obj : Objects]
  \cup [op : {"sleep"}, time : Int]
  \cup [op : {"weak"}, ref : WeakRefs, obj : Objects \cup {NULL}]
  \cup [op : {"loop"}, to : Nat \ {0}]

ASSUME SchedulerAssumption ==
  /\ Main \in Threads
  /\ NULL \notin Threads \cup Objects \cup WeakRefs
  /\ MaxDepth \in Nat
  /\ CountMod \in Nat
  /\ MaxDepth < CountMod
  /\ CountMod > 1
  /\ Slice \in Nat \ {0}
  /\ TimeMod \in Nat
  /\ TimeMod > 5       \* a lock is polled every 5 ms
  /\ MaxElapsed \in Nat

ASSUME ProgramsAssumption == Programs \subseteq [Threads -> Seq(Instructions)]

VARIABLES
  sync, target, entered,   \* the locks, see SyncBlock
  prog,                    \* the programs being run
  pc,                      \* pc[t]: the next instruction of thread t
  pAllThreads,             \* the list of threads, its head first
  state,                   \* tThread.state of every thread
  background,              \* threads with THREADSTATE_BACKGROUND
  pAsync,                  \* the call that blocks each thread, or NULL
  vm,                      \* where Thread_Execute is: executing a thread,
                           \* scanning for the next one, returned, or crashed
  cur, prev,               \* pThread, pPrevThread
  pCurrentThread,          \* in whose name locks are taken
  budget,                  \* what is left of the slice
  minSleepTime,
  result                   \* why Thread_Execute returned

locks == <<sync, target, entered>>
threads == <<prog, pAllThreads, state, background>>
loop == <<vm, cur, prev, pCurrentThread, budget, minSleepTime, result>>
vars == <<locks, threads, pc, pAsync, loop>>

(* The blocks; here nothing keeps a program from exiting what it did not   *)
(* enter, which ExitOnlyHeld rules out.                                    *)
Locks == INSTANCE SyncBlock WITH ExitOnlyHeld <- TRUE

ASSUME NoLockBlock == NULL \notin Locks!Sync

-----------------------------------------------------------------------------
(* The program of a thread. *)

Instr(t) == prog[t][pc[t]]

Executing(op) ==
  /\ vm = "execute"
  /\ pc[cur] <= Len(prog[cur])
  /\ Instr(cur).op = op

NextInstr == pc' = [pc EXCEPT ![cur] = @ + 1]

(* tAsyncCall: a sleep or the wait for a lock, and the time since it began. *)
Call == [op : {"sleep", "lock"}, time : Int, obj : Objects \cup {NULL},
         else : Nat \ {0}, elapsed : 0 .. MaxElapsed]

ASSUME NoCall == NULL \notin Call

SleepCall(ms) ==
  [op |-> "sleep", time |-> ms, obj |-> NULL, else |-> 1, elapsed |-> 0]
LockCall(i) ==
  [op |-> "lock", time |-> i.time, obj |-> i.obj, else |-> i.else, elapsed |-> 0]

(* The conversion of an unsigned time to I32. *)
I32(x) ==
  LET y == x % TimeMod IN IF 2 * y >= TimeMod THEN y - TimeMod ELSE y

NoSleepTime == TimeMod - 1   \* 0xffffffff

-----------------------------------------------------------------------------
(* Slices of the interpreter. *)

BeginSlice ==
  /\ vm' = "execute"
  /\ budget' = Slice

(* Mutants: the round ends where the one before ended; every scan starts  *)
(* at the head of the list.                                                *)
EndSliceStalePrev ==
  /\ vm' = "scan"
  /\ minSleepTime' = NoSleepTime
  /\ UNCHANGED <<cur, prev, pCurrentThread, budget, result>>

EndSliceFromHead ==
  /\ vm' = "scan"
  /\ cur' = pAllThreads[Len(pAllThreads)]
  /\ prev' = cur'
  /\ minSleepTime' = NoSleepTime
  /\ UNCHANGED <<pCurrentThread, budget, result>>

(* JIT_Execute returns with a status that is not EXIT: the scan starts at  *)
(* the thread that ran.                                                    *)
EndSlice ==
  /\ vm' = "scan"
  /\ prev' = cur
  /\ minSleepTime' = NoSleepTime
  /\ UNCHANGED <<cur, pCurrentThread, budget, result>>

(* Mutant: the count of the slice goes down to zero. *)
ContinueOneMore ==
  \/ /\ budget' = budget - 1
     /\ UNCHANGED <<vm, cur, prev, pCurrentThread, minSleepTime, result>>
  \/ EndSlice

(* After a call the thread goes on, unless the slice is used up; branches  *)
(* and other calls use it up too.                                          *)
Continue ==
  \/ /\ budget > 1
     /\ budget' = budget - 1
     /\ UNCHANGED <<vm, cur, prev, pCurrentThread, minSleepTime, result>>
  \/ EndSlice

(* Mutant: a new thread goes in front, and the old list is dropped behind  *)
(* its head.                                                               *)
NewThreadLost ==
  /\ Executing("new")
  /\ LET u == Instr(cur).thread IN
       /\ state[u] = "none"
       /\ pAllThreads' = <<u, Head(pAllThreads)>>
       /\ state' = [state EXCEPT ![u] = "UNSTARTED"]
  /\ NextInstr
  /\ Continue
  /\ UNCHANGED <<locks, prog, background, pAsync>>

(* Thread..ctor: a new thread, first in the list. *)
NewThread ==
  /\ Executing("new")
  /\ LET u == Instr(cur).thread IN
       /\ state[u] = "none"
       /\ pAllThreads' = <<u>> \o pAllThreads
       /\ state' = [state EXCEPT ![u] = "UNSTARTED"]
  /\ NextInstr
  /\ Continue
  /\ UNCHANGED <<locks, prog, background, pAsync>>

(* Thread.IsBackground = true, in managed code. *)
SetBackground ==
  /\ Executing("background")
  /\ background' = background \cup {Instr(cur).thread}
  /\ NextInstr
  /\ Continue
  /\ UNCHANGED <<locks, prog, pAllThreads, state, pAsync>>

(* Thread.Start: runnable, from the start of its program. *)
Start ==
  /\ Executing("start")
  /\ LET u == Instr(cur).thread IN
       /\ state' = [state EXCEPT ![u] = "RUNNING"]
       /\ pc' = [pc EXCEPT ![cur] = @ + 1, ![u] = 1]
  /\ Continue
  /\ UNCHANGED <<locks, prog, pAllThreads, background, pAsync>>

(* A backward branch of managed code. *)
Loop ==
  /\ Executing("loop")
  /\ pc' = [pc EXCEPT ![cur] = Instr(cur).to]
  /\ Continue
  /\ UNCHANGED <<locks, threads, pAsync>>

-----------------------------------------------------------------------------
(* Native calls that block. *)

Block(call) ==
  /\ pAsync' = [pAsync EXCEPT ![cur] = call]
  /\ EndSlice

(* Thread.Sleep.  The call object of an earlier sleep is overwritten.      *)
Sleep ==
  /\ Executing("sleep")
  /\ Block(SleepCall(Instr(cur).time))
  /\ NextInstr
  /\ UNCHANGED <<locks, threads>>

(* Heap_SyncTryEnter and Heap_SyncExit, called for thread t, know the name *)
(* of pCurrentThread.  The thread believes to be inside when the call      *)
(* succeeds, and to be outside again after Exit, which does not look at    *)
(* the result.                                                             *)
SyncTryEnter(t, name, o) ==
  /\ entered[t][o] < MaxDepth
  /\ sync' = [sync EXCEPT ![o] = Locks!EnteredSync(@, name)]
  /\ entered' = IF Locks!CanEnter(sync[o], name)
                THEN [entered EXCEPT ![t][o] = @ + 1] ELSE entered
  /\ UNCHANGED target

SyncExit(t, name, o) ==
  /\ sync' = [sync EXCEPT ![o] = Locks!ExitedSync(@, name)]
  /\ entered' = [entered EXCEPT ![t][o] = IF @ > 0 THEN @ - 1 ELSE 0]
  /\ UNCHANGED target

(* Where thread t goes on when it has tried, at "else" without the lock.   *)
GoOn(t, got, else) == pc' = [pc EXCEPT ![t] = IF got THEN @ + 1 ELSE else]

(* Monitor.TryEnter and Monitor.Enter: a first try at once. *)
TryEnter ==
  /\ Executing("enter")
  /\ LET o == Instr(cur).obj
         got == Locks!CanEnter(sync[o], pCurrentThread)
     IN /\ SyncTryEnter(cur, pCurrentThread, o)
        /\ IF got \/ Instr(cur).time = 0
           THEN Continue /\ GoOn(cur, got, Instr(cur).else) /\ UNCHANGED pAsync
           ELSE Block(LockCall(Instr(cur))) /\ UNCHANGED pc
  /\ UNCHANGED threads

(* Mutant: leaving a lock does not end the slice. *)
ExitAndGoOn ==
  /\ Executing("exit")
  /\ SyncExit(cur, pCurrentThread, Instr(cur).obj)
  /\ Continue
  /\ NextInstr
  /\ UNCHANGED <<threads, pAsync>>

(* Monitor.Exit: the slice ends, so that threads waiting for the lock are  *)
(* polled.                                                                 *)
Exit ==
  /\ Executing("exit")
  /\ SyncExit(cur, pCurrentThread, Instr(cur).obj)
  /\ EndSlice
  /\ NextInstr
  /\ UNCHANGED <<threads, pAsync>>

(* WeakReference.Target = o. *)
SetWeakTarget ==
  /\ Executing("weak")
  /\ Locks!SetTarget(Instr(cur).ref, Instr(cur).obj)
  /\ NextInstr
  /\ Continue
  /\ UNCHANGED <<threads, pAsync>>

-----------------------------------------------------------------------------
(* The thread ends. *)

(* Where a thread is in the list. *)
Place(t) == CHOOSE i \in DOMAIN pAllThreads : pAllThreads[i] = t

RemoveThread(t) ==
  SubSeq(pAllThreads, 1, Place(t) - 1)
  \o SubSeq(pAllThreads, Place(t) + 1, Len(pAllThreads))

(* No thread is left that keeps the application alive. *)
CanExit(left) ==
  \A i \in DOMAIN left : left[i] \in background \/ state[left[i]] = "UNSTARTED"

(* The scan goes on from the head of the list, which it treats as the      *)
(* thread that ran; pCurrentThread still is the one that ended.            *)
EndThread ==
  /\ vm = "execute"
  /\ pc[cur] > Len(prog[cur])
  /\ pAllThreads' = RemoveThread(cur)
  /\ IF CanExit(pAllThreads')
     THEN /\ vm' = "returned"
          /\ result' = "exit"
          /\ UNCHANGED <<cur, prev, minSleepTime>>
     ELSE /\ vm' = "scan"
          /\ cur' = Head(pAllThreads')
          /\ prev' = Head(pAllThreads')
          /\ minSleepTime' = NoSleepTime
          /\ UNCHANGED result
  /\ UNCHANGED <<locks, prog, state, background, pc, pAsync, pCurrentThread, budget>>

-----------------------------------------------------------------------------
(* The scan for the next thread. *)

After(t) == pAllThreads[(Place(t) % Len(pAllThreads)) + 1]

Scanning(t) == vm = "scan" /\ t = After(cur)

(* Thread t is polled, or runs, in its own name. *)
MoveTo(t) == cur' = t /\ pCurrentThread' = t

(* Thread t is blocked: go on, or return when that was the last of them.   *)
PassOver(t) ==
  /\ MoveTo(t)
  /\ IF t = prev
     THEN vm' = "returned" /\ result' = "blocked"
     ELSE UNCHANGED <<vm, result>>
  /\ UNCHANGED <<prev, budget>>

Switch(t) ==
  /\ MoveTo(t)
  /\ BeginSlice
  /\ UNCHANGED <<prev, minSleepTime, result>>

(* A thread that was not started: the test for the end of the round is     *)
(* skipped with it.                                                        *)
ScanNotRunning(t) ==
  /\ Scanning(t)
  /\ state[t] # "RUNNING"
  /\ MoveTo(t)
  /\ UNCHANGED <<vm, prev, budget, minSleepTime, result, locks, threads, pc, pAsync>>

ScanReady(t) ==
  /\ Scanning(t)
  /\ state[t] = "RUNNING"
  /\ pAsync[t] = NULL
  /\ Switch(t)
  /\ UNCHANGED <<locks, threads, pc, pAsync>>

IsBlockedBy(t, op) ==
  state[t] = "RUNNING" /\ pAsync[t] # NULL /\ pAsync[t].op = op

SleepRemaining(call) == I32(call.time - I32(call.elapsed))

SleepIsOver(call) ==
  call.op = "sleep" /\ call.time >= 0 /\ SleepRemaining(call) <= 0

(* The call object stays attached to the thread when its sleep is over. *)
ScanSleepOver(t) ==
  /\ Scanning(t)
  /\ IsBlockedBy(t, "sleep")
  /\ SleepIsOver(pAsync[t])
  /\ Switch(t)
  /\ UNCHANGED <<locks, threads, pc, pAsync>>

ScanSleeping(t) ==
  /\ Scanning(t)
  /\ IsBlockedBy(t, "sleep")
  /\ pAsync[t].time >= 0
  /\ LET left == SleepRemaining(pAsync[t]) IN
       /\ left > 0
       /\ minSleepTime' = IF left < minSleepTime THEN left ELSE minSleepTime
  /\ PassOver(t)
  /\ UNCHANGED <<locks, threads, pc, pAsync>>

(* The wait of a lock call is over without the lock. *)
TimedOut(call) ==
  call.time >= 0 /\ (call.time = 0 \/ I32(call.elapsed) > call.time)

(* A call with a negative time is polled through its check function, which *)
(* Thread.Sleep does not set: what happens then is undefined.              *)
ScanWildCall(t) ==
  /\ Scanning(t)
  /\ IsBlockedBy(t, "sleep")
  /\ pAsync[t].time < 0
  /\ vm' = "crashed"
  /\ MoveTo(t)
  /\ UNCHANGED <<prev, budget, minSleepTime, result, locks, threads, pc, pAsync>>

(* Mutant: pCurrentThread follows only when the thread is switched to. *)
ScanLockOverForOther(t) ==
  /\ Scanning(t)
  /\ IsBlockedBy(t, "lock")
  /\ LET call == pAsync[t]
         got == Locks!CanEnter(sync[call.obj], pCurrentThread)
     IN /\ got \/ TimedOut(call)
        /\ SyncTryEnter(t, pCurrentThread, call.obj)
        /\ GoOn(t, got, call.else)
  /\ pAsync' = [pAsync EXCEPT ![t] = NULL]
  /\ Switch(t)
  /\ UNCHANGED threads

(* A waiting thread gets the lock, or gives up, and runs. *)
ScanLockOver(t) ==
  /\ Scanning(t)
  /\ IsBlockedBy(t, "lock")
  /\ LET call == pAsync[t]
         got == Locks!CanEnter(sync[call.obj], t)
     IN /\ got \/ TimedOut(call)
        /\ SyncTryEnter(t, t, call.obj)
        /\ GoOn(t, got, call.else)
  /\ pAsync' = [pAsync EXCEPT ![t] = NULL]
  /\ Switch(t)
  /\ UNCHANGED threads

ScanLockWait(t) ==
  /\ Scanning(t)
  /\ IsBlockedBy(t, "lock")
  /\ LET call == pAsync[t] IN
       ~Locks!CanEnter(sync[call.obj], t) /\ ~TimedOut(call)
  /\ minSleepTime' = 5
  /\ PassOver(t)
  /\ UNCHANGED <<locks, threads, pc, pAsync>>

-----------------------------------------------------------------------------
(* The clock. *)

Ticking == {t \in Threads : pAsync[t] # NULL /\ pAsync[t].elapsed < MaxElapsed}

Tick ==
  /\ vm \in {"execute", "scan"}
  /\ Ticking # {}
  /\ pAsync' = [t \in Threads |->
       IF t \in Ticking THEN [pAsync[t] EXCEPT !.elapsed = @ + 1] ELSE pAsync[t]]
  /\ UNCHANGED <<locks, threads, pc, loop>>

(* CLIFile_Execute creates the main thread and calls Thread_Execute. *)
Init ==
  /\ Locks!Init
  /\ prog \in Programs
  /\ pc = [t \in Threads |-> 1]
  /\ pAllThreads = <<Main>>
  /\ state = [t \in Threads |-> IF t = Main THEN "RUNNING" ELSE "none"]
  /\ background = {}
  /\ pAsync = [t \in Threads |-> NULL]
  /\ vm = "execute"
  /\ cur = Main
  /\ prev = Main
  /\ pCurrentThread = Main
  /\ budget = Slice
  /\ minSleepTime = NoSleepTime
  /\ result = "none"

Execute ==
  \/ NewThread \/ SetBackground \/ Start \/ Loop
  \/ Sleep \/ TryEnter \/ Exit \/ SetWeakTarget
  \/ EndThread

Scan ==
  \E t \in Threads :
    \/ ScanNotRunning(t) \/ ScanReady(t)
    \/ ScanSleepOver(t) \/ ScanSleeping(t) \/ ScanWildCall(t)
    \/ ScanLockOver(t) \/ ScanLockWait(t)

Next == Execute \/ Scan \/ Tick

Spec == Init /\ [][Next]_vars

(* Thread_Execute is a loop that is never suspended, and time passes.      *)
FairSpec == Spec /\ WF_vars(Execute \/ Scan) /\ WF_vars(Tick)

-----------------------------------------------------------------------------
(* Properties *)

TypeOK ==
  /\ Locks!TypeOK
  /\ prog \in Programs
  /\ pc \in [Threads -> Nat \ {0}]
  /\ pAllThreads \in Seq(Threads)
  /\ state \in [Threads -> {"none", "UNSTARTED", "RUNNING"}]
  /\ background \subseteq Threads
  /\ pAsync \in [Threads -> Call \cup {NULL}]
  /\ vm \in {"execute", "scan", "returned", "crashed"}
  /\ {cur, prev, pCurrentThread} \subseteq Threads
  /\ budget \in 1 .. Slice
  /\ minSleepTime \in 0 .. NoSleepTime
  /\ result \in {"none", "exit", "blocked"}

InList(t) == \E i \in DOMAIN pAllThreads : pAllThreads[i] = t

Unfinished(t) == state[t] # "none" /\ pc[t] <= Len(prog[t])

(* The list that Thread_Execute walks while threads are added in front of  *)
(* it and removed from the middle never loses or repeats a thread: each    *)
(* thread that still has something to run is in it, once, and the thread   *)
(* the scan stands on is in it too.                                        *)
NoThreadLost ==
  /\ \A t \in Threads : Unfinished(t) => InList(t)
  /\ \A i, j \in DOMAIN pAllThreads : pAllThreads[i] = pAllThreads[j] => i = j
  /\ vm \in {"execute", "scan"} => InList(cur) /\ InList(prev)

(* "When it gets here, it means that all threads are currently blocked"    *)
(* (Thread.c:302): no thread could run when Thread_Execute gives up, and   *)
(* no lock that a thread waits for is free, although each thread was       *)
(* polled at another time.                                                 *)
AllBlockedOnReturn ==
  result = "blocked" =>
    \A i \in DOMAIN pAllThreads :
      LET t == pAllThreads[i] IN
      state[t] = "RUNNING" =>
        /\ pAsync[t] # NULL
        /\ pAsync[t].op = "lock" => ~Locks!CanEnter(sync[pAsync[t].obj], t)

(* A lock is taken at once by the thread that executes, or later by the    *)
(* loop that polls for it, and given up slices later, always in the name   *)
(* of pCurrentThread: the thread that goes on with a lock is the one its   *)
(* block names, with as many entries as that thread has still to leave, so *)
(* that its Exit succeeds and nobody else's does.                          *)
LocksHeldInOwnName == Locks!HeldBlockAgrees

Runs(t) == vm = "execute" /\ cur = t

Ready(t) ==
  /\ state[t] = "RUNNING" /\ InList(t)
  /\ pAsync[t] = NULL \/ SleepIsOver(pAsync[t])

(* A thread that can run is given a slice, whatever the other threads do.  *)
ReadyThreadRuns ==
  \A t \in Threads : Ready(t) ~> Runs(t) \/ vm = "returned"

Waits(t, o) ==
  IsBlockedBy(t, "lock") /\ pAsync[t].obj = o /\ pAsync[t].time < 0

(* "The thread has just exited a lock, so allow other threads to acquire   *)
(* it if they are waiting" (Thread.h:92): a thread that waits for a lock   *)
(* which the others enter and leave again and again gets it.               *)
WaiterEnters ==
  \A t \in Threads, o \in Objects :
    Waits(t, o) ~> entered[t][o] > 0 \/ vm = "returned"
=============================================================================
