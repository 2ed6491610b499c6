----------------------------- MODULE SyncBlock -----------------------------
(***************************************************************************)
(* The sync blocks of Heap.c and the weak-reference lists that share them. *)
(*                                                                         *)
(* A heap object has no sync block until it is first locked or first       *)
(* targeted by a WeakReference.  The block records the owner thread, how   *)
(* many times the owner entered, and the weak references to the object; it *)
(* is freed when it serves neither purpose.  The operations are native     *)
(* calls of the interpreter, which a green thread executes without being   *)
(* preempted, so each is one atomic action of whichever thread runs.       *)
(***************************************************************************)
EXTENDS Naturals

CONSTANTS Threads,      \* managed threads
          Objects,      \* heap objects that are locked or weakly referenced
          WeakRefs,     \* WeakReference objects
          NULL,         \* the null pointer: no thread, no object, no block
          CountMod,     \* 2^32 in the code: the width of tSync.count
          MaxDepth,     \* bound: how deep a thread nests Monitor.Enter
          ExitOnlyHeld  \* do the threads only Exit what they entered?

ASSUME SyncBlockAssumption ==
  /\ NULL \notin Threads \cup Objects \cup WeakRefs
  /\ MaxDepth \in Nat
  /\ CountMod \in Nat
  /\ MaxDepth < CountMod
  /\ CountMod > 1
  /\ ExitOnlyHeld \in BOOLEAN

VARIABLES
          sync,     \* tHeapEntry.pSync of every object
          target,   \* tWeakRef.target of every weak reference
          entered   \* entered[t][o]: what the code of thread t believes, the
                    \* successful Enters it made minus the Exits

vars == <<sync, target, entered>>

Sync == [pThread : Threads \cup {NULL}, count : 0 .. CountMod - 1,
         weakRef : SUBSET WeakRefs]

(* NULL stands for "no block", which needs to differ from every block.     *)
ASSUME NoSyncBlock == NULL \notin Sync

(* A block that nobody owns counts no entries: DeleteSync looks only at    *)
(* the count.                                                              *)
TypeOK ==
  /\ sync \in [Objects -> Sync \cup {NULL}]
  /\ target \in [WeakRefs -> Objects \cup {NULL}]
  /\ entered \in [Threads -> [Objects -> 0 .. MaxDepth]]
  /\ \A o \in Objects :
       sync[o] # NULL /\ sync[o].pThread = NULL => sync[o].count = 0

Init ==
  /\ sync = [o \in Objects |-> NULL]
  /\ target = [w \in WeakRefs |-> NULL]
  /\ entered = [t \in Threads |-> [o \in Objects |-> 0]]

-----------------------------------------------------------------------------
(* Blocks. *)

(* Mutant: the count of a new block is whatever malloc returned. *)
NewSyncNotZeroed == [pThread |-> NULL, count |-> 1, weakRef |-> {}]

NewSync == [pThread |-> NULL, count |-> 0, weakRef |-> {}]

(* The block of an object, allocated and zeroed if there is none. *)
EnsureSync(b) == IF b = NULL THEN NewSync ELSE b

(* Mutants: freeing a block without looking at its other use. *)
DeleteSyncIfNoWeakRef(b) == IF b # NULL /\ b.weakRef = {} THEN NULL ELSE b
DeleteSyncIfNoLock(b) == IF b # NULL /\ b.count = 0 THEN NULL ELSE b

(* The block after an attempt to free it. *)
DeleteSync(b) ==
  IF b # NULL /\ b.count = 0 /\ b.weakRef = {} THEN NULL ELSE b

CanEnter(b, t) == EnsureSync(b).pThread \in {NULL, t}

(* Mutant: entering again is not counted. *)
EnteredSyncNoNesting(b, t) ==
  LET s == EnsureSync(b) IN
  IF s.pThread = NULL THEN [pThread |-> t, count |-> 1, weakRef |-> s.weakRef] ELSE s

(* The block after thread t tried to enter it. *)
EnteredSync(b, t) ==
  LET s == EnsureSync(b) IN
  IF s.pThread = NULL
  THEN [pThread |-> t, count |-> 1, weakRef |-> s.weakRef]
  ELSE IF s.pThread = t THEN [s EXCEPT !.count = (@ + 1) % CountMod] ELSE s

(* What Heap_SyncExit returns to thread t. *)
ExitSucceeds(b, t) == b # NULL /\ b.pThread = t

(* Mutant: the first exit gives the lock up. *)
ExitedSyncAtOnce(b, t) ==
  IF ~ExitSucceeds(b, t) THEN b ELSE DeleteSync([b EXCEPT !.count = 0])

(* The block after thread t left it: the count is an unsigned integer, and *)
(* the owner stays recorded when the block survives.                       *)
ExitedSync(b, t) ==
  IF ~ExitSucceeds(b, t) THEN b
  ELSE LET s == [b EXCEPT !.count = (@ + CountMod - 1) % CountMod]
       IN IF s.count = 0 THEN DeleteSync(s) ELSE s

-----------------------------------------------------------------------------
(* Monitor operations of a thread. *)

SyncTryEnter(t, o) ==
  /\ entered[t][o] < MaxDepth
  /\ sync' = [sync EXCEPT ![o] = EnteredSync(@, t)]
  /\ entered' = IF CanEnter(sync[o], t)
                THEN [entered EXCEPT ![t][o] = @ + 1]
                ELSE entered
  /\ UNCHANGED target

(* The result of Heap_SyncExit is not looked at by Monitor.Exit: the thread *)
(* believes that it left.                                                   *)
SyncExit(t, o) ==
  /\ ExitOnlyHeld => entered[t][o] > 0
  /\ sync' = [sync EXCEPT ![o] = ExitedSync(@, t)]
  /\ entered' = [entered EXCEPT ![t][o] = IF @ > 0 THEN @ - 1 ELSE 0]
  /\ UNCHANGED target

(* Mutant: the block is kept. *)
UnlinkSyncKeep(b, w) == [b EXCEPT !.weakRef = @ \ {w}]

(* WeakReference.Target = o, o possibly null.  The old target gives up its *)
(* list entry, and its block if nothing else needs it, before the new one  *)
(* is linked; both may be the same object.                                 *)
UnlinkSync(b, w) == DeleteSync([b EXCEPT !.weakRef = @ \ {w}])

LinkSync(b, w) == [EnsureSync(b) EXCEPT !.weakRef = @ \cup {w}]

Unlinked(w) ==
  IF target[w] = NULL THEN sync
  ELSE [sync EXCEPT ![target[w]] = UnlinkSync(@, w)]

Linked(s, w, o) == IF o = NULL THEN s ELSE [s EXCEPT ![o] = LinkSync(@, w)]

(* The search of set_Target succeeds; it ends in Crash, or in a null       *)
(* block, when the weak reference is not in the list of its target.        *)
InTargetList(w) ==
  LET old == target[w] IN
  old # NULL => sync[old] # NULL /\ w \in sync[old].weakRef

SetTarget(w, o) ==
  /\ InTargetList(w)
  /\ sync' = Linked(Unlinked(w), w, o)
  /\ target' = [target EXCEPT ![w] = o]
  /\ UNCHANGED entered

Next ==
  \/ \E t \in Threads, o \in Objects : SyncTryEnter(t, o) \/ SyncExit(t, o)
  \/ \E w \in WeakRefs, o \in Objects \cup {NULL} : SetTarget(w, o)

Spec == Init /\ [][Next]_vars

-----------------------------------------------------------------------------
(* Properties *)

(* No two threads believe they are inside the same object: the promise of  *)
(* Monitor.Enter to the code between it and Monitor.Exit.                  *)
MutualExclusion ==
  \A o \in Objects, t1, t2 \in Threads :
    entered[t1][o] > 0 /\ entered[t2][o] > 0 => t1 = t2

(* While a thread is inside an object, the object has a block that names   *)
(* it, with the depth the thread counts on: Heap_SyncExit never frees the  *)
(* block of a lock that is held, whatever weak references come and go.     *)
HeldBlockAgrees ==
  \A t \in Threads, o \in Objects :
    entered[t][o] > 0 =>
      /\ sync[o] # NULL
      /\ sync[o].pThread = t
      /\ sync[o].count = entered[t][o]

(* Every block still serves a lock or a weak reference: DeleteSync is      *)
(* called wherever the last use of a block ends (a block is never leaked). *)
NoUselessBlock ==
  \A o \in Objects :
    sync[o] # NULL => sync[o].count > 0 \/ sync[o].weakRef # {}

(* The weak-reference list kept in the block of an object holds exactly    *)
(* the references that target it, whatever happens to the lock in the same *)
(* block, so that the search of set_Target never ends in Crash.            *)
WeakListsMatchTargets ==
  \A w \in WeakRefs, o \in Objects :
    target[w] = o <=> sync[o] # NULL /\ w \in sync[o].weakRef

(* The sync blocks implement the abstract monitor: what the threads see of *)
(* them is one re-entrant lock per object.                                 *)
Inside(o) == sync[o] # NULL /\ sync[o].count > 0

Monitor == INSTANCE MonitorSpec WITH
  holder <- [o \in Objects |-> IF Inside(o) THEN sync[o].pThread ELSE NULL],
  depth <- [o \in Objects |-> IF Inside(o) THEN sync[o].count ELSE 0]

ImplementsMonitor == Monitor!MonitorSafety
=============================================================================
