-------------------------- MODULE SyncBlockProofs --------------------------
(***************************************************************************)
(* Proofs about SyncBlock, for any threads, objects, weak references and   *)
(* count width.                                                            *)
(***************************************************************************)
EXTENDS SyncBlock, TLAPS

(* The programs for which locks are safe: every Exit is of a lock that is  *)
(* held, or no object that is locked is also weakly referenced.            *)
SafePrograms == ExitOnlyHeld \/ WeakRefs = {}

(* The owner and count of a block are those of the only thread inside. *)
LockInv ==
  \A o \in Objects :
    /\ \A t \in Threads :
         entered[t][o] > 0 => sync[o] # NULL /\ sync[o].pThread = t
    /\ sync[o] # NULL =>
         sync[o].count = IF sync[o].pThread = NULL THEN 0
                         ELSE entered[sync[o].pThread][o]

Typed ==
  /\ sync \in [Objects -> Sync \cup {NULL}]
  /\ target \in [WeakRefs -> Objects \cup {NULL}]
  /\ entered \in [Threads -> [Objects -> 0 .. MaxDepth]]

IInv ==
  /\ Typed
  /\ WeakListsMatchTargets
  /\ NoUselessBlock
  /\ LockInv

-----------------------------------------------------------------------------
(* The unsigned count. *)

LEMMA ModSmall == \A m \in Nat : \A x \in 0 .. m - 1 : x % m = x
  OBVIOUS

LEMMA ModPred == \A m \in Nat : \A x \in 1 .. m - 1 : (x + m - 1) % m = x - 1
  OBVIOUS

LEMMA ModType == \A m \in Nat : \A x \in Nat : m > 0 => x % m \in 0 .. m - 1
  OBVIOUS

-----------------------------------------------------------------------------
(* The block operations. *)

LEMMA NewSyncType == NewSync \in Sync
  BY SyncBlockAssumption DEF NewSync, Sync

LEMMA EnsureSyncType ==
  ASSUME NEW b \in Sync \cup {NULL}
  PROVE  EnsureSync(b) \in Sync
  BY NewSyncType DEF EnsureSync

(* Entering a block: whoever may enter becomes its owner, one deeper. *)
LEMMA EnteredSyncFacts ==
  ASSUME NEW b \in Sync \cup {NULL}, NEW t \in Threads
  PROVE  /\ EnteredSync(b, t) \in Sync
         /\ EnteredSync(b, t).weakRef = EnsureSync(b).weakRef
         /\ CanEnter(b, t) => EnteredSync(b, t).pThread = t
         /\ ~CanEnter(b, t) => EnteredSync(b, t) = b /\ b # NULL
         /\ EnsureSync(b).pThread = NULL => EnteredSync(b, t).count = 1
         /\ EnsureSync(b).pThread = t
              => EnteredSync(b, t).count = (EnsureSync(b).count + 1) % CountMod
  <1> DEFINE s == EnsureSync(b)
  <1>1. s \in Sync
    BY EnsureSyncType
  <1>2. t # NULL
    BY SyncBlockAssumption
  <1>3. CASE s.pThread = NULL
    <2>1. EnteredSync(b, t) = [pThread |-> t, count |-> 1, weakRef |-> s.weakRef]
      BY <1>3 DEF EnteredSync
    <2> QED
      BY <2>1, <1>1, <1>2, <1>3, SyncBlockAssumption DEF Sync, CanEnter
  <1>4. CASE s.pThread = t
    <2>1. EnteredSync(b, t) = [s EXCEPT !.count = (s.count + 1) % CountMod]
      BY <1>1, <1>2, <1>4 DEF EnteredSync, Sync
    <2>2. (s.count + 1) % CountMod \in 0 .. CountMod - 1
      BY <1>1, ModType, SyncBlockAssumption DEF Sync
    <2> QED
      BY <2>1, <2>2, <1>1, <1>2, <1>4 DEF Sync, CanEnter
  <1>5. CASE s.pThread \notin {NULL, t}
    <2>1. EnteredSync(b, t) = s
      BY <1>5 DEF EnteredSync
    <2>2. b # NULL
      BY <1>5 DEF EnsureSync, NewSync
    <2> QED
      BY <2>1, <2>2, <1>1, <1>2, <1>5 DEF CanEnter, EnsureSync
  <1> QED
    BY <1>3, <1>4, <1>5

LEMMA DeleteSyncFacts ==
  ASSUME NEW b \in Sync
  PROVE  /\ DeleteSync(b) \in Sync \cup {NULL}
         /\ DeleteSync(b) # NULL => DeleteSync(b) = b /\ (b.count # 0 \/ b.weakRef # {})
         /\ DeleteSync(b) = NULL => b.count = 0 /\ b.weakRef = {}
  BY NoSyncBlock DEF DeleteSync, Sync

(* Leaving a block that the thread owns, at a positive depth: one less     *)
(* deep, and the block is freed exactly when nothing else uses it.         *)
LEMMA ExitedSyncFacts ==
  ASSUME NEW b \in Sync, NEW t \in Threads, b.pThread = t, b.count > 0
  PROVE  /\ ExitedSync(b, t) \in Sync \cup {NULL}
         /\ ExitedSync(b, t) = NULL <=> b.count = 1 /\ b.weakRef = {}
         /\ ExitedSync(b, t) # NULL =>
              /\ ExitedSync(b, t).pThread = t
              /\ ExitedSync(b, t).count = b.count - 1
              /\ ExitedSync(b, t).weakRef = b.weakRef
  <1> DEFINE s == [b EXCEPT !.count = (b.count + CountMod - 1) % CountMod]
  <1>1. (b.count + CountMod - 1) % CountMod = b.count - 1
    BY ModPred, SyncBlockAssumption DEF Sync
  <1>2. s = [b EXCEPT !.count = b.count - 1]
    BY <1>1
  <1>3. s \in Sync /\ s.pThread = t /\ s.count = b.count - 1 /\ s.weakRef = b.weakRef
    BY <1>2, SyncBlockAssumption DEF Sync
  <1>4. ExitedSync(b, t) = IF s.count = 0 THEN DeleteSync(s) ELSE s
    BY NoSyncBlock DEF ExitedSync, ExitSucceeds, Sync
  <1>5. b.count = 1 <=> s.count = 0
    BY <1>3 DEF Sync
  <1> HIDE DEF s
  <1> QED
    BY <1>3, <1>4, <1>5, DeleteSyncFacts, NoSyncBlock

-----------------------------------------------------------------------------
(* The inductive invariant. *)

LEMMA InitIInv == Init => IInv
  <1> SUFFICES ASSUME Init PROVE IInv
    OBVIOUS
  <1> USE SyncBlockAssumption DEF Init
  <1>1. Typed
    BY DEF Typed
  <1>2. WeakListsMatchTargets
    BY DEF WeakListsMatchTargets
  <1> QED
    BY <1>1, <1>2 DEF IInv, NoUselessBlock, LockInv

LEMMA StutterStep == IInv /\ UNCHANGED vars => IInv'
  <1> SUFFICES ASSUME IInv, UNCHANGED vars PROVE IInv'
    OBVIOUS
  <1> USE DEF IInv, vars
  <1>1. Typed'
    BY DEF Typed
  <1>2. WeakListsMatchTargets'
    BY DEF WeakListsMatchTargets
  <1>3. NoUselessBlock' /\ LockInv'
    BY DEF NoUselessBlock, LockInv
  <1> QED
    BY <1>1, <1>2, <1>3

LEMMA TryEnterStep ==
  ASSUME IInv, NEW t \in Threads, NEW o \in Objects, SyncTryEnter(t, o)
  PROVE  IInv'
  <1> DEFINE b == sync[o]
             c == EnteredSync(b, t)
  <1> USE DEF IInv
  <1>1. b \in Sync \cup {NULL} /\ t # NULL
    BY SyncBlockAssumption DEF Typed
  <1>2. sync' = [sync EXCEPT ![o] = c] /\ UNCHANGED target
    BY DEF SyncTryEnter
  <1>3. /\ c \in Sync
        /\ c.weakRef = EnsureSync(b).weakRef
    BY <1>1, EnteredSyncFacts
  <1>4. entered[t][o] \in 0 .. MaxDepth /\ entered[t][o] < MaxDepth
    BY DEF Typed, SyncTryEnter
  <1>5. c # NULL
    BY <1>3, NoSyncBlock
  <1>6. CASE ~CanEnter(b, t)
    <2>1. c = b
      BY <1>1, <1>6, EnteredSyncFacts
    <2> HIDE DEF c
    <2>2. sync' = sync
      BY <2>1, <1>2 DEF Typed
    <2>3. entered' = entered
      BY <1>6 DEF SyncTryEnter
    <2> QED
      BY <2>2, <2>3, <1>2, StutterStep DEF vars
  <1>7. CASE CanEnter(b, t)
    <2>1. entered' = [entered EXCEPT ![t][o] = entered[t][o] + 1]
      BY <1>7 DEF SyncTryEnter
    <2>2. c.pThread = t
      BY <1>1, <1>7, EnteredSyncFacts
    <2>3. \A t2 \in Threads : t2 # t => entered[t2][o] = 0
      <3> SUFFICES ASSUME NEW t2 \in Threads, entered[t2][o] # 0
                   PROVE  t2 = t
        OBVIOUS
      <3>1. entered[t2][o] > 0
        BY SyncBlockAssumption DEF Typed
      <3>2. b # NULL /\ b.pThread = t2
        BY <3>1 DEF LockInv
      <3> QED
        BY <3>2, <1>7, SyncBlockAssumption DEF CanEnter, EnsureSync
    <2>4. c.count = entered[t][o] + 1
      <3>1. CASE EnsureSync(b).pThread = NULL
        <4>1. entered[t][o] = 0
          <5> SUFFICES ASSUME entered[t][o] # 0 PROVE FALSE
            OBVIOUS
          <5>1. b # NULL /\ b.pThread = t
            BY <1>4 DEF LockInv
          <5> QED
            BY <5>1, <3>1, <1>1 DEF EnsureSync
        <4> QED
          BY <4>1, <3>1, <1>1, EnteredSyncFacts
      <3>2. CASE EnsureSync(b).pThread = t
        <4>1. b # NULL /\ EnsureSync(b) = b
          BY <3>2, <1>1 DEF EnsureSync, NewSync
        <4>2. b.count = entered[t][o]
          BY <4>1, <3>2, <1>1 DEF LockInv
        <4>3. c.count = (entered[t][o] + 1) % CountMod
          BY <4>1, <4>2, <3>2, <1>1, EnteredSyncFacts
        <4> QED
          BY <4>3, <1>4, ModSmall, SyncBlockAssumption
      <3> QED
        BY <3>1, <3>2, <1>7 DEF CanEnter
    <2> HIDE DEF c
    <2>5. Typed'
      BY <2>1, <1>2, <1>3, <1>4, SyncBlockAssumption DEF Typed
    <2>6. WeakListsMatchTargets'
      <3>1. c.weakRef = IF b = NULL THEN {} ELSE b.weakRef
        BY <1>3 DEF EnsureSync, NewSync
      <3> QED
        BY <3>1, <1>2, <1>5 DEF WeakListsMatchTargets, Typed
    <2>7. NoUselessBlock'
      BY <1>2, <1>4, <2>4 DEF NoUselessBlock, Typed
    <2>8. LockInv'
      <3> SUFFICES ASSUME NEW p \in Objects
                   PROVE  /\ \A u \in Threads : entered'[u][p] > 0 =>
                               sync'[p] # NULL /\ sync'[p].pThread = u
                          /\ sync'[p] # NULL =>
                               sync'[p].count =
                                 IF sync'[p].pThread = NULL THEN 0
                                 ELSE entered'[sync'[p].pThread][p]
        BY DEF LockInv
      <3>1. CASE p = o
        <4>1. sync'[p] = c /\ entered'[t][p] = entered[t][o] + 1
          BY <3>1, <2>1, <1>2 DEF Typed
        <4>2. \A u \in Threads : u # t => entered'[u][p] = 0
          BY <3>1, <2>1, <2>3 DEF Typed
        <4> QED
          BY <4>1, <4>2, <2>2, <2>4, <1>1, <1>5
      <3>2. CASE p # o
        <4>1. sync'[p] = sync[p] /\ \A u \in Threads : entered'[u][p] = entered[u][p]
          BY <3>2, <2>1, <1>2 DEF Typed
        <4>2. sync[p] # NULL => sync[p].pThread \in Threads \cup {NULL}
          BY DEF Typed, Sync
        <4> QED
          BY <4>1, <4>2 DEF LockInv
      <3> QED
        BY <3>1, <3>2
    <2> QED
      BY <2>5, <2>6, <2>7, <2>8
  <1> QED
    BY <1>6, <1>7

(* Under the assumption, a thread whose exit the block accepts is inside:  *)
(* where this fails, an unlocked object can be unlocked once more.         *)
LEMMA AcceptedExitIsInside ==
  ASSUME SafePrograms, IInv, NEW t \in Threads, NEW o \in Objects,
         SyncExit(t, o), ExitSucceeds(sync[o], t)
  PROVE  entered[t][o] > 0 /\ sync[o].count = entered[t][o]
  <1> USE DEF IInv
  <1>1. sync[o] \in Sync /\ sync[o] # NULL /\ sync[o].pThread = t
    BY DEF ExitSucceeds, Typed
  <1>2. sync[o].count = entered[t][o]
    BY <1>1, SyncBlockAssumption DEF LockInv
  <1>3. CASE ExitOnlyHeld
    BY <1>2, <1>3 DEF SyncExit
  <1>4. CASE WeakRefs = {}
    BY <1>1, <1>2, <1>4 DEF NoUselessBlock, Sync
  <1> QED
    BY <1>2, <1>3, <1>4 DEF SafePrograms

LEMMA ExitStep ==
  ASSUME SafePrograms, IInv, NEW t \in Threads, NEW o \in Objects,
         SyncExit(t, o)
  PROVE  IInv'
  <1> DEFINE b == sync[o]
             c == ExitedSync(b, t)
  <1> USE DEF IInv
  <1>1. b \in Sync \cup {NULL} /\ t # NULL /\ entered[t][o] \in 0 .. MaxDepth
    BY SyncBlockAssumption DEF Typed
  <1>2. /\ sync' = [sync EXCEPT ![o] = c]
        /\ entered' = [entered EXCEPT ![t][o] =
                         IF entered[t][o] > 0 THEN entered[t][o] - 1 ELSE 0]
        /\ UNCHANGED target
    BY DEF SyncExit
  <1>3. CASE ~ExitSucceeds(b, t)
    <2>1. c = b
      BY <1>3 DEF ExitedSync
    <2>2. entered[t][o] = 0
      BY <1>1, <1>3 DEF ExitSucceeds, LockInv
    <2> HIDE DEF c
    <2>3. sync' = sync
      BY <1>2, <2>1 DEF Typed
    <2>4. entered' = entered
      BY <1>2, <2>2 DEF Typed
    <2> QED
      BY <2>3, <2>4, <1>2, StutterStep DEF vars
  <1>4. CASE ExitSucceeds(b, t)
    <2>1. b \in Sync /\ b # NULL /\ b.pThread = t
      BY <1>1, <1>4 DEF ExitSucceeds
    <2>2. entered[t][o] > 0 /\ b.count = entered[t][o]
      BY <1>4, AcceptedExitIsInside
    <2>3. /\ c \in Sync \cup {NULL}
          /\ c = NULL <=> b.count = 1 /\ b.weakRef = {}
          /\ c # NULL => /\ c.pThread = t
                         /\ c.count = b.count - 1
                         /\ c.weakRef = b.weakRef
      BY <2>1, <2>2, ExitedSyncFacts
    <2> HIDE DEF c
    <2>4. entered' = [entered EXCEPT ![t][o] = entered[t][o] - 1]
      BY <1>2, <2>2
    <2>5. \A u \in Threads : u # t => entered[u][o] = 0
      <3> SUFFICES ASSUME NEW u \in Threads, entered[u][o] # 0
                   PROVE  u = t
        OBVIOUS
      <3>1. entered[u][o] > 0
        BY SyncBlockAssumption DEF Typed
      <3> QED
        BY <3>1, <2>1 DEF LockInv
    <2>6. Typed'
      <3>1. entered' \in [Threads -> [Objects -> 0 .. MaxDepth]]
        BY <2>4, <2>2, <1>1, SyncBlockAssumption DEF Typed
      <3> QED
        BY <3>1, <1>2, <2>3 DEF Typed
    <2>7. WeakListsMatchTargets'
      BY <2>3, <2>1, <1>2 DEF WeakListsMatchTargets, Typed
    <2>8. NoUselessBlock'
      <3>1. c # NULL => c.count > 0 \/ c.weakRef # {}
        BY <2>3, <2>2, <1>1
      <3> QED
        BY <3>1, <1>2 DEF NoUselessBlock, Typed
    <2>9. LockInv'
      <3> SUFFICES ASSUME NEW p \in Objects
                   PROVE  /\ \A u \in Threads : entered'[u][p] > 0 =>
                               sync'[p] # NULL /\ sync'[p].pThread = u
                          /\ sync'[p] # NULL =>
                               sync'[p].count =
                                 IF sync'[p].pThread = NULL THEN 0
                                 ELSE entered'[sync'[p].pThread][p]
        BY DEF LockInv
      <3>1. CASE p = o
        <4>1. sync'[p] = c /\ entered'[t][p] = entered[t][o] - 1
          BY <3>1, <2>4, <1>2 DEF Typed
        <4>2. \A u \in Threads : u # t => entered'[u][p] = 0
          BY <3>1, <2>4, <2>5 DEF Typed
        <4>3. entered'[t][p] > 0 => c # NULL
          BY <4>1, <2>2, <2>3, <1>1
        <4> QED
          BY <4>1, <4>2, <4>3, <2>2, <2>3, <1>1
      <3>2. CASE p # o
        <4>1. sync'[p] = sync[p] /\ \A u \in Threads : entered'[u][p] = entered[u][p]
          BY <3>2, <2>4, <1>2 DEF Typed
        <4>2. sync[p] # NULL => sync[p].pThread \in Threads \cup {NULL}
          BY DEF Typed, Sync
        <4> QED
          BY <4>1, <4>2 DEF LockInv
      <3> QED
        BY <3>1, <3>2
    <2> QED
      BY <2>6, <2>7, <2>8, <2>9
  <1> QED
    BY <1>3, <1>4

(* What unlinking and linking a weak reference do to a block: the lock in  *)
(* it is untouched, unless the block is freed, when nobody held the lock.  *)
SameLock(c, b) ==
  \/ b # NULL /\ c # NULL /\ c.pThread = b.pThread /\ c.count = b.count
  \/ /\ b # NULL => b.count = 0
     /\ c # NULL => c.pThread = NULL /\ c.count = 0

Listed(b) == IF b = NULL THEN {} ELSE b.weakRef

Useful(b) == b # NULL => b.count > 0 \/ b.weakRef # {}

LEMMA UnlinkFacts ==
  ASSUME NEW b \in Sync, NEW w \in WeakRefs
  PROVE  /\ UnlinkSync(b, w) \in Sync \cup {NULL}
         /\ SameLock(UnlinkSync(b, w), b)
         /\ Listed(UnlinkSync(b, w)) = Listed(b) \ {w}
         /\ Useful(UnlinkSync(b, w))
  <1> DEFINE s == [b EXCEPT !.weakRef = b.weakRef \ {w}]
  <1>1. /\ s \in Sync
        /\ s.pThread = b.pThread /\ s.count = b.count /\ s.weakRef = b.weakRef \ {w}
    BY DEF Sync
  <1>2. UnlinkSync(b, w) = DeleteSync(s)
    BY DEF UnlinkSync
  <1>3. b # NULL /\ s # NULL
    BY <1>1, NoSyncBlock
  <1>4. b.count \in Nat
    BY SyncBlockAssumption DEF Sync
  <1> HIDE DEF s
  <1>5. CASE DeleteSync(s) = NULL
    <2>1. s.count = 0 /\ s.weakRef = {}
      BY <1>1, <1>5, DeleteSyncFacts
    <2> QED
      BY <2>1, <1>1, <1>2, <1>3, <1>5 DEF SameLock, Listed, Useful
  <1>6. CASE DeleteSync(s) # NULL
    <2>1. DeleteSync(s) = s /\ (s.count # 0 \/ s.weakRef # {})
      BY <1>1, <1>6, DeleteSyncFacts
    <2> QED
      BY <2>1, <1>1, <1>2, <1>3, <1>4 DEF SameLock, Listed, Useful
  <1> QED
    BY <1>5, <1>6

LEMMA LinkFacts ==
  ASSUME NEW b \in Sync \cup {NULL}, NEW w \in WeakRefs
  PROVE  /\ LinkSync(b, w) \in Sync
         /\ SameLock(LinkSync(b, w), b)
         /\ Listed(LinkSync(b, w)) = Listed(b) \cup {w}
         /\ Useful(LinkSync(b, w))
  <1> DEFINE s == EnsureSync(b)
             c == [s EXCEPT !.weakRef = s.weakRef \cup {w}]
  <1>1. s \in Sync
    BY EnsureSyncType
  <1>2. LinkSync(b, w) = c
    BY DEF LinkSync
  <1>3. /\ c \in Sync /\ c # NULL
        /\ c.pThread = s.pThread /\ c.count = s.count /\ c.weakRef = s.weakRef \cup {w}
    BY <1>1, NoSyncBlock DEF Sync
  <1>4. CASE b = NULL
    <2>1. s.pThread = NULL /\ s.count = 0 /\ s.weakRef = {}
      BY <1>4 DEF EnsureSync, NewSync
    <2> HIDE DEF s, c
    <2> QED
      BY <2>1, <1>2, <1>3, <1>4 DEF SameLock, Listed, Useful
  <1>5. CASE b # NULL
    <2>1. s = b
      BY <1>5 DEF EnsureSync
    <2> HIDE DEF s, c
    <2> QED
      BY <2>1, <1>2, <1>3, <1>5 DEF SameLock, Listed, Useful
  <1> QED
    BY <1>4, <1>5

LEMMA SameLockTrans ==
  ASSUME NEW a, NEW b, NEW c, SameLock(c, b), SameLock(b, a)
  PROVE  SameLock(c, a)
  BY DEF SameLock

SetTargetBlock(w, o, p) ==
  LET s1 == IF p = target[w] THEN UnlinkSync(sync[p], w) ELSE sync[p]
  IN IF p = o THEN LinkSync(s1, w) ELSE s1

LEMMA SetTargetStep ==
  ASSUME IInv, NEW w \in WeakRefs, NEW o \in Objects \cup {NULL}, SetTarget(w, o)
  PROVE  IInv'
  <1> USE DEF IInv
  <1>1. InTargetList(w)
    BY DEF SetTarget
  <1>2. /\ sync' = Linked(Unlinked(w), w, o)
        /\ target' = [target EXCEPT ![w] = o]
        /\ entered' = entered
    BY DEF SetTarget
  <1>3. NULL \notin Objects
    BY SyncBlockAssumption
  <1>4. /\ sync' = [p \in Objects |-> sync'[p]]
        /\ \A p \in Objects : sync'[p] = SetTargetBlock(w, o, p)
    <2>1. /\ Unlinked(w) = [p \in Objects |-> Unlinked(w)[p]]
          /\ \A p \in Objects :
               Unlinked(w)[p] = IF p = target[w] THEN UnlinkSync(sync[p], w) ELSE sync[p]
      BY <1>3 DEF Unlinked, Typed
    <2> QED
      BY <2>1, <1>2, <1>3 DEF Linked, SetTargetBlock
  <1>5. ASSUME NEW p \in Objects
        PROVE  /\ sync'[p] \in Sync \cup {NULL}
               /\ SameLock(sync'[p], sync[p])
               /\ Listed(sync'[p]) = IF p = o THEN Listed(sync[p]) \cup {w}
                                     ELSE Listed(sync[p]) \ {w}
               /\ Useful(sync'[p])
    <2> DEFINE s1 == IF p = target[w] THEN UnlinkSync(sync[p], w) ELSE sync[p]
    <2>1. sync[p] \in Sync \cup {NULL}
      BY DEF Typed
    <2>2. p = target[w] => sync[p] \in Sync
      BY <1>1, <2>1, <1>3 DEF InTargetList
    <2>3. p # target[w] => w \notin Listed(sync[p])
      BY DEF WeakListsMatchTargets, Listed
    <2>4. SameLock(sync[p], sync[p]) /\ Useful(sync[p])
      BY DEF SameLock, Useful, NoUselessBlock
    <2>5. /\ s1 \in Sync \cup {NULL}
          /\ SameLock(s1, sync[p])
          /\ Listed(s1) = Listed(sync[p]) \ {w}
          /\ Useful(s1)
      <3>1. CASE p = target[w]
        BY <2>2, <3>1, UnlinkFacts
      <3>2. CASE p # target[w]
        BY <2>1, <2>3, <2>4, <3>2
      <3> QED
        BY <3>1, <3>2
    <2>6. sync'[p] = IF p = o THEN LinkSync(s1, w) ELSE s1
      BY <1>4 DEF SetTargetBlock
    <2> HIDE DEF s1
    <2>7. CASE p = o
      <3>1. /\ LinkSync(s1, w) \in Sync
            /\ SameLock(LinkSync(s1, w), s1)
            /\ Listed(LinkSync(s1, w)) = Listed(s1) \cup {w}
            /\ Useful(LinkSync(s1, w))
        BY <2>5, LinkFacts
      <3>2. SameLock(LinkSync(s1, w), sync[p])
        BY <3>1, <2>5, SameLockTrans
      <3> QED
        BY <3>1, <3>2, <2>5, <2>6, <2>7
    <2>8. CASE p # o
      BY <2>5, <2>6, <2>8
    <2> QED
      BY <2>7, <2>8
  <1>6. Typed'
    BY <1>2, <1>4, <1>5 DEF Typed
  <1>7. WeakListsMatchTargets'
    <2> SUFFICES ASSUME NEW v \in WeakRefs, NEW p \in Objects
                 PROVE  target'[v] = p <=> v \in Listed(sync'[p])
      BY NoSyncBlock DEF WeakListsMatchTargets, Listed
    <2>1. target[v] = p <=> v \in Listed(sync[p])
      BY DEF WeakListsMatchTargets, Listed
    <2>2. target'[v] = IF v = w THEN o ELSE target[v]
      BY <1>2 DEF Typed
    <2> QED
      BY <2>1, <2>2, <1>5
  <1>8. NoUselessBlock'
    BY <1>5 DEF NoUselessBlock, Useful
  <1>9. LockInv'
    <2> SUFFICES ASSUME NEW p \in Objects
                 PROVE  /\ \A u \in Threads : entered[u][p] > 0 =>
                             sync'[p] # NULL /\ sync'[p].pThread = u
                        /\ sync'[p] # NULL =>
                             sync'[p].count =
                               IF sync'[p].pThread = NULL THEN 0
                               ELSE entered[sync'[p].pThread][p]
      BY <1>2 DEF LockInv
    <2>1. SameLock(sync'[p], sync[p])
      BY <1>5
    <2>2. \A u \in Threads : entered[u][p] > 0 =>
             sync[p] # NULL /\ sync[p].pThread = u /\ sync[p].count > 0
      BY <1>3, SyncBlockAssumption DEF LockInv
    <2>3. sync[p] # NULL =>
            sync[p].count = IF sync[p].pThread = NULL THEN 0
                            ELSE entered[sync[p].pThread][p]
      BY DEF LockInv
    <2>4. CASE sync[p] # NULL /\ sync'[p] # NULL
               /\ sync'[p].pThread = sync[p].pThread /\ sync'[p].count = sync[p].count
      BY <2>2, <2>3, <2>4
    <2>5. CASE /\ sync[p] # NULL => sync[p].count = 0
               /\ sync'[p] # NULL => sync'[p].pThread = NULL /\ sync'[p].count = 0
      BY <2>2, <2>5
    <2> QED
      BY <2>1, <2>4, <2>5 DEF SameLock
  <1> QED
    BY <1>6, <1>7, <1>8, <1>9

LEMMA NextIInv ==
  ASSUME SafePrograms, IInv, [Next]_vars
  PROVE  IInv'
  <1>1. CASE UNCHANGED vars
    BY <1>1, StutterStep
  <1>2. CASE \E t \in Threads, o \in Objects : SyncTryEnter(t, o) \/ SyncExit(t, o)
    BY <1>2, TryEnterStep, ExitStep
  <1>3. CASE \E w \in WeakRefs, o \in Objects \cup {NULL} : SetTarget(w, o)
    BY <1>3, SetTargetStep
  <1> QED
    BY <1>1, <1>2, <1>3 DEF Next

THEOREM Invariance ==
  ASSUME SafePrograms
  PROVE  Spec => []IInv
  <1>1. Init => IInv
    BY InitIInv
  <1>2. IInv /\ [Next]_vars => IInv'
    BY NextIInv
  <1> QED
    BY <1>1, <1>2, PTL DEF Spec

(* Every reachable state is well typed, and a block without an owner has   *)
(* no entries left to count.                                               *)
THEOREM TypeCorrect ==
  ASSUME SafePrograms
  PROVE  Spec => []TypeOK
  <1>1. IInv => TypeOK
    BY DEF IInv, Typed, LockInv, TypeOK
  <1> QED
    BY <1>1, Invariance, PTL

(* Monitor.Enter excludes every other thread until Monitor.Exit, whatever  *)
(* the weak references to the locked objects do.                           *)
THEOREM Exclusion ==
  ASSUME SafePrograms
  PROVE  Spec => []MutualExclusion
  <1>1. IInv => MutualExclusion
    BY DEF IInv, LockInv, MutualExclusion
  <1> QED
    BY <1>1, Invariance, PTL

(* The block of a lock that is held stays, and says who holds it, how deep. *)
THEOREM HeldBlocksStay ==
  ASSUME SafePrograms
  PROVE  Spec => []HeldBlockAgrees
  <1>1. IInv => HeldBlockAgrees
    BY SyncBlockAssumption DEF IInv, LockInv, HeldBlockAgrees
  <1> QED
    BY <1>1, Invariance, PTL

(* The weak list of an object holds exactly the references that target it:  *)
(* set_Target always finds the entry it unlinks.                           *)
THEOREM WeakListsConsistent ==
  ASSUME SafePrograms
  PROVE  Spec => []WeakListsMatchTargets
  BY Invariance, PTL DEF IInv

(* No block outlives its last use. *)
THEOREM BlocksFreed ==
  ASSUME SafePrograms
  PROVE  Spec => []NoUselessBlock
  BY Invariance, PTL DEF IInv

-----------------------------------------------------------------------------
(* Refinement: every step is a step of the abstract monitor or none. *)

MonitorHolder == [o \in Objects |-> IF Inside(o) THEN sync[o].pThread ELSE NULL]
MonitorDepth == [o \in Objects |-> IF Inside(o) THEN sync[o].count ELSE 0]

LEMMA InitRefines == Init => Monitor!MonitorInit
  BY DEF Init, Monitor!MonitorInit, Inside

(* In a reachable state the abstract monitor is what the threads believe. *)
AbstractAgrees ==
  \A o \in Objects :
    /\ \A t \in Threads : entered[t][o] > 0 <=> Inside(o) /\ sync[o].pThread = t
    /\ Inside(o) => /\ sync[o].pThread \in Threads
                   /\ sync[o].count = entered[sync[o].pThread][o]

LEMMA AbstractState == IInv => AbstractAgrees
  <1> SUFFICES ASSUME IInv, NEW o \in Objects
               PROVE  /\ \A t \in Threads :
                           entered[t][o] > 0 <=> Inside(o) /\ sync[o].pThread = t
                      /\ Inside(o) => /\ sync[o].pThread \in Threads
                                     /\ sync[o].count = entered[sync[o].pThread][o]
    BY DEF AbstractAgrees
  <1> USE DEF IInv, Inside
  <1>1. sync[o] # NULL => /\ sync[o].pThread \in Threads \cup {NULL}
                         /\ sync[o].count \in Nat
    BY SyncBlockAssumption DEF Typed, Sync
  <1> QED
    BY <1>1, SyncBlockAssumption DEF LockInv

LEMMA AbstractStateNext == IInv' => AbstractAgrees'
  BY AbstractState, PTL

(* The abstract monitor of an object depends only on what threads believe. *)
LEMMA UnchangedRefines ==
  ASSUME IInv, IInv', NEW o \in Objects,
         \A t \in Threads : entered'[t][o] = entered[t][o]
  PROVE  /\ MonitorHolder'[o] = MonitorHolder[o]
         /\ MonitorDepth'[o] = MonitorDepth[o]
  <1>1. AbstractAgrees /\ AbstractAgrees'
    BY AbstractState, AbstractStateNext
  <1>2. CASE Inside(o)
    <2>1. entered[sync[o].pThread][o] > 0 /\ sync[o].pThread \in Threads
      BY <1>1, <1>2 DEF AbstractAgrees
    <2>2. Inside(o)' /\ sync'[o].pThread = sync[o].pThread
      BY <1>1, <2>1 DEF AbstractAgrees
    <2>3. sync'[o].count = sync[o].count
      BY <1>1, <1>2, <2>1, <2>2 DEF AbstractAgrees
    <2> QED
      BY <1>2, <2>2, <2>3 DEF MonitorHolder, MonitorDepth
  <1>3. CASE ~Inside(o)
    <2>1. \A t \in Threads : ~(entered[t][o] > 0)
      BY <1>1, <1>3 DEF AbstractAgrees
    <2>2. ~Inside(o)'
      BY <1>1, <2>1 DEF AbstractAgrees
    <2> QED
      BY <1>3, <2>2 DEF MonitorHolder, MonitorDepth
  <1> QED
    BY <1>2, <1>3

LEMMA StepRefines ==
  ASSUME SafePrograms, IInv, IInv', [Next]_vars
  PROVE  [Monitor!MonitorNext]_<<MonitorHolder, MonitorDepth>>
  <1> DEFINE H == MonitorHolder
             D == MonitorDepth
  <1>1. AbstractAgrees /\ AbstractAgrees' /\ Typed /\ Typed'
    BY AbstractState, AbstractStateNext DEF IInv
  <1>2. /\ H = [o \in Objects |-> H[o]] /\ H' = [o \in Objects |-> H'[o]]
        /\ D = [o \in Objects |-> D[o]] /\ D' = [o \in Objects |-> D'[o]]
    BY DEF MonitorHolder, MonitorDepth
  <1>3. CASE \A t \in Threads, o \in Objects : entered'[t][o] = entered[t][o]
    <2>1. \A o \in Objects : H'[o] = H[o] /\ D'[o] = D[o]
      BY <1>3, UnchangedRefines
    <2> HIDE DEF H, D
    <2>2. H' = H /\ D' = D
      BY <1>2, <2>1
    <2> QED
      BY <2>2 DEF H, D
  <1>4. ASSUME NEW t \in Threads, NEW o \in Objects,
               entered' = [entered EXCEPT ![t][o] = entered[t][o] + 1]
        PROVE  Monitor!Acquire(t, o)
    <2>1. \A p \in Objects \ {o} : H'[p] = H[p] /\ D'[p] = D[p]
      <3> SUFFICES ASSUME NEW p \in Objects \ {o}
                   PROVE  H'[p] = H[p] /\ D'[p] = D[p]
        OBVIOUS
      <3>1. \A u \in Threads : entered'[u][p] = entered[u][p]
        BY <1>1, <1>4 DEF Typed
      <3> QED
        BY <3>1, UnchangedRefines
    <2>2. entered'[t][o] = entered[t][o] + 1 /\ entered[t][o] \in Nat
      BY <1>1, <1>4, SyncBlockAssumption DEF Typed
    <2>3. H'[o] = t /\ D'[o] = entered[t][o] + 1
      <3>1. Inside(o)' /\ sync'[o].pThread = t
        BY <1>1, <2>2 DEF AbstractAgrees
      <3> QED
        BY <3>1, <2>2, <1>1 DEF AbstractAgrees, MonitorHolder, MonitorDepth
    <2>4. /\ H[o] \in {NULL, t}
          /\ D[o] = entered[t][o]
      <3>1. CASE Inside(o)
        <4>1. /\ sync[o].pThread \in Threads /\ entered[sync[o].pThread][o] > 0
              /\ sync[o].count = entered[sync[o].pThread][o]
          BY <1>1, <3>1 DEF AbstractAgrees
        <4>2. sync[o].pThread = t
          <5> SUFFICES ASSUME sync[o].pThread # t PROVE FALSE
            OBVIOUS
          <5>1. entered'[sync[o].pThread][o] = entered[sync[o].pThread][o]
            BY <1>1, <1>4, <4>1 DEF Typed
          <5>2. Inside(o)' /\ sync'[o].pThread = sync[o].pThread
            BY <1>1, <4>1, <5>1 DEF AbstractAgrees
          <5>3. sync'[o].pThread = t
            BY <1>1, <2>2 DEF AbstractAgrees
          <5> QED
            BY <5>2, <5>3
        <4> QED
          BY <3>1, <4>1, <4>2 DEF MonitorHolder, MonitorDepth
      <3>2. CASE ~Inside(o)
        <4>1. entered[t][o] = 0
          BY <1>1, <2>2, <3>2 DEF AbstractAgrees
        <4> QED
          BY <4>1, <3>2 DEF MonitorHolder, MonitorDepth
      <3> QED
        BY <3>1, <3>2
    <2> HIDE DEF H, D
    <2>5. /\ H' = [H EXCEPT ![o] = t]
          /\ D' = [D EXCEPT ![o] = D[o] + 1]
      BY <1>2, <2>1, <2>3, <2>4
    <2> QED
      BY <2>4, <2>5 DEF Monitor!Acquire, H, D, MonitorHolder, MonitorDepth
  <1>5. ASSUME NEW t \in Threads, NEW o \in Objects, entered[t][o] > 0,
               entered' = [entered EXCEPT ![t][o] = entered[t][o] - 1]
        PROVE  Monitor!Release(t, o)
    <2>1. \A p \in Objects \ {o} : H'[p] = H[p] /\ D'[p] = D[p]
      <3> SUFFICES ASSUME NEW p \in Objects \ {o}
                   PROVE  H'[p] = H[p] /\ D'[p] = D[p]
        OBVIOUS
      <3>1. \A u \in Threads : entered'[u][p] = entered[u][p]
        BY <1>1, <1>5 DEF Typed
      <3> QED
        BY <3>1, UnchangedRefines
    <2>2. entered'[t][o] = entered[t][o] - 1 /\ entered[t][o] \in Nat
      BY <1>1, <1>5, SyncBlockAssumption DEF Typed
    <2>3. Inside(o) /\ sync[o].pThread = t
      BY <1>1, <1>5 DEF AbstractAgrees
    <2>4. H[o] = t /\ D[o] = entered[t][o]
      BY <1>1, <2>3 DEF AbstractAgrees, MonitorHolder, MonitorDepth
    <2>5. /\ H'[o] = IF entered[t][o] = 1 THEN NULL ELSE t
          /\ D'[o] = entered[t][o] - 1
      <3>1. CASE entered[t][o] = 1
        <4>1. ~Inside(o)'
          <5> SUFFICES ASSUME Inside(o)' PROVE FALSE
            OBVIOUS
          <5> DEFINE u == sync'[o].pThread
          <5>1. u \in Threads /\ entered'[u][o] > 0
            BY <1>1 DEF AbstractAgrees
          <5>2. u # t
            BY <5>1, <2>2, <3>1
          <5>3. entered[u][o] > 0
            BY <1>1, <1>5, <5>1, <5>2 DEF Typed
          <5>4. sync[o].pThread = u
            BY <1>1, <5>1, <5>3 DEF AbstractAgrees
          <5> QED
            BY <5>2, <5>4, <2>3
        <4> QED
          BY <3>1, <4>1 DEF MonitorHolder, MonitorDepth
      <3>2. CASE entered[t][o] # 1
        <4>1. Inside(o)' /\ sync'[o].pThread = t
          BY <1>1, <1>5, <2>2, <3>2 DEF AbstractAgrees
        <4> QED
          BY <1>1, <2>2, <3>2, <4>1 DEF AbstractAgrees, MonitorHolder, MonitorDepth
      <3> QED
        BY <3>1, <3>2
    <2> HIDE DEF H, D
    <2>6. /\ H' = [H EXCEPT ![o] = IF D[o] = 1 THEN NULL ELSE t]
          /\ D' = [D EXCEPT ![o] = D[o] - 1]
      BY <1>2, <2>1, <2>4, <2>5
    <2> QED
      BY <1>5, <2>4, <2>6 DEF Monitor!Release, H, D, MonitorHolder, MonitorDepth
  <1>6. CASE entered' = entered
    BY <1>3, <1>6
  <1>7. ASSUME NEW t \in Threads, NEW o \in Objects, SyncTryEnter(t, o)
        PROVE  Monitor!MonitorNext \/ entered' = entered
    BY <1>4, <1>7 DEF SyncTryEnter, Monitor!MonitorNext
  <1>8. ASSUME NEW t \in Threads, NEW o \in Objects, SyncExit(t, o)
        PROVE  Monitor!MonitorNext \/ entered' = entered
    <2>1. CASE entered[t][o] > 0
      BY <1>5, <1>8, <2>1 DEF SyncExit, Monitor!MonitorNext
    <2>2. CASE ~(entered[t][o] > 0)
      <3>1. entered[t][o] = 0
        BY <2>2, <1>1, SyncBlockAssumption DEF Typed
      <3> QED
        BY <1>1, <1>8, <3>1 DEF SyncExit, Typed
    <2> QED
      BY <2>1, <2>2
  <1>9. ASSUME NEW w \in WeakRefs, NEW o \in Objects \cup {NULL}, SetTarget(w, o)
        PROVE  entered' = entered
    BY <1>9 DEF SetTarget
  <1> HIDE DEF H, D
  <1>10. Monitor!MonitorNext \/ entered' = entered
    BY <1>7, <1>8, <1>9 DEF Next, vars
  <1> QED
    BY <1>6, <1>10 DEF H, D

(* The sync blocks implement one re-entrant lock per object. *)
THEOREM Refinement ==
  ASSUME SafePrograms
  PROVE  Spec => ImplementsMonitor
  <1>1. Init => Monitor!MonitorInit
    BY InitRefines
  <1>2. IInv /\ IInv' /\ [Next]_vars => [Monitor!MonitorNext]_(Monitor!mvars)
    BY StepRefines DEF Monitor!mvars, MonitorHolder, MonitorDepth
  <1> QED
    BY <1>1, <1>2, Invariance, PTL DEF Spec, ImplementsMonitor, Monitor!MonitorSafety
=============================================================================
