--------------------------- MODULE CollectorProofs ---------------------------
(***************************************************************************)
(* Proofs about Collector, for any addresses and any number of roots.      *)
(*                                                                         *)
(* They come in three layers, each with the hypotheses it needs:           *)
(*   the types and the marks that GC_Mark sets, of any program;            *)
(*   the finalizer queue, of a program that suppresses no finalizer that   *)
(*   is queued;                                                            *)
(*   references, of a program that is Orderly.                             *)
(* The invariants are stated of a heap h, a queue q, the finalizers r that *)
(* run and the slots s, so that an allocation and the finalizer that       *)
(* follows it are reasoned about one by one.                               *)
(***************************************************************************)
EXTENDS Collector, FiniteSetTheorems, SequenceTheorems, TLAPS

Heaps == [Objs -> Entry \cup {NULL}]

(* An entry outside what its type may be: only undeletable objects are     *)
(* pinned, only some types have finalizers and references.                 *)
Fits(e) ==
  /\ e.marked = 255 => e.type = "undeletable"
  /\ e.needToFinalize # 0 => e.type \in WeakTypes \cup {"finalizable"}
  /\ e.ref # NULL => e.type \in HoldRefs \cup WeakTypes

EntriesFit(h) == \A o \in Alive(h) : Fits(h[o])

(* The pointers that GC_Mark has yet to look up. *)
Pending(rs) == UNION {rs[i] : i \in DOMAIN rs}

Found(h, rs, o) == h[o].marked # 0 \/ o \in Pending(rs)

(* The roots and the references of marked objects are marked or pending,   *)
(* and only what can be reached is.                                        *)
MarksOK(h, rs) ==
  /\ \A o \in Roots \cap Alive(h) : Found(h, rs, o)
  /\ \A p \in Alive(h) :
       h[p].marked = 1 /\ h[p].type \notin WeakTypes /\ h[p].ref \in Alive(h) =>
         Found(h, rs, h[p].ref)
  /\ \A o \in Alive(h) : h[o].marked = 1 => o \in Reachable
  /\ Pending(rs) \cap Objs \subseteq Reachable

MarkInv ==
  /\ TypeOK
  /\ EntriesFit(heap)
  /\ gc = "mark" => MarksOK(heap, roots)

IsQueued(q, o) == \E i \in DOMAIN q : q[i] = o

QueueOK(h, q, r) ==
  /\ \A i, j \in DOMAIN q : q[i] = q[j] => i = j
  /\ \A i \in DOMAIN q : q[i] \in Alive(h) /\ h[q[i]].needToFinalize = 2
  /\ \A o \in Alive(h) : h[o].needToFinalize = 2 => (o \in r <=> ~IsQueued(q, o))

(* A finalizer has run of no object that waits for it or was never queued. *)
OnceOK(h, q, r) ==
  \A o \in Alive(h) :
    /\ h[o].finalized <= 1
    /\ h[o].needToFinalize = 1 => h[o].finalized = 0 /\ o \notin r
    /\ IsQueued(q, o) => h[o].finalized = 0

QueueGood(h, q, r) ==
  /\ r \subseteq Alive(h)
  /\ QueueOK(h, q, r)
  /\ OnceOK(h, q, r)

QueueInv == QueueGood(heap, queue, running)

(* A weak reference has a target of the right type, and none when its      *)
(* finalizer has run.                                                      *)
TargetsFit(h) ==
  \A w \in Alive(h) :
    h[w].type \in WeakTypes =>
      /\ h[w].ref # NULL => h[w].ref \in Alive(h) /\ h[h[w].ref].type \in Targets
      /\ h[w].needToFinalize = 0 => h[w].ref = NULL

NoDangling(h, s) ==
  /\ \A x \in Slots : s[x] \in Alive(h) \cup {NULL}
  /\ \A o \in Alive(h) : h[o].ref \in Alive(h) \cup {NULL}

(* An object that waits for its finalizer, or a weak reference that did, is *)
(* known to nobody.                                                         *)
Unknown(h, q, o) ==
  IsQueued(q, o) \/ (h[o].type \in WeakTypes /\ h[o].needToFinalize # 1)

UnknownOutOfReach(h, q, s) ==
  \A o \in Alive(h) :
    Unknown(h, q, o) =>
      /\ \A x \in Slots : s[x] # o
      /\ \A p \in Alive(h) : h[p].ref # o

WeakOK(h) ==
  \A t \in Alive(h) :
    h[t].weakRef = {w \in Alive(h) : h[w].type \in WeakTypes /\ h[w].ref = t}

RefsGood(h, q, s) ==
  /\ TargetsFit(h)
  /\ NoDangling(h, s)
  /\ UnknownOutOfReach(h, q, s)
  /\ WeakOK(h)

RefsInv == RefsGood(heap, queue, slots)

-----------------------------------------------------------------------------
(* Entries and queues *)

LEMMA EntryType ==
  ASSUME NEW e \in Entry
  PROVE  /\ e # NULL
         /\ e.type \in Types /\ e.ref \in Objs \cup {NULL}
         /\ e.marked \in {0, 1, 255} /\ e.needToFinalize \in 0 .. 2
         /\ e.pSync \in {"none", "live", "freed"}
         /\ e.weakRef \in SUBSET Objs /\ e.finalized \in 0 .. 2
  BY NoEntry DEF Entry

LEMMA AliveType ==
  ASSUME NEW h \in Heaps
  PROVE  /\ Alive(h) \subseteq Objs /\ NULL \notin Alive(h)
         /\ \A o \in Alive(h) : h[o] \in Entry /\ h[o] # NULL
         /\ \A o \in Objs : o \notin Alive(h) <=> h[o] = NULL
  BY CollectorAssumption DEF Alive, Heaps

(* Entries in which one field is assigned to. *)

LEMMA WithRef ==
  ASSUME NEW e \in Entry, NEW v \in Objs \cup {NULL}
  PROVE  LET f == [e EXCEPT !.ref = v] IN
         /\ f \in Entry /\ f.ref = v
         /\ f.type = e.type /\ f.marked = e.marked /\ f.needToFinalize = e.needToFinalize
         /\ f.pSync = e.pSync /\ f.weakRef = e.weakRef /\ f.finalized = e.finalized
  BY DEF Entry

LEMMA WithNeed ==
  ASSUME NEW e \in Entry, NEW v \in 0 .. 2
  PROVE  LET f == [e EXCEPT !.needToFinalize = v] IN
         /\ f \in Entry /\ f.needToFinalize = v
         /\ f.type = e.type /\ f.ref = e.ref /\ f.marked = e.marked
         /\ f.pSync = e.pSync /\ f.weakRef = e.weakRef /\ f.finalized = e.finalized
  BY DEF Entry

LEMMA WithSync ==
  ASSUME NEW e \in Entry, NEW v \in {"none", "live", "freed"}
  PROVE  LET f == [e EXCEPT !.pSync = v] IN
         /\ f \in Entry /\ f.pSync = v
         /\ f.type = e.type /\ f.ref = e.ref /\ f.marked = e.marked
         /\ f.needToFinalize = e.needToFinalize /\ f.weakRef = e.weakRef /\ f.finalized = e.finalized
  BY DEF Entry

LEMMA WithWeakRef ==
  ASSUME NEW e \in Entry, NEW v \in SUBSET Objs
  PROVE  LET f == [e EXCEPT !.weakRef = v] IN
         /\ f \in Entry /\ f.weakRef = v
         /\ f.type = e.type /\ f.ref = e.ref /\ f.marked = e.marked
         /\ f.needToFinalize = e.needToFinalize /\ f.pSync = e.pSync /\ f.finalized = e.finalized
  BY DEF Entry

LEMMA WithFinalized ==
  ASSUME NEW e \in Entry, NEW v \in 0 .. 2
  PROVE  LET f == [e EXCEPT !.finalized = v] IN
         /\ f \in Entry /\ f.finalized = v
         /\ f.type = e.type /\ f.ref = e.ref /\ f.marked = e.marked
         /\ f.needToFinalize = e.needToFinalize /\ f.pSync = e.pSync /\ f.weakRef = e.weakRef
  BY DEF Entry

(* The sequences of the elements of a finite set hold each of them once. *)
LEMMA SetToSeqsFacts ==
  ASSUME NEW S \in SUBSET Objs, NEW a \in SetToSeqs(S)
  PROVE  /\ a \in Seq(Objs)
         /\ \A i, j \in 1 .. Len(a) : a[i] = a[j] => i = j
         /\ \A i \in 1 .. Len(a) : a[i] \in S
         /\ \A o \in S : \E i \in 1 .. Len(a) : a[i] = o
  <1> DEFINE n == Cardinality(S)
  <1>1. IsFiniteSet(S) /\ n \in Nat
    BY CollectorAssumption, FS_Subset, FS_CardinalityType
  <1>2. a \in [1 .. n -> S] /\ \A i, j \in 1 .. n : i # j => a[i] # a[j]
    BY DEF SetToSeqs
  <1>3. a \in Injection(1 .. n, S)
    BY <1>2 DEF Injection, IsInjective
  <1>4. Cardinality(1 .. n) = n
    BY <1>1, FS_Interval
  <1>5. a \in Surjection(1 .. n, S)
    BY <1>1, <1>3, <1>4, FS_Injection
  <1>6. \A o \in S : \E i \in 1 .. n : a[i] = o
    BY <1>5 DEF Surjection
  <1>7. a \in Seq(Objs) /\ Len(a) = n
    BY <1>1, <1>2, SeqDef
  <1> QED
    BY <1>2, <1>6, <1>7

-----------------------------------------------------------------------------
(* Heaps in which entries change *)

(* No object comes or goes. *)
Kept(h, g) ==
  /\ g \in Heaps
  /\ Alive(g) = Alive(h)
  /\ \A p \in Alive(h) : g[p].type = h[p].type

SameMarks(h, g) == \A p \in Alive(h) : g[p].marked = h[p].marked
SameNeeds(h, g) == \A p \in Alive(h) : g[p].needToFinalize = h[p].needToFinalize
SameRuns(h, g) == \A p \in Alive(h) : g[p].finalized = h[p].finalized
SameRefs(h, g) == \A p \in Alive(h) : g[p].ref = h[p].ref
SameLists(h, g) == \A p \in Alive(h) : g[p].weakRef = h[p].weakRef

SetRef(h, o, v) == [h EXCEPT ![o].ref = v]
SetList(h, o, v) == [h EXCEPT ![o].weakRef = v]
SetSync(h, o, v) == [h EXCEPT ![o].pSync = v]
SetMark(h, o, v) == [h EXCEPT ![o].marked = v]

(* One entry is replaced by another. *)
LEMMA Replaced ==
  ASSUME NEW h \in Heaps, NEW o \in Alive(h), NEW e \in Entry, NEW g \in Heaps,
         g[o] = e, \A p \in Objs : p # o => g[p] = h[p]
  PROVE  /\ Alive(g) = Alive(h)
         /\ \A p \in Alive(h) : p # o => g[p] = h[p]
  <1>1. o \in Objs /\ e # NULL /\ Alive(h) \subseteq Objs
    BY EntryType, AliveType
  <1> QED
    BY <1>1 DEF Alive

LEMMA RefSet ==
  ASSUME NEW h \in Heaps, NEW o \in Alive(h), NEW v \in Objs \cup {NULL}, NEW g,
         g = SetRef(h, o, v)
  PROVE  /\ Kept(h, g) /\ SameMarks(h, g) /\ SameNeeds(h, g) /\ SameRuns(h, g)
         /\ SameLists(h, g)
         /\ g[o].ref = v /\ \A p \in Alive(h) : p # o => g[p].ref = h[p].ref
  <1> DEFINE e == [h[o] EXCEPT !.ref = v]
  <1>1. o \in Objs /\ h[o] \in Entry
    BY AliveType
  <1>2. /\ e \in Entry /\ e.ref = v
        /\ e.type = h[o].type /\ e.marked = h[o].marked /\ e.needToFinalize = h[o].needToFinalize
        /\ e.weakRef = h[o].weakRef /\ e.finalized = h[o].finalized
    BY <1>1, WithRef
  <1>3. g \in Heaps /\ g[o] = e /\ \A p \in Objs : p # o => g[p] = h[p]
    <2>1. g = [h EXCEPT ![o] = e]
      BY <1>1 DEF Heaps, SetRef
    <2> HIDE DEF e
    <2> QED
      BY <1>1, <1>2, <2>1 DEF Heaps
  <1> HIDE DEF e
  <1>4. /\ g \in Heaps /\ Alive(g) = Alive(h) /\ g[o] = e
        /\ \A p \in Alive(h) : p # o => g[p] = h[p]
    BY <1>2, <1>3, Replaced
  <1> QED
    BY <1>2, <1>4 DEF Kept, SameMarks, SameNeeds, SameRuns, SameLists

LEMMA ListSet ==
  ASSUME NEW h \in Heaps, NEW o \in Alive(h), NEW v \in SUBSET Objs, NEW g,
         g = SetList(h, o, v)
  PROVE  /\ Kept(h, g) /\ SameMarks(h, g) /\ SameNeeds(h, g) /\ SameRuns(h, g)
         /\ SameRefs(h, g)
         /\ g[o].weakRef = v /\ \A p \in Alive(h) : p # o => g[p].weakRef = h[p].weakRef
  <1> DEFINE e == [h[o] EXCEPT !.weakRef = v]
  <1>1. o \in Objs /\ h[o] \in Entry
    BY AliveType
  <1>2. /\ e \in Entry /\ e.weakRef = v
        /\ e.type = h[o].type /\ e.marked = h[o].marked /\ e.needToFinalize = h[o].needToFinalize
        /\ e.ref = h[o].ref /\ e.finalized = h[o].finalized
    BY <1>1, WithWeakRef
  <1>3. g \in Heaps /\ g[o] = e /\ \A p \in Objs : p # o => g[p] = h[p]
    <2>1. g = [h EXCEPT ![o] = e]
      BY <1>1 DEF Heaps, SetList
    <2> HIDE DEF e
    <2> QED
      BY <1>1, <1>2, <2>1 DEF Heaps
  <1> HIDE DEF e
  <1>4. /\ g \in Heaps /\ Alive(g) = Alive(h) /\ g[o] = e
        /\ \A p \in Alive(h) : p # o => g[p] = h[p]
    BY <1>2, <1>3, Replaced
  <1> QED
    BY <1>2, <1>4 DEF Kept, SameMarks, SameNeeds, SameRuns, SameRefs

LEMMA SyncSet ==
  ASSUME NEW h \in Heaps, NEW o \in Alive(h), NEW v \in {"none", "live", "freed"}, NEW g,
         g = SetSync(h, o, v)
  PROVE  /\ Kept(h, g) /\ SameMarks(h, g) /\ SameNeeds(h, g) /\ SameRuns(h, g)
         /\ SameRefs(h, g) /\ SameLists(h, g)
  <1> DEFINE e == [h[o] EXCEPT !.pSync = v]
  <1>1. o \in Objs /\ h[o] \in Entry
    BY AliveType
  <1>2. /\ e \in Entry
        /\ e.type = h[o].type /\ e.marked = h[o].marked /\ e.needToFinalize = h[o].needToFinalize
        /\ e.ref = h[o].ref /\ e.weakRef = h[o].weakRef /\ e.finalized = h[o].finalized
    BY <1>1, WithSync
  <1>3. g \in Heaps /\ g[o] = e /\ \A p \in Objs : p # o => g[p] = h[p]
    <2>1. g = [h EXCEPT ![o] = e]
      BY <1>1 DEF Heaps, SetSync
    <2> HIDE DEF e
    <2> QED
      BY <1>1, <1>2, <2>1 DEF Heaps
  <1> HIDE DEF e
  <1>4. /\ g \in Heaps /\ Alive(g) = Alive(h) /\ g[o] = e
        /\ \A p \in Alive(h) : p # o => g[p] = h[p]
    BY <1>2, <1>3, Replaced
  <1> QED
    BY <1>2, <1>4 DEF Kept, SameMarks, SameNeeds, SameRuns, SameRefs, SameLists

LEMMA MarkSet ==
  ASSUME NEW h \in Heaps, NEW o \in Alive(h), NEW v \in {0, 1, 255}, NEW g,
         g = SetMark(h, o, v)
  PROVE  /\ Kept(h, g) /\ SameNeeds(h, g) /\ SameRuns(h, g)
         /\ SameRefs(h, g) /\ SameLists(h, g)
         /\ g[o].marked = v /\ \A p \in Alive(h) : p # o => g[p].marked = h[p].marked
  <1> DEFINE e == [h[o] EXCEPT !.marked = v]
  <1>1. o \in Objs /\ h[o] \in Entry
    BY AliveType
  <1>2. /\ e \in Entry /\ e.marked = v
        /\ e.type = h[o].type /\ e.needToFinalize = h[o].needToFinalize
        /\ e.ref = h[o].ref /\ e.weakRef = h[o].weakRef /\ e.finalized = h[o].finalized
    BY <1>1 DEF Entry
  <1>3. g \in Heaps /\ g[o] = e /\ \A p \in Objs : p # o => g[p] = h[p]
    <2>1. g = [h EXCEPT ![o] = e]
      BY <1>1 DEF Heaps, SetMark
    <2> HIDE DEF e
    <2> QED
      BY <1>1, <1>2, <2>1 DEF Heaps
  <1> HIDE DEF e
  <1>4. /\ g \in Heaps /\ Alive(g) = Alive(h) /\ g[o] = e
        /\ \A p \in Alive(h) : p # o => g[p] = h[p]
    BY <1>2, <1>3, Replaced
  <1> QED
    BY <1>2, <1>4 DEF Kept, SameNeeds, SameRuns, SameRefs, SameLists

(* An object needs no finalizer any more. *)
LEMMA UnmarkedFacts ==
  ASSUME NEW h \in Heaps, NEW o \in Alive(h), NEW g, g = UnmarkFinalizer(h, o)
  PROVE  /\ Kept(h, g) /\ SameMarks(h, g) /\ SameRuns(h, g)
         /\ SameRefs(h, g) /\ SameLists(h, g)
         /\ g[o].needToFinalize = 0
         /\ \A p \in Alive(h) : p # o => g[p].needToFinalize = h[p].needToFinalize
  <1> DEFINE e == [h[o] EXCEPT !.needToFinalize = 0]
  <1>1. o \in Objs /\ h[o] \in Entry /\ 0 \in 0 .. 2
    BY AliveType
  <1>2. /\ e \in Entry /\ e.needToFinalize = 0
        /\ e.type = h[o].type /\ e.marked = h[o].marked
        /\ e.ref = h[o].ref /\ e.weakRef = h[o].weakRef /\ e.finalized = h[o].finalized
    BY <1>1, WithNeed
  <1>3. g \in Heaps /\ g[o] = e /\ \A p \in Objs : p # o => g[p] = h[p]
    <2>1. g = [h EXCEPT ![o] = e]
      BY <1>1 DEF Heaps, UnmarkFinalizer
    <2> HIDE DEF e
    <2> QED
      BY <1>1, <1>2, <2>1 DEF Heaps
  <1> HIDE DEF e
  <1>4. /\ g \in Heaps /\ Alive(g) = Alive(h) /\ g[o] = e
        /\ \A p \in Alive(h) : p # o => g[p] = h[p]
    BY <1>2, <1>3, Replaced
  <1> QED
    BY <1>2, <1>4 DEF Kept, SameMarks, SameRuns, SameRefs, SameLists

(* A weak reference leaves its target, which loses it from its list. *)
LEMMA UnlinkedFacts ==
  ASSUME NEW h \in Heaps, NEW w \in Alive(h),
         NEW t, t = h[w].ref, t # NULL, t \in Alive(h), NEW g, g = Unlinked(h, w)
  PROVE  /\ Kept(h, g) /\ SameMarks(h, g) /\ SameNeeds(h, g) /\ SameRuns(h, g)
         /\ g[w].ref = NULL /\ \A p \in Alive(h) : p # w => g[p].ref = h[p].ref
         /\ g[t].weakRef = h[t].weakRef \ {w}
         /\ \A p \in Alive(h) : p # t => g[p].weakRef = h[p].weakRef
  <1> DEFINE a == h[t].weakRef \ {w}
             b == IF h[t].weakRef = {w} THEN "none" ELSE h[t].pSync
             f == SetList(h, t, a)
             k == SetSync(f, t, b)
             l == SetRef(k, w, NULL)
  <1>1. /\ h[t] \in Entry /\ w \in Objs /\ t \in Objs
        /\ a \in SUBSET Objs /\ b \in {"none", "live", "freed"}
    BY AliveType, EntryType
  <1>2. g = l
    <2>1. g = [h EXCEPT ![t].weakRef = @ \ {w},
                        ![t].pSync = IF h[t].weakRef = {w} THEN "none" ELSE @,
                        ![w].ref = NULL]
      BY DEF Unlinked
    <2> QED
      BY <1>1, <2>1 DEF Heaps, SetList, SetSync, SetRef
  <1> HIDE DEF a, b, f, k, l
  <1>3. /\ Kept(h, f) /\ SameMarks(h, f) /\ SameNeeds(h, f) /\ SameRuns(h, f) /\ SameRefs(h, f)
        /\ f[t].weakRef = a /\ \A p \in Alive(h) : p # t => f[p].weakRef = h[p].weakRef
    BY <1>1, ListSet DEF f
  <1>4. /\ Kept(f, k) /\ SameMarks(f, k) /\ SameNeeds(f, k) /\ SameRuns(f, k)
        /\ SameRefs(f, k) /\ SameLists(f, k)
    <2>1. f \in Heaps /\ t \in Alive(f)
      BY <1>3 DEF Kept
    <2> QED
      BY <1>1, <2>1, SyncSet DEF k
  <1>5. /\ Kept(k, l) /\ SameMarks(k, l) /\ SameNeeds(k, l) /\ SameRuns(k, l) /\ SameLists(k, l)
        /\ l[w].ref = NULL /\ \A p \in Alive(k) : p # w => l[p].ref = k[p].ref
    <2>1. k \in Heaps /\ w \in Alive(k)
      BY <1>3, <1>4 DEF Kept
    <2> QED
      BY <2>1, RefSet DEF l
  <1> QED
    BY <1>2, <1>3, <1>4, <1>5 DEF Kept, SameMarks, SameNeeds, SameRuns, SameRefs, SameLists, a

(* A weak reference gets a target, which lists it. *)
LEMMA LinkedFacts ==
  ASSUME NEW h \in Heaps, NEW w \in Alive(h), NEW t \in Alive(h), NEW g, g = Linked(h, w, t)
  PROVE  /\ Kept(h, g) /\ SameMarks(h, g) /\ SameNeeds(h, g) /\ SameRuns(h, g)
         /\ g[w].ref = t /\ \A p \in Alive(h) : p # w => g[p].ref = h[p].ref
         /\ g[t].weakRef = h[t].weakRef \cup {w}
         /\ \A p \in Alive(h) : p # t => g[p].weakRef = h[p].weakRef
  <1> DEFINE a == h[t].weakRef \cup {w}
             b == IF h[t].pSync = "none" THEN "live" ELSE h[t].pSync
             f == SetRef(h, w, t)
             k == SetList(f, t, a)
             l == SetSync(k, t, b)
  <1>1. /\ h[t] \in Entry /\ h[w] \in Entry /\ w \in Objs /\ t \in Objs /\ t # NULL
        /\ a \in SUBSET Objs /\ b \in {"none", "live", "freed"}
    BY AliveType, EntryType
  <1>2. /\ f[t].weakRef = h[t].weakRef /\ f[t].pSync = h[t].pSync
        /\ f \in Heaps
    <2>1. [h[w] EXCEPT !.ref = t] \in Entry
      BY <1>1, WithRef
    <2>2. f = [h EXCEPT ![w] = [h[w] EXCEPT !.ref = t]]
      BY <1>1 DEF Heaps, SetRef
    <2>3. f[t] = IF t = w THEN [h[w] EXCEPT !.ref = t] ELSE h[t]
      BY <1>1, <2>2 DEF Heaps
    <2>4. f \in Heaps
      BY <1>1, <2>1, <2>2 DEF Heaps
    <2>5. /\ [h[w] EXCEPT !.ref = t].weakRef = h[w].weakRef
          /\ [h[w] EXCEPT !.ref = t].pSync = h[w].pSync
      BY <1>1, WithRef
    <2> QED
      BY <2>3, <2>4, <2>5
  <1>3. g = l
    <2>1. g = [h EXCEPT ![w].ref = t,
                        ![t].weakRef = @ \cup {w},
                        ![t].pSync = IF @ = "none" THEN "live" ELSE @]
      BY <1>1 DEF Linked
    <2> QED
      BY <1>1, <1>2, <2>1 DEF Heaps, SetList, SetSync, SetRef
  <1> HIDE DEF a, b, f, k, l
  <1>4. /\ Kept(h, f) /\ SameMarks(h, f) /\ SameNeeds(h, f) /\ SameRuns(h, f) /\ SameLists(h, f)
        /\ f[w].ref = t /\ \A p \in Alive(h) : p # w => f[p].ref = h[p].ref
    BY <1>1, RefSet DEF f
  <1>5. /\ Kept(f, k) /\ SameMarks(f, k) /\ SameNeeds(f, k) /\ SameRuns(f, k) /\ SameRefs(f, k)
        /\ k[t].weakRef = a /\ \A p \in Alive(f) : p # t => k[p].weakRef = f[p].weakRef
    <2>1. f \in Heaps /\ t \in Alive(f)
      BY <1>4 DEF Kept
    <2> QED
      BY <1>1, <2>1, ListSet DEF k
  <1>6. /\ Kept(k, l) /\ SameMarks(k, l) /\ SameNeeds(k, l) /\ SameRuns(k, l)
        /\ SameRefs(k, l) /\ SameLists(k, l)
    <2>1. k \in Heaps /\ t \in Alive(k)
      BY <1>4, <1>5 DEF Kept
    <2> QED
      BY <1>1, <2>1, SyncSet DEF l
  <1> QED
    BY <1>3, <1>4, <1>5, <1>6 DEF Kept, SameMarks, SameNeeds, SameRuns, SameRefs, SameLists, a

-----------------------------------------------------------------------------
(* What a sweep, an allocation and a finalizer do to the heap *)

LEMMA QueuedType ==
  ASSUME NEW e \in Entry
  PROVE  /\ Queued(e) \in Entry /\ Queued(e).type = e.type /\ Queued(e).marked = e.marked
         /\ Queued(e).finalized = e.finalized /\ Queued(e).ref = e.ref
         /\ Queued(e).weakRef = e.weakRef /\ Queued(e).needToFinalize = 2
  <1> DEFINE p == IF e.pSync = "none" THEN "none" ELSE "freed"
  <1>1. p \in {"none", "live", "freed"}
    OBVIOUS
  <1>2. Queued(e) = [[e EXCEPT !.needToFinalize = 2] EXCEPT !.pSync = p]
    BY DEF Queued
  <1> HIDE DEF p
  <1> DEFINE g == [e EXCEPT !.needToFinalize = 2]
  <1>3. /\ g \in Entry /\ g.needToFinalize = 2
        /\ g.type = e.type /\ g.ref = e.ref /\ g.marked = e.marked
        /\ g.weakRef = e.weakRef /\ g.finalized = e.finalized
    BY 2 \in 0 .. 2, WithNeed
  <1> HIDE DEF g
  <1> DEFINE f == [g EXCEPT !.pSync = p]
  <1>4. /\ f \in Entry /\ f.needToFinalize = g.needToFinalize
        /\ f.type = g.type /\ f.ref = g.ref /\ f.marked = g.marked
        /\ f.weakRef = g.weakRef /\ f.finalized = g.finalized
    BY <1>1, <1>3, WithSync
  <1>5. Queued(e) = f
    BY <1>2 DEF g
  <1> QED
    BY <1>3, <1>4, <1>5

LEMMA SweptType ==
  ASSUME NEW h \in Heaps, NEW g, g = Swept(h)
  PROVE  /\ g \in Heaps
         /\ Alive(g) = Alive(h) \ ToDelete(h)
         /\ \A o \in Alive(g) :
              /\ o \in Alive(h)
              /\ g[o].type = h[o].type
              /\ g[o].marked = IF h[o].marked = 1 THEN 0 ELSE h[o].marked
              /\ g[o].finalized = h[o].finalized
              /\ g[o].needToFinalize = IF o \in ToFinalize(h) THEN 2 ELSE h[o].needToFinalize
              /\ g[o].ref = IF h[o].type \in WeakTypes /\ o \in RemovedWeakRefs(h)
                            THEN NULL ELSE h[o].ref
              /\ g[o].weakRef = IF o \in ToFinalize(h) THEN h[o].weakRef \ RemovedWeakRefs(h)
                                ELSE h[o].weakRef
  <1> DEFINE after(o) ==
               LET e == IF o \in ToFinalize(h) THEN Queued(h[o]) ELSE h[o]
               IN [e EXCEPT
                     !.marked = IF @ = 1 THEN 0 ELSE @,
                     !.ref = IF e.type \in WeakTypes /\ o \in RemovedWeakRefs(h) THEN NULL ELSE @,
                     !.weakRef = IF o \in ToFinalize(h) THEN @ \ RemovedWeakRefs(h) ELSE @]
  <1>1. \A o \in Objs : g[o] = IF h[o] = NULL \/ o \in ToDelete(h) THEN NULL ELSE after(o)
    BY DEF Swept
  <1>2. ASSUME NEW o \in Objs, h[o] # NULL
        PROVE  /\ after(o) \in Entry /\ after(o) # NULL
               /\ after(o).type = h[o].type
               /\ after(o).marked = IF h[o].marked = 1 THEN 0 ELSE h[o].marked
               /\ after(o).finalized = h[o].finalized
               /\ after(o).needToFinalize = IF o \in ToFinalize(h) THEN 2 ELSE h[o].needToFinalize
               /\ after(o).ref = IF h[o].type \in WeakTypes /\ o \in RemovedWeakRefs(h)
                                 THEN NULL ELSE h[o].ref
               /\ after(o).weakRef = IF o \in ToFinalize(h) THEN h[o].weakRef \ RemovedWeakRefs(h)
                                     ELSE h[o].weakRef
    <2> DEFINE e == IF o \in ToFinalize(h) THEN Queued(h[o]) ELSE h[o]
               m == IF e.marked = 1 THEN 0 ELSE e.marked
               f == IF e.type \in WeakTypes /\ o \in RemovedWeakRefs(h) THEN NULL ELSE e.ref
               l == IF o \in ToFinalize(h) THEN e.weakRef \ RemovedWeakRefs(h) ELSE e.weakRef
    <2>1. h[o] \in Entry
      BY <1>2 DEF Heaps
    <2>2. /\ e \in Entry /\ e.type = h[o].type /\ e.marked = h[o].marked
          /\ e.finalized = h[o].finalized /\ e.ref = h[o].ref /\ e.weakRef = h[o].weakRef
          /\ e.needToFinalize = IF o \in ToFinalize(h) THEN 2 ELSE h[o].needToFinalize
      BY <2>1, QueuedType
    <2>3. after(o) = [[[e EXCEPT !.marked = m] EXCEPT !.ref = f] EXCEPT !.weakRef = l]
      <3>1. after(o) = [e EXCEPT !.marked = m, !.ref = f, !.weakRef = l]
        OBVIOUS
      <3> HIDE DEF e, m, f, l, after
      <3> QED
        BY <2>2, <3>1 DEF Entry
    <2>4. m \in {0, 1, 255} /\ f \in Objs \cup {NULL} /\ l \in SUBSET Objs
      <3>1. e.ref \in Objs \cup {NULL} /\ e.weakRef \in SUBSET Objs /\ e.marked \in {0, 1, 255}
        BY <2>2, EntryType
      <3> HIDE DEF e
      <3> QED
        BY <3>1
    <2> HIDE DEF e, f, l, m, after
    <2> DEFINE k == [e EXCEPT !.marked = m]
    <2>5. /\ k \in Entry /\ k.marked = m /\ k.type = e.type /\ k.ref = e.ref
          /\ k.needToFinalize = e.needToFinalize /\ k.finalized = e.finalized
          /\ k.weakRef = e.weakRef
      BY <2>2, <2>4 DEF Entry
    <2>6. after(o) = [[k EXCEPT !.ref = f] EXCEPT !.weakRef = l]
      BY <2>3
    <2> HIDE DEF k
    <2> DEFINE n == [k EXCEPT !.ref = f]
    <2>7. /\ n \in Entry /\ n.ref = f /\ n.type = k.type /\ n.marked = k.marked
          /\ n.needToFinalize = k.needToFinalize /\ n.finalized = k.finalized
      BY <2>4, <2>5, WithRef
    <2>8. after(o) = [n EXCEPT !.weakRef = l]
      BY <2>6
    <2> HIDE DEF n
    <2>9. /\ after(o) \in Entry /\ after(o).type = n.type /\ after(o).marked = n.marked
          /\ after(o).finalized = n.finalized /\ after(o).needToFinalize = n.needToFinalize
          /\ after(o).ref = n.ref /\ after(o).weakRef = l
      BY <2>4, <2>7, <2>8, WithWeakRef
    <2> QED
      BY <2>2, <2>5, <2>7, <2>9, EntryType DEF f, l, m
  <1> HIDE DEF after
  <1>3. g = [o \in Objs |-> g[o]]
    BY DEF Swept
  <1>4. g \in Heaps
    BY <1>1, <1>2, <1>3 DEF Heaps
  <1>5. Alive(g) = Alive(h) \ ToDelete(h)
    BY <1>1, <1>2 DEF Alive
  <1>6. ToDelete(h) \subseteq Objs /\ Alive(h) \subseteq Objs /\ \A o \in Alive(h) : h[o] # NULL
    BY DEF ToDelete, Unused, Alive
  <1>7. ASSUME NEW o \in Alive(h) \ ToDelete(h)
        PROVE  g[o] = after(o) /\ h[o] # NULL /\ o \in Objs
    BY <1>1, <1>6
  <1> QED
    BY <1>2, <1>4, <1>5, <1>7

LEMMA NewEntryType ==
  ASSUME NEW type \in Types, NEW e, e = NewEntry(type)
  PROVE  /\ e \in Entry /\ e.type = type /\ e.ref = NULL
         /\ e.marked = IF type = "undeletable" THEN 255 ELSE 0
         /\ e.needToFinalize = IF type \in WeakTypes \cup {"finalizable"} THEN 1 ELSE 0
         /\ e.weakRef = {} /\ e.finalized = 0
  <1> DEFINE k == IF type = "undeletable" THEN 255 ELSE 0
             f == IF type \in WeakTypes \cup {"finalizable"} THEN 1 ELSE 0
  <1>1. k \in {0, 1, 255} /\ f \in 0 .. 2 /\ 0 \in 0 .. 2
    OBVIOUS
  <1>2. e = [type |-> type, ref |-> NULL, marked |-> k, needToFinalize |-> f,
             pSync |-> "none", weakRef |-> {}, finalized |-> 0]
    BY DEF NewEntry
  <1> HIDE DEF k, f
  <1>3. /\ e.type = type /\ e.ref = NULL /\ e.marked = k /\ e.needToFinalize = f
        /\ e.weakRef = {} /\ e.finalized = 0
    BY <1>2
  <1>4. e \in Entry
    BY <1>1, <1>2 DEF Entry
  <1> QED
    BY <1>3, <1>4 DEF k, f

LEMMA AllocatedFacts ==
  ASSUME NEW h \in Heaps, NEW o \in Objs \ Alive(h), NEW type \in Types,
         NEW g, g = Allocated(h, o, type), NEW e, e = NewEntry(type)
  PROVE  /\ g \in Heaps /\ Alive(g) = Alive(h) \cup {o} /\ g[o] = e
         /\ \A p \in Alive(h) : p # o /\ g[p] = h[p]
  <1>1. e \in Entry /\ e # NULL
    BY NewEntryType, EntryType
  <1>2. g = [h EXCEPT ![o] = e]
    BY DEF Allocated
  <1>3. g \in Heaps /\ g[o] = e /\ \A p \in Objs : p # o => g[p] = h[p]
    BY <1>1, <1>2 DEF Heaps
  <1> QED
    BY <1>1, <1>3 DEF Alive

(* The finalizer queued last begins, if there is one. *)
LEMMA RunFinalizerFacts ==
  ASSUME NEW h \in Heaps, NEW q \in Seq(Objs), running \subseteq Objs, RunFinalizer(h, q)
  PROVE  /\ Kept(h, heap') /\ SameMarks(h, heap') /\ SameNeeds(h, heap')
         /\ SameRefs(h, heap') /\ SameLists(h, heap')
         /\ queue' \in Seq(Objs) /\ running' \subseteq Objs
         /\ q = <<>> => heap' = h /\ queue' = q /\ running' = running
         /\ q # <<>> =>
              /\ queue' = Front(q) /\ running' = running \cup {Last(q)}
              /\ \A p \in Alive(h) : p # Last(q) => heap'[p].finalized = h[p].finalized
              /\ Last(q) \in Alive(h) /\ h[Last(q)].finalized = 0 =>
                   heap'[Last(q)].finalized = 1
  <1>1. CASE q = <<>>
    BY <1>1 DEF RunFinalizer, Kept, SameMarks, SameNeeds, SameRefs, SameLists
  <1>2. CASE q # <<>>
    <2> DEFINE o == Last(q)
               e == h[o]
               runs == IF e.finalized < 2 THEN e.finalized + 1 ELSE 2
               d == [e EXCEPT !.finalized = runs]
               g == heap'
    <2>1. /\ queue' = Front(q) /\ running' = running \cup {o}
          /\ g = [h EXCEPT ![o] = IF e = NULL THEN NULL ELSE d]
      BY <1>2 DEF RunFinalizer
    <2>2. Front(q) \in Seq(Objs) /\ o \in Objs
      <3> DEFINE n == Len(q)
      <3>1. n \in Nat /\ n # 0
        BY <1>2, EmptySeq, LenProperties
      <3>2. q[n] \in Objs
        <4>1. n \in 1 .. n
          BY <3>1
        <4> QED
          BY <4>1, ElementOfSeq DEF n
      <3> QED
        BY <3>1, <3>2 DEF Front, Last
    <2> HIDE DEF o, g, d, runs
    <2>3. CASE e = NULL
      <3>1. g = h
        BY <2>1, <2>2, <2>3 DEF Heaps
      <3> QED
        BY <1>2, <2>1, <2>2, <2>3, <3>1, AliveType
        DEF Kept, SameMarks, SameNeeds, SameRefs, SameLists, o, g
    <2>4. CASE e # NULL
      <3>1. e \in Entry /\ e.finalized \in 0 .. 2 /\ o \in Alive(h)
        BY <2>2, <2>4, AliveType, EntryType
      <3>2. runs \in 0 .. 2 /\ (e.finalized = 0 => runs = 1)
        BY <3>1 DEF runs
      <3>3. /\ d \in Entry /\ d.finalized = runs
            /\ d.type = e.type /\ d.ref = e.ref /\ d.marked = e.marked
            /\ d.needToFinalize = e.needToFinalize /\ d.weakRef = e.weakRef
        BY <3>1, <3>2, WithFinalized DEF d
      <3>4. g \in Heaps /\ g[o] = d /\ \A p \in Objs : p # o => g[p] = h[p]
        BY <2>1, <2>2, <2>4, <3>3 DEF Heaps
      <3>5. Alive(g) = Alive(h) /\ \A p \in Alive(h) : p # o => g[p] = h[p]
        BY <3>1, <3>3, <3>4, Replaced
      <3>6. /\ Kept(h, g) /\ SameMarks(h, g) /\ SameNeeds(h, g)
            /\ SameRefs(h, g) /\ SameLists(h, g)
        BY <3>3, <3>4, <3>5 DEF Kept, SameMarks, SameNeeds, SameRefs, SameLists
      <3>7. /\ \A p \in Alive(h) : p # o => g[p].finalized = h[p].finalized
            /\ h[o].finalized = 0 => g[o].finalized = 1
        BY <3>2, <3>3, <3>4, <3>5
      <3> QED
        BY <1>2, <2>1, <2>2, <3>6, <3>7 DEF o, g
    <2> QED
      BY <2>3, <2>4
  <1> QED
    BY <1>1, <1>2

-----------------------------------------------------------------------------
(* The pieces of memory that GC_Mark works through *)

LEMMA PendingFacts ==
  ASSUME NEW rs
  PROVE  \A o : o \in Pending(rs) <=> \E i \in DOMAIN rs : o \in rs[i]
  BY DEF Pending

(* What was pending stays, but for the piece that was scanned, and what    *)
(* was added comes to it.                                                  *)
LEMMA WorklistFacts ==
  ASSUME NEW X, NEW rest \in Seq(SUBSET X), NEW added \in Seq(SUBSET X),
         NEW rs, rs = Worklist(rest, added)
  PROVE  /\ rs \in Seq(SUBSET X)
         /\ \A o : o \in Pending(rs) <=> o \in Pending(rest) \/ o \in Pending(added)
  <1>1. CASE added = <<>>
    <2>1. DOMAIN added = {} /\ rs = rest
      BY <1>1 DEF Worklist
    <2> QED
      BY <2>1, PendingFacts
  <1>2. CASE added # <<>>
    <2> DEFINE k == Append(rest, {})
               m == Len(rest)
               n == Len(added)
    <2>1. /\ m \in Nat /\ n \in Nat
          /\ DOMAIN rest = 1 .. m /\ DOMAIN added = 1 .. n
      BY LenProperties
    <2>2. /\ k \in Seq(SUBSET X) /\ Len(k) = m + 1 /\ k[m + 1] = {}
          /\ \A i \in 1 .. m : k[i] = rest[i]
      BY <2>1
    <2>3. rs = k \o added
      BY <1>2 DEF Worklist
    <2> HIDE DEF k, m, n
    <2>4. /\ rs \in Seq(SUBSET X) /\ Len(rs) = (m + 1) + n
          /\ \A i \in 1 .. (m + 1) + n : rs[i] = IF i <= m + 1 THEN k[i] ELSE added[i - (m + 1)]
      BY <2>2, <2>3, ConcatProperties DEF n
    <2>5. DOMAIN rs = 1 .. (m + 1) + n
      BY <2>4, LenProperties
    <2>6. ASSUME NEW o, o \in Pending(rs)
          PROVE  o \in Pending(rest) \/ o \in Pending(added)
      <3>1. PICK i \in 1 .. (m + 1) + n : o \in rs[i]
        BY <2>5, <2>6, PendingFacts
      <3>2. CASE i \in 1 .. m
        <4>1. rs[i] = rest[i]
          BY <2>1, <2>2, <2>4, <3>2
        <4> QED
          BY <2>1, <3>1, <3>2, <4>1, PendingFacts
      <3>3. CASE i = m + 1
        <4>1. rs[i] = {}
          BY <2>1, <2>2, <2>4, <3>3
        <4> QED
          BY <3>1, <4>1
      <3>4. CASE i > m + 1
        <4>1. rs[i] = added[i - (m + 1)] /\ i - (m + 1) \in 1 .. n
          BY <2>1, <2>4, <3>4
        <4> QED
          BY <2>1, <3>1, <4>1, PendingFacts
      <3> QED
        BY <2>1, <3>2, <3>3, <3>4
    <2>7. ASSUME NEW o, o \in Pending(rest)
          PROVE  o \in Pending(rs)
      <3>1. PICK i \in 1 .. m : o \in rest[i]
        BY <2>1, <2>7, PendingFacts
      <3>2. i \in 1 .. (m + 1) + n /\ rs[i] = rest[i]
        BY <2>1, <2>2, <2>4
      <3> QED
        BY <2>5, <3>1, <3>2, PendingFacts
    <2>8. ASSUME NEW o, o \in Pending(added)
          PROVE  o \in Pending(rs)
      <3>1. PICK i \in 1 .. n : o \in added[i]
        BY <2>1, <2>8, PendingFacts
      <3> DEFINE j == (m + 1) + i
      <3>2. j \in 1 .. (m + 1) + n /\ ~(j <= m + 1) /\ j - (m + 1) = i
        BY <2>1
      <3> HIDE DEF j
      <3>3. rs[j] = added[i]
        BY <2>4, <3>2
      <3> QED
        BY <2>5, <3>1, <3>2, <3>3, PendingFacts
    <2> QED
      BY <2>4, <2>6, <2>7, <2>8
  <1> QED
    BY <1>1, <1>2

(* A list without its last piece. *)
LEMMA FrontPending ==
  ASSUME NEW X, NEW rs \in Seq(SUBSET X), rs # <<>>
  PROVE  /\ Front(rs) \in Seq(SUBSET X) /\ Last(rs) \in SUBSET X
         /\ \A o : o \in Pending(rs) <=> o \in Pending(Front(rs)) \/ o \in Last(rs)
  <1> DEFINE n == Len(rs)
             f == Front(rs)
  <1>1. n \in Nat /\ n # 0 /\ DOMAIN rs = 1 .. n
    BY EmptySeq, LenProperties
  <1>2. f = SubSeq(rs, 1, n - 1) /\ Last(rs) = rs[n]
    BY DEF Front, Last
  <1>3. f \in Seq(SUBSET X) /\ Len(f) = n - 1 /\ \A i \in 1 .. n - 1 : f[i] = rs[i]
    BY <1>1, <1>2
  <1>4. DOMAIN f = 1 .. n - 1
    BY <1>3
  <1>5. n \in 1 .. n /\ \A i \in 1 .. n : i = n \/ i \in 1 .. n - 1
    <2> HIDE DEF n
    <2> QED
      BY <1>1
  <1>6. Last(rs) \in SUBSET X
    BY <1>1, <1>2, <1>5, ElementOfSeq DEF n
  <1> HIDE DEF n, f
  <1>7. \A i \in 1 .. n - 1 : i \in 1 .. n
    BY <1>1
  <1>8. ASSUME NEW o
        PROVE  o \in Pending(rs) <=> o \in Pending(f) \/ o \in Last(rs)
    BY <1>1, <1>2, <1>3, <1>4, <1>5, <1>7, PendingFacts
  <1> QED
    BY <1>3, <1>6, <1>8 DEF f

(* A queue without its last element. *)
LEMMA FrontFacts ==
  ASSUME NEW q \in Seq(Objs), q # <<>>, \A i, j \in DOMAIN q : q[i] = q[j] => i = j
  PROVE  /\ Front(q) \in Seq(Objs)
         /\ \A i \in DOMAIN Front(q) : i \in DOMAIN q /\ Front(q)[i] = q[i] /\ q[i] # Last(q)
         /\ Last(q) \in Objs /\ IsQueued(q, Last(q))
         /\ \A p : IsQueued(Front(q), p) <=> IsQueued(q, p) /\ p # Last(q)
  <1> DEFINE n == Len(q)
             f == Front(q)
  <1>1. n \in Nat /\ n # 0 /\ DOMAIN q = 1 .. n
    BY EmptySeq, LenProperties
  <1>2. f = SubSeq(q, 1, n - 1) /\ Last(q) = q[n]
    BY DEF Front, Last
  <1>3. f \in Seq(Objs) /\ Len(f) = n - 1 /\ \A i \in 1 .. n - 1 : f[i] = q[i]
    BY <1>1, <1>2
  <1>4. DOMAIN f = 1 .. n - 1
    BY <1>3
  <1> HIDE DEF n, f
  <1>5. ASSUME NEW i \in 1 .. n - 1
        PROVE  i \in 1 .. n /\ f[i] = q[i] /\ q[i] # q[n]
    <2>1. i \in 1 .. n /\ n \in 1 .. n /\ i # n
      BY <1>1
    <2> QED
      BY <1>1, <1>3, <2>1
  <1>6. n \in 1 .. n /\ \A i \in 1 .. n : i = n \/ i \in 1 .. n - 1
    BY <1>1
  <1>7. Last(q) \in Objs /\ IsQueued(q, Last(q))
    <2>1. q[n] \in Objs
      BY <1>1, <1>6, ElementOfSeq DEF n
    <2> QED
      BY <1>1, <1>2, <1>6, <2>1 DEF IsQueued
  <1>8. ASSUME NEW p
        PROVE  IsQueued(f, p) <=> IsQueued(q, p) /\ p # Last(q)
    BY <1>1, <1>2, <1>4, <1>5, <1>6 DEF IsQueued
  <1> QED
    BY <1>1, <1>2, <1>3, <1>4, <1>5, <1>7, <1>8 DEF f

-----------------------------------------------------------------------------
(* Types and marks, of any program *)

(* What an object that is used is. *)
LEMMA UsedFacts ==
  ASSUME MarkInv, NEW o, NEW types, IsA(o, types)
  PROVE  o \in Alive(heap) /\ o \in Objs /\ o # NULL /\ heap[o].type \in types /\ gc = "idle"
  BY CollectorAssumption DEF IsA, Alive

(* Between collections, entries change as the program may change them, and *)
(* what it holds stays of its type.                                        *)
LEMMA KeptMarkInv ==
  ASSUME MarkInv, gc = "idle", UNCHANGED <<gc, roots>>, Kept(heap, heap'),
         \A p \in Alive(heap) :
           /\ heap'[p].marked \in {heap[p].marked, 0}
           /\ heap'[p].needToFinalize \in {heap[p].needToFinalize, 0}
           /\ heap'[p].ref = heap[p].ref \/ heap[p].type \in HoldRefs \cup WeakTypes,
         queue' \in Seq(Objs), running' \subseteq Objs, slots' \in [Slots -> Objs \cup {NULL}]
  PROVE  MarkInv'
  <1>1. heap' \in Heaps /\ Alive(heap') = Alive(heap) /\ \A p \in Alive(heap) : heap'[p].type = heap[p].type
    BY DEF Kept
  <1>2. roots' \in Seq(SUBSET (Objs \cup {NULL})) /\ roots' = <<>> /\ gc' = "idle"
    BY DEF MarkInv, TypeOK
  <1>3. \A o \in Alive(heap)' : heap'[o].marked # 1
    BY <1>1 DEF MarkInv, TypeOK, Alive
  <1>4. TypeOK'
    BY <1>1, <1>2, <1>3 DEF TypeOK, Heaps
  <1>5. EntriesFit(heap)'
    <2> SUFFICES ASSUME NEW p \in Alive(heap')
                 PROVE  Fits(heap'[p])
      BY DEF EntriesFit, Alive
    <2>1. p \in Alive(heap) /\ Fits(heap[p])
      BY <1>1 DEF MarkInv, EntriesFit
    <2> QED
      BY <1>1, <2>1 DEF Fits
  <1> QED
    BY <1>2, <1>4, <1>5 DEF MarkInv

LEMMA MarkInvTypes ==
  ASSUME MarkInv
  PROVE  /\ heap \in Heaps /\ queue \in Seq(Objs) /\ running \subseteq Objs
         /\ slots \in [Slots -> Objs \cup {NULL}] /\ EntriesFit(heap)
         /\ roots \in Seq(SUBSET (Objs \cup {NULL})) /\ gc \in {"idle", "mark"}
  BY DEF MarkInv, TypeOK, Heaps

(* What the loads, the stores and the calls of the program change. *)

LEMMA SuppressFacts ==
  ASSUME MarkInv, NEW x \in Slots, SuppressFinalize(x)
  PROVE  /\ MarkInv' /\ gc = "idle"
         /\ slots[x] \in Alive(heap) /\ heap[slots[x]].type \in Suppressed
         /\ Kept(heap, heap') /\ SameRuns(heap, heap') /\ SameRefs(heap, heap')
         /\ SameLists(heap, heap')
         /\ heap'[slots[x]].needToFinalize = 0
         /\ \A p \in Alive(heap) :
              p # slots[x] => heap'[p].needToFinalize = heap[p].needToFinalize
         /\ UNCHANGED <<queue, running, slots>>
  <1>1. slots[x] \in Alive(heap) /\ heap[slots[x]].type \in Suppressed /\ gc = "idle"
    BY UsedFacts DEF SuppressFinalize
  <1>2. heap' = UnmarkFinalizer(heap, slots[x]) /\ UNCHANGED <<queue, running, slots, gc, roots>>
    BY DEF SuppressFinalize
  <1>3. /\ Kept(heap, heap') /\ SameMarks(heap, heap') /\ SameRuns(heap, heap')
        /\ SameRefs(heap, heap') /\ SameLists(heap, heap')
        /\ heap'[slots[x]].needToFinalize = 0
        /\ \A p \in Alive(heap) :
             p # slots[x] => heap'[p].needToFinalize = heap[p].needToFinalize
    BY <1>1, <1>2, MarkInvTypes, UnmarkedFacts
  <1>4. MarkInv'
    <2>1. \A p \in Alive(heap) :
            /\ heap'[p].marked \in {heap[p].marked, 0}
            /\ heap'[p].needToFinalize \in {heap[p].needToFinalize, 0}
            /\ heap'[p].ref = heap[p].ref \/ heap[p].type \in HoldRefs \cup WeakTypes
      BY <1>3 DEF SameMarks, SameRefs
    <2> QED
      BY <1>1, <1>2, <1>3, <2>1, MarkInvTypes, KeptMarkInv
  <1> QED
    BY <1>1, <1>2, <1>3, <1>4

LEMMA SetFieldFacts ==
  ASSUME MarkInv, NEW x \in Slots, NEW y \in Slots, SetField(x, y)
  PROVE  /\ MarkInv' /\ gc = "idle"
         /\ slots[x] \in Alive(heap) /\ heap[slots[x]].type \in HoldRefs
         /\ Kept(heap, heap') /\ SameNeeds(heap, heap') /\ SameRuns(heap, heap')
         /\ SameLists(heap, heap')
         /\ heap'[slots[x]].ref = slots[y]
         /\ \A p \in Alive(heap) : p # slots[x] => heap'[p].ref = heap[p].ref
         /\ UNCHANGED <<queue, running, slots>>
  <1>1. slots[x] \in Alive(heap) /\ heap[slots[x]].type \in HoldRefs /\ gc = "idle"
    BY UsedFacts DEF SetField
  <1>2. heap' = SetRef(heap, slots[x], slots[y]) /\ UNCHANGED <<queue, running, slots, gc, roots>>
    BY DEF SetField, SetRef
  <1>3. slots[y] \in Objs \cup {NULL}
    BY MarkInvTypes
  <1>4. /\ Kept(heap, heap') /\ SameMarks(heap, heap') /\ SameNeeds(heap, heap')
        /\ SameRuns(heap, heap') /\ SameLists(heap, heap')
        /\ heap'[slots[x]].ref = slots[y]
        /\ \A p \in Alive(heap) : p # slots[x] => heap'[p].ref = heap[p].ref
    BY <1>1, <1>2, <1>3, MarkInvTypes, RefSet
  <1>5. MarkInv'
    <2>1. \A p \in Alive(heap) :
            /\ heap'[p].marked \in {heap[p].marked, 0}
            /\ heap'[p].needToFinalize \in {heap[p].needToFinalize, 0}
            /\ heap'[p].ref = heap[p].ref \/ heap[p].type \in HoldRefs \cup WeakTypes
      BY <1>1, <1>4 DEF SameMarks, SameNeeds
    <2> QED
      BY <1>1, <1>2, <1>4, <2>1, MarkInvTypes, KeptMarkInv
  <1> QED
    BY <1>1, <1>2, <1>4, <1>5

LEMMA MakeDeletableFacts ==
  ASSUME MarkInv, NEW o \in Objs, MakeDeletable(o)
  PROVE  /\ MarkInv' /\ gc = "idle"
         /\ Kept(heap, heap') /\ SameNeeds(heap, heap') /\ SameRuns(heap, heap')
         /\ SameRefs(heap, heap') /\ SameLists(heap, heap')
         /\ UNCHANGED <<queue, running, slots>>
  <1>1. o \in Alive(heap) /\ gc = "idle"
    BY UsedFacts DEF MakeDeletable
  <1>2. heap' = SetMark(heap, o, 0) /\ UNCHANGED <<queue, running, slots, gc, roots>>
    BY DEF MakeDeletable, SetMark
  <1>3. /\ Kept(heap, heap') /\ SameNeeds(heap, heap') /\ SameRuns(heap, heap')
        /\ SameRefs(heap, heap') /\ SameLists(heap, heap')
        /\ heap'[o].marked = 0 /\ \A p \in Alive(heap) : p # o => heap'[p].marked = heap[p].marked
    BY <1>1, <1>2, MarkInvTypes, MarkSet
  <1>4. MarkInv'
    <2>1. \A p \in Alive(heap) :
            /\ heap'[p].marked \in {heap[p].marked, 0}
            /\ heap'[p].needToFinalize \in {heap[p].needToFinalize, 0}
            /\ heap'[p].ref = heap[p].ref \/ heap[p].type \in HoldRefs \cup WeakTypes
      BY <1>3 DEF SameRefs, SameNeeds
    <2> QED
      BY <1>1, <1>2, <1>3, <2>1, MarkInvTypes, KeptMarkInv
  <1> QED
    BY <1>1, <1>2, <1>3, <1>4

(* The entries after a weak reference w lost its target. *)
Freed(h, g, w) ==
  /\ Kept(h, g) /\ SameMarks(h, g) /\ SameNeeds(h, g) /\ SameRuns(h, g)
  /\ g[w].ref = NULL
  /\ \A p \in Alive(h) : p # w => g[p].ref = h[p].ref
  /\ \A p \in Alive(h) : g[p].weakRef = IF p = h[w].ref THEN h[p].weakRef \ {w} ELSE h[p].weakRef

LEMMA FreedByUnlink ==
  ASSUME NEW h \in Heaps, NEW w \in Alive(h), NEW g, g = Unlinked(h, w),
         h[w].ref = NULL \/ h[w].ref \in Alive(h)
  PROVE  Freed(h, g, w)
  <1>1. CASE h[w].ref = NULL
    <2>1. g = h
      BY <1>1 DEF Unlinked
    <2> QED
      BY <1>1, <2>1, AliveType DEF Freed, Kept, SameMarks, SameNeeds, SameRuns
  <1>2. CASE h[w].ref # NULL
    <2> DEFINE t == h[w].ref
    <2>1. t \in Alive(h) /\ t # NULL
      BY <1>2
    <2> HIDE DEF t
    <2>2. /\ Kept(h, g) /\ SameMarks(h, g) /\ SameNeeds(h, g) /\ SameRuns(h, g)
          /\ g[w].ref = NULL /\ \A p \in Alive(h) : p # w => g[p].ref = h[p].ref
          /\ g[t].weakRef = h[t].weakRef \ {w}
          /\ \A p \in Alive(h) : p # t => g[p].weakRef = h[p].weakRef
      BY <2>1, UnlinkedFacts DEF t
    <2> QED
      BY <2>1, <2>2 DEF Freed, t
  <1> QED
    BY <1>1, <1>2

LEMMA EndFinalizerFacts ==
  ASSUME MarkInv, NEW o \in Objs, EndFinalizer(o),
         NEW h, h = IF heap[o].type \in WeakTypes THEN Unlinked(heap, o) ELSE heap
  PROVE  /\ MarkInv' /\ gc = "idle" /\ o \in running /\ o \in Alive(heap)
         /\ heap[o].type \in WeakTypes => Freed(heap, h, o)
         /\ heap[o].type \notin WeakTypes => h = heap
         /\ Kept(h, heap') /\ SameMarks(h, heap') /\ SameRuns(h, heap')
         /\ SameRefs(h, heap') /\ SameLists(h, heap')
         /\ heap'[o].needToFinalize = 0
         /\ \A p \in Alive(h) : p # o => heap'[p].needToFinalize = h[p].needToFinalize
         /\ running' = running \ {o} /\ UNCHANGED <<queue, slots>>
  <1>1. o \in Alive(heap) /\ gc = "idle"
    BY UsedFacts DEF EndFinalizer
  <1>2. /\ o \in running /\ heap' = UnmarkFinalizer(h, o) /\ running' = running \ {o}
        /\ UNCHANGED <<queue, slots, gc, roots>>
    BY DEF EndFinalizer
  <1>3. heap[o].type \in WeakTypes => Freed(heap, h, o)
    BY <1>1, MarkInvTypes, FreedByUnlink DEF EndFinalizer, IsListed
  <1>4. heap[o].type \notin WeakTypes => h = heap
    OBVIOUS
  <1>5. h \in Heaps /\ o \in Alive(h)
    BY <1>1, <1>3, <1>4, MarkInvTypes DEF Freed, Kept
  <1>6. /\ Kept(h, heap') /\ SameMarks(h, heap') /\ SameRuns(h, heap')
        /\ SameRefs(h, heap') /\ SameLists(h, heap')
        /\ heap'[o].needToFinalize = 0
        /\ \A p \in Alive(h) : p # o => heap'[p].needToFinalize = h[p].needToFinalize
    BY <1>2, <1>5, UnmarkedFacts
  <1>7. MarkInv'
    <2>1. Kept(heap, h) /\ SameMarks(heap, h) /\ SameNeeds(heap, h)
      BY <1>3, <1>4, MarkInvTypes DEF Freed, Kept, SameMarks, SameNeeds
    <2>2. \A p \in Alive(heap) : h[p].ref = heap[p].ref \/ heap[p].type \in WeakTypes
      BY <1>3, <1>4 DEF Freed
    <2>3. Kept(heap, heap')
      BY <1>6, <2>1 DEF Kept
    <2>4. \A p \in Alive(heap) :
            /\ heap'[p].marked \in {heap[p].marked, 0}
            /\ heap'[p].needToFinalize \in {heap[p].needToFinalize, 0}
            /\ heap'[p].ref = heap[p].ref \/ heap[p].type \in HoldRefs \cup WeakTypes
      BY <1>6, <2>1, <2>2 DEF Kept, SameMarks, SameNeeds, SameRefs
    <2>5. running' \subseteq Objs
      BY <1>2, MarkInvTypes
    <2> QED
      BY <1>1, <1>2, <2>3, <2>4, <2>5, MarkInvTypes, KeptMarkInv
  <1> QED
    BY <1>1, <1>2, <1>3, <1>4, <1>6, <1>7

LEMMA SetTargetFacts ==
  ASSUME MarkInv, NEW x \in Slots, NEW y \in Slots, SetTarget(x, y),
         NEW w, w = slots[x], NEW t, t = slots[y], NEW h, h = Unlinked(heap, w)
  PROVE  /\ MarkInv' /\ gc = "idle"
         /\ w \in Alive(heap) /\ heap[w].type \in WeakTypes
         /\ t # NULL => t \in Alive(heap) /\ heap[t].type \in Targets
         /\ Freed(heap, h, w)
         /\ Kept(h, heap') /\ SameMarks(h, heap') /\ SameNeeds(h, heap') /\ SameRuns(h, heap')
         /\ heap'[w].ref = t /\ \A p \in Alive(h) : p # w => heap'[p].ref = h[p].ref
         /\ \A p \in Alive(h) :
              heap'[p].weakRef = IF p = t THEN h[p].weakRef \cup {w} ELSE h[p].weakRef
         /\ UNCHANGED <<queue, running, slots>>
  <1>1. w \in Alive(heap) /\ heap[w].type \in WeakTypes /\ gc = "idle"
    BY UsedFacts DEF SetTarget
  <1>2. t # NULL => t \in Alive(heap) /\ heap[t].type \in Targets
    BY UsedFacts DEF SetTarget
  <1>3. heap' = Linked(h, w, t) /\ UNCHANGED <<queue, running, slots, gc, roots>>
    BY DEF SetTarget
  <1>4. Freed(heap, h, w)
    BY <1>1, MarkInvTypes, FreedByUnlink DEF SetTarget, IsListed
  <1>5. h \in Heaps /\ Alive(h) = Alive(heap) /\ w \in Alive(h)
    BY <1>1, <1>4 DEF Freed, Kept
  <1>6. /\ Kept(h, heap') /\ SameMarks(h, heap') /\ SameNeeds(h, heap') /\ SameRuns(h, heap')
        /\ heap'[w].ref = t /\ \A p \in Alive(h) : p # w => heap'[p].ref = h[p].ref
        /\ \A p \in Alive(h) :
             heap'[p].weakRef = IF p = t THEN h[p].weakRef \cup {w} ELSE h[p].weakRef
    <2>1. CASE t = NULL
      <3>1. heap' = h
        BY <1>3, <2>1 DEF Linked
      <3>2. h[w].ref = NULL
        BY <1>4 DEF Freed
      <3> QED
        BY <1>5, <2>1, <3>1, <3>2, AliveType DEF Kept, SameMarks, SameNeeds, SameRuns
    <2>2. CASE t # NULL
      <3>1. t \in Alive(h)
        BY <1>2, <1>5, <2>2
      <3>2. heap' = Linked(h, w, t)
        BY <1>3
      <3>3. /\ Kept(h, heap') /\ SameMarks(h, heap') /\ SameNeeds(h, heap') /\ SameRuns(h, heap')
            /\ heap'[w].ref = t /\ \A p \in Alive(h) : p # w => heap'[p].ref = h[p].ref
            /\ heap'[t].weakRef = h[t].weakRef \cup {w}
            /\ \A p \in Alive(h) : p # t => heap'[p].weakRef = h[p].weakRef
        BY <1>5, <3>1, <3>2, LinkedFacts
      <3> QED
        BY <3>3
    <2> QED
      BY <2>1, <2>2
  <1>7. MarkInv'
    <2>1. Kept(heap, heap')
      BY <1>4, <1>6 DEF Freed, Kept
    <2>2. \A p \in Alive(heap) :
            /\ heap'[p].marked \in {heap[p].marked, 0}
            /\ heap'[p].needToFinalize \in {heap[p].needToFinalize, 0}
            /\ heap'[p].ref = heap[p].ref \/ heap[p].type \in HoldRefs \cup WeakTypes
      BY <1>1, <1>4, <1>6 DEF Freed, Kept, SameMarks, SameNeeds
    <2> QED
      BY <1>1, <1>3, <2>1, <2>2, MarkInvTypes, KeptMarkInv
  <1> QED
    BY <1>1, <1>2, <1>3, <1>4, <1>6, <1>7

(* Only a slot is assigned to. *)
LEMMA SlotFacts ==
  ASSUME MarkInv, NEW x \in Slots, NEW v \in Objs \cup {NULL},
         slots' = [slots EXCEPT ![x] = v], gc = "idle", UNCHANGED <<heap, queue, running, gc, roots>>
  PROVE  MarkInv'
  <1>1. slots' \in [Slots -> Objs \cup {NULL}]
    BY MarkInvTypes
  <1>2. Kept(heap, heap')
    BY MarkInvTypes DEF Kept
  <1> QED
    BY <1>1, <1>2, MarkInvTypes, KeptMarkInv

LEMMA LoadFacts ==
  ASSUME MarkInv, NEW x \in Slots, NEW y \in Slots, GetTarget(x, y) \/ GetField(x, y),
         NEW v, v = heap[slots[x]].ref
  PROVE  /\ MarkInv' /\ slots[x] \in Alive(heap)
         /\ v \in Objs \cup {NULL} /\ slots' = [slots EXCEPT ![y] = v]
         /\ UNCHANGED <<heap, queue, running>>
  <1>1. slots[x] \in Alive(heap) /\ gc = "idle"
    BY UsedFacts DEF GetTarget, GetField
  <1>2. v \in Objs \cup {NULL}
    BY <1>1, MarkInvTypes, AliveType, EntryType
  <1>3. slots' = [slots EXCEPT ![y] = v] /\ UNCHANGED <<heap, queue, running, gc, roots>>
    BY DEF GetTarget, GetField
  <1> QED
    BY <1>1, <1>2, <1>3, SlotFacts

LEMMA OverwriteFacts ==
  ASSUME MarkInv, NEW x \in Slots, Overwrite(x)
  PROVE  /\ MarkInv' /\ slots' = [slots EXCEPT ![x] = NULL]
         /\ UNCHANGED <<heap, queue, running>>
  BY SlotFacts DEF Overwrite

LEMMA StoreFacts ==
  ASSUME MarkInv, NEW o \in Objs, NEW x \in Slots, FinalizerStores(o, x)
  PROVE  /\ MarkInv'
         /\ o \in running /\ o \in Alive(heap) /\ heap[o].type = "finalizable"
         /\ \E v \in {o, heap[o].ref} : slots' = [slots EXCEPT ![x] = v]
         /\ UNCHANGED <<heap, queue, running>>
  <1>1. o \in Alive(heap) /\ heap[o].type = "finalizable" /\ gc = "idle"
    BY UsedFacts DEF FinalizerStores
  <1>2. PICK v \in {o, heap[o].ref} : slots' = [slots EXCEPT ![x] = v]
    BY DEF FinalizerStores
  <1>3. v \in Objs \cup {NULL}
    BY <1>1, MarkInvTypes, AliveType, EntryType
  <1>4. MarkInv'
    BY <1>1, <1>2, <1>3, SlotFacts DEF FinalizerStores
  <1> QED
    BY <1>1, <1>2, <1>4 DEF FinalizerStores

(* What can be reached depends on the references alone. *)
LEMMA ReachableStays ==
  ASSUME Kept(heap, heap'), SameRefs(heap, heap'), UNCHANGED <<running, slots>>
  PROVE  Roots' = Roots /\ Reachable' = Reachable
  <1>1. Roots' = Roots
    BY DEF Roots
  <1>2. /\ Alive(heap') = Alive(heap)
        /\ \A p \in Alive(heap) : heap'[p].type = heap[p].type /\ heap'[p].ref = heap[p].ref
    BY DEF Kept, SameRefs
  <1> DEFINE Closed(S) == \A p \in S \cap Alive(heap) :
                            heap[p].type \notin WeakTypes => {heap[p].ref} \cap Objs \subseteq S
             ClosedAfter(S) == \A p \in S \cap Alive(heap') :
                                 heap'[p].type \notin WeakTypes => {heap'[p].ref} \cap Objs \subseteq S
  <1>3. ASSUME NEW S
        PROVE  Closed(S) <=> ClosedAfter(S)
    BY <1>2
  <1>4. Reachable = {o \in Objs : \A S \in SUBSET Objs : Roots \cap Objs \subseteq S /\ Closed(S) => o \in S}
    BY DEF Reachable
  <1>5. Reachable' = {o \in Objs : \A S \in SUBSET Objs : Roots' \cap Objs \subseteq S /\ ClosedAfter(S) => o \in S}
    BY DEF Reachable, Alive
  <1> HIDE DEF Closed, ClosedAfter
  <1> QED
    BY <1>1, <1>3, <1>4, <1>5

LEMMA ReachableFacts ==
  /\ Reachable \subseteq Objs
  /\ Roots \cap Objs \subseteq Reachable
  /\ \A p \in Reachable \cap Alive(heap) :
       heap[p].type \notin WeakTypes => {heap[p].ref} \cap Objs \subseteq Reachable
  /\ \A S \in SUBSET Objs :
       /\ Roots \cap Objs \subseteq S
       /\ \A p \in S \cap Alive(heap) :
            heap[p].type \notin WeakTypes => {heap[p].ref} \cap Objs \subseteq S
       => Reachable \subseteq S
  <1> DEFINE Closed(S) == \A p \in S \cap Alive(heap) :
                            heap[p].type \notin WeakTypes => {heap[p].ref} \cap Objs \subseteq S
  <1>1. Reachable = {o \in Objs : \A S \in SUBSET Objs : Roots \cap Objs \subseteq S /\ Closed(S) => o \in S}
    BY DEF Reachable
  <1>2. Reachable \subseteq Objs /\ Roots \cap Objs \subseteq Reachable
    BY <1>1
  <1>3. \A S \in SUBSET Objs : Roots \cap Objs \subseteq S /\ Closed(S) => Reachable \subseteq S
    BY <1>1
  <1>4. ASSUME NEW p \in Reachable \cap Alive(heap), heap[p].type \notin WeakTypes, heap[p].ref \in Objs
        PROVE  heap[p].ref \in Reachable
    <2> SUFFICES ASSUME NEW S \in SUBSET Objs, Roots \cap Objs \subseteq S, Closed(S)
                 PROVE  heap[p].ref \in S
      BY <1>1, <1>4
    <2>1. p \in S
      BY <1>3
    <2> QED
      BY <1>4, <2>1
  <1> QED
    BY <1>2, <1>3, <1>4

(* The marks after a piece was scanned. *)
LEMMA WithMarksFacts ==
  ASSUME NEW h \in Heaps, NEW found \in SUBSET Alive(h), NEW g, g = WithMarks(h, found)
  PROVE  /\ Kept(h, g) /\ SameNeeds(h, g) /\ SameRuns(h, g) /\ SameRefs(h, g) /\ SameLists(h, g)
         /\ \A p \in Alive(h) : g[p].marked = IF p \in found THEN 1 ELSE h[p].marked
  <1>1. ASSUME NEW o \in found, NEW e, e = [h[o] EXCEPT !.marked = 1]
        PROVE  /\ e \in Entry /\ e # NULL /\ e.marked = 1
               /\ e.type = h[o].type /\ e.ref = h[o].ref
               /\ e.needToFinalize = h[o].needToFinalize
               /\ e.weakRef = h[o].weakRef /\ e.finalized = h[o].finalized
    <2>1. h[o] \in Entry
      BY AliveType
    <2>2. /\ e \in Entry /\ e.marked = 1
          /\ e.type = h[o].type /\ e.ref = h[o].ref
          /\ e.needToFinalize = h[o].needToFinalize
          /\ e.weakRef = h[o].weakRef /\ e.finalized = h[o].finalized
      BY <1>1, <2>1 DEF Entry
    <2> QED
      BY <2>2, EntryType
  <1>2. \A o \in Objs : g[o] = IF o \in found THEN [h[o] EXCEPT !.marked = 1] ELSE h[o]
    BY DEF WithMarks
  <1>3. \A o \in found : g[o] = [h[o] EXCEPT !.marked = 1]
    BY <1>2, AliveType
  <1>4. \A o \in Objs : o \notin found => g[o] = h[o]
    BY <1>2
  <1>5. ASSUME NEW o \in found
        PROVE  /\ g[o] \in Entry /\ g[o] # NULL /\ g[o].marked = 1
               /\ g[o].type = h[o].type /\ g[o].ref = h[o].ref
               /\ g[o].needToFinalize = h[o].needToFinalize
               /\ g[o].weakRef = h[o].weakRef /\ g[o].finalized = h[o].finalized
    BY <1>1, <1>3
  <1>6. g \in Heaps
    <2>1. g = [o \in Objs |-> g[o]]
      BY DEF WithMarks
    <2>2. \A o \in Objs : g[o] \in Entry \cup {NULL}
      BY <1>4, <1>5 DEF Heaps
    <2> QED
      BY <2>1, <2>2 DEF Heaps
  <1>7. Alive(h) \subseteq Objs /\ Alive(g) = Alive(h)
    BY <1>4, <1>5, <1>6, AliveType
  <1> QED
    BY <1>4, <1>5, <1>6, <1>7 DEF Kept, SameNeeds, SameRuns, SameRefs, SameLists

LEMMA CollectMarkInv ==
  ASSUME MarkInv, Collect
  PROVE  MarkInv' /\ UNCHANGED <<heap, queue, running, slots>>
  <1>1. /\ gc = "idle" /\ gc' = "mark" /\ roots' = RootPieces
        /\ UNCHANGED <<heap, queue, running, slots>>
    BY DEF Collect
  <1> DEFINE a == {slots[s] : s \in Slots}
  <1>2. /\ roots' = <<a, running>> /\ Roots = a \cup running
        /\ a \in SUBSET (Objs \cup {NULL}) /\ running \in SUBSET (Objs \cup {NULL})
    BY <1>1, MarkInvTypes DEF RootPieces, Roots
  <1> HIDE DEF a
  <1>3. roots' \in Seq(SUBSET (Objs \cup {NULL}))
    BY <1>2
  <1>4. \A o : o \in Pending(roots') <=> o \in Roots
    <2>1. DOMAIN roots' = {1, 2} /\ roots'[1] = a /\ roots'[2] = running
      BY <1>2
    <2> QED
      BY <1>2, <2>1, PendingFacts
  <1>5. \A o \in Alive(heap) : heap[o].marked # 1
    BY <1>1 DEF MarkInv, TypeOK
  <1>6. Roots' = Roots /\ Reachable' = Reachable
    BY <1>1, MarkInvTypes, ReachableStays DEF Kept, SameRefs
  <1>7. MarksOK(heap, roots')
    BY <1>4, <1>5, ReachableFacts DEF MarksOK, Found
  <1>8. MarksOK(heap, roots)'
    BY <1>1, <1>6, <1>7 DEF MarksOK, Found
  <1>9. TypeOK'
    BY <1>1, <1>3, MarkInvTypes DEF TypeOK, Heaps
  <1> QED
    BY <1>1, <1>8, <1>9 DEF MarkInv, EntriesFit, Alive

(* What is found in a piece is marked, and what it refers to is pending. *)
LEMMA MarkPieceFacts ==
  ASSUME MarkInv, MarkPiece,
         NEW found, found = {o \in Last(roots) \cap Alive(heap) : heap[o].marked = 0}
  PROVE  /\ Kept(heap, heap') /\ SameNeeds(heap, heap') /\ SameRuns(heap, heap')
         /\ SameRefs(heap, heap') /\ SameLists(heap, heap')
         /\ \A p \in Alive(heap) :
              heap'[p].marked = IF p \in found THEN 1 ELSE heap[p].marked
         /\ roots' \in Seq(SUBSET (Objs \cup {NULL}))
         /\ \A o : o \in Pending(roots) <=> o \in Pending(Front(roots)) \/ o \in Last(roots)
         /\ \A o : o \in Pending(roots') <=>
                     \/ o \in Pending(Front(roots))
                     \/ \E p \in found : heap[p].type \notin WeakTypes /\ o = heap[p].ref
         /\ gc = "mark" /\ UNCHANGED <<queue, running, slots, gc>>
  <1> DEFINE scanned == {o \in found : heap[o].type \notin WeakTypes}
             X == Objs \cup {NULL}
  <1>1. /\ gc = "mark" /\ roots # <<>> /\ heap' = WithMarks(heap, found)
        /\ \E order \in SetToSeqs(scanned) :
             roots' = Worklist(Front(roots), [i \in DOMAIN order |-> {heap[order[i]].ref}])
        /\ UNCHANGED <<queue, running, slots, gc>>
    BY DEF MarkPiece
  <1>2. PICK order \in SetToSeqs(scanned) :
          roots' = Worklist(Front(roots), [i \in DOMAIN order |-> {heap[order[i]].ref}])
    BY <1>1
  <1>3. found \in SUBSET Alive(heap) /\ heap \in Heaps /\ roots \in Seq(SUBSET X)
    BY MarkInvTypes
  <1>4. scanned \in SUBSET Objs /\ scanned \subseteq found
    BY <1>3, AliveType
  <1>5. /\ order \in Seq(Objs)
        /\ \A i \in 1 .. Len(order) : order[i] \in scanned
        /\ \A o \in scanned : \E i \in 1 .. Len(order) : order[i] = o
    BY <1>4, SetToSeqsFacts
  <1>6. DOMAIN order = 1 .. Len(order) /\ Len(order) \in Nat
    BY <1>5, LenProperties
  <1> DEFINE added == [i \in DOMAIN order |-> {heap[order[i]].ref}]
             n == Len(order)
  <1> HIDE DEF scanned, n, X
  <1>7. DOMAIN added = 1 .. n /\ \A i \in 1 .. n : added[i] = {heap[order[i]].ref}
    BY <1>6 DEF n
  <1>8. \A i \in 1 .. n : added[i] \in SUBSET X
    <2> SUFFICES ASSUME NEW i \in 1 .. n
                 PROVE  heap[order[i]].ref \in X
      BY <1>7
    <2>1. order[i] \in Alive(heap)
      BY <1>3, <1>4, <1>5 DEF n
    <2> QED
      BY <1>3, <2>1, AliveType, EntryType DEF X
  <1>9. added \in Seq(SUBSET X)
    <2>1. added \in [1 .. n -> SUBSET X] /\ n \in Nat
      BY <1>6, <1>7, <1>8 DEF n
    <2> HIDE DEF added
    <2> QED
      BY <2>1, SeqDef
  <1>10. \A o : o \in Pending(added) <=> \E p \in scanned : o = heap[p].ref
    <2>1. ASSUME NEW o, o \in Pending(added)
          PROVE  \E p \in scanned : o = heap[p].ref
      <3>1. PICK i \in 1 .. n : o \in added[i]
        BY <1>7, <2>1, PendingFacts
      <3> QED
        BY <1>5, <1>7, <3>1 DEF n
    <2>2. ASSUME NEW o, NEW p \in scanned, o = heap[p].ref
          PROVE  o \in Pending(added)
      <3>1. PICK i \in 1 .. n : order[i] = p
        BY <1>5 DEF n
      <3>2. i \in DOMAIN added /\ o \in added[i]
        BY <1>7, <2>2, <3>1
      <3> QED
        BY <3>2, PendingFacts
    <2> QED
      BY <2>1, <2>2
  <1>11. /\ Front(roots) \in Seq(SUBSET X)
         /\ \A o : o \in Pending(roots) <=> o \in Pending(Front(roots)) \/ o \in Last(roots)
    BY <1>1, <1>3, FrontPending
  <1> DEFINE rest == Front(roots)
  <1>12. roots' = Worklist(rest, added)
    BY <1>2
  <1> HIDE DEF added, rest
  <1>13. /\ roots' \in Seq(SUBSET X)
         /\ \A o : o \in Pending(roots') <=> o \in Pending(rest) \/ o \in Pending(added)
    BY <1>9, <1>11, <1>12, WorklistFacts DEF rest
  <1>14. /\ Kept(heap, heap') /\ SameNeeds(heap, heap') /\ SameRuns(heap, heap')
         /\ SameRefs(heap, heap') /\ SameLists(heap, heap')
         /\ \A p \in Alive(heap) :
              heap'[p].marked = IF p \in found THEN 1 ELSE heap[p].marked
    BY <1>1, <1>3, WithMarksFacts
  <1>15. \A o : o \in Pending(roots') <=>
                   \/ o \in Pending(Front(roots))
                   \/ \E p \in found : heap[p].type \notin WeakTypes /\ o = heap[p].ref
    BY <1>10, <1>13 DEF scanned, rest
  <1> QED
    BY <1>1, <1>11, <1>13, <1>14, <1>15 DEF X

LEMMA MarkPieceMarkInv ==
  ASSUME MarkInv, MarkPiece
  PROVE  MarkInv'
  <1> DEFINE found == {o \in Last(roots) \cap Alive(heap) : heap[o].marked = 0}
  <1>1. /\ Kept(heap, heap') /\ SameNeeds(heap, heap') /\ SameRuns(heap, heap')
        /\ SameRefs(heap, heap') /\ SameLists(heap, heap')
        /\ \A p \in Alive(heap) :
             heap'[p].marked = IF p \in found THEN 1 ELSE heap[p].marked
        /\ roots' \in Seq(SUBSET (Objs \cup {NULL}))
        /\ \A o : o \in Pending(roots) <=> o \in Pending(Front(roots)) \/ o \in Last(roots)
        /\ \A o : o \in Pending(roots') <=>
                    \/ o \in Pending(Front(roots))
                    \/ \E p \in found : heap[p].type \notin WeakTypes /\ o = heap[p].ref
        /\ gc = "mark" /\ UNCHANGED <<queue, running, slots, gc>>
    BY MarkPieceFacts
  <1>2. /\ heap \in Heaps /\ EntriesFit(heap) /\ MarksOK(heap, roots) /\ Alive(heap) \subseteq Objs
    BY <1>1, MarkInvTypes, AliveType DEF MarkInv
  <1>3. Roots' = Roots /\ Reachable' = Reachable
    BY <1>1, ReachableStays
  <1>4. \A p \in found : p \in Alive(heap) /\ p \in Last(roots) /\ heap[p].marked = 0 /\ p \in Objs
    BY <1>2
  <1>5. \A p \in Alive(heap) : p \in Last(roots) /\ heap[p].marked = 0 => p \in found
    OBVIOUS
  <1> HIDE DEF found
  <1>6. /\ heap' \in Heaps /\ Alive(heap') = Alive(heap)
        /\ \A p \in Alive(heap) : /\ heap'[p].type = heap[p].type
                                  /\ heap'[p].ref = heap[p].ref
                                  /\ heap'[p].needToFinalize = heap[p].needToFinalize
    BY <1>1 DEF Kept, SameNeeds, SameRefs
  <1>7. TypeOK'
    BY <1>1, <1>6, MarkInvTypes DEF TypeOK, Heaps
  <1>8. EntriesFit(heap')
    <2> SUFFICES ASSUME NEW p \in Alive(heap)
                 PROVE  Fits(heap'[p])
      BY <1>6 DEF EntriesFit
    <2>1. Fits(heap[p]) /\ (heap'[p].marked = 255 => heap[p].marked = 255)
      BY <1>1, <1>2 DEF EntriesFit
    <2> QED
      BY <1>6, <2>1 DEF Fits
  <1>9. ASSUME NEW o \in Alive(heap), Found(heap, roots, o)
        PROVE  Found(heap', roots', o)
    BY <1>1, <1>5, <1>9 DEF Found
  <1>10. ASSUME NEW p \in found
         PROVE  p \in Reachable
    BY <1>1, <1>2, <1>4 DEF MarksOK
  <1>11. \A o \in Roots \cap Alive(heap') : Found(heap', roots', o)
    BY <1>2, <1>6, <1>9 DEF MarksOK
  <1>12. ASSUME NEW p \in Alive(heap'), heap'[p].marked = 1, heap'[p].type \notin WeakTypes,
                heap'[p].ref \in Alive(heap')
         PROVE  Found(heap', roots', heap'[p].ref)
    <2>1. CASE p \in found
      BY <1>1, <1>6, <1>12, <2>1 DEF Found
    <2>2. CASE p \notin found
      <3>1. heap[p].marked = 1 /\ heap[p].type \notin WeakTypes /\ heap[p].ref \in Alive(heap)
        BY <1>1, <1>6, <1>12, <2>2
      <3>2. Found(heap, roots, heap[p].ref)
        BY <1>2, <1>6, <3>1 DEF MarksOK
      <3> QED
        BY <1>6, <1>9, <3>1, <3>2
    <2> QED
      BY <2>1, <2>2
  <1>13. \A o \in Alive(heap') : heap'[o].marked = 1 => o \in Reachable
    BY <1>1, <1>2, <1>6, <1>10 DEF MarksOK
  <1>14. Pending(roots') \cap Objs \subseteq Reachable
    <2> SUFFICES ASSUME NEW o \in Objs, o \in Pending(roots')
                 PROVE  o \in Reachable
      OBVIOUS
    <2>1. CASE o \in Pending(Front(roots))
      BY <1>1, <1>2, <2>1 DEF MarksOK
    <2>2. ASSUME NEW p \in found, heap[p].type \notin WeakTypes, o = heap[p].ref
          PROVE  o \in Reachable
      <3>1. p \in Reachable /\ p \in Alive(heap)
        BY <1>4, <1>10
      <3> QED
        BY <2>2, <3>1, ReachableFacts
    <2> QED
      BY <1>1, <2>1, <2>2
  <1>15. MarksOK(heap, roots)'
    BY <1>3, <1>11, <1>12, <1>13, <1>14 DEF MarksOK, Found, Alive
  <1> QED
    BY <1>7, <1>8, <1>15 DEF MarkInv, EntriesFit, Alive

(* The queue after a collection. *)
LEMMA QueuesAfterType ==
  ASSUME MarkInv, NEW q \in QueuesAfter(heap)
  PROVE  q \in Seq(Objs)
  <1>1. ToFinalize(heap) \in SUBSET Objs
    BY DEF ToFinalize, Unused, Alive
  <1>2. PICK a \in SetToSeqs(ToFinalize(heap)) : q = queue \o a
    BY DEF QueuesAfter
  <1>3. a \in Seq(Objs) /\ queue \in Seq(Objs)
    BY <1>1, <1>2, SetToSeqsFacts, MarkInvTypes
  <1> QED
    BY <1>2, <1>3, ConcatProperties

LEMMA SweepFacts ==
  ASSUME MarkInv, Sweep
  PROVE  /\ heap' \in Heaps
         /\ Alive(heap') = Alive(heap) \ ToDelete(heap)
         /\ \A o \in Alive(heap') :
              /\ o \in Alive(heap)
              /\ heap'[o].type = heap[o].type
              /\ heap'[o].marked = IF heap[o].marked = 1 THEN 0 ELSE heap[o].marked
              /\ heap'[o].finalized = heap[o].finalized
              /\ heap'[o].needToFinalize =
                   IF o \in ToFinalize(heap) THEN 2 ELSE heap[o].needToFinalize
              /\ heap'[o].ref = IF heap[o].type \in WeakTypes /\ o \in RemovedWeakRefs(heap)
                                THEN NULL ELSE heap[o].ref
              /\ heap'[o].weakRef =
                   IF o \in ToFinalize(heap) THEN heap[o].weakRef \ RemovedWeakRefs(heap)
                   ELSE heap[o].weakRef
         /\ gc = "mark" /\ roots = <<>> /\ roots' = <<>> /\ gc' = "idle"
         /\ queue' \in QueuesAfter(heap) /\ UNCHANGED <<running, slots>>
  <1>1. heap' = Swept(heap) /\ heap \in Heaps
    BY MarkInvTypes DEF Sweep
  <1>2. /\ heap' \in Heaps
        /\ Alive(heap') = Alive(heap) \ ToDelete(heap)
        /\ \A o \in Alive(heap') :
             /\ o \in Alive(heap)
             /\ heap'[o].type = heap[o].type
             /\ heap'[o].marked = IF heap[o].marked = 1 THEN 0 ELSE heap[o].marked
             /\ heap'[o].finalized = heap[o].finalized
             /\ heap'[o].needToFinalize =
                  IF o \in ToFinalize(heap) THEN 2 ELSE heap[o].needToFinalize
             /\ heap'[o].ref = IF heap[o].type \in WeakTypes /\ o \in RemovedWeakRefs(heap)
                               THEN NULL ELSE heap[o].ref
             /\ heap'[o].weakRef =
                  IF o \in ToFinalize(heap) THEN heap[o].weakRef \ RemovedWeakRefs(heap)
                  ELSE heap[o].weakRef
    BY <1>1, SweptType
  <1> QED
    BY <1>2 DEF Sweep

LEMMA SweepMarkInv ==
  ASSUME MarkInv, Sweep
  PROVE  MarkInv'
  <1>1. /\ roots' = <<>> /\ gc' = "idle" /\ queue' \in QueuesAfter(heap)
        /\ UNCHANGED <<running, slots>>
    BY SweepFacts
  <1>2. /\ heap' \in Heaps
        /\ \A o \in Alive(heap') :
             /\ o \in Alive(heap)
             /\ heap'[o].type = heap[o].type
             /\ heap'[o].marked = IF heap[o].marked = 1 THEN 0 ELSE heap[o].marked
             /\ heap'[o].needToFinalize =
                  IF o \in ToFinalize(heap) THEN 2 ELSE heap[o].needToFinalize
             /\ heap'[o].ref = IF heap[o].type \in WeakTypes /\ o \in RemovedWeakRefs(heap)
                               THEN NULL ELSE heap[o].ref
    BY SweepFacts
  <1>3. queue' \in Seq(Objs) /\ roots' \in Seq(SUBSET (Objs \cup {NULL}))
    BY <1>1, QueuesAfterType
  <1>4. \A o \in Alive(heap') : heap'[o].marked # 1
    BY <1>2
  <1>5. TypeOK'
    BY <1>1, <1>2, <1>3, <1>4, MarkInvTypes DEF TypeOK, Heaps, Alive
  <1>6. \A o \in ToFinalize(heap) : heap[o].needToFinalize = 1
    BY DEF ToFinalize
  <1>7. EntriesFit(heap')
    <2> SUFFICES ASSUME NEW o \in Alive(heap')
                 PROVE  Fits(heap'[o])
      BY DEF EntriesFit
    <2>1. o \in Alive(heap) /\ heap'[o].type = heap[o].type
      BY <1>2
    <2>2. Fits(heap[o])
      BY <2>1, MarkInvTypes DEF EntriesFit
    <2>3. heap'[o].marked = 255 => heap[o].marked = 255
      BY <1>2
    <2>4. heap'[o].needToFinalize # 0 => heap[o].needToFinalize # 0
      <3>1. heap'[o].needToFinalize =
              IF o \in ToFinalize(heap) THEN 2 ELSE heap[o].needToFinalize
        BY <1>2
      <3> QED
        BY <1>6, <3>1
    <2>5. heap'[o].ref # NULL => heap[o].ref # NULL
      BY <1>2
    <2> QED
      BY <2>1, <2>2, <2>3, <2>4, <2>5 DEF Fits
  <1> QED
    BY <1>1, <1>5, <1>7 DEF MarkInv, EntriesFit, Alive

LEMMA NewMarkInv ==
  ASSUME MarkInv, NEW x \in Slots, NEW type \in Types, New(x, type)
  PROVE  MarkInv'
  <1>1. PICK o \in Objs \ Alive(heap) :
          /\ RunFinalizer(Allocated(heap, o, type), queue)
          /\ slots' = [slots EXCEPT ![x] = o]
    BY DEF New
  <1>2. gc = "idle" /\ UNCHANGED <<gc, roots>>
    BY DEF New
  <1> DEFINE h == Allocated(heap, o, type)
             e == NewEntry(type)
  <1>3. /\ heap \in Heaps /\ queue \in Seq(Objs) /\ running \subseteq Objs
        /\ slots \in [Slots -> Objs \cup {NULL}] /\ EntriesFit(heap)
    BY MarkInvTypes
  <1>4. /\ h \in Heaps /\ Alive(h) = Alive(heap) \cup {o} /\ h[o] = e
        /\ \A p \in Alive(heap) : p # o /\ h[p] = heap[p]
    BY <1>3, AllocatedFacts
  <1>5. /\ e.type = type /\ e.ref = NULL
        /\ e.marked = IF type = "undeletable" THEN 255 ELSE 0
        /\ e.needToFinalize = IF type \in WeakTypes \cup {"finalizable"} THEN 1 ELSE 0
    BY NewEntryType
  <1> HIDE DEF h, e
  <1>6. /\ Kept(h, heap') /\ SameMarks(h, heap') /\ SameNeeds(h, heap') /\ SameRefs(h, heap')
        /\ queue' \in Seq(Objs) /\ running' \subseteq Objs
    BY <1>1, <1>3, <1>4, RunFinalizerFacts DEF h
  <1>7. \A p \in Alive(h) : Fits(h[p]) /\ h[p].marked # 1
    <2>1. Fits(h[o]) /\ h[o].marked # 1
      BY <1>4, <1>5 DEF Fits, WeakTypes
    <2>2. \A p \in Alive(heap) : Fits(h[p]) /\ h[p].marked # 1
      BY <1>2, <1>3, <1>4 DEF MarkInv, TypeOK, EntriesFit
    <2> QED
      BY <1>4, <2>1, <2>2
  <1>8. \A p \in Alive(heap') : Fits(heap'[p]) /\ heap'[p].marked # 1
    BY <1>6, <1>7 DEF Kept, SameMarks, SameNeeds, SameRefs, Fits
  <1>9. slots' \in [Slots -> Objs \cup {NULL}] /\ heap' \in Heaps
    BY <1>1, <1>3, <1>6 DEF Kept
  <1>10. roots' \in Seq(SUBSET (Objs \cup {NULL})) /\ roots' = <<>> /\ gc' = "idle"
    BY <1>2 DEF MarkInv, TypeOK
  <1>11. TypeOK'
    BY <1>6, <1>8, <1>9, <1>10 DEF TypeOK, Heaps, Alive
  <1> QED
    BY <1>8, <1>10, <1>11 DEF MarkInv, EntriesFit, Alive

LEMMA InitMarkInv == Init => MarkInv
  <1> SUFFICES ASSUME Init
               PROVE  MarkInv
    OBVIOUS
  <1>1. Alive(heap) = {}
    BY DEF Init, Alive
  <1>2. TypeOK
    BY <1>1 DEF Init, TypeOK
  <1> QED
    BY <1>1, <1>2 DEF Init, MarkInv, EntriesFit

LEMMA NextMarkInv == MarkInv /\ [Next]_vars => MarkInv'
  <1> SUFFICES ASSUME MarkInv, [Next]_vars
               PROVE  MarkInv'
    OBVIOUS
  <1>1. CASE \E x \in Slots, type \in Types : New(x, type)
    BY <1>1, NewMarkInv
  <1>2. CASE Collect \/ MarkPiece \/ Sweep
    BY <1>2, CollectMarkInv, MarkPieceMarkInv, SweepMarkInv
  <1>3. CASE \E x \in Slots : SuppressFinalize(x) \/ Overwrite(x)
    BY <1>3, SuppressFacts, OverwriteFacts
  <1>4. CASE \E x, y \in Slots :
               SetTarget(x, y) \/ GetTarget(x, y) \/ SetField(x, y) \/ GetField(x, y)
    BY <1>4, SetTargetFacts, LoadFacts, SetFieldFacts
  <1>5. CASE \E o \in Objs : EndFinalizer(o) \/ MakeDeletable(o)
    BY <1>5, EndFinalizerFacts, MakeDeletableFacts
  <1>6. CASE \E o \in Objs, x \in Slots : FinalizerStores(o, x)
    BY <1>6, StoreFacts
  <1>7. CASE UNCHANGED vars
    <2>1. UNCHANGED <<heap, queue, running, slots, gc, roots>>
      BY <1>7 DEF vars
    <2>2. Roots' = Roots /\ Reachable' = Reachable
      BY <2>1, MarkInvTypes, ReachableStays DEF Kept, SameRefs
    <2>3. MarksOK(heap, roots) => MarksOK(heap, roots)'
      BY <2>1, <2>2 DEF MarksOK, Found, Alive, Pending
    <2> QED
      BY <2>1, <2>3 DEF MarkInv, TypeOK, EntriesFit, Alive
  <1> QED
    BY <1>1, <1>2, <1>3, <1>4, <1>5, <1>6, <1>7 DEF Next

-----------------------------------------------------------------------------
(* What a collection takes *)

(* No object that native code keeps refers to others: GC_Mark passes over  *)
(* what is marked as undeletable, and so over what it refers to.           *)
PinnedHoldNothing == "undeletable" \notin HoldRefs

(* When nothing is pending the marks tell what the program can reach.      *)
LEMMA MarksAreRight ==
  ASSUME MarkInv, PinnedHoldNothing, gc = "mark", roots = <<>>
  PROVE  \A o \in Alive(heap) :
           /\ o \in Reachable => heap[o].marked # 0
           /\ heap[o].marked = 1 => o \in Reachable
  <1>1. MarksOK(heap, roots) /\ EntriesFit(heap) /\ heap \in Heaps
    BY MarkInvTypes DEF MarkInv
  <1>2. \A o : o \notin Pending(roots)
    <2>1. DOMAIN roots = {}
      OBVIOUS
    <2> QED
      BY <2>1, PendingFacts
  <1> DEFINE S == {o \in Objs : o \in Alive(heap) => heap[o].marked # 0}
  <1>3. Roots \cap Objs \subseteq S
    BY <1>1, <1>2 DEF MarksOK, Found
  <1>4. ASSUME NEW p \in S \cap Alive(heap), heap[p].type \notin WeakTypes, heap[p].ref \in Objs
        PROVE  heap[p].ref \in S
    <2>1. heap[p] \in Entry /\ heap[p].marked \in {1, 255} /\ heap[p].ref # NULL
      BY <1>1, <1>4, AliveType, EntryType, CollectorAssumption
    <2>2. CASE heap[p].marked = 1
      BY <1>1, <1>2, <1>4, <2>2 DEF MarksOK, Found
    <2>3. CASE heap[p].marked = 255
      <3>1. heap[p].type = "undeletable" /\ heap[p].type \in HoldRefs
        BY <1>1, <1>4, <2>1, <2>3 DEF EntriesFit, Fits
      <3> QED
        BY <3>1 DEF PinnedHoldNothing
    <2> QED
      BY <2>1, <2>2, <2>3
  <1>5. Reachable \subseteq S
    <2>1. S \in SUBSET Objs
      OBVIOUS
    <2>2. \A p \in S \cap Alive(heap) :
            heap[p].type \notin WeakTypes => {heap[p].ref} \cap Objs \subseteq S
      BY <1>4
    <2> HIDE DEF S
    <2> QED
      BY <1>3, <2>1, <2>2, ReachableFacts
  <1> QED
    BY <1>1, <1>5 DEF MarksOK

LEMMA SweepTakesGarbage ==
  ASSUME MarkInv, PinnedHoldNothing, Sweep, NEW o \in Alive(heap)
  PROVE  /\ o \in Reachable => heap'[o] # NULL
         /\ heap'[o] # NULL =>
              \/ o \in Reachable
              \/ heap[o].marked = 255
              \/ heap'[o].needToFinalize = 2
  <1>1. /\ heap' \in Heaps /\ Alive(heap') = Alive(heap) \ ToDelete(heap)
        /\ \A p \in Alive(heap') :
             heap'[p].needToFinalize = IF p \in ToFinalize(heap) THEN 2 ELSE heap[p].needToFinalize
        /\ gc = "mark" /\ roots = <<>>
    BY SweepFacts
  <1>2. /\ o \in Reachable => heap[o].marked # 0
        /\ heap[o].marked = 1 => o \in Reachable
    BY <1>1, MarksAreRight
  <1>3. o \in Objs /\ (heap'[o] # NULL <=> o \in Alive(heap'))
    BY <1>1 DEF Alive
  <1>4. heap[o].marked \in {0, 1, 255} /\ heap[o].needToFinalize \in 0 .. 2
    BY MarkInvTypes, AliveType, EntryType
  <1>5. ASSUME o \in Reachable
        PROVE  heap'[o] # NULL
    BY <1>1, <1>2, <1>3, <1>5 DEF ToDelete, Unused
  <1>6. ASSUME heap'[o] # NULL, o \notin Reachable, heap[o].marked # 255
        PROVE  heap'[o].needToFinalize = 2
    <2>1. o \in Unused(heap) /\ o \notin ToDelete(heap) /\ o \in Alive(heap')
      BY <1>1, <1>2, <1>3, <1>4, <1>6 DEF Unused
    <2>2. heap[o].needToFinalize # 0
      BY <2>1 DEF ToDelete
    <2>3. CASE heap[o].needToFinalize = 1
      <3>1. o \in ToFinalize(heap)
        BY <2>1, <2>3 DEF ToFinalize
      <3> QED
        BY <1>1, <2>1, <3>1
    <2>4. CASE heap[o].needToFinalize = 2
      BY <1>1, <2>1, <2>4
    <2> QED
      BY <1>4, <2>2, <2>3, <2>4
  <1> QED
    BY <1>5, <1>6

-----------------------------------------------------------------------------
(* The finalizer queue *)

(* No finalizer is suppressed of an object that waits in the queue.        *)
NoQueuedSuppressed ==
  \A x \in Slots : SuppressFinalize(x) => ~IsQueued(queue, slots[x])

LEMMA KeptQueue ==
  ASSUME NEW h, NEW g, NEW q, NEW r, NEW u \in SUBSET r, QueueGood(h, q, r),
         Kept(h, g), SameRuns(h, g),
         \A p \in Alive(h) :
           g[p].needToFinalize # h[p].needToFinalize =>
             g[p].needToFinalize = 0 /\ ~IsQueued(q, p),
         \A p \in r \ u : g[p].needToFinalize = 0
  PROVE  QueueGood(g, q, u)
  <1>1. r \subseteq Alive(h) /\ QueueOK(h, q, r) /\ OnceOK(h, q, r) /\ Alive(g) = Alive(h)
    BY DEF QueueGood, Kept
  <1>2. QueueOK(g, q, u)
    <2>1. ASSUME NEW i \in DOMAIN q
          PROVE  q[i] \in Alive(g) /\ g[q[i]].needToFinalize = 2
      <3>1. q[i] \in Alive(h) /\ h[q[i]].needToFinalize = 2 /\ IsQueued(q, q[i])
        BY <1>1 DEF QueueOK, IsQueued
      <3> QED
        BY <1>1, <3>1
    <2>2. ASSUME NEW o \in Alive(g), g[o].needToFinalize = 2
          PROVE  (o \in u <=> ~IsQueued(q, o))
      <3>1. h[o].needToFinalize = 2 /\ (o \in u <=> o \in r)
        BY <1>1, <2>2
      <3> QED
        BY <1>1, <3>1 DEF QueueOK
    <2> QED
      BY <1>1, <2>1, <2>2 DEF QueueOK
  <1>3. OnceOK(g, q, u)
    BY <1>1 DEF OnceOK, SameRuns
  <1> QED
    BY <1>1, <1>2, <1>3 DEF QueueGood

(* Whose finalizer runs waits for it no more. *)
LEMMA RunningFacts ==
  ASSUME NEW h, NEW q, NEW r, QueueGood(h, q, r), NEW o \in r
  PROVE  o \in Alive(h) /\ ~IsQueued(q, o) /\ h[o].needToFinalize # 1
  <1>1. o \in Alive(h) /\ QueueOK(h, q, r) /\ OnceOK(h, q, r)
    BY DEF QueueGood
  <1>2. IsQueued(q, o) => h[o].needToFinalize = 2
    BY <1>1 DEF QueueOK, IsQueued
  <1> QED
    BY <1>1, <1>2 DEF QueueOK, OnceOK

LEMMA QueuesAfterFacts ==
  ASSUME MarkInv, QueueInv, NEW q \in QueuesAfter(heap)
  PROVE  /\ q \in Seq(Objs)
         /\ \A i, j \in DOMAIN q : q[i] = q[j] => i = j
         /\ \A o \in Objs : IsQueued(q, o) <=> IsQueued(queue, o) \/ o \in ToFinalize(heap)
         /\ \A i \in DOMAIN q : q[i] \in Objs
  <1>1. /\ heap \in [Objs -> Entry \cup {NULL}] /\ queue \in Seq(Objs)
        /\ \A i, j \in DOMAIN queue : queue[i] = queue[j] => i = j
        /\ \A i \in DOMAIN queue : queue[i] \in Alive(heap) /\ heap[queue[i]].needToFinalize = 2
    BY MarkInvTypes DEF QueueInv, QueueGood, QueueOK, Heaps
  <1>2. ToFinalize(heap) \in SUBSET Objs
    BY DEF ToFinalize, Unused, Alive
  <1>3. PICK a \in SetToSeqs(ToFinalize(heap)) : q = queue \o a
    BY DEF QueuesAfter
  <1>4. /\ a \in Seq(Objs)
        /\ \A i, j \in 1 .. Len(a) : a[i] = a[j] => i = j
        /\ \A i \in 1 .. Len(a) : a[i] \in ToFinalize(heap)
        /\ \A o \in ToFinalize(heap) : \E i \in 1 .. Len(a) : a[i] = o
    BY <1>2, <1>3, SetToSeqsFacts
  <1> DEFINE m == Len(queue)
             n == Len(a)
  <1>5. /\ q \in Seq(Objs) /\ Len(q) = m + n
        /\ \A i \in 1 .. m + n : q[i] = IF i <= m THEN queue[i] ELSE a[i - m]
    BY <1>1, <1>3, <1>4, ConcatProperties
  <1>6. /\ m \in Nat /\ n \in Nat /\ DOMAIN queue = 1 .. m /\ DOMAIN q = 1 .. m + n
    BY <1>1, <1>4, <1>5, LenProperties
  <1>7. \A i \in 1 .. m : queue[i] \notin ToFinalize(heap)
    BY <1>1, <1>6 DEF ToFinalize
  <1> HIDE DEF m, n
  <1>8. ASSUME NEW i \in 1 .. m + n, NEW j \in 1 .. m + n, q[i] = q[j]
        PROVE  i = j
    <2>1. ASSUME NEW k \in 1 .. m + n
          PROVE  \/ k \in 1 .. m /\ q[k] = queue[k] /\ q[k] \notin ToFinalize(heap)
                 \/ k - m \in 1 .. n /\ q[k] = a[k - m] /\ q[k] \in ToFinalize(heap)
      <3>1. k \in 1 .. m \/ (~(k <= m) /\ k - m \in 1 .. n)
        BY <1>6
      <3> QED
        BY <1>4, <1>5, <1>6, <1>7, <3>1 DEF n
    <2>2. CASE i \in 1 .. m /\ j \in 1 .. m /\ q[i] = queue[i] /\ q[j] = queue[j]
      BY <1>1, <1>6, <1>8, <2>2
    <2>3. CASE i - m \in 1 .. n /\ j - m \in 1 .. n /\ q[i] = a[i - m] /\ q[j] = a[j - m]
      <3>1. i - m = j - m
        BY <1>4, <1>8, <2>3 DEF n
      <3> QED
        BY <1>6, <3>1
    <2> QED
      BY <1>8, <2>1, <2>2, <2>3
  <1>9. ASSUME NEW o \in Objs
        PROVE  IsQueued(q, o) <=> IsQueued(queue, o) \/ o \in ToFinalize(heap)
    <2>1. ASSUME IsQueued(q, o)
          PROVE  IsQueued(queue, o) \/ o \in ToFinalize(heap)
      <3>1. PICK i \in 1 .. m + n : q[i] = o
        BY <1>6, <2>1 DEF IsQueued
      <3>2. i <= m \/ i - m \in 1 .. n
        BY <1>6
      <3> QED
        BY <1>4, <1>5, <1>6, <3>1, <3>2 DEF IsQueued, n
    <2>2. ASSUME IsQueued(queue, o)
          PROVE  IsQueued(q, o)
      <3>1. PICK i \in 1 .. m : queue[i] = o
        BY <1>6, <2>2 DEF IsQueued
      <3>2. i \in 1 .. m + n /\ q[i] = o
        BY <1>5, <1>6, <3>1
      <3> QED
        BY <1>6, <3>2 DEF IsQueued
    <2>3. ASSUME o \in ToFinalize(heap)
          PROVE  IsQueued(q, o)
      <3>1. PICK i \in 1 .. n : a[i] = o
        BY <1>4, <2>3 DEF n
      <3>2. m + i \in 1 .. m + n /\ ~(m + i <= m) /\ (m + i) - m = i
        BY <1>6
      <3>3. q[m + i] = o
        BY <1>5, <3>1, <3>2
      <3> QED
        BY <1>6, <3>2, <3>3 DEF IsQueued
    <2> QED
      BY <2>1, <2>2, <2>3
  <1>10. \A i \in DOMAIN q : q[i] \in Objs
    BY <1>5, <1>6, ElementOfSeq
  <1> QED
    BY <1>5, <1>6, <1>8, <1>9, <1>10

(* A finalizer that runs is a root, so its object survives. *)
LEMMA RunningSurvive ==
  ASSUME MarkInv, QueueInv, Sweep, NEW o \in running
  PROVE  heap[o].marked # 0
  <1>1. MarksOK(heap, roots) /\ roots = <<>>
    BY SweepFacts DEF MarkInv
  <1>2. o \notin Pending(roots)
    <2>1. DOMAIN roots = {}
      BY <1>1
    <2> QED
      BY <2>1, PendingFacts
  <1>3. o \in Roots \cap Alive(heap)
    BY DEF QueueInv, QueueGood, Roots
  <1> QED
    BY <1>1, <1>2, <1>3 DEF MarksOK, Found

LEMMA SweepQueueInv ==
  ASSUME MarkInv, QueueInv, Sweep
  PROVE  QueueInv'
  <1> DEFINE h == heap
             g == heap'
             q == queue'
  <1>1. /\ running \subseteq Alive(h) /\ QueueOK(h, queue, running) /\ OnceOK(h, queue, running)
        /\ h \in Heaps
    BY MarkInvTypes DEF QueueInv, QueueGood
  <1>2. /\ Alive(g) = Alive(h) \ ToDelete(h)
        /\ \A o \in Alive(g) :
             /\ g[o].finalized = h[o].finalized
             /\ g[o].needToFinalize = IF o \in ToFinalize(h) THEN 2 ELSE h[o].needToFinalize
        /\ q \in QueuesAfter(h) /\ running' = running
    BY SweepFacts
  <1>3. /\ \A i, j \in DOMAIN q : q[i] = q[j] => i = j
        /\ \A o \in Objs : IsQueued(q, o) <=> IsQueued(queue, o) \/ o \in ToFinalize(h)
        /\ \A i \in DOMAIN q : q[i] \in Objs
    BY <1>2, QueuesAfterFacts
  <1>4. \A o \in ToFinalize(h) :
          /\ o \in Alive(g) /\ h[o].needToFinalize = 1 /\ h[o].marked = 0
    BY <1>2 DEF ToFinalize, ToDelete, Unused
  <1>5. running \subseteq Alive(g) /\ running \cap ToFinalize(h) = {}
    BY <1>1, <1>2, RunningSurvive DEF ToDelete, ToFinalize, Unused
  <1>6. \A i \in DOMAIN queue : queue[i] \in Alive(g) /\ queue[i] \notin ToFinalize(h)
    BY <1>1, <1>2 DEF QueueOK, ToDelete, ToFinalize
  <1>7. Alive(h) \subseteq Objs /\ Alive(g) \subseteq Alive(h)
    BY <1>1, <1>2, AliveType
  <1> HIDE DEF h, g, q
  <1>8. QueueOK(g, q, running)
    <2>1. ASSUME NEW i \in DOMAIN q
          PROVE  q[i] \in Alive(g) /\ g[q[i]].needToFinalize = 2
      <3>1. IsQueued(queue, q[i]) \/ q[i] \in ToFinalize(h)
        BY <1>3 DEF IsQueued
      <3>2. CASE q[i] \in ToFinalize(h)
        BY <1>2, <1>4, <3>2
      <3>3. CASE IsQueued(queue, q[i])
        <4>1. PICK k \in DOMAIN queue : queue[k] = q[i]
          BY <3>3 DEF IsQueued
        <4>2. h[q[i]].needToFinalize = 2
          BY <1>1, <4>1 DEF QueueOK
        <4>3. q[i] \in Alive(g) /\ q[i] \notin ToFinalize(h)
          BY <1>6, <4>1
        <4> QED
          BY <1>2, <4>2, <4>3
      <3> QED
        BY <3>1, <3>2, <3>3
    <2>2. ASSUME NEW o \in Alive(g), g[o].needToFinalize = 2
          PROVE  (o \in running <=> ~IsQueued(q, o))
      <3>1. CASE o \in ToFinalize(h)
        BY <1>3, <1>5, <1>7, <3>1
      <3>2. CASE o \notin ToFinalize(h)
        <4>1. h[o].needToFinalize = 2 /\ o \in Alive(h) /\ o \in Objs
          BY <1>2, <1>7, <2>2, <3>2
        <4>2. (o \in running <=> ~IsQueued(queue, o))
          BY <1>1, <4>1 DEF QueueOK
        <4>3. IsQueued(q, o) <=> IsQueued(queue, o)
          BY <1>3, <3>2, <4>1
        <4> QED
          BY <4>2, <4>3 DEF IsQueued
      <3> QED
        BY <3>1, <3>2
    <2> QED
      BY <1>3, <2>1, <2>2 DEF QueueOK
  <1>9. OnceOK(g, q, running)
    <2> SUFFICES ASSUME NEW o \in Alive(g)
                 PROVE  /\ g[o].finalized <= 1
                        /\ g[o].needToFinalize = 1 => g[o].finalized = 0 /\ o \notin running
                        /\ IsQueued(q, o) => g[o].finalized = 0
      BY DEF OnceOK
    <2>1. o \in Alive(h) /\ o \in Objs /\ g[o].finalized = h[o].finalized
      BY <1>2, <1>7
    <2>2. g[o].needToFinalize = IF o \in ToFinalize(h) THEN 2 ELSE h[o].needToFinalize
      BY <1>2
    <2>3. g[o].needToFinalize = 1 => h[o].needToFinalize = 1
      BY <2>2
    <2> QED
      BY <1>1, <1>3, <1>4, <2>1, <2>3 DEF OnceOK
  <1> QED
    BY <1>2, <1>5, <1>8, <1>9 DEF QueueInv, QueueGood, g, q

LEMMA AllocatedQueue ==
  ASSUME NEW h \in Heaps, NEW q, NEW r, QueueGood(h, q, r),
         NEW o \in Objs \ Alive(h), NEW type \in Types, NEW g, g = Allocated(h, o, type)
  PROVE  QueueGood(g, q, r)
  <1> DEFINE e == NewEntry(type)
  <1>1. r \subseteq Alive(h) /\ QueueOK(h, q, r) /\ OnceOK(h, q, r)
    BY DEF QueueGood
  <1>2. /\ e.needToFinalize = IF type \in WeakTypes \cup {"finalizable"} THEN 1 ELSE 0
        /\ e.finalized = 0
    BY NewEntryType
  <1>3. /\ Alive(g) = Alive(h) \cup {o} /\ g[o] = e
        /\ \A p \in Alive(h) : p # o /\ g[p] = h[p]
    BY AllocatedFacts
  <1> HIDE DEF e
  <1>4. QueueOK(g, q, r)
    <2>1. \A i \in DOMAIN q : q[i] \in Alive(g) /\ g[q[i]].needToFinalize = 2
      BY <1>1, <1>3 DEF QueueOK
    <2>2. g[o].needToFinalize # 2
      BY <1>2, <1>3
    <2> QED
      BY <1>1, <1>3, <2>1, <2>2 DEF QueueOK
  <1>5. OnceOK(g, q, r)
    <2>1. o \notin r /\ g[o].finalized <= 1 /\ g[o].finalized = 0
      BY <1>1, <1>2, <1>3
    <2> QED
      BY <1>1, <1>3, <2>1 DEF OnceOK
  <1> QED
    BY <1>1, <1>3, <1>4, <1>5 DEF QueueGood

LEMMA RunFinalizerQueue ==
  ASSUME NEW h \in Heaps, NEW q \in Seq(Objs), running \subseteq Objs,
         QueueGood(h, q, running), RunFinalizer(h, q)
  PROVE  QueueGood(heap', queue', running')
  <1>1. CASE q = <<>>
    BY <1>1, RunFinalizerFacts
  <1>2. CASE q # <<>>
    <2> DEFINE o == Last(q)
               f == queue'
               r == running'
               g == heap'
    <2>1. running \subseteq Alive(h) /\ QueueOK(h, q, running) /\ OnceOK(h, q, running)
      BY DEF QueueGood
    <2>2. /\ Alive(g) = Alive(h) /\ SameNeeds(h, g)
          /\ f = Front(q) /\ r = running \cup {o}
          /\ \A p \in Alive(h) : p # o => g[p].finalized = h[p].finalized
          /\ o \in Alive(h) /\ h[o].finalized = 0 => g[o].finalized = 1
      BY <1>2, RunFinalizerFacts DEF Kept
    <2>3. /\ \A i \in DOMAIN f : i \in DOMAIN q /\ f[i] = q[i] /\ q[i] # o
          /\ IsQueued(q, o)
          /\ \A p : IsQueued(f, p) <=> IsQueued(q, p) /\ p # o
      BY <1>2, <2>1, <2>2, FrontFacts DEF QueueOK
    <2>4. o \in Alive(h) /\ h[o].needToFinalize = 2 /\ h[o].finalized = 0 /\ o \notin running
      <3>1. o \in Alive(h) /\ h[o].needToFinalize = 2
        BY <2>1, <2>3 DEF QueueOK, IsQueued
      <3>2. (o \in running <=> ~IsQueued(q, o))
        BY <2>1, <3>1 DEF QueueOK
      <3>3. o \notin running
        BY <2>3, <3>2 DEF IsQueued
      <3> QED
        BY <2>1, <2>3, <3>1, <3>3 DEF OnceOK
    <2> HIDE DEF o, f, r, g
    <2>5. QueueOK(g, f, r)
      <3>1. \A i, j \in DOMAIN f : f[i] = f[j] => i = j
        BY <2>1, <2>3 DEF QueueOK
      <3>2. \A i \in DOMAIN f : f[i] \in Alive(g) /\ g[f[i]].needToFinalize = 2
        BY <2>1, <2>2, <2>3 DEF QueueOK, SameNeeds
      <3>3. ASSUME NEW p \in Alive(g), g[p].needToFinalize = 2
            PROVE  (p \in r <=> ~IsQueued(f, p))
        <4>1. (p \in running <=> ~IsQueued(q, p))
          BY <2>1, <2>2, <3>3 DEF QueueOK, SameNeeds
        <4>2. CASE p = o
          BY <2>2, <2>3, <4>2
        <4>3. CASE p # o
          <5>1. (p \in r <=> p \in running) /\ (IsQueued(f, p) <=> IsQueued(q, p))
            BY <2>2, <2>3, <4>3
          <5> QED
            BY <4>1, <5>1
        <4> QED
          BY <4>2, <4>3
      <3> QED
        BY <3>1, <3>2, <3>3 DEF QueueOK
    <2>6. OnceOK(g, f, r)
      <3> SUFFICES ASSUME NEW p \in Alive(g)
                   PROVE  /\ g[p].finalized <= 1
                          /\ g[p].needToFinalize = 1 => g[p].finalized = 0 /\ p \notin r
                          /\ IsQueued(f, p) => g[p].finalized = 0
        BY DEF OnceOK
      <3>1. g[p].needToFinalize = h[p].needToFinalize /\ p \in Alive(h)
        BY <2>2 DEF SameNeeds
      <3>2. CASE p = o
        BY <2>2, <2>3, <2>4, <3>1, <3>2
      <3>3. CASE p # o
        BY <2>1, <2>2, <2>3, <3>1, <3>3 DEF OnceOK
      <3> QED
        BY <3>2, <3>3
    <2>7. r \subseteq Alive(g)
      BY <2>1, <2>2, <2>4
    <2> QED
      BY <2>5, <2>6, <2>7 DEF QueueGood, g, f, r
  <1> QED
    BY <1>1, <1>2

LEMMA NewQueueInv ==
  ASSUME MarkInv, QueueInv, NEW x \in Slots, NEW type \in Types, New(x, type)
  PROVE  QueueInv'
  <1>1. PICK o \in Objs \ Alive(heap) : RunFinalizer(Allocated(heap, o, type), queue)
    BY DEF New
  <1> DEFINE h == Allocated(heap, o, type)
  <1>2. h \in Heaps /\ QueueGood(h, queue, running)
    BY MarkInvTypes, AllocatedFacts, AllocatedQueue DEF QueueInv
  <1> HIDE DEF h
  <1>3. RunFinalizer(h, queue)
    BY <1>1 DEF h
  <1> QED
    BY <1>2, <1>3, MarkInvTypes, RunFinalizerQueue DEF QueueInv

LEMMA SuppressQueueInv ==
  ASSUME MarkInv, QueueInv, NEW x \in Slots, SuppressFinalize(x), ~IsQueued(queue, slots[x])
  PROVE  QueueInv'
  <1>1. /\ Kept(heap, heap') /\ SameRuns(heap, heap')
        /\ heap'[slots[x]].needToFinalize = 0
        /\ \A p \in Alive(heap) :
             p # slots[x] => heap'[p].needToFinalize = heap[p].needToFinalize
        /\ UNCHANGED <<queue, running>>
    BY SuppressFacts
  <1>2. \A p \in Alive(heap) :
          heap'[p].needToFinalize # heap[p].needToFinalize =>
            heap'[p].needToFinalize = 0 /\ ~IsQueued(queue, p)
    BY <1>1
  <1>3. QueueGood(heap', queue, running)
    BY <1>1, <1>2, KeptQueue DEF QueueInv
  <1> QED
    BY <1>1, <1>3 DEF QueueInv

LEMMA EndFinalizerQueueInv ==
  ASSUME MarkInv, QueueInv, NEW o \in Objs, EndFinalizer(o)
  PROVE  QueueInv'
  <1> DEFINE h == IF heap[o].type \in WeakTypes THEN Unlinked(heap, o) ELSE heap
             u == running \ {o}
  <1>1. /\ o \in running
        /\ heap[o].type \in WeakTypes => Freed(heap, h, o)
        /\ heap[o].type \notin WeakTypes => h = heap
        /\ Kept(h, heap') /\ SameRuns(h, heap')
        /\ heap'[o].needToFinalize = 0
        /\ \A p \in Alive(h) : p # o => heap'[p].needToFinalize = h[p].needToFinalize
        /\ running' = u /\ queue' = queue
    BY EndFinalizerFacts
  <1> HIDE DEF h
  <1>2. Kept(heap, h) /\ SameRuns(heap, h) /\ SameNeeds(heap, h)
    BY <1>1, MarkInvTypes DEF Freed, Kept, SameRuns, SameNeeds
  <1>3. Kept(heap, heap') /\ SameRuns(heap, heap')
    BY <1>1, <1>2 DEF Kept, SameRuns
  <1>4. o \in Alive(heap) /\ ~IsQueued(queue, o)
    BY <1>1, RunningFacts DEF QueueInv
  <1>5. \A p \in Alive(heap) :
          heap'[p].needToFinalize # heap[p].needToFinalize =>
            heap'[p].needToFinalize = 0 /\ ~IsQueued(queue, p)
    BY <1>1, <1>2, <1>4 DEF Kept, SameNeeds
  <1>6. u \in SUBSET running /\ \A p \in running \ u : p = o
    OBVIOUS
  <1> HIDE DEF u
  <1>7. QueueGood(heap', queue, u)
    BY <1>1, <1>3, <1>5, <1>6, KeptQueue DEF QueueInv
  <1> QED
    BY <1>1, <1>7 DEF QueueInv

(* The steps that leave the finalizers alone. *)
LEMMA OtherQueueInv ==
  ASSUME QueueInv, Kept(heap, heap'), SameNeeds(heap, heap'), SameRuns(heap, heap'),
         UNCHANGED <<queue, running>>
  PROVE  QueueInv'
  <1>1. running \in SUBSET running
    OBVIOUS
  <1>2. QueueGood(heap', queue, running)
    BY <1>1, KeptQueue DEF QueueInv, SameNeeds
  <1> QED
    BY <1>2 DEF QueueInv

LEMMA SetTargetQueueInv ==
  ASSUME MarkInv, QueueInv, NEW x \in Slots, NEW y \in Slots, SetTarget(x, y)
  PROVE  QueueInv'
  <1> DEFINE h == Unlinked(heap, slots[x])
  <1>1. /\ Freed(heap, h, slots[x])
        /\ Kept(h, heap') /\ SameNeeds(h, heap') /\ SameRuns(h, heap')
        /\ UNCHANGED <<queue, running>>
    BY SetTargetFacts
  <1> HIDE DEF h
  <1>2. Kept(heap, heap') /\ SameNeeds(heap, heap') /\ SameRuns(heap, heap')
    BY <1>1 DEF Freed, Kept, SameNeeds, SameRuns
  <1> QED
    BY <1>1, <1>2, OtherQueueInv

LEMMA InitQueueInv == Init => QueueInv
  <1> SUFFICES ASSUME Init
               PROVE  QueueInv
    OBVIOUS
  <1>1. Alive(heap) = {} /\ DOMAIN queue = {} /\ running = {}
    BY DEF Init, Alive
  <1> QED
    BY <1>1 DEF QueueInv, QueueGood, QueueOK, OnceOK

LEMMA NextQueueInv == MarkInv /\ QueueInv /\ [Next]_vars /\ [NoQueuedSuppressed]_vars => QueueInv'
  <1> SUFFICES ASSUME MarkInv, QueueInv, [Next]_vars, [NoQueuedSuppressed]_vars
               PROVE  QueueInv'
    OBVIOUS
  <1>1. CASE \E x \in Slots, type \in Types : New(x, type)
    BY <1>1, NewQueueInv
  <1>2. CASE Collect
    <2>1. UNCHANGED <<heap, queue, running>>
      BY <1>2 DEF Collect
    <2> QED
      BY <2>1 DEF QueueInv
  <1>3. CASE MarkPiece
    <2>1. /\ Kept(heap, heap') /\ SameNeeds(heap, heap') /\ SameRuns(heap, heap')
          /\ UNCHANGED <<queue, running>>
      BY <1>3, MarkPieceFacts
    <2> QED
      BY <2>1, OtherQueueInv
  <1>4. CASE Sweep
    BY <1>4, SweepQueueInv
  <1>5. ASSUME NEW x \in Slots, SuppressFinalize(x)
        PROVE  QueueInv'
    <2>1. CASE NoQueuedSuppressed
      BY <1>5, <2>1, SuppressQueueInv DEF NoQueuedSuppressed
    <2>2. CASE UNCHANGED vars
      BY <2>2 DEF vars, QueueInv
    <2> QED
      BY <2>1, <2>2
  <1>6. ASSUME NEW x \in Slots, Overwrite(x)
        PROVE  QueueInv'
    <2>1. UNCHANGED <<heap, queue, running>>
      BY <1>6 DEF Overwrite
    <2> QED
      BY <2>1 DEF QueueInv
  <1>7. ASSUME NEW x \in Slots, NEW y \in Slots, SetTarget(x, y)
        PROVE  QueueInv'
    BY <1>7, SetTargetQueueInv
  <1>8. ASSUME NEW x \in Slots, NEW y \in Slots, GetTarget(x, y) \/ GetField(x, y)
        PROVE  QueueInv'
    <2>1. UNCHANGED <<heap, queue, running>>
      BY <1>8 DEF GetTarget, GetField
    <2> QED
      BY <2>1 DEF QueueInv
  <1>9. ASSUME NEW x \in Slots, NEW y \in Slots, SetField(x, y)
        PROVE  QueueInv'
    <2>1. /\ Kept(heap, heap') /\ SameNeeds(heap, heap') /\ SameRuns(heap, heap')
          /\ UNCHANGED <<queue, running>>
      BY <1>9, SetFieldFacts
    <2> QED
      BY <2>1, OtherQueueInv
  <1>10. ASSUME NEW o \in Objs, EndFinalizer(o)
         PROVE  QueueInv'
    BY <1>10, EndFinalizerQueueInv
  <1>11. ASSUME NEW o \in Objs, MakeDeletable(o)
         PROVE  QueueInv'
    <2>1. /\ Kept(heap, heap') /\ SameNeeds(heap, heap') /\ SameRuns(heap, heap')
          /\ UNCHANGED <<queue, running>>
      BY <1>11, MakeDeletableFacts
    <2> QED
      BY <2>1, OtherQueueInv
  <1>12. ASSUME NEW o \in Objs, NEW x \in Slots, FinalizerStores(o, x)
         PROVE  QueueInv'
    <2>1. UNCHANGED <<heap, queue, running>>
      BY <1>12 DEF FinalizerStores
    <2> QED
      BY <2>1 DEF QueueInv
  <1>13. CASE UNCHANGED vars
    BY <1>13 DEF QueueInv, vars
  <1> QED
    BY <1>1, <1>2, <1>3, <1>4, <1>5, <1>6, <1>7, <1>8, <1>9, <1>10, <1>11, <1>12, <1>13 DEF Next

-----------------------------------------------------------------------------
(* References *)

(* The programs whose references are kept right: what native code keeps    *)
(* and weak references do not hold the only references to others, weak     *)
(* references refer to objects that have no finalizer, and no weak         *)
(* reference has its own finalizer suppressed.  The code is wrong of       *)
(* others, also of those that break NoOrphans.                             *)
Orderly ==
  /\ HoldRefs \subseteq {"object", "finalizable"}
  /\ Targets \subseteq {"object", "undeletable"}
  /\ Suppressed \cap WeakTypes = {}

(* What the program refers to waits for no finalizer. *)
LEMMA KnownFacts ==
  ASSUME NEW h, NEW q, NEW s, RefsGood(h, q, s)
  PROVE  /\ \A x \in Slots : s[x] # NULL => s[x] \in Alive(h) /\ ~Unknown(h, q, s[x])
         /\ \A p \in Alive(h) : h[p].ref # NULL => h[p].ref \in Alive(h) /\ ~Unknown(h, q, h[p].ref)
  BY DEF RefsGood, NoDangling, UnknownOutOfReach

(* What is left by a collection refers to what is left by it, and to       *)
(* nothing that waits for its finalizer.                                   *)
LEMMA SurvivorsFacts ==
  ASSUME MarkInv, QueueInv, RefsInv, Orderly, NoOrphans, Sweep
  PROVE  /\ \A x \in Slots : slots[x] \in Alive(heap') \cup {NULL}
         /\ \A x \in Slots : slots[x] \notin ToFinalize(heap)
         /\ \A o \in Alive(heap') :
              heap'[o].ref # NULL =>
                /\ heap'[o].ref = heap[o].ref
                /\ heap'[o].ref \in Alive(heap') /\ heap'[o].ref \notin ToFinalize(heap)
  <1> DEFINE h == heap
             g == heap'
  <1>1. /\ TargetsFit(h) /\ NoDangling(h, slots) /\ WeakOK(h) /\ EntriesFit(h) /\ h \in Heaps
        /\ gc = "mark" /\ roots = <<>> /\ MarksOK(h, roots)
    BY SweepFacts, MarkInvTypes DEF RefsInv, RefsGood, MarkInv
  <1>2. /\ Alive(g) = Alive(h) \ ToDelete(h)
        /\ \A o \in Alive(g) :
             g[o].ref = IF h[o].type \in WeakTypes /\ o \in RemovedWeakRefs(h) THEN NULL ELSE h[o].ref
    BY SweepFacts
  <1>3. \A o : o \notin Pending(roots)
    <2>1. DOMAIN roots = {}
      BY <1>1
    <2> QED
      BY <2>1, PendingFacts
  <1>4. \A o \in Alive(h) : h[o].marked # 0 => o \in Alive(g) /\ o \notin ToFinalize(h)
    BY <1>2 DEF ToDelete, ToFinalize, Unused
  <1>5. \A o \in Alive(h) : o \in Reachable => h[o].marked # 0
    BY <1>1, MarksAreRight DEF Orderly, PinnedHoldNothing
  <1>6. NoOrphans /\ NULL \notin ToFinalize(h)
    BY AliveType, MarkInvTypes DEF ToFinalize, Unused
  <1>7. \A x \in Slots : slots[x] \in Alive(h) => h[slots[x]].marked # 0
    BY <1>1, <1>3 DEF MarksOK, Found, Roots
  <1>8. \A o \in Alive(h) :
          h[o].type \notin WeakTypes /\ o \notin Reachable /\ h[o].needToFinalize # 0 =>
            h[o].ref \in Reachable \cup {NULL}
    BY DEF NoOrphans
  <1> HIDE DEF h, g
  <1>9. \A x \in Slots : slots[x] \in Alive(g) \cup {NULL} /\ slots[x] \notin ToFinalize(h)
    BY <1>1, <1>4, <1>6, <1>7 DEF NoDangling
  <1>10. ASSUME NEW o \in Alive(g), g[o].ref # NULL
         PROVE  g[o].ref = h[o].ref /\ g[o].ref \in Alive(g) /\ g[o].ref \notin ToFinalize(h)
    <2>1. o \in Alive(h) /\ o \notin ToDelete(h) /\ g[o].ref = h[o].ref /\ h[o] \in Entry
      BY <1>1, <1>2, <1>10, AliveType
    <2>2. h[o].ref \in Alive(h) /\ h[o].type \in HoldRefs \cup WeakTypes /\ Fits(h[o])
      BY <1>1, <1>10, <2>1 DEF NoDangling, EntriesFit, Fits
    <2>3. CASE h[o].type \in WeakTypes
      <3>1. h[h[o].ref].type \in {"object", "undeletable"}
        BY <1>1, <1>10, <2>1, <2>3 DEF TargetsFit, Orderly
      <3>2. h[h[o].ref].needToFinalize = 0
        BY <1>1, <2>2, <3>1 DEF EntriesFit, Fits, WeakTypes
      <3>3. h[o].ref \notin ToFinalize(h)
        BY <3>2 DEF ToFinalize
      <3>4. o \in h[h[o].ref].weakRef
        BY <1>1, <2>1, <2>2, <2>3 DEF WeakOK
      <3>5. h[o].ref \notin ToDelete(h)
        BY <1>2, <1>10, <2>1, <2>3, <3>4 DEF RemovedWeakRefs
      <3> QED
        BY <1>2, <2>1, <2>2, <3>3, <3>5
    <2>4. CASE h[o].type \notin WeakTypes
      <3>1. h[o].type \in {"object", "finalizable"}
        BY <2>2, <2>4 DEF Orderly
      <3>2. h[o].marked \in {0, 1}
        BY <2>1, <2>2, <3>1, EntryType DEF Fits
      <3>3. h[h[o].ref].marked # 0
        <4>1. CASE h[o].marked = 1
          BY <1>1, <1>3, <2>1, <2>2, <2>4, <4>1 DEF MarksOK, Found
        <4>2. CASE h[o].marked = 0
          <5>1. h[o].needToFinalize # 0
            BY <2>1, <4>2 DEF ToDelete, Unused
          <5>2. o \notin Reachable
            BY <1>5, <2>1, <4>2
          <5>3. h[o].ref \in Reachable
            BY <1>8, <1>10, <2>1, <2>4, <5>1, <5>2
          <5> QED
            BY <1>5, <2>2, <5>3
        <4> QED
          BY <3>2, <4>1, <4>2
      <3> QED
        BY <1>4, <2>1, <2>2, <3>3
    <2> QED
      BY <2>3, <2>4
  <1> QED
    BY <1>9, <1>10 DEF h, g

LEMMA SweepRefsInv ==
  ASSUME MarkInv, QueueInv, RefsInv, Orderly, NoOrphans, Sweep
  PROVE  RefsInv'
  <1> DEFINE h == heap
             g == heap'
             q == queue'
  <1>1. /\ TargetsFit(h) /\ UnknownOutOfReach(h, queue, slots) /\ WeakOK(h) /\ EntriesFit(h)
        /\ h \in Heaps
    BY MarkInvTypes DEF RefsInv, RefsGood
  <1>2. /\ \A x \in Slots : slots[x] \in Alive(g) \cup {NULL}
        /\ \A x \in Slots : slots[x] \notin ToFinalize(h)
        /\ \A o \in Alive(g) :
             g[o].ref # NULL =>
               g[o].ref = h[o].ref /\ g[o].ref \in Alive(g) /\ g[o].ref \notin ToFinalize(h)
    BY SurvivorsFacts
  <1>3. /\ Alive(g) = Alive(h) \ ToDelete(h)
        /\ \A o \in Alive(g) :
             /\ o \in Alive(h)
             /\ g[o].type = h[o].type
             /\ g[o].needToFinalize = IF o \in ToFinalize(h) THEN 2 ELSE h[o].needToFinalize
             /\ g[o].ref = IF h[o].type \in WeakTypes /\ o \in RemovedWeakRefs(h)
                           THEN NULL ELSE h[o].ref
             /\ g[o].weakRef = IF o \in ToFinalize(h) THEN h[o].weakRef \ RemovedWeakRefs(h)
                               ELSE h[o].weakRef
        /\ q \in QueuesAfter(h) /\ slots' = slots
    BY SweepFacts
  <1>4. \A o \in Objs : IsQueued(q, o) <=> IsQueued(queue, o) \/ o \in ToFinalize(h)
    BY <1>3, QueuesAfterFacts
  <1>5. Alive(h) \subseteq Objs /\ NULL \notin Alive(h)
    BY <1>1, AliveType
  <1>6. \A o \in ToFinalize(h) : o \in Alive(h) /\ h[o].needToFinalize = 1
    BY DEF ToFinalize, Unused
  <1> HIDE DEF h, g, q
  <1>7. TargetsFit(g)
    <2> SUFFICES ASSUME NEW w \in Alive(g), g[w].type \in WeakTypes
                 PROVE  /\ g[w].ref # NULL => g[w].ref \in Alive(g) /\ g[g[w].ref].type \in Targets
                        /\ g[w].needToFinalize = 0 => g[w].ref = NULL
      BY DEF TargetsFit
    <2>1. w \in Alive(h) /\ h[w].type \in WeakTypes
      BY <1>3
    <2>2. ASSUME g[w].ref # NULL
          PROVE  g[w].ref \in Alive(g) /\ g[g[w].ref].type \in Targets
      BY <1>1, <1>2, <1>3, <2>1, <2>2 DEF TargetsFit
    <2>3. ASSUME g[w].needToFinalize = 0
          PROVE  g[w].ref = NULL
      <3>1. g[w].needToFinalize = IF w \in ToFinalize(h) THEN 2 ELSE h[w].needToFinalize
        BY <1>3
      <3>2. h[w].needToFinalize = 0
        BY <2>3, <3>1
      <3> QED
        BY <1>1, <1>2, <2>1, <3>2 DEF TargetsFit
    <2> QED
      BY <2>2, <2>3
  <1>8. NoDangling(g, slots)
    BY <1>2 DEF NoDangling
  <1>9. UnknownOutOfReach(g, q, slots)
    <2> SUFFICES ASSUME NEW o \in Alive(g), Unknown(g, q, o)
                 PROVE  (\A x \in Slots : slots[x] # o) /\ \A p \in Alive(g) : g[p].ref # o
      BY DEF UnknownOutOfReach
    <2>1. o \in Alive(h) /\ o # NULL /\ o \in Objs
      BY <1>3, <1>5
    <2>2. CASE o \in ToFinalize(h)
      BY <1>2, <2>1, <2>2
    <2>3. CASE o \notin ToFinalize(h)
      <3>1. g[o].needToFinalize = h[o].needToFinalize
        BY <1>3, <2>3
      <3>2. Unknown(h, queue, o)
        BY <1>3, <1>4, <2>1, <2>3, <3>1 DEF Unknown
      <3> QED
        BY <1>1, <1>2, <1>3, <2>1, <3>2 DEF UnknownOutOfReach
    <2> QED
      BY <2>2, <2>3
  <1>10. WeakOK(g)
    <2> SUFFICES ASSUME NEW t \in Alive(g)
                 PROVE  g[t].weakRef = {w \in Alive(g) : g[w].type \in WeakTypes /\ g[w].ref = t}
      BY DEF WeakOK
    <2>1. t \in Alive(h) /\ t # NULL
      BY <1>3, <1>5
    <2>2. h[t].weakRef = {w \in Alive(h) : h[w].type \in WeakTypes /\ h[w].ref = t}
      BY <1>1, <2>1 DEF WeakOK
    <2>3. CASE t \in ToFinalize(h)
      <3>1. h[t].weakRef = {}
        <4> SUFFICES ASSUME NEW w \in h[t].weakRef
                     PROVE  FALSE
          OBVIOUS
        <4>1. h[t].type \in {"object", "undeletable"}
          BY <1>1, <2>1, <2>2 DEF TargetsFit, Orderly
        <4> QED
          BY <1>1, <1>6, <2>1, <2>3, <4>1 DEF EntriesFit, Fits, WeakTypes
      <3>2. g[t].weakRef = {}
        BY <1>3, <2>3, <3>1
      <3>3. \A w \in Alive(g) : g[w].ref # t
        BY <1>2, <2>1, <2>3
      <3> QED
        BY <3>2, <3>3
    <2>4. CASE t \notin ToFinalize(h)
      <3>1. g[t].weakRef = h[t].weakRef
        BY <1>3, <2>4
      <3>2. ASSUME NEW w \in Alive(g), g[w].type \in WeakTypes, g[w].ref = t
            PROVE  w \in h[t].weakRef
        BY <1>2, <1>3, <2>1, <2>2, <3>2
      <3>3. ASSUME NEW w \in h[t].weakRef
            PROVE  w \in Alive(g) /\ g[w].type \in WeakTypes /\ g[w].ref = t
        <4>1. w \in Alive(h) /\ h[w].type \in WeakTypes /\ h[w].ref = t
          BY <2>2
        <4>2. h[w].needToFinalize # 0
          BY <1>1, <2>1, <4>1 DEF TargetsFit
        <4>3. w \in Alive(g)
          BY <1>3, <4>1, <4>2 DEF ToDelete
        <4>4. w \notin RemovedWeakRefs(h)
          <5>1. ASSUME NEW u \in ToDelete(h) \cup ToFinalize(h), w \in h[u].weakRef
                PROVE  FALSE
            <6>1. u \in Alive(h)
              BY DEF ToDelete, ToFinalize, Unused
            <6>2. h[w].ref = u
              BY <1>1, <5>1, <6>1 DEF WeakOK
            <6> QED
              BY <1>3, <2>4, <4>1, <6>2
          <5>2. ASSUME w \in RemovedWeakRefs(h)
                PROVE  \E u \in ToDelete(h) \cup ToFinalize(h) : w \in h[u].weakRef
            BY <5>2 DEF RemovedWeakRefs
          <5> QED
            BY <5>1, <5>2
        <4> QED
          BY <1>3, <4>1, <4>3, <4>4
      <3> QED
        BY <3>1, <3>2, <3>3
    <2> QED
      BY <2>3, <2>4
  <1> QED
    BY <1>3, <1>7, <1>8, <1>9, <1>10 DEF RefsInv, RefsGood, g, q

LEMMA AllocatedRefs ==
  ASSUME NEW h \in Heaps, NEW q, NEW s \in [Slots -> Objs \cup {NULL}], RefsGood(h, q, s),
         \A i \in DOMAIN q : q[i] \in Alive(h),
         NEW o \in Objs \ Alive(h), NEW type \in Types, NEW x \in Slots,
         NEW g, g = Allocated(h, o, type), NEW z, z = [s EXCEPT ![x] = o]
  PROVE  RefsGood(g, q, z)
  <1> DEFINE e == NewEntry(type)
  <1>1. TargetsFit(h) /\ NoDangling(h, s) /\ UnknownOutOfReach(h, q, s) /\ WeakOK(h)
    BY DEF RefsGood
  <1>2. /\ e.type = type /\ e.ref = NULL /\ e.weakRef = {}
        /\ e.needToFinalize = IF type \in WeakTypes \cup {"finalizable"} THEN 1 ELSE 0
    BY NewEntryType
  <1>3. /\ Alive(g) = Alive(h) \cup {o} /\ g[o] = e
        /\ \A p \in Alive(h) : p # o /\ g[p] = h[p]
    BY AllocatedFacts
  <1>4. z[x] = o /\ \A y \in Slots : y # x => z[y] = s[y]
    OBVIOUS
  <1>5. o # NULL /\ NULL \notin Alive(h) /\ ~IsQueued(q, o)
    BY AliveType, CollectorAssumption DEF IsQueued
  <1> HIDE DEF e
  <1>6. TargetsFit(g)
    <2>1. ASSUME NEW p \in Alive(h), h[p].type \in WeakTypes
          PROVE  /\ g[p].ref # NULL => g[p].ref \in Alive(g) /\ g[g[p].ref].type \in Targets
                 /\ g[p].needToFinalize = 0 => g[p].ref = NULL
      BY <1>1, <1>3, <2>1 DEF TargetsFit
    <2> QED
      BY <1>2, <1>3, <2>1 DEF TargetsFit
  <1>7. NoDangling(g, z)
    BY <1>1, <1>2, <1>3, <1>4 DEF NoDangling
  <1>8. UnknownOutOfReach(g, q, z)
    <2> SUFFICES ASSUME NEW u \in Alive(g), Unknown(g, q, u)
                 PROVE  (\A y \in Slots : z[y] # u) /\ \A p \in Alive(g) : g[p].ref # u
      BY DEF UnknownOutOfReach
    <2>1. u # o
      BY <1>2, <1>3, <1>5 DEF Unknown
    <2>2. u \in Alive(h) /\ Unknown(h, q, u) /\ u # NULL
      BY <1>3, <1>5, <2>1 DEF Unknown
    <2> QED
      BY <1>1, <1>2, <1>3, <1>4, <2>1, <2>2 DEF UnknownOutOfReach
  <1>9. WeakOK(g)
    <2>1. g[o].weakRef = {w \in Alive(g) : g[w].type \in WeakTypes /\ g[w].ref = o}
      BY <1>1, <1>2, <1>3, <1>5 DEF NoDangling
    <2>2. ASSUME NEW t \in Alive(h)
          PROVE  g[t].weakRef = {w \in Alive(g) : g[w].type \in WeakTypes /\ g[w].ref = t}
      <3>1. h[t].weakRef = {w \in Alive(h) : h[w].type \in WeakTypes /\ h[w].ref = t}
        BY <1>1 DEF WeakOK
      <3>2. g[o].ref # t
        BY <1>2, <1>3, <1>5
      <3> QED
        BY <1>3, <3>1, <3>2
    <2> QED
      BY <1>3, <2>1, <2>2 DEF WeakOK
  <1> QED
    BY <1>6, <1>7, <1>8, <1>9 DEF RefsGood

(* Entries whose lists of weak references stay agree with the weak         *)
(* references as long as no target changes.                                *)
LEMMA WeakStays ==
  ASSUME NEW h, WeakOK(h), NEW g, Kept(h, g), SameLists(h, g),
         \A p \in Alive(h) : h[p].type \in WeakTypes => g[p].ref = h[p].ref
  PROVE  WeakOK(g)
  <1>1. Alive(g) = Alive(h) /\ \A p \in Alive(h) : g[p].type = h[p].type /\ g[p].weakRef = h[p].weakRef
    BY DEF Kept, SameLists
  <1> SUFFICES ASSUME NEW p \in Alive(h)
               PROVE  g[p].weakRef = {v \in Alive(h) : g[v].type \in WeakTypes /\ g[v].ref = p}
    BY <1>1 DEF WeakOK
  <1>2. h[p].weakRef = {v \in Alive(h) : h[v].type \in WeakTypes /\ h[v].ref = p}
    BY DEF WeakOK
  <1> QED
    BY <1>1, <1>2

(* A weak reference loses its target, and its target the weak reference. *)
LEMMA WeakFreed ==
  ASSUME NEW h \in Heaps, WeakOK(h), NEW w \in Alive(h), h[w].type \in WeakTypes,
         NEW g, Freed(h, g, w)
  PROVE  WeakOK(g)
  <1>1. /\ Alive(g) = Alive(h) /\ \A p \in Alive(h) : g[p].type = h[p].type
        /\ g[w].ref = NULL
        /\ \A p \in Alive(h) : p # w => g[p].ref = h[p].ref
        /\ \A p \in Alive(h) :
             g[p].weakRef = IF p = h[w].ref THEN h[p].weakRef \ {w} ELSE h[p].weakRef
    BY DEF Freed, Kept
  <1> SUFFICES ASSUME NEW p \in Alive(h)
               PROVE  g[p].weakRef = {v \in Alive(h) : g[v].type \in WeakTypes /\ g[v].ref = p}
    BY <1>1 DEF WeakOK
  <1>2. h[p].weakRef = {v \in Alive(h) : h[v].type \in WeakTypes /\ h[v].ref = p}
    BY DEF WeakOK
  <1>3. w \in h[p].weakRef <=> p = h[w].ref
    BY <1>2
  <1>4. g[p].weakRef = h[p].weakRef \ {w}
    <2>1. CASE p = h[w].ref
      BY <1>1, <2>1
    <2>2. CASE p # h[w].ref
      <3>1. g[p].weakRef = h[p].weakRef /\ w \notin h[p].weakRef
        BY <1>1, <1>3, <2>2
      <3> QED
        BY <3>1
    <2> QED
      BY <2>1, <2>2
  <1>5. p # NULL
    BY AliveType
  <1> QED
    BY <1>1, <1>2, <1>4, <1>5

(* An empty weak reference gets a target. *)
Joined(h, g, w, t) ==
  /\ Kept(h, g)
  /\ g[w].ref = t
  /\ \A p \in Alive(h) : p # w => g[p].ref = h[p].ref
  /\ \A p \in Alive(h) :
       g[p].weakRef = IF p = t THEN h[p].weakRef \cup {w} ELSE h[p].weakRef

LEMMA WeakLinked ==
  ASSUME NEW h, WeakOK(h), NEW w \in Alive(h), h[w].type \in WeakTypes, h[w].ref = NULL,
         NULL \notin Alive(h), NEW t, NEW g, Joined(h, g, w, t)
  PROVE  WeakOK(g)
  <1>1. /\ Alive(g) = Alive(h) /\ \A p \in Alive(h) : g[p].type = h[p].type
        /\ g[w].ref = t /\ \A p \in Alive(h) : p # w => g[p].ref = h[p].ref
        /\ \A p \in Alive(h) :
             g[p].weakRef = IF p = t THEN h[p].weakRef \cup {w} ELSE h[p].weakRef
    BY DEF Joined, Kept
  <1> SUFFICES ASSUME NEW p \in Alive(h)
               PROVE  g[p].weakRef = {v \in Alive(h) : g[v].type \in WeakTypes /\ g[v].ref = p}
    BY <1>1 DEF WeakOK
  <1>2. h[p].weakRef = {v \in Alive(h) : h[v].type \in WeakTypes /\ h[v].ref = p}
    BY DEF WeakOK
  <1>3. CASE p = t
    BY <1>1, <1>2, <1>3
  <1>4. CASE p # t
    <2>1. g[p].weakRef = h[p].weakRef
      BY <1>1, <1>4
    <2>2. p # NULL
      OBVIOUS
    <2>3. \A v \in Alive(h) : g[v].ref = p <=> h[v].ref = p
      BY <1>1, <1>4, <2>2
    <2> QED
      BY <1>1, <1>2, <2>1, <2>3
  <1> QED
    BY <1>3, <1>4

(* Entries change, but no object comes or goes, and references are set to  *)
(* known objects only.                                                     *)
LEMMA KeptRefs ==
  ASSUME NEW h, NEW g, NEW q, NEW s, RefsGood(h, q, s), Kept(h, g), WeakOK(g),
         \A p \in Alive(h) :
           g[p].needToFinalize # h[p].needToFinalize =>
             /\ g[p].needToFinalize = 0
             /\ h[p].type \in WeakTypes => h[p].needToFinalize = 2 /\ g[p].ref = NULL,
         \A p \in Alive(h) :
           g[p].ref # h[p].ref /\ g[p].ref # NULL =>
             /\ g[p].ref \in Alive(h) /\ ~Unknown(h, q, g[p].ref)
             /\ h[p].type \in WeakTypes =>
                  h[p].needToFinalize = 1 /\ h[g[p].ref].type \in Targets
  PROVE  RefsGood(g, q, s)
  <1>1. TargetsFit(h) /\ NoDangling(h, s) /\ UnknownOutOfReach(h, q, s)
    BY DEF RefsGood
  <1>2. Alive(g) = Alive(h) /\ \A p \in Alive(h) : g[p].type = h[p].type
    BY DEF Kept
  <1>3. \A p \in Alive(h) : g[p].ref \in Alive(h) \cup {NULL}
    BY <1>1 DEF NoDangling
  <1>4. TargetsFit(g)
    <2> SUFFICES ASSUME NEW w \in Alive(h), h[w].type \in WeakTypes
                 PROVE  /\ g[w].ref # NULL => g[w].ref \in Alive(h) /\ h[g[w].ref].type \in Targets
                        /\ g[w].needToFinalize = 0 => g[w].ref = NULL
      BY <1>2 DEF TargetsFit
    <2>1. /\ h[w].ref # NULL => h[w].ref \in Alive(h) /\ h[h[w].ref].type \in Targets
          /\ h[w].needToFinalize = 0 => h[w].ref = NULL
      BY <1>1 DEF TargetsFit
    <2>2. g[w].ref # NULL => g[w].ref \in Alive(h) /\ h[g[w].ref].type \in Targets
      BY <2>1
    <2>3. g[w].needToFinalize = 0 => g[w].ref = NULL
      BY <2>1
    <2> QED
      BY <2>2, <2>3
  <1>5. NoDangling(g, s)
    BY <1>1, <1>2, <1>3 DEF NoDangling
  <1>6. UnknownOutOfReach(g, q, s)
    <2> SUFFICES ASSUME NEW o \in Alive(h), Unknown(g, q, o)
                 PROVE  (\A x \in Slots : s[x] # o) /\ \A p \in Alive(h) : g[p].ref # o
      BY <1>2 DEF UnknownOutOfReach
    <2>1. Unknown(h, q, o)
      BY <1>2 DEF Unknown
    <2>2. (\A x \in Slots : s[x] # o) /\ \A p \in Alive(h) : h[p].ref # o
      BY <1>1, <2>1 DEF UnknownOutOfReach
    <2>3. ASSUME NEW p \in Alive(h), g[p].ref = o
          PROVE  FALSE
      <3>1. g[p].ref # h[p].ref
        BY <2>2, <2>3
      <3>2. g[p].ref = NULL
        BY <2>1, <2>3, <3>1
      <3>3. h[p].ref # NULL
        BY <3>1, <3>2
      <3>4. o = NULL /\ NULL \in Alive(h)
        BY <2>3, <3>2
      <3> QED
        BY <3>4, CollectorAssumption DEF Alive
    <2> QED
      BY <2>2, <2>3
  <1> QED
    BY <1>4, <1>5, <1>6 DEF RefsGood

(* A slot is assigned to. *)
LEMMA SlotRefs ==
  ASSUME NEW h, NEW q, NEW s \in [Slots -> Objs \cup {NULL}], RefsGood(h, q, s), NEW x \in Slots,
         NEW v, v = NULL \/ (v \in Alive(h) /\ ~Unknown(h, q, v)),
         NEW z, z = [s EXCEPT ![x] = v]
  PROVE  RefsGood(h, q, z)
  <1>1. z[x] = v /\ \A y \in Slots : y # x => z[y] = s[y]
    OBVIOUS
  <1>2. NULL \notin Alive(h)
    BY CollectorAssumption DEF Alive
  <1>3. NoDangling(h, z)
    BY <1>1 DEF RefsGood, NoDangling
  <1>4. UnknownOutOfReach(h, q, z)
    BY <1>1, <1>2 DEF RefsGood, UnknownOutOfReach
  <1> QED
    BY <1>3, <1>4 DEF RefsGood

LEMMA SlotRefsInv ==
  ASSUME MarkInv, RefsInv, NEW x \in Slots, NEW v,
         v = NULL \/ (v \in Alive(heap) /\ ~Unknown(heap, queue, v)),
         slots' = [slots EXCEPT ![x] = v], UNCHANGED <<heap, queue>>
  PROVE  RefsInv'
  <1>1. RefsGood(heap, queue, slots')
    BY MarkInvTypes, SlotRefs DEF RefsInv
  <1> QED
    BY <1>1 DEF RefsInv

LEMMA NewRefsInv ==
  ASSUME MarkInv, QueueInv, RefsInv, NEW x \in Slots, NEW type \in Types, New(x, type)
  PROVE  RefsInv'
  <1>1. PICK o \in Objs \ Alive(heap) :
          RunFinalizer(Allocated(heap, o, type), queue) /\ slots' = [slots EXCEPT ![x] = o]
    BY DEF New
  <1> DEFINE h == Allocated(heap, o, type)
             g == heap'
  <1>2. \A i \in DOMAIN queue : queue[i] \in Alive(heap)
    BY DEF QueueInv, QueueGood, QueueOK
  <1>3. h \in Heaps /\ RefsGood(h, queue, slots') /\ QueueGood(h, queue, running)
    <2>1. heap \in Heaps /\ slots \in [Slots -> Objs \cup {NULL}]
      BY MarkInvTypes
    <2>2. slots' = [slots EXCEPT ![x] = o]
      BY <1>1
    <2>3. h \in Heaps
      BY <2>1, AllocatedFacts
    <2>4. QueueGood(h, queue, running)
      BY <2>1, AllocatedQueue DEF QueueInv
    <2>5. RefsGood(heap, queue, slots)
      BY DEF RefsInv
    <2> HIDE DEF RefsInv, QueueInv
    <2>6. RefsGood(h, queue, slots')
      BY <1>2, <2>1, <2>2, <2>5, AllocatedRefs
    <2> QED
      BY <2>3, <2>4, <2>6
  <1> HIDE DEF h
  <1>4. RunFinalizer(h, queue)
    BY <1>1 DEF h
  <1>5. /\ Kept(h, g) /\ SameNeeds(h, g) /\ SameRefs(h, g) /\ SameLists(h, g)
        /\ queue = <<>> => queue' = queue
        /\ queue # <<>> => queue' = Front(queue)
    BY <1>3, <1>4, MarkInvTypes, RunFinalizerFacts
  <1> HIDE DEF g
  <1>6. WeakOK(g)
    BY <1>3, <1>5, WeakStays DEF RefsGood, SameRefs
  <1>7. RefsGood(g, queue, slots')
    BY <1>3, <1>5, <1>6, KeptRefs DEF SameNeeds, SameRefs
  <1>8. \A p : IsQueued(queue', p) => IsQueued(queue, p)
    <2>1. CASE queue = <<>>
      BY <1>5, <2>1
    <2>2. CASE queue # <<>>
      <3>1. \A p : IsQueued(Front(queue), p) => IsQueued(queue, p)
        BY <2>2, MarkInvTypes, FrontFacts DEF QueueInv, QueueGood, QueueOK
      <3> QED
        BY <1>5, <2>2, <3>1
    <2> QED
      BY <2>1, <2>2
  <1>9. UnknownOutOfReach(g, queue', slots')
    BY <1>7, <1>8 DEF RefsGood, UnknownOutOfReach, Unknown
  <1> QED
    BY <1>7, <1>9 DEF RefsInv, RefsGood, g

LEMMA SuppressRefsInv ==
  ASSUME MarkInv, RefsInv, Orderly, NEW x \in Slots, SuppressFinalize(x)
  PROVE  RefsInv' /\ ~IsQueued(queue, slots[x])
  <1>1. /\ slots[x] \in Alive(heap) /\ heap[slots[x]].type \in Suppressed
        /\ Kept(heap, heap') /\ SameRefs(heap, heap') /\ SameLists(heap, heap')
        /\ heap'[slots[x]].needToFinalize = 0
        /\ \A p \in Alive(heap) :
             p # slots[x] => heap'[p].needToFinalize = heap[p].needToFinalize
        /\ UNCHANGED <<queue, slots>>
    BY SuppressFacts
  <1>2. heap[slots[x]].type \notin WeakTypes
    BY <1>1 DEF Orderly
  <1>3. WeakOK(heap')
    BY <1>1, WeakStays DEF RefsInv, RefsGood, SameRefs
  <1>4. RefsGood(heap', queue, slots)
    BY <1>1, <1>2, <1>3, KeptRefs DEF RefsInv, SameRefs
  <1>5. slots[x] # NULL
    BY <1>1, CollectorAssumption DEF Alive
  <1>6. ~IsQueued(queue, slots[x])
    BY <1>5, KnownFacts DEF RefsInv, Unknown
  <1> QED
    BY <1>1, <1>4, <1>6 DEF RefsInv

LEMMA EndFinalizerRefsInv ==
  ASSUME MarkInv, QueueInv, RefsInv, NEW o \in Objs, EndFinalizer(o)
  PROVE  RefsInv'
  <1> DEFINE h == IF heap[o].type \in WeakTypes THEN Unlinked(heap, o) ELSE heap
  <1>1. /\ o \in running /\ o \in Alive(heap)
        /\ heap[o].type \in WeakTypes => Freed(heap, h, o)
        /\ heap[o].type \notin WeakTypes => h = heap
        /\ Kept(h, heap') /\ SameRefs(h, heap') /\ SameLists(h, heap')
        /\ heap'[o].needToFinalize = 0
        /\ \A p \in Alive(h) : p # o => heap'[p].needToFinalize = h[p].needToFinalize
        /\ UNCHANGED <<queue, slots>>
    BY EndFinalizerFacts
  <1> HIDE DEF h
  <1>2. /\ Kept(heap, h) /\ SameNeeds(heap, h)
        /\ heap[o].type \in WeakTypes => h[o].ref = NULL
        /\ \A p \in Alive(heap) : h[p].ref = heap[p].ref \/ h[p].ref = NULL
    BY <1>1, MarkInvTypes DEF Freed, Kept, SameNeeds
  <1>3. WeakOK(h)
    BY <1>1, MarkInvTypes, WeakFreed DEF RefsInv, RefsGood
  <1>4. WeakOK(heap')
    BY <1>1, <1>3, WeakStays DEF SameRefs
  <1>5. heap[o].needToFinalize \in {0, 2}
    <2>1. heap[o].needToFinalize # 1
      BY <1>1, RunningFacts DEF QueueInv
    <2>2. heap[o].needToFinalize \in 0 .. 2
      BY <1>1, MarkInvTypes, AliveType, EntryType
    <2> QED
      BY <2>1, <2>2
  <1>6. Kept(heap, heap')
    BY <1>1, <1>2 DEF Kept
  <1>7. \A p \in Alive(heap) : heap'[p].ref = heap[p].ref \/ heap'[p].ref = NULL
    BY <1>1, <1>2 DEF Kept, SameRefs
  <1>8. \A p \in Alive(heap) :
          heap'[p].needToFinalize # heap[p].needToFinalize =>
            /\ heap'[p].needToFinalize = 0
            /\ heap[p].type \in WeakTypes => heap[p].needToFinalize = 2 /\ heap'[p].ref = NULL
    BY <1>1, <1>2, <1>5 DEF Kept, SameNeeds, SameRefs
  <1>9. RefsGood(heap', queue, slots)
    BY <1>4, <1>6, <1>7, <1>8, KeptRefs DEF RefsInv
  <1> QED
    BY <1>1, <1>9 DEF RefsInv

LEMMA SetTargetRefsInv ==
  ASSUME MarkInv, RefsInv, NEW x \in Slots, NEW y \in Slots, SetTarget(x, y)
  PROVE  RefsInv'
  <1> DEFINE w == slots[x]
             t == slots[y]
             h == Unlinked(heap, w)
             g == heap'
  <1>1. /\ w \in Alive(heap) /\ heap[w].type \in WeakTypes
        /\ t # NULL => t \in Alive(heap) /\ heap[t].type \in Targets
        /\ Freed(heap, h, w)
        /\ Kept(h, g) /\ SameNeeds(h, g)
        /\ g[w].ref = t /\ \A p \in Alive(h) : p # w => g[p].ref = h[p].ref
        /\ \A p \in Alive(h) : g[p].weakRef = IF p = t THEN h[p].weakRef \cup {w} ELSE h[p].weakRef
        /\ UNCHANGED <<queue, slots>>
    BY SetTargetFacts
  <1>2. w # NULL /\ NULL \notin Alive(heap)
    BY <1>1, MarkInvTypes, AliveType
  <1>3. /\ t # NULL => ~Unknown(heap, queue, t)
        /\ ~Unknown(heap, queue, w)
    BY <1>2, KnownFacts DEF RefsInv
  <1>4. heap[w].needToFinalize = 1
    BY <1>1, <1>3 DEF Unknown
  <1> HIDE DEF w, t, h, g
  <1>5. /\ Kept(heap, h) /\ SameNeeds(heap, h) /\ h[w].ref = NULL
        /\ \A p \in Alive(heap) : p # w => h[p].ref = heap[p].ref
    BY <1>1 DEF Freed
  <1>6. WeakOK(h)
    BY <1>1, MarkInvTypes, WeakFreed DEF RefsInv, RefsGood
  <1>7. WeakOK(g)
    <2>1. w \in Alive(h) /\ h[w].type \in WeakTypes /\ NULL \notin Alive(h)
      BY <1>1, <1>2, <1>5 DEF Kept
    <2>2. Joined(h, g, w, t)
      BY <1>1 DEF Joined
    <2>3. h[w].ref = NULL
      BY <1>5
    <2> QED
      BY <1>6, <2>1, <2>2, <2>3, WeakLinked
  <1>8. Kept(heap, g) /\ SameNeeds(heap, g)
    BY <1>1, <1>5 DEF Kept, SameNeeds
  <1>9. \A p \in Alive(heap) : p # w => g[p].ref = heap[p].ref
    BY <1>1, <1>5 DEF Kept
  <1>10. \A p \in Alive(heap) :
           g[p].ref # heap[p].ref /\ g[p].ref # NULL =>
             /\ g[p].ref \in Alive(heap) /\ ~Unknown(heap, queue, g[p].ref)
             /\ heap[p].type \in WeakTypes =>
                  heap[p].needToFinalize = 1 /\ heap[g[p].ref].type \in Targets
    BY <1>1, <1>3, <1>4, <1>9
  <1>11. RefsGood(g, queue, slots)
    BY <1>7, <1>8, <1>10, KeptRefs DEF RefsInv, SameNeeds
  <1> QED
    BY <1>1, <1>11 DEF RefsInv, g

LEMMA SetFieldRefsInv ==
  ASSUME MarkInv, RefsInv, NEW x \in Slots, NEW y \in Slots, SetField(x, y)
  PROVE  RefsInv'
  <1> DEFINE o == slots[x]
             v == slots[y]
  <1>1. /\ o \in Alive(heap) /\ heap[o].type \in HoldRefs
        /\ Kept(heap, heap') /\ SameNeeds(heap, heap') /\ SameLists(heap, heap')
        /\ heap'[o].ref = v
        /\ \A p \in Alive(heap) : p # o => heap'[p].ref = heap[p].ref
        /\ UNCHANGED <<queue, slots>>
    BY SetFieldFacts
  <1>2. v # NULL => v \in Alive(heap) /\ ~Unknown(heap, queue, v)
    BY KnownFacts DEF RefsInv
  <1>3. heap[o].type \notin WeakTypes
    BY <1>1, CollectorAssumption
  <1> HIDE DEF o, v
  <1>4. WeakOK(heap')
    BY <1>1, <1>3, WeakStays DEF RefsInv, RefsGood
  <1>5. RefsGood(heap', queue, slots)
    BY <1>1, <1>2, <1>3, <1>4, KeptRefs DEF RefsInv, SameNeeds
  <1> QED
    BY <1>1, <1>5 DEF RefsInv

(* The steps that leave the references alone. *)
LEMMA OtherRefsInv ==
  ASSUME RefsInv, Kept(heap, heap'), SameNeeds(heap, heap'), SameRefs(heap, heap'),
         SameLists(heap, heap'), UNCHANGED <<queue, slots>>
  PROVE  RefsInv'
  <1>1. WeakOK(heap')
    BY WeakStays DEF RefsInv, RefsGood, SameRefs
  <1>2. RefsGood(heap', queue, slots)
    BY <1>1, KeptRefs DEF RefsInv, SameNeeds, SameRefs
  <1> QED
    BY <1>2 DEF RefsInv

LEMMA LoadRefsInv ==
  ASSUME MarkInv, RefsInv, NEW x \in Slots, NEW y \in Slots, GetTarget(x, y) \/ GetField(x, y)
  PROVE  RefsInv'
  <1> DEFINE v == heap[slots[x]].ref
  <1>1. slots[x] \in Alive(heap) /\ slots' = [slots EXCEPT ![y] = v] /\ UNCHANGED <<heap, queue>>
    BY LoadFacts
  <1>2. v = NULL \/ (v \in Alive(heap) /\ ~Unknown(heap, queue, v))
    BY <1>1, KnownFacts DEF RefsInv
  <1> HIDE DEF v
  <1> QED
    BY <1>1, <1>2, SlotRefsInv

LEMMA StoreRefsInv ==
  ASSUME MarkInv, QueueInv, RefsInv, NEW o \in Objs, NEW x \in Slots, FinalizerStores(o, x)
  PROVE  RefsInv'
  <1>1. /\ o \in running /\ o \in Alive(heap) /\ heap[o].type = "finalizable"
        /\ \E v \in {o, heap[o].ref} : slots' = [slots EXCEPT ![x] = v]
        /\ UNCHANGED <<heap, queue>>
    BY StoreFacts
  <1>2. PICK v \in {o, heap[o].ref} : slots' = [slots EXCEPT ![x] = v]
    BY <1>1
  <1>3. ~IsQueued(queue, o)
    BY <1>1, RunningFacts DEF QueueInv
  <1>4. ~Unknown(heap, queue, o)
    BY <1>1, <1>3 DEF Unknown, WeakTypes
  <1>5. heap[o].ref = NULL \/ (heap[o].ref \in Alive(heap) /\ ~Unknown(heap, queue, heap[o].ref))
    BY <1>1, KnownFacts DEF RefsInv
  <1>6. v = NULL \/ (v \in Alive(heap) /\ ~Unknown(heap, queue, v))
    BY <1>1, <1>4, <1>5
  <1> QED
    BY <1>1, <1>2, <1>6, SlotRefsInv

LEMMA InitRefsInv == Init => RefsInv
  <1> SUFFICES ASSUME Init
               PROVE  RefsInv
    OBVIOUS
  <1>1. Alive(heap) = {} /\ \A x \in Slots : slots[x] = NULL
    BY DEF Init, Alive
  <1> QED
    BY <1>1 DEF RefsInv, RefsGood, TargetsFit, NoDangling, UnknownOutOfReach, WeakOK

LEMMA NextRefsInv ==
  Orderly /\ NoOrphans /\ MarkInv /\ QueueInv /\ RefsInv /\ [Next]_vars => RefsInv'
  <1> SUFFICES ASSUME Orderly, NoOrphans, MarkInv, QueueInv, RefsInv, [Next]_vars
               PROVE  RefsInv'
    OBVIOUS
  <1>1. CASE \E x \in Slots, type \in Types : New(x, type)
    BY <1>1, NewRefsInv
  <1>2. CASE Collect
    <2>1. UNCHANGED <<heap, queue, slots>>
      BY <1>2 DEF Collect
    <2> QED
      BY <2>1 DEF RefsInv
  <1>3. CASE MarkPiece
    <2>1. /\ Kept(heap, heap') /\ SameNeeds(heap, heap') /\ SameRefs(heap, heap')
          /\ SameLists(heap, heap') /\ UNCHANGED <<queue, slots>>
      BY <1>3, MarkPieceFacts
    <2> QED
      BY <2>1, OtherRefsInv
  <1>4. CASE Sweep
    BY <1>4, SweepRefsInv
  <1>5. CASE \E x \in Slots : SuppressFinalize(x)
    BY <1>5, SuppressRefsInv
  <1>6. ASSUME NEW x \in Slots, Overwrite(x)
        PROVE  RefsInv'
    BY <1>6, OverwriteFacts, SlotRefsInv
  <1>7. CASE \E x, y \in Slots :
               SetTarget(x, y) \/ GetTarget(x, y) \/ SetField(x, y) \/ GetField(x, y)
    BY <1>7, SetTargetRefsInv, LoadRefsInv, SetFieldRefsInv
  <1>8. CASE \E o \in Objs : EndFinalizer(o)
    BY <1>8, EndFinalizerRefsInv
  <1>9. ASSUME NEW o \in Objs, MakeDeletable(o)
        PROVE  RefsInv'
    <2>1. /\ Kept(heap, heap') /\ SameNeeds(heap, heap') /\ SameRefs(heap, heap')
          /\ SameLists(heap, heap') /\ UNCHANGED <<queue, slots>>
      BY <1>9, MakeDeletableFacts
    <2> QED
      BY <2>1, OtherRefsInv
  <1>10. CASE \E o \in Objs, x \in Slots : FinalizerStores(o, x)
    BY <1>10, StoreRefsInv
  <1>11. CASE UNCHANGED vars
    BY <1>11 DEF RefsInv, vars
  <1> QED
    BY <1>1, <1>2, <1>3, <1>4, <1>5, <1>6, <1>7, <1>8, <1>9, <1>10, <1>11 DEF Next

(* In an orderly program no queued object is suppressed. *)
LEMMA OrderlySuppresses ==
  Orderly /\ MarkInv /\ RefsInv /\ [Next]_vars => [NoQueuedSuppressed]_vars
  BY SuppressRefsInv DEF NoQueuedSuppressed

-----------------------------------------------------------------------------
(* The theorems *)

(* The types and the marks are right of every program. *)
LEMMA MarkInvariance == Spec => []MarkInv
  BY InitMarkInv, NextMarkInv, PTL DEF Spec

LEMMA QueueImplies ==
  ASSUME QueueInv
  PROVE  QueueAgrees /\ FinalizedAtMostOnce
  <1>1. running \subseteq Alive(heap) /\ QueueOK(heap, queue, running) /\ OnceOK(heap, queue, running)
    BY DEF QueueInv, QueueGood
  <1>2. ASSUME NEW o \in Alive(heap), heap[o].needToFinalize = 2
        PROVE  (o \in running) # (\E i \in DOMAIN queue : queue[i] = o)
    <2>1. o \in running <=> ~IsQueued(queue, o)
      BY <1>1, <1>2 DEF QueueOK
    <2> QED
      BY <2>1, Zenon DEF IsQueued
  <1>3. QueueAgrees
    BY <1>1, <1>2 DEF QueueAgrees, QueueOK
  <1> QED
    BY <1>1, <1>3 DEF OnceOK, FinalizedAtMostOnce

LEMMA RefsImply ==
  ASSUME QueueInv, RefsInv
  PROVE  NoDanglingReference /\ WeakRefsAgree
  BY DEF QueueInv, QueueGood, RefsInv, RefsGood, NoDangling, NoDanglingReference, WeakOK, WeakRefsAgree

(* Every heap entry, the finalizer queue, the work of GC_Mark and the      *)
(* words of the program have their types, whatever is collected, finalized *)
(* and suppressed.                                                         *)
THEOREM TypeCorrect == Spec => []TypeOK
  <1>1. MarkInv => TypeOK
    BY DEF MarkInv
  <1> QED
    BY <1>1, MarkInvariance, PTL

(* The work list of GC_Mark marks what can be reached and nothing else: a  *)
(* collection takes all garbage that waits for no finalizer and nothing    *)
(* that can be reached, provided that no undeletable object refers to      *)
(* others.                                                                 *)
THEOREM CollectionsArePrecise ==
  ASSUME PinnedHoldNothing
  PROVE  Spec => CollectsGarbage
  <1>1. MarkInv /\ [Next]_vars =>
          [Sweep =>
             \A o \in Alive(heap) :
               /\ o \in Reachable => heap'[o] # NULL
               /\ heap'[o] # NULL =>
                    \/ o \in Reachable
                    \/ heap[o].marked = 255
                    \/ heap'[o].needToFinalize = 2]_vars
    BY SweepTakesGarbage
  <1> QED
    BY <1>1, MarkInvariance, PTL DEF Spec, CollectsGarbage

LEMMA QueueInvariance == Spec /\ [][NoQueuedSuppressed]_vars => []QueueInv
  BY InitQueueInv, NextQueueInv, MarkInvariance, PTL DEF Spec

(* An object waits in the finalizer queue once, is not freed there, and    *)
(* waits or runs exactly while needToFinalize is 2, whatever it refers to  *)
(* and whatever refers to it, unless its finalizer is suppressed while it  *)
(* is queued.                                                              *)
THEOREM QueueIsRight == Spec /\ [][NoQueuedSuppressed]_vars => []QueueAgrees
  BY QueueInvariance, QueueImplies, PTL

(* The finalizer of an object that comes back to life does not run again,  *)
(* under the same condition.                                               *)
THEOREM FinalizedOnce == Spec /\ [][NoQueuedSuppressed]_vars => []FinalizedAtMostOnce
  BY QueueInvariance, QueueImplies, PTL

LEMMA RefsInvariance ==
  ASSUME Orderly
  PROVE  Spec /\ []NoOrphans => [](QueueInv /\ RefsInv)
  <1>1. Init => QueueInv /\ RefsInv
    BY InitQueueInv, InitRefsInv
  <1>2. NoOrphans /\ MarkInv /\ QueueInv /\ RefsInv /\ [Next]_vars => (QueueInv /\ RefsInv)'
    BY NextQueueInv, NextRefsInv, OrderlySuppresses
  <1> QED
    BY <1>1, <1>2, MarkInvariance, PTL DEF Spec

(* A collection frees nothing that a slot, an object or a running          *)
(* finalizer refers to: neither through a weak reference nor from a        *)
(* finalizer does an orderly program get hold of memory that is gone, if   *)
(* none of its objects that wait for a finalizer is the only one to refer  *)
(* to another.                                                             *)
THEOREM NothingDangles ==
  ASSUME Orderly
  PROVE  Spec /\ []NoOrphans => []NoDanglingReference
  BY RefsInvariance, RefsImply, PTL

(* The lists in the sync blocks and the targets of the weak references     *)
(* stay two views of one relation, of the same programs.                   *)
THEOREM WeakReferencesAgree ==
  ASSUME Orderly
  PROVE  Spec /\ []NoOrphans => []WeakRefsAgree
  BY RefsInvariance, RefsImply, PTL
=============================================================================
