----------------------------- MODULE Collector -----------------------------
(***************************************************************************)
(* The mark-and-sweep collector of Heap.c with what hangs on it: the       *)
(* finalizer queue (Finalizer.c, RunFinalizer), weak references            *)
(* (System.WeakReference.c) and objects made undeletable.                  *)
(*                                                                         *)
(* The program is any sequence of allocations, loads and stores on a few   *)
(* words of memory that the collector scans as roots: the frames of the    *)
(* threads and the static fields.  An object holds one reference.          *)
(***************************************************************************)
EXTENDS Naturals, FiniteSets, Sequences, SequencesExt

CONSTANTS Objs,      \* addresses of heap entries
          Slots,     \* words of frames and static fields
          NULL,
          HoldRefs,  \* types whose objects refer to other objects
          Targets,   \* types whose objects are targets of weak references
          Suppressed \* types whose objects are passed to GC.SuppressFinalize

(* "short" and "long" are WeakReference objects (long: tracking            *)
(* resurrection), "undeletable" is a thread or another object that native  *)
(* code keeps, "finalizable" has a finalizer of its own.                   *)
WeakTypes == {"short", "long"}
Types == {"object", "finalizable", "undeletable"} \cup WeakTypes

ASSUME CollectorAssumption ==
  /\ IsFiniteSet(Objs)
  /\ NULL \notin Objs
  /\ HoldRefs \subseteq Types \ WeakTypes
  /\ Targets \subseteq Types
  /\ Suppressed \subseteq Types

VARIABLES
  heap,     \* the heap entries, NULL where no memory is allocated
  queue,    \* ppToFinalize: objects whose finalizer is to run
  running,  \* finalizerThis of the method states of finalizers
  slots,    \* what the words of frames and static fields hold
  gc,       \* "mark" during GC_Mark, otherwise "idle"
  roots     \* heapRoots of GC_Mark: pieces of memory with the pointers in each

vars == <<heap, queue, running, slots, gc, roots>>

(* finalized counts the runs of the finalizer; the program does not.       *)
Entry == [type : Types,
          ref : Objs \cup {NULL},      \* for a weak reference: its target
          marked : {0, 1, 255},
          needToFinalize : 0 .. 2,
          pSync : {"none", "live", "freed"},
          weakRef : SUBSET Objs,       \* the list in the sync block
          finalized : 0 .. 2]

ASSUME NoEntry == NULL \notin Entry

Alive(h) == {o \in Objs : h[o] # NULL}

TypeOK ==
  /\ heap \in [Objs -> Entry \cup {NULL}]
  /\ queue \in Seq(Objs)
  /\ running \subseteq Objs
  /\ slots \in [Slots -> Objs \cup {NULL}]
  /\ gc \in {"idle", "mark"}
  /\ roots \in Seq(SUBSET (Objs \cup {NULL}))
  /\ gc = "idle" => roots = <<>> /\ \A o \in Alive(heap) : heap[o].marked # 1

Init ==
  /\ heap = [o \in Objs |-> NULL]
  /\ queue = <<>>
  /\ running = {}
  /\ slots = [s \in Slots |-> NULL]
  /\ gc = "idle"
  /\ roots = <<>>

-----------------------------------------------------------------------------
(* Mark. *)

(* What a frame of a finalizer or of a method, or a static field, holds. *)
Roots == {slots[s] : s \in Slots} \cup running

(* Mutant: the frames of finalizers are not scanned. *)
RootPiecesWithoutFinalizers == <<{slots[s] : s \in Slots}>>

RootPieces == <<{slots[s] : s \in Slots}, running>>

(* The marks of found entries are set. *)
WithMarks(h, found) ==
  [o \in Objs |-> IF o \in found THEN [h[o] EXCEPT !.marked = 1] ELSE h[o]]

(* Mutant: the pieces are counted down also when some were added.          *)
WorklistCountedDown(rest, added) == Front(Append(rest, {}) \o added)

(* The pieces after one was scanned: it is emptied, and stays beneath the  *)
(* memory of the entries it led to; if it led to none it is taken away.    *)
Worklist(rest, added) == IF added = <<>> THEN rest ELSE Append(rest, {}) \o added

(* GC.Collect, or an allocation when the heap has grown to its limit: the  *)
(* object is then allocated when the collection is over.                   *)
Collect ==
  /\ gc = "idle"
  /\ gc' = "mark"
  /\ roots' = RootPieces
  /\ UNCHANGED <<heap, queue, running, slots>>

(* The pointers of the last piece are looked up.  An entry that has a mark *)
(* already is passed over, also one that is undeletable, and the memory of *)
(* a weak reference is not scanned.                                        *)
MarkPiece ==
  LET found == {o \in Last(roots) \cap Alive(heap) : heap[o].marked = 0}
      scanned == {o \in found : heap[o].type \notin WeakTypes}
  IN /\ gc = "mark" /\ roots # <<>>
     /\ heap' = WithMarks(heap, found)
     /\ \E order \in SetToSeqs(scanned) :
          roots' = Worklist(Front(roots), [i \in DOMAIN order |-> {heap[order[i]].ref}])
     /\ UNCHANGED <<queue, running, slots, gc>>

-----------------------------------------------------------------------------
(* Sweep. *)

Unused(h) == {o \in Alive(h) : h[o].marked = 0}

ToFinalize(h) == {o \in Unused(h) : h[o].needToFinalize = 1}

ToDelete(h) == {o \in Unused(h) : h[o].needToFinalize = 0}

(* Mutant: long references are kept when the target is deleted. *)
RemovedWeakRefsKeepLong(h) ==
  UNION {{w \in h[o].weakRef : h[w].type = "short"} : o \in ToDelete(h) \cup ToFinalize(h)}

(* The weak references that lose their target: all those to a deleted      *)
(* object, the short ones to an object whose finalizer will run.           *)
RemovedWeakRefs(h) ==
  (UNION {h[o].weakRef : o \in ToDelete(h)})
  \cup (UNION {{w \in h[o].weakRef : h[w].type = "short"} : o \in ToFinalize(h)})

(* Mutant: the entry is not marked as queued. *)
QueuedNotMarked(e) ==
  [e EXCEPT !.pSync = IF @ = "none" THEN "none" ELSE "freed"]

(* An entry put in the finalizer queue: its sync block is freed, and the   *)
(* pointer to it stays.                                                    *)
Queued(e) ==
  [e EXCEPT !.needToFinalize = 2,
            !.pSync = IF @ = "none" THEN "none" ELSE "freed"]

Swept(h) ==
  LET deleted == ToDelete(h)
      queued == ToFinalize(h)
      removed == RemovedWeakRefs(h)
  IN [o \in Objs |->
        IF h[o] = NULL \/ o \in deleted THEN NULL
        ELSE LET e == IF o \in queued THEN Queued(h[o]) ELSE h[o]
             IN [e EXCEPT
                   !.marked = IF @ = 1 THEN 0 ELSE @,
                   !.ref = IF e.type \in WeakTypes /\ o \in removed THEN NULL ELSE @,
                   !.weakRef = IF o \in queued THEN @ \ removed ELSE @]]

(* The queue after a collection: the sweep adds to it in the order of the  *)
(* tree, which is that of the addresses.                                   *)
QueuesAfter(h) == {queue \o added : added \in SetToSeqs(ToFinalize(h))}

(* Nothing is left to scan: the collection ends. *)
Sweep ==
  /\ gc = "mark" /\ roots = <<>>
  /\ gc' = "idle"
  /\ heap' = Swept(heap)
  /\ queue' \in QueuesAfter(heap)
  /\ UNCHANGED <<running, slots, roots>>

-----------------------------------------------------------------------------
(* Allocation and finalizers. *)

(* Mutant: the mark of a new entry is whatever malloc returned. *)
NewEntryNotZeroed(type) ==
  [type |-> type, ref |-> NULL, marked |-> 1,
   needToFinalize |-> IF type \in WeakTypes \cup {"finalizable"} THEN 1 ELSE 0,
   pSync |-> "none", weakRef |-> {}, finalized |-> 0]

NewEntry(type) ==
  [type |-> type, ref |-> NULL,
   marked |-> IF type = "undeletable" THEN 255 ELSE 0,
   needToFinalize |-> IF type \in WeakTypes \cup {"finalizable"} THEN 1 ELSE 0,
   pSync |-> "none", weakRef |-> {}, finalized |-> 0]

(* The memory after an allocation at a free address. *)
Allocated(h, o, type) == [h EXCEPT ![o] = NewEntry(type)]

(* RUN_FINALIZER: the finalizer queued last gets a method state. *)
RunFinalizer(h, q) ==
  IF q = <<>> THEN heap' = h /\ queue' = q /\ UNCHANGED running
  ELSE /\ queue' = Front(q)
       /\ running' = running \cup {Last(q)}
       /\ LET e == h[Last(q)]
              runs == IF e.finalized < 2 THEN e.finalized + 1 ELSE 2
          IN heap' = [h EXCEPT ![Last(q)] =
                        IF e = NULL THEN NULL ELSE [e EXCEPT !.finalized = runs]]

(* The new object is stored in a slot. *)
New(s, type) ==
  /\ gc = "idle"
  /\ \E o \in Objs \ Alive(heap) :
       /\ RunFinalizer(Allocated(heap, o, type), queue)
       /\ slots' = [slots EXCEPT ![s] = o]
  /\ UNCHANGED <<gc, roots>>

(* Mutant: the finalizer is armed again. *)
UnmarkFinalizerArms(h, o) == [h EXCEPT ![o].needToFinalize = 1]

UnmarkFinalizer(h, o) == [h EXCEPT ![o].needToFinalize = 0]

(* The uses of an object that are modelled are those of allocated ones,    *)
(* between collections.                                                    *)
IsA(o, types) == gc = "idle" /\ o \in Alive(heap) /\ heap[o].type \in types

(* GC.SuppressFinalize: of any object, queued or not. *)
SuppressFinalize(s) ==
  /\ IsA(slots[s], Suppressed)
  /\ heap' = UnmarkFinalizer(heap, slots[s])
  /\ UNCHANGED <<queue, running, slots, gc, roots>>

-----------------------------------------------------------------------------
(* Weak references. *)

(* A weak reference that its target does not list is an error: a Crash, or *)
(* the memory of a target that is gone.                                    *)
IsListed(w) ==
  LET t == heap[w].ref IN t = NULL \/ (t \in Alive(heap) /\ w \in heap[t].weakRef)

(* A target left by its last weak reference loses its sync block. *)
Unlinked(h, w) ==
  LET t == h[w].ref IN
  IF t = NULL THEN h
  ELSE [h EXCEPT ![t].weakRef = @ \ {w},
                 ![t].pSync = IF h[t].weakRef = {w} THEN "none" ELSE @,
                 ![w].ref = NULL]

Linked(h, w, t) ==
  IF t = NULL THEN h
  ELSE [h EXCEPT ![w].ref = t,
                 ![t].weakRef = @ \cup {w},
                 ![t].pSync = IF @ = "none" THEN "live" ELSE @]

(* set_Target. *)
SetTarget(s, u) ==
  /\ IsA(slots[s], WeakTypes)
  /\ slots[u] = NULL \/ IsA(slots[u], Targets)
  /\ IsListed(slots[s])
  /\ heap' = Linked(Unlinked(heap, slots[s]), slots[s], slots[u])
  /\ UNCHANGED <<queue, running, slots, gc, roots>>

(* get_Target. *)
GetTarget(s, u) ==
  /\ IsA(slots[s], WeakTypes)
  /\ slots' = [slots EXCEPT ![u] = heap[slots[s]].ref]
  /\ UNCHANGED <<heap, queue, running, gc, roots>>

(* The finalizer of an object returns.  That of a WeakReference (in        *)
(* corlib) has set the target to null.                                     *)
EndFinalizer(o) ==
  /\ o \in running /\ IsA(o, Types)
  /\ heap[o].type \in WeakTypes => IsListed(o)
  /\ running' = running \ {o}
  /\ heap' = UnmarkFinalizer(
       IF heap[o].type \in WeakTypes THEN Unlinked(heap, o) ELSE heap, o)
  /\ UNCHANGED <<queue, slots, gc, roots>>

-----------------------------------------------------------------------------
(* Loads and stores of the program. *)

SetField(s, u) ==
  /\ IsA(slots[s], HoldRefs)
  /\ heap' = [heap EXCEPT ![slots[s]].ref = slots[u]]
  /\ UNCHANGED <<queue, running, slots, gc, roots>>

GetField(s, u) ==
  /\ IsA(slots[s], HoldRefs)
  /\ slots' = [slots EXCEPT ![u] = heap[slots[s]].ref]
  /\ UNCHANGED <<heap, queue, running, gc, roots>>

Overwrite(s) ==
  /\ gc = "idle"
  /\ slots' = [slots EXCEPT ![s] = NULL]
  /\ UNCHANGED <<heap, queue, running, gc, roots>>

(* A finalizer of the program stores its object, which is reachable again, *)
(* or what the object refers to.                                           *)
FinalizerStores(o, s) ==
  /\ o \in running
  /\ IsA(o, {"finalizable"})
  /\ \E v \in {o, heap[o].ref} : slots' = [slots EXCEPT ![s] = v]
  /\ UNCHANGED <<heap, queue, running, gc, roots>>

(* Native code lets go of an object: a thread ended. *)
MakeDeletable(o) ==
  /\ IsA(o, Types)
  /\ heap[o].marked = 255
  /\ heap' = [heap EXCEPT ![o].marked = 0]
  /\ UNCHANGED <<queue, running, slots, gc, roots>>

Next ==
  \/ \E s \in Slots, type \in Types : New(s, type)
  \/ Collect \/ MarkPiece \/ Sweep
  \/ \E s \in Slots : SuppressFinalize(s) \/ Overwrite(s)
  \/ \E s, u \in Slots :
       SetTarget(s, u) \/ GetTarget(s, u) \/ SetField(s, u) \/ GetField(s, u)
  \/ \E o \in Objs : EndFinalizer(o) \/ MakeDeletable(o)
  \/ \E o \in Objs, s \in Slots : FinalizerStores(o, s)

Spec == Init /\ [][Next]_vars

-----------------------------------------------------------------------------
(* Properties *)

(* What the program can get hold of is allocated: no slot, no running      *)
(* finalizer and no object refers to memory that a collection freed.       *)
NoDanglingReference ==
  /\ \A s \in Slots : slots[s] \in Alive(heap) \cup {NULL}
  /\ running \subseteq Alive(heap)
  /\ \A o \in Alive(heap) : heap[o].ref \in Alive(heap) \cup {NULL}

(* "Set to 2 if this has been added to the Finalizer queue" (Heap.c:67):   *)
(* an object waits in the queue once, is not freed before its finalizer    *)
(* has run, and waits or runs exactly while it is marked so.               *)
QueueAgrees ==
  /\ \A i, j \in DOMAIN queue : queue[i] = queue[j] => i = j
  /\ \A i \in DOMAIN queue :
       queue[i] \in Alive(heap) /\ heap[queue[i]].needToFinalize = 2
  /\ \A o \in Alive(heap) :
       heap[o].needToFinalize = 2 =>
         (o \in running) # (\E i \in DOMAIN queue : queue[i] = o)

(* No finalizer runs twice for one object, though the object may come back *)
(* to life in it and die again.                                            *)
FinalizedAtMostOnce == \A o \in Alive(heap) : heap[o].finalized <= 1

(* The list of weak references in the sync block of an object holds just   *)
(* the live references to it, through collections of either side.          *)
WeakRefsAgree ==
  \A t \in Alive(heap) :
    heap[t].weakRef = {w \in Alive(heap) : heap[w].type \in WeakTypes /\ heap[w].ref = t}

Reachable ==
  {o \in Objs :
     \A S \in SUBSET Objs :
       /\ Roots \cap Objs \subseteq S
       /\ \A p \in S \cap Alive(heap) :
            heap[p].type \notin WeakTypes => {heap[p].ref} \cap Objs \subseteq S
       => o \in S}

(* An assumption about the program: what an unreachable object with a      *)
(* finalizer refers to is reachable in another way.  The code frees it     *)
(* otherwise, while the finalizer can still use it (Heap.c:357).           *)
NoOrphans ==
  \A o \in Alive(heap) :
    heap[o].type \notin WeakTypes /\ heap[o].needToFinalize # 0 /\ o \notin Reachable =>
      heap[o].ref \in Reachable \cup {NULL}

(* The marks that GC_Mark has set are those of the objects that can be     *)
(* reached: a collection leaves no garbage but undeletable objects and     *)
(* those whose finalizer has yet to run, and it takes away nothing that is *)
(* reachable.                                                              *)
CollectsGarbage ==
  [][Sweep =>
       \A o \in Alive(heap) :
         /\ o \in Reachable => heap'[o] # NULL
         /\ heap'[o] # NULL =>
              \/ o \in Reachable
              \/ heap[o].marked = 255
              \/ heap'[o].needToFinalize = 2]_vars
=============================================================================
