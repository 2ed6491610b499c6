------------------------------ MODULE HeapTree ------------------------------
(***************************************************************************)
(* The tree of heap entries of Heap.c: an AA tree ordered by address, in   *)
(* which the collector looks up every word that may be a pointer and which *)
(* it walks to sweep.  All updates are made in place, on the shared nil    *)
(* node too.  What the program does with recursion or in a loop is a       *)
(* recursive function of the calls or turns that are left: no branch of    *)
(* the tree holds more than all the entries, so Depth of them are enough.  *)
(***************************************************************************)
EXTENDS Integers, FiniteSets, Sequences, SequencesExt, FiniteSetsExt

CONSTANTS Entries,   \* the heap entries, a set of positive numbers: entry k
                     \* has the address Stride * k
          Stride,    \* distance of two neighbouring entries
          Size       \* the total size of an entry, below Stride

ASSUME HeapTreeAssumption ==
  /\ Entries \subseteq Nat \ {0}
  /\ IsFiniteSet(Entries)
  /\ Stride \in Nat /\ Size \in Nat /\ Size < Stride

VARIABLES root,   \* pHeapTreeRoot
          mem,    \* links and level of every entry and of nil
          live    \* the entries allocated; the program keeps no such set

vars == <<root, mem, live>>

nil == 0
Nodes == Entries \cup {nil}
Address(k) == Stride * k

Node == [link : [0 .. 1 -> Nodes], level : Nat]
Memory == [Nodes -> Node]

Depth == Cardinality(Entries) + 1

(* A subtree in a memory.  The operators below take one and return one.    *)
Tree(m, r) == [mem |-> m, root |-> r]
Trees == [mem : Memory, root : Nodes]

Link(m, n, dir) == m[n].link[dir]
SetLink(m, n, dir, to) == [m EXCEPT ![n].link[dir] = to]
Level(m, n) == m[n].level

(* Store a subtree in a link of n. *)
Attach(t, n, dir) == SetLink(t.mem, n, dir, t.root)

-----------------------------------------------------------------------------
(* Rotations. *)

TreeSkew(m, r) ==
  LET save == Link(m, r, 0) IN
  IF Level(m, save) = Level(m, r) /\ Level(m, r) # 0
  THEN Tree(SetLink(SetLink(m, r, 0, Link(m, save, 1)), save, 1, r), save)
  ELSE Tree(m, r)

(* Mutant: the new root stays on its level. *)
TreeSplitSameLevel(m, r) ==
  LET save == Link(m, r, 1) IN
  IF Level(m, Link(m, save, 1)) = Level(m, r) /\ Level(m, r) # 0
  THEN Tree(SetLink(SetLink(m, r, 1, Link(m, save, 0)), save, 0, r), save)
  ELSE Tree(m, r)

TreeSplit(m, r) ==
  LET save == Link(m, r, 1) IN
  IF Level(m, Link(m, save, 1)) = Level(m, r) /\ Level(m, r) # 0
  THEN Tree([SetLink(SetLink(m, r, 1, Link(m, save, 0)), save, 0, r)
               EXCEPT ![save].level = @ + 1], save)
  ELSE Tree(m, r)

SkewChild(m, n) == Attach(TreeSkew(m, Link(m, n, 1)), n, 1)
SplitChild(m, n) == Attach(TreeSplit(m, Link(m, n, 1)), n, 1)

(* The root goes down a level, and a right child that was on its level.    *)
Lowered(m, r) ==
  LET level == Level(m, r) - 1
      m1 == [m EXCEPT ![r].level = level]
  IN [m1 EXCEPT ![Link(m, r, 1)].level = IF @ > level THEN level ELSE @]

Rotations(m, r) ==
  LET skewed == TreeSkew(m, r)
      m1 == SkewChild(skewed.mem, skewed.root)
      m2 == SkewChild(m1, Link(m1, skewed.root, 1))
      split == TreeSplit(m2, skewed.root)
  IN Tree(SplitChild(split.mem, split.root), split.root)

(* Mutant: the levels are not compared. *)
TreeBalanceAlways(m, r) == Rotations(Lowered(m, r), r)

(* Rebalance on the way up from a removal. *)
TreeBalance(m, r) ==
  IF \E dir \in 0 .. 1 : Level(m, Link(m, r, dir)) < Level(m, r) - 1
  THEN Rotations(Lowered(m, r), r)
  ELSE Tree(m, r)

-----------------------------------------------------------------------------
(* Insertion, removal, search. *)

Direction(n, k) == IF Address(n) < Address(k) THEN 1 ELSE 0

(* TreeInsert, with insert for the call of itself; likewise below. *)
InsertStep(k, insert, t) ==
  LET m == t.mem
      r == t.root
      dir == Direction(r, k)
      m1 == Attach(insert[Tree(m, Link(m, r, dir))], r, dir)
      skewed == TreeSkew(m1, r)
  IN IF r = nil
     THEN Tree([m EXCEPT ![k] = [link |-> [d \in 0 .. 1 |-> nil], level |-> 1]], k)
     ELSE TreeSplit(skewed.mem, skewed.root)

Insertion(k) ==
  LET insert[d \in Nat] == [t \in Trees |-> IF d = 0 THEN t ELSE InsertStep(k, insert[d - 1], t)]
  IN insert

TreeInsert(m, r, k) == Insertion(k)[Depth][Tree(m, r)]

(* The rightmost entry below n, and the parent of it. *)
RightmostStep(m, rightmost, pair) ==
  LET n == pair[2] IN
  IF Link(m, n, 1) = nil THEN pair ELSE rightmost[<<n, Link(m, n, 1)>>]

RightmostBelow(m) ==
  LET rightmost[d \in Nat] ==
        [pair \in Nodes \X Nodes |->
           IF d = 0 THEN pair ELSE RightmostStep(m, rightmost[d - 1], pair)]
  IN rightmost

Rightmost(m, parent, n) == RightmostBelow(m)[Depth][<<parent, n>>]

(* An entry with two children changes places with the rightmost entry of   *)
(* its left subtree, the heir.                                             *)
SwapWithHeir(m, r) ==
  LET pair == Rightmost(m, r, Link(m, r, 0))
      parent == pair[1]
      heir == pair[2]
      swapped == [m EXCEPT ![heir].link = m[r].link, ![heir].level = m[r].level,
                           ![r].link = [d \in 0 .. 1 |-> IF d = 0 THEN Link(m, heir, 0) ELSE nil],
                           ![r].level = m[heir].level]
  IN Tree(IF parent = r THEN SetLink(swapped, heir, 0, r)
          ELSE SetLink(swapped, parent, 1, r), heir)

RemoveBelow(remove, t, dir) ==
  LET m == t.mem
      r == t.root
  IN TreeBalance(Attach(remove[Tree(m, Link(m, r, dir))], r, dir), r)

(* The recursive call always removes k, which the heir has sent down.      *)
RemoveStep(k, remove, t) ==
  LET m == t.mem
      r == t.root
  IN IF r = nil THEN TreeBalance(m, r)
     ELSE IF r # k THEN RemoveBelow(remove, t, Direction(r, k))
     ELSE IF Link(m, r, 0) # nil /\ Link(m, r, 1) # nil
     THEN RemoveBelow(remove, SwapWithHeir(m, r), 0)
     ELSE TreeBalance(m, Link(m, r, IF Link(m, r, 0) = nil THEN 1 ELSE 0))

Removal(k) ==
  LET remove[d \in Nat] == [t \in Trees |-> IF d = 0 THEN t ELSE RemoveStep(k, remove[d - 1], t)]
  IN remove

TreeRemove(m, r, k) == Removal(k)[Depth][Tree(m, r)]

(* Mutant: the end of an entry does not belong to it. *)
BehindWithoutEnd(p, n) == p >= Address(n) + Size

Behind(p, n) == p > Address(n) + Size

SearchTurn(m, n, p) ==
  IF n = nil THEN nil
  ELSE IF p < Address(n) THEN Link(m, n, 0)
  ELSE IF Behind(p, n) THEN Link(m, n, 1)
  ELSE n

Searching(m, n, p) ==
  LET found[i \in Nat] == IF i = 0 THEN n ELSE SearchTurn(m, found[i - 1], p)
  IN found

(* The entry that holds the address p, or nil. *)
TreeSearch(m, n, p) == Searching(m, n, p)[Depth]

-----------------------------------------------------------------------------
(* The walk of GC_Sweep, with a stack of its own (pUp). *)

(* Mutant: the left child is not visited when there is a right one. *)
PushChildrenOne(m, n, up) ==
  IF Link(m, n, 1) # nil THEN <<Link(m, n, 1)>> \o up
  ELSE IF Link(m, n, 0) # nil THEN <<Link(m, n, 0)>> \o up ELSE up

PushChildren(m, n, up) ==
  LET rest == IF Link(m, n, 1) # nil THEN <<Link(m, n, 1)>> \o up ELSE up
  IN IF Link(m, n, 0) # nil THEN <<Link(m, n, 0)>> \o rest ELSE rest

WalkTurn(m, walk) ==
  IF walk.up = <<>> THEN walk
  ELSE LET rest == PushChildren(m, Head(walk.up), Tail(walk.up))
       IN [up |-> rest, visited |-> Append(walk.visited, Head(walk.up)),
           most |-> IF Len(rest) > walk.most THEN Len(rest) ELSE walk.most]

Walking(m, r) ==
  LET walk[i \in Nat] ==
        IF i = 0 THEN [up |-> <<r>>, visited |-> <<>>, most |-> 1] ELSE WalkTurn(m, walk[i - 1])
  IN walk

(* The entries in the order of the walk, and the most the stack held; the  *)
(* walk begins with the root even if that is nil.                          *)
Sweep == Walking(mem, root)[Depth]

RemoveTurn(t, n, unused) == IF n \in unused THEN TreeRemove(t.mem, t.root, n) ELSE t

(* The list of the unused entries has the one found last at its head.      *)
Removing(t, visited, unused) ==
  LET left[i \in 0 .. Len(visited)] ==
        IF i = 0 THEN t ELSE RemoveTurn(left[i - 1], visited[Len(visited) + 1 - i], unused)
  IN left

RemoveAll(t, visited, unused) == Removing(t, visited, unused)[Len(visited)]

-----------------------------------------------------------------------------
Zeroed == [link |-> [d \in 0 .. 1 |-> nil], level |-> 0]

Init ==
  /\ root = nil
  /\ mem = [n \in Nodes |-> Zeroed]
  /\ live = {}

(* Heap_Alloc of an entry at the address of k. *)
Alloc(k) ==
  /\ k \notin live
  /\ LET t == TreeInsert(mem, root, k) IN root' = t.root /\ mem' = t.mem
  /\ live' = live \cup {k}

(* GC_Sweep: the unused entries found by the walk are removed after it.    *)
Collect(unused) ==
  /\ LET t == RemoveAll(Tree(mem, root), Sweep.visited, unused)
     IN /\ root' = t.root
        /\ mem' = [n \in Nodes |-> IF n \in unused THEN Zeroed ELSE t.mem[n]]
  /\ live' = live \ unused

Next ==
  \/ \E k \in Entries : Alloc(k)
  \/ \E unused \in (SUBSET live) \ {{}} : Collect(unused)

Spec == Init /\ [][Next]_vars

-----------------------------------------------------------------------------
(* Properties *)

TypeOK ==
  /\ root \in Nodes
  /\ mem \in Memory
  /\ live \subseteq Entries

(* A word of memory is taken for a reference to an entry exactly when it   *)
(* points into that entry or to its end, which an entry of size zero needs *)
(* (Heap.c:189), whatever insertions and removals built the tree.          *)
SearchIsExact ==
  \A p \in 0 .. Address(Max(Entries) + 1) :
    LET n == TreeSearch(mem, root, p) IN
    IF n = nil
    THEN \A k \in live : ~(Address(k) <= p /\ p <= Address(k) + Size)
    ELSE n \in live /\ Address(n) <= p /\ p <= Address(n) + Size

(* The levels are those of an AA tree: it stays balanced although the      *)
(* removals of a sweep follow each other without a walk in between, and    *)
(* nil is never changed.                                                   *)
Balanced ==
  /\ mem[nil] = Zeroed
  /\ \A k \in live :
       LET l == Level(mem, k) IN
       /\ Level(mem, Link(mem, k, 0)) = l - 1
       /\ Level(mem, Link(mem, k, 1)) \in {l - 1, l}
       /\ Level(mem, Link(mem, Link(mem, k, 1), 1)) < l

Pow2[n \in Nat] == IF n = 0 THEN 1 ELSE 2 * Pow2[n - 1]

(* The sweep visits every entry once, and its stack of 2 * MAX_TREE_DEPTH  *)
(* is enough: it never holds more than the level of the root, and a root   *)
(* of level l takes 2^l - 1 entries.                                       *)
SweepVisitsAll ==
  root # nil =>
    /\ Len(Sweep.visited) = Cardinality(live)
    /\ ToSet(Sweep.visited) = live
    /\ Sweep.most <= Level(mem, root)
    /\ Cardinality(live) >= Pow2[Level(mem, root)] - 1
=============================================================================
