--------------------------- MODULE HeapTreeFacts ---------------------------
(***************************************************************************)
(* What the operators of HeapTree do to an AA tree: the recursion they are *)
(* written with, the memory they write, the rotations, and the rebalancing *)
(* on the way up.                                                          *)
(***************************************************************************)
EXTENDS HeapTree, FiniteSetTheorems, WellFoundedInduction, TLAPS

-----------------------------------------------------------------------------
(* Recursion *)

(* A set of numbers with 0 that is closed under successor has all of them: *)
(* the induction of every proof below on the depth of a call or the turns  *)
(* of a loop, from the least number outside of the set.                    *)
LEMMA Induction ==
  ASSUME NEW P \in SUBSET Nat, 0 \in P, \A n \in P : n+1 \in P PROVE P = Nat
<1>1. SUFFICES ASSUME P # Nat PROVE FALSE
  OBVIOUS
<1>2. \E x \in Nat \ P : \A y \in Nat \ P : ~ (<<y, x>> \in OpToRel(<,Nat))
  BY <1>1, NatLessThanWellFounded, WFMin
<1>3. PICK x \in Nat \ P : \A y \in Nat \ P : ~ (<<y, x>> \in OpToRel(<,Nat))
  BY <1>2
<1>4. x # 0 /\ x - 1 \in Nat
  OBVIOUS
<1>5. x - 1 \notin P
  OBVIOUS
<1>6. <<x-1, x>> \in OpToRel(<,Nat)
  BY <1>4 DEF OpToRel
<1> QED BY <1>3, <1>4, <1>5, <1>6

(* f begins with y0 and goes on from turn to turn as G says. *)
Goes(Y, G, y0, f) == f \in [Nat -> Y] /\ f[0] = y0 /\ \A n \in Nat : f[n + 1] = G[<<n, f[n]>>]

(* A start and a step define a sequence: the recursive functions of        *)
(* HeapTree, which stand for calls and loops of the code, exist.           *)
LEMMA Recursion ==
  ASSUME NEW Y, NEW y0 \in Y, NEW G \in [Nat \X Y -> Y]
  PROVE  \E f : Goes(Y, G, y0, f)
<1> DEFINE Part(n, f) == f \in [0 .. n -> Y] /\ f[0] = y0 /\ \A i \in 0 .. n-1 : f[i+1] = G[<<i, f[i]>>]
           P == {n \in Nat : \E f : Part(n, f)}
<1>1. 0 \in P
  <2>1. Part(0, [i \in 0 .. 0 |-> y0])
    OBVIOUS
  <2> QED BY <2>1
<1>2. \A n \in P : n + 1 \in P
  <2> SUFFICES ASSUME NEW n \in P PROVE n + 1 \in P
    OBVIOUS
  <2>1. PICK f : Part(n, f)
    OBVIOUS
  <2>2. DEFINE g == [i \in 0 .. n + 1 |-> IF i = n + 1 THEN G[<<n, f[n]>>] ELSE f[i]]
  <2>3. g \in [0 .. n + 1 -> Y] /\ g[0] = y0
    BY <2>1
  <2>4. \A i \in 0 .. n : g[i] = f[i] /\ g[n + 1] = G[<<n, f[n]>>]
    OBVIOUS
  <2>5. \A i \in 0 .. n : g[i + 1] = G[<<i, g[i]>>]
    <3> SUFFICES ASSUME NEW i \in 0 .. n PROVE g[i + 1] = G[<<i, g[i]>>]
      OBVIOUS
    <3>1. CASE i = n
      BY <3>1, <2>4
    <3>2. CASE i # n
      <4>1. i \in 0 .. n - 1 /\ i + 1 \in 0 .. n
        BY <3>2
      <4> HIDE DEF g
      <4> QED BY <4>1, <2>1, <2>4
    <3> QED BY <3>1, <3>2
  <2>6. Part(n + 1, g)
    <3> HIDE DEF g
    <3> QED BY <2>3, <2>5
  <2>7. \E h : Part(n + 1, h)
    <3> HIDE DEF g, Part
    <3> QED BY <2>6
  <2> QED BY <2>7
<1>3. P = Nat
  <2> HIDE DEF P
  <2> P \in SUBSET Nat
    BY DEF P
  <2> QED BY <1>1, <1>2, Induction
<1>4. \A n \in Nat : \E f : Part(n, f)
  BY <1>3
<1> DEFINE H == [n \in Nat |-> CHOOSE f : Part(n, f)]
<1>5. \A n \in Nat : Part(n, H[n])
  BY <1>4
<1> HIDE DEF H, P
<1>6. \A n \in Nat : \A i \in Nat : i <= n => H[n][i] = H[i][i]
  <2> SUFFICES ASSUME NEW n \in Nat PROVE \A i \in Nat : i <= n => H[n][i] = H[i][i]
    OBVIOUS
  <2> DEFINE Q == {i \in Nat : i <= n => \A m \in i .. n : H[n][i] = H[m][i]}
  <2>1. 0 \in Q
    BY <1>5
  <2>2. \A i \in Q : i + 1 \in Q
    <3> SUFFICES ASSUME NEW i \in Q, i + 1 <= n, NEW m \in i+1 .. n PROVE H[n][i+1] = H[m][i+1]
      OBVIOUS
    <3>1. H[n][i] = H[m][i]
      OBVIOUS
    <3>2. H[n][i+1] = G[<<i, H[n][i]>>]
      BY <1>5
    <3>3. H[m][i+1] = G[<<i, H[m][i]>>]
      BY <1>5
    <3> QED BY <3>1, <3>2, <3>3
  <2>3. Q = Nat
    <3> HIDE DEF Q
    <3> Q \in SUBSET Nat
      BY DEF Q
    <3> QED BY <2>1, <2>2, Induction
  <2> QED BY <2>3
<1> DEFINE f == [n \in Nat |-> H[n][n]]
<1>7. f \in [Nat -> Y]
  BY <1>5
<1>8. f[0] = y0
  BY <1>5
<1>9. \A n \in Nat : f[n+1] = G[<<n, f[n]>>]
  <2> SUFFICES ASSUME NEW n \in Nat PROVE f[n+1] = G[<<n, f[n]>>]
    OBVIOUS
  <2>1. H[n+1][n+1] = G[<<n, H[n+1][n]>>]
    BY <1>5
  <2> QED BY <2>1, <1>6
<1> QED BY <1>7, <1>8, <1>9 DEF Goes

-----------------------------------------------------------------------------
(* Memory *)

(* nil is as Heap_Init left it. *)
NilOK(m) == Link(m, nil, 0) = nil /\ Link(m, nil, 1) = nil /\ Level(m, nil) = 0

Heap(m) == m \in Memory /\ NilOK(m)

(* What the node n holds. *)
Cell(m, n, l, h, v) == Link(m, n, 0) = l /\ Link(m, n, 1) = h /\ Level(m, n) = v

(* Two memories agree on everything but the nodes of D. *)
Same(m, m2, n) ==
  Link(m2, n, 0) = Link(m, n, 0) /\ Link(m2, n, 1) = Link(m, n, 1) /\ Level(m2, n) = Level(m, n)

Apart(m, m2, D) == \A n \in Nodes \ D : Same(m, m2, n)

(* A memory holds nodes of the tree and levels. *)
LEMMA MemoryType ==
  ASSUME NEW m \in Memory, NEW n \in Nodes
  PROVE  /\ Link(m, n, 0) \in Nodes /\ Link(m, n, 1) \in Nodes
         /\ Level(m, n) \in Nat
  BY DEF Memory, Node, Link, Level

(* A store to a link changes that link only. *)
LEMMA SetLinkFacts ==
  ASSUME NEW m \in Memory, NEW n \in Nodes, NEW to \in Nodes
  PROVE  /\ SetLink(m, n, 0, to) \in Memory
         /\ SetLink(m, n, 1, to) \in Memory
         /\ Cell(SetLink(m, n, 0, to), n, to, Link(m, n, 1), Level(m, n))
         /\ Cell(SetLink(m, n, 1, to), n, Link(m, n, 0), to, Level(m, n))
         /\ Apart(m, SetLink(m, n, 0, to), {n})
         /\ Apart(m, SetLink(m, n, 1, to), {n})
<1>1. SetLink(m, n, 0, to) \in Memory /\ SetLink(m, n, 1, to) \in Memory
  BY DEF Memory, Node, SetLink
<1>2. /\ Cell(SetLink(m, n, 0, to), n, to, Link(m, n, 1), Level(m, n))
      /\ Cell(SetLink(m, n, 1, to), n, Link(m, n, 0), to, Level(m, n))
  BY DEF Memory, Node, SetLink, Cell, Link, Level
<1>3. /\ Apart(m, SetLink(m, n, 0, to), {n})
      /\ Apart(m, SetLink(m, n, 1, to), {n})
  BY DEF Memory, Node, SetLink, Apart, Same, Link, Level
<1> QED BY <1>1, <1>2, <1>3

(* A store of what a link holds already changes nothing. *)
LEMMA SetLinkNothing ==
  ASSUME NEW m \in Memory, NEW n \in Nodes
  PROVE  SetLink(m, n, 0, Link(m, n, 0)) = m /\ SetLink(m, n, 1, Link(m, n, 1)) = m
  BY DEF Memory, Node, SetLink, Link

-----------------------------------------------------------------------------
(* Trees *)

(* The levels around an entry are those of an AA tree. *)
NodeOK(m, n) ==
  /\ Level(m, Link(m, n, 0)) = Level(m, n) - 1
  /\ Level(m, Link(m, n, 1)) \in {Level(m, n) - 1, Level(m, n)}
  /\ Level(m, Link(m, Link(m, n, 1), 1)) < Level(m, n)

(* B gives every node the entries of its subtree. *)
Grown(m, B, n) ==
  LET l == Link(m, n, 0)
      h == Link(m, n, 1)
  IN /\ B[n] = B[l] \cup {n} \cup B[h]
     /\ \A x \in B[l] : x < n
     /\ \A x \in B[h] : n < x
     /\ l = nil \/ l \in B[l]
     /\ h = nil \/ h \in B[h]
     /\ \A x \in B[n] : B[x] \subseteq B[n]
     /\ NodeOK(m, n)

(* r is the root of an AA tree with the entries S, in the order of their   *)
(* addresses.                                                              *)
AATree(m, r, S) ==
  /\ r = nil \/ r \in S
  /\ \E B \in [Nodes -> SUBSET Entries] :
       B[nil] = {} /\ B[r] = S /\ \A n \in S : Grown(m, B, n)

Lower(S, n) == {x \in S : x < n}
Upper(S, n) == {x \in S : n < x}

(* nil is no entry. *)
LEMMA EntryType ==
  ASSUME NEW n \in Entries
  PROVE  n \in Nodes /\ n # nil /\ n \in Nat
  BY HeapTreeAssumption DEF Nodes, nil

(* A tree has entries, and none if its root is nil. *)
LEMMA TreeType ==
  ASSUME NEW m, NEW r, NEW S, AATree(m, r, S), r \in Nodes
  PROVE  S \subseteq Entries /\ (r = nil => S = {}) /\ (r # nil => r \in S)
  BY DEF AATree

(* The empty tree. *)
LEMMA EmptyTree ==
  ASSUME NEW m
  PROVE  AATree(m, nil, {})
<1> DEFINE B == [n \in Nodes |-> {}]
<1>1. B \in [Nodes -> SUBSET Entries] /\ B[nil] = {}
  BY DEF Nodes
<1> QED BY <1>1 DEF AATree

(* The root divides the entries of a tree. *)
LEMMA Divided ==
  ASSUME NEW S, S \subseteq Entries, NEW n \in S
  PROVE  S = Lower(S, n) \cup {n} \cup Upper(S, n)
<1>1. \A x \in S : x \in Nat
  BY EntryType
<1>2. \A x \in S : x < n \/ x = n \/ n < x
  BY <1>1
<1> QED BY <1>2 DEF Lower, Upper

(* The children of the root are trees. *)
LEMMA Unfold ==
  ASSUME NEW m \in Memory, NEW r \in Nodes, NEW S, AATree(m, r, S), r # nil
  PROVE  /\ AATree(m, Link(m, r, 0), Lower(S, r))
         /\ AATree(m, Link(m, r, 1), Upper(S, r))
         /\ NodeOK(m, r)
<1>1. PICK B \in [Nodes -> SUBSET Entries] :
        B[nil] = {} /\ B[r] = S /\ \A n \in S : Grown(m, B, n)
  BY DEF AATree
<1> DEFINE l == Link(m, r, 0)
           h == Link(m, r, 1)
<1>2. r \in S /\ S \subseteq Entries /\ l \in Nodes /\ h \in Nodes
  BY TreeType, MemoryType
<1>3. Grown(m, B, r)
  BY <1>1, <1>2
<1>4. /\ S = B[l] \cup {r} \cup B[h]
      /\ \A x \in B[l] : x < r
      /\ \A x \in B[h] : r < x
      /\ l = nil \/ l \in B[l]
      /\ h = nil \/ h \in B[h]
      /\ NodeOK(m, r)
  BY <1>1, <1>3 DEF Grown
<1> HIDE DEF l, h
<1>5. r \in Nat /\ \A x \in S : x \in Nat
  BY <1>2, EntryType
<1>6. B[l] = Lower(S, r) /\ B[h] = Upper(S, r)
  BY <1>4, <1>5 DEF Lower, Upper
<1>7. AATree(m, l, B[l])
  BY <1>1, <1>2, <1>4 DEF AATree
<1>8. AATree(m, h, B[h])
  BY <1>1, <1>2, <1>4 DEF AATree
<1> QED BY <1>4, <1>6, <1>7, <1>8 DEF l, h

(* Two trees and an entry between them make up a tree. *)
LEMMA Fold ==
  ASSUME NEW m \in Memory, NEW r \in Entries, NEW L, NEW H,
         AATree(m, Link(m, r, 0), L), AATree(m, Link(m, r, 1), H),
         \A x \in L : x < r, \A x \in H : r < x,
         NodeOK(m, r)
  PROVE  AATree(m, r, L \cup {r} \cup H)
<1> DEFINE l == Link(m, r, 0)
           h == Link(m, r, 1)
<1>1. l \in Nodes /\ h \in Nodes /\ r \in Nodes /\ r # nil /\ r \in Nat
  BY MemoryType, EntryType
<1>2. PICK BL \in [Nodes -> SUBSET Entries] :
        BL[nil] = {} /\ BL[l] = L /\ \A n \in L : Grown(m, BL, n)
  BY DEF AATree
<1>3. PICK BH \in [Nodes -> SUBSET Entries] :
        BH[nil] = {} /\ BH[h] = H /\ \A n \in H : Grown(m, BH, n)
  BY DEF AATree
<1>4. L \subseteq Entries /\ H \subseteq Entries
  BY <1>1, <1>2, <1>3
<1>5. (l = nil \/ l \in L) /\ (h = nil \/ h \in H)
  BY DEF AATree
<1>6. \A x \in L : x \in Nat /\ x # nil /\ x \notin H /\ x # r
  BY <1>1, <1>4, EntryType
<1>7. \A x \in H : x \in Nat /\ x # nil /\ x \notin L /\ x # r
  BY <1>1, <1>4, EntryType
<1> DEFINE B == [n \in Nodes |-> IF n = r THEN L \cup {r} \cup H
                                 ELSE IF n \in L THEN BL[n]
                                 ELSE IF n \in H THEN BH[n] ELSE {}]
<1>8. B \in [Nodes -> SUBSET Entries]
  BY <1>2, <1>3, <1>4
<1>9. B[nil] = {} /\ B[r] = L \cup {r} \cup H
  BY <1>1, <1>6, <1>7 DEF Nodes
<1>10. \A n \in L : B[n] = BL[n]
  BY <1>4, <1>6 DEF Nodes
<1>11. \A n \in H : B[n] = BH[n]
  BY <1>4, <1>7 DEF Nodes
<1>12. B[l] = L /\ B[h] = H
  BY <1>2, <1>3, <1>5, <1>9, <1>10, <1>11
<1> HIDE DEF B
<1>13. \A n \in L : Grown(m, B, n)
  <2> SUFFICES ASSUME NEW n \in L PROVE Grown(m, B, n)
    OBVIOUS
  <2> DEFINE a == Link(m, n, 0)
             b == Link(m, n, 1)
  <2>1. Grown(m, BL, n)
    BY <1>2
  <2>2. BL[n] = BL[a] \cup {n} \cup BL[b] /\ (a = nil \/ a \in BL[a]) /\ (b = nil \/ b \in BL[b])
    BY <2>1 DEF Grown
  <2>3. l # nil /\ l \in L /\ BL[n] \subseteq L
    <3>1. l \in L
      BY <1>2, <1>5
    <3> QED BY <3>1, <1>2, <1>6 DEF Grown
  <2> HIDE DEF a, b
  <2>4. B[a] = BL[a] /\ B[b] = BL[b]
    BY <2>2, <2>3, <1>2, <1>9, <1>10
  <2>5. \A x \in BL[n] : B[x] = BL[x]
    BY <2>3, <1>10
  <2> QED BY <2>1, <2>2, <2>4, <2>5, <1>10 DEF Grown, a, b
<1>14. \A n \in H : Grown(m, B, n)
  <2> SUFFICES ASSUME NEW n \in H PROVE Grown(m, B, n)
    OBVIOUS
  <2> DEFINE a == Link(m, n, 0)
             b == Link(m, n, 1)
  <2>1. Grown(m, BH, n)
    BY <1>3
  <2>2. BH[n] = BH[a] \cup {n} \cup BH[b] /\ (a = nil \/ a \in BH[a]) /\ (b = nil \/ b \in BH[b])
    BY <2>1 DEF Grown
  <2>3. h # nil /\ h \in H /\ BH[n] \subseteq H
    <3>1. h \in H
      BY <1>3, <1>5
    <3> QED BY <3>1, <1>3, <1>7 DEF Grown
  <2> HIDE DEF a, b
  <2>4. B[a] = BH[a] /\ B[b] = BH[b]
    BY <2>2, <2>3, <1>3, <1>9, <1>11
  <2>5. \A x \in BH[n] : B[x] = BH[x]
    BY <2>3, <1>11
  <2> QED BY <2>1, <2>2, <2>4, <2>5, <1>11 DEF Grown, a, b
<1>15. \A x \in L \cup {r} \cup H : B[x] \subseteq L \cup {r} \cup H
  <2>1. \A n \in L : BL[n] \subseteq L
    BY <1>2, <1>5 DEF Grown
  <2>2. \A n \in H : BH[n] \subseteq H
    BY <1>3, <1>5 DEF Grown
  <2> QED BY <2>1, <2>2, <1>9, <1>10, <1>11
<1>16. Grown(m, B, r)
  BY <1>5, <1>9, <1>12, <1>15 DEF Grown
<1> QED BY <1>8, <1>9, <1>13, <1>14, <1>16 DEF AATree

(* A tree stays one when the memory of other nodes is written. *)
LEMMA Frame ==
  ASSUME NEW m \in Memory, NEW m2 \in Memory, NilOK(m), NilOK(m2),
         NEW D, Apart(m, m2, D),
         NEW r \in Nodes, NEW S, AATree(m, r, S), S \cap D = {}
  PROVE  AATree(m2, r, S)
<1>1. PICK B \in [Nodes -> SUBSET Entries] :
        B[nil] = {} /\ B[r] = S /\ \A n \in S : Grown(m, B, n)
  BY DEF AATree
<1>2. S \subseteq Entries /\ (r = nil => S = {}) /\ (r # nil => r \in S)
  BY TreeType
<1>3. \A n \in S \cup {nil} : Same(m, m2, n)
  BY <1>2, EntryType DEF Apart, Same, NilOK, Nodes
<1>4. \A n \in S : Grown(m2, B, n)
  <2> SUFFICES ASSUME NEW n \in S PROVE Grown(m2, B, n)
    OBVIOUS
  <2> DEFINE a == Link(m, n, 0)
             b == Link(m, n, 1)
  <2>1. Grown(m, B, n)
    BY <1>1
  <2>2. B[n] = B[a] \cup {n} \cup B[b] /\ (a = nil \/ a \in B[a]) /\ (b = nil \/ b \in B[b])
    BY <2>1 DEF Grown
  <2>3. \A x \in S : B[x] \subseteq S
    BY <1>1, <1>2 DEF Grown
  <2>4. Link(m2, n, 0) = a /\ Link(m2, n, 1) = b /\ Level(m2, n) = Level(m, n)
    BY <1>3 DEF Same
  <2>5. a \in S \cup {nil} /\ b \in S \cup {nil}
    BY <2>2, <2>3
  <2>6. Level(m2, a) = Level(m, a) /\ Level(m2, b) = Level(m, b) /\ Link(m2, b, 1) = Link(m, b, 1)
    BY <2>5, <1>3 DEF Same
  <2>7. Link(m, b, 1) \in S \cup {nil}
    <3>1. CASE b = nil
      BY <3>1 DEF NilOK
    <3>2. CASE b # nil
      <4>1. b \in S /\ Grown(m, B, b)
        BY <3>2, <2>5, <1>1
      <4>2. Link(m, b, 1) = nil \/ Link(m, b, 1) \in B[b]
        BY <4>1 DEF Grown
      <4> QED BY <4>1, <4>2, <2>3
    <3> QED BY <3>1, <3>2
  <2>8. Level(m2, Link(m, b, 1)) = Level(m, Link(m, b, 1))
    BY <2>7, <1>3 DEF Same
  <2>9. NodeOK(m, n)
    BY <2>1 DEF Grown
  <2>10. NodeOK(m2, n)
    BY <2>4, <2>6, <2>8, <2>9 DEF NodeOK
  <2> QED BY <2>1, <2>4, <2>10 DEF Grown
<1> QED BY <1>1, <1>2, <1>4 DEF AATree

-----------------------------------------------------------------------------
(* Rotations *)

(* A cell holds nodes and a level. *)
LEMMA CellType ==
  ASSUME NEW m \in Memory, NEW n \in Nodes, NEW l, NEW h, NEW v, Cell(m, n, l, h, v)
  PROVE  l \in Nodes /\ h \in Nodes /\ v \in Nat
  BY MemoryType DEF Cell

(* Agreement is kept along two steps. *)
LEMMA ApartTwice ==
  ASSUME NEW m1, NEW m2, NEW m3, NEW D, NEW E, Apart(m1, m2, D), Apart(m2, m3, E)
  PROVE  Apart(m1, m3, D \cup E)
  BY DEF Apart, Same

(* Cells outside of what is written are kept. *)
LEMMA CellKept ==
  ASSUME NEW m, NEW m2, NEW D, Apart(m, m2, D),
         NEW n \in Nodes, n \notin D, NEW l, NEW h, NEW v, Cell(m, n, l, h, v)
  PROVE  Cell(m2, n, l, h, v)
  BY DEF Apart, Same, Cell

(* nil is kept by a memory that agrees with it outside of some entries. *)
LEMMA NilKept ==
  ASSUME NEW m, NEW m2, NEW D, Apart(m, m2, D), nil \notin D, NilOK(m)
  PROVE  NilOK(m2)
  BY DEF Apart, Same, NilOK, Nodes

(* A skew turns a left child of the same level into the root. *)
LEMMA SkewYes ==
  ASSUME NEW m, Heap(m), NEW n \in Entries, NEW l \in Entries, n # l,
         NEW h, NEW v, v # 0, NEW a, NEW b, Cell(m, n, l, h, v), Cell(m, l, a, b, v)
  PROVE  /\ TreeSkew(m, n).root = l
         /\ Heap(TreeSkew(m, n).mem)
         /\ Cell(TreeSkew(m, n).mem, l, a, n, v)
         /\ Cell(TreeSkew(m, n).mem, n, b, h, v)
         /\ Apart(m, TreeSkew(m, n).mem, {n, l})
<1> DEFINE m1 == SetLink(m, n, 0, b)
           m2 == SetLink(m1, l, 1, n)
<1>1. m \in Memory /\ NilOK(m) /\ n \in Nodes /\ l \in Nodes /\ n # nil /\ l # nil
  BY EntryType DEF Heap
<1>2. b \in Nodes
  BY <1>1, CellType
<1>3. TreeSkew(m, n) = Tree(m2, l)
  BY DEF TreeSkew, Cell
<1>4. m1 \in Memory /\ Cell(m1, n, b, h, v) /\ Apart(m, m1, {n})
  BY <1>1, <1>2, SetLinkFacts DEF Cell
<1>5. Cell(m1, l, a, b, v)
  BY <1>1, <1>4, CellKept
<1> HIDE DEF m1
<1>6. m2 \in Memory /\ Cell(m2, l, a, n, v) /\ Apart(m1, m2, {l})
  BY <1>1, <1>4, <1>5, SetLinkFacts DEF Cell
<1> HIDE DEF m2
<1>7. Cell(m2, n, b, h, v)
  BY <1>1, <1>4, <1>6, CellKept
<1>8. Apart(m, m2, {n, l})
  <2>1. {n} \cup {l} = {n, l}
    OBVIOUS
  <2> QED BY <2>1, <1>4, <1>6, ApartTwice
<1>9. NilOK(m2)
  BY <1>1, <1>8, NilKept
<1> QED BY <1>3, <1>6, <1>7, <1>8, <1>9 DEF Tree, Heap

(* A split turns a right child that has a right child of the same level    *)
(* into a root of the next level.                                          *)
LEMMA SplitYes ==
  ASSUME NEW m, Heap(m), NEW n \in Entries, NEW h \in Entries, n # h,
         NEW l, NEW v, v # 0, NEW a, NEW b,
         Cell(m, n, l, h, v), Link(m, h, 0) = a, Link(m, h, 1) = b, Level(m, b) = v
  PROVE  /\ TreeSplit(m, n).root = h
         /\ Heap(TreeSplit(m, n).mem)
         /\ Link(TreeSplit(m, n).mem, h, 0) = n
         /\ Link(TreeSplit(m, n).mem, h, 1) = b
         /\ Level(TreeSplit(m, n).mem, h) = Level(m, h) + 1
         /\ Cell(TreeSplit(m, n).mem, n, l, a, v)
         /\ Apart(m, TreeSplit(m, n).mem, {n, h})
<1> DEFINE m1 == SetLink(m, n, 1, a)
           m2 == SetLink(m1, h, 0, n)
           m3 == [m2 EXCEPT ![h].level = @ + 1]
           w == Level(m, h)
<1>1. m \in Memory /\ NilOK(m) /\ n \in Nodes /\ h \in Nodes /\ n # nil /\ h # nil
  BY EntryType DEF Heap
<1>2. a \in Nodes /\ w \in Nat
  BY <1>1, MemoryType
<1>3. TreeSplit(m, n) = Tree(m3, h)
  BY DEF TreeSplit, Cell
<1>4. m1 \in Memory /\ Cell(m1, n, l, a, v) /\ Apart(m, m1, {n})
  BY <1>1, <1>2, SetLinkFacts DEF Cell
<1>5. Cell(m1, h, a, b, w)
  <2>1. Cell(m, h, a, b, w)
    BY DEF Cell
  <2> QED BY <1>1, <1>4, <2>1, CellKept
<1> HIDE DEF m1
<1>6. m2 \in Memory /\ Cell(m2, h, n, b, w) /\ Apart(m1, m2, {h})
  BY <1>1, <1>4, <1>5, SetLinkFacts DEF Cell
<1>7. Cell(m2, n, l, a, v)
  BY <1>1, <1>4, <1>6, CellKept
<1> HIDE DEF m2
<1>8. m3 \in Memory
  BY <1>1, <1>2, <1>6 DEF Memory, Node, Cell, Level
<1>9. Cell(m3, h, n, b, w + 1) /\ Apart(m2, m3, {h})
  BY <1>1, <1>2, <1>6 DEF Memory, Node, Cell, Level, Link, Apart, Same
<1> HIDE DEF m3
<1>10. Cell(m3, n, l, a, v)
  BY <1>1, <1>7, <1>9, CellKept
<1>11. Apart(m, m3, {n, h})
  <2>1. Apart(m, m2, {n} \cup {h})
    BY <1>4, <1>6, ApartTwice
  <2>2. Apart(m, m3, ({n} \cup {h}) \cup {h})
    BY <2>1, <1>9, ApartTwice
  <2>3. ({n} \cup {h}) \cup {h} = {n, h}
    OBVIOUS
  <2> QED BY <2>2, <2>3
<1>12. NilOK(m3)
  BY <1>1, <1>11, NilKept
<1> QED BY <1>3, <1>8, <1>9, <1>10, <1>11, <1>12 DEF Tree, Heap, Cell

(* No rotation without a reason. *)
LEMMA SkewNo ==
  ASSUME NEW m, NEW n, Level(m, Link(m, n, 0)) # Level(m, n) \/ Level(m, n) = 0
  PROVE  TreeSkew(m, n).root = n /\ TreeSkew(m, n).mem = m
  BY DEF TreeSkew, Tree

LEMMA SplitNo ==
  ASSUME NEW m, NEW n, Level(m, Link(m, Link(m, n, 1), 1)) # Level(m, n) \/ Level(m, n) = 0
  PROVE  TreeSplit(m, n).root = n /\ TreeSplit(m, n).mem = m
  BY DEF TreeSplit, Tree

(* The same of a right child. *)
LEMMA SkewChildNo ==
  ASSUME NEW m \in Memory, NEW n \in Nodes, NEW c, c = Link(m, n, 1),
         Level(m, Link(m, c, 0)) # Level(m, c) \/ Level(m, c) = 0
  PROVE  SkewChild(m, n) = m
  BY SkewNo, SetLinkNothing DEF SkewChild, Attach

LEMMA SplitChildNo ==
  ASSUME NEW m \in Memory, NEW n \in Nodes, NEW c, c = Link(m, n, 1),
         Level(m, Link(m, Link(m, c, 1), 1)) # Level(m, c) \/ Level(m, c) = 0
  PROVE  SplitChild(m, n) = m
  BY SplitNo, SetLinkNothing DEF SplitChild, Attach

LEMMA AttachFacts ==
  ASSUME NEW t, Heap(t.mem), t.root \in Nodes, NEW n \in Entries, NEW x, NEW c, NEW w,
         Cell(t.mem, n, x, c, w)
  PROVE  /\ Heap(Attach(t, n, 0)) /\ Heap(Attach(t, n, 1))
         /\ Cell(Attach(t, n, 0), n, t.root, c, w)
         /\ Cell(Attach(t, n, 1), n, x, t.root, w)
         /\ Apart(t.mem, Attach(t, n, 0), {n})
         /\ Apart(t.mem, Attach(t, n, 1), {n})
<1> DEFINE a == Attach(t, n, 0)
           b == Attach(t, n, 1)
<1>1. n \in Nodes /\ n # nil /\ t.mem \in Memory /\ NilOK(t.mem)
  BY EntryType DEF Heap
<1>2. /\ a \in Memory /\ Cell(a, n, t.root, c, w) /\ Apart(t.mem, a, {n})
      /\ b \in Memory /\ Cell(b, n, x, t.root, w) /\ Apart(t.mem, b, {n})
  BY <1>1, SetLinkFacts DEF Attach, Cell
<1> HIDE DEF a, b
<1>3. NilOK(a) /\ NilOK(b)
  BY <1>1, <1>2, NilKept
<1> QED BY <1>2, <1>3 DEF a, b, Heap

LEMMA SkewChildYes ==
  ASSUME NEW m, Heap(m), NEW n \in Entries, NEW c \in Entries, NEW l \in Entries,
         n # c, n # l, c # l,
         NEW x, NEW w, NEW h, NEW v, v # 0, NEW a, NEW b,
         Cell(m, n, x, c, w), Cell(m, c, l, h, v), Cell(m, l, a, b, v)
  PROVE  /\ Heap(SkewChild(m, n))
         /\ Cell(SkewChild(m, n), n, x, l, w)
         /\ Cell(SkewChild(m, n), l, a, c, v)
         /\ Cell(SkewChild(m, n), c, b, h, v)
         /\ Apart(m, SkewChild(m, n), {n, c, l})
<1> DEFINE t == TreeSkew(m, c)
           m2 == Attach(t, n, 1)
<1>1. SkewChild(m, n) = m2
  BY DEF SkewChild, Cell
<1>2. n \in Nodes /\ c \in Nodes /\ l \in Nodes
  BY EntryType
<1>3. /\ t.root = l
      /\ Heap(t.mem)
      /\ Cell(t.mem, l, a, c, v)
      /\ Cell(t.mem, c, b, h, v)
      /\ Apart(m, t.mem, {c, l})
  BY SkewYes
<1>4. Cell(t.mem, n, x, c, w)
  BY <1>2, <1>3, CellKept
<1> HIDE DEF t
<1>5. Heap(m2) /\ Cell(m2, n, x, l, w) /\ Apart(t.mem, m2, {n})
  BY <1>2, <1>3, <1>4, AttachFacts
<1> HIDE DEF m2
<1>6. Cell(m2, l, a, c, v) /\ Cell(m2, c, b, h, v)
  BY <1>2, <1>3, <1>5, CellKept
<1>7. Apart(m, m2, {n, c, l})
  <2>1. {c, l} \cup {n} = {n, c, l}
    OBVIOUS
  <2> QED BY <2>1, <1>3, <1>5, ApartTwice
<1> QED BY <1>1, <1>5, <1>6, <1>7

LEMMA SplitChildYes ==
  ASSUME NEW m, Heap(m), NEW n \in Entries, NEW c \in Entries, NEW h \in Entries,
         n # c, n # h, c # h,
         NEW x, NEW w, NEW l, NEW v, v # 0, NEW a, NEW b,
         Cell(m, n, x, c, w), Cell(m, c, l, h, v),
         Link(m, h, 0) = a, Link(m, h, 1) = b, Level(m, b) = v
  PROVE  /\ Heap(SplitChild(m, n))
         /\ Cell(SplitChild(m, n), n, x, h, w)
         /\ Link(SplitChild(m, n), h, 0) = c
         /\ Link(SplitChild(m, n), h, 1) = b
         /\ Level(SplitChild(m, n), h) = Level(m, h) + 1
         /\ Cell(SplitChild(m, n), c, l, a, v)
         /\ Apart(m, SplitChild(m, n), {n, c, h})
<1> DEFINE t == TreeSplit(m, c)
           m2 == Attach(t, n, 1)
           up == Level(m, h) + 1
<1>1. SplitChild(m, n) = m2
  BY DEF SplitChild, Cell
<1>2. n \in Nodes /\ c \in Nodes /\ h \in Nodes
  BY EntryType
<1>3. /\ t.root = h
      /\ Heap(t.mem)
      /\ Cell(t.mem, c, l, a, v)
      /\ Apart(m, t.mem, {c, h})
      /\ Cell(t.mem, h, c, b, up)
  BY SplitYes DEF Cell
<1>4. Cell(t.mem, n, x, c, w)
  BY <1>2, <1>3, CellKept
<1> HIDE DEF t
<1>5. Heap(m2) /\ Cell(m2, n, x, h, w) /\ Apart(t.mem, m2, {n})
  BY <1>2, <1>3, <1>4, AttachFacts
<1> HIDE DEF m2
<1> HIDE DEF up
<1>6. Cell(m2, h, c, b, up) /\ Cell(m2, c, l, a, v)
  BY <1>2, <1>3, <1>5, CellKept
<1>7. Apart(m, m2, {n, c, h})
  <2>1. {c, h} \cup {n} = {n, c, h}
    OBVIOUS
  <2> QED BY <2>1, <1>3, <1>5, ApartTwice
<1> QED BY <1>1, <1>5, <1>6, <1>7 DEF Cell, up

-----------------------------------------------------------------------------
(* Pieces: the trees around a rotation *)

(* A tree with the level of its root and that of the right child of it.    *)
Piece(m, r, S, v, w) ==
  /\ r \in Nodes
  /\ AATree(m, r, S)
  /\ Level(m, r) = v
  /\ Level(m, Link(m, r, 1)) = w

LEMMA PieceType ==
  ASSUME NEW m, Heap(m), NEW r, NEW S, NEW v, NEW w, Piece(m, r, S, v, w)
  PROVE  /\ r \in Nodes /\ v \in Nat /\ w \in Nat
         /\ S \subseteq Entries
         /\ w <= v
         /\ r = nil => S = {} /\ v = 0
         /\ r # nil => r \in S /\ r \in Entries /\ v # 0 /\ w >= v - 1
<1>1. m \in Memory /\ r \in Nodes /\ v \in Nat /\ w \in Nat
  BY MemoryType DEF Heap, Piece
<1>2. S \subseteq Entries /\ (r = nil => S = {}) /\ (r # nil => r \in S)
  BY TreeType DEF Piece
<1>3. r = nil => v = 0 /\ w = 0
  BY DEF Heap, NilOK, Piece
<1>4. ASSUME r # nil
      PROVE  v # 0 /\ w <= v /\ w >= v - 1
  <2>1. NodeOK(m, r)
    BY <1>1, <1>4, Unfold DEF Piece
  <2>2. Level(m, Link(m, r, 0)) \in Nat
    BY <1>1, MemoryType
  <2> QED BY <1>1, <2>1, <2>2 DEF NodeOK, Piece
<1> QED BY <1>1, <1>2, <1>3, <1>4

LEMMA EmptyPiece ==
  ASSUME NEW m, Heap(m)
  PROVE  Piece(m, nil, {}, 0, 0)
  BY EmptyTree DEF Heap, NilOK, Piece, Nodes

LEMMA PieceFrame ==
  ASSUME NEW m, Heap(m), NEW m2, Heap(m2), NEW D, Apart(m, m2, D),
         NEW r, NEW S, NEW v, NEW w, Piece(m, r, S, v, w), S \cap D = {}
  PROVE  Piece(m2, r, S, v, w)
<1>1. m \in Memory /\ m2 \in Memory /\ NilOK(m) /\ NilOK(m2) /\ r \in Nodes
  BY DEF Heap, Piece
<1>2. S \subseteq Entries /\ (r # nil => r \in S)
  BY PieceType
<1>3. AATree(m2, r, S)
  BY <1>1, Frame DEF Piece
<1>4. CASE r = nil
  BY <1>1, <1>3, <1>4 DEF Piece, NilOK
<1>5. CASE r # nil
  <2> DEFINE h == Link(m, r, 1)
  <2>1. h = nil \/ h \in S
    <3>1. AATree(m, h, Upper(S, r)) /\ h \in Nodes
      BY <1>1, <1>5, Unfold, MemoryType DEF Piece
    <3> QED BY <3>1, TreeType DEF Upper
  <2>2. Same(m, m2, r)
    BY <1>1, <1>2, <1>5 DEF Apart
  <2>3. Level(m2, h) = Level(m, h)
    BY <2>1, <1>1, <1>2, MemoryType DEF Apart, Same, NilOK
  <2> QED BY <1>1, <1>3, <2>2, <2>3 DEF Piece, Same
<1> QED BY <1>4, <1>5

(* The children of a piece.                                                *)
LEMMA PieceUnfold ==
  ASSUME NEW m, Heap(m), NEW r, NEW S, NEW v, NEW w, Piece(m, r, S, v, w), r # nil
  PROVE  \E a, b, p, q :
           /\ Cell(m, r, a, b, v)
           /\ Piece(m, a, Lower(S, r), v - 1, p)
           /\ Piece(m, b, Upper(S, r), w, q)
           /\ w = v - 1 \/ w = v
           /\ q < v
<1> DEFINE a == Link(m, r, 0)
           b == Link(m, r, 1)
           p == Level(m, Link(m, a, 1))
           q == Level(m, Link(m, b, 1))
<1>1. m \in Memory /\ r \in Nodes /\ AATree(m, r, S)
  BY DEF Heap, Piece
<1>2. a \in Nodes /\ b \in Nodes
  BY <1>1, MemoryType
<1>3. AATree(m, a, Lower(S, r)) /\ AATree(m, b, Upper(S, r)) /\ NodeOK(m, r)
  BY <1>1, Unfold
<1>4. Level(m, r) = v /\ Level(m, b) = w
  BY DEF Piece
<1>5. Level(m, a) = v - 1 /\ (w = v - 1 \/ w = v) /\ q < v
  BY <1>3, <1>4 DEF NodeOK
<1>6. Cell(m, r, a, b, v) /\ Piece(m, a, Lower(S, r), v - 1, p) /\ Piece(m, b, Upper(S, r), w, q)
  BY <1>2, <1>3, <1>4, <1>5 DEF Cell, Piece
<1> QED BY <1>5, <1>6

LEMMA PieceFold ==
  ASSUME NEW m, Heap(m), NEW r \in Entries, NEW L, NEW H, NEW v, NEW w,
         NEW l, NEW h, NEW k, NEW p, NEW q,
         Cell(m, r, l, h, v),
         Piece(m, l, L, k, p), Piece(m, h, H, w, q),
         v = k + 1, w = k \/ w = v, q < v,
         \A x \in L : x < r, \A x \in H : r < x
  PROVE  Piece(m, r, L \cup {r} \cup H, v, w)
<1>1. m \in Memory /\ r \in Nodes
  BY EntryType DEF Heap
<1>2. Link(m, r, 0) = l /\ Link(m, r, 1) = h /\ Level(m, r) = v
  BY DEF Cell
<1>3. NodeOK(m, r)
  <2>1. k \in Nat
    BY PieceType
  <2>2. k = v - 1
    BY <2>1
  <2> QED BY <1>2, <2>2 DEF Piece, NodeOK
<1>4. AATree(m, Link(m, r, 0), L) /\ AATree(m, Link(m, r, 1), H)
  BY <1>2 DEF Piece
<1>5. AATree(m, r, L \cup {r} \cup H)
  BY <1>1, <1>3, <1>4, Fold
<1> QED BY <1>1, <1>2, <1>5 DEF Piece

-----------------------------------------------------------------------------
(* Rebalancing *)

(* A tree needs no rotation at its root. *)
LEMMA PieceRests ==
  ASSUME NEW m, Heap(m), NEW r, NEW S, NEW v, NEW w, Piece(m, r, S, v, w)
  PROVE  /\ Level(m, Link(m, r, 0)) # Level(m, r) \/ Level(m, r) = 0
         /\ Level(m, Link(m, Link(m, r, 1), 1)) # Level(m, r) \/ Level(m, r) = 0
<1>1. Level(m, r) = v /\ v \in Nat
  BY PieceType DEF Piece
<1>2. r = nil => v = 0
  BY PieceType
<1>3. ASSUME r # nil
      PROVE  Level(m, Link(m, r, 0)) # v /\ Level(m, Link(m, Link(m, r, 1), 1)) # v
  <2>1. PICK a, b, p, q :
          /\ Cell(m, r, a, b, v)
          /\ Piece(m, a, Lower(S, r), v - 1, p)
          /\ Piece(m, b, Upper(S, r), w, q)
          /\ q < v
    BY <1>3, PieceUnfold
  <2>2. Level(m, a) = v - 1 /\ Level(m, Link(m, b, 1)) = q
    BY <2>1 DEF Piece
  <2> QED BY <1>1, <2>1, <2>2 DEF Cell
<1> QED BY <1>1, <1>2, <1>3

(* t is the tree of S that m has become. *)
Outcome(m, t, S, v, w) == Heap(t.mem) /\ Apart(m, t.mem, S) /\ Piece(t.mem, t.root, S, v, w)

LEMMA OutcomeOf ==
  ASSUME NEW m, NEW m2, NEW r, NEW S, NEW v, NEW w, Heap(m2), Apart(m, m2, S), Piece(m2, r, S, v, w)
  PROVE  Outcome(m, Tree(m2, r), S, v, w)
  BY DEF Outcome, Tree

(* All of A is below n, all of B above it. *)
Between(A, n, B) == (\A x \in A : x < n) /\ (\A x \in B : n < x)

(* The lower and the upper part of a tree. *)
LEMMA Parts ==
  ASSUME NEW S, S \subseteq Entries, NEW n \in S
  PROVE  /\ Lower(S, n) \subseteq S /\ Upper(S, n) \subseteq S
         /\ Between(Lower(S, n), n, Upper(S, n))
         /\ S = Lower(S, n) \cup {n} \cup Upper(S, n)
         /\ n \notin Lower(S, n) /\ n \notin Upper(S, n)
<1>1. n \in Nat
  BY EntryType
<1>2. S = Lower(S, n) \cup {n} \cup Upper(S, n)
  BY Divided
<1> QED BY <1>1, <1>2 DEF Lower, Upper, Between

(* The left side has become too low and the right child is on the level    *)
(* that the root goes down to.                                             *)
LEMMA LeftLow ==
  ASSUME NEW m, Heap(m), NEW r \in Entries, NEW a, NEW c, NEW u \in Nat, u # 0,
         Cell(m, r, a, c, u),
         NEW A, NEW p, Piece(m, a, A, u - 1, p),
         NEW C, NEW q, Piece(m, c, C, u, q),
         Between(A, r, C)
  PROVE  \/ Outcome(m, Rotations(m, r), A \cup {r} \cup C, u, u)
         \/ Outcome(m, Rotations(m, r), A \cup {r} \cup C, u + 1, u)
<1>1. m \in Memory /\ r \in Nodes
  BY EntryType DEF Heap
<1>2. A \subseteq Entries /\ C \subseteq Entries /\ c \in C /\ c \in Entries /\ c # nil
  BY PieceType
<1>3. PICK e, f, pe, qf :
        /\ Cell(m, c, e, f, u)
        /\ Piece(m, e, Lower(C, c), u - 1, pe)
        /\ Piece(m, f, Upper(C, c), q, qf)
        /\ q = u - 1 \/ q = u
        /\ qf < u
  BY <1>2, PieceUnfold
<1> DEFINE E == Lower(C, c)
           F == Upper(C, c)
<1>4. /\ E \subseteq C /\ F \subseteq C
      /\ Between(E, c, F)
      /\ C = E \cup {c} \cup F /\ c \notin E /\ c \notin F
  BY <1>2, Parts
<1>5. Piece(m, e, E, u - 1, pe) /\ Piece(m, f, F, q, qf)
  BY <1>3
<1> HIDE DEF E, F
<1>6. r # c /\ r < c /\ A \cap {r, c} = {} /\ E \cap {r, c} = {} /\ F \cap {r, c} = {}
  BY <1>2, <1>4, EntryType DEF Between
<1>7. /\ Level(m, r) = u /\ Link(m, r, 0) = a /\ Link(m, r, 1) = c
      /\ Level(m, c) = u /\ Link(m, c, 0) = e /\ Link(m, c, 1) = f
      /\ Level(m, a) = u - 1 /\ Level(m, e) = u - 1
      /\ Level(m, f) = q /\ Level(m, Link(m, f, 1)) = qf
  BY <1>3, <1>5 DEF Cell, Piece
<1>8. TreeSkew(m, r).root = r /\ TreeSkew(m, r).mem = m
  BY <1>7, SkewNo
<1>9. SkewChild(m, r) = m
  BY <1>1, <1>7, SkewChildNo
<1>10. SkewChild(m, c) = m
  BY <1>1, <1>2, <1>5, <1>7, EntryType, PieceRests, SkewChildNo
<1>11. CASE q = u - 1
  <2>1. TreeSplit(m, r).root = r /\ TreeSplit(m, r).mem = m
    BY <1>7, <1>11, SplitNo
  <2>2. SplitChild(m, r) = m
    BY <1>1, <1>3, <1>7, SplitChildNo
  <2>3. Rotations(m, r) = Tree(m, r)
    BY <1>7, <1>8, <1>9, <1>10, <2>1, <2>2 DEF Rotations
  <2>4. Piece(m, r, A \cup {r} \cup C, u, u)
    <3>1. (\A x \in A : x < r) /\ (\A x \in C : r < x)
      BY DEF Between
    <3>2. u = (u - 1) + 1 /\ q < u
      BY <1>11
    <3> QED BY <3>1, <3>2, PieceFold
  <2> QED BY <2>3, <2>4 DEF Outcome, Tree, Apart, Same
<1>12. CASE q = u
  <2> DEFINE m3 == TreeSplit(m, r).mem
  <2>1. /\ TreeSplit(m, r).root = c
        /\ Heap(m3)
        /\ Cell(m3, c, r, f, u + 1)
        /\ Cell(m3, r, a, e, u)
        /\ Apart(m, m3, {r, c})
    <3>1. Cell(m, c, e, f, u) /\ Level(m, f) = u
      BY <1>3, <1>7, <1>12
    <3> QED BY <1>2, <1>6, <1>7, <3>1, SplitYes DEF Cell
  <2> HIDE DEF m3
  <2>2. Piece(m3, a, A, u - 1, p) /\ Piece(m3, e, E, u - 1, pe) /\ Piece(m3, f, F, u, qf)
    BY <1>5, <1>6, <1>12, <2>1, PieceFrame
  <2>3. SplitChild(m3, c) = m3
    <3>1. m3 \in Memory /\ c \in Nodes /\ Link(m3, c, 1) = f
      BY <1>2, <2>1, EntryType DEF Heap, Cell
    <3> QED BY <2>1, <2>2, <3>1, PieceRests, SplitChildNo
  <2>4. Rotations(m, r) = Tree(m3, c)
    BY <1>7, <1>8, <1>9, <1>10, <2>1, <2>3 DEF Rotations, m3
  <2>5. Piece(m3, r, A \cup {r} \cup E, u, u - 1)
    <3>1. (\A x \in A : x < r) /\ (\A x \in E : r < x)
      BY <1>4 DEF Between
    <3>2. pe < u
      BY <1>5, PieceType
    <3>3. u = (u - 1) + 1
      OBVIOUS
    <3> QED BY <2>1, <2>2, <3>1, <3>2, <3>3, PieceFold
  <2>6. Piece(m3, c, (A \cup {r} \cup E) \cup {c} \cup F, u + 1, u)
    <3>1. (\A x \in A \cup {r} \cup E : x < c) /\ (\A x \in F : c < x)
      BY <1>2, <1>4, <1>6, EntryType DEF Between
    <3>2. qf < u + 1
      BY <1>3, <2>1, <2>2, PieceType
    <3> QED BY <1>2, <2>1, <2>2, <2>5, <3>1, <3>2, PieceFold
  <2>7. (A \cup {r} \cup E) \cup {c} \cup F = A \cup {r} \cup C
    BY <1>4
  <2>8. Apart(m, m3, A \cup {r} \cup C)
    BY <1>2, <2>1 DEF Apart
  <2> QED BY <2>1, <2>4, <2>6, <2>7, <2>8 DEF Outcome, Tree
<1> QED BY <1>3, <1>11, <1>12

(* What is written may be said with more nodes. *)
LEMMA ApartMore ==
  ASSUME NEW m, NEW m2, NEW D, NEW E, Apart(m, m2, D), D \subseteq E
  PROVE  Apart(m, m2, E)
  BY DEF Apart

(* The left side has become too low and the right child, on the level of   *)
(* the root, has gone down with it: its own left child is on that level    *)
(* too, and comes up.                                                      *)
LEMMA LeftLowRed ==
  ASSUME NEW m, Heap(m), NEW r \in Entries, NEW c \in Entries, NEW u \in Nat, u # 0,
         NEW a, NEW e, NEW f, Cell(m, r, a, c, u), Cell(m, c, e, f, u),
         NEW A, NEW p, Piece(m, a, A, u - 1, p),
         NEW E, NEW pe, Piece(m, e, E, u, pe),
         NEW F, NEW pf, Piece(m, f, F, u, pf),
         Between(A, r, E), Between(E, c, F), r < c
  PROVE  \E w : Outcome(m, Rotations(m, r), A \cup {r} \cup E \cup {c} \cup F, u + 1, w)
<1> DEFINE S == A \cup {r} \cup E \cup {c} \cup F
<1>1. m \in Memory /\ r \in Nodes /\ c \in Nodes
  BY EntryType DEF Heap
<1>2. /\ A \subseteq Entries /\ E \subseteq Entries /\ F \subseteq Entries
      /\ e \in E /\ e \in Entries /\ e # nil /\ e \in Nodes
      /\ f \in F /\ f \in Entries /\ f # nil /\ f \in Nodes
      /\ pe \in Nat /\ pf \in Nat
  BY PieceType, EntryType
<1>3. PICK e1, e2, q1, q2 :
        /\ Cell(m, e, e1, e2, u)
        /\ Piece(m, e1, Lower(E, e), u - 1, q1)
        /\ Piece(m, e2, Upper(E, e), pe, q2)
        /\ pe = u - 1 \/ pe = u
        /\ q2 < u
  BY <1>2, PieceUnfold
<1>4. PICK f1, f2, q3, q4 :
        /\ Cell(m, f, f1, f2, u)
        /\ Piece(m, f1, Lower(F, f), u - 1, q3)
        /\ Piece(m, f2, Upper(F, f), pf, q4)
        /\ pf = u - 1 \/ pf = u
        /\ q4 < u
  BY <1>2, PieceUnfold
<1> DEFINE E1 == Lower(E, e)
           E2 == Upper(E, e)
           F1 == Lower(F, f)
           F2 == Upper(F, f)
<1>5. /\ E1 \subseteq E /\ E2 \subseteq E /\ Between(E1, e, E2) /\ E = E1 \cup {e} \cup E2
      /\ F1 \subseteq F /\ F2 \subseteq F /\ Between(F1, f, F2) /\ F = F1 \cup {f} \cup F2
      /\ e \notin E1 /\ e \notin E2 /\ f \notin F1 /\ f \notin F2
  BY <1>2, Parts
<1>6. /\ Piece(m, e1, E1, u - 1, q1) /\ Piece(m, e2, E2, pe, q2)
      /\ Piece(m, f1, F1, u - 1, q3) /\ Piece(m, f2, F2, pf, q4)
  BY <1>3, <1>4
<1> HIDE DEF E1, E2, F1, F2
<1>7. /\ \A x \in A : x \in Nat /\ x < r
      /\ \A x \in E : x \in Nat /\ r < x /\ x < c
      /\ \A x \in F : x \in Nat /\ c < x
      /\ r \in Nat /\ c \in Nat
  BY <1>2, EntryType DEF Between
<1> DEFINE N == {r, c, e}
<1>8. /\ r # e /\ r # c /\ e # c
      /\ A \cap N = {} /\ E1 \cap N = {} /\ E2 \cap N = {} /\ F \cap N = {}
  BY <1>2, <1>5, <1>7
<1>9. N \subseteq S
  BY <1>2
<1> HIDE DEF N, S
<1>10. q1 \in Nat /\ q1 < u /\ q2 \in Nat /\ q3 \in Nat /\ q3 < u /\ q4 \in Nat /\ p \in Nat /\ p < u
  BY <1>6, PieceType
<1>11. /\ Level(m, r) = u /\ Link(m, r, 0) = a /\ Link(m, r, 1) = c
       /\ Level(m, c) = u /\ Link(m, c, 0) = e /\ Link(m, c, 1) = f
       /\ Level(m, a) = u - 1
  BY DEF Cell, Piece
<1>12. TreeSkew(m, r).root = r /\ TreeSkew(m, r).mem = m
  BY <1>11, SkewNo
<1> DEFINE m1 == SkewChild(m, r)
<1>13. /\ Heap(m1)
       /\ Cell(m1, r, a, e, u)
       /\ Cell(m1, e, e1, c, u)
       /\ Cell(m1, c, e2, f, u)
       /\ Apart(m, m1, N)
  BY <1>2, <1>3, <1>8, SkewChildYes DEF N
<1> HIDE DEF m1
<1>14. /\ Piece(m1, a, A, u - 1, p) /\ Piece(m1, e1, E1, u - 1, q1)
       /\ Piece(m1, e2, E2, pe, q2) /\ Piece(m1, f, F, u, pf)
  BY <1>6, <1>8, <1>13, PieceFrame
<1>15. Level(m1, e2) = pe /\ Link(m1, e, 1) = c /\ Link(m1, c, 0) = e2 /\ Level(m1, c) = u
       /\ Link(m1, r, 1) = e /\ m1 \in Memory
  BY <1>13, <1>14 DEF Piece, Cell, Heap
<1>16. CASE pe = u - 1
  <2>1. SkewChild(m1, e) = m1
    BY <1>2, <1>15, <1>16, SkewChildNo
  <2> DEFINE m3 == TreeSplit(m1, r).mem
  <2>2. /\ TreeSplit(m1, r).root = e
        /\ Heap(m3)
        /\ Cell(m3, e, r, c, u + 1)
        /\ Cell(m3, r, a, e1, u)
        /\ Apart(m1, m3, {r, e})
    <3>1. Link(m1, e, 0) = e1 /\ Link(m1, e, 1) = c /\ Level(m1, e) = u /\ Level(m1, c) = u
      BY <1>13 DEF Cell
    <3> QED BY <1>2, <1>8, <1>13, <3>1, SplitYes DEF Cell
  <2>3. Rotations(m, r) = Tree(SplitChild(m3, e), e)
    BY <1>12, <1>15, <2>1, <2>2 DEF Rotations, m1
  <2> HIDE DEF m3
  <2>4. Cell(m3, c, e2, f, u)
    BY <1>1, <1>8, <1>13, <2>2, CellKept
  <2>5. Apart(m, m3, N)
    <3>1. Apart(m, m3, N \cup {r, e})
      BY <1>13, <2>2, ApartTwice
    <3>2. N \cup {r, e} = N
      BY DEF N
    <3> QED BY <3>1, <3>2
  <2>6. /\ Piece(m3, a, A, u - 1, p) /\ Piece(m3, e1, E1, u - 1, q1)
        /\ Piece(m3, e2, E2, u - 1, q2) /\ Piece(m3, f, F, u, pf)
    BY <1>6, <1>8, <1>16, <2>2, <2>5, PieceFrame
  <2>7. CASE pf = u - 1
    <3>1. Level(m3, Link(m3, f, 1)) = u - 1 /\ Link(m3, c, 1) = f /\ Level(m3, c) = u /\ Link(m3, e, 1) = c
      BY <2>2, <2>4, <2>6, <2>7 DEF Piece, Cell
    <3>2. SplitChild(m3, e) = m3
      BY <1>2, <2>2, <3>1, SplitChildNo DEF Heap
    <3>3. Piece(m3, r, A \cup {r} \cup E1, u, u - 1)
      <4>1. (\A x \in A : x < r) /\ (\A x \in E1 : r < x)
        BY <1>5, <1>7
      <4>2. u = (u - 1) + 1
        OBVIOUS
      <4> QED BY <2>2, <2>6, <4>1, <4>2, <1>10, PieceFold
    <3>4. Piece(m3, c, E2 \cup {c} \cup F, u, u)
      <4>1. (\A x \in E2 : x < c) /\ (\A x \in F : c < x)
        BY <1>5, <1>7
      <4>2. u = (u - 1) + 1 /\ pf < u
        BY <2>7
      <4> QED BY <2>2, <2>4, <2>6, <4>1, <4>2, PieceFold
    <3>5. Piece(m3, e, (A \cup {r} \cup E1) \cup {e} \cup (E2 \cup {c} \cup F), u + 1, u)
      <4>1. (\A x \in A \cup {r} \cup E1 : x < e) /\ (\A x \in E2 \cup {c} \cup F : e < x)
        BY <1>2, <1>5, <1>7 DEF Between
      <4>2. u < u + 1
        OBVIOUS
      <4> QED BY <1>2, <2>2, <3>3, <3>4, <4>1, <4>2, PieceFold
    <3>6. (A \cup {r} \cup E1) \cup {e} \cup (E2 \cup {c} \cup F) = S
      BY <1>5 DEF S
    <3>7. Apart(m, m3, S)
      BY <1>9, <2>5, ApartMore
    <3>8. Outcome(m, Rotations(m, r), S, u + 1, u)
      BY <2>2, <2>3, <3>2, <3>5, <3>6, <3>7, OutcomeOf
    <3> QED BY <3>8 DEF S
  <2>8. CASE pf = u
    <3> DEFINE m4 == SplitChild(m3, e)
    <3>1. c # f /\ e # f /\ r # f
      BY <1>2, <1>7
    <3>2. Cell(m3, f, f1, f2, u) /\ Piece(m3, f1, F1, u - 1, q3) /\ Piece(m3, f2, F2, u, q4)
      <4>1. F1 \cap N = {} /\ F2 \cap N = {} /\ f \notin N
        BY <1>2, <1>5, <1>8
      <4> QED BY <1>2, <1>4, <1>6, <2>2, <2>5, <2>8, <4>1, PieceFrame, CellKept
    <3>3. /\ Heap(m4)
          /\ Cell(m4, e, r, f, u + 1)
          /\ Cell(m4, f, c, f2, u + 1)
          /\ Cell(m4, c, e2, f1, u)
          /\ Apart(m3, m4, {e, c, f})
      <4>1. Link(m3, f, 0) = f1 /\ Link(m3, f, 1) = f2 /\ Level(m3, f2) = u /\ Level(m3, f) = u
        BY <3>2 DEF Cell, Piece
      <4> QED BY <1>2, <1>8, <2>2, <2>4, <3>1, <4>1, SplitChildYes DEF Cell
    <3> HIDE DEF m4
    <3>4. /\ A \cap {e, c, f} = {} /\ E1 \cap {e, c, f} = {} /\ E2 \cap {e, c, f} = {}
          /\ F1 \cap {e, c, f} = {} /\ F2 \cap {e, c, f} = {} /\ r \notin {e, c, f}
      BY <1>2, <1>5, <1>7, <1>8, <3>1
    <3>5. /\ Piece(m4, a, A, u - 1, p) /\ Piece(m4, e1, E1, u - 1, q1) /\ Piece(m4, e2, E2, u - 1, q2)
          /\ Piece(m4, f1, F1, u - 1, q3) /\ Piece(m4, f2, F2, u, q4)
      BY <2>2, <2>6, <3>2, <3>3, <3>4, PieceFrame
    <3>6. Cell(m4, r, a, e1, u)
      BY <1>1, <2>2, <3>3, <3>4, CellKept
    <3>7. Piece(m4, r, A \cup {r} \cup E1, u, u - 1)
      <4>1. (\A x \in A : x < r) /\ (\A x \in E1 : r < x)
        BY <1>5, <1>7
      <4>2. u = (u - 1) + 1
        OBVIOUS
      <4> QED BY <3>3, <3>5, <3>6, <4>1, <4>2, <1>10, PieceFold
    <3>8. Piece(m4, c, E2 \cup {c} \cup F1, u, u - 1)
      <4>1. (\A x \in E2 : x < c) /\ (\A x \in F1 : c < x)
        BY <1>5, <1>7
      <4>2. u = (u - 1) + 1
        OBVIOUS
      <4> QED BY <3>3, <3>5, <4>1, <4>2, <1>10, PieceFold
    <3>9. Piece(m4, f, (E2 \cup {c} \cup F1) \cup {f} \cup F2, u + 1, u)
      <4>1. (\A x \in E2 \cup {c} \cup F1 : x < f) /\ (\A x \in F2 : f < x)
        BY <1>2, <1>5, <1>7 DEF Between
      <4>2. q4 < u + 1
        BY <1>4, <1>10
      <4> QED BY <1>2, <3>3, <3>5, <3>8, <4>1, <4>2, PieceFold
    <3>10. Piece(m4, e, (A \cup {r} \cup E1) \cup {e} \cup ((E2 \cup {c} \cup F1) \cup {f} \cup F2), u + 1, u + 1)
      <4>1. (\A x \in A \cup {r} \cup E1 : x < e) /\ (\A x \in (E2 \cup {c} \cup F1) \cup {f} \cup F2 : e < x)
        BY <1>2, <1>5, <1>7 DEF Between
      <4>2. u < u + 1
        OBVIOUS
      <4> QED BY <1>2, <3>3, <3>7, <3>9, <4>1, <4>2, PieceFold
    <3>11. (A \cup {r} \cup E1) \cup {e} \cup ((E2 \cup {c} \cup F1) \cup {f} \cup F2) = S
      BY <1>5 DEF S
    <3>12. Apart(m, m4, S)
      <4>1. Apart(m, m4, N \cup {e, c, f})
        BY <2>5, <3>3, ApartTwice
      <4>2. N \cup {e, c, f} \subseteq S
        BY <1>2, <1>9 DEF S
      <4> QED BY <4>1, <4>2, ApartMore
    <3>13. Outcome(m, Tree(m4, e), S, u + 1, u + 1)
      BY <3>3, <3>10, <3>11, <3>12, OutcomeOf
    <3> QED BY <2>3, <3>13 DEF S, m4
  <2> QED BY <1>4, <2>7, <2>8
<1>17. CASE pe = u
  <2>1. e2 \in E2 /\ e2 \in Entries /\ e2 # nil /\ e2 \in Nodes
    BY <1>6, <1>17, PieceType, EntryType
  <2>2. PICK g1, g2, q5, q6 :
          /\ Cell(m1, e2, g1, g2, u)
          /\ Piece(m1, g1, Lower(E2, e2), u - 1, q5)
          /\ Piece(m1, g2, Upper(E2, e2), q2, q6)
          /\ q2 = u - 1 \/ q2 = u
          /\ q6 < u
    BY <1>13, <1>14, <1>17, <2>1, PieceUnfold
  <2> DEFINE G1 == Lower(E2, e2)
             G2 == Upper(E2, e2)
             M == {r, e, c, e2}
  <2>3. /\ G1 \subseteq E2 /\ G2 \subseteq E2 /\ Between(G1, e2, G2) /\ E2 = G1 \cup {e2} \cup G2
        /\ e2 \notin G1 /\ e2 \notin G2
    BY <1>2, <1>5, <2>1, Parts
  <2>4. Piece(m1, g1, G1, u - 1, q5) /\ Piece(m1, g2, G2, u - 1, q6)
    BY <1>3, <1>10, <2>2
  <2> HIDE DEF G1, G2
  <2>5. /\ e # e2 /\ c # e2 /\ r # e2
        /\ A \cap M = {} /\ E1 \cap M = {} /\ F \cap M = {} /\ G1 \cap M = {} /\ G2 \cap M = {}
    BY <1>2, <1>5, <1>7, <2>1, <2>3, EntryType DEF Between
  <2>6. M \subseteq S
    BY <1>2, <1>5, <2>1 DEF S
  <2> HIDE DEF M
  <2> DEFINE m2 == SkewChild(m1, e)
  <2>7. /\ Heap(m2)
        /\ Cell(m2, e, e1, e2, u)
        /\ Cell(m2, e2, g1, c, u)
        /\ Cell(m2, c, g2, f, u)
        /\ Apart(m1, m2, {e, c, e2})
    BY <1>2, <1>8, <1>13, <2>1, <2>2, <2>5, SkewChildYes
  <2> HIDE DEF m2
  <2>8. Cell(m2, r, a, e, u)
    BY <1>1, <1>8, <1>13, <2>5, <2>7, CellKept
  <2> DEFINE m3 == TreeSplit(m2, r).mem
  <2>9. /\ TreeSplit(m2, r).root = e
        /\ Heap(m3)
        /\ Cell(m3, e, r, e2, u + 1)
        /\ Cell(m3, r, a, e1, u)
        /\ Apart(m2, m3, {r, e})
    <3>1. Link(m2, e, 0) = e1 /\ Link(m2, e, 1) = e2 /\ Level(m2, e) = u /\ Level(m2, e2) = u
      BY <2>7 DEF Cell
    <3> QED BY <1>2, <1>8, <2>7, <2>8, <3>1, SplitYes DEF Cell
  <2>10. Rotations(m, r) = Tree(SplitChild(m3, e), e)
    BY <1>12, <1>15, <2>9 DEF Rotations, m1, m2
  <2> HIDE DEF m3
  <2>11. Cell(m3, e2, g1, c, u) /\ Cell(m3, c, g2, f, u)
    BY <1>1, <1>8, <2>1, <2>5, <2>7, <2>9, CellKept
  <2> DEFINE m4 == SplitChild(m3, e)
  <2>12. /\ Heap(m4)
         /\ Cell(m4, e, r, c, u + 1)
         /\ Cell(m4, c, e2, f, u + 1)
         /\ Cell(m4, e2, g1, g2, u)
         /\ Apart(m3, m4, {e, e2, c})
    <3>1. Level(m3, f) = u
      <4>1. Piece(m2, f, F, u, pf)
        <5>1. F \cap {e, c, e2} = {}
          BY <2>5 DEF M
        <5> QED BY <1>13, <1>14, <2>7, <5>1, PieceFrame
      <4>2. F \cap {r, e} = {}
        BY <2>5 DEF M
      <4>3. Piece(m3, f, F, u, pf)
        BY <2>7, <2>9, <4>1, <4>2, PieceFrame
      <4> QED BY <4>3 DEF Piece
    <3>2. Link(m3, c, 0) = g2 /\ Link(m3, c, 1) = f /\ Level(m3, c) = u
      BY <2>11 DEF Cell
    <3> QED BY <1>2, <1>8, <2>1, <2>5, <2>9, <2>11, <3>1, <3>2, SplitChildYes DEF Cell
  <2> HIDE DEF m4
  <2>13. Apart(m1, m4, M)
    <3>1. Apart(m1, m3, {e, c, e2} \cup {r, e})
      BY <2>7, <2>9, ApartTwice
    <3>2. Apart(m1, m4, ({e, c, e2} \cup {r, e}) \cup {e, e2, c})
      BY <2>12, <3>1, ApartTwice
    <3>3. ({e, c, e2} \cup {r, e}) \cup {e, e2, c} = M
      BY DEF M
    <3> QED BY <3>2, <3>3
  <2>14. /\ Piece(m4, a, A, u - 1, p) /\ Piece(m4, e1, E1, u - 1, q1) /\ Piece(m4, f, F, u, pf)
         /\ Piece(m4, g1, G1, u - 1, q5) /\ Piece(m4, g2, G2, u - 1, q6)
    BY <1>13, <1>14, <2>4, <2>5, <2>12, <2>13, PieceFrame
  <2>15. Cell(m4, r, a, e1, u)
    BY <1>1, <1>8, <2>5, <2>9, <2>12, CellKept
  <2>16. Piece(m4, r, A \cup {r} \cup E1, u, u - 1)
    <3>1. (\A x \in A : x < r) /\ (\A x \in E1 : r < x)
      BY <1>5, <1>7
    <3>2. u = (u - 1) + 1
      OBVIOUS
    <3> QED BY <2>12, <2>14, <2>15, <3>1, <3>2, <1>10, PieceFold
  <2>17. Piece(m4, e2, G1 \cup {e2} \cup G2, u, u - 1)
    <3>1. (\A x \in G1 : x < e2) /\ (\A x \in G2 : e2 < x)
      BY <2>3 DEF Between
    <3>2. u = (u - 1) + 1
      OBVIOUS
    <3> QED BY <2>1, <2>2, <2>12, <2>14, <3>1, <3>2, PieceFold
  <2>18. Piece(m4, c, E2 \cup {c} \cup F, u + 1, u)
    <3>1. (\A x \in E2 : x < c) /\ (\A x \in F : c < x)
      BY <1>5, <1>7
    <3>2. pf < u + 1
      BY <1>4
    <3> QED BY <2>3, <2>12, <2>14, <2>17, <3>1, <3>2, PieceFold
  <2>19. Piece(m4, e, (A \cup {r} \cup E1) \cup {e} \cup (E2 \cup {c} \cup F), u + 1, u + 1)
    <3>1. (\A x \in A \cup {r} \cup E1 : x < e) /\ (\A x \in E2 \cup {c} \cup F : e < x)
      BY <1>2, <1>5, <1>7 DEF Between
    <3>2. u < u + 1
      OBVIOUS
    <3> QED BY <1>2, <2>12, <2>16, <2>18, <3>1, <3>2, PieceFold
  <2>20. (A \cup {r} \cup E1) \cup {e} \cup (E2 \cup {c} \cup F) = S
    BY <1>5 DEF S
  <2>21. Apart(m, m4, S)
    <3>1. Apart(m, m4, N \cup M)
      BY <1>13, <2>13, ApartTwice
    <3>2. N \cup M \subseteq S
      BY <1>9, <2>6
    <3> QED BY <3>1, <3>2, ApartMore
  <2>22. Outcome(m, Tree(m4, e), S, u + 1, u + 1)
    BY <2>12, <2>19, <2>20, <2>21, OutcomeOf
  <2> QED BY <2>10, <2>22 DEF S, m4
<1> QED BY <1>3, <1>16, <1>17

(* The right side has become too low.                                      *)
LEMMA RightLow ==
  ASSUME NEW m, Heap(m), NEW r \in Entries, NEW a, NEW h, NEW u \in Nat, u # 0,
         Cell(m, r, a, h, u),
         NEW A, NEW p, Piece(m, a, A, u, p),
         NEW H, NEW q, Piece(m, h, H, u - 1, q),
         Between(A, r, H)
  PROVE  \/ Outcome(m, Rotations(m, r), A \cup {r} \cup H, u, u)
         \/ Outcome(m, Rotations(m, r), A \cup {r} \cup H, u + 1, u)
<1> DEFINE S == A \cup {r} \cup H
<1>1. m \in Memory /\ r \in Nodes
  BY EntryType DEF Heap
<1>2. /\ A \subseteq Entries /\ H \subseteq Entries
      /\ a \in A /\ a \in Entries /\ a # nil /\ a \in Nodes
      /\ q \in Nat /\ q < u
  BY PieceType, EntryType
<1>3. PICK a1, b, p1, q1 :
        /\ Cell(m, a, a1, b, u)
        /\ Piece(m, a1, Lower(A, a), u - 1, p1)
        /\ Piece(m, b, Upper(A, a), p, q1)
        /\ p = u - 1 \/ p = u
        /\ q1 < u
  BY <1>2, PieceUnfold
<1> DEFINE A1 == Lower(A, a)
           B == Upper(A, a)
<1>4. /\ A1 \subseteq A /\ B \subseteq A /\ Between(A1, a, B) /\ A = A1 \cup {a} \cup B
      /\ a \notin A1 /\ a \notin B
  BY <1>2, Parts
<1>5. Piece(m, a1, A1, u - 1, p1) /\ Piece(m, b, B, p, q1)
  BY <1>3
<1> HIDE DEF A1, B, S
<1>6. /\ \A x \in A : x \in Nat /\ x < r
      /\ \A x \in H : x \in Nat /\ r < x
      /\ r \in Nat
  BY <1>2, EntryType DEF Between
<1>7. r # a /\ A1 \cap {r, a} = {} /\ B \cap {r, a} = {} /\ H \cap {r, a} = {}
  BY <1>2, <1>4, <1>6
<1>8. p1 \in Nat /\ p1 < u /\ q1 \in Nat
  BY <1>5, PieceType
<1> DEFINE m0 == TreeSkew(m, r).mem
<1>9. /\ TreeSkew(m, r).root = a
      /\ Heap(m0)
      /\ Cell(m0, a, a1, r, u)
      /\ Cell(m0, r, b, h, u)
      /\ Apart(m, m0, {r, a})
  BY <1>2, <1>3, <1>7, SkewYes
<1> HIDE DEF m0
<1>10. Piece(m0, a1, A1, u - 1, p1) /\ Piece(m0, b, B, p, q1) /\ Piece(m0, h, H, u - 1, q)
  BY <1>5, <1>7, <1>9, PieceFrame
<1>11. /\ Link(m0, a, 1) = r /\ Level(m0, a) = u
       /\ Link(m0, r, 0) = b /\ Link(m0, r, 1) = h /\ Level(m0, r) = u
       /\ Level(m0, b) = p /\ Level(m0, h) = u - 1 /\ Level(m0, Link(m0, h, 1)) = q
       /\ m0 \in Memory
  BY <1>9, <1>10 DEF Cell, Piece, Heap
<1>12. CASE p = u - 1
  <2>1. SkewChild(m0, a) = m0
    BY <1>2, <1>11, <1>12, SkewChildNo
  <2>2. SkewChild(m0, r) = m0
    BY <1>1, <1>9, <1>10, <1>11, PieceRests, SkewChildNo
  <2>3. TreeSplit(m0, a).root = a /\ TreeSplit(m0, a).mem = m0
    BY <1>11, SplitNo
  <2>4. SplitChild(m0, a) = m0
    BY <1>2, <1>11, SplitChildNo
  <2>5. Rotations(m, r) = Tree(m0, a)
    BY <1>9, <1>11, <2>1, <2>2, <2>3, <2>4 DEF Rotations, m0
  <2>6. Piece(m0, r, B \cup {r} \cup H, u, u - 1)
    <3>1. (\A x \in B : x < r) /\ (\A x \in H : r < x)
      BY <1>4, <1>6
    <3>2. u = (u - 1) + 1
      OBVIOUS
    <3> QED BY <1>2, <1>9, <1>10, <1>12, <3>1, <3>2, PieceFold
  <2>7. Piece(m0, a, A1 \cup {a} \cup (B \cup {r} \cup H), u, u)
    <3>1. (\A x \in A1 : x < a) /\ (\A x \in B \cup {r} \cup H : a < x)
      BY <1>2, <1>4, <1>6 DEF Between
    <3>2. u = (u - 1) + 1 /\ u - 1 < u
      OBVIOUS
    <3> QED BY <1>2, <1>9, <1>10, <2>6, <3>1, <3>2, PieceFold
  <2>8. A1 \cup {a} \cup (B \cup {r} \cup H) = S
    BY <1>4 DEF S
  <2>9. Apart(m, m0, S)
    <3>1. {r, a} \subseteq S
      BY <1>2 DEF S
    <3> QED BY <1>9, <3>1, ApartMore
  <2>10. Outcome(m, Tree(m0, a), S, u, u)
    BY <1>9, <2>7, <2>8, <2>9, OutcomeOf
  <2> QED BY <2>5, <2>10 DEF S
<1>13. CASE p = u
  <2>1. b \in B /\ b \in Entries /\ b # nil /\ b \in Nodes
    BY <1>5, <1>13, PieceType, EntryType
  <2>2. PICK b1, b2, p2, q2 :
          /\ Cell(m0, b, b1, b2, u)
          /\ Piece(m0, b1, Lower(B, b), u - 1, p2)
          /\ Piece(m0, b2, Upper(B, b), q1, q2)
          /\ q1 = u - 1 \/ q1 = u
          /\ q2 < u
    BY <1>9, <1>10, <1>13, <2>1, PieceUnfold
  <2> DEFINE B1 == Lower(B, b)
             B2 == Upper(B, b)
             M == {a, r, b}
  <2>3. /\ B1 \subseteq B /\ B2 \subseteq B /\ Between(B1, b, B2) /\ B = B1 \cup {b} \cup B2
        /\ b \notin B1 /\ b \notin B2
    BY <1>2, <1>4, <2>1, Parts
  <2>4. Piece(m0, b1, B1, u - 1, p2) /\ Piece(m0, b2, B2, u - 1, q2)
    BY <1>3, <1>8, <2>2
  <2> HIDE DEF B1, B2
  <2>5. /\ a # b /\ r # b
        /\ A1 \cap M = {} /\ B1 \cap M = {} /\ B2 \cap M = {} /\ H \cap M = {}
    BY <1>2, <1>4, <1>6, <1>7, <2>1, <2>3, EntryType DEF Between
  <2>6. M \subseteq S
    BY <1>2, <1>4, <2>1 DEF S
  <2> HIDE DEF M
  <2> DEFINE m1 == SkewChild(m0, a)
  <2>7. /\ Heap(m1)
        /\ Cell(m1, a, a1, b, u)
        /\ Cell(m1, b, b1, r, u)
        /\ Cell(m1, r, b2, h, u)
        /\ Apart(m0, m1, M)
    BY <1>2, <1>7, <1>9, <2>1, <2>2, <2>5, SkewChildYes DEF M
  <2> HIDE DEF m1
  <2>8. /\ Piece(m1, a1, A1, u - 1, p1) /\ Piece(m1, b1, B1, u - 1, p2)
        /\ Piece(m1, b2, B2, u - 1, q2) /\ Piece(m1, h, H, u - 1, q)
    BY <1>9, <1>10, <2>4, <2>5, <2>7, PieceFrame
  <2>9. SkewChild(m1, b) = m1
    <3>1. Link(m1, b, 1) = r /\ Link(m1, r, 0) = b2 /\ Level(m1, b2) = u - 1 /\ Level(m1, r) = u
      BY <2>7, <2>8 DEF Cell, Piece
    <3> QED BY <2>1, <2>7, <3>1, SkewChildNo DEF Heap
  <2> DEFINE m3 == TreeSplit(m1, a).mem
  <2>10. /\ TreeSplit(m1, a).root = b
         /\ Heap(m3)
         /\ Cell(m3, b, a, r, u + 1)
         /\ Cell(m3, a, a1, b1, u)
         /\ Apart(m1, m3, {a, b})
    <3>1. Link(m1, b, 0) = b1 /\ Link(m1, b, 1) = r /\ Level(m1, b) = u /\ Level(m1, r) = u
      BY <2>7 DEF Cell
    <3> QED BY <1>2, <2>1, <2>5, <2>7, <3>1, SplitYes DEF Cell
  <2> HIDE DEF m3
  <2>11. Cell(m3, r, b2, h, u)
    BY <1>1, <1>7, <2>5, <2>7, <2>10, CellKept
  <2>12. Apart(m0, m3, M)
    <3>1. Apart(m0, m3, M \cup {a, b})
      BY <2>7, <2>10, ApartTwice
    <3>2. M \cup {a, b} = M
      BY DEF M
    <3> QED BY <3>1, <3>2
  <2>13. /\ Piece(m3, a1, A1, u - 1, p1) /\ Piece(m3, b1, B1, u - 1, p2)
         /\ Piece(m3, b2, B2, u - 1, q2) /\ Piece(m3, h, H, u - 1, q)
    BY <1>9, <1>10, <2>4, <2>5, <2>10, <2>12, PieceFrame
  <2>14. SplitChild(m3, b) = m3
    <3>1. Link(m3, b, 1) = r /\ Link(m3, r, 1) = h /\ Level(m3, Link(m3, h, 1)) = q /\ Level(m3, r) = u
      BY <2>10, <2>11, <2>13 DEF Cell, Piece
    <3> QED BY <1>2, <2>1, <2>10, <3>1, SplitChildNo DEF Heap
  <2>15. Rotations(m, r) = Tree(m3, b)
    <3>1. Link(m1, a, 1) = b
      BY <2>7 DEF Cell
    <3> QED BY <1>9, <2>9, <2>10, <2>14, <3>1 DEF Rotations, m0, m1, m3
  <2>16. Piece(m3, a, A1 \cup {a} \cup B1, u, u - 1)
    <3>1. (\A x \in A1 : x < a) /\ (\A x \in B1 : a < x)
      BY <1>4, <2>3 DEF Between
    <3>2. u = (u - 1) + 1 /\ p2 < u
      BY <2>10, <2>13, PieceType
    <3> QED BY <1>2, <2>10, <2>13, <3>1, <3>2, PieceFold
  <2>17. Piece(m3, r, B2 \cup {r} \cup H, u, u - 1)
    <3>1. (\A x \in B2 : x < r) /\ (\A x \in H : r < x)
      BY <1>4, <1>6, <2>3
    <3>2. u = (u - 1) + 1
      OBVIOUS
    <3> QED BY <1>2, <2>10, <2>11, <2>13, <3>1, <3>2, PieceFold
  <2>18. Piece(m3, b, (A1 \cup {a} \cup B1) \cup {b} \cup (B2 \cup {r} \cup H), u + 1, u)
    <3>1. (\A x \in A1 \cup {a} \cup B1 : x < b) /\ (\A x \in B2 \cup {r} \cup H : b < x)
      <4>1. b \in Nat /\ a \in Nat /\ a < b /\ b < r
        BY <1>2, <1>4, <1>6, <2>1, EntryType DEF Between
      <4>2. \A x \in A1 : x \in Nat /\ x < a
        BY <1>4, <1>6 DEF Between
      <4>3. (\A x \in B1 : x < b) /\ (\A x \in B2 : b < x)
        BY <2>3 DEF Between
      <4> QED BY <4>1, <4>2, <4>3, <1>6
    <3>2. u - 1 < u + 1
      OBVIOUS
    <3> QED BY <2>1, <2>10, <2>16, <2>17, <3>1, <3>2, PieceFold
  <2>19. (A1 \cup {a} \cup B1) \cup {b} \cup (B2 \cup {r} \cup H) = S
    BY <1>4, <2>3 DEF S
  <2>20. Apart(m, m3, S)
    <3>1. Apart(m, m3, {r, a} \cup M)
      BY <1>9, <2>12, ApartTwice
    <3>2. {r, a} \cup M \subseteq S
      BY <2>6 DEF M
    <3> QED BY <3>1, <3>2, ApartMore
  <2>21. Outcome(m, Tree(m3, b), S, u + 1, u)
    BY <2>10, <2>18, <2>19, <2>20, OutcomeOf
  <2> QED BY <2>15, <2>21 DEF S
<1> QED BY <1>3, <1>12, <1>13

(* What going down a level writes. *)
LEMMA LoweredFacts ==
  ASSUME NEW m, Heap(m), NEW r \in Entries, NEW a, NEW h, NEW v \in Nat, v # 0,
         Cell(m, r, a, h, v), h # r
  PROVE  /\ Lowered(m, r) \in Memory
         /\ Cell(Lowered(m, r), r, a, h, v - 1)
         /\ Level(m, h) <= v - 1 => Heap(Lowered(m, r)) /\ Apart(m, Lowered(m, r), {r})
         /\ Level(m, h) = v /\ h # nil =>
              /\ Heap(Lowered(m, r))
              /\ Cell(Lowered(m, r), h, Link(m, h, 0), Link(m, h, 1), v - 1)
              /\ Apart(m, Lowered(m, r), {r, h})
<1> DEFINE m1 == [m EXCEPT ![r].level = v - 1]
           w == IF Level(m, h) > v - 1 THEN v - 1 ELSE Level(m, h)
           m2 == [m1 EXCEPT ![h].level = w]
<1>1. m \in Memory /\ NilOK(m) /\ r \in Nodes /\ r # nil /\ h \in Nodes /\ a \in Nodes
  BY EntryType, CellType DEF Heap
<1>2. Level(m, h) \in Nat
  BY <1>1, MemoryType
<1>3. m1 \in Memory /\ Cell(m1, r, a, h, v - 1) /\ Apart(m, m1, {r})
  BY <1>1 DEF Memory, Node, Cell, Link, Level, Apart, Same
<1>4. Same(m, m1, h)
  BY <1>1, <1>3 DEF Apart
<1>5. Lowered(m, r) = m2
  <2>1. Level(m, r) = v /\ Link(m, r, 1) = h
    BY DEF Cell
  <2>2. m1[h].level = Level(m, h)
    BY <1>4 DEF Same, Level
  <2> QED BY <2>1, <2>2 DEF Lowered
<1> HIDE DEF m1
<1>6. w \in Nat
  BY <1>2
<1> HIDE DEF w
<1>7. /\ m2 \in Memory
      /\ Cell(m2, h, Link(m1, h, 0), Link(m1, h, 1), w)
      /\ Apart(m1, m2, {h})
  BY <1>1, <1>3, <1>6 DEF Memory, Node, Cell, Link, Level, Apart, Same
<1> HIDE DEF m2
<1>8. Cell(m2, r, a, h, v - 1)
  BY <1>1, <1>3, <1>7, CellKept
<1>9. Cell(m2, h, Link(m, h, 0), Link(m, h, 1), w)
  BY <1>4, <1>7 DEF Same
<1>10. ASSUME Level(m, h) <= v - 1
       PROVE  Heap(m2) /\ Apart(m, m2, {r})
  <2>1. w = Level(m, h)
    BY <1>2, <1>10 DEF w
  <2>2. Same(m, m2, h)
    BY <1>9, <2>1 DEF Cell, Same
  <2>3. Apart(m, m2, {r})
    BY <1>3, <1>7, <2>2 DEF Apart, Same
  <2>4. NilOK(m2)
    BY <1>1, <2>3, NilKept
  <2> QED BY <1>7, <2>3, <2>4 DEF Heap
<1>11. ASSUME Level(m, h) = v, h # nil
       PROVE  /\ Heap(m2)
              /\ Cell(m2, h, Link(m, h, 0), Link(m, h, 1), v - 1)
              /\ Apart(m, m2, {r, h})
  <2>1. w = v - 1
    BY <1>11 DEF w
  <2>2. Apart(m, m2, {r, h})
    <3>1. {r} \cup {h} = {r, h}
      OBVIOUS
    <3> QED BY <1>3, <1>7, <3>1, ApartTwice
  <2>3. NilOK(m2)
    BY <1>1, <1>11, <2>2, NilKept
  <2> QED BY <1>7, <1>9, <2>1, <2>2, <2>3 DEF Heap
<1> QED BY <1>5, <1>7, <1>8, <1>10, <1>11

(* What happened before is outside of the tree or part of it. *)
LEMMA OutcomeAfter ==
  ASSUME NEW m, NEW m2, NEW D, NEW S, Apart(m, m2, D), D \subseteq S,
         NEW t, NEW v, NEW w, Outcome(m2, t, S, v, w)
  PROVE  Outcome(m, t, S, v, w)
<1>1. Apart(m, t.mem, D \cup S)
  BY ApartTwice DEF Outcome
<1>2. D \cup S = S
  OBVIOUS
<1> QED BY <1>1, <1>2 DEF Outcome

(* The root keeps its level v or loses one, and if it keeps it then it has *)
(* a right child on its level only if it had one (of level y).             *)
BalanceResult(m, t, S, v, y) ==
  \E v2, w2 :
    /\ Outcome(m, t, S, v2, w2)
    /\ v2 = v \/ v2 = v - 1
    /\ v2 = v /\ y < v => w2 < v2

(* On the way up from a removal, with one subtree lower by one level, the  *)
(* root is rebalanced.                                                     *)
LEMMA BalanceOK ==
  ASSUME NEW m, Heap(m), NEW r \in Entries, NEW a, NEW h, NEW v \in Nat, v # 0,
         Cell(m, r, a, h, v),
         NEW A, NEW x, NEW p, Piece(m, a, A, x, p),
         NEW H, NEW y, NEW q, Piece(m, h, H, y, q),
         Between(A, r, H),
         x = v - 1 \/ x + 1 = v - 1,
         y = v \/ y = v - 1 \/ (y + 1 = v - 1 /\ x = v - 1),
         q < v
  PROVE  BalanceResult(m, TreeBalance(m, r), A \cup {r} \cup H, v, y)
<1> SUFFICES \E v2, w2 :
               /\ Outcome(m, TreeBalance(m, r), A \cup {r} \cup H, v2, w2)
               /\ v2 = v \/ v2 = v - 1
               /\ v2 = v /\ y < v => w2 < v2
  BY DEF BalanceResult
<1> DEFINE S == A \cup {r} \cup H
           u == v - 1
           m0 == Lowered(m, r)
<1>1. m \in Memory /\ r \in Nodes
  BY EntryType DEF Heap
<1>2. /\ A \subseteq Entries /\ H \subseteq Entries /\ x \in Nat /\ y \in Nat /\ p \in Nat /\ q \in Nat
      /\ (h # nil => h \in H)
  BY PieceType
<1>3. r \notin A /\ r \notin H /\ h # r
  BY <1>1, <1>2, EntryType DEF Between
<1>4. /\ Level(m, r) = v /\ Link(m, r, 0) = a /\ Link(m, r, 1) = h
      /\ Level(m, a) = x /\ Level(m, h) = y /\ Level(m, Link(m, h, 1)) = q
  BY DEF Cell, Piece
<1>5. /\ Cell(m0, r, a, h, u)
      /\ y <= u => Heap(m0) /\ Apart(m, m0, {r})
      /\ y = v /\ h # nil =>
           Heap(m0) /\ Cell(m0, h, Link(m, h, 0), Link(m, h, 1), u) /\ Apart(m, m0, {r, h})
  BY <1>3, <1>4, LoweredFacts
<1> HIDE DEF S, m0
<1>6. {r} \subseteq S
  BY DEF S
<1>7. CASE x = u /\ y >= u
  <2>1. \A dir \in 0 .. 1 : dir = 0 \/ dir = 1
    OBVIOUS
  <2>2. TreeBalance(m, r) = Tree(m, r)
    BY <1>2, <1>4, <1>7, <2>1 DEF TreeBalance
  <2>3. Piece(m, r, S, v, y)
    <3>1. (\A z \in A : z < r) /\ (\A z \in H : r < z)
      BY DEF Between
    <3>2. v = u + 1 /\ (y = u \/ y = v)
      BY <1>2, <1>7
    <3> HIDE DEF u
    <3>3. Piece(m, a, A, u, p)
      BY <1>7
    <3> QED BY <3>1, <3>2, <3>3, PieceFold DEF S
  <2>4. Apart(m, m, S)
    BY DEF Apart, Same
  <2>5. Outcome(m, TreeBalance(m, r), S, v, y)
    BY <2>2, <2>3, <2>4, OutcomeOf
  <2> QED BY <2>5 DEF S
<1>8. ASSUME x < u \/ y < u
      PROVE  TreeBalance(m, r) = Rotations(m0, r)
  <2>1. 0 \in 0 .. 1 /\ 1 \in 0 .. 1
    OBVIOUS
  <2>2. Level(m, Link(m, r, 0)) < Level(m, r) - 1 \/ Level(m, Link(m, r, 1)) < Level(m, r) - 1
    BY <1>4, <1>8
  <2> QED BY <2>1, <2>2 DEF TreeBalance, m0
<1>9. CASE x + 1 = u
  <2>1. u \in Nat /\ u # 0 /\ x = u - 1 /\ (y = u \/ y = v) /\ u + 1 = v /\ x < u
    BY <1>2, <1>9
  <2>2. h # nil /\ h \in H /\ h \in Entries
    <3>1. y # 0
      BY <2>1
    <3> QED BY <3>1, PieceType
  <2>3. CASE y = u
    <3>1. Heap(m0) /\ Apart(m, m0, {r})
      BY <1>2, <1>5, <2>3
    <3>2. A \cap {r} = {} /\ H \cap {r} = {}
      BY <1>3
    <3>3. Piece(m0, a, A, u - 1, p) /\ Piece(m0, h, H, u, q)
      <4> HIDE DEF u
      <4>1. Piece(m, a, A, u - 1, p) /\ Piece(m, h, H, u, q)
        BY <2>1, <2>3
      <4> QED BY <3>1, <3>2, <4>1, PieceFrame
    <3>4. Outcome(m0, Rotations(m0, r), S, u, u) \/ Outcome(m0, Rotations(m0, r), S, u + 1, u)
      <4> HIDE DEF u
      <4> QED BY <1>5, <2>1, <3>1, <3>3, LeftLow DEF S
    <3>5. Outcome(m, Rotations(m0, r), S, u, u) \/ Outcome(m, Rotations(m0, r), S, u + 1, u)
      <4> HIDE DEF u
      <4> QED BY <1>6, <3>1, <3>4, OutcomeAfter
    <3>6. Outcome(m, TreeBalance(m, r), S, u, u) \/ Outcome(m, TreeBalance(m, r), S, v, u)
      BY <1>8, <2>1, <3>5
    <3>7. u < v
      OBVIOUS
    <3> QED BY <3>6, <3>7 DEF S
  <2>4. CASE y = v
    <3>1. PICK e, f, pe, qf :
            /\ Cell(m, h, e, f, v)
            /\ Piece(m, e, Lower(H, h), v - 1, pe)
            /\ Piece(m, f, Upper(H, h), q, qf)
            /\ q = v - 1 \/ q = v
            /\ qf < q \/ qf < v
      BY <2>2, <2>4, PieceUnfold
    <3> DEFINE E == Lower(H, h)
               F == Upper(H, h)
    <3>2. /\ E \subseteq H /\ F \subseteq H /\ Between(E, h, F) /\ H = E \cup {h} \cup F
          /\ h \notin E /\ h \notin F
      BY <1>2, <2>2, Parts
    <3>3. Piece(m, e, E, u, pe) /\ Piece(m, f, F, u, qf)
      BY <1>2, <3>1
    <3> HIDE DEF E, F
    <3>4. Heap(m0) /\ Cell(m0, h, e, f, u) /\ Apart(m, m0, {r, h})
      <4>1. Link(m, h, 0) = e /\ Link(m, h, 1) = f
        BY <3>1 DEF Cell
      <4> QED BY <1>5, <2>2, <2>4, <4>1
    <3>5. /\ A \cap {r, h} = {} /\ E \cap {r, h} = {} /\ F \cap {r, h} = {}
          /\ Between(A, r, E) /\ r < h
      BY <1>1, <1>2, <1>3, <2>2, <3>2, EntryType DEF Between
    <3>6. Piece(m0, a, A, u - 1, p) /\ Piece(m0, e, E, u, pe) /\ Piece(m0, f, F, u, qf)
      <4> HIDE DEF u
      <4>1. Piece(m, a, A, u - 1, p)
        BY <2>1
      <4> QED BY <3>3, <3>4, <3>5, <4>1, PieceFrame
    <3>7. \E w : Outcome(m0, Rotations(m0, r), A \cup {r} \cup E \cup {h} \cup F, u + 1, w)
      <4> HIDE DEF u
      <4> QED BY <1>5, <2>1, <2>2, <3>2, <3>4, <3>5, <3>6, LeftLowRed
    <3>8. A \cup {r} \cup E \cup {h} \cup F = S
      BY <3>2 DEF S
    <3>9. PICK w : Outcome(m0, Rotations(m0, r), S, v, w)
      BY <2>1, <3>7, <3>8
    <3>10. {r, h} \subseteq S
      BY <2>2 DEF S
    <3>11. Outcome(m, TreeBalance(m, r), S, v, w)
      BY <1>8, <2>1, <3>4, <3>9, <3>10, OutcomeAfter
    <3>12. ~ (y < v)
      BY <2>4
    <3> QED BY <3>11, <3>12 DEF S
  <2> QED BY <2>1, <2>3, <2>4
<1>10. CASE x = u /\ y < u
  <2>1. u \in Nat /\ u # 0 /\ y = u - 1 /\ u + 1 = v
    BY <1>2, <1>10
  <2>2. Heap(m0) /\ Apart(m, m0, {r})
    BY <1>2, <1>5, <1>10
  <2>3. A \cap {r} = {} /\ H \cap {r} = {}
    BY <1>3
  <2>4. Piece(m0, a, A, u, p) /\ Piece(m0, h, H, u - 1, q)
    <3> HIDE DEF u
    <3>1. Piece(m, a, A, u, p) /\ Piece(m, h, H, u - 1, q)
      BY <1>10, <2>1
    <3> QED BY <2>2, <2>3, <3>1, PieceFrame
  <2>5. Outcome(m0, Rotations(m0, r), S, u, u) \/ Outcome(m0, Rotations(m0, r), S, u + 1, u)
    <3> HIDE DEF u
    <3> QED BY <1>5, <2>1, <2>2, <2>4, RightLow DEF S
  <2>6. Outcome(m, Rotations(m0, r), S, u, u) \/ Outcome(m, Rotations(m0, r), S, u + 1, u)
    <3> HIDE DEF u
    <3> QED BY <1>6, <2>2, <2>5, OutcomeAfter
  <2>7. Outcome(m, TreeBalance(m, r), S, u, u) \/ Outcome(m, TreeBalance(m, r), S, v, u)
    BY <1>8, <1>10, <2>1, <2>6
  <2>8. u < v
    OBVIOUS
  <2> QED BY <2>7, <2>8 DEF S
<1> QED BY <1>2, <1>7, <1>9, <1>10
=============================================================================
