--------------------------- MODULE HeapTreeProofs ---------------------------
(***************************************************************************)
(* Insertion, removal, search and the walk of the sweep on AA trees, and   *)
(* from them the properties of HeapTree for every set of entries.          *)
(***************************************************************************)
EXTENDS HeapTreeFacts

-----------------------------------------------------------------------------
(* Types *)

LEMMA SkewType ==
  ASSUME NEW m \in Memory, NEW r \in Nodes
  PROVE  TreeSkew(m, r) \in Trees
<1> DEFINE l == Link(m, r, 0)
           m1 == SetLink(m, r, 0, Link(m, l, 1))
           m2 == SetLink(m1, l, 1, r)
<1>1. l \in Nodes
  BY MemoryType
<1>2. m1 \in Memory
  BY <1>1, MemoryType, SetLinkFacts
<1>3. m2 \in Memory
  <2> HIDE DEF m1
  <2> QED BY <1>1, <1>2, SetLinkFacts
<1> QED BY <1>1, <1>3 DEF TreeSkew, Tree, Trees

LEMMA SplitType ==
  ASSUME NEW m \in Memory, NEW r \in Nodes
  PROVE  TreeSplit(m, r) \in Trees
<1> DEFINE h == Link(m, r, 1)
           m1 == SetLink(m, r, 1, Link(m, h, 0))
           m2 == SetLink(m1, h, 0, r)
           m3 == [m2 EXCEPT ![h].level = @ + 1]
<1>1. h \in Nodes
  BY MemoryType
<1>2. m1 \in Memory
  BY <1>1, MemoryType, SetLinkFacts
<1>3. m2 \in Memory
  <2> HIDE DEF m1
  <2> QED BY <1>1, <1>2, SetLinkFacts
<1>4. m3 \in Memory
  <2> HIDE DEF m2
  <2> QED BY <1>1, <1>3 DEF Memory, Node
<1> QED BY <1>1, <1>4 DEF TreeSplit, Tree, Trees

LEMMA AttachType ==
  ASSUME NEW t \in Trees, NEW n \in Nodes
  PROVE  Attach(t, n, 0) \in Memory /\ Attach(t, n, 1) \in Memory
  BY SetLinkFacts DEF Attach, Trees

LEMMA RotationsType ==
  ASSUME NEW m \in Memory, NEW r \in Nodes
  PROVE  Rotations(m, r) \in Trees
<1> DEFINE skewed == TreeSkew(m, r)
           m1 == SkewChild(skewed.mem, skewed.root)
           m2 == SkewChild(m1, Link(m1, skewed.root, 1))
           split == TreeSplit(m2, skewed.root)
           m3 == SplitChild(split.mem, split.root)
<1>1. \A x \in Memory, n \in Nodes : SkewChild(x, n) \in Memory /\ SplitChild(x, n) \in Memory
  BY MemoryType, SkewType, SplitType, AttachType DEF SkewChild, SplitChild
<1>2. skewed.mem \in Memory /\ skewed.root \in Nodes
  BY SkewType DEF Trees
<1>3. m1 \in Memory
  BY <1>1, <1>2
<1>4. m2 \in Memory
  <2> HIDE DEF m1, skewed
  <2> QED BY <1>1, <1>2, <1>3, MemoryType
<1>5. split.mem \in Memory /\ split.root \in Nodes
  <2> HIDE DEF m2, skewed
  <2> QED BY <1>2, <1>4, SplitType DEF Trees
<1>6. m3 \in Memory
  <2> HIDE DEF split
  <2> QED BY <1>1, <1>5
<1>7. Rotations(m, r) = Tree(m3, split.root)
  BY DEF Rotations
<1> QED BY <1>5, <1>6, <1>7 DEF Tree, Trees

LEMMA BalanceType ==
  ASSUME NEW m \in Memory, NEW r \in Nodes
  PROVE  TreeBalance(m, r) \in Trees
<1>1. ASSUME NEW dir \in 0 .. 1, Level(m, Link(m, r, dir)) < Level(m, r) - 1
      PROVE  Lowered(m, r) \in Memory
  <2> DEFINE v == Level(m, r) - 1
             h == Link(m, r, 1)
             m1 == [m EXCEPT ![r].level = v]
             w == IF m1[h].level > v THEN v ELSE m1[h].level
  <2>1. dir = 0 \/ dir = 1
    OBVIOUS
  <2>2. Level(m, Link(m, r, dir)) \in Nat /\ Level(m, r) \in Nat /\ h \in Nodes
    BY <2>1, MemoryType
  <2>3. v \in Nat
    BY <1>1, <2>2
  <2> HIDE DEF v, h
  <2>4. m1 \in Memory
    BY <2>3 DEF Memory, Node
  <2> HIDE DEF m1
  <2>5. w \in Nat
    BY <2>2, <2>3, <2>4 DEF Memory, Node
  <2>6. Lowered(m, r) = [m1 EXCEPT ![h].level = w]
    BY DEF Lowered, v, h, m1
  <2> HIDE DEF w
  <2> QED BY <2>2, <2>4, <2>5, <2>6 DEF Memory, Node
<1> QED BY <1>1, RotationsType DEF TreeBalance, Tree, Trees

LEMMA InsertStepType ==
  ASSUME NEW k \in Entries, NEW f \in [Trees -> Trees], NEW t \in Trees
  PROVE  InsertStep(k, f, t) \in Trees
<1> DEFINE m == t.mem
           r == t.root
           dir == Direction(r, k)
           t1 == f[Tree(m, Link(m, r, dir))]
           m1 == Attach(t1, r, dir)
           leaf == [link |-> [d \in 0 .. 1 |-> nil], level |-> 1]
<1>1. m \in Memory /\ r \in Nodes /\ k \in Nodes
  BY EntryType DEF Trees
<1>2. CASE r = nil
  <2>1. leaf \in Node
    BY DEF Node, Nodes
  <2> HIDE DEF leaf
  <2>2. [m EXCEPT ![k] = leaf] \in Memory
    BY <1>1, <2>1 DEF Memory
  <2>3. InsertStep(k, f, t) = Tree([m EXCEPT ![k] = leaf], k)
    BY <1>2 DEF InsertStep, leaf
  <2> QED BY <1>1, <2>2, <2>3 DEF Tree, Trees
<1>3. CASE r # nil
  <2>1. dir = 0 \/ dir = 1
    BY DEF Direction
  <2> HIDE DEF dir
  <2>2. Link(m, r, dir) \in Nodes
    BY <1>1, <2>1, MemoryType
  <2>3. t1 \in Trees
    BY <1>1, <2>2 DEF Tree, Trees
  <2>4. m1 \in Memory
    <3> HIDE DEF t1
    <3> QED BY <1>1, <2>1, <2>3, AttachType
  <2>5. TreeSkew(m1, r) \in Trees
    <3> HIDE DEF m1
    <3> QED BY <1>1, <2>4, SkewType
  <2>6. InsertStep(k, f, t) = TreeSplit(TreeSkew(m1, r).mem, TreeSkew(m1, r).root)
    BY <1>3 DEF InsertStep, dir
  <2> HIDE DEF m1
  <2>7. TreeSkew(m1, r).mem \in Memory /\ TreeSkew(m1, r).root \in Nodes
    BY <2>5 DEF Trees
  <2> QED BY <2>6, <2>7, SplitType
<1> QED BY <1>2, <1>3

(* A call that has k more calls of itself to go. *)
LEMMA InsertionIs ==
  ASSUME NEW k \in Entries
  PROVE  /\ Insertion(k) \in [Nat -> [Trees -> Trees]]
         /\ \A d \in Nat : \A t \in Trees :
              Insertion(k)[d + 1][t] = InsertStep(k, Insertion(k)[d], t)
<1> DEFINE Y == [Trees -> Trees]
           G == [z \in Nat \X Y |-> [t \in Trees |-> InsertStep(k, z[2], t)]]
           y0 == [t \in Trees |-> t]
           Is(f) == f = [d \in Nat |-> [t \in Trees |-> IF d = 0 THEN t ELSE InsertStep(k, f[d - 1], t)]]
<1>1. G \in [Nat \X Y -> Y]
  BY InsertStepType
<1>2. y0 \in Y
  OBVIOUS
<1>3. \A d \in Nat, g \in Y : G[<<d, g>>] = [t \in Trees |-> InsertStep(k, g, t)]
  OBVIOUS
<1> HIDE DEF G
<1>4. PICK f : Goes(Y, G, y0, f)
  <2> HIDE DEF Y, y0
  <2> QED BY <1>1, <1>2, Recursion
<1>5. \A d \in Nat : f[d] = [t \in Trees |-> IF d = 0 THEN t ELSE InsertStep(k, f[d - 1], t)]
  <2> SUFFICES ASSUME NEW d \in Nat
               PROVE  f[d] = [t \in Trees |-> IF d = 0 THEN t ELSE InsertStep(k, f[d - 1], t)]
    OBVIOUS
  <2>1. CASE d = 0
    BY <1>4, <2>1 DEF Goes
  <2>2. CASE d # 0
    <3>1. d - 1 \in Nat /\ (d - 1) + 1 = d
      BY <2>2
    <3>2. f[d] = G[<<d - 1, f[d - 1]>>] /\ f[d - 1] \in Y
      BY <1>4, <3>1 DEF Goes
    <3>3. f[d] = [t \in Trees |-> InsertStep(k, f[d - 1], t)]
      BY <1>3, <3>1, <3>2
    <3> QED BY <2>2, <3>3
  <2> QED BY <2>1, <2>2
<1>6. Is(f)
  BY <1>4, <1>5 DEF Goes
<1>7. Insertion(k) = CHOOSE g : Is(g)
  BY DEF Insertion
<1>8. Is(Insertion(k))
  <2> HIDE DEF Is
  <2> QED BY <1>6, <1>7
<1> DEFINE F == Insertion(k)
<1>9. F = [d \in Nat |-> [t \in Trees |-> IF d = 0 THEN t ELSE InsertStep(k, F[d - 1], t)]]
  BY <1>8
<1> HIDE DEF F
<1>10. \A d \in Nat : \A t \in Trees : F[d + 1][t] = InsertStep(k, F[d], t)
  <2> SUFFICES ASSUME NEW d \in Nat, NEW t \in Trees PROVE F[d + 1][t] = InsertStep(k, F[d], t)
    OBVIOUS
  <2>1. d + 1 \in Nat /\ d + 1 # 0 /\ (d + 1) - 1 = d
    OBVIOUS
  <2>2. F[d + 1] = [x \in Trees |-> IF d + 1 = 0 THEN x ELSE InsertStep(k, F[(d + 1) - 1], x)]
    BY <1>9, <2>1
  <2> QED BY <2>1, <2>2
<1> DEFINE P == {d \in Nat : F[d] \in Y}
<1>11. 0 \in P
  BY <1>9
<1>12. \A d \in P : d + 1 \in P
  <2> SUFFICES ASSUME NEW d \in P PROVE d + 1 \in P
    OBVIOUS
  <2>1. d \in Nat /\ F[d] \in Y /\ d + 1 \in Nat /\ d + 1 # 0 /\ (d + 1) - 1 = d
    OBVIOUS
  <2>2. F[d + 1] = [x \in Trees |-> IF d + 1 = 0 THEN x ELSE InsertStep(k, F[(d + 1) - 1], x)]
    BY <1>9, <2>1
  <2>3. F[d + 1] = [x \in Trees |-> InsertStep(k, F[d], x)]
    BY <2>1, <2>2
  <2>4. \A x \in Trees : InsertStep(k, F[d], x) \in Trees
    BY <2>1, InsertStepType
  <2>5. F[d + 1] \in Y
    BY <2>3, <2>4
  <2> QED BY <2>1, <2>5
<1>13. P = Nat
  <2>1. P \in SUBSET Nat
    OBVIOUS
  <2> HIDE DEF P
  <2> QED BY <1>11, <1>12, <2>1, Induction
<1>14. F \in [Nat -> Y]
  BY <1>9, <1>13
<1> QED BY <1>10, <1>14 DEF F

-----------------------------------------------------------------------------
(* Insertion *)

(* The trees below an entry are smaller. *)
LEMMA SmallerParts ==
  ASSUME NEW S, S \subseteq Entries, NEW r \in S
  PROVE  /\ Cardinality(Lower(S, r)) \in Nat /\ Cardinality(Upper(S, r)) \in Nat
         /\ Cardinality(S) = Cardinality(Lower(S, r)) + 1 + Cardinality(Upper(S, r))
         /\ Cardinality(Lower(S, r)) < Cardinality(S)
         /\ Cardinality(Upper(S, r)) < Cardinality(S)
<1> DEFINE L == Lower(S, r)
           H == Upper(S, r)
<1>1. IsFiniteSet(S)
  BY HeapTreeAssumption, FS_Subset
<1>2. L \subseteq S /\ H \subseteq S /\ S = L \cup {r} \cup H /\ r \notin L /\ r \notin H
  BY Parts
<1>3. L \cap H = {}
  <2>1. r \in Nat /\ \A x \in S : x \in Nat
    BY EntryType
  <2>2. ASSUME NEW x \in L, x \in H PROVE FALSE
    <3>1. x \in Nat /\ x < r /\ r < x
      BY <2>1, <2>2 DEF Lower, Upper
    <3> QED BY <2>1, <3>1
  <2> HIDE DEF L, H
  <2> QED BY <2>2
<1> HIDE DEF L, H
<1>4. IsFiniteSet(L) /\ IsFiniteSet(H)
  BY <1>1, <1>2, FS_Subset
<1>5. Cardinality(L) \in Nat /\ Cardinality(H) \in Nat
  BY <1>4, FS_CardinalityType
<1>6. IsFiniteSet(L \cup {r}) /\ Cardinality(L \cup {r}) = Cardinality(L) + 1
  BY <1>2, <1>4, FS_AddElement
<1>7. (L \cup {r}) \cap H = {}
  BY <1>2, <1>3
<1>8. Cardinality((L \cup {r}) \cup H) = Cardinality(L \cup {r}) + Cardinality(H)
                                          - Cardinality((L \cup {r}) \cap H)
  BY <1>4, <1>6, FS_Union
<1>9. Cardinality({}) = 0
  BY FS_EmptySet
<1>10. Cardinality(S) = Cardinality(L) + 1 + Cardinality(H)
  <2>1. Cardinality((L \cup {r}) \cap H) = 0
    BY <1>7, <1>9
  <2>2. Cardinality(S) = Cardinality((L \cup {r}) \cup H)
    BY <1>2
  <2> QED BY <1>5, <1>6, <1>8, <2>1, <2>2
<1> QED BY <1>5, <1>10 DEF L, H

(* Addresses are ordered as the entries, and entries do not overlap. *)
LEMMA Addresses ==
  ASSUME NEW i \in Nat, NEW j \in Nat
  PROVE  /\ Address(i) \in Nat
         /\ i < j => Address(i) + Size < Address(j)
         /\ Address(i) < Address(j) <=> i < j
<1>1. \A x, y \in Nat : x < y => Stride * x + Size < Stride * y
  <2> SUFFICES ASSUME NEW x \in Nat, NEW y \in Nat, x < y PROVE Stride * x + Size < Stride * y
    OBVIOUS
  <2>1. PICK z \in Nat : y = x + 1 + z
    <3>1. y - x - 1 \in Nat /\ y = x + 1 + (y - x - 1)
      OBVIOUS
    <3> QED BY <3>1
  <2>2. Stride \in Nat /\ Size \in Nat /\ Size < Stride
    BY HeapTreeAssumption
  <2>3. Stride * (x + 1 + z) = Stride * x + Stride + Stride * z
    BY <2>2
  <2>4. Stride * z \in Nat /\ Stride * x \in Nat
    BY <2>2
  <2> QED BY <2>1, <2>2, <2>3, <2>4
<1>2. \A x \in Nat : Stride * x \in Nat
  BY HeapTreeAssumption
<1>3. i < j => Address(i) + Size < Address(j)
  BY <1>1 DEF Address
<1>4. j < i => Address(j) + Size < Address(i)
  BY <1>1 DEF Address
<1>5. Address(i) \in Nat /\ Address(j) \in Nat /\ Size \in Nat
  BY <1>2, HeapTreeAssumption DEF Address
<1>6. i < j \/ i = j \/ j < i
  OBVIOUS
<1> QED BY <1>3, <1>4, <1>5, <1>6

LEMMA Directions ==
  ASSUME NEW n \in Entries, NEW k \in Entries
  PROVE  (k < n => Direction(n, k) = 0) /\ (n < k => Direction(n, k) = 1)
<1>1. n \in Nat /\ k \in Nat
  BY EntryType
<1> QED BY <1>1, Addresses DEF Direction

(* What an insertion makes of a tree: the level may go up by one, then     *)
(* without a right child on it, and not if there was room on the level.    *)
InsertResult(k, m, t, S, v, w) ==
  \E v2, w2 :
    /\ Outcome(m, t, S \cup {k}, v2, w2)
    /\ v2 = v \/ (v2 = v + 1 /\ w2 < v2)
    /\ v # 0 /\ w < v => v2 = v

(* f inserts k into trees of less than n entries. *)
Inserts(k, f, n) ==
  \A m, r, S, v, w :
    Heap(m) /\ Piece(m, r, S, v, w) /\ k \notin S /\ Cardinality(S) < n =>
      InsertResult(k, m, f[Tree(m, r)], S, v, w)

LEMMA InsertLeaf ==
  ASSUME NEW k \in Entries, NEW m, Heap(m), NEW f, NEW S, NEW v, NEW w, Piece(m, nil, S, v, w)
  PROVE  InsertResult(k, m, InsertStep(k, f, Tree(m, nil)), S, v, w)
<1> DEFINE leaf == [link |-> [d \in 0 .. 1 |-> nil], level |-> 1]
           m2 == [m EXCEPT ![k] = leaf]
<1>1. S = {} /\ v = 0
  BY PieceType
<1>2. m \in Memory /\ NilOK(m) /\ k \in Nodes /\ k # nil
  BY EntryType DEF Heap
<1>3. leaf \in Node /\ leaf.link[0] = nil /\ leaf.link[1] = nil /\ leaf.level = 1
  BY DEF Node, Nodes
<1> HIDE DEF leaf
<1>4. m2 \in Memory /\ Cell(m2, k, nil, nil, 1) /\ Apart(m, m2, {k})
  BY <1>2, <1>3 DEF Memory, Cell, Link, Level, Apart, Same
<1>5. InsertStep(k, f, Tree(m, nil)) = Tree(m2, k)
  BY DEF InsertStep, Tree, leaf
<1> HIDE DEF m2
<1>6. Heap(m2)
  BY <1>2, <1>4, NilKept DEF Heap
<1>7. Piece(m2, nil, {}, 0, 0)
  BY <1>6, EmptyPiece
<1>8. Piece(m2, k, {} \cup {k} \cup {}, 1, 0)
  BY <1>4, <1>6, <1>7, PieceFold
<1>9. {} \cup {k} \cup {} = S \cup {k} /\ {k} = S \cup {k}
  BY <1>1
<1>10. Outcome(m, Tree(m2, k), S \cup {k}, 1, 0)
  BY <1>4, <1>6, <1>8, <1>9, OutcomeOf
<1> QED BY <1>1, <1>5, <1>10 DEF InsertResult

LEMMA InsertLeft ==
  ASSUME NEW k \in Entries, NEW m, Heap(m), NEW r \in Entries, NEW a, NEW b, NEW v \in Nat, v # 0,
         Cell(m, r, a, b, v),
         NEW L, NEW p, Piece(m, a, L, v - 1, p),
         NEW H, NEW w, NEW q, Piece(m, b, H, w, q),
         w = v - 1 \/ w = v, q < v,
         Between(L, r, H), k < r,
         NEW t1, InsertResult(k, m, t1, L, v - 1, p)
  PROVE  LET skewed == TreeSkew(Attach(t1, r, 0), r)
         IN InsertResult(k, m, TreeSplit(skewed.mem, skewed.root), L \cup {r} \cup H, v, w)
<1> DEFINE m1 == Attach(t1, r, 0)
           skewed == TreeSkew(m1, r)
           t == TreeSplit(skewed.mem, skewed.root)
           K == L \cup {k}
           S == L \cup {r} \cup H
           l == t1.root
<1>1. PICK v2, w2 :
        /\ Outcome(m, t1, K, v2, w2)
        /\ v2 = v - 1 \/ (v2 = (v - 1) + 1 /\ w2 < v2)
  BY DEF InsertResult
<1>2. r \in Nodes /\ r \in Nat /\ k \in Nat /\ L \subseteq Entries /\ H \subseteq Entries /\ K \subseteq Entries
  BY EntryType, PieceType
<1>3. /\ \A x \in K : x \in Nat /\ x < r
      /\ \A x \in H : x \in Nat /\ r < x
  BY <1>2, EntryType DEF Between
<1>4. Heap(t1.mem) /\ Apart(m, t1.mem, K) /\ Piece(t1.mem, l, K, v2, w2)
  BY <1>1 DEF Outcome
<1>5. l \in K /\ l \in Entries /\ l # nil /\ l \in Nodes /\ v2 \in Nat /\ w2 \in Nat
  <2>1. K # {}
    OBVIOUS
  <2> QED BY <1>4, <2>1, PieceType
<1> HIDE DEF K, S
<1>6. r \notin K /\ H \cap K = {} /\ H \cap {r} = {} /\ K \cap {r} = {}
  <2>1. r \notin K /\ r \notin H
    BY <1>2, <1>3
  <2>2. \A x \in H : x \notin K
    <3> SUFFICES ASSUME NEW x \in H, x \in K PROVE FALSE
      OBVIOUS
    <3>1. x \in Nat /\ x < r /\ r < x
      BY <1>3
    <3> QED BY <1>2, <3>1
  <2> QED BY <2>1, <2>2
<1>7. Cell(t1.mem, r, a, b, v) /\ Piece(t1.mem, b, H, w, q)
  BY <1>2, <1>4, <1>6, CellKept, PieceFrame
<1>8. Heap(m1) /\ Cell(m1, r, l, b, v) /\ Apart(t1.mem, m1, {r})
  BY <1>4, <1>5, <1>7, AttachFacts
<1> HIDE DEF m1
<1>9. Piece(m1, l, K, v2, w2) /\ Piece(m1, b, H, w, q)
  BY <1>4, <1>6, <1>7, <1>8, PieceFrame
<1>10. Apart(m, m1, K \cup {r})
  BY <1>4, <1>8, ApartTwice
<1>11. K \cup {r} \cup H = S \cup {k}
  BY DEF K, S
<1>12. w \in Nat /\ q \in Nat
  BY PieceType
<1>13. CASE v2 = v - 1
  <2>1. Level(m1, r) = v /\ Link(m1, r, 0) = l /\ Link(m1, r, 1) = b
        /\ Level(m1, l) = v - 1 /\ Level(m1, Link(m1, b, 1)) = q
    BY <1>8, <1>9, <1>13 DEF Cell, Piece
  <2>2. skewed.root = r /\ skewed.mem = m1
    BY <2>1, SkewNo
  <2>3. t.root = r /\ t.mem = m1
    BY <2>1, <2>2, SplitNo
  <2>4. Piece(m1, r, K \cup {r} \cup H, v, w)
    <3>1. v = v2 + 1 /\ (w = v2 \/ w = v)
      BY <1>13
    <3> QED BY <1>3, <1>8, <1>9, <3>1, PieceFold
  <2>5. Apart(m, m1, S \cup {k})
    <3>1. K \cup {r} \subseteq S \cup {k}
      BY <1>11
    <3> QED BY <1>10, <3>1, ApartMore
  <2>6. Outcome(m, t, S \cup {k}, v, w)
    BY <1>8, <1>11, <2>3, <2>4, <2>5 DEF Outcome
  <2> QED BY <2>6 DEF InsertResult, S, m1
<1>14. CASE v2 = v
  <2>1. PICK l1, l2, p1, p2 :
          /\ Cell(m1, l, l1, l2, v)
          /\ Piece(m1, l1, Lower(K, l), v - 1, p1)
          /\ Piece(m1, l2, Upper(K, l), w2, p2)
          /\ w2 = v - 1 \/ w2 = v
          /\ p2 < v
    BY <1>5, <1>8, <1>9, <1>14, PieceUnfold
  <2> DEFINE K1 == Lower(K, l)
             K2 == Upper(K, l)
  <2>2. /\ K1 \subseteq K /\ K2 \subseteq K /\ Between(K1, l, K2) /\ K = K1 \cup {l} \cup K2
        /\ l \notin K1 /\ l \notin K2
    <3>1. K \subseteq Entries
      BY <1>2
    <3> QED BY <1>5, <3>1, Parts
  <2>3. Piece(m1, l1, K1, v - 1, p1) /\ Piece(m1, l2, K2, v - 1, p2)
    <3>1. w2 = v - 1
      BY <1>1, <1>14, <2>1
    <3> QED BY <2>1, <3>1
  <2> HIDE DEF K1, K2
  <2>4. p1 \in Nat /\ p1 < v
    BY <1>8, <2>3, PieceType
  <2>5. /\ r # l /\ l < r
        /\ K1 \cap {r, l} = {} /\ K2 \cap {r, l} = {} /\ H \cap {r, l} = {}
    BY <1>3, <1>5, <1>6, <2>2
  <2> DEFINE m2 == skewed.mem
  <2>6. /\ skewed.root = l
        /\ Heap(m2)
        /\ Cell(m2, l, l1, r, v)
        /\ Cell(m2, r, l2, b, v)
        /\ Apart(m1, m2, {r, l})
    BY <1>5, <1>8, <2>1, <2>5, SkewYes
  <2> HIDE DEF m2
  <2>7. Piece(m2, l1, K1, v - 1, p1) /\ Piece(m2, l2, K2, v - 1, p2) /\ Piece(m2, b, H, w, q)
    BY <1>8, <1>9, <2>3, <2>5, <2>6, PieceFrame
  <2>8. t = TreeSplit(m2, l)
    BY <2>6 DEF m2
  <2> HIDE DEF skewed
  <2>9. Apart(m, m2, S \cup {k})
    <3>1. Apart(m, m2, (K \cup {r}) \cup {r, l})
      BY <1>10, <2>6, ApartTwice
    <3>2. (K \cup {r}) \cup {r, l} \subseteq S \cup {k}
      BY <1>5, <1>11
    <3> QED BY <3>1, <3>2, ApartMore
  <2>10. Level(m2, l) = v /\ Link(m2, l, 1) = r /\ Link(m2, r, 1) = b /\ Level(m2, b) = w
         /\ Link(m2, r, 0) = l2 /\ Level(m2, r) = v
    BY <2>6, <2>7 DEF Cell, Piece
  <2>11. CASE w = v - 1
    <3>1. t.root = l /\ t.mem = m2
      BY <2>8, <2>10, <2>11, SplitNo
    <3>2. Piece(m2, r, K2 \cup {r} \cup H, v, v - 1)
      <4>1. (\A x \in K2 : x < r) /\ (\A x \in H : r < x)
        BY <1>3, <2>2
      <4>2. v = (v - 1) + 1
        OBVIOUS
      <4> QED BY <2>6, <2>7, <2>11, <4>1, <4>2, PieceFold
    <3>3. Piece(m2, l, K1 \cup {l} \cup (K2 \cup {r} \cup H), v, v)
      <4>1. (\A x \in K1 : x < l) /\ (\A x \in K2 \cup {r} \cup H : l < x)
        <5>1. l \in Nat /\ l < r
          BY <1>3, <1>5
        <5>2. (\A x \in K1 : x < l) /\ (\A x \in K2 : l < x)
          BY <2>2 DEF Between
        <5>3. \A x \in H : l < x
          BY <1>2, <1>3, <5>1
        <5> QED BY <5>1, <5>2, <5>3
      <4>2. v = (v - 1) + 1 /\ v - 1 < v
        OBVIOUS
      <4> QED BY <1>5, <2>6, <2>7, <3>2, <4>1, <4>2, PieceFold
    <3>4. K1 \cup {l} \cup (K2 \cup {r} \cup H) = S \cup {k}
      BY <1>11, <2>2
    <3>5. Outcome(m, t, S \cup {k}, v, v)
      BY <2>6, <2>9, <3>1, <3>3, <3>4 DEF Outcome
    <3> QED BY <3>5 DEF InsertResult, S, m1, skewed
  <2>12. CASE w = v
    <3> DEFINE m3 == t.mem
    <3>1. /\ t.root = r
          /\ Heap(m3)
          /\ Cell(m3, r, l, b, v + 1)
          /\ Cell(m3, l, l1, l2, v)
          /\ Apart(m2, m3, {l, r})
      BY <1>5, <2>5, <2>6, <2>8, <2>10, <2>12, SplitYes DEF Cell
    <3> HIDE DEF m3
    <3>2. Piece(m3, l1, K1, v - 1, p1) /\ Piece(m3, l2, K2, v - 1, p2) /\ Piece(m3, b, H, v, q)
      <4>1. {l, r} = {r, l}
        OBVIOUS
      <4> QED BY <2>5, <2>6, <2>7, <2>12, <3>1, <4>1, PieceFrame
    <3>3. Piece(m3, l, K1 \cup {l} \cup K2, v, v - 1)
      <4>1. (\A x \in K1 : x < l) /\ (\A x \in K2 : l < x)
        BY <2>2 DEF Between
      <4>2. v = (v - 1) + 1
        OBVIOUS
      <4> QED BY <1>5, <2>1, <3>1, <3>2, <4>1, <4>2, PieceFold
    <3>4. Piece(m3, r, (K1 \cup {l} \cup K2) \cup {r} \cup H, v + 1, v)
      <4>1. (\A x \in K1 \cup {l} \cup K2 : x < r) /\ (\A x \in H : r < x)
        BY <1>3, <2>2
      <4>2. q < v + 1
        BY <1>12
      <4> QED BY <3>1, <3>2, <3>3, <4>1, <4>2, PieceFold
    <3>5. (K1 \cup {l} \cup K2) \cup {r} \cup H = S \cup {k}
      BY <1>11, <2>2
    <3>6. Apart(m, m3, S \cup {k})
      <4>1. Apart(m, m3, (S \cup {k}) \cup {l, r})
        BY <2>9, <3>1, ApartTwice
      <4>2. (S \cup {k}) \cup {l, r} \subseteq S \cup {k}
        BY <1>5, <1>11
      <4> QED BY <4>1, <4>2, ApartMore
    <3>7. Outcome(m, t, S \cup {k}, v + 1, v)
      BY <3>1, <3>4, <3>5, <3>6 DEF Outcome, m3
    <3>8. v < v + 1 /\ ~ (w < v)
      BY <2>12
    <3> QED BY <3>7, <3>8 DEF InsertResult, S, m1, skewed
  <2> QED BY <2>11, <2>12
<1> QED BY <1>1, <1>13, <1>14

LEMMA InsertRight ==
  ASSUME NEW k \in Entries, NEW m, Heap(m), NEW r \in Entries, NEW a, NEW b, NEW v \in Nat, v # 0,
         Cell(m, r, a, b, v),
         NEW L, NEW p, Piece(m, a, L, v - 1, p),
         NEW H, NEW w, NEW q, Piece(m, b, H, w, q),
         w = v - 1 \/ w = v, q < v,
         Between(L, r, H), r < k,
         NEW t1, InsertResult(k, m, t1, H, w, q)
  PROVE  LET skewed == TreeSkew(Attach(t1, r, 1), r)
         IN InsertResult(k, m, TreeSplit(skewed.mem, skewed.root), L \cup {r} \cup H, v, w)
<1> DEFINE m1 == Attach(t1, r, 1)
           skewed == TreeSkew(m1, r)
           t == TreeSplit(skewed.mem, skewed.root)
           K == H \cup {k}
           S == L \cup {r} \cup H
           h == t1.root
<1>1. PICK v2, w2 :
        /\ Outcome(m, t1, K, v2, w2)
        /\ v2 = w \/ (v2 = w + 1 /\ w2 < v2)
        /\ w # 0 /\ q < w => v2 = w
  BY DEF InsertResult
<1>2. r \in Nodes /\ r \in Nat /\ k \in Nat /\ L \subseteq Entries /\ H \subseteq Entries /\ K \subseteq Entries
      /\ w \in Nat /\ q \in Nat
  BY EntryType, PieceType
<1>3. /\ \A x \in K : x \in Nat /\ r < x
      /\ \A x \in L : x \in Nat /\ x < r
  BY <1>2, EntryType DEF Between
<1>4. Heap(t1.mem) /\ Apart(m, t1.mem, K) /\ Piece(t1.mem, h, K, v2, w2)
  BY <1>1 DEF Outcome
<1>5. h \in K /\ h \in Entries /\ h # nil /\ h \in Nodes /\ v2 \in Nat /\ w2 \in Nat /\ w2 <= v2
  <2>1. K # {}
    OBVIOUS
  <2> QED BY <1>4, <2>1, PieceType
<1> HIDE DEF K, S
<1>6. r \notin K /\ L \cap K = {} /\ L \cap {r} = {} /\ K \cap {r} = {}
  <2>1. r \notin K /\ r \notin L
    BY <1>2, <1>3
  <2>2. \A x \in L : x \notin K
    <3> SUFFICES ASSUME NEW x \in L, x \in K PROVE FALSE
      OBVIOUS
    <3>1. x \in Nat /\ x < r /\ r < x
      BY <1>3
    <3> QED BY <1>2, <3>1
  <2> QED BY <2>1, <2>2
<1>7. Cell(t1.mem, r, a, b, v) /\ Piece(t1.mem, a, L, v - 1, p)
  BY <1>2, <1>4, <1>6, CellKept, PieceFrame
<1>8. Heap(m1) /\ Cell(m1, r, a, h, v) /\ Apart(t1.mem, m1, {r})
  BY <1>4, <1>5, <1>7, AttachFacts
<1> HIDE DEF m1
<1>9. Piece(m1, h, K, v2, w2) /\ Piece(m1, a, L, v - 1, p)
  BY <1>4, <1>6, <1>7, <1>8, PieceFrame
<1>10. Apart(m, m1, S \cup {k})
  <2>1. Apart(m, m1, K \cup {r})
    BY <1>4, <1>8, ApartTwice
  <2>2. K \cup {r} \subseteq S \cup {k}
    BY DEF K, S
  <2> QED BY <2>1, <2>2, ApartMore
<1>11. L \cup {r} \cup K = S \cup {k}
  BY DEF K, S
<1>12. Level(m1, r) = v /\ Link(m1, r, 0) = a /\ Link(m1, r, 1) = h
       /\ Level(m1, a) = v - 1 /\ Level(m1, Link(m1, h, 1)) = w2 /\ Level(m1, h) = v2
  BY <1>8, <1>9 DEF Cell, Piece
<1>13. v - 1 # v
  OBVIOUS
<1>14. skewed.root = r /\ skewed.mem = m1
  BY <1>12, <1>13, SkewNo
<1>15. t = TreeSplit(m1, r)
  BY <1>14
<1> HIDE DEF skewed
<1>16. v2 = v - 1 \/ v2 = v
  BY <1>1, <1>2
<1>17. CASE w2 # v
  <2>1. t.root = r /\ t.mem = m1
    BY <1>12, <1>15, <1>17, SplitNo
  <2>2. Piece(m1, r, L \cup {r} \cup K, v, v2)
    <3>1. w2 < v /\ v = (v - 1) + 1
      BY <1>5, <1>16, <1>17
    <3> QED BY <1>3, <1>8, <1>9, <1>16, <3>1, PieceFold
  <2>3. Outcome(m, t, S \cup {k}, v, v2)
    BY <1>8, <1>10, <1>11, <2>1, <2>2 DEF Outcome
  <2> QED BY <2>3 DEF InsertResult, S, skewed, m1
<1>18. CASE w2 = v
  <2> HIDE DEF h
  <2>1. v2 = v /\ w = v
    BY <1>1, <1>2, <1>5, <1>16, <1>18
  <2>2. PICK h1, h2, p1, p2 :
          /\ Cell(m1, h, h1, h2, v2)
          /\ Piece(m1, h1, Lower(K, h), v2 - 1, p1)
          /\ Piece(m1, h2, Upper(K, h), w2, p2)
          /\ p2 < v2
    BY <1>5, <1>8, <1>9, PieceUnfold
  <2> DEFINE K1 == Lower(K, h)
             K2 == Upper(K, h)
  <2>3. /\ K1 \subseteq K /\ K2 \subseteq K /\ Between(K1, h, K2) /\ K = K1 \cup {h} \cup K2
        /\ h \notin K1 /\ h \notin K2
    BY <1>2, <1>5, Parts
  <2>4. Cell(m1, h, h1, h2, v) /\ Piece(m1, h1, K1, v - 1, p1) /\ Piece(m1, h2, K2, v, p2) /\ p2 < v
    BY <1>18, <2>1, <2>2
  <2> HIDE DEF K1, K2
  <2>5. r # h /\ r < h /\ K1 \cap {r, h} = {} /\ K2 \cap {r, h} = {} /\ L \cap {r, h} = {}
    BY <1>3, <1>5, <1>6, <2>3
  <2> DEFINE m2 == t.mem
  <2>6. Link(m1, h, 0) = h1 /\ Link(m1, h, 1) = h2 /\ Level(m1, h) = v /\ Level(m1, h2) = v
    BY <2>4 DEF Cell, Piece
  <2>7. /\ t.root = h
        /\ Heap(m2)
        /\ Link(m2, h, 0) = r /\ Link(m2, h, 1) = h2 /\ Level(m2, h) = v + 1
        /\ Cell(m2, r, a, h1, v)
        /\ Apart(m1, m2, {r, h})
    <3>1. /\ TreeSplit(m1, r).root = h
          /\ Heap(TreeSplit(m1, r).mem)
          /\ Link(TreeSplit(m1, r).mem, h, 0) = r
          /\ Link(TreeSplit(m1, r).mem, h, 1) = h2
          /\ Level(TreeSplit(m1, r).mem, h) = Level(m1, h) + 1
          /\ Cell(TreeSplit(m1, r).mem, r, a, h1, v)
          /\ Apart(m1, TreeSplit(m1, r).mem, {r, h})
      <4>1. Link(m1, h, 0) = h1 /\ Link(m1, h, 1) = h2 /\ Level(m1, h2) = v
        BY <2>6
      <4>2. Heap(m1) /\ Cell(m1, r, a, h, v) /\ r # h /\ h \in Entries /\ v # 0
        BY <1>5, <1>8, <2>5
      <4> QED BY <4>1, <4>2, SplitYes DEF Cell
    <3> QED BY <1>15, <2>6, <3>1
  <2> HIDE DEF t, m2
  <2>8. Cell(m2, h, r, h2, v + 1)
    BY <2>7 DEF Cell
  <2>9. Piece(m2, h1, K1, v - 1, p1) /\ Piece(m2, h2, K2, v, p2) /\ Piece(m2, a, L, v - 1, p)
    BY <1>8, <1>9, <2>4, <2>5, <2>7, PieceFrame
  <2>10. p1 \in Nat /\ p1 <= v - 1 /\ p2 \in Nat
    BY <2>7, <2>9, PieceType
  <2>11. Piece(m2, r, L \cup {r} \cup K1, v, v - 1)
    <3>1. (\A x \in L : x < r) /\ (\A x \in K1 : r < x)
      BY <1>3, <2>3
    <3>2. v = (v - 1) + 1 /\ p1 < v
      BY <2>10
    <3> QED BY <2>7, <2>9, <3>1, <3>2, PieceFold
  <2>12. Piece(m2, h, (L \cup {r} \cup K1) \cup {h} \cup K2, v + 1, v)
    <3>1. (\A x \in L \cup {r} \cup K1 : x < h) /\ (\A x \in K2 : h < x)
      <4>1. \A x \in L : x < h
        BY <1>2, <1>3, <1>5, <2>5
      <4>2. (\A x \in K1 : x < h) /\ (\A x \in K2 : h < x)
        BY <2>3 DEF Between
      <4> QED BY <2>5, <4>1, <4>2
    <3>2. p2 < v + 1
      BY <2>4, <2>10
    <3> QED BY <1>5, <2>7, <2>8, <2>9, <2>11, <3>1, <3>2, PieceFold
  <2>13. (L \cup {r} \cup K1) \cup {h} \cup K2 = S \cup {k}
    BY <1>11, <2>3
  <2>14. Apart(m, m2, S \cup {k})
    <3>1. Apart(m, m2, (S \cup {k}) \cup {r, h})
      BY <1>10, <2>7, ApartTwice
    <3>2. (S \cup {k}) \cup {r, h} \subseteq S \cup {k}
      BY <1>5, <1>11
    <3> QED BY <3>1, <3>2, ApartMore
  <2>15. Outcome(m, t, S \cup {k}, v + 1, v)
    BY <2>7, <2>12, <2>13, <2>14 DEF Outcome, m2
  <2>16. v < v + 1 /\ ~ (w < v)
    BY <2>1
  <2> QED BY <2>15, <2>16 DEF InsertResult, S, t, skewed, m1
<1> QED BY <1>17, <1>18

LEMMA InsertStepOK ==
  ASSUME NEW k \in Entries, NEW f, NEW n \in Nat, Inserts(k, f, n),
         NEW m, NEW r, NEW S, NEW v, NEW w,
         Heap(m), Piece(m, r, S, v, w), k \notin S, Cardinality(S) < n + 1
  PROVE  InsertResult(k, m, InsertStep(k, f, Tree(m, r)), S, v, w)
<1>1. CASE r = nil
  BY <1>1, InsertLeaf
<1>2. CASE r # nil
  <2>1. PICK a, b, p, q :
          /\ Cell(m, r, a, b, v)
          /\ Piece(m, a, Lower(S, r), v - 1, p)
          /\ Piece(m, b, Upper(S, r), w, q)
          /\ w = v - 1 \/ w = v
          /\ q < v
    BY <1>2, PieceUnfold
  <2> DEFINE L == Lower(S, r)
             H == Upper(S, r)
  <2>2. r \in S /\ r \in Entries /\ v \in Nat /\ v # 0 /\ S \subseteq Entries
    BY <1>2, PieceType
  <2>3. Between(L, r, H) /\ S = L \cup {r} \cup H /\ L \subseteq S /\ H \subseteq S
    BY <2>2, Parts
  <2>4. Cardinality(L) < n /\ Cardinality(H) < n
    <3>1. Cardinality(L) \in Nat /\ Cardinality(H) \in Nat
          /\ Cardinality(S) = Cardinality(L) + 1 + Cardinality(H)
      BY <2>2, SmallerParts
    <3> HIDE DEF L, H
    <3> QED BY <3>1
  <2>5. Link(m, r, 0) = a /\ Link(m, r, 1) = b
    BY <2>1 DEF Cell
  <2> HIDE DEF L, H
  <2>6. Piece(m, a, L, v - 1, p) /\ Piece(m, b, H, w, q)
    BY <2>1 DEF L, H
  <2>7. k # r /\ k \notin L /\ k \notin H /\ k \in Nat /\ r \in Nat
    BY <2>2, <2>3, EntryType
  <2>8. Tree(m, r).mem = m /\ Tree(m, r).root = r
    BY DEF Tree
  <2>9. CASE k < r
    <3>1. Direction(r, k) = 0
      BY <2>2, <2>9, Directions
    <3> DEFINE t1 == f[Tree(m, a)]
    <3>2. InsertResult(k, m, t1, L, v - 1, p)
      BY <2>4, <2>6, <2>7 DEF Inserts
    <3>3. InsertStep(k, f, Tree(m, r)) =
            LET skewed == TreeSkew(Attach(t1, r, 0), r) IN TreeSplit(skewed.mem, skewed.root)
      BY <1>2, <2>5, <2>8, <3>1 DEF InsertStep
    <3> HIDE DEF t1
    <3>4. LET skewed == TreeSkew(Attach(t1, r, 0), r)
          IN InsertResult(k, m, TreeSplit(skewed.mem, skewed.root), L \cup {r} \cup H, v, w)
      BY <2>1, <2>2, <2>3, <2>6, <2>9, <3>2, InsertLeft
    <3> QED BY <2>3, <3>3, <3>4
  <2>10. CASE r < k
    <3>1. Direction(r, k) = 1
      BY <2>2, <2>10, Directions
    <3> DEFINE t1 == f[Tree(m, b)]
    <3>2. InsertResult(k, m, t1, H, w, q)
      BY <2>4, <2>6, <2>7 DEF Inserts
    <3>3. InsertStep(k, f, Tree(m, r)) =
            LET skewed == TreeSkew(Attach(t1, r, 1), r) IN TreeSplit(skewed.mem, skewed.root)
      BY <1>2, <2>5, <2>8, <3>1 DEF InsertStep
    <3> HIDE DEF t1
    <3>4. LET skewed == TreeSkew(Attach(t1, r, 1), r)
          IN InsertResult(k, m, TreeSplit(skewed.mem, skewed.root), L \cup {r} \cup H, v, w)
      BY <2>1, <2>2, <2>3, <2>6, <2>10, <3>2, InsertRight
    <3> QED BY <2>3, <3>3, <3>4
  <2>11. k < r \/ r < k
    BY <2>7
  <2> QED BY <2>9, <2>10, <2>11
<1> QED BY <1>1, <1>2

(* No tree has more than Depth - 1 entries. *)
LEMMA SmallEnough ==
  ASSUME NEW S, S \subseteq Entries
  PROVE  Cardinality(S) \in Nat /\ Cardinality(S) < Depth /\ Depth \in Nat
<1>1. IsFiniteSet(S) /\ Cardinality(S) <= Cardinality(Entries)
  BY HeapTreeAssumption, FS_Subset
<1>2. Cardinality(S) \in Nat /\ Cardinality(Entries) \in Nat
  BY <1>1, HeapTreeAssumption, FS_CardinalityType
<1> QED BY <1>1, <1>2 DEF Depth

(* TreeInsert makes a tree of a tree and an entry that is not in it. *)
LEMMA TreeInsertOK ==
  ASSUME NEW k \in Entries, NEW m, NEW r, NEW S, NEW v, NEW w,
         Heap(m), Piece(m, r, S, v, w), k \notin S
  PROVE  InsertResult(k, m, TreeInsert(m, r, k), S, v, w)
<1> DEFINE P == {d \in Nat : Inserts(k, Insertion(k)[d], d)}
<1>1. 0 \in P
  <2>1. \A X : (X \subseteq Entries) => ~ (Cardinality(X) < 0)
    BY SmallEnough
  <2> QED BY <2>1, PieceType DEF Inserts
<1>2. \A d \in P : d + 1 \in P
  <2> SUFFICES ASSUME NEW d \in P PROVE d + 1 \in P
    OBVIOUS
  <2>1. d \in Nat /\ Inserts(k, Insertion(k)[d], d)
    OBVIOUS
  <2>2. Inserts(k, Insertion(k)[d + 1], d + 1)
    <3> SUFFICES ASSUME NEW x, NEW y, NEW T, NEW i, NEW j, Heap(x), Piece(x, y, T, i, j), k \notin T,
                        Cardinality(T) < d + 1
                 PROVE  InsertResult(k, x, Insertion(k)[d + 1][Tree(x, y)], T, i, j)
      BY DEF Inserts
    <3>1. Tree(x, y) \in Trees
      BY DEF Heap, Piece, Tree, Trees
    <3>2. Insertion(k)[d + 1][Tree(x, y)] = InsertStep(k, Insertion(k)[d], Tree(x, y))
      BY <2>1, <3>1, InsertionIs
    <3> QED BY <2>1, <3>2, InsertStepOK
  <2> QED BY <2>1, <2>2
<1>3. P = Nat
  <2>1. P \in SUBSET Nat
    OBVIOUS
  <2> HIDE DEF P
  <2> QED BY <1>1, <1>2, <2>1, Induction
<1>4. S \subseteq Entries
  BY PieceType
<1>5. Cardinality(S) < Depth /\ Depth \in Nat
  BY <1>4, SmallEnough
<1>6. Inserts(k, Insertion(k)[Depth], Depth)
  BY <1>3, <1>5
<1> QED BY <1>5, <1>6 DEF Inserts, TreeInsert

-----------------------------------------------------------------------------
(* The heir *)

LEMMA RightmostIs ==
  ASSUME NEW m \in Memory
  PROVE  /\ RightmostBelow(m) \in [Nat -> [Nodes \X Nodes -> Nodes \X Nodes]]
         /\ \A d \in Nat : \A p, n \in Nodes :
              RightmostBelow(m)[d + 1][<<p, n>>] = RightmostStep(m, RightmostBelow(m)[d], <<p, n>>)
<1> DEFINE Pairs == Nodes \X Nodes
           Y == [Pairs -> Pairs]
           G == [z \in Nat \X Y |-> [t \in Pairs |-> RightmostStep(m, z[2], t)]]
           y0 == [t \in Pairs |-> t]
           Is(f) == f = [d \in Nat |-> [t \in Pairs |-> IF d = 0 THEN t ELSE RightmostStep(m, f[d - 1], t)]]
<1>1. \A g \in Y, t \in Pairs : RightmostStep(m, g, t) \in Pairs
  <2> SUFFICES ASSUME NEW g \in Y, NEW t \in Pairs PROVE RightmostStep(m, g, t) \in Pairs
    OBVIOUS
  <2>1. t[2] \in Nodes
    OBVIOUS
  <2>2. Link(m, t[2], 1) \in Nodes
    BY <2>1, MemoryType
  <2>3. <<t[2], Link(m, t[2], 1)>> \in Pairs
    BY <2>1, <2>2
  <2> HIDE DEF Pairs
  <2>4. g[<<t[2], Link(m, t[2], 1)>>] \in Pairs
    BY <2>3
  <2> QED BY <2>4 DEF RightmostStep
<1>2. G \in [Nat \X Y -> Y]
  <2> HIDE DEF Pairs
  <2>1. \A z \in Nat \X Y : [t \in Pairs |-> RightmostStep(m, z[2], t)] \in Y
    BY <1>1
  <2> QED BY <2>1
<1>3. y0 \in Y
  OBVIOUS
<1>4. \A d \in Nat, g \in Y : G[<<d, g>>] = [t \in Pairs |-> RightmostStep(m, g, t)]
  OBVIOUS
<1> HIDE DEF G, Pairs
<1>5. PICK f : Goes(Y, G, y0, f)
  <2> HIDE DEF Y, y0
  <2> QED BY <1>2, <1>3, Recursion
<1>6. \A d \in Nat : f[d] = [t \in Pairs |-> IF d = 0 THEN t ELSE RightmostStep(m, f[d - 1], t)]
  <2> SUFFICES ASSUME NEW d \in Nat
               PROVE  f[d] = [t \in Pairs |-> IF d = 0 THEN t ELSE RightmostStep(m, f[d - 1], t)]
    OBVIOUS
  <2>1. CASE d = 0
    BY <1>5, <2>1 DEF Goes
  <2>2. CASE d # 0
    <3>1. d - 1 \in Nat /\ (d - 1) + 1 = d
      BY <2>2
    <3>2. f[d] = G[<<d - 1, f[d - 1]>>] /\ f[d - 1] \in Y
      BY <1>5, <3>1 DEF Goes
    <3>3. f[d] = [t \in Pairs |-> RightmostStep(m, f[d - 1], t)]
      BY <1>4, <3>1, <3>2
    <3> QED BY <2>2, <3>3
  <2> QED BY <2>1, <2>2
<1>7. Is(f)
  BY <1>5, <1>6 DEF Goes
<1>8. RightmostBelow(m) = CHOOSE g : Is(g)
  BY DEF RightmostBelow, Pairs
<1>9. Is(RightmostBelow(m))
  <2> HIDE DEF Is
  <2> QED BY <1>7, <1>8
<1> DEFINE F == RightmostBelow(m)
<1>10. F = [d \in Nat |-> [t \in Pairs |-> IF d = 0 THEN t ELSE RightmostStep(m, F[d - 1], t)]]
  BY <1>9
<1> HIDE DEF F
<1>11. \A d \in Nat : F[d + 1] = [t \in Pairs |-> RightmostStep(m, F[d], t)]
  <2> SUFFICES ASSUME NEW d \in Nat PROVE F[d + 1] = [t \in Pairs |-> RightmostStep(m, F[d], t)]
    OBVIOUS
  <2>1. d + 1 \in Nat /\ d + 1 # 0 /\ (d + 1) - 1 = d
    OBVIOUS
  <2>2. F[d + 1] = [x \in Pairs |-> IF d + 1 = 0 THEN x ELSE RightmostStep(m, F[(d + 1) - 1], x)]
    BY <1>10, <2>1
  <2> QED BY <2>1, <2>2
<1> DEFINE P == {d \in Nat : F[d] \in Y}
<1>12. 0 \in P
  BY <1>10
<1>13. \A d \in P : d + 1 \in P
  <2> SUFFICES ASSUME NEW d \in P PROVE d + 1 \in P
    OBVIOUS
  <2>1. d \in Nat /\ F[d] \in Y /\ d + 1 \in Nat
    OBVIOUS
  <2>2. F[d + 1] = [x \in Pairs |-> RightmostStep(m, F[d], x)]
    BY <1>11, <2>1
  <2>3. \A x \in Pairs : RightmostStep(m, F[d], x) \in Pairs
    BY <1>1, <2>1
  <2>4. F[d + 1] \in Y
    BY <2>2, <2>3
  <2> QED BY <2>1, <2>4
<1>14. P = Nat
  <2>1. P \in SUBSET Nat
    OBVIOUS
  <2> HIDE DEF P
  <2> QED BY <1>12, <1>13, <2>1, Induction
<1>15. F \in [Nat -> Y]
  BY <1>10, <1>14
<1>16. \A d \in Nat : \A p, n \in Nodes : F[d + 1][<<p, n>>] = RightmostStep(m, F[d], <<p, n>>)
  BY <1>11 DEF Pairs
<1> QED BY <1>15, <1>16 DEF F, Pairs

LEMMA RightmostType ==
  ASSUME NEW m \in Memory, NEW p \in Nodes, NEW n \in Nodes
  PROVE  Rightmost(m, p, n) \in Nodes \X Nodes
<1>1. Depth \in Nat
  BY SmallEnough
<1> QED BY <1>1, RightmostIs DEF Rightmost

(* The last entry of a tree, which has no right child; an entry above all  *)
(* of the tree may take the place of it.                                   *)
HeirOf(m, p, n, S, v, w, pair) ==
  /\ pair[2] \in S
  /\ \A x \in S \ {pair[2]} : x < pair[2]
  /\ Link(m, pair[2], 1) = nil
  /\ pair[2] = n => pair[1] = p
  /\ pair[2] # n => pair[1] \in S /\ pair[1] # pair[2]
  /\ \A m2, D, k :
       /\ Heap(m2) /\ Apart(m, m2, D) /\ D \cap S \subseteq {pair[1], pair[2]}
       /\ k \in Entries /\ \A x \in S : x < k
       /\ Cell(m2, k, Link(m, pair[2], 0), nil, Level(m, pair[2]))
       /\ pair[2] # n => Cell(m2, pair[1], Link(m, pair[1], 0), k, Level(m, pair[1]))
       => Piece(m2, IF pair[2] = n THEN k ELSE n, (S \ {pair[2]}) \cup {k}, v, w)

(* f finds the heirs of trees of less than d entries. *)
Heirs(m, f, d) ==
  \A p, n, S, v, w :
    p \in Nodes /\ n # nil /\ Piece(m, n, S, v, w) /\ p \notin S /\ Cardinality(S) < d =>
      HeirOf(m, p, n, S, v, w, f[<<p, n>>])

LEMMA HeirHere ==
  ASSUME NEW m, Heap(m), NEW p \in Nodes, NEW n, n # nil, NEW S, NEW v, NEW w, Piece(m, n, S, v, w),
         p \notin S, Link(m, n, 1) = nil
  PROVE  HeirOf(m, p, n, S, v, w, <<p, n>>)
<1>1. PICK a, b, x, q :
        /\ Cell(m, n, a, b, v)
        /\ Piece(m, a, Lower(S, n), v - 1, x)
        /\ Piece(m, b, Upper(S, n), w, q)
        /\ w = v - 1 \/ w = v
        /\ q < v
  BY PieceUnfold
<1> DEFINE A == Lower(S, n)
<1>2. n \in S /\ n \in Entries /\ S \subseteq Entries /\ v \in Nat /\ v # 0
  BY PieceType
<1>3. b = nil /\ Upper(S, n) = {} /\ w = 0
  <2>1. b = nil
    BY <1>1 DEF Cell
  <2> QED BY <1>1, <2>1, PieceType
<1>4. v = (v - 1) + 1 /\ w = v - 1 /\ 0 < v /\ x \in Nat
  <2>1. x \in Nat
    BY <1>1, PieceType
  <2> QED BY <1>1, <1>2, <1>3, <2>1
<1>5. S = A \cup {n} /\ n \notin A /\ \A y \in A : y < n
  BY <1>2, <1>3, Parts DEF Between
<1>6. Piece(m, a, A, v - 1, x) /\ Link(m, n, 0) = a /\ Level(m, n) = v
  BY <1>1 DEF Cell
<1> HIDE DEF A
<1> DEFINE Replaced ==
  \A m2, D, k :
    Heap(m2) /\ Apart(m, m2, D) /\ D \cap S \subseteq {p, n} /\ k \in Entries /\ (\A y \in S : y < k)
    /\ Cell(m2, k, a, nil, v) => Piece(m2, k, (S \ {n}) \cup {k}, v, w)
<1>7. Replaced
  <2> SUFFICES ASSUME NEW m2, NEW D, NEW k,
                      Heap(m2), Apart(m, m2, D), D \cap S \subseteq {p, n},
                      k \in Entries, \A y \in S : y < k,
                      Cell(m2, k, a, nil, v)
               PROVE  Piece(m2, k, (S \ {n}) \cup {k}, v, w)
    OBVIOUS
  <2>1. A \cap D = {}
    BY <1>5
  <2>2. Piece(m2, a, A, v - 1, x)
    BY <1>6, <2>1, PieceFrame
  <2>3. Piece(m2, nil, {}, v - 1, 0)
    BY <1>3, <1>4, EmptyPiece
  <2>4. \A y \in A : y < k
    BY <1>5
  <2>5. Piece(m2, k, A \cup {k} \cup {}, v, v - 1)
    BY <1>4, <2>2, <2>3, <2>4, PieceFold
  <2>6. A \cup {k} \cup {} = (S \ {n}) \cup {k}
    BY <1>5
  <2> QED BY <1>4, <2>5, <2>6
<1>8. \A y \in S \ {n} : y < n
  BY <1>5
<1>9. \A m2, D, k :
        /\ Heap(m2) /\ Apart(m, m2, D) /\ D \cap S \subseteq {p, n}
        /\ k \in Entries /\ \A y \in S : y < k
        /\ Cell(m2, k, Link(m, n, 0), nil, Level(m, n))
        /\ n # n => Cell(m2, p, Link(m, p, 0), k, Level(m, p))
        => Piece(m2, IF n = n THEN k ELSE n, (S \ {n}) \cup {k}, v, w)
  BY <1>6, <1>7
<1> DEFINE pair == <<p, n>>
<1>10. pair[1] = p /\ pair[2] = n
  OBVIOUS
<1> HIDE DEF pair
<1>11. HeirOf(m, p, n, S, v, w, pair)
  BY <1>2, <1>8, <1>9, <1>10 DEF HeirOf
<1> QED
  BY <1>11 DEF pair

LEMMA HeirBelow ==
  ASSUME NEW m, Heap(m), NEW p \in Nodes, NEW n, n # nil, NEW S, NEW v, NEW w, Piece(m, n, S, v, w),
         NEW b, b = Link(m, n, 1),
         NEW q, q < v, NEW pair, HeirOf(m, n, b, Upper(S, n), w, q, pair)
  PROVE  HeirOf(m, p, n, S, v, w, pair)
<1>1. PICK a, h, x, y :
        /\ Cell(m, n, a, h, v)
        /\ Piece(m, a, Lower(S, n), v - 1, x)
        /\ Piece(m, h, Upper(S, n), w, y)
        /\ w = v - 1 \/ w = v
        /\ y < v
  BY PieceUnfold
<1> DEFINE A == Lower(S, n)
           B == Upper(S, n)
           parent == pair[1]
           heir == pair[2]
<1>2. n \in S /\ n \in Entries /\ S \subseteq Entries /\ v \in Nat /\ v # 0 /\ n \in Nodes
  BY PieceType
<1>3. Between(A, n, B) /\ S = A \cup {n} \cup B /\ n \notin A /\ n \notin B
  BY <1>2, Parts
<1>4. A \cap B = {} /\ \A z \in S : z \in Nat
  <2>1. \A z \in S : z \in Nat
    BY <1>2, EntryType
  <2>2. ASSUME NEW z \in A, z \in B PROVE FALSE
    <3>1. z \in Nat /\ n \in Nat /\ z < n /\ n < z
      BY <1>2, <1>3, <2>1, <2>2 DEF Between
    <3> QED BY <3>1
  <2> HIDE DEF A, B
  <2> QED BY <2>1, <2>2
<1>5. h = b /\ Link(m, n, 0) = a /\ Level(m, n) = v /\ Cell(m, n, a, b, v)
  BY <1>1 DEF Cell
<1>6. Piece(m, a, A, v - 1, x) /\ Piece(m, b, B, w, y)
  BY <1>1, <1>5
<1> HIDE DEF A, B
<1>7. /\ heir \in B
      /\ \A z \in B \ {heir} : z < heir
      /\ Link(m, heir, 1) = nil
      /\ heir = b => parent = n
      /\ heir # b => parent \in B /\ parent # heir
      /\ \A m2, D, k :
           /\ Heap(m2) /\ Apart(m, m2, D) /\ D \cap B \subseteq {parent, heir}
           /\ k \in Entries /\ \A z \in B : z < k
           /\ Cell(m2, k, Link(m, heir, 0), nil, Level(m, heir))
           /\ heir # b => Cell(m2, parent, Link(m, parent, 0), k, Level(m, parent))
           => Piece(m2, IF heir = b THEN k ELSE b, (B \ {heir}) \cup {k}, w, q)
  BY DEF HeirOf, B
<1> HIDE DEF parent, heir
<1>8. heir \in S /\ heir # n /\ parent \in S /\ parent # heir
  BY <1>3, <1>7
<1>9. \A z \in S \ {heir} : z < heir
  <2> SUFFICES ASSUME NEW z \in S, z # heir PROVE z < heir
    OBVIOUS
  <2>1. n < heir /\ z \in Nat /\ heir \in Nat /\ n \in Nat
    BY <1>2, <1>3, <1>4, <1>7, <1>8 DEF Between
  <2>2. CASE z \in B
    BY <1>7, <2>2
  <2>3. CASE z \in A
    <3>1. z < n
      BY <1>3, <2>3 DEF Between
    <3> QED BY <2>1, <3>1
  <2>4. CASE z = n
    BY <2>1, <2>4
  <2> QED BY <1>3, <2>2, <2>3, <2>4
<1>10. ASSUME NEW m2, NEW D, NEW k,
              Heap(m2), Apart(m, m2, D), D \cap S \subseteq {parent, heir},
              k \in Entries, \A z \in S : z < k,
              Cell(m2, k, Link(m, heir, 0), nil, Level(m, heir)),
              Cell(m2, parent, Link(m, parent, 0), k, Level(m, parent))
       PROVE  Piece(m2, n, (S \ {heir}) \cup {k}, v, w)
  <2> DEFINE c == IF heir = b THEN k ELSE b
             C == (B \ {heir}) \cup {k}
  <2>1. Piece(m2, c, C, w, q)
    <3>1. D \cap B \subseteq {parent, heir} /\ \A z \in B : z < k
      BY <1>3, <1>10
    <3> QED BY <1>7, <1>10, <3>1
  <2>2. Cell(m2, n, a, c, v)
    <3>1. CASE heir = b
      BY <1>5, <1>7, <1>10, <3>1
    <3>2. CASE heir # b
      <4>1. n # parent /\ n # heir /\ n \notin D
        BY <1>2, <1>3, <1>7, <1>8, <1>10, <3>2
      <4> QED BY <1>2, <1>5, <1>10, <3>2, <4>1, CellKept
    <3> QED BY <3>1, <3>2
  <2>3. Piece(m2, a, A, v - 1, x)
    <3>1. A \cap D = {}
      <4> SUFFICES ASSUME NEW z \in A, z \in D PROVE FALSE
        OBVIOUS
      <4>1. z = parent \/ z = heir
        BY <1>3, <1>10
      <4>2. z = n \/ z \in B
        BY <1>7, <4>1
      <4> QED BY <1>3, <1>4, <4>2
    <3> QED BY <1>6, <1>10, <3>1, PieceFrame
  <2>4. /\ \A z \in A : z < n
        /\ \A z \in C : n < z
    <3>1. n < k
      BY <1>2, <1>10
    <3> QED BY <1>3, <3>1 DEF Between
  <2> HIDE DEF c, C
  <2>5. q < v /\ v = (v - 1) + 1
    BY <1>2
  <2>6. Piece(m2, n, A \cup {n} \cup C, v, w)
    BY <1>1, <1>2, <1>10, <2>1, <2>2, <2>3, <2>4, <2>5, PieceFold
  <2>7. A \cup {n} \cup C = (S \ {heir}) \cup {k}
    BY <1>3, <1>4, <1>7 DEF C
  <2> QED BY <2>6, <2>7
<1> QED
  BY <1>7, <1>8, <1>9, <1>10 DEF HeirOf, parent, heir

LEMMA HeirStep ==
  ASSUME NEW m, Heap(m), NEW f, NEW d \in Nat, Heirs(m, f, d),
         NEW p \in Nodes, NEW n, n # nil, NEW S, NEW v, NEW w, Piece(m, n, S, v, w),
         p \notin S, Cardinality(S) < d + 1
  PROVE  HeirOf(m, p, n, S, v, w, RightmostStep(m, f, <<p, n>>))
<1> DEFINE b == Link(m, n, 1)
<1>1. CASE b = nil
  <2>1. RightmostStep(m, f, <<p, n>>) = <<p, n>>
    BY <1>1 DEF RightmostStep
  <2> QED BY <1>1, <2>1, HeirHere
<1>2. CASE b # nil
  <2>1. PICK a, h, x, q :
          /\ Cell(m, n, a, h, v)
          /\ Piece(m, h, Upper(S, n), w, q)
          /\ q < v
    BY PieceUnfold
  <2>2. n \in S /\ S \subseteq Entries /\ n \in Nodes
    BY PieceType
  <2>3. n \notin Upper(S, n) /\ h = b
    BY <2>1, <2>2, Parts DEF Cell
  <2>4. Cardinality(Upper(S, n)) < d
    <3>1. Cardinality(Lower(S, n)) \in Nat /\ Cardinality(Upper(S, n)) \in Nat
          /\ Cardinality(S) = Cardinality(Lower(S, n)) + 1 + Cardinality(Upper(S, n))
      BY <2>2, SmallerParts
    <3> QED BY <3>1
  <2>5. Piece(m, b, Upper(S, n), w, q)
    BY <2>1, <2>3
  <2> HIDE DEF b
  <2>6. HeirOf(m, n, b, Upper(S, n), w, q, f[<<n, b>>])
    BY <1>2, <2>2, <2>3, <2>4, <2>5 DEF Heirs
  <2>7. RightmostStep(m, f, <<p, n>>) = f[<<n, b>>]
    BY <1>2 DEF RightmostStep, b
  <2> DEFINE pair == f[<<n, b>>]
  <2>8. HeirOf(m, p, n, S, v, w, pair)
    <3>1. HeirOf(m, n, b, Upper(S, n), w, q, pair)
      BY <2>6
    <3> HIDE DEF pair
    <3>2. b = Link(m, n, 1)
      BY DEF b
    <3> QED BY <2>1, <3>1, <3>2, HeirBelow
  <2> QED BY <2>7, <2>8
<1> QED BY <1>1, <1>2

LEMMA RightmostOK ==
  ASSUME NEW m, Heap(m), NEW p \in Nodes, NEW n, n # nil, NEW S, NEW v, NEW w, Piece(m, n, S, v, w),
         p \notin S
  PROVE  HeirOf(m, p, n, S, v, w, Rightmost(m, p, n))
<1> DEFINE P == {d \in Nat : Heirs(m, RightmostBelow(m)[d], d)}
<1>1. 0 \in P
  <2>1. \A X : (X \subseteq Entries) => ~ (Cardinality(X) < 0)
    BY SmallEnough
  <2> QED BY <2>1, PieceType DEF Heirs
<1>2. \A d \in P : d + 1 \in P
  <2> SUFFICES ASSUME NEW d \in P PROVE d + 1 \in P
    OBVIOUS
  <2>1. d \in Nat /\ Heirs(m, RightmostBelow(m)[d], d)
    OBVIOUS
  <2>2. Heirs(m, RightmostBelow(m)[d + 1], d + 1)
    <3> SUFFICES ASSUME NEW x \in Nodes, NEW y, y # nil, NEW T, NEW i, NEW j, Piece(m, y, T, i, j),
                        x \notin T, Cardinality(T) < d + 1
                 PROVE  HeirOf(m, x, y, T, i, j, RightmostBelow(m)[d + 1][<<x, y>>])
      BY DEF Heirs
    <3>1. m \in Memory /\ y \in Nodes
      BY DEF Heap, Piece
    <3>2. RightmostBelow(m)[d + 1][<<x, y>>] = RightmostStep(m, RightmostBelow(m)[d], <<x, y>>)
      BY <2>1, <3>1, RightmostIs
    <3> QED BY <2>1, <3>2, HeirStep
  <2> QED BY <2>1, <2>2
<1>3. P = Nat
  <2>1. P \in SUBSET Nat
    OBVIOUS
  <2> HIDE DEF P
  <2> QED BY <1>1, <1>2, <2>1, Induction
<1>4. S \subseteq Entries
  BY PieceType
<1>5. Cardinality(S) < Depth /\ Depth \in Nat
  BY <1>4, SmallEnough
<1>6. Heirs(m, RightmostBelow(m)[Depth], Depth)
  BY <1>3, <1>5
<1> QED BY <1>5, <1>6 DEF Heirs, Rightmost

(* The memory in which the root and the heir, with the entry parent above  *)
(* it, have changed places.                                                *)
Swapped(m, r, parent, heir) ==
  LET swapped == [m EXCEPT ![heir].link = m[r].link, ![heir].level = m[r].level,
                           ![r].link = [d \in 0 .. 1 |-> IF d = 0 THEN Link(m, heir, 0) ELSE nil],
                           ![r].level = m[heir].level]
  IN IF parent = r THEN SetLink(swapped, heir, 0, r) ELSE SetLink(swapped, parent, 1, r)

LEMMA SwapIs ==
  ASSUME NEW m, NEW r
  PROVE  LET pair == Rightmost(m, r, Link(m, r, 0))
         IN SwapWithHeir(m, r) = Tree(Swapped(m, r, pair[1], pair[2]), pair[2])
  BY DEF SwapWithHeir, Swapped

LEMMA SwappedType ==
  ASSUME NEW m \in Memory, NEW r \in Nodes, NEW parent \in Nodes, NEW heir \in Nodes
  PROVE  Swapped(m, r, parent, heir) \in Memory
<1> DEFINE links == [d \in 0 .. 1 |-> IF d = 0 THEN Link(m, heir, 0) ELSE nil]
           m1 == [m EXCEPT ![heir].link = m[r].link]
           m2 == [m1 EXCEPT ![heir].level = m[r].level]
           m3 == [m2 EXCEPT ![r].link = links]
           m4 == [m3 EXCEPT ![r].level = m[heir].level]
<1>1. /\ links \in [0 .. 1 -> Nodes] /\ m[r].link \in [0 .. 1 -> Nodes]
      /\ m[r].level \in Nat /\ m[heir].level \in Nat
  BY MemoryType DEF Memory, Node, Nodes
<1> HIDE DEF links
<1>2. m1 \in Memory
  BY <1>1 DEF Memory, Node
<1> HIDE DEF m1
<1>3. m2 \in Memory
  BY <1>1, <1>2 DEF Memory, Node
<1> HIDE DEF m2
<1>4. m3 \in Memory
  BY <1>1, <1>3 DEF Memory, Node
<1> HIDE DEF m3
<1>5. m4 \in Memory
  BY <1>1, <1>4 DEF Memory, Node
<1> HIDE DEF m4
<1>6. Swapped(m, r, parent, heir) = IF parent = r THEN SetLink(m4, heir, 0, r) ELSE SetLink(m4, parent, 1, r)
  BY DEF Swapped, m1, m2, m3, m4, links
<1> QED BY <1>5, <1>6, SetLinkFacts

LEMMA SwapType ==
  ASSUME NEW m \in Memory, NEW r \in Nodes
  PROVE  SwapWithHeir(m, r) \in Trees
<1> DEFINE pair == Rightmost(m, r, Link(m, r, 0))
<1>1. pair \in Nodes \X Nodes
  BY MemoryType, RightmostType
<1> HIDE DEF pair
<1>2. pair[1] \in Nodes /\ pair[2] \in Nodes
  BY <1>1
<1>3. Swapped(m, r, pair[1], pair[2]) \in Memory
  BY <1>2, SwappedType
<1>4. SwapWithHeir(m, r) = Tree(Swapped(m, r, pair[1], pair[2]), pair[2])
  BY SwapIs DEF pair
<1> QED BY <1>2, <1>3, <1>4 DEF Tree, Trees

LEMMA SwappedFacts ==
  ASSUME NEW m, Heap(m), NEW r \in Entries, NEW a, NEW b, NEW v, Cell(m, r, a, b, v),
         NEW heir \in Entries, heir # r, NEW parent \in Entries, parent # heir
  PROVE  /\ Heap(Swapped(m, r, parent, heir))
         /\ Cell(Swapped(m, r, parent, heir), heir, IF parent = r THEN r ELSE a, b, v)
         /\ Cell(Swapped(m, r, parent, heir), r, Link(m, heir, 0), nil, Level(m, heir))
         /\ parent # r =>
              Cell(Swapped(m, r, parent, heir), parent, Link(m, parent, 0), r, Level(m, parent))
         /\ Apart(m, Swapped(m, r, parent, heir), {r, heir, parent})
<1> DEFINE links == [d \in 0 .. 1 |-> IF d = 0 THEN Link(m, heir, 0) ELSE nil]
           m1 == [m EXCEPT ![heir].link = m[r].link]
           m2 == [m1 EXCEPT ![heir].level = m[r].level]
           m3 == [m2 EXCEPT ![r].link = links]
           m4 == [m3 EXCEPT ![r].level = m[heir].level]
           M == Swapped(m, r, parent, heir)
<1>1. r \in Nodes /\ heir \in Nodes /\ parent \in Nodes /\ r # nil /\ heir # nil /\ parent # nil
      /\ m \in Memory /\ NilOK(m)
  BY EntryType DEF Heap
<1>2. /\ links \in [0 .. 1 -> Nodes] /\ m[r].link \in [0 .. 1 -> Nodes]
      /\ m[r].level \in Nat /\ m[heir].level \in Nat
      /\ links[0] = Link(m, heir, 0) /\ links[1] = nil
  BY <1>1, MemoryType DEF Memory, Node, Nodes
<1> HIDE DEF links
<1>3. /\ m1 \in Memory /\ m1[heir].link = m[r].link
      /\ \A n \in Nodes \ {heir} : m1[n] = m[n]
  BY <1>1, <1>2 DEF Memory, Node
<1> HIDE DEF m1
<1>4. /\ m2 \in Memory /\ m2[heir].link = m[r].link /\ m2[heir].level = m[r].level
      /\ \A n \in Nodes \ {heir} : m2[n] = m[n]
  BY <1>1, <1>2, <1>3 DEF Memory, Node
<1> HIDE DEF m2
<1>5. /\ m3 \in Memory /\ m3[heir].link = m[r].link /\ m3[heir].level = m[r].level /\ m3[r].link = links
      /\ \A n \in Nodes \ {heir, r} : m3[n] = m[n]
  BY <1>1, <1>2, <1>4 DEF Memory, Node
<1> HIDE DEF m3
<1>6. /\ m4 \in Memory /\ m4[heir].link = m[r].link /\ m4[heir].level = m[r].level /\ m4[r].link = links
      /\ m4[r].level = m[heir].level
      /\ \A n \in Nodes \ {heir, r} : m4[n] = m[n]
  BY <1>1, <1>2, <1>5 DEF Memory, Node
<1>7. M = IF parent = r THEN SetLink(m4, heir, 0, r) ELSE SetLink(m4, parent, 1, r)
  BY DEF Swapped, m1, m2, m3, m4, links
<1> HIDE DEF m4
<1>8. /\ Cell(m4, heir, a, b, v)
      /\ Cell(m4, r, Link(m, heir, 0), nil, Level(m, heir))
      /\ Apart(m, m4, {heir, r})
  BY <1>1, <1>2, <1>6 DEF Cell, Link, Level, Apart, Same
<1> HIDE DEF M
<1>9. CASE parent = r
  <2>1. M = SetLink(m4, heir, 0, r)
    BY <1>7, <1>9
  <2>2. M \in Memory /\ Cell(M, heir, r, Link(m4, heir, 1), Level(m4, heir)) /\ Apart(m4, M, {heir})
    BY <1>1, <1>6, <2>1, SetLinkFacts
  <2>3. Cell(M, heir, r, b, v)
    BY <1>8, <2>2 DEF Cell
  <2>4. Cell(M, r, Link(m, heir, 0), nil, Level(m, heir))
    BY <1>1, <1>8, <2>2, CellKept
  <2>5. Apart(m, M, {r, heir, parent})
    <3>1. Apart(m, M, {heir, r} \cup {heir})
      BY <1>8, <2>2, ApartTwice
    <3>2. {heir, r} \cup {heir} \subseteq {r, heir, parent}
      OBVIOUS
    <3> QED BY <3>1, <3>2, ApartMore
  <2>6. Heap(M)
    <3>1. nil \notin {r, heir, parent}
      BY <1>1
    <3> QED BY <1>1, <2>2, <2>5, <3>1, NilKept DEF Heap
  <2> QED BY <1>9, <2>3, <2>4, <2>5, <2>6 DEF M
<1>10. CASE parent # r
  <2>1. M = SetLink(m4, parent, 1, r)
    BY <1>7, <1>10
  <2>2. M \in Memory /\ Cell(M, parent, Link(m4, parent, 0), r, Level(m4, parent)) /\ Apart(m4, M, {parent})
    BY <1>1, <1>6, <2>1, SetLinkFacts
  <2>3. Cell(M, parent, Link(m, parent, 0), r, Level(m, parent))
    <3>1. Link(m4, parent, 0) = Link(m, parent, 0) /\ Level(m4, parent) = Level(m, parent)
      BY <1>1, <1>6, <1>10 DEF Link, Level
    <3> QED BY <2>2, <3>1
  <2>4. Cell(M, r, Link(m, heir, 0), nil, Level(m, heir)) /\ Cell(M, heir, a, b, v)
    BY <1>1, <1>8, <1>10, <2>2, CellKept
  <2>5. Apart(m, M, {r, heir, parent})
    <3>1. Apart(m, M, {heir, r} \cup {parent})
      BY <1>8, <2>2, ApartTwice
    <3>2. {heir, r} \cup {parent} \subseteq {r, heir, parent}
      OBVIOUS
    <3> QED BY <3>1, <3>2, ApartMore
  <2>6. Heap(M)
    <3>1. nil \notin {r, heir, parent}
      BY <1>1
    <3> QED BY <1>1, <2>2, <2>5, <3>1, NilKept DEF Heap
  <2> QED BY <1>10, <2>3, <2>4, <2>5, <2>6 DEF M
<1> QED BY <1>9, <1>10

-----------------------------------------------------------------------------
(* Removal *)

LEMMA RemoveBelowType ==
  ASSUME NEW f \in [Trees -> Trees], NEW t \in Trees, NEW dir \in 0 .. 1
  PROVE  RemoveBelow(f, t, dir) \in Trees
<1> DEFINE m == t.mem
           r == t.root
           t1 == f[Tree(m, Link(m, r, dir))]
           m1 == Attach(t1, r, dir)
<1>1. m \in Memory /\ r \in Nodes /\ (dir = 0 \/ dir = 1)
  BY DEF Trees
<1>2. Link(m, r, dir) \in Nodes
  BY <1>1, MemoryType
<1>3. t1 \in Trees
  BY <1>1, <1>2 DEF Tree, Trees
<1>4. RemoveBelow(f, t, dir) = TreeBalance(m1, r)
  BY DEF RemoveBelow
<1>5. m1 \in Memory
  <2> HIDE DEF t1, r
  <2> QED BY <1>1, <1>3, AttachType
<1> HIDE DEF m1
<1> QED BY <1>1, <1>4, <1>5, BalanceType

LEMMA RemoveStepType ==
  ASSUME NEW k \in Entries, NEW f \in [Trees -> Trees], NEW t \in Trees
  PROVE  RemoveStep(k, f, t) \in Trees
<1> DEFINE m == t.mem
           r == t.root
<1>1. m \in Memory /\ r \in Nodes
  BY DEF Trees
<1>2. TreeBalance(m, r) \in Trees
  BY <1>1, BalanceType
<1>3. RemoveBelow(f, t, Direction(r, k)) \in Trees
  <2>1. Direction(r, k) \in 0 .. 1
    BY DEF Direction
  <2> QED BY <2>1, RemoveBelowType
<1>4. RemoveBelow(f, SwapWithHeir(m, r), 0) \in Trees
  BY <1>1, SwapType, RemoveBelowType
<1>5. TreeBalance(m, Link(m, r, IF Link(m, r, 0) = nil THEN 1 ELSE 0)) \in Trees
  <2>1. Link(m, r, 0) \in Nodes /\ Link(m, r, 1) \in Nodes
    BY <1>1, MemoryType
  <2> QED BY <1>1, <2>1, BalanceType
<1> QED BY <1>2, <1>3, <1>4, <1>5 DEF RemoveStep

LEMMA RemovalIs ==
  ASSUME NEW k \in Entries
  PROVE  /\ Removal(k) \in [Nat -> [Trees -> Trees]]
         /\ \A d \in Nat : \A t \in Trees :
              Removal(k)[d + 1][t] = RemoveStep(k, Removal(k)[d], t)
<1> DEFINE Y == [Trees -> Trees]
           G == [z \in Nat \X Y |-> [t \in Trees |-> RemoveStep(k, z[2], t)]]
           y0 == [t \in Trees |-> t]
           Is(f) == f = [d \in Nat |-> [t \in Trees |-> IF d = 0 THEN t ELSE RemoveStep(k, f[d - 1], t)]]
<1>1. G \in [Nat \X Y -> Y]
  BY RemoveStepType
<1>2. y0 \in Y
  OBVIOUS
<1>3. \A d \in Nat, g \in Y : G[<<d, g>>] = [t \in Trees |-> RemoveStep(k, g, t)]
  OBVIOUS
<1> HIDE DEF G
<1>4. PICK f : Goes(Y, G, y0, f)
  <2> HIDE DEF Y, y0
  <2> QED BY <1>1, <1>2, Recursion
<1>5. \A d \in Nat : f[d] = [t \in Trees |-> IF d = 0 THEN t ELSE RemoveStep(k, f[d - 1], t)]
  <2> SUFFICES ASSUME NEW d \in Nat
               PROVE  f[d] = [t \in Trees |-> IF d = 0 THEN t ELSE RemoveStep(k, f[d - 1], t)]
    OBVIOUS
  <2>1. CASE d = 0
    BY <1>4, <2>1 DEF Goes
  <2>2. CASE d # 0
    <3>1. d - 1 \in Nat /\ (d - 1) + 1 = d
      BY <2>2
    <3>2. f[d] = G[<<d - 1, f[d - 1]>>] /\ f[d - 1] \in Y
      BY <1>4, <3>1 DEF Goes
    <3>3. f[d] = [t \in Trees |-> RemoveStep(k, f[d - 1], t)]
      BY <1>3, <3>1, <3>2
    <3> QED BY <2>2, <3>3
  <2> QED BY <2>1, <2>2
<1>6. Is(f)
  BY <1>4, <1>5 DEF Goes
<1>7. Removal(k) = CHOOSE g : Is(g)
  BY DEF Removal
<1>8. Is(Removal(k))
  <2> HIDE DEF Is
  <2> QED BY <1>6, <1>7
<1> DEFINE F == Removal(k)
<1>9. F = [d \in Nat |-> [t \in Trees |-> IF d = 0 THEN t ELSE RemoveStep(k, F[d - 1], t)]]
  BY <1>8
<1> HIDE DEF F
<1>10. \A d \in Nat : \A t \in Trees : F[d + 1][t] = RemoveStep(k, F[d], t)
  <2> SUFFICES ASSUME NEW d \in Nat, NEW t \in Trees PROVE F[d + 1][t] = RemoveStep(k, F[d], t)
    OBVIOUS
  <2>1. d + 1 \in Nat /\ d + 1 # 0 /\ (d + 1) - 1 = d
    OBVIOUS
  <2>2. F[d + 1] = [x \in Trees |-> IF d + 1 = 0 THEN x ELSE RemoveStep(k, F[(d + 1) - 1], x)]
    BY <1>9, <2>1
  <2> QED BY <2>1, <2>2
<1> DEFINE P == {d \in Nat : F[d] \in Y}
<1>11. 0 \in P
  BY <1>9
<1>12. \A d \in P : d + 1 \in P
  <2> SUFFICES ASSUME NEW d \in P PROVE d + 1 \in P
    OBVIOUS
  <2>1. d \in Nat /\ F[d] \in Y /\ d + 1 \in Nat /\ d + 1 # 0 /\ (d + 1) - 1 = d
    OBVIOUS
  <2>2. F[d + 1] = [x \in Trees |-> IF d + 1 = 0 THEN x ELSE RemoveStep(k, F[(d + 1) - 1], x)]
    BY <1>9, <2>1
  <2>3. F[d + 1] = [x \in Trees |-> RemoveStep(k, F[d], x)]
    BY <2>1, <2>2
  <2>4. \A x \in Trees : RemoveStep(k, F[d], x) \in Trees
    BY <2>1, RemoveStepType
  <2>5. F[d + 1] \in Y
    BY <2>3, <2>4
  <2> QED BY <2>1, <2>5
<1>13. P = Nat
  <2>1. P \in SUBSET Nat
    OBVIOUS
  <2> HIDE DEF P
  <2> QED BY <1>11, <1>12, <2>1, Induction
<1>14. F \in [Nat -> Y]
  BY <1>9, <1>13
<1> QED BY <1>10, <1>14 DEF F

(* What a removal makes of a tree: the level may go down by one, and if it *)
(* does not then the tree has a right child on it only if it had one.      *)
RemoveResult(k, m, t, S, v, w) ==
  \E v2, w2 :
    /\ Heap(t.mem) /\ Apart(m, t.mem, S) /\ Piece(t.mem, t.root, S \ {k}, v2, w2)
    /\ v2 = v \/ v2 + 1 = v
    /\ v2 = v /\ w < v => w2 < v2

(* f removes k from trees of less than n entries. *)
Removes(k, f, n) ==
  \A m, r, S, v, w :
    Heap(m) /\ Piece(m, r, S, v, w) /\ k \in S /\ Cardinality(S) < n =>
      RemoveResult(k, m, f[Tree(m, r)], S, v, w)

(* A tree is not rebalanced. *)
LEMMA BalanceRests ==
  ASSUME NEW m, Heap(m), NEW r, NEW S, NEW v, NEW w, Piece(m, r, S, v, w)
  PROVE  TreeBalance(m, r) = Tree(m, r)
<1>1. r \in Nodes /\ v \in Nat /\ Level(m, r) = v /\ Level(m, Link(m, r, 1)) = w
  BY PieceType DEF Piece
<1>2. CASE r = nil
  <2>1. Level(m, Link(m, r, 0)) = 0 /\ Level(m, Link(m, r, 1)) = 0 /\ Level(m, r) = 0
    BY <1>2 DEF Heap, NilOK
  <2>2. \A dir \in 0 .. 1 : dir = 0 \/ dir = 1
    OBVIOUS
  <2>3. ~ \E dir \in 0 .. 1 : Level(m, Link(m, r, dir)) < Level(m, r) - 1
    <3>1. ~ (0 < 0 - 1)
      OBVIOUS
    <3> QED BY <2>1, <2>2, <3>1
  <2> QED BY <2>3 DEF TreeBalance
<1>3. CASE r # nil
  <2>1. PICK a, b, p, q :
          /\ Cell(m, r, a, b, v)
          /\ Piece(m, a, Lower(S, r), v - 1, p)
          /\ Piece(m, b, Upper(S, r), w, q)
          /\ w = v - 1 \/ w = v
    BY <1>3, PieceUnfold
  <2>2. Level(m, Link(m, r, 0)) = v - 1
    BY <2>1 DEF Cell, Piece
  <2>3. \A dir \in 0 .. 1 : dir = 0 \/ dir = 1
    OBVIOUS
  <2>4. ~ \E dir \in 0 .. 1 : Level(m, Link(m, r, dir)) < Level(m, r) - 1
    <3>1. ~ (v - 1 < v - 1) /\ ~ (w < v - 1)
      BY <1>1, <2>1
    <3> QED BY <1>1, <2>2, <2>3, <3>1
  <2> QED BY <2>4 DEF TreeBalance
<1> QED BY <1>2, <1>3

LEMMA RemoveLeft ==
  ASSUME NEW k, NEW m, Heap(m), NEW r \in Entries, NEW a, NEW b, NEW v \in Nat, v # 0,
         Cell(m, r, a, b, v),
         NEW A, A \subseteq Entries, NEW p,
         NEW H, NEW w, NEW q, Piece(m, b, H, w, q),
         w = v - 1 \/ w = v, q < v,
         k \in A, r \notin A, A \cap H = {}, Between(A \ {k}, r, H),
         NEW t1, RemoveResult(k, m, t1, A, v - 1, p)
  PROVE  RemoveResult(k, m, TreeBalance(Attach(t1, r, 0), r), A \cup {r} \cup H, v, w)
<1> DEFINE m1 == Attach(t1, r, 0)
           t == TreeBalance(m1, r)
           B == A \ {k}
           S == A \cup {r} \cup H
           l == t1.root
           n1 == t1.mem
<1>1. PICK v2, w2 :
        /\ Heap(n1) /\ Apart(m, n1, A) /\ Piece(n1, l, B, v2, w2)
        /\ v2 = v - 1 \/ v2 + 1 = v - 1
  BY DEF RemoveResult
<1>2. r \in Nodes /\ r \in Nat /\ w \in Nat /\ q \in Nat /\ H \subseteq Entries
  BY EntryType, PieceType
<1>3. l \in Nodes
  BY <1>1 DEF Piece
<1>4. r \notin H
  <2> SUFFICES ASSUME r \in H PROVE FALSE
    OBVIOUS
  <2>1. r < r
    BY DEF Between
  <2> QED BY <1>2, <2>1
<1>5. Cell(n1, r, a, b, v) /\ Piece(n1, b, H, w, q)
  <2>1. H \cap A = {}
    OBVIOUS
  <2>2. Cell(n1, r, a, b, v)
    BY <1>1, <1>2, CellKept
  <2>3. Piece(n1, b, H, w, q)
    BY <1>1, <2>1, PieceFrame
  <2> QED BY <2>2, <2>3
<1>6. Heap(m1) /\ Cell(m1, r, l, b, v) /\ Apart(n1, m1, {r})
  BY <1>1, <1>3, <1>5, AttachFacts
<1> HIDE DEF m1, l, n1, B
<1>7. Piece(m1, l, B, v2, w2) /\ Piece(m1, b, H, w, q)
  <2>1. B \cap {r} = {} /\ H \cap {r} = {}
    BY <1>4 DEF B
  <2> QED BY <1>1, <1>5, <1>6, <2>1, PieceFrame
<1>8. Between(B, r, H)
  BY DEF B
<1>9. w = v \/ w = v - 1 \/ (w + 1 = v - 1 /\ v2 = v - 1)
  OBVIOUS
<1>10. PICK v3, w3 :
         /\ Outcome(m1, t, B \cup {r} \cup H, v3, w3)
         /\ v3 = v \/ v3 = v - 1
         /\ v3 = v /\ w < v => w3 < v3
  <2>1. Cell(m1, r, l, b, v) /\ Heap(m1) /\ q < v /\ v # 0 /\ (v2 = v - 1 \/ v2 + 1 = v - 1)
    BY <1>1, <1>6
  <2>2. BalanceResult(m1, t, B \cup {r} \cup H, v, w)
    BY <1>7, <1>8, <1>9, <2>1, BalanceOK
  <2> QED BY <2>2 DEF BalanceResult
<1> HIDE DEF t
<1>11. Heap(t.mem) /\ Apart(m1, t.mem, B \cup {r} \cup H) /\ Piece(t.mem, t.root, B \cup {r} \cup H, v3, w3)
  BY <1>10 DEF Outcome
<1>12. Apart(m, t.mem, S)
  <2>1. Apart(m, m1, A \cup {r})
    BY <1>1, <1>6, ApartTwice
  <2>2. Apart(m, t.mem, (A \cup {r}) \cup (B \cup {r} \cup H))
    BY <1>11, <2>1, ApartTwice
  <2>3. (A \cup {r}) \cup (B \cup {r} \cup H) \subseteq S
    BY DEF B
  <2> QED BY <2>2, <2>3, ApartMore
<1>13. B \cup {r} \cup H = S \ {k}
  BY DEF B
<1>14. v3 = v \/ v3 + 1 = v
  BY <1>10
<1>15. Piece(t.mem, t.root, S \ {k}, v3, w3)
  BY <1>11, <1>13
<1> HIDE DEF S
<1>16. RemoveResult(k, m, t, S, v, w)
  BY <1>10, <1>11, <1>12, <1>14, <1>15 DEF RemoveResult
<1> QED BY <1>16 DEF t, m1, S

LEMMA RemoveRight ==
  ASSUME NEW k, NEW m, Heap(m), NEW r \in Entries, NEW a, NEW b, NEW v \in Nat, v # 0,
         Cell(m, r, a, b, v),
         NEW L, NEW p, Piece(m, a, L, v - 1, p),
         NEW A, A \subseteq Entries, NEW w \in Nat, NEW q,
         w = v - 1 \/ w = v, q < v,
         k \in A, r \notin A, L \cap A = {}, Between(L, r, A \ {k}),
         NEW t1, RemoveResult(k, m, t1, A, w, q)
  PROVE  RemoveResult(k, m, TreeBalance(Attach(t1, r, 1), r), L \cup {r} \cup A, v, w)
<1> DEFINE m1 == Attach(t1, r, 1)
           t == TreeBalance(m1, r)
           B == A \ {k}
           S == L \cup {r} \cup A
           h == t1.root
           n1 == t1.mem
<1>1. PICK v2, w2 :
        /\ Heap(n1) /\ Apart(m, n1, A) /\ Piece(n1, h, B, v2, w2)
        /\ v2 = w \/ v2 + 1 = w
        /\ v2 = w /\ q < w => w2 < v2
  BY DEF RemoveResult
<1>2. r \in Nodes /\ r \in Nat /\ L \subseteq Entries
  BY EntryType, PieceType
<1>3. h \in Nodes /\ v2 \in Nat /\ w2 \in Nat /\ w2 <= v2
  BY <1>1, PieceType
<1>4. r \notin L
  <2> SUFFICES ASSUME r \in L PROVE FALSE
    OBVIOUS
  <2>1. r < r
    BY DEF Between
  <2> QED BY <1>2, <2>1
<1>5. Cell(n1, r, a, b, v) /\ Piece(n1, a, L, v - 1, p)
  <2>1. Cell(n1, r, a, b, v)
    BY <1>1, <1>2, CellKept
  <2>2. Piece(n1, a, L, v - 1, p)
    BY <1>1, PieceFrame
  <2> QED BY <2>1, <2>2
<1>6. Heap(m1) /\ Cell(m1, r, a, h, v) /\ Apart(n1, m1, {r})
  BY <1>1, <1>3, <1>5, AttachFacts
<1> HIDE DEF m1, h, n1, B
<1>7. Piece(m1, h, B, v2, w2) /\ Piece(m1, a, L, v - 1, p)
  <2>1. B \cap {r} = {} /\ L \cap {r} = {}
    BY <1>4 DEF B
  <2> QED BY <1>1, <1>5, <1>6, <2>1, PieceFrame
<1>8. Between(L, r, B)
  BY DEF B
<1>9. v2 = v \/ v2 = v - 1 \/ (v2 + 1 = v - 1 /\ v - 1 = v - 1)
  BY <1>1, <1>3
<1>10. w2 < v
  BY <1>1, <1>3
<1>11. PICK v3, w3 :
         /\ Outcome(m1, t, L \cup {r} \cup B, v3, w3)
         /\ v3 = v \/ v3 = v - 1
         /\ v3 = v /\ v2 < v => w3 < v3
  <2> DEFINE u == v - 1
  <2>1. Piece(m1, a, L, u, p) /\ (u = v - 1 \/ u + 1 = v - 1)
        /\ (v2 = v \/ v2 = v - 1 \/ (v2 + 1 = v - 1 /\ u = v - 1))
    BY <1>7, <1>9
  <2>2. Piece(m1, h, B, v2, w2) /\ Cell(m1, r, a, h, v) /\ Heap(m1) /\ v # 0
    BY <1>6, <1>7
  <2> HIDE DEF u
  <2>3. BalanceResult(m1, t, L \cup {r} \cup B, v, v2)
    BY <1>8, <1>10, <2>1, <2>2, BalanceOK
  <2> QED BY <2>3 DEF BalanceResult
<1> HIDE DEF t
<1>12. Heap(t.mem) /\ Apart(m1, t.mem, L \cup {r} \cup B) /\ Piece(t.mem, t.root, L \cup {r} \cup B, v3, w3)
  BY <1>11 DEF Outcome
<1>13. Apart(m, t.mem, S)
  <2>1. Apart(m, m1, A \cup {r})
    BY <1>1, <1>6, ApartTwice
  <2>2. Apart(m, t.mem, (A \cup {r}) \cup (L \cup {r} \cup B))
    BY <1>12, <2>1, ApartTwice
  <2>3. (A \cup {r}) \cup (L \cup {r} \cup B) \subseteq S
    BY DEF B
  <2> QED BY <2>2, <2>3, ApartMore
<1>14. L \cup {r} \cup B = S \ {k}
  BY DEF B
<1>15. (v3 = v \/ v3 + 1 = v) /\ (v3 = v /\ w < v => w3 < v3)
  BY <1>1, <1>3, <1>11
<1>16. Piece(t.mem, t.root, S \ {k}, v3, w3)
  BY <1>12, <1>14
<1> HIDE DEF S
<1>17. RemoveResult(k, m, t, S, v, w)
  BY <1>12, <1>13, <1>15, <1>16 DEF RemoveResult
<1> QED BY <1>17 DEF t, m1, S

(* The entry has two children. *)
LEMMA RemoveBoth ==
  ASSUME NEW k, NEW f, NEW d \in Nat, Removes(k, f, d),
         NEW m, Heap(m), NEW S, NEW v, NEW w, Piece(m, k, S, v, w),
         k # nil, Cardinality(S) < d + 1, Link(m, k, 0) # nil
  PROVE  RemoveResult(k, m, RemoveBelow(f, SwapWithHeir(m, k), 0), S, v, w)
<1>1. PICK a, b, p, q :
        /\ Cell(m, k, a, b, v)
        /\ Piece(m, a, Lower(S, k), v - 1, p)
        /\ Piece(m, b, Upper(S, k), w, q)
        /\ w = v - 1 \/ w = v
        /\ q < v
  BY PieceUnfold
<1> DEFINE A == Lower(S, k)
           H == Upper(S, k)
<1>2. k \in S /\ k \in Entries /\ S \subseteq Entries /\ v \in Nat /\ v # 0 /\ k \in Nodes
  BY PieceType
<1>3. Between(A, k, H) /\ S = A \cup {k} \cup H /\ k \notin A /\ k \notin H
  BY <1>2, Parts
<1>4. \A x \in S : x \in Nat
  BY <1>2, EntryType
<1>5. A \cap H = {}
  <2> SUFFICES ASSUME NEW x \in A, x \in H PROVE FALSE
    OBVIOUS
  <2>1. x \in Nat /\ k \in Nat /\ x < k /\ k < x
    BY <1>2, <1>3, <1>4 DEF Between
  <2> QED BY <2>1
<1>6. Cardinality(A) < d
  <2>1. Cardinality(Lower(S, k)) \in Nat /\ Cardinality(Upper(S, k)) \in Nat
        /\ Cardinality(S) = Cardinality(Lower(S, k)) + 1 + Cardinality(Upper(S, k))
    BY <1>2, SmallerParts
  <2> QED BY <2>1
<1>7. a # nil /\ Link(m, k, 0) = a
  BY <1>1 DEF Cell
<1>8. Piece(m, a, A, v - 1, p) /\ Piece(m, b, H, w, q)
  BY <1>1
<1> HIDE DEF A, H
<1> DEFINE pair == Rightmost(m, k, a)
           heir == pair[2]
           parent == pair[1]
           m1 == Swapped(m, k, parent, heir)
           c == IF heir = a THEN k ELSE a
           C == (A \ {heir}) \cup {k}
<1>9. HeirOf(m, k, a, A, v - 1, p, pair)
  BY <1>2, <1>3, <1>7, <1>8, RightmostOK
<1>10. SwapWithHeir(m, k) = Tree(m1, heir)
  BY <1>7, SwapIs
<1> HIDE DEF pair
<1>11. /\ heir \in A
       /\ \A x \in A \ {heir} : x < heir
       /\ heir = a => parent = k
       /\ heir # a => parent \in A /\ parent # heir
       /\ \A m2, D, x :
            /\ Heap(m2) /\ Apart(m, m2, D) /\ D \cap A \subseteq {parent, heir}
            /\ x \in Entries /\ \A y \in A : y < x
            /\ Cell(m2, x, Link(m, heir, 0), nil, Level(m, heir))
            /\ heir # a => Cell(m2, parent, Link(m, parent, 0), x, Level(m, parent))
            => Piece(m2, IF heir = a THEN x ELSE a, (A \ {heir}) \cup {x}, v - 1, p)
  BY <1>9 DEF HeirOf
<1> HIDE DEF heir, parent
<1>12. heir \in Entries /\ heir # k /\ parent \in Entries /\ parent # heir /\ (parent = k <=> heir = a)
  BY <1>2, <1>3, <1>11
<1>13. /\ Heap(m1)
       /\ Cell(m1, heir, IF parent = k THEN k ELSE a, b, v)
       /\ Cell(m1, k, Link(m, heir, 0), nil, Level(m, heir))
       /\ parent # k => Cell(m1, parent, Link(m, parent, 0), k, Level(m, parent))
       /\ Apart(m, m1, {k, heir, parent})
  BY <1>1, <1>2, <1>12, SwappedFacts
<1> HIDE DEF m1
<1>14. Cell(m1, heir, c, b, v)
  BY <1>12, <1>13
<1>15. Piece(m1, c, C, v - 1, p)
  <2>1. {k, heir, parent} \cap A \subseteq {parent, heir}
    BY <1>3
  <2>2. \A y \in A : y < k
    BY <1>3 DEF Between
  <2> QED BY <1>2, <1>11, <1>12, <1>13, <2>1, <2>2
<1> HIDE DEF c
<1>16. Piece(m1, b, H, w, q)
  <2>1. H \cap {k, heir, parent} = {}
    <3>1. heir \notin H
      BY <1>5, <1>11
    <3>2. parent \notin H
      BY <1>3, <1>5, <1>11
    <3> QED BY <1>3, <3>1, <3>2
  <2> QED BY <1>8, <1>13, <2>1, PieceFrame
<1>17. /\ C \subseteq Entries /\ k \in C /\ heir \notin C /\ C \cap H = {} /\ C \ {k} = A \ {heir}
       /\ C \cup {heir} \cup H = S
  BY <1>2, <1>3, <1>5, <1>11, <1>12
<1>18. Between(C \ {k}, heir, H)
  <2>1. \A x \in H : heir < x
    <3> SUFFICES ASSUME NEW x \in H PROVE heir < x
      OBVIOUS
    <3>1. heir < k /\ k < x
      BY <1>3, <1>11 DEF Between
    <3>2. heir \in Nat /\ k \in Nat /\ x \in Nat
      BY <1>2, <1>3, <1>4, <1>11
    <3> QED BY <3>1, <3>2
  <2>2. \A x \in C \ {k} : x < heir
    BY <1>11, <1>17
  <2> QED BY <2>1, <2>2 DEF Between
<1>19. Cardinality(C) < d
  <2>1. IsFiniteSet(A) /\ A \subseteq Entries
    BY <1>2, <1>3, HeapTreeAssumption, FS_Subset
  <2>2. IsFiniteSet(A \ {heir}) /\ Cardinality(A \ {heir}) = Cardinality(A) - 1
    BY <1>11, <2>1, FS_RemoveElement
  <2>3. Cardinality(C) = Cardinality(A \ {heir}) + 1
    BY <1>3, <2>2, FS_AddElement
  <2>4. Cardinality(A) \in Nat
    BY <2>1, FS_CardinalityType
  <2>5. Cardinality(C) = Cardinality(A)
    BY <2>2, <2>3, <2>4
  <2> QED BY <1>6, <2>5
<1> HIDE DEF C
<1> DEFINE t1 == f[Tree(m1, c)]
<1>20. RemoveResult(k, m1, t1, C, v - 1, p)
  BY <1>13, <1>15, <1>17, <1>19 DEF Removes
<1>21. RemoveBelow(f, SwapWithHeir(m, k), 0) = TreeBalance(Attach(t1, heir, 0), heir)
  <2>1. Tree(m1, heir).mem = m1 /\ Tree(m1, heir).root = heir
    BY DEF Tree
  <2>2. Link(m1, heir, 0) = c
    BY <1>14 DEF Cell
  <2> QED BY <1>10, <2>1, <2>2 DEF RemoveBelow
<1> HIDE DEF t1
<1> DEFINE t == TreeBalance(Attach(t1, heir, 0), heir)
<1>22. RemoveResult(k, m1, t, S, v, w)
  <2>1. RemoveResult(k, m1, t, C \cup {heir} \cup H, v, w)
    BY <1>1, <1>2, <1>12, <1>13, <1>14, <1>16, <1>17, <1>18, <1>20, RemoveLeft
  <2> QED BY <1>17, <2>1
<1> HIDE DEF t
<1>23. RemoveResult(k, m, t, S, v, w)
  <2>1. PICK v2, w2 :
          /\ Heap(t.mem) /\ Apart(m1, t.mem, S) /\ Piece(t.mem, t.root, S \ {k}, v2, w2)
          /\ v2 = v \/ v2 + 1 = v
          /\ v2 = v /\ w < v => w2 < v2
    BY <1>22 DEF RemoveResult
  <2>2. Apart(m, t.mem, S)
    <3>1. Apart(m, t.mem, {k, heir, parent} \cup S)
      BY <1>13, <2>1, ApartTwice
    <3>2. {k, heir, parent} \cup S \subseteq S
      BY <1>2, <1>3, <1>11
    <3> QED BY <3>1, <3>2, ApartMore
  <2> QED BY <2>1, <2>2 DEF RemoveResult
<1> QED BY <1>21, <1>23 DEF t

(* The entry has at most a right child. *)
LEMMA RemoveOne ==
  ASSUME NEW k, NEW m, Heap(m), NEW S, NEW v, NEW w, Piece(m, k, S, v, w),
         k # nil, Link(m, k, 0) = nil
  PROVE  RemoveResult(k, m, TreeBalance(m, Link(m, k, 1)), S, v, w)
<1>1. PICK a, b, p, q :
        /\ Cell(m, k, a, b, v)
        /\ Piece(m, a, Lower(S, k), v - 1, p)
        /\ Piece(m, b, Upper(S, k), w, q)
        /\ w = v - 1 \/ w = v
        /\ q < v
  BY PieceUnfold
<1>2. k \in S /\ k \in Entries /\ S \subseteq Entries /\ v \in Nat /\ v # 0 /\ w \in Nat
  BY PieceType
<1>3. a = nil /\ Link(m, k, 1) = b
  BY <1>1 DEF Cell
<1>4. Lower(S, k) = {}
  BY <1>1, <1>3, PieceType
<1>5. Upper(S, k) = S \ {k}
  BY <1>2, <1>4, Parts
<1>6. TreeBalance(m, b) = Tree(m, b)
  BY <1>1, BalanceRests
<1> DEFINE t == Tree(m, b)
<1>7. t.mem = m /\ t.root = b
  BY DEF Tree
<1> HIDE DEF t
<1>8. Piece(t.mem, t.root, S \ {k}, w, q) /\ Heap(t.mem)
  BY <1>1, <1>5, <1>7
<1>9. Apart(m, t.mem, S)
  BY <1>7 DEF Apart, Same
<1>10. w = v \/ w + 1 = v
  BY <1>1, <1>2
<1>11. w = v /\ w < v => q < w
  BY <1>1
<1> QED BY <1>3, <1>6, <1>8, <1>9, <1>10, <1>11 DEF RemoveResult, t

LEMMA RemoveStepOK ==
  ASSUME NEW k \in Entries, NEW f, NEW d \in Nat, Removes(k, f, d),
         NEW m, NEW r, NEW S, NEW v, NEW w,
         Heap(m), Piece(m, r, S, v, w), k \in S, Cardinality(S) < d + 1
  PROVE  RemoveResult(k, m, RemoveStep(k, f, Tree(m, r)), S, v, w)
<1>1. r # nil
  BY PieceType
<1>2. PICK a, b, p, q :
        /\ Cell(m, r, a, b, v)
        /\ Piece(m, a, Lower(S, r), v - 1, p)
        /\ Piece(m, b, Upper(S, r), w, q)
        /\ w = v - 1 \/ w = v
        /\ q < v
  BY <1>1, PieceUnfold
<1> DEFINE L == Lower(S, r)
           H == Upper(S, r)
<1>3. r \in S /\ r \in Entries /\ v \in Nat /\ v # 0 /\ S \subseteq Entries /\ w \in Nat
  BY <1>1, PieceType
<1>4. Between(L, r, H) /\ S = L \cup {r} \cup H /\ L \subseteq S /\ H \subseteq S /\ r \notin L /\ r \notin H
  BY <1>3, Parts
<1>5. Cardinality(L) < d /\ Cardinality(H) < d
  <2>1. Cardinality(L) \in Nat /\ Cardinality(H) \in Nat
        /\ Cardinality(S) = Cardinality(L) + 1 + Cardinality(H)
    BY <1>3, SmallerParts
  <2> HIDE DEF L, H
  <2> QED BY <2>1
<1>6. Link(m, r, 0) = a /\ Link(m, r, 1) = b
  BY <1>2 DEF Cell
<1> HIDE DEF L, H
<1>7. Piece(m, a, L, v - 1, p) /\ Piece(m, b, H, w, q)
  BY <1>2 DEF L, H
<1>8. k \in Nat /\ r \in Nat /\ \A x \in S : x \in Nat
  BY <1>3, EntryType
<1>9. L \cap H = {}
  <2> SUFFICES ASSUME NEW x \in L, x \in H PROVE FALSE
    OBVIOUS
  <2>1. x \in Nat /\ x < r /\ r < x
    BY <1>4, <1>8 DEF Between
  <2> QED BY <1>8, <2>1
<1>10. Tree(m, r).mem = m /\ Tree(m, r).root = r
  BY DEF Tree
<1> DEFINE step == RemoveStep(k, f, Tree(m, r))
<1>11. CASE r # k
  <2>1. step = RemoveBelow(f, Tree(m, r), Direction(r, k))
    BY <1>1, <1>10, <1>11 DEF RemoveStep
  <2>2. CASE k < r
    <3> DEFINE t1 == f[Tree(m, a)]
    <3>1. k \in L
      <4>1. k \notin H
        <5> SUFFICES ASSUME k \in H PROVE FALSE
          OBVIOUS
        <5>1. r < k
          BY <1>4 DEF Between
        <5> QED BY <1>8, <2>2, <5>1
      <4> QED BY <1>4, <1>11, <4>1
    <3>2. RemoveResult(k, m, t1, L, v - 1, p)
      BY <1>5, <1>7, <3>1 DEF Removes
    <3>3. step = TreeBalance(Attach(t1, r, 0), r)
      <4>1. Direction(r, k) = 0
        BY <1>3, <2>2, Directions
      <4> QED BY <1>6, <1>10, <2>1, <4>1 DEF RemoveBelow
    <3> HIDE DEF t1
    <3>4. L \subseteq Entries /\ Between(L \ {k}, r, H)
      BY <1>3, <1>4 DEF Between
    <3>5. RemoveResult(k, m, TreeBalance(Attach(t1, r, 0), r), L \cup {r} \cup H, v, w)
      BY <1>2, <1>3, <1>4, <1>7, <1>9, <3>1, <3>2, <3>4, RemoveLeft
    <3> QED BY <1>4, <3>3, <3>5
  <2>3. CASE r < k
    <3> DEFINE t1 == f[Tree(m, b)]
    <3>1. k \in H
      <4>1. k \notin L
        <5> SUFFICES ASSUME k \in L PROVE FALSE
          OBVIOUS
        <5>1. k < r
          BY <1>4 DEF Between
        <5> QED BY <1>8, <2>3, <5>1
      <4> QED BY <1>4, <1>11, <4>1
    <3>2. RemoveResult(k, m, t1, H, w, q)
      BY <1>5, <1>7, <3>1 DEF Removes
    <3>3. step = TreeBalance(Attach(t1, r, 1), r)
      <4>1. Direction(r, k) = 1
        BY <1>3, <2>3, Directions
      <4> QED BY <1>6, <1>10, <2>1, <4>1 DEF RemoveBelow
    <3> HIDE DEF t1
    <3>4. H \subseteq Entries /\ Between(L, r, H \ {k})
      BY <1>3, <1>4 DEF Between
    <3>5. RemoveResult(k, m, TreeBalance(Attach(t1, r, 1), r), L \cup {r} \cup H, v, w)
      BY <1>2, <1>3, <1>4, <1>7, <1>9, <3>1, <3>2, <3>4, RemoveRight
    <3> QED BY <1>4, <3>3, <3>5
  <2> QED BY <1>8, <1>11, <2>2, <2>3
<1>12. CASE r = k
  <2>1. CASE a = nil
    <3>1. step = TreeBalance(m, Link(m, r, 1))
      BY <1>1, <1>6, <1>10, <1>12, <2>1 DEF RemoveStep
    <3> QED BY <1>1, <1>6, <1>12, <2>1, <3>1, RemoveOne
  <2>2. CASE a # nil
    <3>1. b # nil
      <4> SUFFICES ASSUME b = nil PROVE FALSE
        OBVIOUS
      <4>1. w = 0
        BY <1>7, PieceType
      <4>2. v - 1 # 0
        <5> DEFINE u == v - 1
        <5>1. Piece(m, a, L, u, p)
          BY <1>7
        <5> HIDE DEF u
        <5>2. u # 0
          BY <2>2, <5>1, PieceType
        <5> QED BY <5>2 DEF u
      <4> QED BY <1>2, <1>3, <4>1, <4>2
    <3>2. step = RemoveBelow(f, SwapWithHeir(m, r), 0)
      BY <1>1, <1>6, <1>10, <1>12, <2>2, <3>1 DEF RemoveStep
    <3> QED BY <1>1, <1>6, <1>12, <2>2, <3>2, RemoveBoth
  <2> QED BY <2>1, <2>2
<1> QED BY <1>11, <1>12

(* TreeRemove makes a tree of the other entries. *)
LEMMA TreeRemoveOK ==
  ASSUME NEW k \in Entries, NEW m, NEW r, NEW S, NEW v, NEW w,
         Heap(m), Piece(m, r, S, v, w), k \in S
  PROVE  RemoveResult(k, m, TreeRemove(m, r, k), S, v, w)
<1> DEFINE P == {d \in Nat : Removes(k, Removal(k)[d], d)}
<1>1. 0 \in P
  <2>1. \A X : (X \subseteq Entries) => ~ (Cardinality(X) < 0)
    BY SmallEnough
  <2> QED BY <2>1, PieceType DEF Removes
<1>2. \A d \in P : d + 1 \in P
  <2> SUFFICES ASSUME NEW d \in P PROVE d + 1 \in P
    OBVIOUS
  <2>1. d \in Nat /\ Removes(k, Removal(k)[d], d)
    OBVIOUS
  <2>2. Removes(k, Removal(k)[d + 1], d + 1)
    <3> SUFFICES ASSUME NEW x, NEW y, NEW T, NEW i, NEW j, Heap(x), Piece(x, y, T, i, j), k \in T,
                        Cardinality(T) < d + 1
                 PROVE  RemoveResult(k, x, Removal(k)[d + 1][Tree(x, y)], T, i, j)
      BY DEF Removes
    <3>1. Tree(x, y) \in Trees
      BY DEF Heap, Piece, Tree, Trees
    <3>2. Removal(k)[d + 1][Tree(x, y)] = RemoveStep(k, Removal(k)[d], Tree(x, y))
      BY <2>1, <3>1, RemovalIs
    <3> QED BY <2>1, <3>2, RemoveStepOK
  <2> QED BY <2>1, <2>2
<1>3. P = Nat
  <2>1. P \in SUBSET Nat
    OBVIOUS
  <2> HIDE DEF P
  <2> QED BY <1>1, <1>2, <2>1, Induction
<1>4. S \subseteq Entries
  BY PieceType
<1>5. Cardinality(S) < Depth /\ Depth \in Nat
  BY <1>4, SmallEnough
<1>6. Removes(k, Removal(k)[Depth], Depth)
  BY <1>3, <1>5
<1> QED BY <1>5, <1>6 DEF Removes, TreeRemove

-----------------------------------------------------------------------------
(* The trees below the entries *)

(* B gives every node of the tree of S the entries of its subtree. *)
Subtrees(m, B, S) ==
  /\ B \in [Nodes -> SUBSET Entries] /\ B[nil] = {}
  /\ \A n \in S : Grown(m, B, n) /\ B[n] \subseteq S

LEMMA SubtreesOf ==
  ASSUME NEW m, NEW r, NEW S, AATree(m, r, S)
  PROVE  \E B : Subtrees(m, B, S) /\ B[r] = S
<1>1. PICK B \in [Nodes -> SUBSET Entries] : B[nil] = {} /\ B[r] = S /\ \A n \in S : Grown(m, B, n)
  BY DEF AATree
<1>2. ASSUME NEW n \in S PROVE B[n] \subseteq S
  <2>1. r \in S
    BY <1>1, <1>2 DEF AATree
  <2> QED BY <1>1, <1>2, <2>1 DEF Grown
<1> QED BY <1>1, <1>2 DEF Subtrees

(* The children of an entry share out the entries below it. *)
Shares(B, S, n, l, h) ==
  /\ l \in Nodes /\ h \in Nodes /\ n \in Nat
  /\ l = nil \/ l \in S
  /\ h = nil \/ h \in S
  /\ B[n] = B[l] \cup {n} \cup B[h]
  /\ \A x \in B[l] : x \in Nat /\ x < n
  /\ \A x \in B[h] : x \in Nat /\ n < x
  /\ n \notin B[l] /\ n \notin B[h] /\ B[l] \cap B[h] = {}

LEMMA Below ==
  ASSUME NEW m \in Memory, NEW B, NEW S, S \subseteq Entries, Subtrees(m, B, S), NEW n \in S
  PROVE  Shares(B, S, n, Link(m, n, 0), Link(m, n, 1))
<1> DEFINE l == Link(m, n, 0)
           h == Link(m, n, 1)
<1>1. n \in Entries /\ n \in Nodes /\ n \in Nat
  BY EntryType
<1>2. /\ B[n] = B[l] \cup {n} \cup B[h]
      /\ \A x \in B[l] : x < n
      /\ \A x \in B[h] : n < x
      /\ l = nil \/ l \in B[l]
      /\ h = nil \/ h \in B[h]
      /\ B[n] \subseteq S
  BY DEF Subtrees, Grown
<1>3. l \in Nodes /\ h \in Nodes
  BY <1>1, MemoryType
<1> HIDE DEF l, h
<1>4. \A x \in B[l] \cup B[h] : x \in Nat
  BY <1>2, EntryType
<1>5. n \notin B[l] /\ n \notin B[h]
  <2>1. ~ (n < n)
    BY <1>1
  <2> QED BY <1>2, <2>1
<1>6. B[l] \cap B[h] = {}
  <2> SUFFICES ASSUME NEW x \in B[l], x \in B[h] PROVE FALSE
    OBVIOUS
  <2>1. x \in Nat /\ x < n /\ n < x
    BY <1>2, <1>4
  <2> QED BY <1>1, <2>1
<1> QED BY <1>1, <1>2, <1>3, <1>4, <1>5, <1>6 DEF Shares, l, h

(* The left child is a level below, the right child at most on the level.  *)
LEMMA LevelsBelow ==
  ASSUME NEW m \in Memory, NEW B, NEW S, S \subseteq Entries, Subtrees(m, B, S), NEW n \in S
  PROVE  /\ Level(m, n) \in Nat
         /\ Level(m, Link(m, n, 0)) + 1 = Level(m, n)
         /\ Level(m, Link(m, n, 1)) <= Level(m, n)
<1>1. n \in Nodes
  BY EntryType
<1>2. /\ Level(m, n) \in Nat
      /\ Level(m, Link(m, n, 0)) \in Nat
      /\ Level(m, Link(m, n, 1)) \in Nat
  BY <1>1, MemoryType
<1>3. /\ Level(m, Link(m, n, 0)) = Level(m, n) - 1
      /\ Level(m, Link(m, n, 1)) \in {Level(m, n) - 1, Level(m, n)}
  BY DEF Subtrees, Grown, NodeOK
<1> QED BY <1>2, <1>3

-----------------------------------------------------------------------------
(* Search *)

Holds(n, p) == Address(n) <= p /\ p <= Address(n) + Size

LEMMA SearchingIs ==
  ASSUME NEW m \in Memory, NEW n \in Nodes, NEW p
  PROVE  /\ Searching(m, n, p) \in [Nat -> Nodes]
         /\ Searching(m, n, p)[0] = n
         /\ \A i \in Nat : Searching(m, n, p)[i + 1] = SearchTurn(m, Searching(m, n, p)[i], p)
<1> DEFINE G == [z \in Nat \X Nodes |-> SearchTurn(m, z[2], p)]
           Is(f) == f = [i \in Nat |-> IF i = 0 THEN n ELSE SearchTurn(m, f[i - 1], p)]
<1>1. \A x \in Nodes : SearchTurn(m, x, p) \in Nodes
  <2> SUFFICES ASSUME NEW x \in Nodes PROVE SearchTurn(m, x, p) \in Nodes
    OBVIOUS
  <2>1. Link(m, x, 0) \in Nodes /\ Link(m, x, 1) \in Nodes /\ nil \in Nodes
    BY MemoryType DEF Nodes
  <2> QED BY <2>1 DEF SearchTurn
<1>2. G \in [Nat \X Nodes -> Nodes]
  BY <1>1
<1>3. \A i \in Nat, x \in Nodes : G[<<i, x>>] = SearchTurn(m, x, p)
  OBVIOUS
<1> HIDE DEF G
<1>4. PICK f : Goes(Nodes, G, n, f)
  BY <1>2, Recursion
<1>5. \A i \in Nat : f[i] = IF i = 0 THEN n ELSE SearchTurn(m, f[i - 1], p)
  <2> SUFFICES ASSUME NEW i \in Nat PROVE f[i] = IF i = 0 THEN n ELSE SearchTurn(m, f[i - 1], p)
    OBVIOUS
  <2>1. CASE i = 0
    BY <1>4, <2>1 DEF Goes
  <2>2. CASE i # 0
    <3>1. i - 1 \in Nat /\ (i - 1) + 1 = i
      BY <2>2
    <3>2. f[i] = G[<<i - 1, f[i - 1]>>] /\ f[i - 1] \in Nodes
      BY <1>4, <3>1 DEF Goes
    <3>3. f[i] = SearchTurn(m, f[i - 1], p)
      BY <1>3, <3>1, <3>2
    <3> QED BY <2>2, <3>3
  <2> QED BY <2>1, <2>2
<1>6. Is(f)
  BY <1>4, <1>5 DEF Goes
<1>7. Searching(m, n, p) = CHOOSE g : Is(g)
  BY DEF Searching
<1>8. Is(Searching(m, n, p))
  <2> HIDE DEF Is
  <2> QED BY <1>6, <1>7
<1> DEFINE F == Searching(m, n, p)
<1>9. F = [i \in Nat |-> IF i = 0 THEN n ELSE SearchTurn(m, F[i - 1], p)]
  BY <1>8
<1> HIDE DEF F
<1>10. F[0] = n
  BY <1>9
<1>11. \A i \in Nat : F[i + 1] = SearchTurn(m, F[i], p)
  <2> SUFFICES ASSUME NEW i \in Nat PROVE F[i + 1] = SearchTurn(m, F[i], p)
    OBVIOUS
  <2>1. i + 1 \in Nat /\ i + 1 # 0 /\ (i + 1) - 1 = i
    OBVIOUS
  <2>2. F[i + 1] = IF i + 1 = 0 THEN n ELSE SearchTurn(m, F[(i + 1) - 1], p)
    BY <1>9, <2>1
  <2> QED BY <2>1, <2>2
<1> DEFINE P == {i \in Nat : F[i] \in Nodes}
<1>12. 0 \in P
  BY <1>10
<1>13. \A i \in P : i + 1 \in P
  BY <1>1, <1>11
<1>14. P = Nat
  <2>1. P \in SUBSET Nat
    OBVIOUS
  <2> HIDE DEF P
  <2> QED BY <1>12, <1>13, <2>1, Induction
<1>15. F \in [Nat -> Nodes]
  BY <1>9, <1>14
<1> QED BY <1>10, <1>11, <1>15 DEF F

(* After i turns at n: what n does not have below it does not hold p, and  *)
(* either the search is over or the subtree has lost i entries.            *)
Searched(B, S, p, n, i) ==
  /\ n = nil \/ n \in S
  /\ \A x \in S \ B[n] : ~ Holds(x, p)
  /\ n = nil \/ Holds(n, p) \/ Cardinality(B[n]) + i <= Cardinality(S)

LEMMA SearchTurnOK ==
  ASSUME NEW m \in Memory, NEW B, NEW S, S \subseteq Entries, Subtrees(m, B, S), NEW p \in Nat,
         NEW n \in Nodes, NEW i \in Nat, Searched(B, S, p, n, i)
  PROVE  Searched(B, S, p, SearchTurn(m, n, p), i + 1)
<1>1. CASE n = nil
  BY <1>1 DEF Searched, SearchTurn
<1>2. CASE n # nil
  <2> DEFINE l == Link(m, n, 0)
             h == Link(m, n, 1)
  <2>1. n \in S /\ n \in Nat /\ Address(n) \in Nat /\ Size \in Nat /\ n \in Entries
    <3>1. n \in S
      BY <1>2 DEF Searched
    <3> QED BY <3>1, EntryType, Addresses, HeapTreeAssumption
  <2>2. /\ l \in Nodes /\ h \in Nodes
        /\ l = nil \/ l \in S
        /\ h = nil \/ h \in S
        /\ B[n] = B[l] \cup {n} \cup B[h]
        /\ \A x \in B[l] : x \in Nat /\ x < n
        /\ \A x \in B[h] : x \in Nat /\ n < x
        /\ n \notin B[l] /\ n \notin B[h]
    <3>1. Shares(B, S, n, l, h)
      BY <2>1, Below
    <3> HIDE DEF l, h
    <3> QED BY <3>1 DEF Shares
  <2> HIDE DEF l, h
  <2>3. B[n] \subseteq Entries /\ B[nil] = {} /\ IsFiniteSet(B[n])
    <3>1. B[n] \subseteq Entries /\ B[nil] = {}
      BY DEF Subtrees
    <3> QED BY <3>1, HeapTreeAssumption, FS_Subset
  <2>4. \A c \in {l, h} : Cardinality(B[c]) \in Nat /\ Cardinality(B[c]) < Cardinality(B[n])
    <3> SUFFICES ASSUME NEW c \in {l, h}
                 PROVE  Cardinality(B[c]) \in Nat /\ Cardinality(B[c]) < Cardinality(B[n])
      OBVIOUS
    <3>1. B[c] \subseteq B[n] /\ n \in B[n] /\ n \notin B[c]
      BY <2>2
    <3>2. IsFiniteSet(B[c])
      BY <2>3, <3>1, FS_Subset
    <3>3. IsFiniteSet(B[c] \cup {n}) /\ Cardinality(B[c] \cup {n}) = Cardinality(B[c]) + 1
      BY <3>1, <3>2, FS_AddElement
    <3>4. B[c] \cup {n} \subseteq B[n]
      BY <3>1
    <3>5. Cardinality(B[c] \cup {n}) <= Cardinality(B[n])
      BY <2>3, <3>4, FS_Subset
    <3>6. Cardinality(B[c]) \in Nat /\ Cardinality(B[n]) \in Nat
      BY <2>3, <3>2, FS_CardinalityType
    <3> QED BY <3>3, <3>5, <3>6
  <2>5. Cardinality(S) \in Nat /\ Cardinality(B[n]) \in Nat
    BY <2>3, SmallEnough
  <2>6. CASE p < Address(n)
    <3>1. SearchTurn(m, n, p) = l
      BY <1>2, <2>6 DEF SearchTurn, l
    <3>2. ASSUME NEW x \in S, x \notin B[l] PROVE ~ Holds(x, p)
      <4>1. CASE x \notin B[n]
        BY <4>1 DEF Searched
      <4>2. CASE x \in B[n]
        <5>1. x \in Nat /\ (x = n \/ n < x)
          BY <2>1, <2>2, <3>2, <4>2
        <5>2. Address(x) \in Nat /\ Address(n) <= Address(x)
          BY <2>1, <5>1, Addresses
        <5> QED BY <2>1, <2>6, <5>2 DEF Holds
      <4> QED BY <4>1, <4>2
    <3>3. Cardinality(B[l]) + (i + 1) <= Cardinality(S)
      <4>1. Cardinality(B[l]) \in Nat /\ Cardinality(B[l]) < Cardinality(B[n])
        BY <2>4
      <4>2. Cardinality(B[n]) + i <= Cardinality(S)
        <5>1. ~ Holds(n, p)
          BY <2>1, <2>6 DEF Holds
        <5> QED BY <1>2, <5>1 DEF Searched
      <4> QED BY <2>5, <4>1, <4>2
    <3> QED BY <2>2, <3>1, <3>2, <3>3 DEF Searched
  <2>7. CASE ~ (p < Address(n)) /\ Behind(p, n)
    <3>1. SearchTurn(m, n, p) = h
      BY <1>2, <2>7 DEF SearchTurn, h
    <3>2. p > Address(n) + Size
      BY <2>7 DEF Behind
    <3>3. ASSUME NEW x \in S, x \notin B[h] PROVE ~ Holds(x, p)
      <4>1. CASE x \notin B[n]
        BY <4>1 DEF Searched
      <4>2. CASE x \in B[n]
        <5>1. x \in Nat /\ (x = n \/ x < n)
          BY <2>1, <2>2, <3>3, <4>2
        <5>2. Address(x) \in Nat /\ Address(x) + Size <= Address(n) + Size
          BY <2>1, <5>1, Addresses
        <5> QED BY <2>1, <3>2, <5>2 DEF Holds
      <4> QED BY <4>1, <4>2
    <3>4. Cardinality(B[h]) + (i + 1) <= Cardinality(S)
      <4>1. Cardinality(B[h]) \in Nat /\ Cardinality(B[h]) < Cardinality(B[n])
        BY <2>4
      <4>2. Cardinality(B[n]) + i <= Cardinality(S)
        <5>1. ~ Holds(n, p)
          BY <2>1, <3>2 DEF Holds
        <5> QED BY <1>2, <5>1 DEF Searched
      <4> QED BY <2>5, <4>1, <4>2
    <3> QED BY <2>2, <3>1, <3>3, <3>4 DEF Searched
  <2>8. CASE ~ (p < Address(n)) /\ ~ Behind(p, n)
    <3>1. SearchTurn(m, n, p) = n
      BY <1>2, <2>8 DEF SearchTurn
    <3>2. Holds(n, p)
      BY <2>1, <2>8 DEF Holds, Behind
    <3> QED BY <3>1, <3>2 DEF Searched
  <2> QED BY <2>6, <2>7, <2>8
<1> QED BY <1>1, <1>2

(* TreeSearch finds the entry that holds p, if there is one. *)
LEMMA TreeSearchOK ==
  ASSUME NEW m, Heap(m), NEW r \in Nodes, NEW S, AATree(m, r, S), NEW p \in Nat
  PROVE  LET n == TreeSearch(m, r, p) IN
         IF n = nil THEN \A k \in S : ~ Holds(k, p) ELSE n \in S /\ Holds(n, p)
<1>1. S \subseteq Entries /\ m \in Memory /\ (r = nil \/ r \in S)
  BY TreeType DEF Heap
<1>2. PICK B : Subtrees(m, B, S) /\ B[r] = S
  BY SubtreesOf
<1> DEFINE F == Searching(m, r, p)
           P == {i \in Nat : Searched(B, S, p, F[i], i)}
<1>3. F \in [Nat -> Nodes] /\ F[0] = r /\ \A i \in Nat : F[i + 1] = SearchTurn(m, F[i], p)
  BY <1>1, SearchingIs
<1>4. TreeSearch(m, r, p) = F[Depth]
  BY DEF TreeSearch
<1> HIDE DEF F
<1>5. Cardinality(S) \in Nat /\ Cardinality(S) < Depth /\ Depth \in Nat
  BY <1>1, SmallEnough
<1>6. 0 \in P
  <2>1. Cardinality(B[r]) + 0 <= Cardinality(S)
    BY <1>2, <1>5
  <2>2. Searched(B, S, p, r, 0)
    BY <1>1, <1>2, <2>1 DEF Searched
  <2> QED BY <1>3, <2>2
<1>7. \A i \in P : i + 1 \in P
  <2> SUFFICES ASSUME NEW i \in P PROVE i + 1 \in P
    OBVIOUS
  <2>1. i \in Nat /\ Searched(B, S, p, F[i], i) /\ F[i] \in Nodes
    BY <1>3
  <2>2. Searched(B, S, p, SearchTurn(m, F[i], p), i + 1)
    BY <1>1, <1>2, <2>1, SearchTurnOK
  <2>3. F[i + 1] = SearchTurn(m, F[i], p)
    BY <1>3, <2>1
  <2>4. Searched(B, S, p, F[i + 1], i + 1)
    BY <2>2, <2>3
  <2> QED BY <2>1, <2>4
<1>8. P = Nat
  <2>1. P \in SUBSET Nat
    OBVIOUS
  <2> HIDE DEF P
  <2> QED BY <1>6, <1>7, <2>1, Induction
<1> DEFINE n == F[Depth]
<1>9. Searched(B, S, p, n, Depth) /\ n \in Nodes
  BY <1>3, <1>5, <1>8
<1> HIDE DEF n
<1>10. n = nil \/ Holds(n, p)
  <2> SUFFICES ASSUME n # nil, ~ Holds(n, p) PROVE FALSE
    OBVIOUS
  <2>1. Cardinality(B[n]) + Depth <= Cardinality(S)
    BY <1>9 DEF Searched
  <2>2. B[n] \subseteq Entries
    BY <1>2, <1>9 DEF Subtrees
  <2>3. Cardinality(B[n]) \in Nat
    BY <2>2, SmallEnough
  <2> QED BY <1>5, <2>1, <2>3
<1>11. n = nil => \A k \in S : ~ Holds(k, p)
  BY <1>2, <1>9 DEF Searched, Subtrees
<1>12. n # nil => n \in S
  BY <1>9 DEF Searched
<1> QED BY <1>4, <1>10, <1>11, <1>12 DEF n

-----------------------------------------------------------------------------
(* The walk *)

(* The stack up holds the roots of disjoint subtrees, with the entries Z   *)
(* all told; from the bottom of it up the levels fall.                     *)
Stack(m, B, S, top, up, Z) ==
  /\ up \in Seq(S)
  /\ \A i, j \in 1 .. Len(up) : i # j => B[up[i]] \cap B[up[j]] = {}
  /\ \A i \in 1 .. Len(up) : B[up[i]] \subseteq Z
  /\ \A x \in Z : \E i \in 1 .. Len(up) : x \in B[up[i]]
  /\ \A i \in 1 .. Len(up) : Len(up) + Level(m, up[i]) <= top + i

LEMMA Push ==
  ASSUME NEW m \in Memory, NEW B, NEW S, S \subseteq Entries, NEW top \in Nat, NEW up, NEW Z,
         Stack(m, B, S, top, up, Z), NEW n \in S, B[n] \cap Z = {}, Len(up) + Level(m, n) <= top
  PROVE  Stack(m, B, S, top, <<n>> \o up, Z \cup B[n])
<1> DEFINE more == <<n>> \o up
           N == Len(up)
<1>1. up \in Seq(S) /\ N \in Nat
  BY DEF Stack
<1>2. /\ more \in Seq(S) /\ Len(more) = N + 1 /\ more[1] = n
      /\ \A i \in 1 .. N : more[i + 1] = up[i]
  BY <1>1
<1>3. \A i \in 1 .. N + 1 : i = 1 \/ (i - 1 \in 1 .. N /\ more[i] = up[i - 1])
  <2> SUFFICES ASSUME NEW i \in 1 .. N + 1, i # 1 PROVE i - 1 \in 1 .. N /\ more[i] = up[i - 1]
    OBVIOUS
  <2>1. i - 1 \in 1 .. N /\ (i - 1) + 1 = i
    BY <1>1
  <2> HIDE DEF more, N
  <2> QED BY <1>2, <2>1
<1> HIDE DEF more
<1>4. ASSUME NEW i \in 1 .. N + 1 PROVE B[more[i]] \subseteq Z \cup B[n]
  <2>1. CASE i = 1
    BY <1>2, <2>1
  <2>2. CASE i # 1
    BY <1>3, <2>2 DEF Stack
  <2> QED BY <2>1, <2>2
<1>5. ASSUME NEW i \in 1 .. N + 1, NEW j \in 1 .. N + 1, i # j PROVE B[more[i]] \cap B[more[j]] = {}
  <2>1. CASE i = 1
    <3>1. j - 1 \in 1 .. N /\ more[j] = up[j - 1]
      BY <1>3, <1>5, <2>1
    <3>2. B[up[j - 1]] \subseteq Z
      BY <3>1 DEF Stack
    <3> QED BY <1>2, <2>1, <3>1, <3>2
  <2>2. CASE j = 1
    <3>1. i - 1 \in 1 .. N /\ more[i] = up[i - 1]
      BY <1>3, <1>5, <2>2
    <3>2. B[up[i - 1]] \subseteq Z
      BY <3>1 DEF Stack
    <3> QED BY <1>2, <2>2, <3>1, <3>2
  <2>3. CASE i # 1 /\ j # 1
    <3>1. i - 1 \in 1 .. N /\ more[i] = up[i - 1] /\ j - 1 \in 1 .. N /\ more[j] = up[j - 1]
      BY <1>3, <2>3
    <3>2. i - 1 # j - 1
      BY <1>1, <1>5
    <3> QED BY <3>1, <3>2 DEF Stack
  <2> QED BY <2>1, <2>2, <2>3
<1>6. ASSUME NEW x \in Z \cup B[n] PROVE \E i \in 1 .. N + 1 : x \in B[more[i]]
  <2>1. CASE x \in B[n]
    <3>1. 1 \in 1 .. N + 1
      BY <1>1
    <3> QED BY <1>2, <2>1, <3>1
  <2>2. CASE x \in Z
    <3>1. PICK i \in 1 .. N : x \in B[up[i]]
      BY <2>2 DEF Stack
    <3>2. i + 1 \in 1 .. N + 1
      BY <1>1
    <3> HIDE DEF N
    <3>3. more[i + 1] = up[i]
      BY <1>2
    <3> QED BY <3>1, <3>2, <3>3
  <2> QED BY <2>1, <2>2
<1>7. ASSUME NEW i \in 1 .. N + 1 PROVE (N + 1) + Level(m, more[i]) <= top + i
  <2>1. CASE i = 1
    <3>1. n \in Nodes
      BY EntryType
    <3>2. Level(m, n) \in Nat
      BY <3>1, MemoryType
    <3> QED BY <1>1, <1>2, <2>1, <3>2
  <2>2. CASE i # 1
    <3>1. i - 1 \in 1 .. N /\ more[i] = up[i - 1]
      BY <1>3, <2>2
    <3>2. N + Level(m, up[i - 1]) <= top + (i - 1)
      BY <3>1 DEF Stack
    <3>3. up[i - 1] \in S
      BY <1>1, <3>1
    <3>4. Level(m, up[i - 1]) \in Nat
      BY <3>3, EntryType, MemoryType
    <3> QED BY <1>1, <3>1, <3>2, <3>4
  <2> QED BY <2>1, <2>2
<1>8. Stack(m, B, S, top, more, Z \cup B[n])
  <2> HIDE DEF N
  <2> QED BY <1>2, <1>4, <1>5, <1>6, <1>7 DEF Stack
<1> QED BY <1>8 DEF more

LEMMA Pop ==
  ASSUME NEW m \in Memory, NEW B, NEW S, S \subseteq Entries, NEW top \in Nat, NEW up, NEW Z,
         Stack(m, B, S, top, up, Z), up # <<>>
  PROVE  /\ Head(up) \in S /\ B[Head(up)] \subseteq Z
         /\ Len(Tail(up)) + Level(m, Head(up)) <= top
         /\ Stack(m, B, S, top, Tail(up), Z \ B[Head(up)])
<1> DEFINE rest == Tail(up)
           n == Head(up)
           N == Len(up)
<1>1. up \in Seq(S) /\ N \in Nat /\ N # 0
  BY DEF Stack
<1>2. /\ rest \in Seq(S) /\ Len(rest) = N - 1 /\ n = up[1] /\ n \in S /\ 1 \in 1 .. N
      /\ \A i \in 1 .. N - 1 : rest[i] = up[i + 1] /\ i + 1 \in 1 .. N /\ i + 1 # 1
  BY <1>1
<1> HIDE DEF rest, n
<1>3. B[n] \subseteq Z /\ N + Level(m, n) <= top + 1
  BY <1>2 DEF Stack
<1>4. Level(m, n) \in Nat
  BY <1>2, EntryType, MemoryType
<1>5. Len(rest) + Level(m, n) <= top
  BY <1>1, <1>2, <1>3, <1>4
<1>6. ASSUME NEW i \in 1 .. N - 1 PROVE B[rest[i]] \subseteq Z \ B[n]
  <2>1. B[up[i + 1]] \subseteq Z /\ B[up[i + 1]] \cap B[up[1]] = {}
    BY <1>2 DEF Stack
  <2> QED BY <1>2, <2>1
<1>7. ASSUME NEW i \in 1 .. N - 1, NEW j \in 1 .. N - 1, i # j PROVE B[rest[i]] \cap B[rest[j]] = {}
  <2> DEFINE x == i + 1
             y == j + 1
  <2>1. x # y
    BY <1>7
  <2>2. rest[i] = up[x] /\ x \in 1 .. N /\ rest[j] = up[y] /\ y \in 1 .. N
    BY <1>2
  <2> HIDE DEF x, y
  <2>3. B[up[x]] \cap B[up[y]] = {}
    BY <2>1, <2>2 DEF Stack
  <2> QED BY <2>2, <2>3
<1>8. ASSUME NEW x \in Z \ B[n] PROVE \E i \in 1 .. N - 1 : x \in B[rest[i]]
  <2>1. PICK i \in 1 .. N : x \in B[up[i]]
    BY DEF Stack
  <2>2. i # 1
    BY <1>2, <2>1
  <2>3. i - 1 \in 1 .. N - 1 /\ (i - 1) + 1 = i
    BY <1>1, <2>2
  <2> HIDE DEF N
  <2>4. rest[i - 1] = up[i]
    BY <1>2, <2>3
  <2> QED BY <2>1, <2>3, <2>4
<1>9. ASSUME NEW i \in 1 .. N - 1 PROVE (N - 1) + Level(m, rest[i]) <= top + i
  <2>1. N + Level(m, up[i + 1]) <= top + (i + 1)
    BY <1>2 DEF Stack
  <2>2. up[i + 1] \in S
    BY <1>1, <1>2
  <2>3. Level(m, up[i + 1]) \in Nat
    BY <2>2, EntryType, MemoryType
  <2> QED BY <1>1, <1>2, <2>1, <2>3
<1>10. Stack(m, B, S, top, rest, Z \ B[n])
  <2> HIDE DEF N
  <2> QED BY <1>2, <1>6, <1>7, <1>8, <1>9 DEF Stack
<1> QED BY <1>2, <1>3, <1>5, <1>10 DEF rest, n

(* The children of an entry that has been taken from the stack go on it,   *)
(* with all the entries below it.                                          *)
LEMMA PushChildrenOK ==
  ASSUME NEW m \in Memory, NEW B, NEW S, S \subseteq Entries, Subtrees(m, B, S), NEW top \in Nat,
         NEW up, NEW Z, NEW n \in S, Stack(m, B, S, top, up, Z),
         B[n] \cap Z = {}, Len(up) + Level(m, n) <= top
  PROVE  Stack(m, B, S, top, PushChildren(m, n, up), Z \cup (B[n] \ {n}))
<1> DEFINE l == Link(m, n, 0)
           h == Link(m, n, 1)
           rest == IF h # nil THEN <<h>> \o up ELSE up
           Y == Z \cup B[h]
<1>1. Shares(B, S, n, l, h)
  BY Below
<1>2. /\ Level(m, n) \in Nat /\ Level(m, l) + 1 = Level(m, n) /\ Level(m, h) <= Level(m, n)
      /\ Level(m, l) \in Nat /\ Level(m, h) \in Nat /\ Len(up) \in Nat /\ up \in Seq(S)
  <2>1. Len(up) \in Nat /\ up \in Seq(S)
    BY DEF Stack
  <2>2. n \in Nodes
    BY EntryType
  <2>3. l \in Nodes /\ h \in Nodes
    BY <2>2, MemoryType
  <2>4. Level(m, l) \in Nat /\ Level(m, h) \in Nat
    BY <2>3, MemoryType
  <2> QED BY <2>1, <2>4, LevelsBelow
<1>3. PushChildren(m, n, up) = IF l # nil THEN <<l>> \o rest ELSE rest
  BY DEF PushChildren
<1> HIDE DEF l, h
<1>4. /\ l = nil \/ l \in S
      /\ h = nil \/ h \in S
      /\ B[n] = B[l] \cup {n} \cup B[h]
      /\ n \notin B[l] /\ n \notin B[h] /\ B[l] \cap B[h] = {}
      /\ B[nil] = {}
  BY <1>1 DEF Shares, Subtrees
<1>5. Stack(m, B, S, top, rest, Y) /\ Len(rest) + Level(m, l) <= top
  <2>1. CASE h = nil
    <3>1. rest = up /\ Y = Z
      BY <1>4, <2>1
    <3>2. Len(up) + Level(m, l) <= top
      BY <1>2
    <3> HIDE DEF rest, Y
    <3> QED BY <3>1, <3>2
  <2>2. CASE h # nil
    <3>1. rest = <<h>> \o up /\ h \in S /\ B[h] \cap Z = {}
      BY <1>4, <2>2
    <3>2. Len(up) + Level(m, h) <= top
      BY <1>2
    <3>3. Stack(m, B, S, top, <<h>> \o up, Y)
      BY <3>1, <3>2, Push
    <3>4. Len(<<h>> \o up) = Len(up) + 1
      BY <1>2, <3>1
    <3>5. Len(up) + 1 + Level(m, l) <= top
      BY <1>2
    <3> QED BY <3>1, <3>3, <3>4, <3>5
  <2> QED BY <2>1, <2>2
<1> HIDE DEF rest
<1>6. CASE l = nil
  <2>1. Z \cup (B[n] \ {n}) = Y
    BY <1>4, <1>6
  <2> QED BY <1>3, <1>5, <1>6, <2>1
<1>7. CASE l # nil
  <2>1. l \in S /\ B[l] \cap Y = {}
    BY <1>4, <1>7
  <2>2. Z \cup (B[n] \ {n}) = Y \cup B[l]
    BY <1>4
  <2> HIDE DEF Y
  <2>3. Stack(m, B, S, top, <<l>> \o rest, Y \cup B[l])
    BY <1>5, <2>1, Push
  <2> QED BY <1>3, <1>7, <2>2, <2>3
<1> QED BY <1>6, <1>7

Walks == [up : Seq(Nodes), visited : Seq(Nodes), most : Nat]

LEMMA WalkTurnType ==
  ASSUME NEW m \in Memory, NEW walk \in Walks
  PROVE  WalkTurn(m, walk) \in Walks
<1>1. CASE walk.up = <<>>
  BY <1>1 DEF WalkTurn
<1>2. CASE walk.up # <<>>
  <2> DEFINE n == Head(walk.up)
             up == Tail(walk.up)
             rest == PushChildren(m, n, up)
             visited == Append(walk.visited, n)
             most == IF Len(rest) > walk.most THEN Len(rest) ELSE walk.most
  <2>1. walk.up \in Seq(Nodes) /\ walk.visited \in Seq(Nodes) /\ walk.most \in Nat
    BY DEF Walks
  <2>2. n \in Nodes /\ up \in Seq(Nodes)
    BY <1>2, <2>1
  <2> HIDE DEF n, up
  <2>3. Link(m, n, 0) \in Nodes /\ Link(m, n, 1) \in Nodes
    BY <2>2, MemoryType
  <2>4. rest \in Seq(Nodes)
    <3> DEFINE l == Link(m, n, 0)
               h == Link(m, n, 1)
               some == IF h # nil THEN <<h>> \o up ELSE up
    <3>1. rest = IF l # nil THEN <<l>> \o some ELSE some
      BY DEF PushChildren
    <3> HIDE DEF l, h, rest
    <3>2. l \in Nodes /\ h \in Nodes
      BY <2>3 DEF l, h
    <3>3. some \in Seq(Nodes)
      BY <2>2, <3>2
    <3> HIDE DEF some
    <3> QED BY <3>1, <3>2, <3>3
  <2> HIDE DEF rest
  <2>5. visited \in Seq(Nodes) /\ most \in Nat
    BY <2>1, <2>2, <2>4
  <2>6. WalkTurn(m, walk) = [up |-> rest, visited |-> visited, most |-> most]
    BY <1>2 DEF WalkTurn, rest, n, up
  <2> HIDE DEF visited, most
  <2> QED BY <2>4, <2>5, <2>6 DEF Walks
<1> QED BY <1>1, <1>2

LEMMA WalkingIs ==
  ASSUME NEW m \in Memory, NEW r \in Nodes
  PROVE  /\ Walking(m, r) \in [Nat -> Walks]
         /\ Walking(m, r)[0] = [up |-> <<r>>, visited |-> <<>>, most |-> 1]
         /\ \A i \in Nat : Walking(m, r)[i + 1] = WalkTurn(m, Walking(m, r)[i])
<1> DEFINE G == [z \in Nat \X Walks |-> WalkTurn(m, z[2])]
           w0 == [up |-> <<r>>, visited |-> <<>>, most |-> 1]
           Is(f) == f = [i \in Nat |-> IF i = 0 THEN w0 ELSE WalkTurn(m, f[i - 1])]
<1>1. w0 \in Walks
  <2>1. <<r>> \in Seq(Nodes) /\ <<>> \in Seq(Nodes) /\ 1 \in Nat
    OBVIOUS
  <2> QED BY <2>1 DEF Walks
<1>2. G \in [Nat \X Walks -> Walks]
  BY WalkTurnType
<1>3. \A i \in Nat, x \in Walks : G[<<i, x>>] = WalkTurn(m, x)
  OBVIOUS
<1> HIDE DEF G, w0
<1>4. PICK f : Goes(Walks, G, w0, f)
  BY <1>1, <1>2, Recursion
<1>5. \A i \in Nat : f[i] = IF i = 0 THEN w0 ELSE WalkTurn(m, f[i - 1])
  <2> SUFFICES ASSUME NEW i \in Nat PROVE f[i] = IF i = 0 THEN w0 ELSE WalkTurn(m, f[i - 1])
    OBVIOUS
  <2>1. CASE i = 0
    BY <1>4, <2>1 DEF Goes
  <2>2. CASE i # 0
    <3>1. i - 1 \in Nat /\ (i - 1) + 1 = i
      BY <2>2
    <3>2. f[i] = G[<<i - 1, f[i - 1]>>] /\ f[i - 1] \in Walks
      BY <1>4, <3>1 DEF Goes
    <3>3. f[i] = WalkTurn(m, f[i - 1])
      BY <1>3, <3>1, <3>2
    <3> QED BY <2>2, <3>3
  <2> QED BY <2>1, <2>2
<1>6. Is(f)
  BY <1>4, <1>5 DEF Goes
<1>7. Walking(m, r) = CHOOSE g : Is(g)
  BY DEF Walking, w0
<1>8. Is(Walking(m, r))
  <2> HIDE DEF Is
  <2> QED BY <1>6, <1>7
<1> DEFINE F == Walking(m, r)
<1>9. F = [i \in Nat |-> IF i = 0 THEN w0 ELSE WalkTurn(m, F[i - 1])]
  BY <1>8
<1> HIDE DEF F
<1>10. F[0] = w0
  BY <1>9
<1>11. \A i \in Nat : F[i + 1] = WalkTurn(m, F[i])
  <2> SUFFICES ASSUME NEW i \in Nat PROVE F[i + 1] = WalkTurn(m, F[i])
    OBVIOUS
  <2>1. i + 1 \in Nat /\ i + 1 # 0 /\ (i + 1) - 1 = i
    OBVIOUS
  <2>2. F[i + 1] = IF i + 1 = 0 THEN w0 ELSE WalkTurn(m, F[(i + 1) - 1])
    BY <1>9, <2>1
  <2> QED BY <2>1, <2>2
<1> DEFINE P == {i \in Nat : F[i] \in Walks}
<1>12. 0 \in P
  BY <1>1, <1>10
<1>13. \A i \in P : i + 1 \in P
  BY <1>11, WalkTurnType
<1>14. P = Nat
  <2>1. P \in SUBSET Nat
    OBVIOUS
  <2> HIDE DEF P
  <2> QED BY <1>12, <1>13, <2>1, Induction
<1>15. F \in [Nat -> Walks]
  BY <1>9, <1>14
<1> QED BY <1>10, <1>11, <1>15 DEF F, w0

(* No entry of a tree is on the level of nil, so that the stack is not     *)
(* longer than the levels that are left.                                   *)
LEMMA StackBound ==
  ASSUME NEW m \in Memory, NEW B, NEW S, S \subseteq Entries, Subtrees(m, B, S), NEW top \in Nat,
         NEW up, NEW Z, Stack(m, B, S, top, up, Z)
  PROVE  Len(up) \in Nat /\ Len(up) <= top
<1>1. up \in Seq(S) /\ Len(up) \in Nat
  BY DEF Stack
<1>2. CASE Len(up) = 0
  BY <1>2
<1>3. CASE Len(up) # 0
  <2>1. 1 \in 1 .. Len(up)
    BY <1>1, <1>3
  <2>2. up[1] \in S /\ Len(up) + Level(m, up[1]) <= top + 1
    BY <1>1, <2>1 DEF Stack
  <2>3. Level(m, up[1]) \in Nat /\ Level(m, Link(m, up[1], 0)) + 1 = Level(m, up[1])
    BY <2>2, LevelsBelow
  <2>4. Level(m, Link(m, up[1], 0)) \in Nat
    <3>1. up[1] \in Nodes
      BY <2>2, EntryType
    <3>2. Link(m, up[1], 0) \in Nodes
      BY <3>1, MemoryType
    <3> QED BY <3>2, MemoryType
  <2> QED BY <1>1, <2>2, <2>3, <2>4
<1> QED BY <1>2, <1>3

(* No entry occurs twice. *)
Single(s) == \A i, j \in 1 .. Len(s) : s[i] = s[j] => i = j

LEMMA ToSetFacts ==
  ASSUME NEW S, NEW s \in Seq(S), NEW x \in S
  PROVE  /\ ToSet(s) = {s[i] : i \in 1 .. Len(s)}
         /\ ToSet(s) \subseteq S
         /\ ToSet(Append(s, x)) = ToSet(s) \cup {x}
         /\ Single(s) /\ x \notin ToSet(s) => Single(Append(s, x))
<1> DEFINE t == Append(s, x)
           N == Len(s)
<1>1. N \in Nat /\ DOMAIN s = 1 .. N /\ \A i \in 1 .. N : s[i] \in S
  OBVIOUS
<1>2. t \in Seq(S) /\ Len(t) = N + 1 /\ DOMAIN t = 1 .. N + 1
      /\ t[N + 1] = x /\ \A i \in 1 .. N : t[i] = s[i]
  OBVIOUS
<1>3. ToSet(s) = {s[i] : i \in 1 .. Len(s)}
  BY <1>1 DEF ToSet
<1>4. ToSet(s) \subseteq S
  BY <1>1, <1>3
<1> HIDE DEF t, N
<1>5. \A i \in 1 .. N + 1 : i = N + 1 \/ i \in 1 .. N
  BY <1>1
<1>6. \A i \in 1 .. N : i \in 1 .. N + 1 /\ i # N + 1
  BY <1>1
<1>7. N + 1 \in 1 .. N + 1
  BY <1>1
<1>8. ToSet(t) = ToSet(s) \cup {x}
  <2>1. ToSet(t) = {t[i] : i \in 1 .. N + 1}
    BY <1>2 DEF ToSet
  <2>2. ToSet(s) = {s[i] : i \in 1 .. N}
    BY <1>3 DEF N
  <2> QED BY <1>2, <1>5, <1>6, <1>7, <2>1, <2>2
<1>9. ASSUME Single(s), x \notin ToSet(s) PROVE Single(t)
  <2> SUFFICES ASSUME NEW i \in 1 .. N + 1, NEW j \in 1 .. N + 1, t[i] = t[j] PROVE i = j
    BY <1>2 DEF Single
  <2>1. \A k \in 1 .. N : t[k] # x
    BY <1>2, <1>3, <1>9 DEF N
  <2>2. \A k, o \in 1 .. N : s[k] = s[o] => k = o
    BY <1>9 DEF Single, N
  <2>3. CASE i = N + 1
    BY <1>2, <1>5, <2>1, <2>3
  <2>4. CASE j = N + 1
    BY <1>2, <1>5, <2>1, <2>4
  <2>5. CASE i # N + 1 /\ j # N + 1
    BY <1>2, <1>5, <2>2, <2>5
  <2> QED BY <2>3, <2>4, <2>5
<1> QED BY <1>3, <1>4, <1>8, <1>9 DEF t

(* A sequence of all the entries of a set, each of them once. *)
LEMMA SingleLength ==
  ASSUME NEW S, S \subseteq Entries, NEW s \in Seq(S), Single(s)
  PROVE  /\ Len(s) \in Nat /\ Len(s) <= Cardinality(S)
         /\ ToSet(s) = S => Len(s) = Cardinality(S)
<1> DEFINE D == 1 .. Len(s)
<1>1. Len(s) \in Nat /\ s \in [D -> S]
  OBVIOUS
<1>2. IsFiniteSet(S)
  BY HeapTreeAssumption, FS_Subset
<1>3. Cardinality(D) = Len(s)
  <2> DEFINE N == Len(s)
  <2>1. N \in Nat /\ N \in Int /\ 1 \in Int
    BY <1>1
  <2> HIDE DEF N
  <2>2. Cardinality(1 .. N) = IF 1 > N THEN 0 ELSE N - 1 + 1
    BY <2>1, FS_Interval
  <2>3. Cardinality(1 .. N) = N
    BY <2>1, <2>2
  <2> QED BY <2>3 DEF N
<1>4. s \in Injection(D, S)
  BY <1>1 DEF Injection, IsInjective, Single
<1> HIDE DEF D
<1>5. Cardinality(D) <= Cardinality(S) /\ (Cardinality(D) = Cardinality(S) <=> s \in Surjection(D, S))
  BY <1>2, <1>4, FS_Injection
<1>6. ToSet(s) = S => s \in Surjection(D, S)
  <2> SUFFICES ASSUME ToSet(s) = S PROVE s \in Surjection(D, S)
    OBVIOUS
  <2>1. \A x \in S : \E i \in D : s[i] = x
    BY <1>1 DEF ToSet, D
  <2> QED BY <1>1, <2>1 DEF Surjection
<1> QED BY <1>1, <1>3, <1>5, <1>6

(* After i turns: what has been visited, what waits on the stack, and the  *)
(* most that was on it.                                                    *)
Walked(m, B, S, top, walk, i) ==
  /\ walk.visited \in Seq(S) /\ Single(walk.visited)
  /\ Stack(m, B, S, top, walk.up, S \ ToSet(walk.visited))
  /\ walk.up = <<>> \/ Len(walk.visited) = i
  /\ walk.most \in Nat /\ walk.most <= top

LEMMA WalkTurnOK ==
  ASSUME NEW m \in Memory, NEW B, NEW S, S \subseteq Entries, Subtrees(m, B, S), NEW top \in Nat,
         NEW walk, NEW i \in Nat, Walked(m, B, S, top, walk, i)
  PROVE  Walked(m, B, S, top, WalkTurn(m, walk), i + 1)
<1>1. CASE walk.up = <<>>
  BY <1>1 DEF Walked, WalkTurn
<1>2. CASE walk.up # <<>>
  <2> DEFINE n == Head(walk.up)
             up == Tail(walk.up)
             rest == PushChildren(m, n, up)
             seen == walk.visited
             visited == Append(seen, n)
             most == IF Len(rest) > walk.most THEN Len(rest) ELSE walk.most
             Z == S \ ToSet(seen)
  <2>1. /\ seen \in Seq(S) /\ Single(seen) /\ Len(seen) = i
        /\ Stack(m, B, S, top, walk.up, Z)
        /\ walk.most \in Nat /\ walk.most <= top
    BY <1>2 DEF Walked
  <2>2. WalkTurn(m, walk) = [up |-> rest, visited |-> visited, most |-> most]
    BY <1>2 DEF WalkTurn
  <2> HIDE DEF Z, seen
  <2>3. /\ n \in S /\ B[n] \subseteq Z
        /\ Len(up) + Level(m, n) <= top
        /\ Stack(m, B, S, top, up, Z \ B[n])
    BY <1>2, <2>1, Pop
  <2> HIDE DEF n, up
  <2>4. Stack(m, B, S, top, rest, (Z \ B[n]) \cup (B[n] \ {n}))
    <3> DEFINE X == Z \ B[n]
    <3>1. B[n] \cap X = {} /\ Stack(m, B, S, top, up, X)
      BY <2>3
    <3> HIDE DEF X, rest
    <3>2. Stack(m, B, S, top, rest, X \cup (B[n] \ {n}))
      BY <2>3, <3>1, PushChildrenOK DEF rest
    <3> QED BY <3>2 DEF X
  <2> HIDE DEF rest
  <2>5. n \in B[n]
    <3>1. Shares(B, S, n, Link(m, n, 0), Link(m, n, 1))
      BY <2>3, Below
    <3> QED BY <3>1 DEF Shares
  <2>6. n \notin ToSet(seen)
    BY <2>3, <2>5 DEF Z
  <2>7. ToSet(visited) = ToSet(seen) \cup {n} /\ Single(visited)
    BY <2>1, <2>3, <2>6, ToSetFacts
  <2>8. visited \in Seq(S) /\ Len(visited) = i + 1
    BY <2>1, <2>3
  <2> HIDE DEF visited
  <2>9. (Z \ B[n]) \cup (B[n] \ {n}) = S \ ToSet(visited)
    BY <2>3, <2>5, <2>7 DEF Z
  <2>10. Stack(m, B, S, top, rest, S \ ToSet(visited))
    BY <2>4, <2>9
  <2>11. Len(rest) \in Nat /\ Len(rest) <= top
    BY <2>10, StackBound
  <2>12. most \in Nat /\ most <= top
    BY <2>1, <2>11
  <2> HIDE DEF most
  <2> DEFINE next == WalkTurn(m, walk)
  <2>13. next.up = rest /\ next.visited = visited /\ next.most = most
    BY <2>2
  <2> HIDE DEF next
  <2>14. Walked(m, B, S, top, next, i + 1)
    BY <2>7, <2>8, <2>10, <2>12, <2>13 DEF Walked
  <2> QED BY <2>14 DEF next
<1> QED BY <1>1, <1>2

(* GC_Sweep visits every entry of the tree once, and its stack is never    *)
(* longer than the level of the root.                                      *)
LEMMA WalkOK ==
  ASSUME NEW m, Heap(m), NEW r \in Nodes, NEW S, AATree(m, r, S), r # nil
  PROVE  LET walk == Walking(m, r)[Depth] IN
         /\ walk.visited \in Seq(S) /\ Single(walk.visited)
         /\ ToSet(walk.visited) = S
         /\ Len(walk.visited) = Cardinality(S)
         /\ walk.most <= Level(m, r)
<1>1. S \subseteq Entries /\ m \in Memory /\ r \in S
  BY TreeType DEF Heap
<1>2. PICK B : Subtrees(m, B, S) /\ B[r] = S
  BY SubtreesOf
<1> DEFINE F == Walking(m, r)
           top == Level(m, r)
           P == {i \in Nat : Walked(m, B, S, top, F[i], i)}
<1>3. F[0] = [up |-> <<r>>, visited |-> <<>>, most |-> 1] /\ \A i \in Nat : F[i + 1] = WalkTurn(m, F[i])
  BY <1>1, WalkingIs
<1>4. top \in Nat /\ 1 <= top
  <2>1. Level(m, r) \in Nat /\ Level(m, Link(m, r, 0)) + 1 = Level(m, r)
    BY <1>1, <1>2, LevelsBelow
  <2>2. Level(m, Link(m, r, 0)) \in Nat
    <3>1. Link(m, r, 0) \in Nodes
      BY <1>1, MemoryType
    <3> QED BY <1>1, <3>1, MemoryType
  <2> QED BY <2>1, <2>2
<1>5. Stack(m, B, S, top, <<r>>, S)
  <2> DEFINE up == <<r>>
  <2>1. up \in Seq(S) /\ Len(up) = 1 /\ up[1] = r
    BY <1>1
  <2> HIDE DEF up
  <2>2. \A i \in 1 .. 1 : i = 1
    OBVIOUS
  <2>3. 1 \in 1 .. 1
    OBVIOUS
  <2>4. 1 + top <= top + 1
    BY <1>4
  <2>5. \A i \in 1 .. 1 : 1 + Level(m, up[i]) <= top + i
    BY <2>1, <2>2, <2>4
  <2>6. Stack(m, B, S, top, up, S)
    BY <1>2, <2>1, <2>2, <2>3, <2>5 DEF Stack
  <2> QED BY <2>6 DEF up
<1> HIDE DEF F, top
<1>6. 0 \in P
  <2> DEFINE e == <<>>
  <2>1. e \in Seq(S) /\ Len(e) = 0 /\ ToSet(e) = {} /\ Single(e)
    BY DEF ToSet, Single
  <2>2. F[0].visited = e /\ F[0].up = <<r>> /\ F[0].most = 1
    BY <1>3
  <2> HIDE DEF e
  <2>3. S \ ToSet(e) = S
    BY <2>1
  <2>4. Stack(m, B, S, top, F[0].up, S \ ToSet(F[0].visited))
    BY <1>5, <2>2, <2>3
  <2>5. F[0].visited \in Seq(S) /\ Single(F[0].visited) /\ Len(F[0].visited) = 0
    BY <2>1, <2>2
  <2>6. F[0].most \in Nat /\ F[0].most <= top
    BY <1>4, <2>2
  <2>7. Walked(m, B, S, top, F[0], 0)
    BY <2>4, <2>5, <2>6 DEF Walked
  <2> QED BY <2>7
<1>7. \A i \in P : i + 1 \in P
  <2> SUFFICES ASSUME NEW i \in P PROVE i + 1 \in P
    OBVIOUS
  <2>1. i \in Nat /\ Walked(m, B, S, top, F[i], i)
    OBVIOUS
  <2>2. Walked(m, B, S, top, WalkTurn(m, F[i]), i + 1)
    BY <1>1, <1>2, <1>4, <2>1, WalkTurnOK
  <2>3. F[i + 1] = WalkTurn(m, F[i])
    BY <1>3, <2>1
  <2>4. Walked(m, B, S, top, F[i + 1], i + 1)
    BY <2>2, <2>3
  <2> QED BY <2>1, <2>4
<1>8. P = Nat
  <2>1. P \in SUBSET Nat
    OBVIOUS
  <2> HIDE DEF P
  <2> QED BY <1>6, <1>7, <2>1, Induction
<1> DEFINE walk == F[Depth]
           visited == walk.visited
<1>9. Cardinality(S) \in Nat /\ Cardinality(S) < Depth /\ Depth \in Nat
  BY <1>1, SmallEnough
<1>10. Walked(m, B, S, top, walk, Depth)
  BY <1>8, <1>9
<1> HIDE DEF walk
<1>11. visited \in Seq(S) /\ Single(visited) /\ walk.most <= top
       /\ Stack(m, B, S, top, walk.up, S \ ToSet(visited))
       /\ (walk.up = <<>> \/ Len(visited) = Depth)
  BY <1>10 DEF Walked
<1> HIDE DEF visited
<1>12. Len(visited) \in Nat /\ Len(visited) <= Cardinality(S)
       /\ (ToSet(visited) = S => Len(visited) = Cardinality(S))
  BY <1>1, <1>11, SingleLength
<1>13. walk.up = <<>>
  <2>1. Len(visited) # Depth
    BY <1>9, <1>12
  <2> QED BY <1>11, <2>1
<1>14. ToSet(visited) = S
  <2> DEFINE Z == S \ ToSet(visited)
  <2>1. \A x \in Z : \E i \in 1 .. Len(walk.up) : x \in B[walk.up[i]]
    BY <1>11 DEF Stack
  <2>2. Len(walk.up) = 0
    BY <1>13
  <2>3. \A i \in 1 .. 0 : FALSE
    OBVIOUS
  <2>4. Z = {}
    BY <2>1, <2>2, <2>3
  <2>5. ToSet(visited) \subseteq S
    BY <1>1, <1>11, ToSetFacts
  <2> QED BY <2>4, <2>5
<1> QED BY <1>11, <1>12, <1>14 DEF walk, visited, F, top

LEMMA Pow2Is ==
  /\ Pow2 \in [Nat -> Nat]
  /\ Pow2[0] = 1
  /\ \A n \in Nat : Pow2[n + 1] = 2 * Pow2[n]
<1> DEFINE G == [z \in Nat \X Nat |-> 2 * z[2]]
           Is(f) == f = [n \in Nat |-> IF n = 0 THEN 1 ELSE 2 * f[n - 1]]
<1>1. G \in [Nat \X Nat -> Nat] /\ 1 \in Nat
  OBVIOUS
<1>2. \A n, x \in Nat : G[<<n, x>>] = 2 * x
  OBVIOUS
<1> HIDE DEF G
<1>3. PICK f : Goes(Nat, G, 1, f)
  BY <1>1, Recursion
<1>4. \A n \in Nat : f[n] = IF n = 0 THEN 1 ELSE 2 * f[n - 1]
  <2> SUFFICES ASSUME NEW n \in Nat PROVE f[n] = IF n = 0 THEN 1 ELSE 2 * f[n - 1]
    OBVIOUS
  <2>1. CASE n = 0
    BY <1>3, <2>1 DEF Goes
  <2>2. CASE n # 0
    <3>1. n - 1 \in Nat /\ (n - 1) + 1 = n
      BY <2>2
    <3>2. f[n] = G[<<n - 1, f[n - 1]>>] /\ f[n - 1] \in Nat
      BY <1>3, <3>1 DEF Goes
    <3>3. f[n] = 2 * f[n - 1]
      BY <1>2, <3>1, <3>2
    <3> QED BY <2>2, <3>3
  <2> QED BY <2>1, <2>2
<1>5. Is(f)
  BY <1>3, <1>4 DEF Goes
<1>6. Pow2 = CHOOSE g : Is(g)
  BY DEF Pow2
<1>7. Is(Pow2)
  <2> HIDE DEF Is
  <2> QED BY <1>5, <1>6
<1> DEFINE F == Pow2
<1>8. F = [n \in Nat |-> IF n = 0 THEN 1 ELSE 2 * F[n - 1]]
  BY <1>7
<1> HIDE DEF F
<1>9. F[0] = 1
  BY <1>8
<1>10. \A n \in Nat : F[n + 1] = 2 * F[n]
  <2> SUFFICES ASSUME NEW n \in Nat PROVE F[n + 1] = 2 * F[n]
    OBVIOUS
  <2>1. n + 1 \in Nat /\ n + 1 # 0 /\ (n + 1) - 1 = n
    OBVIOUS
  <2>2. F[n + 1] = IF n + 1 = 0 THEN 1 ELSE 2 * F[(n + 1) - 1]
    BY <1>8, <2>1
  <2> QED BY <2>1, <2>2
<1> DEFINE P == {n \in Nat : F[n] \in Nat}
<1>11. 0 \in P
  BY <1>9
<1>12. \A n \in P : n + 1 \in P
  BY <1>10
<1>13. P = Nat
  <2>1. P \in SUBSET Nat
    OBVIOUS
  <2> HIDE DEF P
  <2> QED BY <1>11, <1>12, <2>1, Induction
<1>14. F \in [Nat -> Nat]
  BY <1>8, <1>13
<1> QED BY <1>9, <1>10, <1>14 DEF F

(* A tree whose root is on level v has 2^v - 1 entries or more. *)
LEMMA SizeOfLevel ==
  ASSUME NEW m, Heap(m), NEW r, NEW S, NEW v, NEW w, Piece(m, r, S, v, w)
  PROVE  Pow2[v] \in Nat /\ Cardinality(S) \in Nat /\ Cardinality(S) + 1 >= Pow2[v]
<1> DEFINE Large(T, l) == Pow2[l] \in Nat /\ Cardinality(T) \in Nat /\ Cardinality(T) + 1 >= Pow2[l]
           All(n) == \A x, T, l, o : Piece(m, x, T, l, o) /\ Cardinality(T) < n => Large(T, l)
           P == {n \in Nat : All(n)}
<1>1. 0 \in P
  <2>1. \A X : (X \subseteq Entries) => ~ (Cardinality(X) < 0)
    BY SmallEnough
  <2> QED BY <2>1, PieceType
<1>2. \A n \in P : n + 1 \in P
  <2> SUFFICES ASSUME NEW n \in Nat, All(n) PROVE All(n + 1)
    OBVIOUS
  <2> SUFFICES ASSUME NEW x, NEW T, NEW l, NEW o, Piece(m, x, T, l, o), Cardinality(T) < n + 1
               PROVE  Large(T, l)
    OBVIOUS
  <2>1. T \subseteq Entries /\ l \in Nat /\ Cardinality(T) \in Nat /\ Pow2[l] \in Nat
    <3>1. T \subseteq Entries /\ l \in Nat
      BY PieceType
    <3> QED BY <3>1, SmallEnough, Pow2Is
  <2>2. CASE x = nil
    <3>1. l = 0
      BY <2>2, PieceType
    <3> QED BY <2>1, <3>1, Pow2Is
  <2>3. CASE x # nil
    <3>1. PICK a, b, p, q :
            /\ Cell(m, x, a, b, l)
            /\ Piece(m, a, Lower(T, x), l - 1, p)
            /\ Piece(m, b, Upper(T, x), o, q)
            /\ o = l - 1 \/ o = l
      BY <2>3, PieceUnfold
    <3>2. x \in T /\ l # 0
      BY <2>3, PieceType
    <3> DEFINE L == Lower(T, x)
               H == Upper(T, x)
    <3>3. Cardinality(L) \in Nat /\ Cardinality(H) \in Nat
          /\ Cardinality(T) = Cardinality(L) + 1 + Cardinality(H)
      BY <2>1, <3>2, SmallerParts
    <3>4. Piece(m, a, L, l - 1, p) /\ Piece(m, b, H, o, q)
      BY <3>1
    <3> HIDE DEF L, H
    <3>5. Cardinality(L) < n /\ Cardinality(H) < n
      BY <3>3
    <3>6. Large(L, l - 1) /\ Large(H, o)
      <4> HIDE DEF Large
      <4> QED BY <3>4, <3>5
    <3>7. l - 1 \in Nat /\ (l - 1) + 1 = l
      BY <2>1, <3>2
    <3>8. Pow2[l] = 2 * Pow2[l - 1]
      BY <3>7, Pow2Is
    <3>9. Pow2[o] >= Pow2[l - 1]
      BY <2>1, <3>1, <3>6, <3>8
    <3> QED BY <2>1, <3>3, <3>6, <3>8, <3>9
  <2> QED BY <2>2, <2>3
<1>3. P = Nat
  <2>1. P \in SUBSET Nat
    OBVIOUS
  <2> HIDE DEF P
  <2> QED BY <1>1, <1>2, <2>1, Induction
<1>4. S \subseteq Entries
  BY PieceType
<1>5. Cardinality(S) < Depth /\ Depth \in Nat
  BY <1>4, SmallEnough
<1>6. All(Depth)
  BY <1>3, <1>5
<1>7. Large(S, v)
  <2> HIDE DEF Large
  <2> QED BY <1>5, <1>6
<1> QED BY <1>7

-----------------------------------------------------------------------------
(* The removals of a sweep *)

LEMMA RemoveTurnType ==
  ASSUME NEW t \in Trees, NEW n, NEW unused, unused \subseteq Entries
  PROVE  RemoveTurn(t, n, unused) \in Trees
<1>1. CASE n \notin unused
  BY <1>1 DEF RemoveTurn
<1>2. CASE n \in unused
  <2>1. Depth \in Nat /\ n \in Entries
    BY <1>2, SmallEnough
  <2>2. Tree(t.mem, t.root) \in Trees
    BY DEF Tree, Trees
  <2>3. Removal(n)[Depth] \in [Trees -> Trees]
    BY <2>1, RemovalIs
  <2> QED BY <1>2, <2>2, <2>3 DEF RemoveTurn, TreeRemove
<1> QED BY <1>1, <1>2

LEMMA RemovingIs ==
  ASSUME NEW t \in Trees, NEW visited \in Seq(Entries), NEW unused, unused \subseteq Entries
  PROVE  /\ Removing(t, visited, unused)[0] = t
         /\ \A i \in Nat : i < Len(visited) =>
              Removing(t, visited, unused)[i + 1] =
                RemoveTurn(Removing(t, visited, unused)[i], visited[Len(visited) - i], unused)
<1> DEFINE N == Len(visited)
           G == [z \in Nat \X Trees |-> RemoveTurn(z[2], visited[N - z[1]], unused)]
           Is(f) == f = [i \in 0 .. N |-> IF i = 0 THEN t ELSE RemoveTurn(f[i - 1], visited[N + 1 - i], unused)]
<1>1. N \in Nat
  OBVIOUS
<1> HIDE DEF N
<1>2. G \in [Nat \X Trees -> Trees]
  BY RemoveTurnType
<1>3. \A i \in Nat, x \in Trees : G[<<i, x>>] = RemoveTurn(x, visited[N - i], unused)
  OBVIOUS
<1> HIDE DEF G
<1>4. PICK g : Goes(Trees, G, t, g)
  BY <1>2, Recursion
<1> DEFINE f == [i \in 0 .. N |-> g[i]]
<1>5. \A i \in 0 .. N : f[i] = IF i = 0 THEN t ELSE RemoveTurn(f[i - 1], visited[N + 1 - i], unused)
  <2> SUFFICES ASSUME NEW i \in 0 .. N
               PROVE  f[i] = IF i = 0 THEN t ELSE RemoveTurn(f[i - 1], visited[N + 1 - i], unused)
    OBVIOUS
  <2>1. CASE i = 0
    BY <1>1, <1>4, <2>1 DEF Goes
  <2>2. CASE i # 0
    <3>1. i - 1 \in Nat /\ (i - 1) + 1 = i /\ N - (i - 1) = N + 1 - i /\ i - 1 \in 0 .. N
      BY <1>1, <2>2
    <3>2. g[i] = G[<<i - 1, g[i - 1]>>] /\ g[i - 1] \in Trees
      BY <1>4, <3>1 DEF Goes
    <3>3. g[i] = RemoveTurn(g[i - 1], visited[N - (i - 1)], unused)
      BY <1>3, <3>1, <3>2
    <3>4. f[i] = g[i] /\ f[i - 1] = g[i - 1]
      BY <3>1
    <3> HIDE DEF f
    <3> QED BY <2>2, <3>1, <3>3, <3>4
  <2> QED BY <2>1, <2>2
<1>6. Is(f)
  <2>1. f = [i \in 0 .. N |-> f[i]]
    OBVIOUS
  <2> HIDE DEF f
  <2> QED BY <1>5, <2>1
<1>7. Removing(t, visited, unused) = CHOOSE h : Is(h)
  BY DEF Removing, N
<1>8. Is(Removing(t, visited, unused))
  <2> HIDE DEF Is, f
  <2> QED BY <1>6, <1>7
<1> DEFINE F == Removing(t, visited, unused)
<1>9. F = [i \in 0 .. N |-> IF i = 0 THEN t ELSE RemoveTurn(F[i - 1], visited[N + 1 - i], unused)]
  BY <1>8
<1> HIDE DEF F
<1>10. F[0] = t
  <2>1. 0 \in 0 .. N
    BY <1>1
  <2> QED BY <1>9, <2>1
<1>11. ASSUME NEW i \in Nat, i < N PROVE F[i + 1] = RemoveTurn(F[i], visited[N - i], unused)
  <2>1. i + 1 \in 0 .. N /\ i + 1 # 0 /\ (i + 1) - 1 = i /\ N + 1 - (i + 1) = N - i
    BY <1>1, <1>11
  <2>2. F[i + 1] = IF i + 1 = 0 THEN t ELSE RemoveTurn(F[(i + 1) - 1], visited[N + 1 - (i + 1)], unused)
    BY <1>9, <2>1
  <2> QED BY <2>1, <2>2
<1> QED BY <1>10, <1>11 DEF F, N

(* t is a tree of the entries S. *)
TreeOf(t, S) == Heap(t.mem) /\ t.root \in Nodes /\ AATree(t.mem, t.root, S)

LEMMA RemoveTurnOK ==
  ASSUME NEW t, NEW S, TreeOf(t, S), NEW n, NEW unused, n \in unused => n \in S
  PROVE  TreeOf(RemoveTurn(t, n, unused), S \ ({n} \cap unused))
<1>1. CASE n \notin unused
  <2>1. S \ ({n} \cap unused) = S
    BY <1>1
  <2> QED BY <1>1, <2>1 DEF RemoveTurn
<1>2. CASE n \in unused
  <2> DEFINE v == Level(t.mem, t.root)
             w == Level(t.mem, Link(t.mem, t.root, 1))
             t2 == TreeRemove(t.mem, t.root, n)
  <2>1. Heap(t.mem) /\ Piece(t.mem, t.root, S, v, w)
    BY DEF TreeOf, Piece
  <2> HIDE DEF v, w
  <2>2. n \in S /\ n \in Entries
    BY <1>2, <2>1, PieceType
  <2>3. RemoveResult(n, t.mem, t2, S, v, w)
    BY <2>1, <2>2, TreeRemoveOK
  <2> HIDE DEF t2
  <2>4. TreeOf(t2, S \ {n})
    BY <2>3 DEF RemoveResult, Piece, TreeOf
  <2>5. S \ ({n} \cap unused) = S \ {n}
    BY <1>2
  <2> QED BY <1>2, <2>4, <2>5 DEF RemoveTurn, t2
<1> QED BY <1>1, <1>2

(* The sweep leaves a tree of the entries that are in use. *)
LEMMA RemoveAllOK ==
  ASSUME NEW t, NEW S, S \subseteq Entries, TreeOf(t, S), t \in Trees,
         NEW visited \in Seq(S), Single(visited), ToSet(visited) = S,
         NEW unused, unused \subseteq S
  PROVE  TreeOf(RemoveAll(t, visited, unused), S \ unused)
<1> DEFINE N == Len(visited)
           F == Removing(t, visited, unused)
           Gone(i) == {x \in unused : \E j \in 1 .. N : j > N - i /\ visited[j] = x}
           P == {i \in Nat : i <= N => TreeOf(F[i], S \ Gone(i))}
<1>1. N \in Nat /\ \A j \in 1 .. N : visited[j] \in S
  OBVIOUS
<1>2. F[0] = t /\ \A i \in Nat : i < N => F[i + 1] = RemoveTurn(F[i], visited[N - i], unused)
  <2>1. visited \in Seq(Entries) /\ unused \subseteq Entries
    OBVIOUS
  <2> QED BY <2>1, RemovingIs
<1>3. RemoveAll(t, visited, unused) = F[N]
  BY DEF RemoveAll
<1>4. ToSet(visited) = {visited[j] : j \in 1 .. N}
  BY DEF ToSet
<1> HIDE DEF N, F
<1>5. 0 \in P
  <2>1. \A j \in 1 .. N : ~ (j > N - 0)
    BY <1>1
  <2>2. Gone(0) = {}
    BY <2>1
  <2>3. S \ Gone(0) = S
    BY <2>2
  <2> HIDE DEF Gone
  <2> QED BY <1>2, <2>3
<1>6. ASSUME NEW i \in Nat, i + 1 <= N, TreeOf(F[i], S \ Gone(i))
      PROVE  TreeOf(F[i + 1], S \ Gone(i + 1))
  <2> DEFINE n == visited[N - i]
  <2>1. i \in Nat /\ i < N /\ N - i \in 1 .. N /\ TreeOf(F[i], S \ Gone(i))
    BY <1>1, <1>6
  <2>2. n \in S
    BY <1>1, <2>1
  <2>3. n \notin Gone(i)
    <3> SUFFICES ASSUME n \in Gone(i) PROVE FALSE
      OBVIOUS
    <3>1. PICK j \in 1 .. N : j > N - i /\ visited[j] = visited[N - i]
      OBVIOUS
    <3>2. j = N - i
      BY <2>1, <3>1 DEF Single, N
    <3> QED BY <1>1, <2>1, <3>1, <3>2
  <2>4. Gone(i + 1) = Gone(i) \cup ({n} \cap unused)
    <3>1. \A j \in 1 .. N : j > N - (i + 1) <=> (j > N - i \/ j = N - i)
      BY <1>1, <2>1
    <3> HIDE DEF N
    <3>2. ASSUME NEW x \in Gone(i + 1) PROVE x \in Gone(i) \cup ({n} \cap unused)
      BY <3>1, <3>2
    <3>3. ASSUME NEW x \in Gone(i) PROVE x \in Gone(i + 1)
      BY <3>1, <3>3
    <3>4. ASSUME NEW x \in {n} \cap unused PROVE x \in Gone(i + 1)
      BY <2>1, <3>1, <3>4
    <3> HIDE DEF Gone, n
    <3> QED BY <3>2, <3>3, <3>4
  <2>5. F[i + 1] = RemoveTurn(F[i], n, unused)
    BY <1>2, <2>1
  <2> HIDE DEF Gone, n
  <2>6. TreeOf(RemoveTurn(F[i], n, unused), (S \ Gone(i)) \ ({n} \cap unused))
    <3> DEFINE T == S \ Gone(i)
    <3>1. n \in T /\ TreeOf(F[i], T)
      BY <2>1, <2>2, <2>3
    <3> HIDE DEF T
    <3>2. TreeOf(RemoveTurn(F[i], n, unused), T \ ({n} \cap unused))
      BY <3>1, RemoveTurnOK
    <3> QED BY <3>2 DEF T
  <2>7. (S \ Gone(i)) \ ({n} \cap unused) = S \ Gone(i + 1)
    BY <2>4
  <2> QED BY <2>5, <2>6, <2>7
<1>7. P = Nat
  <2>1. P \in SUBSET Nat
    OBVIOUS
  <2>2. \A i \in P : i + 1 \in P
    <3> HIDE DEF Gone
    <3> SUFFICES ASSUME NEW i \in P PROVE i + 1 \in P
      OBVIOUS
    <3>1. i \in Nat /\ i + 1 \in Nat /\ (i <= N => TreeOf(F[i], S \ Gone(i)))
      OBVIOUS
    <3>2. i + 1 <= N => i <= N
      BY <1>1, <3>1
    <3>3. i + 1 <= N => TreeOf(F[i + 1], S \ Gone(i + 1))
      BY <1>6, <3>1, <3>2
    <3> QED BY <3>1, <3>3
  <2> HIDE DEF P
  <2> QED BY <1>5, <2>1, <2>2, Induction
<1>8. TreeOf(F[N], S \ Gone(N))
  <2>1. N <= N
    BY <1>1
  <2>2. N \in P
    <3> HIDE DEF P
    <3> QED BY <1>1, <1>7
  <2> HIDE DEF Gone
  <2> QED BY <2>1, <2>2
<1>9. Gone(N) = unused
  <2>1. \A j \in 1 .. N : j > N - N
    BY <1>1
  <2>2. \A x \in unused : \E j \in 1 .. N : visited[j] = x
    BY <1>4
  <2> QED BY <2>1, <2>2
<1> QED BY <1>3, <1>8, <1>9

-----------------------------------------------------------------------------
(* The invariant and the properties of HeapTree *)

(* The memory holds an AA tree of exactly the live entries, and nil is as  *)
(* it was made.                                                            *)
TreeInv == Heap(mem) /\ root \in Nodes /\ AATree(mem, root, live)

LEMMA TreeInvInit == Init => TreeInv
<1> SUFFICES ASSUME Init PROVE TreeInv
  OBVIOUS
<1>1. nil \in Nodes /\ Zeroed \in Node
  BY DEF Nodes, Node, Zeroed
<1>2. mem \in Memory
  BY <1>1 DEF Init, Memory
<1>3. mem[nil].link[0] = nil /\ mem[nil].link[1] = nil /\ mem[nil].level = 0
  BY <1>1 DEF Init, Zeroed
<1>4. Heap(mem)
  BY <1>2, <1>3 DEF Heap, NilOK, Link, Level
<1>5. root = nil /\ live = {}
  BY DEF Init
<1> QED BY <1>1, <1>4, <1>5, EmptyTree DEF TreeInv

LEMMA TreeInvAlloc ==
  ASSUME TreeInv, NEW k \in Entries, Alloc(k)
  PROVE  TreeInv'
<1> DEFINE t == TreeInsert(mem, root, k)
           v == Level(mem, root)
           w == Level(mem, Link(mem, root, 1))
<1>1. Heap(mem) /\ Piece(mem, root, live, v, w) /\ k \notin live
  BY DEF TreeInv, Piece, Alloc
<1> HIDE DEF v, w
<1>2. InsertResult(k, mem, t, live, v, w)
  BY <1>1, TreeInsertOK
<1>3. root' = t.root /\ mem' = t.mem /\ live' = live \cup {k}
  BY DEF Alloc
<1> HIDE DEF t
<1>4. Heap(t.mem) /\ t.root \in Nodes /\ AATree(t.mem, t.root, live \cup {k})
  BY <1>2 DEF InsertResult, Outcome, Piece
<1>5. Heap(mem') /\ root' \in Nodes /\ AATree(mem', root', live')
  BY <1>3, <1>4
<1> QED BY <1>5 DEF TreeInv

LEMMA TreeInvCollect ==
  ASSUME TreeInv, NEW unused \in SUBSET live, unused # {}, Collect(unused)
  PROVE  TreeInv'
<1> DEFINE visited == Sweep.visited
           t0 == Tree(mem, root)
           t == RemoveAll(t0, visited, unused)
           mem2 == [n \in Nodes |-> IF n \in unused THEN Zeroed ELSE t.mem[n]]
           S == live \ unused
<1>1. Heap(mem) /\ root \in Nodes /\ AATree(mem, root, live) /\ live \subseteq Entries
  BY TreeType DEF TreeInv
<1>2. root # nil
  <2>1. live # {}
    OBVIOUS
  <2> QED BY <1>1, <2>1, TreeType
<1>3. visited \in Seq(live) /\ Single(visited) /\ ToSet(visited) = live
  BY <1>1, <1>2, WalkOK DEF Sweep
<1>4. TreeOf(t0, live) /\ t0 \in Trees
  BY <1>1 DEF TreeOf, Tree, Trees, Heap
<1>5. root' = t.root /\ mem' = mem2 /\ live' = S
  BY DEF Collect
<1> HIDE DEF visited, t0
<1>6. TreeOf(t, S)
  BY <1>1, <1>3, <1>4, RemoveAllOK
<1> HIDE DEF t
<1>7. t.mem \in Memory /\ Heap(t.mem) /\ t.root \in Nodes /\ AATree(t.mem, t.root, S)
  BY <1>6 DEF TreeOf, Heap
<1>8. Zeroed \in Node
  BY DEF Zeroed, Node, Nodes
<1>9. mem2 \in Memory
  BY <1>7, <1>8 DEF Memory
<1>10. Apart(t.mem, mem2, unused)
  BY DEF Apart, Same, Link, Level
<1> HIDE DEF mem2
<1>11. nil \notin unused
  BY <1>1, EntryType
<1>12. NilOK(mem2)
  BY <1>7, <1>10, <1>11, NilKept DEF Heap
<1>13. S \cap unused = {}
  OBVIOUS
<1> HIDE DEF S
<1>14. AATree(mem2, t.root, S)
  BY <1>7, <1>9, <1>10, <1>12, <1>13, Frame DEF Heap
<1>15. Heap(mem') /\ root' \in Nodes /\ AATree(mem', root', live')
  BY <1>5, <1>7, <1>9, <1>12, <1>14 DEF Heap
<1> QED BY <1>15 DEF TreeInv

(* Whatever is allocated and collected, in whatever order, the links of    *)
(* the entries make up an AA tree of exactly the entries allocated.        *)
THEOREM TreeInvariant == Spec => []TreeInv
<1>1. Init => TreeInv
  BY TreeInvInit
<1>2. TreeInv /\ [Next]_vars => TreeInv'
  <2> SUFFICES ASSUME TreeInv, [Next]_vars PROVE TreeInv'
    OBVIOUS
  <2>1. CASE Next
    <3>1. ASSUME NEW k \in Entries, Alloc(k) PROVE TreeInv'
      BY <3>1, TreeInvAlloc
    <3>2. ASSUME NEW unused \in (SUBSET live) \ {{}}, Collect(unused) PROVE TreeInv'
      BY <3>2, TreeInvCollect
    <3> QED BY <2>1, <3>1, <3>2 DEF Next
  <2>2. CASE UNCHANGED vars
    BY <2>2 DEF vars, TreeInv
  <2> QED BY <2>1, <2>2
<1> QED BY <1>1, <1>2, PTL DEF Spec

(* The rotations in place and the exchange with the heir store nodes and   *)
(* levels only.                                                            *)
THEOREM TypeCorrect == Spec => []TypeOK
<1>1. TreeInv => TypeOK
  BY TreeType DEF TreeInv, TypeOK, Heap
<1> QED BY <1>1, TreeInvariant, PTL

(* The levels are those of an AA tree after every allocation and every     *)
(* sweep, with any number of removals in a row, and nil is as it was made. *)
THEOREM BalancedAlways == Spec => []Balanced
<1>1. TreeInv => Balanced
  <2> SUFFICES ASSUME TreeInv PROVE Balanced
    OBVIOUS
  <2>1. mem \in Memory /\ NilOK(mem) /\ AATree(mem, root, live) /\ nil \in Nodes
    BY DEF TreeInv, Heap, Nodes
  <2>2. mem[nil] = Zeroed
    <3>1. mem[nil] \in Node
      BY <2>1 DEF Memory
    <3>2. mem[nil].link \in [0 .. 1 -> Nodes] /\ mem[nil].level = 0
          /\ mem[nil].link[0] = nil /\ mem[nil].link[1] = nil
      BY <2>1, <3>1 DEF NilOK, Link, Level, Node
    <3>3. mem[nil].link = [d \in 0 .. 1 |-> nil]
      <4>1. \A d \in 0 .. 1 : mem[nil].link[d] = nil
        BY <3>2
      <4> QED BY <3>2, <4>1
    <3>4. mem[nil] = [link |-> mem[nil].link, level |-> mem[nil].level]
      BY <3>1 DEF Node
    <3> QED BY <3>2, <3>3, <3>4 DEF Zeroed
  <2>3. \A k \in live : NodeOK(mem, k)
    <3>1. PICK B : Subtrees(mem, B, live)
      BY <2>1, SubtreesOf
    <3> QED BY <3>1 DEF Subtrees, Grown
  <2> QED BY <2>2, <2>3 DEF Balanced, NodeOK
<1> QED BY <1>1, TreeInvariant, PTL

(* A word is taken for a reference to an entry exactly when it points into *)
(* a live entry or to its end, for every set of addresses.                 *)
THEOREM SearchExact == Spec => []SearchIsExact
<1>1. TreeInv => SearchIsExact
  <2> SUFFICES ASSUME TreeInv, NEW p \in 0 .. Address(Max(Entries) + 1)
               PROVE  LET n == TreeSearch(mem, root, p) IN
                      IF n = nil
                      THEN \A k \in live : ~(Address(k) <= p /\ p <= Address(k) + Size)
                      ELSE n \in live /\ Address(n) <= p /\ p <= Address(n) + Size
    BY DEF SearchIsExact
  <2>1. p \in Nat
    OBVIOUS
  <2>2. LET n == TreeSearch(mem, root, p) IN
        IF n = nil THEN \A k \in live : ~ Holds(k, p) ELSE n \in live /\ Holds(n, p)
    BY <2>1, TreeSearchOK DEF TreeInv
  <2> QED BY <2>2 DEF Holds
<1> QED BY <1>1, TreeInvariant, PTL

(* The walk of the sweep visits every live entry exactly once, and its     *)
(* stack is never longer than the level of the root, which is logarithmic  *)
(* in the number of entries.                                               *)
THEOREM SweepVisits == Spec => []SweepVisitsAll
<1>1. TreeInv => SweepVisitsAll
  <2> SUFFICES ASSUME TreeInv, root # nil
               PROVE  /\ Len(Sweep.visited) = Cardinality(live)
                      /\ ToSet(Sweep.visited) = live
                      /\ Sweep.most <= Level(mem, root)
                      /\ Cardinality(live) >= Pow2[Level(mem, root)] - 1
    BY DEF SweepVisitsAll
  <2>1. Heap(mem) /\ root \in Nodes /\ AATree(mem, root, live)
    BY DEF TreeInv
  <2>2. /\ Len(Sweep.visited) = Cardinality(live)
        /\ ToSet(Sweep.visited) = live
        /\ Sweep.most <= Level(mem, root)
    BY <2>1, WalkOK DEF Sweep
  <2> DEFINE v == Level(mem, root)
             w == Level(mem, Link(mem, root, 1))
  <2>3. Piece(mem, root, live, v, w)
    BY <2>1 DEF Piece
  <2> HIDE DEF v, w
  <2>4. Pow2[v] \in Nat /\ Cardinality(live) \in Nat /\ Cardinality(live) + 1 >= Pow2[v]
    BY <2>1, <2>3, SizeOfLevel
  <2>5. Cardinality(live) >= Pow2[v] - 1
    BY <2>4
  <2> QED BY <2>2, <2>5 DEF v
<1> QED BY <1>1, TreeInvariant, PTL
=============================================================================
