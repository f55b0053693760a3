---------------------------- MODULE CellHeapProofs ----------------------------
(***************************************************************************)
(* Proofs about CellMemory, part 1 of 3: heaps.  A heap is sound when the  *)
(* cells in use form trees of lists whose roots are owned from outside and *)
(* whose other cells have one link each, when each aux field is the last   *)
(* cell of its list or nilCell, and when the other cells of the blocks are *)
(* the free list (Shape, Lasts, Tidy).  Such heaps have no cycle, so the   *)
(* recursive walks of the model are defined and visit each cell once.      *)
(* getCell, copyCell, deleteList, allocBlock, freeCellBlocks and the       *)
(* changes of one link keep a heap sound; what a cell prints depends on    *)
(* its tree only, and a copy prints the same.  Nothing is about actions.   *)
(***************************************************************************)
EXTENDS CellMemory, FiniteSetTheorems, WellFoundedInduction, TLAPS

(* Induction. *)

\* A set of numbers has a least one.
LEMMA Least ==
  ASSUME NEW S \in SUBSET Nat, S # {}
  PROVE  \E n \in S : \A k \in S : n <= k
<1>1. PICK n \in S : \A k \in S : <<k, n>> \notin OpToRel(<, Nat)
  BY WFMin, NatLessThanWellFounded, Zenon
<1>2. \A k \in S : ~(k < n) BY <1>1 DEF OpToRel
<1>3. \A k \in S : n <= k BY <1>2
<1> QED BY <1>3

\* A set with 0 that has each number's successor has every number.
LEMMA Induction ==
  ASSUME NEW S, 0 \in S, \A n \in Nat : n \in S => n + 1 \in S
  PROVE  \A n \in Nat : n \in S
<1> DEFINE T == Nat \ S
<1>1. SUFFICES ASSUME T # {} PROVE FALSE OBVIOUS
<1>2. PICK n \in T : \A k \in T : n <= k
  <2>1. T \in SUBSET Nat OBVIOUS
  <2> HIDE DEF T
  <2> QED BY <1>1, <2>1, Least
<1>3. n \in Nat /\ n \notin S /\ n # 0 OBVIOUS
<1>4. n - 1 \in Nat /\ ~(n <= n - 1) BY <1>3
<1>5. n - 1 \in S BY <1>2, <1>4
<1>6. (n - 1) + 1 \in S BY <1>4, <1>5
<1> QED BY <1>3, <1>6

\* A function f over 0..n that begins with a and goes on as G says.
Loops(n, S, a, G) == \E f \in [0..n -> S] : \A i \in 0..n :
                       f[i] = IF i = 0 THEN a ELSE G[<<i, f[i - 1]>>]

\* A function over a segment of the numbers can be defined by recursion.
LEMMA Iterates ==
  ASSUME NEW n \in Nat, NEW S, NEW a \in S, NEW G \in [Nat \X S -> S]
  PROVE  Loops(n, S, a, G)
<1> DEFINE Upto(f, k) == \A i \in 0..k : f[i] = IF i = 0 THEN a ELSE G[<<i, f[i - 1]>>]
           T == {k \in Nat : \E f \in [0..k -> S] : Upto(f, k)}
<1>1. 0 \in T
  <2>1. [i \in 0..0 |-> a] \in [0..0 -> S] /\ Upto([i \in 0..0 |-> a], 0) OBVIOUS
  <2> QED BY <2>1
<1>2. ASSUME NEW k \in Nat, k \in T PROVE k + 1 \in T
  <2>1. PICK f \in [0..k -> S] : Upto(f, k) BY <1>2
  <2> DEFINE g == [i \in 0..(k + 1) |-> IF i = k + 1 THEN G[<<k + 1, f[k]>>] ELSE f[i]]
  <2>2. f[k] \in S /\ <<k + 1, f[k]>> \in Nat \X S OBVIOUS
  <2>3. g \in [0..(k + 1) -> S] BY <2>2
  <2>4. ASSUME NEW i \in 0..(k + 1) PROVE g[i] = IF i = 0 THEN a ELSE G[<<i, g[i - 1]>>]
    <3>1. CASE i = k + 1
      <4>1. i - 1 = k /\ k \in 0..(k + 1) /\ k # k + 1 /\ i # 0 BY <3>1
      <4>2. g[k] = f[k] BY <4>1
      <4> QED BY <3>1, <4>1, <4>2
    <3>2. CASE i # k + 1
      <4>1. i \in 0..k /\ g[i] = f[i] BY <3>2
      <4>2. CASE i = 0 BY <2>1, <4>1, <4>2
      <4>3. CASE i # 0
        <5>1. i - 1 \in 0..k /\ i - 1 \in 0..(k + 1) /\ i - 1 # k + 1 BY <4>1, <4>3
        <5>2. g[i - 1] = f[i - 1] BY <5>1
        <5> QED BY <2>1, <4>1, <4>3, <5>2
      <4> QED BY <4>2, <4>3
    <3> QED BY <3>1, <3>2
  <2> HIDE DEF g
  <2>5. Upto(g, k + 1) BY <2>4
  <2> QED BY <2>3, <2>5
<1>3. n \in T
  <2> HIDE DEF T
  <2> QED BY <1>1, <1>2, Induction
<1> QED BY <1>3 DEF Loops

(* What is reached by links. *)

\* K[x]: the cells that x leads to.
Sealed(K, S) == \A x \in S : K[x] \subseteq S
Reach(K, c) == {y \in Cells : \A S \in SUBSET Cells : c \in S /\ Sealed(K, S) => y \in S}
OneParent(K) == \A x, y \in Cells : K[x] \cap K[y] # {} => x = y

\* A cell reaches itself and what the reached cells lead to, and no more.
LEMMA ReachSealed ==
  ASSUME NEW K \in [Cells -> SUBSET Cells], NEW c \in Cells
  PROVE  /\ c \in Reach(K, c) /\ Sealed(K, Reach(K, c)) /\ Reach(K, c) \subseteq Cells
         /\ \A S \in SUBSET Cells : c \in S /\ Sealed(K, S) => Reach(K, c) \subseteq S
  BY DEF Reach, Sealed

\* A reached cell is the first or one that a reached cell leads to.
LEMMA ReachParent ==
  ASSUME NEW K \in [Cells -> SUBSET Cells], NEW c \in Cells, NEW y \in Reach(K, c), y # c
  PROVE  \E x \in Reach(K, c) : y \in K[x]
<1> SUFFICES ASSUME \A x \in Reach(K, c) : y \notin K[x] PROVE FALSE OBVIOUS
<1> DEFINE S == Reach(K, c) \ {y}
<1>1. c \in S /\ S \in SUBSET Cells BY ReachSealed
<1>2. Sealed(K, S) BY ReachSealed DEF Sealed
<1>3. Reach(K, c) \subseteq S BY <1>1, <1>2, ReachSealed
<1> QED BY <1>3

\* Links elsewhere do not matter.
LEMMA ReachSame ==
  ASSUME NEW K \in [Cells -> SUBSET Cells], NEW L \in [Cells -> SUBSET Cells], NEW c \in Cells,
         \A x \in Reach(K, c) : L[x] = K[x]
  PROVE  Reach(L, c) = Reach(K, c)
<1> DEFINE A == Reach(K, c)
           B == Reach(L, c)
<1>1. A \in SUBSET Cells /\ c \in A /\ Sealed(K, A) BY ReachSealed
<1>2. Sealed(L, A) BY <1>1 DEF Sealed
<1>3. B \subseteq A BY <1>1, <1>2, ReachSealed
<1>4. B \in SUBSET Cells /\ c \in B /\ Sealed(L, B) BY ReachSealed
<1>5. Sealed(K, B) BY <1>3, <1>4 DEF Sealed
<1>6. A \subseteq B BY <1>4, <1>5, ReachSealed
<1> QED BY <1>3, <1>6

\* Two cells that do not reach each other reach nothing in common.
LEMMA ReachApart ==
  ASSUME NEW K \in [Cells -> SUBSET Cells], OneParent(K), NEW a \in Cells, NEW b \in Cells,
         a \notin Reach(K, b), b \notin Reach(K, a)
  PROVE  Reach(K, a) \cap Reach(K, b) = {}
<1> DEFINE S == Reach(K, a) \ Reach(K, b)
<1>1. S \in SUBSET Cells /\ a \in S BY ReachSealed
<1>2. ASSUME NEW y \in S, NEW z \in K[y] PROVE z \in S
  <2>1. z \in Reach(K, a) BY <1>1, ReachSealed DEF Sealed
  <2>2. ASSUME z \in Reach(K, b) PROVE FALSE
    <3>1. z # b BY <2>1
    <3>2. PICK x \in Reach(K, b) : z \in K[x] BY <2>2, <3>1, ReachParent
    <3>3. x \in Cells /\ y \in Cells BY <1>1, ReachSealed
    <3>4. x = y BY <3>2, <3>3 DEF OneParent
    <3> QED BY <3>2, <3>4
  <2> QED BY <2>1, <2>2
<1>3. Sealed(K, S) BY <1>2 DEF Sealed
<1>4. Reach(K, a) \subseteq S BY <1>1, <1>3, ReachSealed
<1> QED BY <1>4

\* What a cell without a parent reaches, another cell reaches only through it.
LEMMA ReachRoot ==
  ASSUME NEW K \in [Cells -> SUBSET Cells], NEW c \in Cells, NEW r \in Cells, r # c,
         \A x \in Cells : r \notin K[x]
  PROVE  r \notin Reach(K, c) BY ReachParent, ReachSealed

\* Ranks fall along links.
LEMMA ReachRank ==
  ASSUME NEW K \in [Cells -> SUBSET Cells], NEW rank \in [Cells -> Nat],
         \A x \in Cells : \A y \in K[x] : rank[y] < rank[x],
         NEW c \in Cells, NEW y \in Reach(K, c)
  PROVE  rank[y] <= rank[c]
<1> DEFINE S == {x \in Cells : rank[x] <= rank[c]}
<1>1. S \in SUBSET Cells /\ c \in S OBVIOUS
<1>2. Sealed(K, S)
  <2>1. SUFFICES ASSUME NEW x \in S, NEW z \in K[x] PROVE z \in S BY DEF Sealed
  <2>2. x \in Cells /\ z \in Cells /\ rank[z] < rank[x] /\ rank[x] <= rank[c] OBVIOUS
  <2>3. rank[x] \in Nat /\ rank[z] \in Nat /\ rank[c] \in Nat BY <2>2
  <2> QED BY <2>2, <2>3
<1>3. Reach(K, c) \subseteq S BY <1>1, <1>2, ReachSealed
<1> QED BY <1>3

\* A cell reaches itself and what its children reach.
LEMMA ReachStep ==
  ASSUME NEW K \in [Cells -> SUBSET Cells], NEW c \in Cells
  PROVE  Reach(K, c) = {c} \cup UNION {Reach(K, x) : x \in K[c]}
<1> DEFINE S == {c} \cup UNION {Reach(K, x) : x \in K[c]}
<1>1. S \in SUBSET Cells BY DEF Reach
<1>2. ASSUME NEW x \in K[c] PROVE Reach(K, x) \subseteq Reach(K, c)
  <2>1. x \in Cells /\ x \in Reach(K, c) BY ReachSealed DEF Sealed
  <2> QED BY <2>1, ReachSealed
<1>3. S \subseteq Reach(K, c) BY <1>2, ReachSealed
<1>4. ASSUME NEW y \in S, NEW z \in K[y] PROVE z \in S
  <2>1. CASE y = c
    <3>1. z \in Cells /\ z \in Reach(K, z) BY <1>1, ReachSealed
    <3> QED BY <2>1, <3>1
  <2>2. CASE y # c
    <3>1. PICK x \in K[c] : y \in Reach(K, x) BY <2>2
    <3>2. z \in Reach(K, x) BY <3>1, ReachSealed DEF Sealed
    <3> QED BY <3>2
  <2> QED BY <2>1, <2>2
<1>5. Sealed(K, S) BY <1>4 DEF Sealed
<1>6. Reach(K, c) \subseteq S BY <1>1, <1>5, ReachSealed
<1> QED BY <1>3, <1>6

(* Recursion over the cells. *)

\* Both links lead to cells of lower rank, in the end to nilCell.
Falling(h, N, rank) ==
  /\ rank \in [Cells -> 0..N] /\ rank[nilCell] = 0
  /\ \A x \in Cells : After(h, x) \in Cells /\ Below(h, x) \in Cells
  /\ After(h, nilCell) = nilCell /\ Below(h, nilCell) = nilCell
  /\ \A x \in Cells \ {nilCell} : rank[After(h, x)] < rank[x] /\ rank[Below(h, x)] < rank[x]
Ranked(h) == \E N \in Nat : \E rank : Falling(h, N, rank)

\* nilCell and trueCell are two cells, and NULL is none.
LEMMA Special ==
  nilCell \in Cells /\ trueCell \in Cells /\ nilCell # trueCell /\ NULL \notin Cells
<1>1. MaxBlocks \in Nat /\ MaxBlocks > 0 /\ BlockSize \in Nat /\ BlockSize >= 2 BY HeapAssumption
<1> QED BY <1>1 DEF Cells, nilCell, trueCell, NULL

\* What holds of nilCell, and of a cell if it holds of what the cell leads to, holds of all.
LEMMA CellInduction ==
  ASSUME NEW h, Ranked(h), NEW S, nilCell \in S,
         \A x \in Cells \ {nilCell} : After(h, x) \in S /\ Below(h, x) \in S => x \in S
  PROVE  \A x \in Cells : x \in S
<1>n. PICK N \in Nat : \E rank : Falling(h, N, rank) BY DEF Ranked
<1>1. PICK rank : Falling(h, N, rank) BY <1>n
<1> DEFINE T == {k \in Nat : \A x \in Cells : rank[x] <= k => x \in S}
<1>2. ASSUME NEW x \in Cells PROVE rank[x] \in Nat /\ rank[x] <= N BY <1>1 DEF Falling
<1>3. 0 \in T
  <2>1. ASSUME NEW x \in Cells, rank[x] <= 0 PROVE x \in S
    <3>1. CASE x = nilCell BY <3>1
    <3>2. CASE x # nilCell
      <4>1. After(h, x) \in Cells /\ rank[After(h, x)] < rank[x] BY <1>1, <3>2 DEF Falling
      <4> QED BY <1>2, <2>1, <4>1
    <3> QED BY <3>1, <3>2
  <2> QED BY <2>1
<1>4. ASSUME NEW k \in Nat, k \in T PROVE k + 1 \in T
  <2>1. ASSUME NEW x \in Cells, rank[x] <= k + 1 PROVE x \in S
    <3>1. CASE x = nilCell BY <3>1
    <3>2. CASE x # nilCell
      <4>1. /\ After(h, x) \in Cells /\ rank[After(h, x)] < rank[x]
            /\ Below(h, x) \in Cells /\ rank[Below(h, x)] < rank[x] BY <1>1, <3>2 DEF Falling
      <4>2. rank[After(h, x)] <= k /\ rank[Below(h, x)] <= k BY <1>2, <2>1, <4>1
      <4>3. After(h, x) \in S /\ Below(h, x) \in S BY <1>4, <4>1, <4>2
      <4> QED BY <3>2, <4>3
    <3> QED BY <3>1, <3>2
  <2> QED BY <2>1
<1>5. N \in T
  <2> HIDE DEF T
  <2> QED BY <1>3, <1>4, Induction
<1> QED BY <1>2, <1>5

\* A function over the cells can be defined by recursion along the links.
LEMMA Walks ==
  ASSUME NEW h, Ranked(h), NEW S, NEW a \in S, NEW G \in [Cells \X S \X S -> S]
  PROVE  \E f \in [Cells -> S] : \A x \in Cells :
           f[x] = IF x = nilCell THEN a ELSE G[<<x, f[Below(h, x)], f[After(h, x)]>>]
<1>n. PICK N \in Nat : \E rank : Falling(h, N, rank) BY DEF Ranked
<1>1. PICK rank : Falling(h, N, rank) BY <1>n
<1> DEFINE Step(f, x) == IF x = nilCell THEN a ELSE G[<<x, f[Below(h, x)], f[After(h, x)]>>]
           Upto(f, k) == \A x \in Cells : rank[x] <= k => f[x] = Step(f, x)
           T == {k \in Nat : \E f \in [Cells -> S] : Upto(f, k)}
<1>2. ASSUME NEW x \in Cells PROVE rank[x] \in Nat /\ rank[x] <= N BY <1>1 DEF Falling
<1>3. \A x \in Cells : After(h, x) \in Cells /\ Below(h, x) \in Cells BY <1>1 DEF Falling
<1>4. \A x \in Cells \ {nilCell} : rank[After(h, x)] < rank[x] /\ rank[Below(h, x)] < rank[x]
  BY <1>1 DEF Falling
<1>5. 0 \in T
  <2>1. PICK f : f = [x \in Cells |-> a] OBVIOUS
  <2>2. ASSUME NEW x \in Cells, rank[x] <= 0 PROVE f[x] = Step(f, x)
    <3>1. x = nilCell
      <4>1. SUFFICES ASSUME x # nilCell PROVE FALSE OBVIOUS
      <4>2. After(h, x) \in Cells /\ rank[After(h, x)] < rank[x] BY <1>3, <1>4, <4>1
      <4> QED BY <1>2, <2>2, <4>2
    <3> QED BY <2>1, <3>1
  <2>3. f \in [Cells -> S] BY <2>1
  <2>4. Upto(f, 0) BY <2>2
  <2> QED BY <2>3, <2>4
<1>6. ASSUME NEW k \in Nat, k \in T PROVE k + 1 \in T
  <2>1. PICK f \in [Cells -> S] : Upto(f, k) BY <1>6
  <2>2. PICK g : g = [x \in Cells |-> Step(f, x)] OBVIOUS
  <2>3. g \in [Cells -> S] BY <1>3, <2>2
  <2>4. ASSUME NEW x \in Cells, rank[x] <= k PROVE g[x] = f[x] BY <2>1, <2>2, <2>4
  <2>5. ASSUME NEW x \in Cells, rank[x] <= k + 1 PROVE g[x] = Step(g, x)
    <3>1. CASE x = nilCell BY <2>2, <3>1
    <3>2. CASE x # nilCell
      <4>1. /\ After(h, x) \in Cells /\ rank[After(h, x)] < rank[x]
            /\ Below(h, x) \in Cells /\ rank[Below(h, x)] < rank[x] BY <1>3, <1>4, <3>2
      <4>2. rank[After(h, x)] <= k /\ rank[Below(h, x)] <= k BY <1>2, <2>5, <4>1
      <4>3. g[After(h, x)] = f[After(h, x)] /\ g[Below(h, x)] = f[Below(h, x)] BY <2>4, <4>1, <4>2
      <4> QED BY <2>2, <4>3
    <3> QED BY <3>1, <3>2
  <2>6. Upto(g, k + 1) BY <2>5
  <2> QED BY <2>3, <2>6
<1>7. N \in T
  <2> HIDE DEF T
  <2> QED BY <1>5, <1>6, Induction
<1> QED BY <1>2, <1>7

\* What Chain is.
LEMMA ChainFun ==
  ASSUME NEW h, Ranked(h)
  PROVE  \E f : /\ f = [x \in Cells |-> IF x = nilCell THEN <<>> ELSE <<x>> \o f[After(h, x)]]
                /\ \A c \in Cells : Chain(h, c) = f[c]
<1>1. PICK X : X = Seq(Cells) OBVIOUS
<1>2. PICK G : G = [t \in Cells \X X \X X |-> <<t[1]>> \o t[3]] OBVIOUS
<1>3. G \in [Cells \X X \X X -> X] BY <1>1, <1>2
<1>4. PICK e \in X : e = <<>>
  <2>1. <<>> \in Seq(Cells) OBVIOUS
  <2> QED BY <1>1, <2>1
<1>5. PICK f \in [Cells -> X] : \A x \in Cells :
        f[x] = IF x = nilCell THEN e ELSE G[<<x, f[Below(h, x)], f[After(h, x)]>>] BY <1>3, Walks
<1>6. \A x \in Cells : After(h, x) \in Cells /\ Below(h, x) \in Cells BY DEF Ranked, Falling
<1>7. ASSUME NEW x \in Cells
      PROVE f[x] = IF x = nilCell THEN <<>> ELSE <<x>> \o f[After(h, x)]
  <2>1. CASE x = nilCell BY <1>4, <1>5, <2>1
  <2>2. CASE x # nilCell
    <3>1. PICK t : t = <<x, f[Below(h, x)], f[After(h, x)]>> OBVIOUS
    <3>2. t \in Cells \X X \X X /\ t[1] = x /\ t[3] = f[After(h, x)] BY <1>6, <3>1
    <3>3. G[t] = <<x>> \o f[After(h, x)] BY <1>2, <3>2
    <3> QED BY <1>5, <2>2, <3>1, <3>3
  <2> QED BY <2>1, <2>2
<1>8. f = [x \in Cells |-> IF x = nilCell THEN <<>> ELSE <<x>> \o f[After(h, x)]] BY <1>7
<1> DEFINE g == CHOOSE g : g = [x \in Cells |-> IF x = nilCell THEN <<>> ELSE <<x>> \o g[After(h, x)]]
<1>9. g = [x \in Cells |-> IF x = nilCell THEN <<>> ELSE <<x>> \o g[After(h, x)]] BY <1>8
<1>10. \A c \in Cells : Chain(h, c) = g[c] BY DEF Chain
<1> QED BY <1>9, <1>10

(* What the walks visit. *)

\* What a cell leads to, and what it leads to in its own list.
Kids(h) == [x \in Cells |-> {After(h, x), Below(h, x)} \ {nilCell}]
Nexts(h) == [x \in Cells |-> {After(h, x)} \ {nilCell}]

Treelike(h) ==
  /\ Ranked(h) /\ OneParent(Kids(h))
  /\ \A x \in Cells : After(h, x) = Below(h, x) => After(h, x) = nilCell

\* s has each element of A once.
Lists(s, A) ==
  /\ s \in Seq(Cells)
  /\ \A i, j \in 1..Len(s) : s[i] = s[j] => i = j
  /\ \A y : y \in A <=> \E i \in 1..Len(s) : s[i] = y

\* The tree that begins with cell x.
Tree(h, x) == IF x = nilCell THEN {} ELSE Reach(Kids(h), x)
List(h, x) == IF x = nilCell THEN {} ELSE Reach(Nexts(h), x)

\* The links of a heap with ranks lead from cells to cells.
LEMMA KidsType ==
  ASSUME NEW h, Ranked(h)
  PROVE  /\ Kids(h) \in [Cells -> SUBSET Cells] /\ Nexts(h) \in [Cells -> SUBSET Cells]
         /\ \A x \in Cells : After(h, x) \in Cells /\ Below(h, x) \in Cells
         /\ \A x \in Cells : Kids(h)[x] = {After(h, x), Below(h, x)} \ {nilCell}
                             /\ Nexts(h)[x] = {After(h, x)} \ {nilCell}
  BY DEF Kids, Nexts, Ranked, Falling

\* The empty sequence lists nothing.
LEMMA ListsNone == Lists(<<>>, {}) BY DEF Lists

\* A sequence of one cell lists it.
LEMMA ListsOne ==
  ASSUME NEW x \in Cells
  PROVE  Lists(<<x>>, {x})
<1>1. <<x>> \in Seq(Cells) /\ Len(<<x>>) = 1 /\ <<x>>[1] = x OBVIOUS
<1>2. 1..1 = {1} OBVIOUS
<1> QED BY <1>1, <1>2 DEF Lists

\* Two sequences that list disjoint sets list, one after the other, their union.
LEMMA ListsJoin ==
  ASSUME NEW s, NEW A, NEW t, NEW B, Lists(s, A), Lists(t, B), A \cap B = {}
  PROVE  Lists(s \o t, A \cup B)
<1> DEFINE r == s \o t
<1>1. s \in Seq(Cells) /\ t \in Seq(Cells) /\ Len(s) \in Nat /\ Len(t) \in Nat BY DEF Lists
<1>2. /\ r \in Seq(Cells) /\ Len(r) = Len(s) + Len(t)
      /\ \A i \in 1..Len(s) : r[i] = s[i]
      /\ \A i \in 1..Len(t) : r[Len(s) + i] = t[i] BY <1>1
<1> HIDE DEF r
<1>3. \A i \in 1..Len(r) : i \in 1..Len(s) \/ \E k \in 1..Len(t) : i = Len(s) + k
  <2>1. SUFFICES ASSUME NEW i \in 1..Len(r), i \notin 1..Len(s)
        PROVE \E k \in 1..Len(t) : i = Len(s) + k OBVIOUS
  <2>2. i - Len(s) \in 1..Len(t) /\ i = Len(s) + (i - Len(s)) BY <1>1, <1>2, <2>1
  <2> QED BY <2>2
<1>4. \A i \in 1..Len(s) : i \in 1..Len(r) BY <1>1, <1>2
<1>5. \A k \in 1..Len(t) : Len(s) + k \in 1..Len(r) BY <1>1, <1>2
<1>6. ASSUME NEW i \in 1..Len(r), NEW j \in 1..Len(r), r[i] = r[j] PROVE i = j
  <2>1. CASE i \in 1..Len(s) /\ j \in 1..Len(s) BY <1>2, <1>6, <2>1 DEF Lists
  <2>2. CASE i \in 1..Len(s) /\ j \notin 1..Len(s)
    <3>1. PICK k \in 1..Len(t) : j = Len(s) + k BY <1>3, <2>2
    <3>2. r[i] \in A /\ r[j] \in B BY <1>2, <2>2, <3>1 DEF Lists
    <3> QED BY <1>6, <3>2
  <2>3. CASE i \notin 1..Len(s) /\ j \in 1..Len(s)
    <3>1. PICK k \in 1..Len(t) : i = Len(s) + k BY <1>3, <2>3
    <3>2. r[i] \in B /\ r[j] \in A BY <1>2, <2>3, <3>1 DEF Lists
    <3> QED BY <1>6, <3>2
  <2>4. CASE i \notin 1..Len(s) /\ j \notin 1..Len(s)
    <3>1. PICK k \in 1..Len(t) : i = Len(s) + k BY <1>3, <2>4
    <3>2. PICK l \in 1..Len(t) : j = Len(s) + l BY <1>3, <2>4
    <3>3. t[k] = t[l] BY <1>2, <1>6, <3>1, <3>2
    <3>4. k = l BY <3>3 DEF Lists
    <3> QED BY <3>1, <3>2, <3>4
  <2> QED BY <2>1, <2>2, <2>3, <2>4
<1>7. ASSUME NEW y PROVE y \in A \cup B <=> \E i \in 1..Len(r) : r[i] = y
  <2>1. ASSUME y \in A PROVE \E i \in 1..Len(r) : r[i] = y
    <3>1. PICK i \in 1..Len(s) : s[i] = y BY <2>1 DEF Lists
    <3> QED BY <1>2, <1>4, <3>1
  <2>2. ASSUME y \in B PROVE \E i \in 1..Len(r) : r[i] = y
    <3>1. PICK i \in 1..Len(t) : t[i] = y BY <2>2 DEF Lists
    <3> QED BY <1>2, <1>5, <3>1
  <2>3. ASSUME NEW i \in 1..Len(r), r[i] = y PROVE y \in A \cup B
    <3>1. CASE i \in 1..Len(s)
      <4>1. r[i] = s[i] BY <1>2, <3>1
      <4> QED BY <2>3, <3>1, <4>1 DEF Lists
    <3>2. CASE i \notin 1..Len(s)
      <4>1. PICK k \in 1..Len(t) : i = Len(s) + k BY <1>3, <3>2
      <4>2. r[i] = t[k] BY <1>2, <4>1
      <4> QED BY <2>3, <4>2 DEF Lists
    <3> QED BY <3>1, <3>2
  <2> QED BY <2>1, <2>2, <2>3
<1> QED BY <1>2, <1>6, <1>7 DEF Lists, r

\* A sequence read backwards lists the same set.
LEMMA ListsReverse ==
  ASSUME NEW s, NEW A, Lists(s, A)
  PROVE  Lists(Reverse(s), A) /\ Len(Reverse(s)) = Len(s)
<1> DEFINE r == Reverse(s)
<1>1. s \in Seq(Cells) /\ Len(s) \in Nat BY DEF Lists
<1>2. \A i \in 1..Len(s) : (Len(s) - i) + 1 \in 1..Len(s) /\ (Len(s) - ((Len(s) - i) + 1)) + 1 = i
  BY <1>1
<1>3. /\ r \in Seq(Cells) /\ Len(r) = Len(s)
      /\ \A i \in 1..Len(s) : r[i] = s[(Len(s) - i) + 1] BY <1>1, <1>2 DEF Reverse
<1> HIDE DEF r
<1>4. ASSUME NEW i \in 1..Len(r), NEW j \in 1..Len(r), r[i] = r[j] PROVE i = j
  <2>1. PICK k \in 1..Len(s) : k = (Len(s) - i) + 1 BY <1>2, <1>3
  <2>2. PICK l \in 1..Len(s) : l = (Len(s) - j) + 1 BY <1>2, <1>3
  <2>3. s[k] = s[l] BY <1>3, <1>4, <2>1, <2>2
  <2>4. k = l BY <2>3 DEF Lists
  <2> QED BY <1>1, <1>3, <2>1, <2>2, <2>4
<1>5. ASSUME NEW y PROVE y \in A <=> \E i \in 1..Len(r) : r[i] = y
  <2>1. ASSUME y \in A PROVE \E i \in 1..Len(r) : r[i] = y
    <3>1. PICK i \in 1..Len(s) : s[i] = y BY <2>1 DEF Lists
    <3>2. PICK k \in 1..Len(s) : k = (Len(s) - i) + 1 /\ (Len(s) - k) + 1 = i BY <1>2
    <3> QED BY <1>3, <3>1, <3>2
  <2>2. ASSUME NEW i \in 1..Len(r), r[i] = y PROVE y \in A
    <3>1. PICK k \in 1..Len(s) : k = (Len(s) - i) + 1 BY <1>2, <1>3
    <3> QED BY <1>3, <2>2, <3>1 DEF Lists
  <2> QED BY <2>1, <2>2
<1> QED BY <1>3, <1>4, <1>5 DEF Lists, r

\* A tree is its first cell, what is below it and what is after it, with nothing in common.
LEMMA TreeParts ==
  ASSUME NEW h, Treelike(h), NEW x \in Cells, x # nilCell
  PROVE  /\ Tree(h, x) = {x} \cup Tree(h, Below(h, x)) \cup Tree(h, After(h, x))
         /\ x \notin Tree(h, Below(h, x)) /\ x \notin Tree(h, After(h, x))
         /\ Tree(h, Below(h, x)) \cap Tree(h, After(h, x)) = {}
<1> DEFINE K == Kids(h)
           a == Below(h, x)
           b == After(h, x)
<1>1. Ranked(h) /\ OneParent(K) BY DEF Treelike
<1>2. /\ K \in [Cells -> SUBSET Cells] /\ a \in Cells /\ b \in Cells
      /\ K[x] = {b, a} \ {nilCell} BY <1>1, KidsType
<1>n. PICK N \in Nat : \E rank : Falling(h, N, rank) BY <1>1 DEF Ranked
<1>3. PICK rank : Falling(h, N, rank) BY <1>n
<1>4. /\ rank \in [Cells -> Nat] /\ \A y \in Cells : \A z \in K[y] : rank[z] < rank[y]
      /\ rank[a] < rank[x] /\ rank[b] < rank[x] /\ rank[nilCell] = 0
  <2>1. \A y \in Cells : rank[y] \in Nat BY <1>3 DEF Falling
  <2>2. ASSUME NEW y \in Cells, NEW z \in K[y] PROVE rank[z] < rank[y]
    <3>1. K[y] = {After(h, y), Below(h, y)} \ {nilCell} BY <1>1, KidsType
    <3>2. CASE y # nilCell BY <1>3, <2>2, <3>1, <3>2 DEF Falling
    <3>3. CASE y = nilCell BY <1>3, <2>2, <3>1, <3>3 DEF Falling
    <3> QED BY <3>2, <3>3
  <2> QED BY <1>3, <2>1, <2>2 DEF Falling
<1>5. ASSUME NEW y \in K[x] PROVE x \notin Reach(K, y)
  <2>1. ASSUME x \in Reach(K, y) PROVE FALSE
    <3>1. y \in Cells BY <1>2
    <3>2. rank[x] <= rank[y] BY <1>2, <1>4, <2>1, <3>1, ReachRank
    <3>3. rank[y] < rank[x] /\ rank[x] \in Nat /\ rank[y] \in Nat BY <1>4, <3>1
    <3> QED BY <3>2, <3>3
  <2> QED BY <2>1
<1>6. Tree(h, x) = {x} \cup UNION {Reach(K, y) : y \in K[x]} BY <1>2, ReachStep DEF Tree
<1>7. UNION {Reach(K, y) : y \in K[x]} = Tree(h, a) \cup Tree(h, b) BY <1>2 DEF Tree
<1>8. x \notin Tree(h, a) /\ x \notin Tree(h, b) BY <1>2, <1>5 DEF Tree
<1>9. Tree(h, a) \cap Tree(h, b) = {}
  <2>1. CASE a = nilCell \/ b = nilCell BY <2>1 DEF Tree
  <2>2. CASE a # nilCell /\ b # nilCell
    <3>1. a \in K[x] /\ b \in K[x] /\ a # b BY <1>2, <2>2 DEF Treelike
    <3>2. ASSUME NEW u \in {a, b}, NEW v \in {a, b}, u # v, u \in Reach(K, v) PROVE FALSE
      <4>1. u \in Cells /\ v \in Cells /\ u \in K[x] /\ v \in K[x] BY <1>2, <3>1
      <4>2. PICK p \in Reach(K, v) : u \in K[p] BY <1>2, <3>2, <4>1, ReachParent
      <4>3. p \in Cells BY <1>2, <4>1, ReachSealed
      <4>4. p = x BY <1>1, <4>1, <4>2, <4>3 DEF OneParent
      <4> QED BY <1>5, <4>1, <4>2, <4>4
    <3>3. Reach(K, a) \cap Reach(K, b) = {} BY <1>1, <1>2, <3>1, <3>2, ReachApart
    <3> QED BY <2>2, <3>3 DEF Tree
  <2> QED BY <2>1, <2>2
<1> QED BY <1>6, <1>7, <1>8, <1>9

(* What Chain, Value and DeleteList visit. *)

\* Places in a sequence with one more element.
LEMMA OneMore ==
  ASSUME NEW n \in Nat, NEW m, m = n + 1, NEW k \in 1..n
  PROVE  k + 1 \in 1..m /\ (k + 1 = m <=> k = n) /\ (k # n => k + 1 \in 1..n) OBVIOUS

\* The elements of a list: each leads to the next, the last to none.
LEMMA ChainFacts ==
  ASSUME NEW h, Ranked(h), NEW c \in Cells
  PROVE  /\ Chain(h, c) \in Seq(Cells) /\ (c = nilCell <=> Chain(h, c) = <<>>)
         /\ c # nilCell => Len(Chain(h, c)) > 0 /\ Chain(h, c)[1] = c
         /\ \A i \in 1..Len(Chain(h, c)) :
              /\ Chain(h, c)[i] # nilCell /\ Chain(h, c)[i] \in Cells
              /\ After(h, Chain(h, c)[i]) = IF i = Len(Chain(h, c)) THEN nilCell
                                            ELSE Chain(h, c)[i + 1]
         /\ \A y : y \in List(h, c) <=> \E i \in 1..Len(Chain(h, c)) : Chain(h, c)[i] = y
<1>1. PICK f : /\ f = [x \in Cells |-> IF x = nilCell THEN <<>> ELSE <<x>> \o f[After(h, x)]]
               /\ \A x \in Cells : Chain(h, x) = f[x] BY ChainFun
<1> DEFINE P(s, x) == /\ s \in Seq(Cells) /\ (x = nilCell <=> s = <<>>)
                      /\ x # nilCell => Len(s) > 0 /\ s[1] = x
                      /\ \A i \in 1..Len(s) :
                           /\ s[i] # nilCell /\ s[i] \in Cells
                           /\ After(h, s[i]) = IF i = Len(s) THEN nilCell ELSE s[i + 1]
                      /\ \A y : y \in List(h, x) <=> \E i \in 1..Len(s) : s[i] = y
           S == {x \in Cells : P(f[x], x)}
<1>2. nilCell \in S
  <2>1. f[nilCell] = <<>> /\ nilCell \in Cells BY <1>1, Special
  <2>2. P(<<>>, nilCell) BY DEF List
  <2> QED BY <2>1, <2>2
<1>3. ASSUME NEW x \in Cells \ {nilCell}, After(h, x) \in S PROVE x \in S
  <2>1. PICK b \in Cells : b = After(h, x) /\ P(f[b], b) BY <1>3
  <2>2. PICK t \in Seq(Cells) : t = f[b] BY <2>1
  <2>3. f[x] = <<x>> \o t
    <3>1. x \in Cells /\ x # nilCell OBVIOUS
    <3>2. f[x] = <<x>> \o f[After(h, x)] BY ONLY <1>1, <3>1
    <3> QED BY ONLY <2>1, <2>2, <3>2
  <2>4. PICK s : s = <<x>> \o t OBVIOUS
  <2>5. Len(t) \in Nat /\ DOMAIN t = 1..Len(t) OBVIOUS
  <2>6. /\ s \in Seq(Cells) /\ Len(s) = Len(t) + 1 /\ s[1] = x
        /\ \A i \in 1..Len(t) : s[i + 1] = t[i] BY <2>4
  <2>7. \A i \in 1..Len(s) : i = 1 \/ \E k \in 1..Len(t) : i = k + 1
    <3>1. ASSUME NEW i \in 1..Len(s), i # 1 PROVE i - 1 \in 1..Len(t) /\ i = (i - 1) + 1
      BY <2>5, <2>6, <3>1
    <3> QED BY <3>1
  <2>8. \A k \in 1..Len(t) : k + 1 \in 1..Len(s) /\ (k + 1 = Len(s) <=> k = Len(t))
    <3>1. ASSUME NEW k \in 1..Len(t)
          PROVE k + 1 \in 1..Len(s) /\ (k + 1 = Len(s) <=> k = Len(t))
      <4>1. Len(s) = Len(t) + 1 BY <2>6
      <4>n. PICK n \in Nat : n = Len(t) BY <2>5
      <4>2. PICK q : n = Len(t) /\ q = Len(s) BY <4>n
      <4>3. q = n + 1 /\ k \in 1..n BY ONLY <4>1, <4>2, <3>1
      <4>4. k + 1 \in 1..q /\ (k + 1 = q <=> k = n) BY <4>3, OneMore
      <4> QED BY ONLY <4>2, <4>4
    <3> QED BY <3>1
  <2>9. 1 \in 1..Len(s) /\ s # <<>> /\ Len(s) > 0 BY <2>5, <2>6
  <2>10. After(h, x) = IF 1 = Len(s) THEN nilCell ELSE s[1 + 1]
    <3>1. CASE b = nilCell
      <4>1. t = <<>> /\ Len(t) = 0 BY <2>1, <2>2, <3>1
      <4>2. Len(s) = 1 BY <2>6, <4>1
      <4> QED BY <2>1, <3>1, <4>2
    <3>2. CASE b # nilCell
      <4>1. Len(t) > 0 /\ t[1] = b BY <2>1, <2>2, <3>2
      <4>2. 1 \in 1..Len(t) BY <2>5, <4>1
      <4>3. s[1 + 1] = b /\ Len(s) # 1 BY <2>5, <2>6, <4>1, <4>2
      <4> QED BY <2>1, <4>3
    <3> QED BY <3>1, <3>2
  <2>11. ASSUME NEW i \in 1..Len(s)
         PROVE  /\ s[i] # nilCell /\ s[i] \in Cells
                /\ After(h, s[i]) = IF i = Len(s) THEN nilCell ELSE s[i + 1]
    <3>1. CASE i = 1 BY <2>6, <2>10, <3>1
    <3>2. CASE i # 1
      <4>1. PICK k \in 1..Len(t) : i = k + 1 BY <2>7, <3>2
      <4>2. /\ t[k] # nilCell /\ t[k] \in Cells
            /\ After(h, t[k]) = IF k = Len(t) THEN nilCell ELSE t[k + 1] BY <2>1, <2>2
      <4>3. s[i] = t[k] BY <2>6, <4>1
      <4>4. k # Len(t) => s[i + 1] = t[k + 1]
        <5>1. k # Len(t) => k + 1 \in 1..Len(t) BY <2>5, OneMore
        <5> QED BY <2>6, <4>1, <5>1
      <4> QED BY <2>8, <4>1, <4>2, <4>3, <4>4
    <3> QED BY <3>1, <3>2
  <2>12. List(h, x) = {x} \cup List(h, b)
    <3>1. /\ Nexts(h) \in [Cells -> SUBSET Cells] /\ Nexts(h)[x] = {b} \ {nilCell} /\ x \in Cells
      BY <2>1, KidsType
    <3>2. Reach(Nexts(h), x) = {x} \cup UNION {Reach(Nexts(h), y) : y \in Nexts(h)[x]}
      BY <3>1, ReachStep
    <3>3. UNION {Reach(Nexts(h), y) : y \in {b} \ {nilCell}} = List(h, b) BY DEF List
    <3> QED BY <3>1, <3>2, <3>3 DEF List
  <2>13. ASSUME NEW y PROVE y \in List(h, x) <=> \E i \in 1..Len(s) : s[i] = y
    <3>1. y \in List(h, b) <=> \E k \in 1..Len(t) : t[k] = y BY <2>1, <2>2
    <3>2. ASSUME y \in List(h, b) PROVE \E i \in 1..Len(s) : s[i] = y BY <2>6, <2>8, <3>1, <3>2
    <3>3. ASSUME NEW i \in 1..Len(s), s[i] = y PROVE y = x \/ y \in List(h, b)
      BY <2>6, <2>7, <3>1, <3>3
    <3> QED BY <2>6, <2>9, <2>12, <3>2, <3>3
  <2>14. P(s, x) BY <2>6, <2>9, <2>11, <2>13
  <2> QED BY <2>3, <2>4, <2>14
<1>4. \A x \in Cells : x \in S
  <2> HIDE DEF S
  <2> QED BY <1>2, <1>3, CellInduction
<1>5. P(f[c], c) BY <1>4
<1> HIDE DEF P
<1>6. P(Chain(h, c), c) BY <1>1, <1>5
<1> QED BY <1>6 DEF P

\* What Value is.
LEMMA ValueFun ==
  ASSUME NEW h, Ranked(h)
  PROVE  \E f : /\ f = [x \in Cells |-> IF x = nilCell THEN <<>>
                                        ELSE <<x>> \o f[Below(h, x)] \o f[After(h, x)]]
                /\ \A c \in Cells : Value(h, c) = <<c>> \o f[Below(h, c)]
<1>1. PICK X : X = Seq(Cells) OBVIOUS
<1>2. PICK G : G = [t \in Cells \X X \X X |-> <<t[1]>> \o t[2] \o t[3]] OBVIOUS
<1>3. G \in [Cells \X X \X X -> X] BY <1>1, <1>2
<1>4. PICK e \in X : e = <<>>
  <2>1. <<>> \in Seq(Cells) OBVIOUS
  <2> QED BY <1>1, <2>1
<1>5. PICK f \in [Cells -> X] : \A x \in Cells :
        f[x] = IF x = nilCell THEN e ELSE G[<<x, f[Below(h, x)], f[After(h, x)]>>] BY <1>3, Walks
<1>6. \A x \in Cells : After(h, x) \in Cells /\ Below(h, x) \in Cells BY DEF Ranked, Falling
<1>7. ASSUME NEW x \in Cells
      PROVE f[x] = IF x = nilCell THEN <<>> ELSE <<x>> \o f[Below(h, x)] \o f[After(h, x)]
  <2>1. CASE x = nilCell BY <1>4, <1>5, <2>1
  <2>2. CASE x # nilCell
    <3>1. PICK t : t = <<x, f[Below(h, x)], f[After(h, x)]>> OBVIOUS
    <3>2. /\ t \in Cells \X X \X X /\ t[1] = x /\ t[2] = f[Below(h, x)]
          /\ t[3] = f[After(h, x)] BY <1>6, <3>1
    <3>3. G[t] = <<x>> \o f[Below(h, x)] \o f[After(h, x)] BY <1>2, <3>2
    <3> QED BY <1>5, <2>2, <3>1, <3>3
  <2> QED BY <2>1, <2>2
<1>8. f = [x \in Cells |-> IF x = nilCell THEN <<>>
                           ELSE <<x>> \o f[Below(h, x)] \o f[After(h, x)]] BY <1>7
<1> DEFINE g == CHOOSE g : g = [x \in Cells |-> IF x = nilCell THEN <<>>
                                   ELSE <<x>> \o g[Below(h, x)] \o g[After(h, x)]]
<1>9. g = [x \in Cells |-> IF x = nilCell THEN <<>>
                           ELSE <<x>> \o g[Below(h, x)] \o g[After(h, x)]] BY <1>8
<1>10. \A c \in Cells : Value(h, c) = <<c>> \o g[Below(h, c)] BY DEF Value
<1> QED BY <1>9, <1>10

\* It lists c and the tree below it.
LEMMA ValueFacts ==
  ASSUME NEW h, Treelike(h), NEW c \in Cells, c \notin Tree(h, Below(h, c))
  PROVE  /\ Lists(Value(h, c), {c} \cup Tree(h, Below(h, c)))
         /\ Len(Value(h, c)) > 0 /\ Value(h, c)[1] = c
<1>1. Ranked(h) BY DEF Treelike
<1>2. PICK f : /\ f = [x \in Cells |-> IF x = nilCell THEN <<>>
                                       ELSE <<x>> \o f[Below(h, x)] \o f[After(h, x)]]
               /\ \A x \in Cells : Value(h, x) = <<x>> \o f[Below(h, x)] BY <1>1, ValueFun
<1> DEFINE S == {x \in Cells : Lists(f[x], Tree(h, x))}
<1>3. nilCell \in S
  <2>1. f[nilCell] = <<>> /\ nilCell \in Cells BY <1>2, Special
  <2> QED BY <2>1, ListsNone DEF Tree
<1>4. ASSUME NEW x \in Cells \ {nilCell}, After(h, x) \in S, Below(h, x) \in S PROVE x \in S
  <2>1. PICK s, t : /\ s = f[Below(h, x)] /\ Lists(s, Tree(h, Below(h, x)))
                    /\ t = f[After(h, x)] /\ Lists(t, Tree(h, After(h, x))) BY <1>4
  <2>2. /\ Tree(h, x) = {x} \cup Tree(h, Below(h, x)) \cup Tree(h, After(h, x))
        /\ x \notin Tree(h, Below(h, x)) /\ x \notin Tree(h, After(h, x))
        /\ Tree(h, Below(h, x)) \cap Tree(h, After(h, x)) = {} BY TreeParts
  <2>3. Lists(<<x>>, {x}) BY ListsOne
  <2>4. {x} \cap Tree(h, Below(h, x)) = {}
        /\ ({x} \cup Tree(h, Below(h, x))) \cap Tree(h, After(h, x)) = {} BY <2>2
  <2>5. Lists(<<x>> \o s, {x} \cup Tree(h, Below(h, x))) BY <2>1, <2>3, <2>4, ListsJoin
  <2>6. Lists((<<x>> \o s) \o t, ({x} \cup Tree(h, Below(h, x))) \cup Tree(h, After(h, x)))
    BY <2>1, <2>4, <2>5, ListsJoin
  <2>7. f[x] = <<x>> \o s \o t BY <1>2, <2>1
  <2> QED BY <2>2, <2>6, <2>7
<1>5. \A x \in Cells : x \in S
  <2> HIDE DEF S
  <2> QED BY <1>1, <1>3, <1>4, CellInduction
<1>6. Below(h, c) \in Cells BY <1>1, KidsType
<1>7. PICK s : s = f[Below(h, c)] /\ Lists(s, Tree(h, Below(h, c))) BY <1>5, <1>6
<1>8. Lists(<<c>> \o s, {c} \cup Tree(h, Below(h, c))) BY <1>7, ListsOne, ListsJoin
<1>9. Len(<<c>> \o s) > 0 /\ (<<c>> \o s)[1] = c
  <2>1. s \in Seq(Cells) BY <1>7 DEF Lists
  <2> QED BY <2>1
<1> QED BY <1>2, <1>7, <1>8, <1>9

\* What deleteList frees.
LEMMA FreedFun ==
  ASSUME NEW h, Ranked(h)
  PROVE  \E f : f = [x \in Cells |-> IF x = nilCell THEN <<>>
                       ELSE f[Below(h, x)] \o (IF x = trueCell THEN <<>> ELSE <<x>>)
                            \o f[After(h, x)]]
<1>1. PICK X : X = Seq(Cells) OBVIOUS
<1>2. PICK G : G = [t \in Cells \X X \X X |->
                     t[2] \o (IF t[1] = trueCell THEN <<>> ELSE <<t[1]>>) \o t[3]] OBVIOUS
<1>3. G \in [Cells \X X \X X -> X]
  <2>1. ASSUME NEW x \in Cells PROVE (IF x = trueCell THEN <<>> ELSE <<x>>) \in Seq(Cells) OBVIOUS
  <2> QED BY <1>1, <1>2, <2>1
<1>4. PICK e \in X : e = <<>>
  <2>1. <<>> \in Seq(Cells) OBVIOUS
  <2> QED BY <1>1, <2>1
<1>5. PICK f \in [Cells -> X] : \A x \in Cells :
        f[x] = IF x = nilCell THEN e ELSE G[<<x, f[Below(h, x)], f[After(h, x)]>>] BY <1>3, Walks
<1>6. \A x \in Cells : After(h, x) \in Cells /\ Below(h, x) \in Cells BY DEF Ranked, Falling
<1> DEFINE Step(g, x) == IF x = nilCell THEN <<>>
                         ELSE g[Below(h, x)] \o (IF x = trueCell THEN <<>> ELSE <<x>>)
                              \o g[After(h, x)]
<1>7. ASSUME NEW x \in Cells PROVE f[x] = Step(f, x)
  <2>1. CASE x = nilCell BY <1>4, <1>5, <2>1
  <2>2. CASE x # nilCell
    <3>1. PICK t : t = <<x, f[Below(h, x)], f[After(h, x)]>> OBVIOUS
    <3>2. /\ t \in Cells \X X \X X /\ t[1] = x /\ t[2] = f[Below(h, x)]
          /\ t[3] = f[After(h, x)] BY <1>6, <3>1
    <3>3. G[t] = f[Below(h, x)] \o (IF x = trueCell THEN <<>> ELSE <<x>>) \o f[After(h, x)]
      BY <1>2, <3>2
    <3> QED BY <1>5, <2>2, <3>1, <3>3
  <2> QED BY <2>1, <2>2
<1>8. f = [x \in Cells |-> Step(f, x)] BY <1>7
<1> QED BY <1>8

\* deleteList puts the cells of the tree in front of the free list, if there are any.
LEMMA DeleteFacts ==
  ASSUME NEW m, Treelike(m.heap), NEW c \in Cells
  PROVE  \E s : /\ Lists(s, Tree(m.heap, c) \ {trueCell})
                /\ DeleteList(m, c) =
                     IF s = <<>> THEN m
                     ELSE [m EXCEPT !.heap = Linked(m.heap, s, m.free), !.free = Head(s)]
<1> DEFINE h == m.heap
           g == CHOOSE f : f = [x \in Cells |-> IF x = nilCell THEN <<>>
                       ELSE f[Below(h, x)] \o (IF x = trueCell THEN <<>> ELSE <<x>>)
                            \o f[After(h, x)]]
<1>1. Ranked(h) BY DEF Treelike
<1>2. g = [x \in Cells |-> IF x = nilCell THEN <<>>
                       ELSE g[Below(h, x)] \o (IF x = trueCell THEN <<>> ELSE <<x>>)
                            \o g[After(h, x)]] BY <1>1, FreedFun
<1>3. DeleteList(m, c) =
        IF Reverse(g[c]) = <<>> THEN m
        ELSE [m EXCEPT !.heap = Linked(m.heap, Reverse(g[c]), m.free), !.free = Head(Reverse(g[c]))]
  BY DEF DeleteList
<1> HIDE DEF g
<1> DEFINE S == {x \in Cells : Lists(g[x], Tree(h, x) \ {trueCell})}
<1>4. nilCell \in S
  <2>1. g[nilCell] = <<>> /\ nilCell \in Cells BY <1>2, Special
  <2>2. Tree(h, nilCell) \ {trueCell} = {} BY DEF Tree
  <2> QED BY <2>1, <2>2, ListsNone
<1>5. ASSUME NEW x \in Cells \ {nilCell}, After(h, x) \in S, Below(h, x) \in S PROVE x \in S
  <2> DEFINE A == Tree(h, Below(h, x)) \ {trueCell}
             B == Tree(h, After(h, x)) \ {trueCell}
  <2>1. PICK s, t : s = g[Below(h, x)] /\ Lists(s, A) /\ t = g[After(h, x)] /\ Lists(t, B) BY <1>5
  <2>2. /\ Tree(h, x) = {x} \cup Tree(h, Below(h, x)) \cup Tree(h, After(h, x))
        /\ x \notin Tree(h, Below(h, x)) /\ x \notin Tree(h, After(h, x))
        /\ Tree(h, Below(h, x)) \cap Tree(h, After(h, x)) = {} BY TreeParts
  <2>3. PICK u : u = (IF x = trueCell THEN <<>> ELSE <<x>>) OBVIOUS
  <2>4. Lists(u, {x} \ {trueCell})
    <3>1. CASE x = trueCell
      <4>1. {x} \ {trueCell} = {} /\ u = <<>> BY <2>3, <3>1
      <4> QED BY <4>1, ListsNone
    <3>2. CASE x # trueCell
      <4>1. {x} \ {trueCell} = {x} /\ u = <<x>> BY <2>3, <3>2
      <4> QED BY <4>1, ListsOne
    <3> QED BY <3>1, <3>2
  <2>5. A \cap ({x} \ {trueCell}) = {} /\ (A \cup ({x} \ {trueCell})) \cap B = {} BY <2>2
  <2>6. Lists(s \o u, A \cup ({x} \ {trueCell})) BY <2>1, <2>4, <2>5, ListsJoin
  <2>7. Lists((s \o u) \o t, (A \cup ({x} \ {trueCell})) \cup B) BY <2>1, <2>5, <2>6, ListsJoin
  <2>8. (A \cup ({x} \ {trueCell})) \cup B = Tree(h, x) \ {trueCell} BY <2>2
  <2>9. g[x] = s \o u \o t BY <1>2, <2>1, <2>3
  <2> QED BY <2>7, <2>8, <2>9
<1>6. \A x \in Cells : x \in S
  <2> HIDE DEF S
  <2> QED BY <1>1, <1>4, <1>5, CellInduction
<1>7. PICK r : r = g[c] /\ Lists(r, Tree(h, c) \ {trueCell}) BY <1>6
<1>8. Lists(Reverse(r), Tree(h, c) \ {trueCell}) BY <1>7, ListsReverse
<1> QED BY <1>3, <1>7, <1>8

(* Heaps in which every cell in use has one owner. *)

Heaps == {h \in [Cells -> [type : Types, next : Cells \cup {NULL}, aux : Cells, contents : Cells]] :
            \A x \in Cells : h[x].type # "list" => h[x].contents = nilCell}
Alive(h) == {x \in Cells : h[x].type \notin {"unmapped", "free"}} \ Permanent

\* The cells of R are owned from outside, each other cell in use by one link.
Shape(h, R) ==
  /\ h \in Heaps /\ h[nilCell].type = "nil" /\ h[trueCell].type = "true"
  /\ R \subseteq Alive(h)
  /\ \A x \in Cells : After(h, x) \in (Alive(h) \ R) \cup {nilCell}
                      /\ Below(h, x) \in (Alive(h) \ R) \cup {nilCell}
  /\ After(h, trueCell) = nilCell
  /\ \A r \in R : After(h, r) = nilCell
  /\ \A y \in Alive(h) \ R : \E x \in Alive(h) : y \in {After(h, x), Below(h, x)}
  /\ Treelike(h)

\* e is the last cell of the list in x.
EndOf(h, x, e) == e # nilCell /\ After(h, e) = nilCell /\ e \in List(h, Below(h, x))
Lasts(h) == \A x \in Alive(h) : h[x].type = "list" /\ h[x].aux # nilCell
                                => EndOf(h, x, h[x].aux)
Owned(h, R) == Shape(h, R) /\ Lasts(h)

\* What is used of a cell's fields.
LEMMA Fields ==
  ASSUME NEW h \in Heaps, NEW x \in Cells
  PROVE  /\ h[x].type \in Types /\ h[x].next \in Cells \cup {NULL}
         /\ h[x].aux \in Cells /\ h[x].contents \in Cells
         /\ Below(h, x) = h[x].contents
         /\ x \in Alive(h) => After(h, x) = h[x].next
         /\ x \notin Alive(h) /\ x \notin Permanent => After(h, x) = nilCell /\ Below(h, x) = nilCell
         /\ h[x].type \in {"nil", "true", "atom", "list"} => After(h, x) = h[x].next
<1>1. h[x] \in [type : Types, next : Cells \cup {NULL}, aux : Cells, contents : Cells]
      /\ (h[x].type # "list" => h[x].contents = nilCell) BY DEF Heaps
<1>2. Below(h, x) = h[x].contents BY <1>1 DEF Below
<1>3. x \in Alive(h) => After(h, x) = h[x].next BY DEF Alive, After
<1>4. x \notin Alive(h) /\ x \notin Permanent => After(h, x) = nilCell /\ Below(h, x) = nilCell
  BY DEF Alive, After, Below
<1>5. h[x].type \in {"nil", "true", "atom", "list"} => After(h, x) = h[x].next BY DEF After
<1> QED BY <1>1, <1>2, <1>3, <1>4, <1>5

\* A list is a part of the tree.
LEMMA ListInTree ==
  ASSUME NEW h, Ranked(h), NEW c \in Cells
  PROVE  List(h, c) \subseteq Tree(h, c)
<1>1. CASE c = nilCell BY <1>1 DEF List
<1>2. CASE c # nilCell
  <2> DEFINE K == Kids(h)
             L == Nexts(h)
  <2>1. /\ K \in [Cells -> SUBSET Cells] /\ L \in [Cells -> SUBSET Cells]
        /\ \A x \in Cells : L[x] \subseteq K[x] BY KidsType
  <2> HIDE DEF K, L
  <2>2. c \in Reach(K, c) /\ Sealed(K, Reach(K, c)) /\ Reach(K, c) \subseteq Cells
    BY <2>1, ReachSealed
  <2>3. Sealed(L, Reach(K, c)) BY <2>1, <2>2 DEF Sealed
  <2>4. Reach(L, c) \subseteq Reach(K, c) BY <2>1, <2>2, <2>3, ReachSealed
  <2> QED BY <1>2, <2>4 DEF List, Tree, K, L
<1> QED BY <1>1, <1>2

\* A list has one end.
LEMMA EndOne ==
  ASSUME NEW h, Ranked(h), NEW x \in Cells, NEW e, NEW f, EndOf(h, x, e), EndOf(h, x, f)
  PROVE  e = f
<1>1. PICK c \in Cells : c = Below(h, x) BY KidsType
<1>2. PICK s : s = Chain(h, c) OBVIOUS
<1>3. /\ \A i \in 1..Len(s) : After(h, s[i]) = (IF i = Len(s) THEN nilCell ELSE s[i + 1])
      /\ \A i \in 1..Len(s) : s[i] # nilCell
      /\ \A y : y \in List(h, c) <=> \E i \in 1..Len(s) : s[i] = y
      /\ s \in Seq(Cells) BY <1>2, ChainFacts
<1>4. PICK n \in Nat : n = Len(s) BY <1>3
<1>5. ASSUME NEW y, EndOf(h, x, y) PROVE y = s[n]
  <2>1. PICK i \in 1..n : s[i] = y BY <1>1, <1>3, <1>4, <1>5 DEF EndOf
  <2>2. After(h, y) = nilCell BY <1>5 DEF EndOf
  <2>3. CASE i = n BY <2>1, <2>3
  <2>4. CASE i # n
    <3>1. i + 1 \in 1..n BY <2>4
    <3>2. s[i + 1] # nilCell BY <1>3, <1>4, <3>1
    <3> QED BY <1>3, <1>4, <2>1, <2>2, <2>4, <3>2
  <2> QED BY <2>3, <2>4
<1> QED BY <1>5

\* A list whose cells keep their links stays the same.
LEMMA ListSame ==
  ASSUME NEW h, Ranked(h), NEW g, Ranked(g), NEW c \in Cells,
         \A y \in List(h, c) : After(g, y) = After(h, y)
  PROVE  List(g, c) = List(h, c)
<1>1. CASE c = nilCell BY <1>1 DEF List
<1>2. CASE c # nilCell
  <2>1. /\ Nexts(h) \in [Cells -> SUBSET Cells] /\ Nexts(g) \in [Cells -> SUBSET Cells]
        /\ \A x \in Cells : Nexts(h)[x] = {After(h, x)} \ {nilCell}
        /\ \A x \in Cells : Nexts(g)[x] = {After(g, x)} \ {nilCell} BY KidsType
  <2>2. Reach(Nexts(h), c) \subseteq Cells BY <2>1, ReachSealed
  <2>3. \A x \in Reach(Nexts(h), c) : Nexts(g)[x] = Nexts(h)[x] BY <1>2, <2>1, <2>2 DEF List
  <2>4. Reach(Nexts(g), c) = Reach(Nexts(h), c) BY <2>1, <2>3, ReachSame
  <2> QED BY <1>2, <2>4 DEF List
<1> QED BY <1>1, <1>2

\* A list with more links has what it had.
LEMMA ListGrows ==
  ASSUME NEW h, Ranked(h), NEW g, Ranked(g), NEW c \in Cells,
         \A y \in List(h, c) : After(h, y) \in {nilCell, After(g, y)}
  PROVE  List(h, c) \subseteq List(g, c)
<1>1. CASE c = nilCell BY <1>1 DEF List
<1>2. CASE c # nilCell
  <2> DEFINE K == Nexts(h)
             L == Nexts(g)
             S == {y \in Cells : y \in Reach(K, c) => y \in Reach(L, c)}
  <2>1. /\ K \in [Cells -> SUBSET Cells] /\ L \in [Cells -> SUBSET Cells]
        /\ \A x \in Cells : K[x] = {After(h, x)} \ {nilCell} /\ L[x] = {After(g, x)} \ {nilCell}
    BY KidsType
  <2>2. \A y \in Reach(K, c) : After(h, y) \in {nilCell, After(g, y)} BY <1>2 DEF List
  <2> HIDE DEF K, L
  <2>3. /\ c \in Reach(K, c) /\ Sealed(K, Reach(K, c)) /\ Reach(K, c) \subseteq Cells
        /\ \A A \in SUBSET Cells : c \in A /\ Sealed(K, A) => Reach(K, c) \subseteq A
    BY <2>1, ReachSealed
  <2>4. c \in Reach(L, c) /\ Sealed(L, Reach(L, c)) /\ Reach(L, c) \subseteq Cells
    BY <2>1, ReachSealed
  <2>5. Sealed(K, Reach(K, c) \cap Reach(L, c))
    <3>1. ASSUME NEW x \in Reach(K, c) \cap Reach(L, c)
          PROVE K[x] \subseteq Reach(K, c) \cap Reach(L, c)
      <4>1. x \in Cells /\ K[x] \subseteq L[x] BY <2>1, <2>2, <2>3, <3>1
      <4>2. K[x] \subseteq Reach(K, c) /\ L[x] \subseteq Reach(L, c) BY <2>3, <2>4, <3>1 DEF Sealed
      <4> QED BY <4>1, <4>2
    <3> QED BY <3>1 DEF Sealed
  <2>6. Reach(K, c) \cap Reach(L, c) \in SUBSET Cells /\ c \in Reach(K, c) \cap Reach(L, c)
    BY <2>3, <2>4
  <2>7. Reach(K, c) \subseteq Reach(K, c) \cap Reach(L, c) BY <2>3, <2>5, <2>6
  <2>8. Reach(K, c) \subseteq Reach(L, c) BY <2>7
  <2> QED BY <1>2, <2>8 DEF List, K, L
<1> QED BY <1>1, <1>2

\* The first cell of a list, and what follows.
LEMMA ListStep ==
  ASSUME NEW h, Ranked(h), NEW c \in Cells, c # nilCell
  PROVE  List(h, c) = {c} \cup List(h, After(h, c)) /\ After(h, c) \in Cells
<1>1. /\ Nexts(h) \in [Cells -> SUBSET Cells] /\ Nexts(h)[c] = {After(h, c)} \ {nilCell}
      /\ After(h, c) \in Cells BY KidsType
<1>2. Reach(Nexts(h), c) = {c} \cup UNION {Reach(Nexts(h), y) : y \in Nexts(h)[c]}
  BY <1>1, ReachStep
<1>3. UNION {Reach(Nexts(h), y) : y \in {After(h, c)} \ {nilCell}} = List(h, After(h, c))
  BY DEF List
<1> QED BY <1>1, <1>2, <1>3 DEF List

\* Lists hold with each cell the one after it.
LEMMA ListAfter ==
  ASSUME NEW h, Ranked(h), NEW c \in Cells, NEW y \in List(h, c)
  PROVE  y \in Cells \ {nilCell} /\ After(h, y) \in List(h, c) \cup {nilCell}
<1>1. c # nilCell BY DEF List
<1>2. y \in Reach(Nexts(h), c) BY <1>1 DEF List
<1>3. Nexts(h) \in [Cells -> SUBSET Cells] BY KidsType
<1>4. /\ Sealed(Nexts(h), Reach(Nexts(h), c)) /\ Reach(Nexts(h), c) \subseteq Cells
      /\ \A S \in SUBSET Cells : c \in S /\ Sealed(Nexts(h), S) => Reach(Nexts(h), c) \subseteq S
  BY <1>3, ReachSealed
<1>5. y \in Cells /\ Nexts(h)[y] = {After(h, y)} \ {nilCell} BY <1>2, <1>4, KidsType
<1>6. Nexts(h)[y] \subseteq Reach(Nexts(h), c) BY <1>2, <1>4 DEF Sealed
<1>7. y # nilCell
  <2>1. \A x \in Cells : Nexts(h)[x] \subseteq Cells \ {nilCell} BY KidsType
  <2>2. Sealed(Nexts(h), Cells \ {nilCell}) BY <2>1 DEF Sealed
  <2> QED BY <1>1, <1>2, <1>4, <2>2
<1> QED BY <1>1, <1>5, <1>6, <1>7 DEF List

Links(h, x) == {After(h, x), Below(h, x)} \ {nilCell}
OneOwner(h) == \A x, y \in Cells : Links(h, x) \cap Links(h, y) # {} => x = y

\* What being a tree says of links.
LEMMA TreelikeLinks ==
  ASSUME NEW h, Ranked(h)
  PROVE  Treelike(h) <=> /\ OneOwner(h)
                         /\ \A x \in Cells : After(h, x) = Below(h, x) => After(h, x) = nilCell
<1>1. \A x \in Cells : Kids(h)[x] = Links(h, x) BY DEF Kids, Links
<1>2. OneParent(Kids(h)) <=> OneOwner(h) BY <1>1 DEF OneParent, OneOwner
<1> QED BY <1>2 DEF Treelike

\* What a shape says of links, for use.
LEMMA ShapeFacts ==
  ASSUME NEW h, NEW R, Shape(h, R)
  PROVE  /\ h \in Heaps /\ Treelike(h) /\ Ranked(h) /\ OneOwner(h)
         /\ nilCell \notin Alive(h) /\ R \subseteq Alive(h) /\ Alive(h) \subseteq Cells
         /\ \A x \in Cells : After(h, x) = Below(h, x) => After(h, x) = nilCell
         /\ \A x \in Cells : /\ After(h, x) \in (Alive(h) \ R) \cup {nilCell}
                             /\ Below(h, x) \in (Alive(h) \ R) \cup {nilCell}
         /\ \A r \in R : After(h, r) = nilCell
         /\ \A y \in Alive(h) \ R : \E x \in Alive(h) : y \in {After(h, x), Below(h, x)}
         /\ After(h, nilCell) = nilCell /\ Below(h, nilCell) = nilCell
<1>1. Treelike(h) /\ Ranked(h) BY DEF Shape, Treelike
<1>2. OneOwner(h) BY <1>1, TreelikeLinks
<1>3. After(h, nilCell) = nilCell /\ Below(h, nilCell) = nilCell BY <1>1 DEF Ranked, Falling
<1>4. nilCell \notin Alive(h) /\ Alive(h) \subseteq Cells BY DEF Alive, Permanent
<1>5. \A x \in Cells : After(h, x) = Below(h, x) => After(h, x) = nilCell BY <1>1 DEF Treelike
<1> QED BY <1>1, <1>2, <1>3, <1>4, <1>5 DEF Shape

\* How trees are closed.
LEMMA TreeFacts ==
  ASSUME NEW h, NEW R, Shape(h, R), NEW c \in Alive(h)
  PROVE  /\ c \in Tree(h, c) /\ Tree(h, c) \subseteq Alive(h)
         /\ \A x \in Tree(h, c) : Links(h, x) \subseteq Tree(h, c)
         /\ \A y \in Tree(h, c) \ {c} : \E x \in Tree(h, c) : y \in Links(h, x)
<1> DEFINE K == Kids(h)
<1>1. c # nilCell /\ c \in Cells BY DEF Alive, Permanent
<1>2. K \in [Cells -> SUBSET Cells] /\ \A x \in Cells : K[x] = Links(h, x)
  BY ShapeFacts, KidsType DEF Links
<1>3. Tree(h, c) = Reach(K, c) BY <1>1 DEF Tree
<1> HIDE DEF K
<1>4. /\ c \in Reach(K, c) /\ Sealed(K, Reach(K, c)) /\ Reach(K, c) \subseteq Cells
      /\ \A S \in SUBSET Cells : c \in S /\ Sealed(K, S) => Reach(K, c) \subseteq S
  BY <1>1, <1>2, ReachSealed
<1>5. Reach(K, c) \subseteq Alive(h)
  <2>1. Alive(h) \in SUBSET Cells BY DEF Alive
  <2>2. \A x \in Cells : Links(h, x) \subseteq Alive(h) BY ShapeFacts DEF Links
  <2>3. Sealed(K, Alive(h)) BY <1>2, <2>1, <2>2 DEF Sealed
  <2> QED BY <1>4, <2>1, <2>3
<1>6. \A x \in Reach(K, c) : Links(h, x) \subseteq Reach(K, c) BY <1>2, <1>4 DEF Sealed
<1>7. ASSUME NEW y \in Reach(K, c), y # c PROVE \E x \in Reach(K, c) : y \in Links(h, x)
  <2>1. \E x \in Reach(K, c) : y \in K[x] BY <1>1, <1>2, <1>7, ReachParent
  <2> QED BY <1>2, <1>4, <2>1
<1> QED BY <1>3, <1>4, <1>5, <1>6, <1>7

\* What belongs to nothing in the heap is in no other tree.
LEMMA RootTree ==
  ASSUME NEW h, NEW R, Shape(h, R), NEW r \in R, NEW c \in Alive(h), c # r
  PROVE  r \notin Tree(h, c)
<1>1. \A x \in Cells : r \notin Links(h, x)
  <2>1. r \in Alive(h) /\ r # nilCell BY ShapeFacts
  <2> QED BY <2>1, ShapeFacts DEF Links
<1> QED BY <1>1, TreeFacts, ShapeFacts

\* The trees of two roots have nothing in common.
LEMMA TreesApart ==
  ASSUME NEW h, NEW R, Shape(h, R), NEW a \in R, NEW b \in R, a # b
  PROVE  Tree(h, a) \cap Tree(h, b) = {}
<1> DEFINE K == Kids(h)
<1>1. /\ a \in Alive(h) /\ b \in Alive(h) /\ a \in Cells /\ b \in Cells
      /\ a # nilCell /\ b # nilCell BY ShapeFacts
<1>2. K \in [Cells -> SUBSET Cells] /\ OneParent(K) BY ShapeFacts, KidsType DEF Treelike
<1>3. Tree(h, a) = Reach(K, a) /\ Tree(h, b) = Reach(K, b) BY <1>1 DEF Tree
<1>4. a \notin Reach(K, b) /\ b \notin Reach(K, a) BY <1>1, <1>3, RootTree
<1> HIDE DEF K
<1> QED BY <1>1, <1>2, <1>3, <1>4, ReachApart

\* A list is in one cell.
LEMMA ListsApart ==
  ASSUME NEW h, NEW R, Shape(h, R), NEW x \in Cells, NEW y \in Cells, NEW e,
         e \in List(h, Below(h, x)), e \in List(h, Below(h, y))
  PROVE  x = y
<1>1. PICK a \in Cells, b \in Cells : a = Below(h, x) /\ b = Below(h, y) BY ShapeFacts, KidsType
<1>2. a # nilCell /\ b # nilCell BY <1>1 DEF List
<1> DEFINE L == Nexts(h)
<1>3. /\ L \in [Cells -> SUBSET Cells]
      /\ \A z \in Cells : L[z] = {After(h, z)} \ {nilCell} BY ShapeFacts, KidsType
<1>4. OneParent(L)
  <2>1. \A z \in Cells : L[z] \subseteq Links(h, z) BY <1>3 DEF Links
  <2> HIDE DEF L
  <2> QED BY <2>1, ShapeFacts DEF OneOwner, OneParent
<1>5. \A z \in Cells : a \notin L[z]
  <2>1. ASSUME NEW z \in Cells, a = After(h, z) PROVE FALSE
    <3>1. a \in Links(h, z) /\ a \in Links(h, x) BY <1>1, <1>2, <2>1 DEF Links
    <3>2. z = x BY <3>1, ShapeFacts DEF OneOwner
    <3>3. After(h, x) = Below(h, x) => After(h, x) = nilCell BY ShapeFacts
    <3> QED BY ONLY <1>1, <1>2, <2>1, <3>2, <3>3
  <2> QED BY <1>3, <2>1
<1>6. \A z \in Cells : b \notin L[z]
  <2>1. ASSUME NEW z \in Cells, b = After(h, z) PROVE FALSE
    <3>1. b \in Links(h, z) /\ b \in Links(h, y) BY <1>1, <1>2, <2>1 DEF Links
    <3>2. z = y BY <3>1, ShapeFacts DEF OneOwner
    <3>3. After(h, y) = Below(h, y) => After(h, y) = nilCell BY ShapeFacts
    <3> QED BY ONLY <1>1, <1>2, <2>1, <3>2, <3>3
  <2> QED BY <1>3, <2>1
<1>7. e \in Reach(L, a) /\ e \in Reach(L, b) BY <1>1, <1>2 DEF List
<1> HIDE DEF L
<1>8. a = b
  <2>1. SUFFICES ASSUME a # b PROVE FALSE OBVIOUS
  <2>2. a \notin Reach(L, b) /\ b \notin Reach(L, a) BY <1>3, <1>5, <1>6, <2>1, ReachRoot
  <2>3. Reach(L, a) \cap Reach(L, b) = {} BY <1>3, <1>4, <2>2, ReachApart
  <2> QED BY <1>7, <2>3
<1>9. a \in Links(h, x) /\ a \in Links(h, y) BY <1>1, <1>2, <1>8 DEF Links
<1> QED BY <1>9, ShapeFacts DEF OneOwner

\* A cell of a list that is not the first is after another; a list has only cells in use.
LEMMA ListAlive ==
  ASSUME NEW h, NEW R, Shape(h, R), NEW x \in Cells, NEW y \in List(h, Below(h, x))
  PROVE  y \in Alive(h) \ R
<1>1. PICK b \in Cells : b = Below(h, x) BY ShapeFacts, KidsType
<1>2. b # nilCell BY <1>1 DEF List
<1>3. y \in Reach(Nexts(h), b) BY <1>1, <1>2 DEF List
<1>4. Nexts(h) \in [Cells -> SUBSET Cells]
      /\ \A z \in Cells : Nexts(h)[z] = {After(h, z)} \ {nilCell} BY ShapeFacts, KidsType
<1>5. Alive(h) \ R \in SUBSET Cells /\ b \in Alive(h) \ R BY <1>1, <1>2, ShapeFacts
<1>6. \A z \in Alive(h) \ R : Nexts(h)[z] \subseteq Alive(h) \ R BY <1>4, <1>5, ShapeFacts
<1>7. Sealed(Nexts(h), Alive(h) \ R) BY <1>6 DEF Sealed
<1> QED BY <1>3, <1>4, <1>5, <1>7, ReachSealed

\* What makes a shape.
LEMMA MakeShape ==
  ASSUME NEW h \in Heaps, NEW R, h[nilCell].type = "nil", h[trueCell].type = "true",
         R \subseteq Alive(h),
         \A x \in Cells : /\ After(h, x) \in (Alive(h) \ R) \cup {nilCell}
                          /\ Below(h, x) \in (Alive(h) \ R) \cup {nilCell},
         After(h, trueCell) = nilCell, \A r \in R : After(h, r) = nilCell,
         \A y \in Alive(h) \ R : \E x \in Alive(h) : y \in {After(h, x), Below(h, x)},
         \A x \in Cells : After(h, x) = Below(h, x) => After(h, x) = nilCell,
         OneOwner(h), Ranked(h)
  PROVE  Shape(h, R)
<1>1. Treelike(h) BY TreelikeLinks
<1> QED BY <1>1 DEF Shape

\* A function of ranks makes a heap ranked.
LEMMA MakeRanked ==
  ASSUME NEW h, NEW N \in Nat, NEW rank \in [Cells -> 0..N], rank[nilCell] = 0,
         \A x \in Cells : After(h, x) \in Cells /\ Below(h, x) \in Cells,
         After(h, nilCell) = nilCell, Below(h, nilCell) = nilCell,
         \A x \in Cells \ {nilCell} : rank[After(h, x)] < rank[x] /\ rank[Below(h, x)] < rank[x]
  PROVE  Ranked(h)
<1>1. Falling(h, N, rank) BY DEF Falling
<1> QED BY <1>1 DEF Ranked

\* The same cells in use.
LEMMA SameAlive ==
  ASSUME NEW h, NEW g, \A x \in Cells : g[x].type = h[x].type
  PROVE  Alive(g) = Alive(h) BY DEF Alive

\* A root z becomes the first element of the list cell p.
HungBelow(h, R, z, p, g) ==
  /\ Shape(g, R \ {z})
  /\ \A x \in Alive(h) : \A e : EndOf(h, x, e) => EndOf(g, x, e)
  /\ Below(h, p) = nilCell => EndOf(g, p, z)

\* The heap has its shape when the root z gets p as its parent and p's elements after it.
LEMMA HangBelow ==
  ASSUME NEW h, NEW R, Shape(h, R), NEW z \in R, NEW p \in Alive(h), p \notin Tree(h, z),
         NEW g \in Heaps, \A x \in Cells : g[x].type = h[x].type,
         \A x \in Cells : After(g, x) = IF x = z THEN Below(h, p) ELSE After(h, x),
         \A x \in Cells : Below(g, x) = IF x = p THEN z ELSE Below(h, x)
  PROVE  HungBelow(h, R, z, p, g)
<1> DEFINE b == Below(h, p)
           T == Tree(h, z)
<1>1. Alive(g) = Alive(h) BY SameAlive
<1>2. /\ z \in Alive(h) /\ z \in Cells /\ p \in Cells /\ z # nilCell /\ p # nilCell
      /\ h[nilCell].type = "nil" /\ h[trueCell].type = "true" /\ z # trueCell /\ p # trueCell
      /\ After(h, trueCell) = nilCell BY ShapeFacts DEF Shape, Alive, Permanent
<1>3. z \in T /\ T \subseteq Alive(h) /\ \A x \in T : Links(h, x) \subseteq T BY <1>2, TreeFacts
<1>4. p # z BY <1>3
<1>5. \A x \in Cells : z # After(h, x) /\ z # Below(h, x) BY <1>2, ShapeFacts
<1>6. After(h, z) = nilCell BY ShapeFacts
<1>7. Links(g, z) = ({b} \cup {Below(h, z)}) \ {nilCell} /\ Links(g, p) = {After(h, p), z} \ {nilCell}
      /\ \A x \in Cells \ {p, z} : Links(g, x) = Links(h, x) BY <1>2, <1>4 DEF Links
<1>8. b \in (Alive(h) \ R) \cup {nilCell} /\ b # z /\ b \in Cells
  <2>1. b \in (Alive(h) \ R) \cup {nilCell} BY <1>2, ShapeFacts
  <2>2. b # z BY <1>2, <1>5
  <2>3. Alive(h) \subseteq Cells /\ nilCell \in Cells BY ShapeFacts, Special
  <2> QED BY ONLY <2>1, <2>2, <2>3
<1>9. OneOwner(g)
  <2>1. \A x \in Cells : z \notin Links(h, x) BY <1>5 DEF Links
  <2>2. Links(h, z) = {Below(h, z)} \ {nilCell} /\ Links(h, p) = {After(h, p), b} \ {nilCell}
    BY <1>6 DEF Links
  <2>3. OneOwner(h) /\ (After(h, p) = b => b = nilCell) BY <1>2, ShapeFacts
  <2>4. ASSUME NEW x \in Cells, NEW y \in Cells, NEW k, k \in Links(g, x), k \in Links(g, y)
        PROVE x = y
    <3> DEFINE Old(v) == IF v = z /\ k = b THEN p ELSE v
    <3>1. k # nilCell BY <2>4 DEF Links
    <3>2. CASE k = z
      <4>1. \A v \in Cells : k \in Links(g, v) => v = p BY <1>7, <1>8, <2>1, <2>2, <3>2
      <4> QED BY <2>4, <4>1
    <3>3. CASE k # z /\ k = b
      <4>1. k \in Links(h, p) BY <2>2, <3>1, <3>3
      <4>2. \A v \in Cells : k \in Links(h, v) => v = p BY <1>2, <2>3, <4>1 DEF OneOwner
      <4>3. k # After(h, p) BY <2>3, <3>1, <3>3
      <4>4. k \notin Links(g, p) BY <1>7, <3>3, <4>3
      <4>5. \A v \in Cells : k \in Links(g, v) => v = z BY <1>7, <4>2, <4>4
      <4> QED BY <2>4, <4>5
    <3>4. CASE k # z /\ k # b
      <4>1. \A v \in Cells : k \in Links(g, v) => k \in Links(h, v) BY <1>7, <2>2, <3>1, <3>4
      <4> QED BY <2>3, <2>4, <4>1 DEF OneOwner
    <3> QED BY <3>2, <3>3, <3>4
  <2> QED BY <2>4 DEF OneOwner
<1>10. Ranked(g)
  <2>n. PICK N \in Nat : \E rank : Falling(h, N, rank) BY ShapeFacts DEF Ranked
  <2>1. PICK rank : Falling(h, N, rank) BY <2>n
  <2>2. /\ rank \in [Cells -> 0..N] /\ rank[nilCell] = 0
        /\ \A x \in Cells : After(h, x) \in Cells /\ Below(h, x) \in Cells
        /\ After(h, nilCell) = nilCell /\ Below(h, nilCell) = nilCell
        /\ \A x \in Cells \ {nilCell} : rank[After(h, x)] < rank[x] /\ rank[Below(h, x)] < rank[x]
    BY <2>1 DEF Falling
  <2> DEFINE M == 2 * N + (N + 2)
             r == [x \in Cells |-> IF x = nilCell THEN 0 ELSE IF x \in T
                     THEN IF x = z THEN 2 * rank[p] + (N + 1) ELSE rank[x]
                     ELSE 2 * rank[x] + (N + 2)]
  <2>3. \A x \in Cells : rank[x] \in Nat /\ rank[x] <= N BY <2>2
  <2>4. r \in [Cells -> 0..M] BY <1>2, <2>3
  <2>5. ASSUME NEW x \in Cells PROVE r[x] <= 2 * rank[x] + (N + 2) \/ x = z BY <2>3, <2>5
  <2>6. ASSUME NEW x \in T \ {z} PROVE r[x] = rank[x] /\ rank[x] <= N
    <3>1. x \in Cells BY <1>3, <2>6 DEF Alive
    <3> QED BY <2>2, <2>3, <3>1
  <2>7. r[z] = 2 * rank[p] + (N + 1) BY <1>2, <1>3
  <2>8. ASSUME NEW x \in Cells \ {nilCell}
        PROVE r[After(g, x)] < r[x] /\ r[Below(g, x)] < r[x]
    <3>1. PICK u \in Cells, v \in Cells : /\ u = After(h, x) /\ v = Below(h, x) /\ u # z /\ v # z
                                          /\ rank[u] < rank[x] /\ rank[v] < rank[x] BY <1>5, <2>2
    <3>2. rank[u] \in Nat /\ rank[v] \in Nat /\ rank[x] \in Nat /\ rank[x] <= N BY <2>3
    <3>3. CASE x = z
      <4>1. After(g, x) = b /\ Below(g, x) = v BY <1>4, <3>1, <3>3
      <4>2. rank[b] < rank[p] /\ rank[b] \in Nat /\ rank[p] \in Nat BY <1>2, <1>8, <2>2, <2>3
      <4>3. r[b] <= 2 * rank[b] + (N + 2) BY <1>8, <2>5
      <4>4. r[v] <= N
        <5>1. v = nilCell \/ v \in T BY <1>3, <3>1, <3>3 DEF Links
        <5>2. v = nilCell => r[v] = 0 BY <3>1
        <5>3. v \in T => r[v] <= N BY <2>6, <3>1
        <5> HIDE DEF r, T
        <5> QED BY <5>1, <5>2, <5>3
      <4>5. r[b] \in Nat /\ r[v] \in Nat BY <1>8, <2>4
      <4> HIDE DEF r, b
      <4> QED BY <2>7, <3>3, <4>1, <4>2, <4>3, <4>4, <4>5
    <3>4. CASE x \in T /\ x # z
      <4>1. x # p BY <3>4
      <4>2. After(g, x) = u /\ Below(g, x) = v BY <3>1, <3>4, <4>1
      <4>3. (u = nilCell \/ u \in T) /\ (v = nilCell \/ v \in T) BY <1>3, <3>1, <3>4 DEF Links
      <4>4. r[x] = rank[x] BY <2>6, <3>4
      <4>5. u # nilCell => r[u] = rank[u] BY <2>6, <3>1, <4>3
      <4>6. v # nilCell => r[v] = rank[v] BY <2>6, <3>1, <4>3
      <4>7. (u = nilCell => r[u] = 0) /\ (v = nilCell => r[v] = 0) BY <3>1
      <4> HIDE DEF r
      <4> QED BY <3>1, <3>2, <4>2, <4>4, <4>5, <4>6, <4>7
    <3>5. CASE x \notin T
      <4>1. r[x] = 2 * rank[x] + (N + 2) BY <3>5
      <4>2. r[u] <= 2 * rank[u] + (N + 2) /\ r[v] <= 2 * rank[v] + (N + 2) BY <2>5, <3>1
      <4>3. r[u] \in Nat /\ r[v] \in Nat BY <2>4
      <4>4. After(g, x) = u BY <1>3, <3>1, <3>5
      <4>5. Below(g, x) = IF x = p THEN z ELSE v BY <3>1
      <4> HIDE DEF r
      <4> QED BY <2>7, <3>1, <3>2, <4>1, <4>2, <4>3, <4>4, <4>5
    <3> QED BY <3>3, <3>4, <3>5
  <2>9. M \in Nat /\ r[nilCell] = 0 BY <2>2, Special
  <2>10. \A x \in Cells : After(g, x) \in Cells /\ Below(g, x) \in Cells BY <1>2, <1>8, <2>2
  <2>11. After(g, nilCell) = nilCell /\ Below(g, nilCell) = nilCell BY <1>2, <2>2, Special
  <2> HIDE DEF r, M
  <2> QED BY <2>4, <2>8, <2>9, <2>10, <2>11, MakeRanked
<1>11. Shape(g, R \ {z})
  <2>1. R \ {z} \subseteq Alive(g) BY <1>1, ShapeFacts
  <2>2. \A x \in Cells : /\ After(g, x) \in (Alive(g) \ (R \ {z})) \cup {nilCell}
                         /\ Below(g, x) \in (Alive(g) \ (R \ {z})) \cup {nilCell}
    BY <1>1, <1>2, <1>8, ShapeFacts
  <2>3. After(g, trueCell) = nilCell BY <1>2, Special
  <2>4. \A r \in R \ {z} : After(g, r) = nilCell BY ShapeFacts
  <2>5. ASSUME NEW y \in Alive(g) \ (R \ {z})
        PROVE \E x \in Alive(g) : y \in {After(g, x), Below(g, x)}
    <3>1. CASE y = z
      <4>1. p \in Alive(g) /\ Below(g, p) = z BY <1>1, <1>2
      <4> QED BY <3>1, <4>1
    <3>2. CASE y # z
      <4>1. PICK x \in Alive(h) : y = After(h, x) \/ y = Below(h, x) BY <1>1, <2>5, <3>2, ShapeFacts
      <4>2. CASE x = p /\ y = b BY <1>1, <1>2, <4>2
      <4>3. CASE y = After(h, x)
        <5>1. x # z /\ x \in Cells BY <1>1, <1>2, <1>6, <2>5, <4>1, <4>3, ShapeFacts
        <5> QED BY <1>1, <4>3, <5>1
      <4>4. CASE y = Below(h, x) /\ x # p BY <1>1, <4>1, <4>4, ShapeFacts
      <4> QED BY <4>1, <4>2, <4>3, <4>4
    <3> QED BY <3>1, <3>2
  <2>6. ASSUME NEW x \in Cells, After(g, x) = Below(g, x) PROVE After(g, x) = nilCell
    <3>1. CASE x = z
      <4>1. b = Below(h, z) BY <1>4, <2>6, <3>1
      <4>2. b # nilCell => p = z
        <5>1. b # nilCell => b \in Links(h, z) /\ b \in Links(h, p) BY <4>1 DEF Links
        <5> QED BY <1>2, <5>1, ShapeFacts DEF OneOwner
      <4> QED BY <1>4, <3>1, <4>2
    <3>2. CASE x # z BY <1>5, <2>6, <3>2, ShapeFacts
    <3> QED BY <3>1, <3>2
  <2>7. g[nilCell].type = "nil" /\ g[trueCell].type = "true" BY <1>2, Special
  <2> QED BY <1>9, <1>10, <2>1, <2>2, <2>3, <2>4, <2>5, <2>6, <2>7, MakeShape
<1>12. ASSUME NEW x \in Alive(h), NEW e, EndOf(h, x, e) PROVE EndOf(g, x, e)
  <2>1. Ranked(h) /\ x \in Cells /\ Below(h, x) \in Cells BY ShapeFacts, KidsType
  <2>2. e # z
    <3>1. e \in Alive(h) \ R BY <1>12, <2>1, ListAlive DEF EndOf
    <3> QED BY <3>1
  <2>3. z \notin List(h, Below(h, x)) BY <2>1, ListAlive
  <2>4. \A y \in List(h, Below(h, x)) : After(g, y) = After(h, y) BY <2>1, <2>3, ListAfter
  <2>5. List(g, Below(h, x)) = List(h, Below(h, x)) BY <1>10, <2>1, <2>4, ListSame
  <2>6. e \in Cells BY <1>12, <2>1, ListAfter DEF EndOf
  <2>7. After(g, e) = nilCell BY <1>12, <2>2, <2>6 DEF EndOf
  <2>8. List(h, Below(h, x)) \subseteq List(g, Below(g, x))
    <3>1. CASE x # p BY <2>1, <2>5, <3>1
    <3>2. CASE x = p
      <4>1. Below(g, x) = z /\ After(g, z) = b BY <1>2, <3>2
      <4>2. List(g, z) = {z} \cup List(g, b) BY <1>2, <1>10, <4>1, ListStep
      <4> QED BY <2>5, <3>2, <4>1, <4>2
    <3> QED BY <3>1, <3>2
  <2> QED BY <1>12, <2>7, <2>8 DEF EndOf
<1>13. ASSUME b = nilCell PROVE EndOf(g, p, z)
  <2>1. After(g, z) = nilCell /\ Below(g, p) = z BY <1>2, <1>13
  <2>2. z \in List(g, z) BY <1>2, <1>10, ListStep
  <2> QED BY <1>2, <2>1, <2>2 DEF EndOf
<1> QED BY <1>11, <1>12, <1>13 DEF HungBelow

\* A root z comes after p, the last cell of a list.
HungAfter(h, R, z, p, g) ==
  /\ Shape(g, R \ {z})
  /\ \A x \in Alive(h) : \A e : EndOf(h, x, e) /\ e # p => EndOf(g, x, e)
  /\ \A x \in Alive(h) : EndOf(h, x, p) => EndOf(g, x, z)

\* The heap has its shape when the root z comes after p, the last cell of a list.
LEMMA HangAfter ==
  ASSUME NEW h, NEW R, Shape(h, R), NEW z \in R, NEW p \in Alive(h) \ R, p \notin Tree(h, z),
         After(h, p) = nilCell,
         NEW g \in Heaps, \A x \in Cells : g[x].type = h[x].type,
         \A x \in Cells : After(g, x) = IF x = p THEN z ELSE After(h, x),
         \A x \in Cells : Below(g, x) = Below(h, x)
  PROVE  HungAfter(h, R, z, p, g)
<1> DEFINE T == Tree(h, z)
<1>1. Alive(g) = Alive(h) BY SameAlive
<1>2. /\ z \in Alive(h) /\ z \in Cells /\ p \in Cells /\ z # nilCell /\ p # nilCell
      /\ h[nilCell].type = "nil" /\ h[trueCell].type = "true" /\ z # trueCell /\ p # trueCell
      /\ After(h, trueCell) = nilCell BY ShapeFacts DEF Shape, Alive, Permanent
<1>3. z \in T /\ T \subseteq Alive(h) /\ \A x \in T : Links(h, x) \subseteq T BY <1>2, TreeFacts
<1>4. p # z BY <1>3
<1>5. \A x \in Cells : z # After(h, x) /\ z # Below(h, x) BY <1>2, ShapeFacts
<1>6. After(h, z) = nilCell BY ShapeFacts
<1>7. Links(g, p) = Links(h, p) \cup {z}
      /\ \A x \in Cells \ {p} : Links(g, x) = Links(h, x) BY <1>2, <1>4 DEF Links
<1>9. OneOwner(g)
  <2>1. \A x \in Cells : z \notin Links(h, x) BY <1>5 DEF Links
  <2>2. \A x, y \in Cells : \A k : k \in Links(g, x) /\ k \in Links(g, y) => x = y
    BY <1>7, <2>1, ShapeFacts DEF OneOwner
  <2> QED BY <2>2 DEF OneOwner
<1>10. Ranked(g)
  <2>n. PICK N \in Nat : \E rank : Falling(h, N, rank) BY ShapeFacts DEF Ranked
  <2>1. PICK rank : Falling(h, N, rank) BY <2>n
  <2>2. /\ rank \in [Cells -> 0..N] /\ rank[nilCell] = 0
        /\ \A x \in Cells : After(h, x) \in Cells /\ Below(h, x) \in Cells
        /\ After(h, nilCell) = nilCell /\ Below(h, nilCell) = nilCell
        /\ \A x \in Cells \ {nilCell} : rank[After(h, x)] < rank[x] /\ rank[Below(h, x)] < rank[x]
    BY <2>1 DEF Falling
  <2> DEFINE M == N + (N + 1)
             r == [x \in Cells |-> IF x = nilCell THEN 0 ELSE IF x \in T THEN rank[x]
                                   ELSE rank[x] + (N + 1)]
  <2>3. \A x \in Cells : rank[x] \in Nat /\ rank[x] <= N BY <2>2
  <2>4. r \in [Cells -> 0..M] BY <1>2, <2>3
  <2>5. ASSUME NEW x \in Cells PROVE r[x] <= rank[x] + (N + 1) BY <2>3
  <2>6. ASSUME NEW x \in T PROVE r[x] = rank[x] /\ rank[x] <= N
    <3>1. x \in Cells /\ x # nilCell BY <1>3, ShapeFacts
    <3> QED BY <2>2, <2>3, <3>1
  <2>8. ASSUME NEW x \in Cells \ {nilCell}
        PROVE r[After(g, x)] < r[x] /\ r[Below(g, x)] < r[x]
    <3>1. PICK u \in Cells, v \in Cells : /\ u = After(h, x) /\ v = Below(h, x)
                                          /\ rank[u] < rank[x] /\ rank[v] < rank[x] BY <2>2
    <3>2. rank[u] \in Nat /\ rank[v] \in Nat /\ rank[x] \in Nat /\ rank[x] <= N BY <2>3
    <3>4. CASE x \in T
      <4>1. x # p BY <3>4
      <4>2. After(g, x) = u /\ Below(g, x) = v BY <3>1, <3>4, <4>1
      <4>3. (u = nilCell \/ u \in T) /\ (v = nilCell \/ v \in T) BY <1>3, <3>1, <3>4 DEF Links
      <4>4. r[x] = rank[x] BY <2>6, <3>4
      <4>5. u # nilCell => r[u] = rank[u] BY <2>6, <3>1, <4>3
      <4>6. v # nilCell => r[v] = rank[v] BY <2>6, <3>1, <4>3
      <4>7. (u = nilCell => r[u] = 0) /\ (v = nilCell => r[v] = 0) BY <3>1
      <4> HIDE DEF r
      <4> QED BY <3>1, <3>2, <4>2, <4>4, <4>5, <4>6, <4>7
    <3>5. CASE x \notin T
      <4>1. r[x] = rank[x] + (N + 1) BY <3>5
      <4>2. r[u] <= rank[u] + (N + 1) /\ r[v] <= rank[v] + (N + 1) BY <2>5, <3>1
      <4>3. r[u] \in Nat /\ r[v] \in Nat BY <2>4
      <4>4. After(g, x) = IF x = p THEN z ELSE u BY <3>1
      <4>5. Below(g, x) = v BY <3>1
      <4>6. r[z] = rank[z] /\ rank[z] <= N /\ rank[z] \in Nat BY <1>2, <1>3, <2>3, <2>6
      <4> HIDE DEF r
      <4> QED BY <3>1, <3>2, <4>1, <4>2, <4>3, <4>4, <4>5, <4>6
    <3> QED BY <3>4, <3>5
  <2>9. M \in Nat /\ r[nilCell] = 0 BY <2>2, Special
  <2>10. \A x \in Cells : After(g, x) \in Cells /\ Below(g, x) \in Cells BY <1>2, <2>2
  <2>11. After(g, nilCell) = nilCell /\ Below(g, nilCell) = nilCell BY <1>2, <2>2, Special
  <2> HIDE DEF r, M
  <2> QED BY <2>4, <2>8, <2>9, <2>10, <2>11, MakeRanked
<1>11. Shape(g, R \ {z})
  <2>1. R \ {z} \subseteq Alive(g) BY <1>1, ShapeFacts
  <2>2. \A x \in Cells : /\ After(g, x) \in (Alive(g) \ (R \ {z})) \cup {nilCell}
                         /\ Below(g, x) \in (Alive(g) \ (R \ {z})) \cup {nilCell}
    BY <1>1, <1>2, ShapeFacts
  <2>3. After(g, trueCell) = nilCell BY <1>2, Special
  <2>4. \A r \in R \ {z} : After(g, r) = nilCell BY ShapeFacts
  <2>5. ASSUME NEW y \in Alive(g) \ (R \ {z})
        PROVE \E x \in Alive(g) : y \in {After(g, x), Below(g, x)}
    <3>1. CASE y = z
      <4>1. p \in Alive(g) /\ After(g, p) = z BY <1>1, <1>2
      <4> QED BY <3>1, <4>1
    <3>2. CASE y # z
      <4>1. PICK x \in Alive(h) : y = After(h, x) \/ y = Below(h, x) BY <1>1, <2>5, <3>2, ShapeFacts
      <4>2. x \in Cells /\ y # nilCell BY <1>1, <2>5, ShapeFacts
      <4>3. CASE y = After(h, x)
        <5>1. x # p BY <4>2, <4>3
        <5> QED BY <1>1, <4>2, <4>3, <5>1
      <4>4. CASE y = Below(h, x) BY <1>1, <4>2, <4>4
      <4> QED BY <4>1, <4>3, <4>4
    <3> QED BY <3>1, <3>2
  <2>6. ASSUME NEW x \in Cells, After(g, x) = Below(g, x) PROVE After(g, x) = nilCell
    <3>1. CASE x = p BY <1>5, <2>6, <3>1
    <3>2. CASE x # p BY <2>6, <3>2, ShapeFacts
    <3> QED BY <3>1, <3>2
  <2>7. g[nilCell].type = "nil" /\ g[trueCell].type = "true" BY <1>2, Special
  <2> QED BY <1>9, <1>10, <2>1, <2>2, <2>3, <2>4, <2>5, <2>6, <2>7, MakeShape
<1>12. ASSUME NEW x \in Alive(h), NEW e, EndOf(h, x, e), e # p PROVE EndOf(g, x, e)
  <2>1. Ranked(h) /\ x \in Cells /\ Below(h, x) \in Cells BY ShapeFacts, KidsType
  <2>2. p \notin List(h, Below(h, x))
    <3>1. p \in List(h, Below(h, x)) => EndOf(h, x, p) BY <1>2 DEF EndOf
    <3> QED BY <1>12, <2>1, <3>1, EndOne
  <2>4. \A y \in List(h, Below(h, x)) : After(g, y) = After(h, y) BY <2>1, <2>2, ListAfter
  <2>5. List(g, Below(h, x)) = List(h, Below(h, x)) BY <1>10, <2>1, <2>4, ListSame
  <2>6. e \in Cells BY <1>12, <2>1, ListAfter DEF EndOf
  <2>7. After(g, e) = nilCell BY <1>12, <2>6 DEF EndOf
  <2> QED BY <1>12, <2>1, <2>5, <2>7 DEF EndOf
<1>13. ASSUME NEW x \in Alive(h), EndOf(h, x, p) PROVE EndOf(g, x, z)
  <2>1. Ranked(h) /\ x \in Cells /\ Below(h, x) \in Cells BY ShapeFacts, KidsType
  <2>2. \A y \in List(h, Below(h, x)) : After(h, y) \in {nilCell, After(g, y)} BY <2>1, ListAfter
  <2>3. List(h, Below(h, x)) \subseteq List(g, Below(h, x)) BY <1>10, <2>1, <2>2, ListGrows
  <2>4. p \in List(g, Below(h, x)) BY <1>13, <2>3 DEF EndOf
  <2>5. After(g, p) \in List(g, Below(h, x)) \cup {nilCell} BY <1>10, <2>1, <2>4, ListAfter
  <2>6. After(g, p) = z /\ After(g, z) = nilCell /\ Below(g, x) = Below(h, x)
    BY <1>2, <1>4, <1>6, <2>1
  <2> QED BY <1>2, <2>5, <2>6 DEF EndOf
<1> QED BY <1>11, <1>12, <1>13 DEF HungAfter

\* The first element of the list cell p becomes a root.
TookFirst(h, R, z, p, g) ==
  /\ Shape(g, R \cup {z}) /\ z \in Alive(h) \ R
  /\ \A x \in Alive(h) : \A e : EndOf(h, x, e) /\ (x # p \/ After(h, z) # nilCell)
                                => EndOf(g, x, e)

\* The heap has its shape when p's first element z is taken out of its list.
LEMMA TakeFirst ==
  ASSUME NEW h, NEW R, Shape(h, R), NEW p \in Alive(h), NEW z, z = Below(h, p), z # nilCell,
         NEW g \in Heaps, \A x \in Cells : g[x].type = h[x].type,
         \A x \in Cells : After(g, x) = IF x = z THEN nilCell ELSE After(h, x),
         \A x \in Cells : Below(g, x) = IF x = p THEN After(h, z) ELSE Below(h, x)
  PROVE  TookFirst(h, R, z, p, g)
<1> DEFINE b == After(h, z)
<1>1. Alive(g) = Alive(h) BY SameAlive
<1>2. /\ p \in Cells /\ p # nilCell /\ p # trueCell
      /\ h[nilCell].type = "nil" /\ h[trueCell].type = "true"
      /\ After(h, trueCell) = nilCell BY ShapeFacts DEF Shape, Alive, Permanent
<1>3. z \in Alive(h) \ R /\ z \in Cells /\ z # trueCell BY <1>2, ShapeFacts DEF Alive, Permanent
<1>n. PICK N \in Nat : \E rank : Falling(h, N, rank) BY ShapeFacts DEF Ranked
<1>4. PICK rank : Falling(h, N, rank) BY <1>n
<1>5. /\ rank \in [Cells -> 0..N] /\ rank[nilCell] = 0
      /\ \A x \in Cells : After(h, x) \in Cells /\ Below(h, x) \in Cells
      /\ After(h, nilCell) = nilCell /\ Below(h, nilCell) = nilCell
      /\ \A x \in Cells \ {nilCell} : rank[After(h, x)] < rank[x] /\ rank[Below(h, x)] < rank[x]
  BY <1>4 DEF Falling
<1>6. b \in (Alive(h) \ R) \cup {nilCell} /\ b \in Cells BY <1>3, <1>5, ShapeFacts
<1>7. /\ rank[b] < rank[z] /\ rank[z] < rank[p]
      /\ rank[b] \in Nat /\ rank[z] \in Nat /\ rank[p] \in Nat BY <1>2, <1>3, <1>5, <1>6
<1>8. z # p /\ b # z
  <2>1. rank[z] # rank[p] /\ rank[b] # rank[z] BY ONLY <1>7
  <2> QED BY ONLY <2>1
<1>9. z \in Links(h, p) /\ \A x \in Cells : z \in Links(h, x) => x = p
  <2>1. z \in Links(h, p) BY DEF Links
  <2> QED BY <1>2, <2>1, ShapeFacts DEF OneOwner
<1>10. After(h, p) # z BY <1>2, ShapeFacts
<1>11. \A x \in Cells : After(g, x) # z /\ Below(g, x) # z BY <1>8, <1>9, <1>10, <1>2 DEF Links
<1>12. b # nilCell => b \in Links(h, z) /\ \A x \in Cells : b \in Links(h, x) => x = z
  BY <1>3, ShapeFacts DEF Links, OneOwner
<1>13. OneOwner(g)
  <2>1. ASSUME NEW x \in Cells, NEW y \in Cells, NEW k, k \in Links(g, x), k \in Links(g, y)
        PROVE x = y
    <3>1. k # nilCell /\ k # z BY <1>11, <2>1 DEF Links
    <3>2. CASE k = b
      <4>1. \A v \in Cells : k \in Links(g, v) => v = p
        <5>1. ASSUME NEW v \in Cells, k \in Links(g, v), v # p PROVE FALSE
          <6>1. v # z
            <7>1. v = z => b = Below(h, z) BY <1>8, <3>1, <3>2, <5>1 DEF Links
            <7>2. b = Below(h, z) => b = nilCell BY <1>3, ShapeFacts
            <7> QED BY <3>1, <3>2, <7>1, <7>2
          <6>2. k \in Links(h, v) BY <5>1, <6>1 DEF Links
          <6> QED BY <1>12, <3>1, <3>2, <6>1, <6>2
        <5> QED BY <5>1
      <4> QED BY <2>1, <4>1
    <3>3. CASE k # b
      <4>1. \A v \in Cells : k \in Links(g, v) => k \in Links(h, v) BY <3>1, <3>3 DEF Links
      <4> QED BY <2>1, <4>1, ShapeFacts DEF OneOwner
    <3> QED BY <3>2, <3>3
  <2> QED BY <2>1 DEF OneOwner
<1>14. Ranked(g)
  <2>1. ASSUME NEW x \in Cells \ {nilCell}
        PROVE rank[After(g, x)] < rank[x] /\ rank[Below(g, x)] < rank[x]
    <3>1. PICK u \in Cells, v \in Cells : /\ u = After(h, x) /\ v = Below(h, x)
                                          /\ rank[u] < rank[x] /\ rank[v] < rank[x] BY <1>5
    <3>2. rank[u] \in Nat /\ rank[v] \in Nat /\ rank[x] \in Nat /\ rank[b] \in Nat /\ rank[z] \in Nat
      BY <1>3, <1>5, <1>6
    <3>3. After(g, x) = IF x = z THEN nilCell ELSE u BY <3>1
    <3>4. Below(g, x) = IF x = p THEN b ELSE v BY <3>1
    <3> HIDE DEF b
    <3> QED BY <1>5, <1>7, <3>1, <3>2, <3>3, <3>4
  <2>2. \A x \in Cells : After(g, x) \in Cells /\ Below(g, x) \in Cells BY <1>5, <1>6, Special
  <2>3. After(g, nilCell) = nilCell /\ Below(g, nilCell) = nilCell BY <1>2, <1>5, Special
  <2> QED BY <1>5, <2>1, <2>2, <2>3, MakeRanked
<1>15. Shape(g, R \cup {z})
  <2>1. R \cup {z} \subseteq Alive(g) BY <1>1, <1>3, ShapeFacts
  <2>2. \A x \in Cells : /\ After(g, x) \in (Alive(g) \ (R \cup {z})) \cup {nilCell}
                         /\ Below(g, x) \in (Alive(g) \ (R \cup {z})) \cup {nilCell}
    BY <1>1, <1>6, <1>11, ShapeFacts
  <2>3. After(g, trueCell) = nilCell BY <1>2, Special
  <2>4. \A r \in R \cup {z} : After(g, r) = nilCell BY <1>3, ShapeFacts
  <2>5. ASSUME NEW y \in Alive(g) \ (R \cup {z})
        PROVE \E x \in Alive(g) : y \in {After(g, x), Below(g, x)}
    <3>1. PICK x \in Alive(h) : y = After(h, x) \/ y = Below(h, x) BY <1>1, <2>5, ShapeFacts
    <3>2. x \in Cells /\ y # nilCell /\ y # z BY <1>1, <2>5, ShapeFacts
    <3>3. CASE y = b
      <4>1. p \in Alive(g) /\ Below(g, p) = y BY <1>1, <1>2, <3>3
      <4> QED BY <4>1
    <3>4. CASE y # b
      <4>1. y \in {After(g, x), Below(g, x)} BY <3>1, <3>2, <3>4
      <4> QED BY <1>1, <4>1
    <3> QED BY <3>3, <3>4
  <2>6. ASSUME NEW x \in Cells, After(g, x) = Below(g, x) PROVE After(g, x) = nilCell
    <3>1. CASE x = z BY <3>1, <1>3
    <3>2. CASE x = p
      <4>1. After(h, p) = b BY <1>8, <2>6, <3>2, <1>2
      <4>2. b # nilCell => b \in Links(h, p) BY <4>1 DEF Links
      <4>3. b = nilCell BY <1>2, <1>8, <1>12, <4>2
      <4> QED BY <1>2, <1>8, <3>2, <4>1, <4>3
    <3>3. CASE x # p /\ x # z BY <2>6, <3>3, ShapeFacts
    <3> QED BY <3>1, <3>2, <3>3
  <2>7. g[nilCell].type = "nil" /\ g[trueCell].type = "true" BY <1>2, Special
  <2> QED BY <1>13, <1>14, <2>1, <2>2, <2>3, <2>4, <2>5, <2>6, <2>7, MakeShape
<1>16. ASSUME NEW x \in Alive(h), NEW e, EndOf(h, x, e), x # p \/ b # nilCell
       PROVE EndOf(g, x, e)
  <2>1. Ranked(h) /\ x \in Cells /\ Below(h, x) \in Cells BY ShapeFacts, KidsType
  <2>2. e \in Cells BY <1>16, <2>1, ListAfter DEF EndOf
  <2>3. After(g, e) = nilCell BY <1>16, <2>2 DEF EndOf
  <2>4. z \in List(h, Below(h, p)) BY <1>3, ListStep, ShapeFacts
  <2>5. CASE x # p
    <3>1. z \notin List(h, Below(h, x)) BY <1>2, <2>1, <2>4, <2>5, ListsApart
    <3>2. \A y \in List(h, Below(h, x)) : After(g, y) = After(h, y) BY <2>1, <3>1, ListAfter
    <3>3. List(g, Below(h, x)) = List(h, Below(h, x)) BY <1>14, <2>1, <3>2, ListSame
    <3> QED BY <1>16, <2>1, <2>3, <2>5, <3>3 DEF EndOf
  <2>6. CASE x = p /\ b # nilCell
    <3>1. List(h, z) = {z} \cup List(h, b) BY <1>3, <2>1, ListStep
    <3>2. e # z /\ e \in List(h, b) BY <1>16, <2>6, <3>1 DEF EndOf
    <3>3. z \notin List(h, b)
      <4>1. Below(g, p) = b BY <1>2
      <4>2. List(h, b) \subseteq Tree(h, b) BY <1>6, <2>1, ListInTree
      <4>3. z \notin Tree(h, b) BY <1>3, <2>1, ShapeFacts, TreeParts
      <4> QED BY <4>2, <4>3
    <3>4. \A y \in List(h, b) : After(g, y) = After(h, y) BY <1>6, <2>1, <3>3, ListAfter
    <3>5. List(g, b) = List(h, b) BY <1>6, <1>14, <2>1, <3>4, ListSame
    <3>6. Below(g, x) = b BY <1>2, <2>6
    <3> QED BY <1>16, <2>3, <3>2, <3>5, <3>6 DEF EndOf
  <2> QED BY <1>16, <2>5, <2>6
<1> QED BY <1>3, <1>15, <1>16 DEF TookFirst

\* The last element z of a list, after p, becomes a root.
TookLast(h, R, z, p, g) ==
  /\ Shape(g, R \cup {z}) /\ z \in Alive(h) \ R
  /\ \A x \in Alive(h) : \A e : EndOf(h, x, e) /\ e # z => EndOf(g, x, e)
  /\ \A x \in Alive(h) : EndOf(h, x, z) /\ p \in List(h, Below(h, x)) => EndOf(g, x, p)

\* The heap has its shape when the last element z, after p, is taken out of its list.
LEMMA TakeLast ==
  ASSUME NEW h, NEW R, Shape(h, R), NEW p \in Alive(h), NEW z, z = After(h, p), z # nilCell,
         After(h, z) = nilCell,
         NEW g \in Heaps, \A x \in Cells : g[x].type = h[x].type,
         \A x \in Cells : After(g, x) = IF x = p THEN nilCell ELSE After(h, x),
         \A x \in Cells : Below(g, x) = Below(h, x)
  PROVE  TookLast(h, R, z, p, g)
<1>1. Alive(g) = Alive(h) BY SameAlive
<1>2. /\ p \in Cells /\ p # nilCell /\ p # trueCell
      /\ h[nilCell].type = "nil" /\ h[trueCell].type = "true"
      /\ After(h, trueCell) = nilCell BY ShapeFacts DEF Shape, Alive, Permanent
<1>3. z \in Alive(h) \ R /\ z \in Cells /\ z # trueCell BY <1>2, ShapeFacts DEF Alive, Permanent
<1>n. PICK N \in Nat : \E rank : Falling(h, N, rank) BY ShapeFacts DEF Ranked
<1>4. PICK rank : Falling(h, N, rank) BY <1>n
<1>5. /\ rank \in [Cells -> 0..N] /\ rank[nilCell] = 0
      /\ \A x \in Cells : After(h, x) \in Cells /\ Below(h, x) \in Cells
      /\ After(h, nilCell) = nilCell /\ Below(h, nilCell) = nilCell
      /\ \A x \in Cells \ {nilCell} : rank[After(h, x)] < rank[x] /\ rank[Below(h, x)] < rank[x]
  BY <1>4 DEF Falling
<1>9. z \in Links(h, p) /\ \A x \in Cells : z \in Links(h, x) => x = p
  <2>1. z \in Links(h, p) BY DEF Links
  <2> QED BY <1>2, <2>1, ShapeFacts DEF OneOwner
<1>10. Below(h, p) # z BY <1>2, ShapeFacts
<1>11. \A x \in Cells : After(g, x) # z /\ Below(g, x) # z BY <1>9, <1>10, <1>2 DEF Links
<1>13. OneOwner(g)
  <2>1. \A x \in Cells : Links(g, x) \subseteq Links(h, x) BY DEF Links
  <2> QED BY <2>1, ShapeFacts DEF OneOwner
<1>14. Ranked(g)
  <2>1. ASSUME NEW x \in Cells \ {nilCell}
        PROVE rank[After(g, x)] < rank[x] /\ rank[Below(g, x)] < rank[x]
    <3>1. PICK u \in Cells, v \in Cells : /\ u = After(h, x) /\ v = Below(h, x)
                                          /\ rank[u] < rank[x] /\ rank[v] < rank[x] BY <1>5
    <3>2. rank[u] \in Nat /\ rank[v] \in Nat /\ rank[x] \in Nat BY <1>5
    <3>3. After(g, x) = IF x = p THEN nilCell ELSE u BY <3>1
    <3>4. Below(g, x) = v BY <3>1
    <3> QED BY <1>5, <3>1, <3>2, <3>3, <3>4
  <2>2. \A x \in Cells : After(g, x) \in Cells /\ Below(g, x) \in Cells BY <1>5, Special
  <2>3. After(g, nilCell) = nilCell /\ Below(g, nilCell) = nilCell BY <1>2, <1>5, Special
  <2> QED BY <1>5, <2>1, <2>2, <2>3, MakeRanked
<1>15. Shape(g, R \cup {z})
  <2>1. R \cup {z} \subseteq Alive(g) BY <1>1, <1>3, ShapeFacts
  <2>2. \A x \in Cells : /\ After(g, x) \in (Alive(g) \ (R \cup {z})) \cup {nilCell}
                         /\ Below(g, x) \in (Alive(g) \ (R \cup {z})) \cup {nilCell}
    BY <1>1, <1>11, ShapeFacts
  <2>3. After(g, trueCell) = nilCell BY <1>2, Special
  <2>4. \A r \in R \cup {z} : After(g, r) = nilCell BY <1>3, ShapeFacts
  <2>5. ASSUME NEW y \in Alive(g) \ (R \cup {z})
        PROVE \E x \in Alive(g) : y \in {After(g, x), Below(g, x)}
    <3>1. PICK x \in Alive(h) : y = After(h, x) \/ y = Below(h, x) BY <1>1, <2>5, ShapeFacts
    <3>2. x \in Cells /\ y # nilCell /\ y # z BY <1>1, <2>5, ShapeFacts
    <3>3. y \in {After(g, x), Below(g, x)} BY <3>1, <3>2
    <3> QED BY <1>1, <3>3
  <2>6. \A x \in Cells : After(g, x) = Below(g, x) => After(g, x) = nilCell BY ShapeFacts
  <2>7. g[nilCell].type = "nil" /\ g[trueCell].type = "true" BY <1>2, Special
  <2> QED BY <1>13, <1>14, <2>1, <2>2, <2>3, <2>4, <2>5, <2>6, <2>7, MakeShape
<1>16. ASSUME NEW x \in Alive(h), NEW e, EndOf(h, x, e), e # z PROVE EndOf(g, x, e)
  <2>1. Ranked(h) /\ x \in Cells /\ Below(h, x) \in Cells BY ShapeFacts, KidsType
  <2>2. e \in Cells BY <1>16, <2>1, ListAfter DEF EndOf
  <2>3. After(g, e) = nilCell BY <1>16, <2>2 DEF EndOf
  <2>4. p \notin List(h, Below(h, x))
    <3>1. SUFFICES ASSUME p \in List(h, Below(h, x)) PROVE FALSE OBVIOUS
    <3>2. z \in List(h, Below(h, x)) BY <2>1, <3>1, ListAfter
    <3>3. EndOf(h, x, z) BY <3>2 DEF EndOf
    <3> QED BY <1>16, <2>1, <3>3, EndOne
  <2>5. \A y \in List(h, Below(h, x)) : After(g, y) = After(h, y) BY <2>1, <2>4, ListAfter
  <2>6. List(g, Below(h, x)) = List(h, Below(h, x)) BY <1>14, <2>1, <2>5, ListSame
  <2> QED BY <1>16, <2>1, <2>3, <2>6 DEF EndOf
<1>17. ASSUME NEW x \in Alive(h), EndOf(h, x, z), p \in List(h, Below(h, x)) PROVE EndOf(g, x, p)
  <2>1. Ranked(h) /\ x \in Cells BY ShapeFacts
  <2>2. PICK b \in Cells : b = Below(h, x) BY <2>1, KidsType
  <2> DEFINE K == Nexts(h)
             L == Nexts(g)
  <2>3. /\ K \in [Cells -> SUBSET Cells] /\ L \in [Cells -> SUBSET Cells]
        /\ \A y \in Cells : K[y] = {After(h, y)} \ {nilCell} /\ L[y] = {After(g, y)} \ {nilCell}
    BY <1>14, <2>1, KidsType
  <2>4. b # nilCell /\ p \in Reach(K, b) BY <1>17, <2>2 DEF List
  <2> HIDE DEF K, L
  <2>5. b \in Reach(L, b) /\ Sealed(L, Reach(L, b)) /\ Reach(L, b) \subseteq Cells
    BY <2>3, ReachSealed
  <2>6. ASSUME NEW y \in Reach(L, b) \cup {z} PROVE K[y] \subseteq Reach(L, b) \cup {z}
    <3>1. y \in Cells BY <1>3, <2>5, <2>6
    <3>2. CASE y = z BY <1>3, <2>3, <3>2
    <3>3. CASE y = p BY <1>2, <2>3, <3>3
    <3>4. CASE y \in Reach(L, b) /\ y # p
      <4>1. After(g, y) = After(h, y) BY <1>14, <3>1, <3>4
      <4>2. K[y] = {After(h, y)} \ {nilCell} /\ L[y] = {After(g, y)} \ {nilCell} BY <2>3, <3>1
      <4>3. K[y] = L[y] BY ONLY <4>1, <4>2
      <4> QED BY <2>5, <3>4, <4>3 DEF Sealed
    <3> QED BY <2>6, <3>2, <3>3, <3>4
  <2>7. Sealed(K, Reach(L, b) \cup {z}) BY <2>6 DEF Sealed
  <2>8. Reach(L, b) \cup {z} \in SUBSET Cells BY <1>3, <2>5
  <2>9. Reach(K, b) \subseteq Reach(L, b) \cup {z} BY <2>3, <2>5, <2>7, <2>8, ReachSealed
  <2>10. p # z
    <3>1. z # After(h, z) OBVIOUS
    <3> QED BY <3>1
  <2>11. p \in List(g, b) BY <2>4, <2>9, <2>10 DEF List, L
  <2> QED BY <1>2, <2>1, <2>2, <2>11 DEF EndOf
<1> QED BY <1>3, <1>15, <1>16, <1>17 DEF TookLast

\* A root c and its tree are freed.
LEMMA Drop ==
  ASSUME NEW h, NEW R, Shape(h, R), NEW c \in R,
         NEW g \in Heaps,
         \A x \in Cells : IF x \in Tree(h, c) THEN g[x].type = "free" ELSE g[x] = h[x]
  PROVE  /\ Shape(g, R \ {c}) /\ Alive(g) = Alive(h) \ Tree(h, c)
         /\ \A x \in Alive(g) : \A e : EndOf(h, x, e) => EndOf(g, x, e)
<1> DEFINE T == Tree(h, c)
<1>1. c \in Alive(h) /\ c \in T /\ T \subseteq Alive(h) /\ (\A x \in T : Links(h, x) \subseteq T)
      /\ \A y \in T \ {c} : \E x \in T : y \in Links(h, x) BY ShapeFacts, TreeFacts
<1>2. Alive(g) = Alive(h) \ T
  <2>1. ASSUME NEW x \in Cells PROVE x \in Alive(g) <=> x \in Alive(h) \ T BY DEF Alive
  <2> QED BY <2>1 DEF Alive
<1>3. nilCell \notin T /\ trueCell \notin T BY <1>1 DEF Alive, Permanent
<1>4. \A x \in Cells : /\ After(g, x) = IF x \in T THEN nilCell ELSE After(h, x)
                       /\ Below(g, x) = IF x \in T THEN nilCell ELSE Below(h, x)
  BY DEF After, Below
<1>5. \A x \in Cells \ T : \A y \in Links(h, x) : y \notin T
  <2>1. ASSUME NEW x \in Cells \ T, NEW y \in Links(h, x), y \in T PROVE FALSE
    <3>1. y # c
      <4>1. c # nilCell BY <1>3, <1>1
      <4>2. After(h, x) # c /\ Below(h, x) # c BY <4>1, ShapeFacts
      <4> QED BY <4>2 DEF Links
    <3>2. PICK v \in T : y \in Links(h, v) BY <1>1, <2>1, <3>1
    <3>3. v = x BY <1>1, <3>2, ShapeFacts DEF OneOwner
    <3> QED BY <3>3
  <2> QED BY <2>1
<1>6. Ranked(g)
  <2>n. PICK N \in Nat : \E rank : Falling(h, N, rank) BY ShapeFacts DEF Ranked
  <2>1. PICK rank : Falling(h, N, rank) BY <2>n
  <2>2. /\ rank \in [Cells -> 0..N] /\ rank[nilCell] = 0
        /\ \A x \in Cells : After(h, x) \in Cells /\ Below(h, x) \in Cells
        /\ After(h, nilCell) = nilCell /\ Below(h, nilCell) = nilCell
        /\ \A x \in Cells \ {nilCell} : rank[After(h, x)] < rank[x] /\ rank[Below(h, x)] < rank[x]
    BY <2>1 DEF Falling
  <2>3. ASSUME NEW x \in Cells \ {nilCell}
        PROVE rank[After(g, x)] < rank[x] /\ rank[Below(g, x)] < rank[x]
    <3>1. PICK u \in Cells, v \in Cells : /\ u = After(h, x) /\ v = Below(h, x)
                                          /\ rank[u] < rank[x] /\ rank[v] < rank[x] BY <2>2
    <3>2. rank[u] \in Nat /\ rank[v] \in Nat /\ rank[x] \in Nat BY <2>2
    <3>3. After(g, x) \in {nilCell, u} /\ Below(g, x) \in {nilCell, v} BY <1>4, <3>1
    <3> QED BY <2>2, <3>1, <3>2, <3>3
  <2>4. \A x \in Cells : After(g, x) \in Cells /\ Below(g, x) \in Cells BY <1>4, <2>2, Special
  <2>5. After(g, nilCell) = nilCell /\ Below(g, nilCell) = nilCell BY <1>3, <1>4, <2>2, Special
  <2> QED BY <2>2, <2>3, <2>4, <2>5, MakeRanked
<1>7. OneOwner(g)
  <2>1. \A x \in Cells : Links(g, x) \subseteq Links(h, x) BY <1>4 DEF Links
  <2> QED BY <2>1, ShapeFacts DEF OneOwner
<1>8. Shape(g, R \ {c})
  <2>1. R \ {c} \subseteq Alive(g)
    <3>1. ASSUME NEW r \in R \ {c} PROVE r \in Alive(h) \ T BY <1>1, RootTree, ShapeFacts
    <3> QED BY <1>2, <3>1
  <2>2. ASSUME NEW x \in Cells
        PROVE /\ After(g, x) \in (Alive(g) \ (R \ {c})) \cup {nilCell}
              /\ Below(g, x) \in (Alive(g) \ (R \ {c})) \cup {nilCell}
    <3>1. CASE x \in T BY <1>4, <3>1
    <3>2. CASE x \notin T
      <4>1. After(h, x) \in (Alive(h) \ R) \cup {nilCell} /\ Below(h, x) \in (Alive(h) \ R) \cup {nilCell}
        BY ShapeFacts
      <4>2. (After(h, x) # nilCell => After(h, x) \notin T) /\ (Below(h, x) # nilCell => Below(h, x) \notin T)
        BY <1>5, <3>2 DEF Links
      <4> QED BY <1>2, <1>4, <3>2, <4>1, <4>2
    <3> QED BY <3>1, <3>2
  <2>3. After(g, trueCell) = nilCell BY <1>3, <1>4, Special DEF Shape
  <2>4. \A r \in R \ {c} : After(g, r) = nilCell BY <1>4, ShapeFacts
  <2>5. ASSUME NEW y \in Alive(g) \ (R \ {c})
        PROVE \E x \in Alive(g) : y \in {After(g, x), Below(g, x)}
    <3>1. y \in Alive(h) \ R /\ y \notin T BY <1>1, <1>2, <2>5
    <3>2. PICK x \in Alive(h) : y \in {After(h, x), Below(h, x)} BY <3>1, ShapeFacts
    <3>3. y # nilCell /\ x \in Cells BY <3>1, ShapeFacts
    <3>4. x \notin T BY <1>1, <3>1, <3>2, <3>3 DEF Links
    <3> QED BY <1>2, <1>4, <3>2, <3>3, <3>4
  <2>6. \A x \in Cells : After(g, x) = Below(g, x) => After(g, x) = nilCell BY <1>4, ShapeFacts
  <2>7. g[nilCell].type = "nil" /\ g[trueCell].type = "true" BY <1>3, Special DEF Shape
  <2> QED BY <1>6, <1>7, <2>1, <2>2, <2>3, <2>4, <2>5, <2>6, <2>7, MakeShape
<1>9. ASSUME NEW x \in Alive(g), NEW e, EndOf(h, x, e) PROVE EndOf(g, x, e)
  <2>1. Ranked(h) /\ x \in Cells /\ x \in Alive(h) \ T /\ Below(h, x) \in Cells
    BY <1>2, ShapeFacts, KidsType
  <2>2. PICK b \in Cells : b = Below(h, x) BY <2>1
  <2>3. b # nilCell BY <1>9, <2>2 DEF EndOf, List
  <2>4. b \notin T BY <1>5, <2>1, <2>2, <2>3 DEF Links
  <2>5. ASSUME NEW y \in List(h, b) PROVE y \notin T
    <3>1. Nexts(h) \in [Cells -> SUBSET Cells]
          /\ \A z \in Cells : Nexts(h)[z] = {After(h, z)} \ {nilCell} BY <2>1, KidsType
    <3>2. Sealed(Nexts(h), Cells \ T) BY <1>5, <2>1, <3>1, KidsType DEF Sealed, Links
    <3>3. Cells \ T \in SUBSET Cells /\ b \in Cells \ T BY <2>4
    <3>4. Reach(Nexts(h), b) \subseteq Cells \ T BY <3>1, <3>2, <3>3, ReachSealed
    <3> QED BY <2>3, <3>4, <2>5 DEF List
  <2>6. \A y \in List(h, b) : y \in Cells /\ After(g, y) = After(h, y)
    BY <1>4, <2>1, <2>5, ListAfter
  <2>7. List(g, b) = List(h, b) BY <1>6, <2>1, <2>6, ListSame
  <2>8. Below(g, x) = b BY <1>4, <2>1, <2>2
  <2>9. After(g, e) = nilCell BY <1>9, <2>2, <2>6 DEF EndOf
  <2> QED BY <1>9, <2>2, <2>7, <2>8, <2>9 DEF EndOf
<1> QED BY <1>2, <1>8, <1>9

\* Cells come into use that lead nowhere.
LEMMA Grow ==
  ASSUME NEW h, NEW R, Shape(h, R), NEW g \in Heaps, NEW A,
         Alive(g) = Alive(h) \cup A, A \cap Alive(h) = {},
         g[nilCell].type = "nil", g[trueCell].type = "true",
         \A x \in Cells : After(g, x) = After(h, x) /\ Below(g, x) = Below(h, x)
  PROVE  /\ Shape(g, R \cup A)
         /\ \A x \in Alive(h) : \A e : EndOf(h, x, e) => EndOf(g, x, e)
<1>1. \A x \in A : x \in Cells /\ x \notin Permanent /\ x # nilCell /\ x \notin Alive(h)
  BY DEF Alive, Permanent
<1>2. \A x \in A : After(h, x) = nilCell /\ Below(h, x) = nilCell BY <1>1, Fields, ShapeFacts
<1>3. Ranked(g)
  <2>n. PICK N \in Nat : \E rank : Falling(h, N, rank) BY ShapeFacts DEF Ranked
  <2>1. PICK rank : Falling(h, N, rank) BY <2>n
  <2>2. Falling(g, N, rank) BY <2>1, Special DEF Falling
  <2> QED BY <2>2 DEF Ranked
<1>4. OneOwner(g) BY ShapeFacts DEF OneOwner, Links
<1>5. Shape(g, R \cup A)
  <2>1. R \cup A \subseteq Alive(g) BY ShapeFacts
  <2>2. \A x \in Cells : /\ After(g, x) \in (Alive(g) \ (R \cup A)) \cup {nilCell}
                         /\ Below(g, x) \in (Alive(g) \ (R \cup A)) \cup {nilCell}
    BY <1>1, ShapeFacts
  <2>3. After(g, trueCell) = nilCell BY Special DEF Shape
  <2>4. \A r \in R \cup A : After(g, r) = nilCell BY <1>1, <1>2, ShapeFacts
  <2>5. \A y \in Alive(g) \ (R \cup A) : \E x \in Alive(g) : y \in {After(g, x), Below(g, x)}
    BY ShapeFacts
  <2>6. \A x \in Cells : After(g, x) = Below(g, x) => After(g, x) = nilCell BY ShapeFacts
  <2> QED BY <1>3, <1>4, <2>1, <2>2, <2>3, <2>4, <2>5, <2>6, MakeShape
<1>6. ASSUME NEW x \in Alive(h), NEW e, EndOf(h, x, e) PROVE EndOf(g, x, e)
  <2>1. Ranked(h) /\ x \in Cells /\ Below(h, x) \in Cells BY ShapeFacts, KidsType
  <2>2. \A y \in List(h, Below(h, x)) : y \in Cells /\ After(g, y) = After(h, y)
    BY <2>1, ListAfter
  <2>3. List(g, Below(h, x)) = List(h, Below(h, x)) BY <1>3, <2>1, <2>2, ListSame
  <2> QED BY <1>6, <2>1, <2>2, <2>3 DEF EndOf
<1> QED BY <1>5, <1>6

(* Memories. *)

Memories == [heap : Heaps, free : Cells \cup {NULL}, blocks : Seq(1..MaxBlocks),
             process : {"runs", "exited", "crashed"}]

\* s is the list of free cells, from the first on.
FreedAs(m, s) ==
  /\ Lists(s, {x \in Cells : m.heap[x].type = "free"})
  /\ m.free = IF s = <<>> THEN NULL ELSE s[1]
  /\ \A i \in 1..Len(s) : m.heap[s[i]].next = IF i = Len(s) THEN NULL ELSE s[i + 1]
Blocked(m) ==
  /\ \A i, j \in 1..Len(m.blocks) : m.blocks[i] = m.blocks[j] => i = j
  /\ \A x \in Cells : m.heap[x].type = "unmapped" <=> x[1] \notin Range(m.blocks)
Tidy(m, R) == /\ m \in Memories /\ Owned(m.heap, R) /\ Blocked(m)
              /\ \E s : FreedAs(m, s)

\* What stays of the cells of A, and of where their lists end.
Keeps(h, g, A) == \A x \in A : /\ x \in Alive(h) /\ x \in Alive(g) /\ g[x] = h[x]
                               /\ \A e : EndOf(h, x, e) => EndOf(g, x, e)

\* Sequences and their lengths.
LEMMA SeqLen ==
  ASSUME NEW S, NEW s \in Seq(S)
  PROVE  /\ Len(s) \in Nat /\ DOMAIN s = 1..Len(s) /\ (Len(s) = 0 <=> s = <<>>)
         /\ \A i \in 1..Len(s) : s[i] \in S
         /\ s # <<>> => Head(s) = s[1] /\ s[1] \in S /\ 1 \in 1..Len(s) OBVIOUS

\* The fields of a memory.
LEMMA MemoryParts ==
  ASSUME NEW m \in Memories
  PROVE  /\ m.heap \in Heaps /\ m.free \in Cells \cup {NULL} /\ m.blocks \in Seq(1..MaxBlocks)
         /\ m.process \in {"runs", "exited", "crashed"}
         /\ m.heap \in [Cells -> [type : Types, next : Cells \cup {NULL}, aux : Cells, contents : Cells]]
  BY DEF Memories, Heaps

\* Linking the cells of a sequence changes these only.
LEMMA LinkedFacts ==
  ASSUME NEW h \in Heaps, NEW s, NEW A, Lists(s, A), NEW c \in Cells \cup {NULL}
  PROVE  /\ Linked(h, s, c) \in Heaps /\ A \subseteq Cells
         /\ \A x \in Cells \ A : Linked(h, s, c)[x] = h[x]
         /\ \A x \in A : Linked(h, s, c)[x].type = "free"
         /\ \A i \in 1..Len(s) : Linked(h, s, c)[s[i]].next = IF i = Len(s) THEN c ELSE s[i + 1]
<1>1. /\ s \in Seq(Cells) /\ DOMAIN s = 1..Len(s)
      /\ \A i, j \in 1..Len(s) : s[i] = s[j] => i = j
      /\ \A y : y \in A <=> \E i \in 1..Len(s) : s[i] = y BY DEF Lists
<1>2. A \subseteq Cells BY <1>1
<1>3. PICK n \in Nat : n = Len(s) BY <1>1, SeqLen
<1>4. \A i \in 1..n : s[i] \in Cells BY <1>1, <1>3
<1> DEFINE g == Linked(h, s, c)
<1>5. ASSUME NEW i \in 1..n
      PROVE g[s[i]] = FreeCell(IF i = n THEN c ELSE s[i + 1])
  <2>1. s[i] \in Cells /\ \E j \in DOMAIN s : s[j] = s[i] BY <1>1, <1>3, <1>4
  <2>2. (CHOOSE j \in DOMAIN s : s[j] = s[i]) = i
    <3>1. PICK j : j = CHOOSE k \in DOMAIN s : s[k] = s[i] OBVIOUS
    <3>2. j \in DOMAIN s /\ s[j] = s[i] BY <2>1, <3>1
    <3> QED BY <1>1, <1>3, <3>1, <3>2
  <2> QED BY <1>3, <2>1, <2>2 DEF Linked
<1>6. \A x \in Cells \ A : g[x] = h[x] BY <1>1 DEF Linked
<1>7. ASSUME NEW i \in 1..n
      PROVE /\ FreeCell(IF i = n THEN c ELSE s[i + 1]) \in
                 [type : Types, next : Cells \cup {NULL}, aux : Cells, contents : Cells]
            /\ g[s[i]].type = "free" /\ g[s[i]].contents = nilCell
            /\ g[s[i]].next = IF i = n THEN c ELSE s[i + 1]
  <2>1. PICK d : d = IF i = n THEN c ELSE s[i + 1] OBVIOUS
  <2>2. d \in Cells \cup {NULL}
    <3>1. CASE i = n BY <2>1, <3>1
    <3>2. CASE i # n
      <4>1. i + 1 \in 1..n BY <3>2
      <4> QED BY <1>4, <2>1, <3>2, <4>1
    <3> QED BY <3>1, <3>2
  <2>3. FreeCell(d) \in [type : Types, next : Cells \cup {NULL}, aux : Cells, contents : Cells]
        /\ FreeCell(d).type = "free" /\ FreeCell(d).contents = nilCell /\ FreeCell(d).next = d
    BY <2>2, Special DEF FreeCell, Cell, Types
  <2> QED BY <1>5, <2>1, <2>3
<1>8. g \in Heaps
  <2>1. ASSUME NEW x \in Cells
        PROVE /\ g[x] \in [type : Types, next : Cells \cup {NULL}, aux : Cells, contents : Cells]
              /\ g[x].type # "list" => g[x].contents = nilCell
    <3>1. CASE x \in A
      <4>1. PICK i \in 1..n : x = s[i] BY <1>1, <1>3, <3>1
      <4> QED BY <1>5, <1>7, <4>1
    <3>2. CASE x \notin A BY <1>6, <3>2 DEF Heaps
    <3> QED BY <3>1, <3>2
  <2>2. \E f : g = [x \in Cells |-> f[x]] BY DEF Linked
  <2> HIDE DEF g
  <2> QED BY <2>1, <2>2 DEF Heaps
<1>9. ASSUME NEW x \in A PROVE g[x].type = "free"
  <2>1. PICK i \in 1..n : x = s[i] BY <1>1, <1>3, <1>9
  <2>2. g[s[i]].type = "free" BY <1>7
  <2> HIDE DEF g
  <2> QED BY <2>1, <2>2
<1> QED BY <1>2, <1>3, <1>6, <1>7, <1>8, <1>9

\* deleteList of a root, or of a cell that is never freed.
LEMMA DeleteTidy ==
  ASSUME NEW m, NEW R, Tidy(m, R), NEW c \in R \cup Permanent
  PROVE  /\ Tidy(DeleteList(m, c), R \ {c})
         /\ DeleteList(m, c).process = m.process /\ DeleteList(m, c).blocks = m.blocks
         /\ Keeps(m.heap, DeleteList(m, c).heap, Alive(DeleteList(m, c).heap))
         /\ \A x \in Alive(m.heap) : c \in Permanent \/ x \notin Tree(m.heap, c)
                                     => x \in Alive(DeleteList(m, c).heap)
<1> DEFINE h == m.heap
<1>1. m \in Memories /\ Owned(h, R) /\ Shape(h, R) /\ Lasts(h) /\ Blocked(m) BY DEF Tidy, Owned
<1>2. h \in Heaps /\ Treelike(h) /\ Ranked(h) BY <1>1, ShapeFacts
<1>3. R \subseteq Alive(h) /\ Alive(h) \subseteq Cells BY <1>1, ShapeFacts
<1>4. c \in Cells BY <1>3, Special DEF Permanent
<1>5. PICK s : /\ Lists(s, Tree(h, c) \ {trueCell})
               /\ DeleteList(m, c) = IF s = <<>> THEN m
                     ELSE [m EXCEPT !.heap = Linked(h, s, m.free), !.free = Head(s)]
  BY <1>2, <1>4, DeleteFacts
<1>6. PICK t : FreedAs(m, t) BY DEF Tidy
<1>7. CASE c \in Permanent
  <2>1. Tree(h, c) \ {trueCell} = {}
    <3>1. CASE c = nilCell BY <3>1 DEF Tree
    <3>2. CASE c = trueCell
      <4>1. h[trueCell].type = "true" /\ After(h, trueCell) = nilCell BY <1>1 DEF Shape
      <4>2. Below(h, trueCell) = nilCell BY <4>1 DEF Below
      <4>3. Tree(h, trueCell) = {trueCell} \cup Tree(h, nilCell) \cup Tree(h, nilCell)
        BY <1>2, <4>1, <4>2, TreeParts, Special
      <4> QED BY <3>2, <4>3 DEF Tree
    <3> QED BY <1>7, <3>1, <3>2 DEF Permanent
  <2>2. s = <<>>
    <3>1. Lists(s, {}) BY <1>5, <2>1
    <3>2. s \in Seq(Cells) /\ \A i \in 1..Len(s) : FALSE BY <3>1 DEF Lists
    <3>3. Len(s) \in Nat /\ (Len(s) = 0 <=> s = <<>>) BY <3>2, SeqLen
    <3>4. Len(s) = 0 BY <3>2, <3>3
    <3> QED BY <3>3, <3>4
  <2>3. DeleteList(m, c) = m BY <1>5, <2>2
  <2>4. R \ {c} = R BY <1>3, <1>7 DEF Alive
  <2> QED BY <2>3, <2>4 DEF Keeps
<1>8. CASE c \notin Permanent
  <2>1. c \in R /\ c \in Alive(h) BY <1>3, <1>8
  <2> DEFINE T == Tree(h, c)
             g == Linked(h, s, m.free)
             F == {x \in Cells : h[x].type = "free"}
             m2 == DeleteList(m, c)
  <2>2. c \in T /\ T \subseteq Alive(h) BY <1>1, <2>1, TreeFacts
  <2>3. T \ {trueCell} = T BY <2>2 DEF Alive, Permanent
  <2>4. Lists(s, T) BY <1>5, <2>3
  <2>5. s # <<>> /\ s \in Seq(Cells) BY <2>2, <2>4 DEF Lists
  <2>6. m.free \in Cells \cup {NULL} BY <1>1, MemoryParts
  <2>7. /\ g \in Heaps /\ \A x \in Cells \ T : g[x] = h[x]
        /\ \A x \in T : g[x].type = "free"
        /\ \A i \in 1..Len(s) : g[s[i]].next = IF i = Len(s) THEN m.free ELSE s[i + 1]
    BY <1>2, <2>4, <2>6, LinkedFacts
  <2>8. m2 = [m EXCEPT !.heap = g, !.free = Head(s)] BY <1>5, <2>5
  <2>9. /\ m2.heap = g /\ m2.free = s[1] /\ m2.blocks = m.blocks /\ m2.process = m.process
        /\ m2 \in Memories
    <3>1. Head(s) = s[1] /\ s[1] \in Cells BY <2>5
    <3> HIDE DEF g, m2
    <3> QED BY <1>1, <2>7, <2>8, <3>1 DEF Memories
  <2>10. Shape(g, R \ {c}) /\ Alive(g) = Alive(h) \ T
         /\ \A x \in Alive(g) : \A e : EndOf(h, x, e) => EndOf(g, x, e)
    <3>1. \A x \in Cells : IF x \in Tree(h, c) THEN g[x].type = "free" ELSE g[x] = h[x] BY <2>7
    <3> HIDE DEF g
    <3> QED BY <1>1, <2>1, <2>7, <3>1, Drop
  <2>11. \A x \in Alive(g) : x \in Alive(h) /\ x \in Cells /\ g[x] = h[x] BY <1>3, <2>7, <2>10
  <2>12. Lasts(g) BY <1>1, <2>10, <2>11 DEF Lasts
  <2>13. Blocked(m2)
    <3>1. \A x \in T : h[x].type # "unmapped" BY <2>2 DEF Alive
    <3>2. \A x \in Cells : g[x].type = "unmapped" <=> h[x].type = "unmapped" BY <2>7, <3>1
    <3> HIDE DEF g, m2
    <3> QED BY <1>1, <2>9, <3>2 DEF Blocked
  <2>14. FreedAs(m2, s \o t)
    <3>1. Lists(t, F) /\ m.free = (IF t = <<>> THEN NULL ELSE t[1])
          /\ \A i \in 1..Len(t) : h[t[i]].next = IF i = Len(t) THEN NULL ELSE t[i + 1]
      BY <1>6 DEF FreedAs
    <3>2. T \cap F = {} BY <2>2 DEF Alive
    <3>3. Lists(s \o t, T \cup F) BY <2>4, <3>1, <3>2, ListsJoin
    <3>4. T \cup F = {x \in Cells : g[x].type = "free"} BY <1>3, <2>2, <2>7
    <3>5. PICK j \in Nat, k \in Nat : j = Len(s) /\ k = Len(t) BY <2>5, <3>1 DEF Lists
    <3>6. t \in Seq(Cells) BY <3>1 DEF Lists
    <3>7. PICK r : r = s \o t OBVIOUS
    <3>8. /\ r \in Seq(Cells) /\ Len(r) = j + k /\ j > 0 /\ r[1] = s[1] /\ r # <<>>
          /\ \A i \in 1..j : r[i] = s[i]
          /\ \A i \in 1..k : r[j + i] = t[i] BY <2>5, <3>5, <3>6, <3>7
    <3>9. ASSUME NEW i \in 1..j + k
          PROVE g[r[i]].next = IF i = j + k THEN NULL ELSE r[i + 1]
      <4>1. CASE i <= j
        <5>1. i \in 1..j BY <4>1
        <5>2. r[i] = s[i] /\ g[s[i]].next = IF i = j THEN m.free ELSE s[i + 1]
          BY <2>7, <3>5, <3>8, <5>1
        <5>3. CASE i # j
          <6>1. i + 1 \in 1..j /\ i # j + k BY <5>1, <5>3
          <6> QED BY <3>8, <5>2, <5>3, <6>1
        <5>4. CASE i = j /\ k = 0
          <6>1. t = <<>> BY <3>5, <3>6, <5>4, SeqLen
          <6> QED BY <3>1, <5>2, <5>4, <6>1
        <5>5. CASE i = j /\ k # 0
          <6>1. t # <<>> /\ 1 \in 1..k /\ i # j + k BY <3>5, <3>6, <5>5
          <6>2. r[j + 1] = t[1] BY <3>8, <6>1
          <6> QED BY <3>1, <5>2, <5>5, <6>1, <6>2
        <5> QED BY <5>3, <5>4, <5>5
      <4>2. CASE ~(i <= j)
        <5>1. PICK q \in 1..k : i = j + q
          <6>1. i - j \in 1..k /\ i = j + (i - j) BY <4>2
          <6> QED BY <6>1
        <5>2. r[i] = t[q] /\ t[q] \in F BY <3>1, <3>5, <3>8, <5>1 DEF Lists
        <5>3. g[t[q]] = h[t[q]] BY <2>7, <3>2, <5>2
        <5>4. h[t[q]].next = IF q = k THEN NULL ELSE t[q + 1] BY <3>1, <3>5, <5>1
        <5>5. q # k => q + 1 \in 1..k /\ j + (q + 1) = i + 1 BY <5>1
        <5>6. q # k => r[i + 1] = t[q + 1] BY <3>8, <5>5
        <5>7. i = j + k <=> q = k BY <5>1
        <5> QED BY <5>2, <5>3, <5>4, <5>6, <5>7
      <4> QED BY <4>1, <4>2
    <3>10. m2.free = IF r = <<>> THEN NULL ELSE r[1] BY <2>9, <3>8
    <3> HIDE DEF g, m2
    <3> QED BY <2>9, <3>3, <3>4, <3>7, <3>8, <3>9, <3>10 DEF FreedAs
  <2>15. Tidy(m2, R \ {c}) BY <2>9, <2>10, <2>12, <2>13, <2>14 DEF Tidy, Owned
  <2>16. Keeps(h, g, Alive(g)) BY <2>10, <2>11 DEF Keeps
  <2>17. \A x \in Alive(h) : x \notin T => x \in Alive(g) BY <2>10
  <2> QED BY <1>8, <2>9, <2>15, <2>16, <2>17
<1> QED BY <1>7, <1>8

\* A sequence without its first element.
LEMMA ListsTail ==
  ASSUME NEW s, NEW A, Lists(s, A), s # <<>>
  PROVE  /\ Lists(Tail(s), A \ {s[1]}) /\ s[1] \in A /\ Len(s) \in Nat \ {0}
         /\ Len(Tail(s)) = Len(s) - 1 /\ \A i \in 1..Len(s) - 1 : Tail(s)[i] = s[i + 1]
<1>1. s \in Seq(Cells) /\ (\A i, j \in 1..Len(s) : s[i] = s[j] => i = j)
      /\ \A y : y \in A <=> \E i \in 1..Len(s) : s[i] = y BY DEF Lists
<1>2. PICK n \in Nat : n = Len(s) BY <1>1, SeqLen
<1>3. n # 0 /\ 1 \in 1..n BY <1>1, <1>2, SeqLen
<1>4. PICK t : t = Tail(s) OBVIOUS
<1>5. t \in Seq(Cells) /\ Len(t) = n - 1 /\ \A i \in 1..n - 1 : t[i] = s[i + 1]
  BY <1>1, <1>2, <1>3, <1>4
<1>6. \A i \in 1..n - 1 : i + 1 \in 1..n /\ i + 1 # 1 BY <1>3
<1>7. ASSUME NEW i \in 1..n - 1, NEW j \in 1..n - 1, t[i] = t[j] PROVE i = j
  <2>1. s[i + 1] = s[j + 1] BY <1>5, <1>7
  <2>2. i + 1 = j + 1 BY <1>1, <1>2, <1>6, <2>1
  <2> QED BY <2>2
<1>8. ASSUME NEW y PROVE y \in A \ {s[1]} <=> \E i \in 1..n - 1 : t[i] = y
  <2>1. ASSUME y \in A \ {s[1]} PROVE \E i \in 1..n - 1 : t[i] = y
    <3>1. PICK k \in 1..n : s[k] = y BY <1>1, <1>2, <2>1
    <3>2. k # 1 BY <2>1, <3>1
    <3>3. PICK i \in 1..n - 1 : k = i + 1
      <4>1. k - 1 \in 1..n - 1 /\ k = (k - 1) + 1 BY <3>2
      <4> QED BY <4>1
    <3> QED BY <1>5, <3>1, <3>3
  <2>2. ASSUME NEW i \in 1..n - 1, t[i] = y PROVE y \in A \ {s[1]}
    <3>1. s[i + 1] = y /\ i + 1 \in 1..n /\ i + 1 # 1 BY <1>5, <1>6, <2>2
    <3> QED BY <1>1, <1>2, <1>3, <3>1
  <2> QED BY <2>1, <2>2
<1>9. s[1] \in A BY <1>1, <1>2, <1>3
<1>10. Lists(t, A \ {s[1]}) BY <1>5, <1>7, <1>8 DEF Lists
<1> QED BY <1>2, <1>3, <1>4, <1>5, <1>9, <1>10

\* A set of numbers in use has a least one.
LEMMA MinFacts ==
  ASSUME NEW S \in SUBSET Nat, S # {}
  PROVE  Min(S) \in S /\ \A k \in S : Min(S) <= k
<1>1. \E x \in S : \A y \in S : x <= y BY Least
<1>2. \E x \in S : \A y \in S : ~ (x > y)
  <2>1. PICK x \in S : \A y \in S : x <= y BY <1>1
  <2> QED BY <2>1
<1> QED BY <1>1, <1>2 DEF Min

\* Heaps that agree on the links and on what is in use have the same shape.
LEMMA SameShape ==
  ASSUME NEW h, NEW R, Shape(h, R), Lasts(h), NEW g \in Heaps, Alive(g) = Alive(h),
         g[nilCell].type = "nil", g[trueCell].type = "true",
         \A x \in Alive(h) : g[x] = h[x],
         \A x \in Cells : After(g, x) = After(h, x) /\ Below(g, x) = Below(h, x)
  PROVE  Owned(g, R) /\ Keeps(h, g, Alive(h))
<1>1. Alive(g) = Alive(h) \cup {} /\ {} \cap Alive(h) = {} /\ R \cup {} = R OBVIOUS
<1>2. PICK A : A = {} OBVIOUS
<1>3. Shape(g, R \cup A) /\ \A x \in Alive(h) : \A e : EndOf(h, x, e) => EndOf(g, x, e)
  BY <1>1, <1>2, Grow
<1>4. Lasts(g) BY <1>3 DEF Lasts
<1> QED BY <1>2, <1>3, <1>4 DEF Owned, Keeps

\* allocBlock, when there is no free cell.
LEMMA AllocTidy ==
  ASSUME NEW m, NEW R, Tidy(m, R), m.free = NULL, NEW m2, m2 = AllocBlock(m)
  PROVE  /\ Tidy(m2, R) /\ Alive(m2.heap) = Alive(m.heap)
         /\ Keeps(m.heap, m2.heap, Alive(m.heap))
         /\ m2.process = "exited" \/ (m2.process = m.process /\ m2.free # NULL)
<1> DEFINE h == m.heap
           b == Min(Unused(m))
<1>1. m \in Memories /\ Owned(h, R) /\ Shape(h, R) /\ Lasts(h) /\ Blocked(m) BY DEF Tidy, Owned
<1>2. h \in Heaps BY <1>1, ShapeFacts
<1>3. PICK t : FreedAs(m, t) BY DEF Tidy
<1>4. CASE Unused(m) = {}
  <2>1. m2 = [m EXCEPT !.process = "exited"] BY <1>4 DEF AllocBlock
  <2>2. /\ m2.heap = h /\ m2.free = m.free /\ m2.blocks = m.blocks /\ m2.process = "exited"
        /\ m2 \in Memories BY <1>1, <2>1 DEF Memories
  <2>3. Blocked(m2) /\ FreedAs(m2, t) BY <1>1, <1>3, <2>2 DEF Blocked, FreedAs
  <2>4. Keeps(h, h, Alive(h)) BY DEF Keeps
  <2> QED BY <1>1, <2>2, <2>3, <2>4 DEF Tidy
<1>5. CASE Unused(m) # {}
  <2>1. Unused(m) \subseteq 1..MaxBlocks /\ Unused(m) \subseteq Nat
        /\ Unused(m) \cap Range(m.blocks) = {} BY HeapAssumption DEF Unused
  <2>2. b \in 1..MaxBlocks /\ b \notin Range(m.blocks) BY <1>5, <2>1, MinFacts
  <2> HIDE DEF b
  <2>3. PICK s : s = Block(b) OBVIOUS
  <2> DEFINE A == {b} \X (1..BlockSize)
  <2>4. Lists(s, A) /\ Len(s) = BlockSize /\ s[1] = <<b, 1>> /\ s # <<>> /\ <<b, 1>> \in Cells
    <3>1. BlockSize \in Nat /\ 1 \in 1..BlockSize BY HeapAssumption
    <3>2. /\ \A i \in 1..BlockSize : s[i] = <<b, i>> /\ <<b, i>> \in Cells
          /\ s = [i \in 1..BlockSize |-> <<b, i>>] BY <2>2, <2>3 DEF Block, Cells
    <3>3. s \in Seq(Cells) /\ Len(s) = BlockSize BY <3>1, <3>2
    <3>4. \A y : y \in A <=> \E i \in 1..BlockSize : s[i] = y BY <3>2
    <3>5. s # <<>>
      <4>1. Len(<<>>) = 0 OBVIOUS
      <4> QED BY <3>1, <3>3, <4>1
    <3> QED BY <3>1, <3>2, <3>3, <3>4, <3>5 DEF Lists
  <2> DEFINE g == Linked(h, s, NULL)
  <2>5. /\ g \in Heaps /\ A \subseteq Cells /\ \A x \in Cells \ A : g[x] = h[x]
        /\ \A x \in A : g[x].type = "free"
        /\ \A i \in 1..Len(s) : g[s[i]].next = IF i = Len(s) THEN NULL ELSE s[i + 1]
    <3>1. NULL \in Cells \cup {NULL} OBVIOUS
    <3> HIDE DEF A
    <3> QED BY <1>2, <2>4, <3>1, LinkedFacts
  <2>6. m2 = [m EXCEPT !.blocks = Append(m.blocks, b), !.free = <<b, 1>>, !.heap = g]
    BY <1>5, <2>3 DEF AllocBlock, b
  <2>7. m.blocks \in Seq(1..MaxBlocks) BY <1>1, MemoryParts
  <2>8. /\ m2.heap = g /\ m2.free = s[1] /\ m2.blocks = Append(m.blocks, b)
        /\ m2.process = m.process /\ m2 \in Memories
    <3>1. Append(m.blocks, b) \in Seq(1..MaxBlocks) BY <2>2, <2>7
    <3> HIDE DEF g
    <3> QED BY <1>1, <2>4, <2>5, <2>6, <3>1 DEF Memories
  <2>9. \A x \in A : h[x].type = "unmapped"
    <3>1. \A x \in A : x \in Cells /\ x[1] = b BY <2>5
    <3> QED BY <1>1, <2>2, <3>1 DEF Blocked
  <2>10. nilCell \notin A /\ trueCell \notin A /\ h[nilCell].type = "nil" /\ h[trueCell].type = "true"
    BY <1>1, <2>9 DEF Shape
  <2>11. \A x \in A : x \notin Alive(h) /\ x \notin Permanent /\ x \in Cells
    BY <2>5, <2>9, <2>10 DEF Alive, Permanent
  <2>12. Alive(g) = Alive(h)
    <3>1. ASSUME NEW x \in Cells PROVE x \in Alive(g) <=> x \in Alive(h) BY <2>5, <2>9 DEF Alive
    <3> QED BY <3>1 DEF Alive
  <2>13. \A x \in Cells : After(g, x) = After(h, x) /\ Below(g, x) = Below(h, x)
    BY <2>5, <2>9 DEF After, Below
  <2>14. g[nilCell].type = "nil" /\ g[trueCell].type = "true" /\ \A x \in Alive(h) : g[x] = h[x]
    BY <2>5, <2>10, <2>11, Special DEF Alive
  <2>15. Owned(g, R) /\ Keeps(h, g, Alive(h))
    <3> HIDE DEF g
    <3> QED BY <1>1, <2>5, <2>12, <2>13, <2>14, SameShape
  <2>16. PICK n \in Nat : n = Len(m.blocks) BY <2>7, SeqLen
  <2>17. PICK u : u = Append(m.blocks, b) OBVIOUS
  <2>18. /\ Len(u) = n + 1 /\ u[n + 1] = b /\ \A i \in 1..n : u[i] = m.blocks[i]
         /\ u \in Seq(1..MaxBlocks) BY <2>2, <2>7, <2>16, <2>17
  <2>19. Range(u) = Range(m.blocks) \cup {b}
    <3>1. DOMAIN u = 1..n + 1 /\ DOMAIN m.blocks = 1..n BY <2>7, <2>16, <2>18, SeqLen
    <3>2. \A i \in 1..n + 1 : i \in 1..n \/ i = n + 1 OBVIOUS
    <3>3. \A i \in 1..n : i \in 1..n + 1 OBVIOUS
    <3>4. n + 1 \in 1..n + 1 OBVIOUS
    <3>5. ASSUME NEW y PROVE y \in Range(u) <=> y \in Range(m.blocks) \cup {b}
      BY <2>18, <3>1, <3>2, <3>3, <3>4 DEF Range
    <3> QED BY <3>5
  <2>20. Blocked(m2)
    <3>1. ASSUME NEW i \in 1..n + 1, NEW j \in 1..n + 1, u[i] = u[j] PROVE i = j
      <4>1. \A k \in 1..n : u[k] \in Range(m.blocks)
        <5>1. DOMAIN m.blocks = 1..n BY <2>7, <2>16, SeqLen
        <5> QED BY <2>18, <5>1 DEF Range
      <4>2. (i \in 1..n \/ i = n + 1) /\ (j \in 1..n \/ j = n + 1) OBVIOUS
      <4>3. CASE i \in 1..n /\ j \in 1..n BY <1>1, <2>16, <2>18, <3>1, <4>3 DEF Blocked
      <4>4. CASE i = n + 1 /\ j = n + 1 BY <4>4
      <4> QED BY <2>2, <2>18, <3>1, <4>1, <4>2, <4>3, <4>4
    <3>2. ASSUME NEW x \in Cells PROVE g[x].type = "unmapped" <=> x[1] \notin Range(u)
      <4>1. x \in A <=> x[1] = b BY DEF Cells
      <4>2. CASE x \in A BY <2>5, <2>19, <4>1, <4>2
      <4>3. CASE x \notin A BY <1>1, <2>5, <2>19, <4>1, <4>3 DEF Blocked
      <4> QED BY <4>2, <4>3
    <3> HIDE DEF g
    <3> QED BY <2>8, <2>17, <2>18, <3>1, <3>2 DEF Blocked
  <2>21. FreedAs(m2, s)
    <3>1. ASSUME NEW x \in Cells PROVE h[x].type # "free"
      <4>1. t = <<>>
        <5>1. t \in Seq(Cells) BY <1>3 DEF FreedAs, Lists
        <5>2. t # <<>> => t[1] \in Cells BY <5>1, SeqLen
        <5> QED BY <1>3, <5>2, Special DEF FreedAs
      <4>2. ~ \E i \in 1..Len(t) : t[i] = x BY <4>1
      <4> QED BY <1>3, <4>2 DEF FreedAs, Lists
    <3>2. {x \in Cells : g[x].type = "free"} = A BY <2>5, <3>1
    <3> HIDE DEF g, A
    <3> QED BY <2>4, <2>5, <2>8, <3>2 DEF FreedAs
  <2>22. Tidy(m2, R) BY <2>8, <2>15, <2>20, <2>21 DEF Tidy
  <2>23. m2.free # NULL BY <2>4, <2>8, Special
  <2> QED BY <2>8, <2>12, <2>15, <2>22, <2>23
<1> QED BY <1>4, <1>5

\* A cell that is taken from the free list.
LEMMA TakenTidy ==
  ASSUME NEW m, NEW R, Tidy(m, R), m.free # NULL, m.process # "exited",
         NEW type \in {"atom", "list"}, NEW c \in R \cup {nilCell}, type = "atom" => c = nilCell,
         NEW got, got = Taken(m, type, c)
  PROVE  /\ got.mem.process = m.process
         /\ got.cell \in Cells \ (Alive(m.heap) \cup Permanent)
         /\ Tidy(got.mem, (R \ {c}) \cup {got.cell})
         /\ Keeps(m.heap, got.mem.heap, Alive(m.heap))
         /\ Alive(got.mem.heap) = Alive(m.heap) \cup {got.cell}
         /\ got.mem.heap[got.cell] = Cell(type, nilCell, nilCell, c)
         /\ c # nilCell => EndOf(got.mem.heap, got.cell, c)
<1> DEFINE h == m.heap
           F == {x \in Cells : h[x].type = "free"}
<1>1. m \in Memories /\ Owned(h, R) /\ Shape(h, R) /\ Lasts(h) /\ Blocked(m) BY DEF Tidy, Owned
<1>2. h \in Heaps /\ m.free \in Cells \cup {NULL}
      /\ h[nilCell].type = "nil" /\ h[trueCell].type = "true"
  BY <1>1, ShapeFacts, MemoryParts DEF Shape
<1>3. PICK t : FreedAs(m, t) BY DEF Tidy
<1>4. /\ Lists(t, F) /\ t # <<>> /\ m.free = t[1]
      /\ \A i \in 1..Len(t) : h[t[i]].next = IF i = Len(t) THEN NULL ELSE t[i + 1]
  BY <1>3 DEF FreedAs
<1>5. PICK x : x = m.free OBVIOUS
<1>6. /\ Lists(Tail(t), F \ {x}) /\ x \in F /\ Len(t) \in Nat \ {0}
      /\ Len(Tail(t)) = Len(t) - 1 /\ \A i \in 1..Len(t) - 1 : Tail(t)[i] = t[i + 1]
  BY <1>4, <1>5, ListsTail
<1>7. x \in Cells /\ x \notin Alive(h) /\ x \notin Permanent /\ h[x].type = "free"
  BY <1>2, <1>6 DEF Alive, Permanent
<1>8. /\ x # nilCell /\ x # trueCell /\ nilCell \in Cells /\ trueCell \in Cells
  BY <1>7, Special DEF Permanent
<1>9. c \in Cells /\ R \subseteq Alive(h) /\ Alive(h) \subseteq Cells BY <1>1, <1>8, ShapeFacts
<1> DEFINE f == [h EXCEPT ![x] = Cell(type, nilCell, nilCell, nilCell)]
           g == [h EXCEPT ![x] = Cell(type, nilCell, nilCell, c)]
<1>10. h \in [Cells -> [type : Types, next : Cells \cup {NULL}, aux : Cells, contents : Cells]]
       /\ \A y \in Cells : h[y].type # "list" => h[y].contents = nilCell BY <1>2 DEF Heaps
<1>11. ASSUME NEW d \in Cells, d # nilCell => type = "list"
       PROVE [h EXCEPT ![x] = Cell(type, nilCell, nilCell, d)] \in Heaps
  <2>1. Cell(type, nilCell, nilCell, d) \in
          [type : Types, next : Cells \cup {NULL}, aux : Cells, contents : Cells]
    BY <1>8 DEF Cell, Types
  <2>2. Cell(type, nilCell, nilCell, d).type # "list"
          => Cell(type, nilCell, nilCell, d).contents = nilCell BY <1>11 DEF Cell
  <2> QED BY <1>7, <1>10, <2>1, <2>2 DEF Heaps
<1>12. f \in Heaps /\ g \in Heaps BY <1>8, <1>9, <1>11
<1>13. /\ f[x].type = type /\ f[x].next = nilCell /\ f[x].contents = nilCell
       /\ g[x].type = type /\ g[x].next = nilCell /\ g[x].contents = c
       /\ g[x].aux = nilCell /\ g[x] = Cell(type, nilCell, nilCell, c)
       /\ \A y \in Cells \ {x} : f[y] = h[y] /\ g[y] = h[y] BY <1>7, <1>10 DEF Cell
<1> HIDE DEF f, g
<1>14. Alive(f) = Alive(h) \cup {x} /\ Alive(g) = Alive(h) \cup {x}
  <2>1. ASSUME NEW y \in Cells
        PROVE (y \in Alive(f) <=> y \in Alive(h) \cup {x}) /\ (y \in Alive(g) <=> y \in Alive(h) \cup {x})
    BY <1>7, <1>13 DEF Alive
  <2> QED BY <1>7, <2>1 DEF Alive
<1>15. {x} \cap Alive(h) = {} /\ f[nilCell].type = "nil" /\ f[trueCell].type = "true"
  BY <1>2, <1>7, <1>8, <1>13
<1>16. \A y \in Cells : After(f, y) = After(h, y) /\ Below(f, y) = Below(h, y)
  <2>1. After(h, x) = nilCell /\ Below(h, x) = nilCell BY <1>2, <1>7, Fields
  <2>2. After(f, x) = nilCell /\ Below(f, x) = nilCell BY <1>13 DEF After, Below
  <2>3. \A y \in Cells \ {x} : After(f, y) = After(h, y) /\ Below(f, y) = Below(h, y)
    BY <1>13 DEF After, Below
  <2> QED BY <2>1, <2>2, <2>3
<1>17. /\ Shape(f, R \cup {x})
       /\ \A y \in Alive(h) : \A e : EndOf(h, y, e) => EndOf(f, y, e)
  BY <1>1, <1>12, <1>14, <1>15, <1>16, Grow
<1>18. /\ Shape(g, (R \ {c}) \cup {x})
       /\ \A y \in Alive(h) : \A e : EndOf(h, y, e) => EndOf(g, y, e)
       /\ c # nilCell => EndOf(g, x, c)
  <2>1. CASE c = nilCell
    <3>1. f = g BY <2>1 DEF f, g
    <3>2. R \ {c} = R BY <1>9, <2>1 DEF Alive, Permanent
    <3> QED BY <1>17, <2>1, <3>1, <3>2
  <2>2. CASE c # nilCell
    <3>1. type = "list" BY <2>2
    <3>2. c \in R /\ c \in Alive(h) /\ c # x BY <1>7, <1>9, <2>2
    <3>3. PICK Q : Q = R \cup {x} OBVIOUS
    <3>4. x \in Q /\ c \in Q /\ Shape(f, Q) BY <1>17, <3>2, <3>3
    <3>5. c \in Alive(f) /\ x \in Alive(f) BY <1>14, <3>2
    <3>6. x \notin Tree(f, c) BY <3>2, <3>4, <3>5, RootTree
    <3>7. \A y \in Cells : g[y].type = f[y].type BY <1>13
    <3>8. /\ After(f, c) = nilCell /\ Below(f, x) = nilCell /\ Below(g, x) = c /\ After(g, x) = nilCell
          /\ After(f, x) = nilCell BY <1>13, <3>1, <3>4, ShapeFacts DEF Below, After
    <3>9. \A y \in Cells \ {x} : After(g, y) = After(f, y) /\ Below(g, y) = Below(f, y)
      BY <1>13 DEF Below, After
    <3>10. \A y \in Cells : After(g, y) = IF y = c THEN Below(f, x) ELSE After(f, y)
      BY <3>2, <3>8, <3>9
    <3>11. \A y \in Cells : Below(g, y) = IF y = x THEN c ELSE Below(f, y) BY <3>8, <3>9
    <3>12. HungBelow(f, Q, c, x, g)
      <4>1. g \in Heaps BY <1>12
      <4> QED BY ONLY <3>4, <3>5, <3>6, <3>7, <3>10, <3>11, <4>1, HangBelow
    <3>13. Q \ {c} = (R \ {c}) \cup {x} BY <3>2, <3>3
    <3>14. /\ Shape(g, Q \ {c})
           /\ \A y \in Alive(f) : \A e : EndOf(f, y, e) => EndOf(g, y, e)
           /\ EndOf(g, x, c) BY <3>8, <3>12 DEF HungBelow
    <3> QED BY <1>14, <1>17, <3>13, <3>14
  <2> QED BY <2>1, <2>2
<1>19. Lasts(g)
  <2>1. \A y \in Alive(h) : g[y] = h[y] BY <1>7, <1>9, <1>13
  <2> QED BY <1>1, <1>13, <1>14, <1>18, <2>1 DEF Lasts
<1>20. got = [cell |-> x, mem |-> [m EXCEPT !.free = h[x].next, !.heap = g]]
  <2>1. got = [cell |-> m.free,
               mem |-> [m EXCEPT !.free = m.heap[m.free].next,
                                 !.heap[m.free] = Cell(type, nilCell, nilCell, c)]] BY DEF Taken
  <2>2. [m EXCEPT !.free = h[x].next, !.heap[x] = Cell(type, nilCell, nilCell, c)]
          = [m EXCEPT !.free = h[x].next, !.heap = g] BY <1>1 DEF Memories, g
  <2> QED BY <1>5, <2>1, <2>2
<1>21. PICK n : n = got.mem OBVIOUS
<1>22. /\ n.heap = g /\ n.free = h[x].next /\ n.blocks = m.blocks /\ n.process = m.process
       /\ n \in Memories
  <2>1. h[x].next \in Cells \cup {NULL} BY <1>2, <1>7, Fields
  <2>2. PICK d : d = h[x].next OBVIOUS
  <2>3. n = [m EXCEPT !.free = d, !.heap = g] BY <1>20, <1>21, <2>2
  <2>4. m \in Memories /\ g \in Heaps /\ d \in Cells \cup {NULL} BY <1>1, <1>12, <2>1, <2>2
  <2>5. /\ n.heap = g /\ n.free = d /\ n.blocks = m.blocks /\ n.process = m.process
        /\ n \in Memories BY ONLY <2>3, <2>4 DEF Memories
  <2> QED BY <2>2, <2>5
<1>23. Blocked(n)
  <2>1. \A y \in Cells : g[y].type = "unmapped" <=> h[y].type = "unmapped" BY <1>7, <1>13
  <2> QED BY <1>1, <1>22, <2>1 DEF Blocked
<1>24. FreedAs(n, Tail(t))
  <2>1. F \ {x} = {y \in Cells : g[y].type = "free"} BY <1>7, <1>13
  <2>2. PICK u : u = Tail(t) OBVIOUS
  <2>3. PICK k \in Nat : Len(t) = k + 1
    <3>1. Len(t) - 1 \in Nat /\ Len(t) = (Len(t) - 1) + 1 BY <1>6
    <3> QED BY <3>1
  <2>4. /\ Lists(u, F \ {x}) /\ Len(u) = k /\ \A i \in 1..k : u[i] = t[i + 1]
        /\ u \in Seq(Cells) BY <1>6, <2>2, <2>3 DEF Lists
  <2>5. n.free = IF u = <<>> THEN NULL ELSE u[1]
    <3>1. h[x].next = IF 1 = k + 1 THEN NULL ELSE t[1 + 1] BY <1>4, <1>5, <2>3
    <3>2. u = <<>> <=> k = 0 BY <2>4, SeqLen
    <3>3. k # 0 => 1 \in 1..k /\ u[1] = t[1 + 1] BY <2>4
    <3> QED BY <1>22, <3>1, <3>2, <3>3
  <2>6. ASSUME NEW i \in 1..k PROVE g[u[i]].next = IF i = k THEN NULL ELSE u[i + 1]
    <3>1. i + 1 \in 1..k + 1 /\ (i + 1 = k + 1 <=> i = k) /\ (i # k => i + 1 \in 1..k) BY OneMore
    <3>2. h[t[i + 1]].next = IF i + 1 = k + 1 THEN NULL ELSE t[(i + 1) + 1] BY <1>4, <2>3, <3>1
    <3>3. u[i] = t[i + 1] /\ (i # k => u[i + 1] = t[(i + 1) + 1]) BY <2>4, <3>1
    <3>4. u[i] \in F \ {x} BY <2>4 DEF Lists
    <3>5. g[u[i]] = h[u[i]] BY <1>13, <3>4
    <3> QED BY <3>1, <3>2, <3>3, <3>5
  <2> QED BY <1>22, <2>1, <2>2, <2>4, <2>5, <2>6 DEF FreedAs
<1>25. Tidy(n, (R \ {c}) \cup {x}) BY <1>18, <1>19, <1>22, <1>23, <1>24 DEF Tidy, Owned
<1>26. Keeps(h, g, Alive(h))
  <2>1. \A y \in Alive(h) : g[y] = h[y] /\ y \in Alive(g) BY <1>7, <1>9, <1>13, <1>14
  <2> QED BY <1>18, <2>1 DEF Keeps
<1>27. got.cell = x BY <1>20
<1> QED BY <1>7, <1>13, <1>14, <1>18, <1>21, <1>22, <1>25, <1>26, <1>27

\* What getCell makes of m: a new root, or the process exits.
Got(m, R, type, c, got) ==
  \/ /\ got.mem.process = "exited" /\ got.cell = nilCell /\ Tidy(got.mem, R)
     /\ Keeps(m.heap, got.mem.heap, Alive(m.heap)) /\ Alive(got.mem.heap) = Alive(m.heap)
  \/ /\ got.mem.process = m.process /\ m.process # "exited"
     /\ got.cell \in Cells \ (Alive(m.heap) \cup Permanent)
     /\ Tidy(got.mem, (R \ {c}) \cup {got.cell})
     /\ Keeps(m.heap, got.mem.heap, Alive(m.heap))
     /\ Alive(got.mem.heap) = Alive(m.heap) \cup {got.cell}
     /\ got.mem.heap[got.cell] = Cell(type, nilCell, nilCell, c)
     /\ c # nilCell => EndOf(got.mem.heap, got.cell, c)

\* getCell, for an atom or a list.
LEMMA GetTidy ==
  ASSUME NEW m, NEW R, Tidy(m, R),
         NEW type \in {"atom", "list"}, NEW c \in R \cup {nilCell}, type = "atom" => c = nilCell,
         NEW got, got = GetCell(m, type, c)
  PROVE  Got(m, R, type, c, got)
<1>1. PICK n : n = IF m.free = NULL THEN AllocBlock(m) ELSE m OBVIOUS
<1>2. got = Taken(n, type, c) BY <1>1 DEF GetCell
<1>3. /\ Tidy(n, R) /\ Alive(n.heap) = Alive(m.heap) /\ Keeps(m.heap, n.heap, Alive(m.heap))
      /\ n.process = "exited" \/ (n.process = m.process /\ n.free # NULL)
  <2>1. CASE m.free = NULL BY <1>1, <2>1, AllocTidy
  <2>2. CASE m.free # NULL
    <3>1. Keeps(m.heap, m.heap, Alive(m.heap)) BY DEF Keeps
    <3> QED BY <1>1, <2>2, <3>1
  <2> QED BY <2>1, <2>2
<1>4. CASE n.process = "exited"
  <2>1. got.cell = nilCell /\ got.mem = n BY <1>2, <1>4 DEF Taken
  <2> QED BY <1>3, <1>4, <2>1 DEF Got
<1>5. CASE n.process # "exited"
  <2>1. n.process = m.process /\ n.free # NULL BY <1>3, <1>5
  <2>2. /\ got.mem.process = n.process
        /\ got.cell \in Cells \ (Alive(n.heap) \cup Permanent)
        /\ Tidy(got.mem, (R \ {c}) \cup {got.cell})
        /\ Keeps(n.heap, got.mem.heap, Alive(n.heap))
        /\ Alive(got.mem.heap) = Alive(n.heap) \cup {got.cell}
        /\ got.mem.heap[got.cell] = Cell(type, nilCell, nilCell, c)
        /\ c # nilCell => EndOf(got.mem.heap, got.cell, c) BY <1>2, <1>3, <1>5, <2>1, TakenTidy
  <2>3. Keeps(m.heap, got.mem.heap, Alive(m.heap)) BY <1>3, <2>2 DEF Keeps
  <2> QED BY <1>3, <1>5, <2>1, <2>2, <2>3 DEF Got
<1> QED BY <1>4, <1>5

\* A loop whose steps are as P says.
Steps(n, S, a, G, P) ==
  /\ <<0, a>> \in P
  /\ \A i \in 0..n : \A x \in S : i < n /\ <<i, x>> \in P
       => G[<<i + 1, x>>] \in S /\ <<i + 1, G[<<i + 1, x>>]>> \in P
Follows(n, S, a, G, g) ==
  /\ g[0] = a
  /\ \A i \in 0..n : i < n /\ g[i] \in S => g[i + 1] = G[<<i + 1, g[i]>>]
Stays(n, S, P, g) == \A i \in 0..n : g[i] \in S /\ <<i, g[i]>> \in P

\* There is such a loop, and whatever is computed as it is stays as P says.
LEMMA Iterating ==
  ASSUME NEW n \in Nat, NEW S, NEW a \in S, NEW G, NEW P, Steps(n, S, a, G, P)
  PROVE  Loops(n, S, a, G) /\ \A g : Follows(n, S, a, G, g) => Stays(n, S, P, g)
<1>0. /\ <<0, a>> \in P
      /\ \A i \in 0..n : \A x \in S : i < n /\ <<i, x>> \in P
           => G[<<i + 1, x>>] \in S /\ <<i + 1, G[<<i + 1, x>>]>> \in P BY DEF Steps
<1>1. ASSUME NEW g, g[0] = a,
             \A i \in 0..n : i < n /\ g[i] \in S /\ <<i, g[i]>> \in P
                             => g[i + 1] = G[<<i + 1, g[i]>>]
      PROVE  \A i \in 0..n : g[i] \in S /\ <<i, g[i]>> \in P
  <2> DEFINE T == {k \in Nat : k <= n => g[k] \in S /\ <<k, g[k]>> \in P}
  <2>1. 0 \in T BY <1>0, <1>1
  <2>2. ASSUME NEW k \in Nat, k \in T PROVE k + 1 \in T
    <3>1. CASE k + 1 <= n
      <4>1. k \in 0..n /\ k < n /\ k <= n BY <3>1
      <4>2. g[k] \in S /\ <<k, g[k]>> \in P BY <2>2, <4>1
      <4>3. g[k + 1] = G[<<k + 1, g[k]>>] BY <1>1, <4>1, <4>2
      <4>4. G[<<k + 1, g[k]>>] \in S /\ <<k + 1, G[<<k + 1, g[k]>>]>> \in P BY <1>0, <4>1, <4>2
      <4> QED BY <4>3, <4>4
    <3>2. CASE ~(k + 1 <= n) BY <3>2
    <3> QED BY <3>1, <3>2
  <2>3. \A k \in Nat : k \in T
    <3> HIDE DEF T
    <3> QED BY <2>1, <2>2, Induction
  <2>4. \A i \in 0..n : i \in Nat /\ i <= n OBVIOUS
  <2> QED BY <2>3, <2>4
<1>2. PICK H : H = [t \in Nat \X S |-> IF G[t] \in S THEN G[t] ELSE a] OBVIOUS
<1>3. H \in [Nat \X S -> S] BY <1>2
<1>4. PICK f \in [0..n -> S] : \A i \in 0..n : f[i] = IF i = 0 THEN a ELSE H[<<i, f[i - 1]>>]
  <2>1. Loops(n, S, a, H) BY <1>3, Iterates
  <2> QED BY <2>1 DEF Loops
<1>5. f[0] = a
  <2>1. 0 \in 0..n OBVIOUS
  <2> QED BY <1>4, <2>1
<1>6. ASSUME NEW i \in 0..n, i < n, f[i] \in S, <<i, f[i]>> \in P
      PROVE  f[i + 1] = G[<<i + 1, f[i]>>]
  <2>1. i + 1 \in 0..n /\ i + 1 # 0 /\ (i + 1) - 1 = i /\ i + 1 \in Nat BY <1>6
  <2>2. f[i + 1] = H[<<i + 1, f[(i + 1) - 1]>>] BY <1>4, <2>1
  <2>3. f[i + 1] = H[<<i + 1, f[i]>>] BY <2>1, <2>2
  <2>4. G[<<i + 1, f[i]>>] \in S BY <1>0, <1>6
  <2>5. <<i + 1, f[i]>> \in Nat \X S BY <1>6, <2>1
  <2> QED BY <1>2, <2>3, <2>4, <2>5
<1>7. \A i \in 0..n : f[i] \in S /\ <<i, f[i]>> \in P BY <1>1, <1>5, <1>6
<1>8. ASSUME NEW i \in 0..n PROVE f[i] = IF i = 0 THEN a ELSE G[<<i, f[i - 1]>>]
  <2>1. CASE i = 0 BY <1>5, <2>1
  <2>2. CASE i # 0
    <3>1. i - 1 \in 0..n /\ i - 1 < n /\ (i - 1) + 1 = i BY <2>2
    <3>2. f[(i - 1) + 1] = G[<<(i - 1) + 1, f[i - 1]>>] BY <1>6, <1>7, <3>1
    <3> QED BY <2>2, <3>1, <3>2
  <2> QED BY <2>1, <2>2
<1>9. Loops(n, S, a, G) BY <1>8 DEF Loops
<1>10. ASSUME NEW g, Follows(n, S, a, G, g) PROVE Stays(n, S, P, g)
  <2>1. \A i \in 0..n : g[i] \in S /\ <<i, g[i]>> \in P BY <1>1, <1>10 DEF Follows
  <2> QED BY <2>1 DEF Stays
<1> QED BY <1>9, <1>10

\* What getCell has given after i calls.
Given(m, R, i, x) ==
  \E A : /\ Tidy(x.mem, R \cup A) /\ A \cap Alive(m.heap) = {}
         /\ Alive(x.mem.heap) = Alive(m.heap) \cup A
         /\ Keeps(m.heap, x.mem.heap, Alive(m.heap))
         /\ x.mem.process # "exited" =>
              /\ Lists(x.cells, A) /\ Len(x.cells) = i /\ x.mem.process = m.process
              /\ \A y \in A : x.mem.heap[y] = Cell("atom", nilCell, nilCell, nilCell)

\* A sequence with one more element.
LEMMA ListsAppend ==
  ASSUME NEW s, NEW A, Lists(s, A), NEW x \in Cells, x \notin A
  PROVE  Lists(Append(s, x), A \cup {x}) /\ Len(Append(s, x)) = Len(s) + 1
<1>1. s \in Seq(Cells) BY DEF Lists
<1>2. Append(s, x) = s \o <<x>> /\ Len(Append(s, x)) = Len(s) + 1 BY <1>1
<1>3. {x} \cap A = {} /\ A \cap {x} = {} OBVIOUS
<1>4. Lists(s \o <<x>>, A \cup {x}) BY <1>3, ListsOne, ListsJoin
<1> QED BY <1>2, <1>4

Fills == [mem : Memories, cells : Seq(Cells)]
\* One more call.
More(x) == [mem |-> GetCell(x.mem, "atom", nilCell).mem,
            cells |-> Append(x.cells, GetCell(x.mem, "atom", nilCell).cell)]

\* What getCell has given stays so with one more call.
LEMMA GivenStep ==
  ASSUME NEW m, NEW R, NEW i \in Nat, NEW x \in Fills, Given(m, R, i, x)
  PROVE  Given(m, R, i + 1, More(x)) /\ More(x) \in Fills
<1> DEFINE y == More(x)
           got == GetCell(x.mem, "atom", nilCell)
<1>0. y.mem = got.mem /\ y.cells = Append(x.cells, got.cell) /\ x.cells \in Seq(Cells)
  BY DEF More, Fills
<1>00. got.cell \in Cells /\ got.mem \in Memories => y \in Fills
  <2>1. y = [mem |-> got.mem, cells |-> Append(x.cells, got.cell)] BY DEF More
  <2> HIDE DEF got, y
  <2> QED BY <1>0, <2>1 DEF Fills
<1> HIDE DEF got
<1>1. PICK A : /\ Tidy(x.mem, R \cup A) /\ A \cap Alive(m.heap) = {}
               /\ Alive(x.mem.heap) = Alive(m.heap) \cup A
               /\ Keeps(m.heap, x.mem.heap, Alive(m.heap))
               /\ x.mem.process # "exited" =>
                    /\ Lists(x.cells, A) /\ Len(x.cells) = i /\ x.mem.process = m.process
                    /\ \A z \in A : x.mem.heap[z] = Cell("atom", nilCell, nilCell, nilCell)
  BY DEF Given
<1>t. PICK type \in {"atom", "list"} : type = "atom" OBVIOUS
<1>2. PICK Q, n : type = "atom" /\ Q = R \cup A /\ n = x.mem BY <1>t
<1>3. PICK c \in Q \cup {nilCell} : c = nilCell OBVIOUS
<1>30. (type = "atom" => c = nilCell) /\ Tidy(n, Q) /\ got = GetCell(n, type, c)
  BY <1>1, <1>2, <1>3 DEF got
<1> HIDE DEF y
<1>40. Got(n, Q, type, c, got) BY <1>30, GetTidy
<1>4. \/ /\ got.mem.process = "exited" /\ got.cell = nilCell /\ Tidy(got.mem, Q)
         /\ Keeps(n.heap, got.mem.heap, Alive(n.heap)) /\ Alive(got.mem.heap) = Alive(n.heap)
      \/ /\ got.mem.process = n.process /\ n.process # "exited"
         /\ got.cell \in Cells \ (Alive(n.heap) \cup Permanent)
         /\ Tidy(got.mem, (Q \ {c}) \cup {got.cell})
         /\ Keeps(n.heap, got.mem.heap, Alive(n.heap))
         /\ Alive(got.mem.heap) = Alive(n.heap) \cup {got.cell}
         /\ got.mem.heap[got.cell] = Cell(type, nilCell, nilCell, c) BY <1>40 DEF Got
<1>5. Keeps(m.heap, got.mem.heap, Alive(m.heap)) BY <1>1, <1>2, <1>4 DEF Keeps
<1>6. CASE got.mem.process = "exited" /\ got.cell = nilCell /\ Tidy(got.mem, Q)
           /\ Alive(got.mem.heap) = Alive(n.heap)
  <2>1. Given(m, R, i + 1, y) BY <1>0, <1>1, <1>2, <1>5, <1>6 DEF Given
  <2> QED BY <1>00, <1>6, <2>1, Special DEF Tidy, y
<1>7. CASE /\ got.mem.process = n.process /\ n.process # "exited"
           /\ got.cell \in Cells \ (Alive(n.heap) \cup Permanent)
           /\ Tidy(got.mem, (Q \ {nilCell}) \cup {got.cell})
           /\ Keeps(n.heap, got.mem.heap, Alive(n.heap))
           /\ Alive(got.mem.heap) = Alive(n.heap) \cup {got.cell}
           /\ got.mem.heap[got.cell] = Cell(type, nilCell, nilCell, nilCell)
  <2>1. PICK B : B = A \cup {got.cell} OBVIOUS
  <2>2. Q \subseteq Alive(n.heap) BY <1>30, ShapeFacts DEF Tidy, Owned
  <2>3. nilCell \notin Q BY <2>2 DEF Alive, Permanent
  <2>4. (Q \ {nilCell}) \cup {got.cell} = R \cup B BY <1>2, <2>1, <2>3
  <2>5. got.cell \notin A /\ got.cell \notin Alive(m.heap) BY <1>1, <1>2, <1>7
  <2>6. Lists(y.cells, B) /\ Len(y.cells) = i + 1 BY <1>0, <1>1, <1>2, <1>7, <2>1, <2>5, ListsAppend
  <2>7. ASSUME NEW z \in B PROVE got.mem.heap[z] = Cell("atom", nilCell, nilCell, nilCell)
    <3>1. CASE z = got.cell BY <1>2, <1>7, <3>1
    <3>2. CASE z \in A
      <4>1. z \in Alive(n.heap) /\ n.heap[z] = Cell("atom", nilCell, nilCell, nilCell)
        BY <1>1, <1>2, <1>7, <3>2
      <4> QED BY <1>7, <4>1 DEF Keeps
    <3> QED BY <2>1, <3>1, <3>2
  <2>8. B \cap Alive(m.heap) = {} /\ Alive(got.mem.heap) = Alive(m.heap) \cup B
    BY <1>1, <1>2, <1>7, <2>1, <2>5
  <2>9. got.mem.process = m.process BY <1>1, <1>2, <1>7
  <2>10. Tidy(got.mem, R \cup B) BY <1>7, <2>4
  <2>11. Given(m, R, i + 1, y) BY <1>0, <1>5, <2>6, <2>7, <2>8, <2>9, <2>10 DEF Given
  <2> QED BY <1>00, <1>7, <2>11 DEF Tidy, y
<1> QED BY <1>3, <1>4, <1>6, <1>7

\* n cells from getCell.
LEMMA FilledTidy ==
  ASSUME NEW m, NEW R, Tidy(m, R), NEW n \in Nat
  PROVE  Given(m, R, n, Filled(m, n))
<1> DEFINE S == Fills
<1>1. PICK a : a = [mem |-> m, cells |-> <<>>] OBVIOUS
<1>2. PICK G : G = [t \in Nat \X S |-> More(t[2])] OBVIOUS
<1>3. PICK P : P = {t \in Nat \X S : Given(m, R, t[1], t[2])} OBVIOUS
<1>4. a \in S
  <2>1. <<>> \in Seq(Cells) /\ m \in Memories BY DEF Tidy
  <2> QED BY <1>1, <2>1 DEF Fills
<1>5. <<0, a>> \in P
  <2>1. a.mem = m /\ a.cells = <<>> /\ Len(<<>>) = 0 BY <1>1
  <2>2. PICK A : A = {} OBVIOUS
  <2>3. R \cup A = R /\ Alive(m.heap) \cup A = Alive(m.heap) /\ A \cap Alive(m.heap) = {} BY <2>2
  <2>4. Lists(<<>>, A) /\ Keeps(m.heap, m.heap, Alive(m.heap)) BY <2>2, ListsNone DEF Keeps
  <2>5. \A y \in A : FALSE BY <2>2
  <2>6. Given(m, R, 0, a) BY <2>1, <2>3, <2>4, <2>5 DEF Given
  <2> QED BY <1>3, <1>4, <2>6
<1>6. ASSUME NEW i \in 0..n, NEW x \in S, <<i, x>> \in P
      PROVE G[<<i + 1, x>>] = More(x) /\ More(x) \in S /\ <<i + 1, More(x)>> \in P
  <2>1. i \in Nat /\ i + 1 \in Nat /\ <<i + 1, x>> \in Nat \X S OBVIOUS
  <2>2. G[<<i + 1, x>>] = More(x)
    <3>1. PICK t : t = <<i + 1, x>> OBVIOUS
    <3>2. t \in Nat \X S /\ t[2] = x BY <2>1, <3>1
    <3> QED BY <1>2, <3>1, <3>2
  <2>3. Given(m, R, i, x) BY <1>3, <1>6
  <2>4. x \in Fills BY <1>6
  <2>5. Given(m, R, i + 1, More(x)) /\ More(x) \in Fills BY <2>1, <2>3, <2>4, GivenStep
  <2>6. <<i + 1, More(x)>> \in P BY <1>3, <2>1, <2>5
  <2> QED BY <2>2, <2>5, <2>6
<1> HIDE DEF S
<1>7. Steps(n, S, a, G, P) BY <1>5, <1>6 DEF Steps
<1>8. Loops(n, S, a, G) /\ \A g : Follows(n, S, a, G, g) => Stays(n, S, P, g)
  BY <1>4, <1>7, Iterating
<1> DEFINE Rec(f) == [i \in 0..n |-> IF i = 0 THEN [mem |-> m, cells |-> <<>>]
                                   ELSE More(f[i - 1])]
<1>9. \E f : f = Rec(f)
  <2>1. PICK f \in [0..n -> S] : \A i \in 0..n : f[i] = IF i = 0 THEN a ELSE G[<<i, f[i - 1]>>]
    BY <1>8 DEF Loops
  <2>2. ASSUME NEW i \in 0..n PROVE f[i] = IF i = 0 THEN a ELSE More(f[i - 1])
    <3>1. CASE i = 0 BY <2>1, <3>1
    <3>2. CASE i # 0
      <4>1. i - 1 \in 0..n /\ i \in Nat BY <3>2
      <4>2. f[i - 1] \in S BY <2>1, <4>1
      <4>3. PICK t : t = <<i, f[i - 1]>> OBVIOUS
      <4>4. t \in Nat \X S /\ t[2] = f[i - 1] BY <4>1, <4>2, <4>3
      <4>5. G[t] = More(f[i - 1]) BY <1>2, <4>4
      <4> QED BY <2>1, <3>2, <4>3, <4>5
    <3> QED BY <3>1, <3>2
  <2>3. f = Rec(f) BY <1>1, <2>1, <2>2
  <2> QED BY <2>3
<1>10. PICK g : g = CHOOSE f : f = Rec(f) OBVIOUS
<1>11. g = Rec(g) BY <1>9, <1>10
<1>12. Filled(m, n) = g[n] BY <1>10 DEF Filled, More
<1>13. g[0] = a
  <2>1. 0 \in 0..n OBVIOUS
  <2> QED BY <1>1, <1>11, <2>1
<1>14. ASSUME NEW i \in 0..n, i < n, g[i] \in S PROVE g[i + 1] = G[<<i + 1, g[i]>>]
  <2>1. i + 1 \in 0..n /\ i + 1 # 0 /\ (i + 1) - 1 = i /\ i + 1 \in Nat BY <1>14
  <2>2. g[i + 1] = More(g[(i + 1) - 1]) BY <1>11, <2>1
  <2>3. g[i + 1] = More(g[i]) BY <2>1, <2>2
  <2>4. PICK t : t = <<i + 1, g[i]>> OBVIOUS
  <2>5. t \in Nat \X S /\ t[2] = g[i] BY <1>14, <2>1, <2>4
  <2>6. G[t] = More(g[i]) BY <1>2, <2>5
  <2> QED BY <2>3, <2>4, <2>6
<1>15. \A i \in 0..n : g[i] \in S /\ <<i, g[i]>> \in P
  <2>1. Follows(n, S, a, G, g) BY <1>13, <1>14 DEF Follows
  <2>2. Stays(n, S, P, g) BY <1>8, <2>1
  <2> QED BY <2>2 DEF Stays
<1>16. n \in 0..n OBVIOUS
<1>17. <<n, g[n]>> \in P BY <1>15, <1>16
<1> QED BY <1>3, <1>12, <1>17

\* The results after the first n, and what remains when they are deleted.
Above(rs, n) == {rs[j] : j \in {j \in 1..Len(rs) : j > n}}
\* Results are roots or never freed, and a root is on the stack once.
Stack(rs, R) == /\ rs \in Seq(Cells)
                /\ \A i \in 1..Len(rs) : rs[i] \in R \cup Permanent
                /\ \A i, j \in 1..Len(rs) : rs[i] = rs[j] /\ rs[i] \notin Permanent => i = j
Rest(m, R, rs, n, x) == /\ Tidy(x, R \ Above(rs, n)) /\ x.process = m.process
                        /\ Keeps(m.heap, x.heap, Alive(x.heap))

\* One result less.
LEMMA RestStep ==
  ASSUME NEW m, NEW R, NEW rs, Stack(rs, R), NEW n \in Nat, n + 1 \in 1..Len(rs),
         NEW x, Rest(m, R, rs, n + 1, x)
  PROVE  Rest(m, R, rs, n, DeleteList(x, rs[n + 1])) /\ DeleteList(x, rs[n + 1]) \in Memories
<1>1. PICK Q : Q = R \ Above(rs, n + 1) OBVIOUS
<1>2. Tidy(x, Q) /\ x.process = m.process /\ Keeps(m.heap, x.heap, Alive(x.heap)) BY <1>1 DEF Rest
<1>3. PICK c : c = rs[n + 1] OBVIOUS
<1>4. PICK k \in Nat : k = Len(rs)
  <2>1. rs \in Seq(Cells) BY DEF Stack
  <2> QED BY <2>1, SeqLen
<1>5. c \in Q \cup Permanent
  <2>1. c \in R \cup Permanent BY <1>3 DEF Stack
  <2>2. ASSUME c \notin Permanent, NEW j \in 1..Len(rs), j > n + 1, rs[j] = c PROVE FALSE
    <3>1. j = n + 1 BY <1>3, <2>2 DEF Stack
    <3> QED BY <2>2, <3>1, <1>4
  <2> QED BY <1>1, <2>1, <2>2 DEF Above
<1>6. PICK y : y = DeleteList(x, c) OBVIOUS
<1>7. Tidy(y, Q \ {c}) /\ y.process = x.process /\ Keeps(x.heap, y.heap, Alive(y.heap))
  BY <1>2, <1>5, <1>6, DeleteTidy
<1>8. Above(rs, n) = Above(rs, n + 1) \cup {c}
  <2>1. \A j \in 1..Len(rs) : j > n <=> j > n + 1 \/ j = n + 1 BY <1>4
  <2>2. n + 1 > n OBVIOUS
  <2>3. ASSUME NEW z PROVE z \in Above(rs, n) <=> z \in Above(rs, n + 1) \cup {c}
    BY <1>3, <2>1, <2>2 DEF Above
  <2> QED BY <2>3
<1>9. Q \ {c} = R \ Above(rs, n) BY <1>1, <1>8
<1>10. Keeps(m.heap, y.heap, Alive(y.heap)) BY <1>2, <1>7 DEF Keeps
<1>11. y \in Memories BY <1>7 DEF Tidy
<1> QED BY <1>2, <1>3, <1>6, <1>7, <1>9, <1>10, <1>11 DEF Rest

\* cleanupResults: the results above the first n are deleted.
LEMMA CleanedTidy ==
  ASSUME NEW m, NEW R, Tidy(m, R), NEW rs, Stack(rs, R), NEW n \in Nat, n <= Len(rs)
  PROVE  Rest(m, R, rs, n, Cleaned(m, rs, n))
<1>1. PICK k \in Nat : k = Len(rs)
  <2>1. rs \in Seq(Cells) BY DEF Stack
  <2> QED BY <2>1, SeqLen
<1>2. PICK d \in Nat : d = k - n
  <2>1. k - n \in Nat BY <1>1
  <2> QED BY <2>1
<1>3. PICK G : G = [t \in Nat \X Memories |-> DeleteList(t[2], rs[(k - t[1]) + 1])] OBVIOUS
<1>4. PICK P : P = {t \in Nat \X Memories : Rest(m, R, rs, k - t[1], t[2])} OBVIOUS
<1>5. m \in Memories BY DEF Tidy
<1>6. <<0, m>> \in P
  <2>1. Above(rs, k) = {}
    <3>1. ~ \E j \in 1..Len(rs) : j > k BY <1>1
    <3> QED BY <3>1 DEF Above
  <2>2. PICK z : z = k - 0 OBVIOUS
  <2>3. z = k /\ R \ {} = R BY <2>2
  <2>4. Rest(m, R, rs, z, m) BY <2>1, <2>3 DEF Rest, Keeps
  <2>5. PICK t : t = <<0, m>> OBVIOUS
  <2>6. t \in Nat \X Memories /\ t[1] = 0 /\ t[2] = m BY <1>5, <2>5
  <2>7. t \in P BY <1>4, <2>2, <2>4, <2>6
  <2> QED BY <2>5, <2>7
<1>7. ASSUME NEW i \in 0..d, NEW x \in Memories, i < d
      PROVE  /\ G[<<i + 1, x>>] = DeleteList(x, rs[k - i])
             /\ k - i \in 1..Len(rs)
             /\ <<i, x>> \in P => DeleteList(x, rs[k - i]) \in Memories
                                  /\ <<i + 1, DeleteList(x, rs[k - i])>> \in P
  <2>1. /\ i \in Nat /\ i + 1 \in Nat /\ (k - (i + 1)) + 1 = k - i /\ k - i \in 1..k
        /\ k - (i + 1) \in Nat BY <1>2, <1>7
  <2>2. PICK t : t = <<i + 1, x>> OBVIOUS
  <2>3. t \in Nat \X Memories /\ t[1] = i + 1 /\ t[2] = x BY <2>1, <2>2
  <2>4. G[t] = DeleteList(x, rs[k - i]) BY <1>3, <2>1, <2>3
  <2>5. ASSUME <<i, x>> \in P
        PROVE DeleteList(x, rs[k - i]) \in Memories
              /\ <<i + 1, DeleteList(x, rs[k - i])>> \in P
    <3>1. PICK q \in Nat : q = k - (i + 1) BY <2>1
    <3>2. q + 1 = k - i /\ q + 1 \in 1..Len(rs) BY <1>1, <2>1, <3>1
    <3>3. Rest(m, R, rs, q + 1, x)
      <4>1. PICK u : u = <<i, x>> OBVIOUS
      <4>2. u \in P /\ u[1] = i /\ u[2] = x BY <2>5, <4>1
      <4>3. Rest(m, R, rs, k - i, x) BY <1>4, <4>2
      <4> QED BY <3>2, <4>3
    <3>4. PICK y : y = DeleteList(x, rs[q + 1]) OBVIOUS
    <3>5. Rest(m, R, rs, q, y) /\ y \in Memories BY <3>2, <3>3, <3>4, RestStep
    <3>6. PICK u : u = <<i + 1, y>> OBVIOUS
    <3>7. u \in Nat \X Memories /\ u[1] = i + 1 /\ u[2] = y BY <2>1, <3>5, <3>6
    <3>8. Rest(m, R, rs, k - u[1], u[2]) BY <3>1, <3>5, <3>7
    <3>9. u \in P BY <1>4, <3>7, <3>8
    <3> QED BY <3>2, <3>4, <3>5, <3>6, <3>9
  <2> QED BY <1>1, <2>1, <2>2, <2>4, <2>5
<1>8. Steps(d, Memories, m, G, P) BY <1>6, <1>7 DEF Steps
<1>9. Loops(d, Memories, m, G) /\ \A g : Follows(d, Memories, m, G, g) => Stays(d, Memories, P, g)
  BY <1>5, <1>8, Iterating
<1> DEFINE Rec(f) == [i \in n..Len(rs) |-> IF i = Len(rs) THEN m ELSE DeleteList(f[i + 1], rs[i + 1])]
<1>10. \E f : f = Rec(f)
  <2>1. PICK g \in [0..d -> Memories] : \A i \in 0..d : g[i] = IF i = 0 THEN m ELSE G[<<i, g[i - 1]>>]
    BY <1>9 DEF Loops
  <2>2. PICK f : f = [i \in n..k |-> g[k - i]] OBVIOUS
  <2>3. ASSUME NEW i \in n..k PROVE f[i] = IF i = k THEN m ELSE DeleteList(f[i + 1], rs[i + 1])
    <3>1. k - i \in 0..d /\ f[i] = g[k - i] BY <1>2, <2>2
    <3>2. CASE i = k
      <4>1. k - i = 0 BY <3>2
      <4> QED BY <2>1, <3>1, <3>2, <4>1
    <3>3. CASE i # k
      <4>1. /\ k - i # 0 /\ (k - i) - 1 = k - (i + 1) /\ i + 1 \in n..k /\ k - (i + 1) \in 0..d
            /\ (k - (i + 1)) + 1 = k - i /\ k - (i + 1) < d /\ k - (k - (i + 1)) = i + 1
        BY <1>2, <3>3
      <4>2. g[k - i] = G[<<k - i, g[k - (i + 1)]>>] BY <2>1, <3>1, <4>1
      <4>3. PICK j \in 0..d : j = k - (i + 1) BY <4>1
      <4>4. g[j] \in Memories /\ j < d BY <2>1, <4>1, <4>3
      <4>5. G[<<j + 1, g[j]>>] = DeleteList(g[j], rs[k - j]) BY <1>7, <4>4
      <4>6. f[i + 1] = g[j] BY <2>2, <4>1, <4>3
      <4> QED BY <3>1, <3>3, <4>1, <4>2, <4>3, <4>5, <4>6
    <3> QED BY <3>2, <3>3
  <2>4. f = Rec(f) BY <1>1, <2>2, <2>3
  <2> QED BY <2>4
<1>11. PICK f : f = CHOOSE e : e = Rec(e) OBVIOUS
<1>12. f = Rec(f) BY <1>10, <1>11
<1>13. Cleaned(m, rs, n) = f[n] BY <1>11 DEF Cleaned
<1>14. PICK g : g = [i \in 0..d |-> f[k - i]] OBVIOUS
<1>15. g[0] = m
  <2>1. 0 \in 0..d /\ k - 0 = k /\ k \in n..k BY <1>1
  <2>2. g[0] = f[k] BY <1>14, <2>1
  <2> QED BY <1>1, <1>12, <2>1, <2>2
<1>16. ASSUME NEW i \in 0..d, i < d, g[i] \in Memories PROVE g[i + 1] = G[<<i + 1, g[i]>>]
  <2>1. /\ i + 1 \in 0..d /\ k - (i + 1) \in n..k /\ k - (i + 1) # k
        /\ (k - (i + 1)) + 1 = k - i BY <1>2, <1>16
  <2>2. g[i + 1] = f[k - (i + 1)] /\ g[i] = f[k - i] BY <1>14, <2>1
  <2>3. f[k - (i + 1)] = DeleteList(f[(k - (i + 1)) + 1], rs[(k - (i + 1)) + 1])
    BY <1>1, <1>12, <2>1
  <2>4. g[i + 1] = DeleteList(g[i], rs[k - i]) BY <2>1, <2>2, <2>3
  <2>5. G[<<i + 1, g[i]>>] = DeleteList(g[i], rs[k - i]) BY <1>7, <1>16
  <2> QED BY <2>4, <2>5
<1>17. Follows(d, Memories, m, G, g) BY <1>15, <1>16 DEF Follows
<1>18. Stays(d, Memories, P, g) BY <1>9, <1>17
<1>19. d \in 0..d /\ k - d = n BY <1>2
<1>20. PICK t : t = <<d, g[d]>> OBVIOUS
<1>21. t \in P /\ t[1] = d /\ t[2] = g[d] BY <1>18, <1>19, <1>20 DEF Stays
<1>22. Rest(m, R, rs, k - d, g[d]) BY <1>4, <1>21
<1>23. g[d] = f[n] BY <1>14, <1>19
<1> QED BY <1>13, <1>19, <1>22, <1>23

\* V is all of c's value: its elements, without what follows c.
Whole(h, V, c) ==
  /\ c \in V /\ V \subseteq Alive(h) \cup Permanent /\ nilCell \notin V \ {c}
  /\ \A x \in V : /\ Below(h, x) \in (V \ {c}) \cup {nilCell}
                  /\ x # c => After(h, x) \in (V \ {c}) \cup {nilCell}
  /\ \A y \in V \ {c} : \E x \in V : y = Below(h, x) \/ (x # c /\ y = After(h, x))

\* In g the cells A are the copies of the cells V of h, with the same links.
Twins(h, V, c, A, at, g) ==
  /\ at \in [V -> A] /\ \A x, y \in V : at[x] = at[y] => x = y
  /\ \A y \in A : \E x \in V : at[x] = y
  /\ \A x \in Cells \ A : g[x] = h[x]
  /\ \A x \in V : /\ g[at[x]].type = h[x].type
                  /\ After(g, at[x]) = IF x = c \/ After(h, x) = nilCell THEN nilCell
                                       ELSE at[After(h, x)]
                  /\ Below(g, at[x]) = IF Below(h, x) = nilCell THEN nilCell
                                       ELSE at[Below(h, x)]

\* The copies are in order like the originals.
LEMMA TwinsRanked ==
  ASSUME NEW h, NEW R, NEW A, Shape(h, R \cup A), A \subseteq Cells, A \cap Permanent = {},
         NEW V, NEW c, Whole(h, V, c), V \cap A = {},
         NEW at, NEW g \in Heaps, Twins(h, V, c, A, at, g)
  PROVE  Ranked(g)
<1>n. PICK N \in Nat : \E rank : Falling(h, N, rank) BY ShapeFacts DEF Ranked
<1>1. PICK rank : Falling(h, N, rank) BY <1>n
<1>2. /\ rank \in [Cells -> 0..N] /\ rank[nilCell] = 0
      /\ \A x \in Cells : After(h, x) \in Cells /\ Below(h, x) \in Cells
      /\ After(h, nilCell) = nilCell /\ Below(h, nilCell) = nilCell
      /\ \A x \in Cells \ {nilCell} : rank[After(h, x)] < rank[x] /\ rank[Below(h, x)] < rank[x]
  BY <1>1 DEF Falling
<1>3. /\ at \in [V -> A] /\ \A x, y \in V : at[x] = at[y] => x = y
      /\ \A y \in A : \E x \in V : at[x] = y
      /\ \A x \in Cells \ A : g[x] = h[x]
      /\ \A x \in V : /\ After(g, at[x]) = IF x = c \/ After(h, x) = nilCell THEN nilCell
                                           ELSE at[After(h, x)]
                      /\ Below(g, at[x]) = IF Below(h, x) = nilCell THEN nilCell
                                           ELSE at[Below(h, x)] BY DEF Twins
<1>4. /\ nilCell \in Cells /\ nilCell \notin A /\ V \subseteq Cells
      /\ \A x \in Cells \ A : After(g, x) = After(h, x) /\ Below(g, x) = Below(h, x)
      /\ \A x \in Cells : After(h, x) \notin A /\ Below(h, x) \notin A
  <2>1. V \subseteq Cells /\ nilCell \in Cells /\ nilCell \notin A
    BY Special DEF Whole, Alive, Permanent
  <2>2. \A x \in Cells : After(h, x) \notin A /\ Below(h, x) \notin A BY <2>1, ShapeFacts
  <2> QED BY <1>3, <2>1, <2>2 DEF After, Below
<1>5. /\ \A x \in V : /\ Below(h, x) # nilCell => Below(h, x) \in V
                      /\ x # c /\ After(h, x) # nilCell => After(h, x) \in V
      /\ \A x \in V \ {c} : x # nilCell BY DEF Whole
<1> DEFINE of(y) == CHOOSE x \in V : at[x] = y
           r == [x \in Cells |-> IF x \in A THEN rank[of(x)] + 1 ELSE rank[x]]
           M == N + 1
<1>6. \A x \in V : of(at[x]) = x BY <1>3
<1>7. \A x \in V : at[x] \in A /\ r[at[x]] = rank[x] + 1 BY <1>3, <1>6
<1>8. \A x \in Cells \ A : r[x] = rank[x] OBVIOUS
<1>9. \A x \in Cells : rank[x] \in 0..N /\ rank[x] \in Nat BY <1>2
<1>10. r \in [Cells -> 0..M]
  <2>1. ASSUME NEW x \in Cells PROVE r[x] \in 0..M
    <3>1. CASE x \in A
      <4>1. PICK v \in V : at[v] = x BY <1>3, <3>1
      <4>2. r[x] = rank[v] + 1 /\ rank[v] \in 0..N BY <1>4, <1>7, <1>9, <4>1
      <4> QED BY <4>2
    <3>2. CASE x \notin A
      <4>1. r[x] = rank[x] /\ rank[x] \in 0..N BY <1>8, <1>9, <3>2
      <4> QED BY <4>1
    <3> QED BY <3>1, <3>2
  <2> QED BY <2>1
<1> HIDE DEF r
<1>11. r[nilCell] = 0 BY <1>2, <1>4, <1>8
<1>12. ASSUME NEW x \in Cells \ {nilCell}
       PROVE /\ After(g, x) \in Cells /\ Below(g, x) \in Cells
             /\ r[After(g, x)] < r[x] /\ r[Below(g, x)] < r[x]
  <2>1. CASE x \in A
    <3>1. PICK v \in V : at[v] = x BY <1>3, <2>1
    <3>2. v \in Cells /\ r[x] = rank[v] + 1 /\ rank[v] \in Nat BY <1>4, <1>7, <1>9, <3>1
    <3>3. ASSUME NEW w \in V, w # c, v # nilCell => rank[w] < rank[v], w \in {After(h, v), Below(h, v)}
          PROVE at[w] \in Cells /\ r[at[w]] < r[x]
      <4>1. w # nilCell /\ w \in Cells /\ rank[w] \in Nat BY <1>4, <1>5, <1>9, <3>3
      <4>2. v # nilCell BY <1>2, <3>3, <4>1
      <4>3. at[w] \in A /\ r[at[w]] = rank[w] + 1 BY <1>7
      <4> QED BY <3>2, <3>3, <4>1, <4>2, <4>3
    <3>4. After(g, x) = nilCell \/ \E w \in V : w # c /\ w = After(h, v) /\ After(g, x) = at[w]
      BY <1>3, <1>5, <3>1 DEF Whole
    <3>5. Below(g, x) = nilCell \/ \E w \in V : w # c /\ w = Below(h, v) /\ Below(g, x) = at[w]
      BY <1>3, <1>5, <3>1 DEF Whole
    <3>6. v # nilCell => rank[After(h, v)] < rank[v] /\ rank[Below(h, v)] < rank[v] BY <1>2, <3>2
    <3>7. nilCell \in Cells /\ r[nilCell] < r[x] BY <1>4, <1>11, <3>2
    <3>8. After(g, x) \in Cells /\ r[After(g, x)] < r[x] BY <3>3, <3>4, <3>6, <3>7
    <3>9. Below(g, x) \in Cells /\ r[Below(g, x)] < r[x] BY <3>3, <3>5, <3>6, <3>7
    <3> QED BY <3>8, <3>9
  <2>2. CASE x \notin A
    <3>1. PICK u \in Cells, v \in Cells : u = After(h, x) /\ v = Below(h, x) /\ u \notin A /\ v \notin A
                                          /\ rank[u] < rank[x] /\ rank[v] < rank[x] BY <1>2, <1>4
    <3>2. After(g, x) = u /\ Below(g, x) = v BY <1>4, <2>2, <3>1
    <3>3. r[u] = rank[u] /\ r[v] = rank[v] /\ r[x] = rank[x] BY <1>8, <2>2, <3>1
    <3> QED BY <3>1, <3>2, <3>3
  <2> QED BY <2>1, <2>2
<1>13. After(g, nilCell) = nilCell /\ Below(g, nilCell) = nilCell BY <1>2, <1>4
<1>14. \A x \in Cells : After(g, x) \in Cells /\ Below(g, x) \in Cells BY <1>4, <1>12, <1>13
<1>15. M \in Nat OBVIOUS
<1> HIDE DEF M
<1>16. \A x \in Cells \ {nilCell} : r[After(g, x)] < r[x] /\ r[Below(g, x)] < r[x] BY <1>12
<1> QED BY <1>10, <1>11, <1>13, <1>14, <1>15, <1>16, MakeRanked

\* What copying keeps, and where the lists of the copy end.
TwinsEnd(h, R, V, c, A, at, g) ==
  /\ Shape(g, R \cup {at[c]}) /\ at[c] \in A
  /\ \A x \in Cells \ A : \A e : EndOf(h, x, e) => EndOf(g, x, e)
  /\ \A x \in V : \A e : EndOf(h, x, e) => e \in V /\ EndOf(g, at[x], at[e])

\* A copy is a tree of its own, that ends where the original ends.
LEMMA TwinsShape ==
  ASSUME NEW h, NEW R, NEW A, Shape(h, R \cup A), A \subseteq Cells, A \cap Permanent = {},
         NEW V, NEW c, Whole(h, V, c), V \cap A = {}, R \cap A = {},
         NEW at, NEW g \in Heaps, Twins(h, V, c, A, at, g), A \subseteq Alive(h),
         \A x \in A : Below(h, x) = nilCell
  PROVE  TwinsEnd(h, R, V, c, A, at, g)
<1>1. Ranked(g) BY TwinsRanked
<1>2. /\ at \in [V -> A] /\ \A x, y \in V : at[x] = at[y] => x = y
      /\ \A y \in A : \E x \in V : at[x] = y
      /\ \A x \in Cells \ A : g[x] = h[x]
      /\ \A x \in V : /\ g[at[x]].type = h[x].type
                      /\ After(g, at[x]) = IF x = c \/ After(h, x) = nilCell THEN nilCell
                                           ELSE at[After(h, x)]
                      /\ Below(g, at[x]) = IF Below(h, x) = nilCell THEN nilCell
                                           ELSE at[Below(h, x)] BY DEF Twins
<1>3. /\ c \in V /\ nilCell \notin V \ {c} /\ V \subseteq Alive(h) \cup Permanent
      /\ \A x \in V : /\ Below(h, x) \in (V \ {c}) \cup {nilCell}
                      /\ x # c => After(h, x) \in (V \ {c}) \cup {nilCell}
      /\ \A y \in V \ {c} : \E x \in V : y = Below(h, x) \/ (x # c /\ y = After(h, x))
  BY DEF Whole
<1>4. /\ nilCell \in Cells /\ nilCell \notin A /\ trueCell \in Cells \ A /\ V \subseteq Cells
      /\ \A x \in Cells \ A : After(g, x) = After(h, x) /\ Below(g, x) = Below(h, x)
      /\ \A x \in Cells : After(h, x) \notin A /\ Below(h, x) \notin A
      /\ h[nilCell].type = "nil" /\ h[trueCell].type = "true"
      /\ g[nilCell].type = "nil" /\ g[trueCell].type = "true"
  <2>1. V \subseteq Cells /\ nilCell \in Cells /\ nilCell \notin A /\ trueCell \in Cells \ A
    BY <1>3, Special DEF Alive, Permanent
  <2>2. \A x \in Cells : After(h, x) \notin A /\ Below(h, x) \notin A BY <2>1, ShapeFacts
  <2>3. h[nilCell].type = "nil" /\ h[trueCell].type = "true" BY DEF Shape
  <2> QED BY <1>2, <2>1, <2>2, <2>3 DEF After, Below
<1>5. \A x \in V : h[x].type \notin {"unmapped", "free"} BY <1>3, <1>4 DEF Alive, Permanent
<1>6. Alive(g) = Alive(h)
  <2>1. ASSUME NEW x \in Cells PROVE x \in Alive(g) <=> x \in Alive(h)
    <3>1. CASE x \in A
      <4>1. PICK v \in V : at[v] = x BY <1>2, <3>1
      <4>2. g[x].type \notin {"unmapped", "free"} /\ x \notin Permanent BY <1>2, <1>5, <3>1, <4>1
      <4> QED BY <3>1, <4>2 DEF Alive
    <3>2. CASE x \notin A BY <1>2, <3>2 DEF Alive
    <3> QED BY <3>1, <3>2
  <2>2. Alive(g) \subseteq Cells /\ Alive(h) \subseteq Cells BY DEF Alive
  <2> QED BY <2>1, <2>2
<1>7. PICK z : z = at[c] OBVIOUS
<1>8. z \in A /\ \A x \in V : at[x] \in A /\ (at[x] = z => x = c) BY <1>2, <1>3, <1>7
<1>9. ASSUME NEW v \in V
      PROVE /\ After(g, at[v]) \in (A \ {z}) \cup {nilCell}
            /\ Below(g, at[v]) \in (A \ {z}) \cup {nilCell}
            /\ \A w \in V : /\ at[w] = After(g, at[v]) => v # c /\ After(h, v) = w /\ w # nilCell
                            /\ at[w] = Below(g, at[v]) => Below(h, v) = w /\ w # nilCell
  <2>1. After(g, at[v]) = IF v = c \/ After(h, v) = nilCell THEN nilCell ELSE at[After(h, v)]
    BY <1>2
  <2>2. Below(g, at[v]) = IF Below(h, v) = nilCell THEN nilCell ELSE at[Below(h, v)] BY <1>2
  <2>3. \A w \in V : at[w] # nilCell BY <1>4, <1>8
  <2>4. \A w \in V \ {c} : at[w] \in A \ {z} BY <1>8
  <2>5. v # c /\ After(h, v) # nilCell => After(h, v) \in V \ {c} BY <1>3
  <2>6. Below(h, v) # nilCell => Below(h, v) \in V \ {c} BY <1>3
  <2>7. After(g, at[v]) \in (A \ {z}) \cup {nilCell} BY <2>1, <2>4, <2>5
  <2>8. Below(g, at[v]) \in (A \ {z}) \cup {nilCell} BY <2>2, <2>4, <2>6
  <2>9. ASSUME NEW w \in V, at[w] = After(g, at[v]) PROVE v # c /\ After(h, v) = w /\ w # nilCell
    <3>1. v # c /\ After(h, v) # nilCell /\ at[w] = at[After(h, v)] BY <2>1, <2>3, <2>9
    <3> QED BY <1>2, <2>5, <3>1
  <2>10. ASSUME NEW w \in V, at[w] = Below(g, at[v]) PROVE Below(h, v) = w /\ w # nilCell
    <3>1. Below(h, v) # nilCell /\ at[w] = at[Below(h, v)] BY <2>2, <2>3, <2>10
    <3> QED BY <1>2, <2>6, <3>1
  <2> QED BY <2>7, <2>8, <2>9, <2>10
<1>10. ASSUME NEW x \in Cells \ A
       PROVE /\ After(g, x) \in (Alive(h) \ (R \cup A)) \cup {nilCell}
             /\ Below(g, x) \in (Alive(h) \ (R \cup A)) \cup {nilCell} BY <1>4, ShapeFacts
<1>11. OneOwner(g)
  <2>1. OneOwner(h) BY ShapeFacts
  <2>2. \A x \in Cells \ A : Links(g, x) = Links(h, x) /\ Links(g, x) \cap A = {}
    BY <1>4 DEF Links
  <2>3. ASSUME NEW x \in A PROVE Links(g, x) \subseteq A
    <3>1. PICK v \in V : at[v] = x BY <1>2
    <3> QED BY <1>9, <3>1 DEF Links
  <2>4. ASSUME NEW x \in A, NEW y \in A, NEW k, k \in Links(g, x), k \in Links(g, y)
        PROVE x = y
    <3>1. PICK u \in V, v \in V : at[u] = x /\ at[v] = y BY <1>2
    <3>2. k \in A /\ k # nilCell BY <2>3, <2>4 DEF Links
    <3>3. PICK w \in V : at[w] = k BY <1>2, <3>2
    <3>4. w # nilCell /\ w \in {After(h, u), Below(h, u)} BY <1>9, <2>4, <3>1, <3>3 DEF Links
    <3>5. w \in {After(h, v), Below(h, v)} BY <1>9, <2>4, <3>1, <3>3 DEF Links
    <3>6. u \in Cells /\ v \in Cells BY <1>4
    <3>7. w \in Links(h, u) /\ w \in Links(h, v) BY <3>4, <3>5 DEF Links
    <3>8. u = v BY <2>1, <3>6, <3>7 DEF OneOwner
    <3> QED BY <3>1, <3>8
  <2>5. ASSUME NEW x \in Cells, NEW y \in Cells, NEW k, k \in Links(g, x), k \in Links(g, y)
        PROVE x = y
    <3>1. CASE x \in A /\ y \in A BY <2>4, <2>5, <3>1
    <3>2. CASE x \notin A /\ y \notin A BY <2>1, <2>2, <2>5, <3>2 DEF OneOwner
    <3>3. CASE x \in A <=> y \notin A BY <2>2, <2>3, <2>5, <3>3
    <3> QED BY <3>1, <3>2, <3>3
  <2> QED BY <2>5 DEF OneOwner
<1>12. Shape(g, R \cup {z})
  <2>1. R \cup {z} \subseteq Alive(g) BY <1>6, <1>8, ShapeFacts
  <2>2. ASSUME NEW x \in Cells
        PROVE /\ After(g, x) \in (Alive(g) \ (R \cup {z})) \cup {nilCell}
              /\ Below(g, x) \in (Alive(g) \ (R \cup {z})) \cup {nilCell}
              /\ After(g, x) = Below(g, x) => After(g, x) = nilCell
    <3>1. CASE x \in A
      <4>1. PICK v \in V : at[v] = x BY <1>2, <3>1
      <4>2. /\ After(g, x) \in (Alive(g) \ (R \cup {z})) \cup {nilCell}
            /\ Below(g, x) \in (Alive(g) \ (R \cup {z})) \cup {nilCell} BY <1>6, <1>9, <4>1
      <4>3. ASSUME After(g, x) = Below(g, x), After(g, x) # nilCell PROVE FALSE
        <5>1. After(g, x) \in A BY <1>9, <4>1, <4>3
        <5>2. PICK w \in V : at[w] = After(g, x) BY <1>2, <5>1
        <5>3. After(h, v) = w /\ Below(h, v) = w /\ w # nilCell BY <1>9, <4>1, <4>3, <5>2
        <5>4. v \in Cells BY <1>4
        <5> QED BY <5>3, <5>4, ShapeFacts
      <4> QED BY <4>2, <4>3
    <3>2. CASE x \notin A
      <4>1. After(g, x) = Below(g, x) => After(g, x) = nilCell BY <1>4, <3>2, ShapeFacts
      <4> QED BY <1>6, <1>8, <1>10, <3>2, <4>1
    <3> QED BY <3>1, <3>2
  <2>3. After(g, trueCell) = nilCell BY <1>4 DEF Shape
  <2>4. ASSUME NEW r \in R \cup {z} PROVE After(g, r) = nilCell
    <3>1. CASE r \in R
      <4>1. r \in Cells \ A /\ After(h, r) = nilCell BY <3>1, ShapeFacts
      <4> QED BY <1>4, <4>1
    <3>2. CASE r = z BY <1>2, <1>3, <1>7, <3>2
    <3> QED BY <3>1, <3>2
  <2>5. ASSUME NEW y \in Alive(g) \ (R \cup {z})
        PROVE \E x \in Alive(g) : y \in {After(g, x), Below(g, x)}
    <3>1. CASE y \in A
      <4>1. PICK w \in V : at[w] = y BY <1>2, <3>1
      <4>2. w # c BY <1>7, <2>5, <4>1
      <4>3. w # nilCell BY <1>3, <4>2
      <4>4. PICK v \in V : w = Below(h, v) \/ (v # c /\ w = After(h, v)) BY <1>3, <4>2
      <4>5. y \in {After(g, at[v]), Below(g, at[v])} BY <1>2, <4>1, <4>3, <4>4
      <4>6. at[v] \in Alive(g) BY <1>6, <1>8
      <4> QED BY <4>5, <4>6
    <3>2. CASE y \notin A
      <4>1. y \in Alive(h) \ (R \cup A) BY <1>6, <2>5, <3>2
      <4>2. PICK x \in Alive(h) : y \in {After(h, x), Below(h, x)} BY <4>1, ShapeFacts
      <4>3. CASE x \in A
        <5>1. After(h, x) = nilCell /\ Below(h, x) = nilCell BY <4>3, ShapeFacts
        <5>2. y # nilCell BY <4>1, ShapeFacts
        <5> QED BY <4>2, <5>1, <5>2
      <4>4. CASE x \notin A
        <5>1. x \in Cells \ A BY <4>2, <4>4, ShapeFacts
        <5> QED BY <1>4, <1>6, <4>2, <5>1
      <4> QED BY <4>3, <4>4
    <3> QED BY <3>1, <3>2
  <2>6. \A x \in Cells : /\ After(g, x) \in (Alive(g) \ (R \cup {z})) \cup {nilCell}
                         /\ Below(g, x) \in (Alive(g) \ (R \cup {z})) \cup {nilCell} BY <2>2
  <2>7. \A x \in Cells : After(g, x) = Below(g, x) => After(g, x) = nilCell BY <2>2
  <2>8. \A r \in R \cup {z} : After(g, r) = nilCell BY <2>4
  <2>9. \A y \in Alive(g) \ (R \cup {z}) : \E x \in Alive(g) : y \in {After(g, x), Below(g, x)}
    BY <2>5
  <2> QED BY <1>1, <1>4, <1>11, <2>1, <2>3, <2>6, <2>7, <2>8, <2>9, MakeShape
<1>13. Ranked(h) BY ShapeFacts
<1>14. ASSUME NEW x \in Cells \ A, NEW e, EndOf(h, x, e) PROVE EndOf(g, x, e)
  <2>1. Below(h, x) \in Cells BY <1>13, KidsType
  <2>2. \A y \in List(h, Below(h, x)) : y \in Cells /\ y \notin A
    BY <1>13, <2>1, ListAfter, ListAlive
  <2>3. \A y \in List(h, Below(h, x)) : After(g, y) = After(h, y) BY <1>4, <2>2
  <2>4. List(g, Below(h, x)) = List(h, Below(h, x)) BY <1>1, <1>13, <2>1, <2>3, ListSame
  <2> QED BY <1>4, <1>14, <2>3, <2>4 DEF EndOf
<1>15. ASSUME NEW x \in V, NEW e, EndOf(h, x, e) PROVE e \in V /\ EndOf(g, at[x], at[e])
  <2>1. PICK b \in Cells : b = Below(h, x) BY <1>4, <1>13, KidsType
  <2>2. b # nilCell BY <1>15, <2>1 DEF EndOf, List
  <2>3. b \in V \ {c} /\ Below(g, at[x]) = at[b] BY <1>2, <1>3, <2>1, <2>2
  <2>4. at[b] \in Cells \ {nilCell} BY <1>4, <1>8, <2>3
  <2> DEFINE S == {y \in V \ {c} : at[y] \in List(g, at[b])}
  <2>5. S \in SUBSET Cells BY <1>4
  <2>6. b \in S BY <1>1, <2>3, <2>4, ListStep
  <2>7. ASSUME NEW y \in S PROVE Nexts(h)[y] \subseteq S
    <3>1. y \in Cells /\ y \in V \ {c} /\ Nexts(h)[y] = {After(h, y)} \ {nilCell}
      BY <1>13, <2>5, KidsType
    <3>2. ASSUME After(h, y) # nilCell PROVE After(h, y) \in S
      <4>1. After(h, y) \in V \ {c} /\ After(g, at[y]) = at[After(h, y)] BY <1>2, <1>3, <3>1, <3>2
      <4>2. at[After(h, y)] # nilCell BY <1>4, <1>8, <4>1
      <4>3. After(g, at[y]) \in List(g, at[b]) \cup {nilCell} BY <1>1, <2>4, ListAfter
      <4> QED BY <4>1, <4>2, <4>3
    <3> QED BY <3>1, <3>2
  <2>8. Sealed(Nexts(h), S) BY <2>7 DEF Sealed
  <2>9. Nexts(h) \in [Cells -> SUBSET Cells] BY <1>13, KidsType
  <2> HIDE DEF S
  <2>10. List(h, b) \subseteq S BY <2>2, <2>5, <2>6, <2>8, <2>9, ReachSealed DEF List
  <2>11. e \in S BY <1>15, <2>1, <2>10 DEF EndOf
  <2>12. e \in V \ {c} /\ at[e] \in List(g, at[b]) BY <2>11 DEF S
  <2>13. After(g, at[e]) = nilCell BY <1>2, <1>15, <2>12 DEF EndOf
  <2>14. at[e] # nilCell BY <1>4, <1>8, <2>12
  <2> QED BY <2>3, <2>12, <2>13, <2>14 DEF EndOf
<1> QED BY <1>7, <1>8, <1>12, <1>14, <1>15 DEF TwinsEnd

\* Where the links of copies lead.
Of(at, V, y) == IF y \in V THEN at[y] ELSE nilCell
HasItems(h, x) == h[x].type = "list" /\ h[x].contents # nilCell

\* In g the cells A are what copyCell makes of V.
Cloned(h, c, V, A, at, f, g) ==
  /\ at \in [V -> A] /\ \A x, y \in V : at[x] = at[y] => x = y
  /\ \A y \in A : \E x \in V : at[x] = y
  /\ g = [x \in Cells |-> g[x]] /\ \A x \in Cells \ A : g[x] = f[x]
  /\ \A x \in V : g[at[x]] =
       Cell(h[x].type, IF x = c THEN nilCell ELSE Of(at, V, h[x].next),
            IF HasItems(h, x) THEN Of(at, V, Last(Chain(h, h[x].contents)))
            ELSE IF h[x].type = "list" THEN h[x].aux ELSE nilCell,
            IF HasItems(h, x) THEN Of(at, V, h[x].contents) ELSE nilCell)

\* copy is new with the heap g.
MadeOf(h, c, V, A, new, copy) ==
  \E at, g : /\ Cloned(h, c, V, A, at, new.mem.heap, g)
             /\ copy.cell = at[c] /\ copy.mem = [new.mem EXCEPT !.heap = g]

\* The cells are copied one by one.
LEMMA CopiedCells ==
  ASSUME NEW h, NEW c, NEW old, NEW V, Lists(old, V), c \in V,
         NEW new, new.mem \in Memories, new.mem.process # "exited",
         NEW A, Lists(new.cells, A), Len(new.cells) = Len(old)
  PROVE  MadeOf(h, c, V, A, new, Copied(h, c, old, new))
<1>1. PICK n \in Nat : n = Len(old) BY DEF Lists
<1>2. PICK s : s = new.cells OBVIOUS
<1>3. /\ old \in Seq(Cells) /\ s \in Seq(Cells) /\ DOMAIN old = 1..n /\ DOMAIN s = 1..n
      /\ \A i, j \in 1..n : old[i] = old[j] => i = j
      /\ \A i, j \in 1..n : s[i] = s[j] => i = j
      /\ \A y : y \in V <=> \E i \in 1..n : old[i] = y
      /\ \A y : y \in A <=> \E i \in 1..n : s[i] = y BY <1>1, <1>2 DEF Lists
<1>4. \A x : x \in Range(old) <=> x \in V BY <1>3 DEF Range
<1>5. \A x : x \in Range(s) <=> x \in A BY <1>3 DEF Range
<1> DEFINE ix(x) == CHOOSE i \in DOMAIN old : old[i] = x
           jx(x) == CHOOSE i \in DOMAIN old : new.cells[i] = x
           at == [x \in V |-> new.cells[ix(x)]]
<1>6. \A i \in 1..n : ix(old[i]) = i /\ jx(s[i]) = i BY <1>2, <1>3
<1> HIDE DEF ix, jx
<1>7. \A i \in 1..n : old[i] \in V /\ s[i] \in A /\ at[old[i]] = s[i] BY <1>2, <1>3, <1>6
<1>8. \A x \in V : \E i \in 1..n : old[i] = x BY <1>3
<1>9. at \in [V -> A]
  <2>1. ASSUME NEW x \in V PROVE new.cells[ix(x)] \in A
    <3>1. PICK i \in 1..n : old[i] = x BY <1>8
    <3>2. ix(x) = i /\ s[i] \in A BY <1>6, <1>7, <3>1
    <3> QED BY <1>2, <3>2
  <2> QED BY <2>1
<1> HIDE DEF at
<1>10. \A x, y \in V : at[x] = at[y] => x = y BY <1>3, <1>7, <1>8
<1>11. \A y \in A : \E x \in V : at[x] = y BY <1>3, <1>7
<1> DEFINE a(x) == IF x \in Range(old) THEN new.cells[ix(x)] ELSE nilCell
<1>12. \A x : a(x) = Of(at, V, x) BY <1>4 DEF Of, at
<1>13. a(c) = at[c] BY <1>4 DEF at
<1> DEFINE image(x) ==
        Cell(h[x].type, IF x = c THEN nilCell ELSE a(h[x].next),
             IF HasItems(h, x) THEN a(Last(Chain(h, h[x].contents)))
             ELSE IF h[x].type = "list" THEN h[x].aux ELSE nilCell,
             IF HasItems(h, x) THEN a(h[x].contents) ELSE nilCell)
           f == new.mem.heap
           g == [x \in Cells |-> IF x \in Range(new.cells) THEN image(old[jx(x)]) ELSE f[x]]
<1>14. Copied(h, c, old, new) = [cell |-> a(c), mem |-> [new.mem EXCEPT !.heap = g]]
  BY DEF Copied, HasItems, ix, jx
<1> HIDE DEF a
<1>15. A \subseteq Cells BY <1>3
<1>16. ASSUME NEW x \in V PROVE g[at[x]] = image(x)
  <2>1. PICK i \in 1..n : old[i] = x BY <1>8
  <2>2. at[x] = s[i] /\ s[i] \in A BY <1>7, <2>1
  <2>3. s[i] \in Cells /\ s[i] \in Range(new.cells) BY <1>2, <1>5, <1>15, <2>2
  <2>4. jx(s[i]) = i BY <1>6
  <2>5. g[s[i]] = image(old[jx(s[i])]) BY <2>3
  <2> QED BY <2>1, <2>2, <2>4, <2>5
<1>17. \A x \in Cells \ A : g[x] = f[x] BY <1>2, <1>5
<1>18. g = [x \in Cells |-> g[x]] OBVIOUS
<1> HIDE DEF g
<1>19. ASSUME NEW x \in V PROVE g[at[x]] =
       Cell(h[x].type, IF x = c THEN nilCell ELSE Of(at, V, h[x].next),
            IF HasItems(h, x) THEN Of(at, V, Last(Chain(h, h[x].contents)))
            ELSE IF h[x].type = "list" THEN h[x].aux ELSE nilCell,
            IF HasItems(h, x) THEN Of(at, V, h[x].contents) ELSE nilCell)
  <2>1. a(h[x].next) = Of(at, V, h[x].next) BY <1>12
  <2>2. a(h[x].contents) = Of(at, V, h[x].contents) BY <1>12
  <2>3. a(Last(Chain(h, h[x].contents))) = Of(at, V, Last(Chain(h, h[x].contents))) BY <1>12
  <2> QED BY <1>16, <2>1, <2>2, <2>3
<1>20. Cloned(h, c, V, A, at, f, g) BY <1>9, <1>10, <1>11, <1>17, <1>18, <1>19 DEF Cloned
<1> HIDE DEF f
<1>21. Cloned(h, c, V, A, at, new.mem.heap, g) BY <1>20 DEF f
<1>22. /\ Copied(h, c, old, new).cell = at[c]
       /\ Copied(h, c, old, new).mem = [new.mem EXCEPT !.heap = g] BY <1>13, <1>14
<1> QED BY <1>21, <1>22 DEF MadeOf

\* The cells of a value that is in use, or of nil or true.
LEMMA WholeValue ==
  ASSUME NEW h, NEW R, Shape(h, R), NEW c \in Alive(h) \cup Permanent,
         NEW V, V = {c} \cup Tree(h, Below(h, c))
  PROVE  /\ Whole(h, V, c) /\ V \subseteq Cells /\ Lists(Value(h, c), V)
         /\ Len(Value(h, c)) \in Nat
<1>1. c \in Cells /\ Treelike(h) /\ Ranked(h) /\ h \in Heaps /\ Below(h, nilCell) = nilCell
      /\ nilCell \notin Alive(h) /\ Alive(h) \subseteq Cells BY ShapeFacts, Special DEF Permanent
<1>2. c \notin Tree(h, Below(h, c))
  <2>1. CASE c = nilCell BY <1>1, <2>1 DEF Tree
  <2>2. CASE c # nilCell BY <1>1, <2>2, TreeParts
  <2> QED BY <2>1, <2>2
<1>3. Lists(Value(h, c), V) BY <1>1, <1>2, ValueFacts
<1>4. Len(Value(h, c)) \in Nat BY <1>3 DEF Lists
<1>5. PICK b \in Cells : b = Below(h, c) BY <1>1, KidsType
<1>6. b \in Alive(h) \cup {nilCell} BY <1>1, <1>5, ShapeFacts
<1>7. Whole(h, V, c)
  <2>1. CASE b = nilCell
    <3>1. V = {c} BY <1>5, <2>1 DEF Tree
    <3> QED BY <1>5, <2>1, <3>1 DEF Whole
  <2>2. CASE b # nilCell
    <3>1. b \in Alive(h) BY <1>6, <2>2
    <3>2. /\ b \in Tree(h, b) /\ Tree(h, b) \subseteq Alive(h)
          /\ \A x \in Tree(h, b) : Links(h, x) \subseteq Tree(h, b)
          /\ \A y \in Tree(h, b) \ {b} : \E x \in Tree(h, b) : y \in Links(h, x)
      BY <3>1, TreeFacts
    <3>3. V \ {c} = Tree(h, b) BY <1>2, <1>5
    <3>4. V \subseteq Alive(h) \cup Permanent /\ nilCell \notin V \ {c} BY <1>1, <3>2, <3>3
    <3>5. ASSUME NEW x \in V
          PROVE /\ Below(h, x) \in (V \ {c}) \cup {nilCell}
                /\ x # c => After(h, x) \in (V \ {c}) \cup {nilCell}
      <4>1. CASE x = c BY <1>5, <3>2, <3>3, <4>1
      <4>2. CASE x # c
        <5>1. Links(h, x) \subseteq Tree(h, b) BY <3>2, <3>3, <4>2
        <5> QED BY <3>3, <5>1 DEF Links
      <4> QED BY <4>1, <4>2
    <3>6. ASSUME NEW y \in V \ {c}
          PROVE \E x \in V : y = Below(h, x) \/ (x # c /\ y = After(h, x))
      <4>1. CASE y = b BY <1>5, <4>1
      <4>2. CASE y # b
        <5>1. PICK x \in Tree(h, b) : y \in Links(h, x) BY <3>2, <3>3, <4>2
        <5>2. x \in V /\ x # c BY <3>3, <5>1
        <5> QED BY <5>1, <5>2 DEF Links
      <4> QED BY <4>1, <4>2
    <3> QED BY <3>4, <3>5, <3>6 DEF Whole
  <2> QED BY <2>1, <2>2
<1>8. V \subseteq Cells BY <1>1, <1>7, Special DEF Whole, Permanent
<1> QED BY <1>3, <1>4, <1>7, <1>8

\* Walking finds the last cell of a list.
LEMMA LastIsEnd ==
  ASSUME NEW h, Ranked(h), NEW x \in Cells, NEW b \in Cells, b = Below(h, x), b # nilCell
  PROVE  EndOf(h, x, Last(Chain(h, b)))
<1>1. PICK s : s = Chain(h, b) OBVIOUS
<1>2. /\ s \in Seq(Cells) /\ s # <<>>
      /\ \A i \in 1..Len(s) : /\ s[i] # nilCell /\ s[i] \in Cells
                              /\ After(h, s[i]) = IF i = Len(s) THEN nilCell ELSE s[i + 1]
      /\ \A y : y \in List(h, b) <=> \E i \in 1..Len(s) : s[i] = y
  <2>1. s \in Seq(Cells) /\ s # <<>> BY <1>1, ChainFacts
  <2>2. \A i \in 1..Len(s) : s[i] # nilCell /\ s[i] \in Cells BY <1>1, ChainFacts
  <2>3. \A i \in 1..Len(s) : After(h, s[i]) = IF i = Len(s) THEN nilCell ELSE s[i + 1]
    BY <1>1, ChainFacts
  <2>4. \A y : y \in List(h, b) <=> \E i \in 1..Len(s) : s[i] = y BY <1>1, ChainFacts
  <2> QED BY <2>1, <2>2, <2>3, <2>4
<1>3. PICK n \in Nat : n = Len(s) BY <1>2
<1>4. n \in 1..n BY <1>2, <1>3, SeqLen
<1>5. Last(s) = s[n] BY <1>3 DEF Last
<1>6. s[n] # nilCell /\ After(h, s[n]) = nilCell /\ s[n] \in List(h, b) BY <1>2, <1>3, <1>4
<1> QED BY <1>1, <1>5, <1>6 DEF EndOf

\* Memory p has a new root z, else it is like m.
HasRoot(m, R, A, z, p, process) ==
  /\ Tidy(p, R \cup {z}) /\ p.process = process /\ z \in A
  /\ Keeps(m.heap, p.heap, Alive(m.heap))

\* In g the cells at[x] lead where the cells x of V lead in h, but nothing follows at[c].
Copies(h, V, c, at, g) ==
  \A x \in V : /\ g[at[x]].type = h[x].type
               /\ After(g, at[x]) = IF x = c \/ After(h, x) = nilCell THEN nilCell
                                    ELSE at[After(h, x)]
               /\ Below(g, at[x]) = IF Below(h, x) = nilCell THEN nilCell ELSE at[Below(h, x)]
\* A copy belongs to nobody yet; what was there is as it was.
LEMMA ClonedTidy ==
  ASSUME NEW m, NEW R, Tidy(m, R), NEW c \in Alive(m.heap) \cup Permanent,
         NEW V, V = {c} \cup Tree(m.heap, Below(m.heap, c)),
         NEW n, NEW A, Tidy(n, R \cup A), A \cap Alive(m.heap) = {},
         Alive(n.heap) = Alive(m.heap) \cup A, Keeps(m.heap, n.heap, Alive(m.heap)),
         \A y \in A : n.heap[y] = Cell("atom", nilCell, nilCell, nilCell),
         NEW at, NEW g, Cloned(m.heap, c, V, A, at, n.heap, g),
         NEW p, p = [n EXCEPT !.heap = g]
  PROVE  HasRoot(m, R, A, at[c], p, n.process) /\ Copies(m.heap, V, c, at, g)
<1>1. PICK h, f : h = m.heap /\ f = n.heap OBVIOUS
<1>2. /\ Shape(h, R) /\ Shape(f, R \cup A) /\ Lasts(h) /\ Lasts(f) /\ h \in Heaps /\ f \in Heaps
      /\ Ranked(h) /\ Ranked(f)
      /\ Whole(h, V, c) /\ V \subseteq Cells BY <1>1, WholeValue, ShapeFacts DEF Tidy, Owned
<1>3. /\ A \cap Alive(h) = {} /\ Alive(f) = Alive(h) \cup A
      /\ \A y \in A : f[y] = Cell("atom", nilCell, nilCell, nilCell)
      /\ \A x \in Alive(h) : f[x] = h[x] /\ \A e : EndOf(h, x, e) => EndOf(f, x, e)
      /\ c \in Alive(h) \cup Permanent
      /\ V = {c} \cup Tree(h, Below(h, c)) BY <1>1 DEF Keeps
<1>4. /\ A \subseteq Cells /\ A \cap Permanent = {} /\ A \subseteq Alive(f) /\ R \cap A = {}
      /\ V \cap A = {} /\ V \subseteq Alive(h) \cup Permanent
  BY <1>2, <1>3 DEF Alive, Whole, Shape
<1>5. /\ at \in [V -> A] /\ \A x, y \in V : at[x] = at[y] => x = y
      /\ \A y \in A : \E x \in V : at[x] = y
      /\ g = [x \in Cells |-> g[x]] /\ \A x \in Cells \ A : g[x] = f[x]
      /\ \A x \in V : g[at[x]] =
           Cell(h[x].type, IF x = c THEN nilCell ELSE Of(at, V, h[x].next),
                IF HasItems(h, x) THEN Of(at, V, Last(Chain(h, h[x].contents)))
                ELSE IF h[x].type = "list" THEN h[x].aux ELSE nilCell,
                IF HasItems(h, x) THEN Of(at, V, h[x].contents) ELSE nilCell) BY <1>1 DEF Cloned
<1>6. /\ c \in V /\ nilCell \notin V \ {c}
      /\ \A x \in V : /\ Below(h, x) \in (V \ {c}) \cup {nilCell}
                      /\ x # c => After(h, x) \in (V \ {c}) \cup {nilCell}
      /\ \A y \in V \ {c} : \E x \in V : y = Below(h, x) \/ (x # c /\ y = After(h, x))
  BY <1>2 DEF Whole
<1>7. /\ nilCell \in Cells /\ nilCell \notin A /\ trueCell \notin A
      /\ h[nilCell].type = "nil" /\ h[trueCell].type = "true"
      /\ f[nilCell].type = "nil" /\ f[trueCell].type = "true"
      /\ After(h, nilCell) = nilCell /\ After(h, trueCell) = nilCell
      /\ After(f, nilCell) = nilCell /\ After(f, trueCell) = nilCell
  <2>1. nilCell \in Cells /\ nilCell \notin A /\ trueCell \notin A BY <1>4, Special DEF Permanent
  <2>2. /\ h[nilCell].type = "nil" /\ h[trueCell].type = "true"
        /\ f[nilCell].type = "nil" /\ f[trueCell].type = "true"
        /\ After(h, trueCell) = nilCell /\ After(f, trueCell) = nilCell BY <1>2 DEF Shape
  <2>3. After(h, nilCell) = nilCell /\ After(f, nilCell) = nilCell BY <1>2, ShapeFacts
  <2> QED BY <2>1, <2>2, <2>3
<1>8. ASSUME NEW x \in V
      PROVE /\ x \in Cells /\ h[x].type \in Types \ {"unmapped", "free"} /\ f[x].type = h[x].type
            /\ After(f, x) = After(h, x) /\ Below(f, x) = Below(h, x)
            /\ After(h, x) = h[x].next /\ Below(h, x) = h[x].contents
  <2>1. CASE x \in Alive(h)
    <3>1. x \in Cells /\ f[x] = h[x] BY <1>3, <2>1 DEF Alive
    <3>2. h[x].type \in Types \ {"unmapped", "free"} /\ After(h, x) = h[x].next
          /\ Below(h, x) = h[x].contents BY <1>2, <2>1, <3>1, Fields DEF Alive
    <3> QED BY <3>1, <3>2 DEF After, Below
  <2>2. CASE x \in Permanent
    <3>1. x \in {nilCell, trueCell} /\ x \in Cells BY <2>2, Special DEF Permanent
    <3>2. h[x].type \in {"nil", "true"} /\ f[x].type = h[x].type BY <1>7, <3>1
    <3>3. After(f, x) = After(h, x) BY <1>7, <3>1
    <3>4. Below(f, x) = Below(h, x) BY <3>2 DEF Below
    <3>5. After(h, x) = h[x].next BY <3>2 DEF After
    <3>6. Below(h, x) = h[x].contents BY <1>2, <3>1, Fields
    <3> QED BY <3>1, <3>2, <3>3, <3>4, <3>5, <3>6 DEF Types
  <2> QED BY <1>4, <2>1, <2>2
<1>9. Whole(f, V, c)
  <2>1. V \subseteq Alive(f) \cup Permanent BY <1>3, <1>4
  <2> QED BY <1>6, <1>8, <2>1 DEF Whole
<1>10. \A x \in V : x # c => x # nilCell BY <1>6
<1>11. nilCell \in V => V = {c}
  <2>1. ASSUME nilCell \in V PROVE V = {c}
    <3>1. c = nilCell BY <1>6, <2>1
    <3>2. Below(h, c) = nilCell BY <1>2, <3>1, ShapeFacts
    <3> QED BY <1>3, <3>2 DEF Tree
  <2> QED BY <2>1
<1>12. ASSUME NEW x \in V, NEW y \in (V \ {c}) \cup {nilCell}, x # c \/ y # nilCell
       PROVE Of(at, V, y) = IF y = nilCell THEN nilCell ELSE at[y]
  <2>1. CASE y = nilCell
    <3>1. nilCell \notin V BY <1>11, <1>12, <2>1
    <3> QED BY <2>1, <3>1 DEF Of
  <2>2. CASE y # nilCell BY <1>12, <2>2 DEF Of
  <2> QED BY <2>1, <2>2
<1>13. \A y : Of(at, V, y) \in Cells BY <1>4, <1>5, <1>7 DEF Of
<1>14. ASSUME NEW x \in V
       PROVE /\ g[at[x]].type = h[x].type
             /\ After(g, at[x]) = IF x = c \/ After(h, x) = nilCell THEN nilCell
                                  ELSE at[After(h, x)]
             /\ Below(g, at[x]) = IF Below(h, x) = nilCell THEN nilCell ELSE at[Below(h, x)]
  <2>1. PICK a, b, nx :
           /\ a = IF HasItems(h, x) THEN Of(at, V, Last(Chain(h, h[x].contents)))
                  ELSE IF h[x].type = "list" THEN h[x].aux ELSE nilCell
           /\ b = IF HasItems(h, x) THEN Of(at, V, h[x].contents) ELSE nilCell
           /\ nx = IF x = c THEN nilCell ELSE Of(at, V, h[x].next) OBVIOUS
  <2>2. g[at[x]] = Cell(h[x].type, nx, a, b) BY <1>5, <2>1
  <2>3. g[at[x]].type = h[x].type /\ g[at[x]].next = nx /\ g[at[x]].contents = b BY <2>2 DEF Cell
  <2>4. nx = IF x = c \/ After(h, x) = nilCell THEN nilCell ELSE at[After(h, x)]
    <3>1. CASE x = c BY <2>1, <3>1
    <3>2. CASE x # c
      <4>1. After(h, x) \in (V \ {c}) \cup {nilCell} /\ h[x].next = After(h, x)
        BY <1>6, <1>8, <3>2
      <4>2. Of(at, V, After(h, x)) = IF After(h, x) = nilCell THEN nilCell ELSE at[After(h, x)]
        BY <1>12, <3>2, <4>1
      <4> QED BY <2>1, <3>2, <4>1, <4>2
    <3> QED BY <3>1, <3>2
  <2>5. h[x].type \notin {"unmapped", "free"} BY <1>8
  <2>6. After(g, at[x]) = nx BY <2>3, <2>5 DEF After
  <2>7. CASE HasItems(h, x)
    <3>1. h[x].type = "list" /\ Below(h, x) # nilCell /\ h[x].contents = Below(h, x)
      BY <1>8, <2>7 DEF HasItems
    <3>2. Below(h, x) \in (V \ {c}) \cup {nilCell} BY <1>6
    <3>3. Of(at, V, Below(h, x)) = at[Below(h, x)] BY <1>12, <3>1, <3>2
    <3>4. Below(g, at[x]) = b BY <2>3, <3>1 DEF Below
    <3> QED BY <2>1, <2>3, <2>4, <2>6, <2>7, <3>1, <3>3, <3>4
  <2>8. CASE ~HasItems(h, x)
    <3>1. b = nilCell BY <2>1, <2>8
    <3>2. Below(g, at[x]) = nilCell BY <2>3, <3>1 DEF Below
    <3>3. Below(h, x) = nilCell BY <1>8, <2>8 DEF HasItems, Below
    <3> QED BY <2>3, <2>4, <2>6, <3>2, <3>3
  <2> QED BY <2>7, <2>8
<1>15. g \in Heaps
  <2>1. ASSUME NEW y \in Cells
        PROVE /\ g[y] \in [type : Types, next : Cells \cup {NULL}, aux : Cells, contents : Cells]
              /\ g[y].type # "list" => g[y].contents = nilCell
    <3>1. CASE y \in A
      <4>1. PICK x \in V : at[x] = y BY <1>5, <3>1
      <4>2. PICK a, b, nx :
               /\ a = IF HasItems(h, x) THEN Of(at, V, Last(Chain(h, h[x].contents)))
                      ELSE IF h[x].type = "list" THEN h[x].aux ELSE nilCell
               /\ b = IF HasItems(h, x) THEN Of(at, V, h[x].contents) ELSE nilCell
               /\ nx = IF x = c THEN nilCell ELSE Of(at, V, h[x].next) OBVIOUS
      <4>3. g[y] = Cell(h[x].type, nx, a, b) BY <1>5, <4>1, <4>2
      <4>4. h[x].aux \in Cells /\ h[x].type \in Types BY <1>2, <1>8, Fields
      <4>5. a \in Cells /\ b \in Cells /\ nx \in Cells \cup {NULL} BY <1>7, <1>13, <4>2, <4>4
      <4>6. h[x].type # "list" => b = nilCell BY <4>2 DEF HasItems
      <4>7. PICK ty : ty = h[x].type OBVIOUS
      <4>8. g[y] = [type |-> ty, next |-> nx, aux |-> a, contents |-> b] BY <4>3, <4>7 DEF Cell
      <4> QED BY <4>4, <4>5, <4>6, <4>7, <4>8
    <3>2. CASE y \notin A
      <4>1. g[y] = f[y] BY <1>5, <3>2
      <4> QED BY <1>2, <4>1 DEF Heaps
    <3> QED BY <3>1, <3>2
  <2>2. g = [x \in Cells |-> g[x]] BY <1>5
  <2>3. g \in [Cells -> [type : Types, next : Cells \cup {NULL}, aux : Cells, contents : Cells]]
    BY <2>1, <2>2
  <2> QED BY <2>1, <2>3 DEF Heaps
<1>16. Twins(f, V, c, A, at, g)
  <2>1. ASSUME NEW x \in V
        PROVE /\ g[at[x]].type = f[x].type
              /\ After(g, at[x]) = IF x = c \/ After(f, x) = nilCell THEN nilCell
                                   ELSE at[After(f, x)]
              /\ Below(g, at[x]) = IF Below(f, x) = nilCell THEN nilCell ELSE at[Below(f, x)]
    BY <1>8, <1>14
  <2> QED BY <1>5, <2>1 DEF Twins
<1>17. \A x \in A : Below(f, x) = nilCell BY <1>3 DEF Cell, Below
<1>18. /\ Shape(g, R \cup {at[c]}) /\ at[c] \in A
       /\ \A x \in Cells \ A : \A e : EndOf(f, x, e) => EndOf(g, x, e)
       /\ \A x \in V : \A e : EndOf(f, x, e) => e \in V /\ EndOf(g, at[x], at[e])
  <2>1. TwinsEnd(f, R, V, c, A, at, g) BY <1>2, <1>4, <1>9, <1>15, <1>16, <1>17, TwinsShape
  <2> QED BY <2>1 DEF TwinsEnd
<1>19. Lasts(g)
  <2>1. ASSUME NEW y \in Alive(g), g[y].type = "list", g[y].aux # nilCell
        PROVE EndOf(g, y, g[y].aux)
    <3>1. CASE y \in A
      <4>1. PICK x \in V : at[x] = y BY <1>5, <3>1
      <4>2. PICK a, b, nx :
               /\ a = IF HasItems(h, x) THEN Of(at, V, Last(Chain(h, h[x].contents)))
                      ELSE IF h[x].type = "list" THEN h[x].aux ELSE nilCell
               /\ b = IF HasItems(h, x) THEN Of(at, V, h[x].contents) ELSE nilCell
               /\ nx = IF x = c THEN nilCell ELSE Of(at, V, h[x].next) OBVIOUS
      <4>3. g[y] = Cell(h[x].type, nx, a, b) BY <1>5, <4>1, <4>2
      <4>4. g[y].aux = a /\ g[y].type = h[x].type BY <4>3 DEF Cell
      <4>5. h[x].type = "list" /\ x \in Cells BY <1>8, <2>1, <4>4
      <4>6. x \in Alive(h) BY <1>4, <1>7, <4>5 DEF Permanent
      <4>7. PICK d \in Cells : d = Below(h, x) /\ d = h[x].contents BY <1>2, <1>8, <4>5, Fields
      <4>8. CASE d = nilCell
        <5>1. a = h[x].aux BY <4>2, <4>5, <4>7, <4>8 DEF HasItems
        <5>2. EndOf(h, x, a) BY <1>2, <2>1, <4>4, <4>5, <4>6, <5>1 DEF Lasts
        <5> QED BY <4>7, <4>8, <5>2 DEF EndOf, List
      <4>9. CASE d # nilCell
        <5>1. PICK e : e = Last(Chain(h, d)) OBVIOUS
        <5>2. EndOf(h, x, e) BY <1>2, <4>5, <4>7, <4>9, <5>1, LastIsEnd
        <5>3. e \in V /\ EndOf(g, y, at[e]) BY <1>3, <1>18, <4>1, <4>6, <5>2
        <5>4. a = Of(at, V, e) BY <4>2, <4>5, <4>7, <4>9, <5>1 DEF HasItems
        <5> QED BY <4>4, <5>3, <5>4 DEF Of
      <4> QED BY <4>8, <4>9
    <3>2. CASE y \notin A
      <4>1. y \in Cells /\ g[y] = f[y] BY <1>5, <2>1, <3>2 DEF Alive
      <4>2. y \in Alive(f) BY <2>1, <4>1 DEF Alive
      <4>3. EndOf(f, y, g[y].aux) BY <1>2, <2>1, <4>1, <4>2 DEF Lasts
      <4> QED BY <1>18, <3>2, <4>1, <4>3
    <3> QED BY <3>1, <3>2
  <2> QED BY <2>1 DEF Lasts
<1>20. n \in Memories /\ Blocked(n) /\ \E s : FreedAs(n, s) BY DEF Tidy
<1>21. PICK fr, bl, pr : /\ fr \in Cells \cup {NULL} /\ bl \in Seq(1..MaxBlocks)
                         /\ pr \in {"runs", "exited", "crashed"}
                         /\ n = [heap |-> f, free |-> fr, blocks |-> bl, process |-> pr]
  BY <1>1, <1>20 DEF Memories
<1>22. p = [heap |-> g, free |-> fr, blocks |-> bl, process |-> pr] BY ONLY <1>21, p = [n EXCEPT !.heap = g]
<1>23. p \in Memories BY ONLY <1>15, <1>21, <1>22 DEF Memories
<1>24. p.heap = g /\ p.free = n.free /\ p.blocks = n.blocks /\ p.process = n.process
  BY ONLY <1>21, <1>22
<1>25. \A y \in A : g[y].type \notin {"unmapped", "free"} /\ f[y].type = "atom"
  <2>1. ASSUME NEW y \in A PROVE g[y].type \notin {"unmapped", "free"}
    <3>1. PICK x \in V : at[x] = y BY <1>5
    <3> QED BY <1>8, <1>14, <3>1
  <2>2. \A y \in A : f[y].type = "atom" BY <1>3 DEF Cell
  <2> QED BY <2>1, <2>2
<1>26. \A y \in Cells : /\ g[y].type = "unmapped" <=> f[y].type = "unmapped"
                        /\ g[y].type = "free" <=> f[y].type = "free"
                        /\ g[y].type = "free" => g[y] = f[y] BY <1>5, <1>25
<1>27. Blocked(p) BY <1>1, <1>20, <1>24, <1>26 DEF Blocked
<1>28. \E s : FreedAs(p, s)
  <2>1. PICK s : FreedAs(n, s) BY <1>20
  <2>2. {x \in Cells : g[x].type = "free"} = {x \in Cells : f[x].type = "free"} BY <1>26
  <2>3. ASSUME NEW i \in 1..Len(s) PROVE g[s[i]] = f[s[i]]
    <3>1. s[i] \in {x \in Cells : f[x].type = "free"} BY <1>1, <2>1 DEF FreedAs, Lists
    <3> QED BY <1>26, <3>1
  <2>4. /\ Lists(s, {x \in Cells : f[x].type = "free"})
        /\ n.free = IF s = <<>> THEN NULL ELSE s[1]
        /\ \A i \in 1..Len(s) : f[s[i]].next = IF i = Len(s) THEN NULL ELSE s[i + 1]
    BY <1>1, <2>1 DEF FreedAs
  <2>5. Lists(s, {x \in Cells : g[x].type = "free"}) BY <2>2, <2>4
  <2>6. \A i \in 1..Len(s) : g[s[i]].next = IF i = Len(s) THEN NULL ELSE s[i + 1] BY <2>3, <2>4
  <2>7. FreedAs(p, s) BY <1>24, <2>4, <2>5, <2>6 DEF FreedAs
  <2> QED BY <2>7
<1>29. Tidy(p, R \cup {at[c]}) BY <1>18, <1>19, <1>23, <1>24, <1>27, <1>28 DEF Tidy, Owned
<1>30. ASSUME NEW x \in Alive(h)
       PROVE x \in Alive(g) /\ g[x] = h[x] /\ \A e : EndOf(h, x, e) => EndOf(g, x, e)
  <2>1. x \in Cells \ A /\ f[x] = h[x] BY <1>3 DEF Alive
  <2>2. g[x] = h[x] BY <1>5, <2>1
  <2>3. x \in Alive(g) BY <2>2 DEF Alive
  <2> QED BY <1>3, <1>18, <2>1, <2>2, <2>3
<1>31. Keeps(m.heap, p.heap, Alive(m.heap)) BY <1>1, <1>24, <1>30 DEF Keeps
<1>32. HasRoot(m, R, A, at[c], p, n.process) BY <1>18, <1>24, <1>29, <1>31 DEF HasRoot
<1>33. Copies(m.heap, V, c, at, g) BY <1>1, <1>14 DEF Copies
<1> QED BY ONLY <1>32, <1>33

\* new is a copy that belongs to nobody yet, or there was no memory for it.
Fresh(m, R, new) ==
  \/ /\ new.mem.process = "exited" /\ new.cell = nilCell
     /\ \E A : Tidy(new.mem, R \cup A)
     /\ Keeps(m.heap, new.mem.heap, Alive(m.heap))
  \/ /\ new.mem.process = m.process /\ new.cell \in Cells \ (Alive(m.heap) \cup Permanent)
     /\ Tidy(new.mem, R \cup {new.cell}) /\ Keeps(m.heap, new.mem.heap, Alive(m.heap))

\* copyCell, of a cell that is in use, or of nilCell or trueCell.
LEMMA CopyTidy ==
  ASSUME NEW m, NEW R, Tidy(m, R), NEW c \in Alive(m.heap) \cup Permanent
  PROVE  Fresh(m, R, Copy(m, c))
<1>1. Shape(m.heap, R) BY DEF Tidy, Owned
<1>2. PICK V : V = {c} \cup Tree(m.heap, Below(m.heap, c)) OBVIOUS
<1>3. Whole(m.heap, V, c) /\ Lists(Value(m.heap, c), V) /\ Len(Value(m.heap, c)) \in Nat
  BY <1>1, <1>2, WholeValue
<1>4. PICK n, old : n \in Nat /\ old = Value(m.heap, c) /\ n = Len(old) BY <1>3
<1>5. PICK new : new = Filled(m, n) OBVIOUS
<1>6. Given(m, R, n, new) BY <1>4, <1>5, FilledTidy
<1>7. PICK A : /\ Tidy(new.mem, R \cup A) /\ A \cap Alive(m.heap) = {}
               /\ Alive(new.mem.heap) = Alive(m.heap) \cup A
               /\ Keeps(m.heap, new.mem.heap, Alive(m.heap))
               /\ new.mem.process # "exited" =>
                    /\ Lists(new.cells, A) /\ Len(new.cells) = n /\ new.mem.process = m.process
                    /\ \A y \in A : new.mem.heap[y] = Cell("atom", nilCell, nilCell, nilCell)
  BY <1>6 DEF Given
<1>8. PICK copy : copy = Copied(m.heap, c, old, new) OBVIOUS
<1>9. Copy(m, c) = copy BY <1>4, <1>5, <1>8 DEF Copy
<1>10. CASE new.mem.process = "exited"
  <2>1. copy = [cell |-> nilCell, mem |-> new.mem] BY <1>8, <1>10 DEF Copied
  <2>2. copy.cell = nilCell /\ copy.mem = new.mem BY <2>1
  <2> QED BY <1>7, <1>9, <1>10, <2>2 DEF Fresh
<1>11. CASE new.mem.process # "exited"
  <2>1. /\ Lists(new.cells, A) /\ Len(new.cells) = Len(old) /\ new.mem.process = m.process
        /\ \A y \in A : new.mem.heap[y] = Cell("atom", nilCell, nilCell, nilCell)
    BY <1>4, <1>7, <1>11
  <2>2. new.mem \in Memories /\ c \in V /\ Lists(old, V) BY <1>3, <1>4, <1>7 DEF Tidy, Whole
  <2>3. PICK at, g : /\ Cloned(m.heap, c, V, A, at, new.mem.heap, g)
                     /\ copy.cell = at[c] /\ copy.mem = [new.mem EXCEPT !.heap = g]
    <3>1. MadeOf(m.heap, c, V, A, new, copy) BY <1>8, <1>11, <2>1, <2>2, CopiedCells
    <3> QED BY <3>1 DEF MadeOf
  <2>4. PICK p, k : p = copy.mem /\ k = new.mem OBVIOUS
  <2>5. /\ Tidy(k, R \cup A) /\ Alive(k.heap) = Alive(m.heap) \cup A
        /\ Keeps(m.heap, k.heap, Alive(m.heap))
        /\ \A y \in A : k.heap[y] = Cell("atom", nilCell, nilCell, nilCell)
        /\ Cloned(m.heap, c, V, A, at, k.heap, g) /\ p = [k EXCEPT !.heap = g]
    BY <1>7, <2>1, <2>3, <2>4
  <2>6. /\ Tidy(p, R \cup {at[c]}) /\ p.process = k.process /\ at[c] \in A
        /\ Keeps(m.heap, p.heap, Alive(m.heap))
    <3>1. HasRoot(m, R, A, at[c], p, k.process) BY <1>2, <1>7, <2>5, ClonedTidy
    <3> QED BY <3>1 DEF HasRoot
  <2>7. at[c] \in Cells \ (Alive(m.heap) \cup Permanent) BY <1>7, <2>6 DEF Alive
  <2> QED BY <1>9, <2>1, <2>3, <2>4, <2>6, <2>7 DEF Fresh
<1> QED BY <1>10, <1>11

Frees(h, b, i) == {x \in Cells : x[1] = b /\ x[2] <= i /\ h[x].type = "free"}

\* s is what the first i cells of block b have of free ones.
FirstFree(h, b, i, s) ==
  /\ Lists(s, Frees(h, b, i)) /\ Len(s) <= i
  /\ Len(s) = i => \A j \in 1..i : h[<<b, j>>].type = "free"

\* The free cells of a block, which is empty if they are as many as it has.
LEMMA FreeOfFacts ==
  ASSUME NEW h \in Heaps, NEW b \in 1..MaxBlocks
  PROVE  FirstFree(h, b, BlockSize, FreeOf(h, b))
<1> DEFINE S == Seq(Cells)
           G == [t \in Nat \X S |-> IF h[<<b, t[1]>>].type = "free"
                                    THEN Append(t[2], <<b, t[1]>>) ELSE t[2]]
           P == {t \in Nat \X S : FirstFree(h, b, t[1], t[2])}
           Next1(i, s) == IF h[<<b, i>>].type = "free" THEN Append(s, <<b, i>>) ELSE s
<1>1. PICK n \in Nat : n = BlockSize BY HeapAssumption
<1>2. PICK a \in S : a = <<>>
  <2>1. <<>> \in S OBVIOUS
  <2> QED BY <2>1
<1>3. \A j \in 1..n : <<b, j>> \in Cells BY <1>1 DEF Cells
<1>4. \A t \in Nat \X S : G[t] = Next1(t[1], t[2]) OBVIOUS
<1> HIDE DEF G
<1>5. ASSUME NEW i \in 0..n, i < n, NEW s \in S PROVE G[<<i + 1, s>>] = Next1(i + 1, s)
  <2>1. PICK t : t = <<i + 1, s>> OBVIOUS
  <2>2. t \in Nat \X S /\ t[1] = i + 1 /\ t[2] = s BY <2>1
  <2>3. G[t] = Next1(t[1], t[2]) BY <1>4, <2>2
  <2> QED BY <2>1, <2>2, <2>3
<1>6. \A i \in Nat : \A s : <<i, s>> \in P <=> s \in S /\ FirstFree(h, b, i, s) OBVIOUS
<1> HIDE DEF P
<1>7. FirstFree(h, b, 0, a)
  <2>1. Frees(h, b, 0) = {} BY <1>1, HeapAssumption DEF Frees, Cells
  <2>2. Len(a) = 0 BY <1>2
  <2>3. Lists(a, {}) BY <1>2, ListsNone
  <2>4. \A j \in 1..0 : h[<<b, j>>].type = "free" OBVIOUS
  <2> QED BY <2>1, <2>2, <2>3, <2>4 DEF FirstFree
<1>8. ASSUME NEW i \in 0..n, i < n, NEW s \in S, FirstFree(h, b, i, s)
      PROVE Next1(i + 1, s) \in S /\ FirstFree(h, b, i + 1, Next1(i + 1, s))
  <2>1. PICK k \in 1..n : k = i + 1 BY <1>8
  <2>2. PICK x \in Cells : x = <<b, k>> BY <1>3
  <2>3. PICK l \in Nat : l = Len(s) BY SeqLen
  <2>4. Lists(s, Frees(h, b, i)) /\ l <= i
        /\ (l = i => \A j \in 1..i : h[<<b, j>>].type = "free") BY <1>8, <2>3 DEF FirstFree
  <2>5. Frees(h, b, k) = Frees(h, b, i) \cup (IF h[x].type = "free" THEN {x} ELSE {})
    <3>1. \A y \in Cells : y = <<y[1], y[2]>> /\ y[2] \in Nat BY <1>1 DEF Cells
    <3>2. \A y \in Cells : (y[1] = b /\ y[2] <= k) <=> (y[1] = b /\ y[2] <= i) \/ y = x
      BY <2>1, <2>2, <3>1
    <3> QED BY <3>2 DEF Frees
  <2>6. x \notin Frees(h, b, i) BY <2>1, <2>2 DEF Frees
  <2>7. CASE h[x].type = "free"
    <3>1. Next1(k, s) = Append(s, x) BY <2>2, <2>7
    <3>2. Lists(Append(s, x), Frees(h, b, k)) /\ Len(Append(s, x)) = l + 1
      BY <2>3, <2>4, <2>5, <2>6, <2>7, ListsAppend
    <3>3. l + 1 <= k BY <2>1, <2>3, <2>4
    <3>4. ASSUME l + 1 = k, NEW j \in 1..k PROVE h[<<b, j>>].type = "free"
      <4>1. CASE j = k BY <2>2, <2>7, <4>1
      <4>2. CASE j # k
        <5>1. l = i /\ j \in 1..i BY <2>1, <2>3, <3>4, <4>2
        <5> QED BY <2>4, <5>1
      <4> QED BY <4>1, <4>2
    <3>5. FirstFree(h, b, k, Append(s, x)) BY <3>2, <3>3, <3>4 DEF FirstFree
    <3>6. Append(s, x) \in S BY <2>2
    <3> QED BY <2>1, <3>1, <3>5, <3>6
  <2>8. CASE h[x].type # "free"
    <3>1. Next1(k, s) = s BY <2>2, <2>8
    <3>2. Lists(s, Frees(h, b, k)) /\ Len(s) = l BY <2>3, <2>4, <2>5, <2>8
    <3>3. l <= k /\ l # k BY <2>1, <2>3, <2>4
    <3>4. FirstFree(h, b, k, s) BY <3>2, <3>3 DEF FirstFree
    <3> QED BY <2>1, <3>1, <3>4
  <2> QED BY <2>7, <2>8
<1> HIDE DEF S, Next1
<1>9. Steps(n, S, a, G, P)
  <2>1. <<0, a>> \in P BY <1>6, <1>7
  <2>2. ASSUME NEW i \in 0..n, NEW s \in S, i < n, <<i, s>> \in P
        PROVE G[<<i + 1, s>>] \in S /\ <<i + 1, G[<<i + 1, s>>]>> \in P
    <3>1. i \in Nat /\ i + 1 \in Nat OBVIOUS
    <3>2. FirstFree(h, b, i, s) BY <1>6, <2>2, <3>1
    <3>3. G[<<i + 1, s>>] = Next1(i + 1, s) BY <1>5, <2>2
    <3>4. Next1(i + 1, s) \in S /\ FirstFree(h, b, i + 1, Next1(i + 1, s)) BY <1>8, <2>2, <3>2
    <3>5. <<i + 1, Next1(i + 1, s)>> \in P BY <1>6, <3>1, <3>4
    <3> QED BY <3>3, <3>4, <3>5
  <2> QED BY <2>1, <2>2 DEF Steps
<1>10. Loops(n, S, a, G) /\ \A g : Follows(n, S, a, G, g) => Stays(n, S, P, g) BY <1>9, Iterating
<1> DEFINE Rec(f) == [i \in 0..BlockSize |-> IF i = 0 THEN <<>> ELSE
                        IF h[<<b, i>>].type = "free" THEN Append(f[i - 1], <<b, i>>) ELSE f[i - 1]]
<1>11. \E f : f = Rec(f)
  <2>1. PICK f \in [0..n -> S] : \A i \in 0..n : f[i] = IF i = 0 THEN a ELSE G[<<i, f[i - 1]>>]
    BY <1>10 DEF Loops
  <2>2. ASSUME NEW i \in 0..n PROVE f[i] = IF i = 0 THEN <<>> ELSE Next1(i, f[i - 1])
    <3>1. CASE i = 0 BY <1>2, <2>1, <3>1
    <3>2. CASE i # 0
      <4>1. PICK j \in 0..n : j = i - 1 /\ j < n /\ i = j + 1 BY <3>2
      <4>2. f[j] \in S BY <2>1, <4>1
      <4>3. G[<<j + 1, f[j]>>] = Next1(j + 1, f[j]) BY <1>5, <4>1, <4>2
      <4>4. f[i] = G[<<i, f[i - 1]>>] BY <2>1, <3>2
      <4> QED BY <3>2, <4>1, <4>3, <4>4
    <3> QED BY <3>1, <3>2
  <2>3. f = Rec(f) BY <1>1, <2>1, <2>2 DEF Next1
  <2> QED BY <2>3
<1>12. PICK g : g = CHOOSE f : f = Rec(f) OBVIOUS
<1>13. g = Rec(g) BY <1>11, <1>12
<1>14. FreeOf(h, b) = g[n] BY <1>1, <1>12 DEF FreeOf
<1>15. \A i \in 0..n : g[i] = IF i = 0 THEN <<>> ELSE Next1(i, g[i - 1])
  BY ONLY <1>1, <1>13 DEF Next1
<1>16. Follows(n, S, a, G, g)
  <2>1. 0 \in 0..n OBVIOUS
  <2>2. g[0] = a BY <1>2, <1>15, <2>1
  <2>3. ASSUME NEW i \in 0..n, i < n, g[i] \in S PROVE g[i + 1] = G[<<i + 1, g[i]>>]
    <3>1. i + 1 \in 0..n /\ i + 1 # 0 /\ (i + 1) - 1 = i BY <2>3
    <3>2. g[i + 1] = Next1(i + 1, g[(i + 1) - 1]) BY <1>15, <3>1
    <3> QED BY <1>5, <2>3, <3>1, <3>2
  <2> QED BY <2>2, <2>3 DEF Follows
<1>17. Stays(n, S, P, g) BY <1>10, <1>16
<1>18. n \in 0..n OBVIOUS
<1>19. <<n, g[n]>> \in P BY <1>17, <1>18 DEF Stays
<1> QED BY <1>1, <1>6, <1>14, <1>19

Sweeps == [kept : Seq(1..MaxBlocks), frees : Seq(Cells)]
Full(h, b) == Len(FreeOf(h, b)) = BlockSize
Sweep1(h, acc, b) == IF Full(h, b) THEN acc
                     ELSE [kept |-> Append(acc.kept, b), frees |-> acc.frees \o FreeOf(h, b)]
Within(h, A) == {x \in Cells : x[1] \in A /\ h[x].type = "free"}

\* What the loop has collected from the first i blocks.
Sweeping(h, bs, i, x) ==
  /\ x \in Sweeps
  /\ \A j, k \in 1..Len(x.kept) : x.kept[j] = x.kept[k] => j = k
  /\ \A b : (\E j \in 1..Len(x.kept) : x.kept[j] = b)
            <=> \E j \in 1..i : bs[j] = b /\ ~Full(h, b)
  /\ Lists(x.frees, Within(h, {bs[j] : j \in {j \in 1..i : ~Full(h, bs[j])}}))

\* One more block.
LEMMA SweepStep ==
  ASSUME NEW h \in Heaps, NEW bs \in Seq(1..MaxBlocks),
         \A i, j \in 1..Len(bs) : bs[i] = bs[j] => i = j,
         NEW i \in Nat, i + 1 \in 1..Len(bs), NEW x, Sweeping(h, bs, i, x)
  PROVE  Sweeping(h, bs, i + 1, Sweep1(h, x, bs[i + 1]))
<1>1. PICK k \in 1..Len(bs) : k = i + 1 OBVIOUS
<1>2. PICK b \in 1..MaxBlocks : b = bs[k]
  <2>1. bs[k] \in 1..MaxBlocks BY SeqLen
  <2> QED BY <2>1
<1>3. PICK kept \in Seq(1..MaxBlocks), frees \in Seq(Cells) : x = [kept |-> kept, frees |-> frees]
  BY DEF Sweeping, Sweeps
<1>4. PICK n \in Nat : n = Len(kept) BY <1>3
<1> DEFINE Good(j) == {bs[l] : l \in {l \in 1..j : ~Full(h, bs[l])}}
<1>5. /\ \A j, l \in 1..n : kept[j] = kept[l] => j = l
      /\ \A c : (\E j \in 1..n : kept[j] = c) <=> \E j \in 1..i : bs[j] = c /\ ~Full(h, c)
      /\ Lists(frees, Within(h, Good(i)))
  <2>1. x.kept = kept /\ x.frees = frees /\ Len(x.kept) = n BY <1>3, <1>4
  <2>2. /\ \A j, l \in 1..Len(x.kept) : x.kept[j] = x.kept[l] => j = l
        /\ \A c : (\E j \in 1..Len(x.kept) : x.kept[j] = c)
                  <=> \E j \in 1..i : bs[j] = c /\ ~Full(h, c)
        /\ Lists(x.frees, Within(h, {bs[j] : j \in {j \in 1..i : ~Full(h, bs[j])}}))
    BY ONLY Sweeping(h, bs, i, x) DEF Sweeping
  <2>3. Good(i) = {bs[j] : j \in {j \in 1..i : ~Full(h, bs[j])}} OBVIOUS
  <2> HIDE DEF Good
  <2> QED BY ONLY <2>1, <2>2, <2>3
<1>6. Len(bs) \in Nat /\ \A j \in 1..k : j \in 1..i \/ j = k BY <1>1
<1>7. \A j \in 1..i : j \in 1..k /\ j \in 1..Len(bs) /\ j # k BY <1>1
<1>8. \A j \in 1..i : bs[j] # b BY <1>1, <1>2, <1>7
<1>9. Good(k) = IF Full(h, b) THEN Good(i) ELSE Good(i) \cup {b}
  <2>1. ASSUME NEW c PROVE c \in Good(k) <=> c \in Good(i) \/ (c = b /\ ~Full(h, b))
    BY <1>1, <1>2, <1>6, <1>7
  <2> QED BY <2>1
<1>10. b \notin Good(i) BY <1>8
<1> HIDE DEF Good
<1>11. CASE Full(h, b)
  <2>1. Sweep1(h, x, b) = x BY <1>11 DEF Sweep1
  <2>2. Good(k) = Good(i) BY <1>9, <1>11
  <2>3. ASSUME NEW c PROVE (\E j \in 1..n : kept[j] = c) <=> \E j \in 1..k : bs[j] = c /\ ~Full(h, c)
    BY <1>2, <1>5, <1>6, <1>7, <1>11
  <2>4. Lists(frees, Within(h, Good(k))) BY <1>5, <2>2
  <2>5. x \in Sweeps BY DEF Sweeping
  <2>6. x.kept = kept /\ x.frees = frees BY <1>3
  <2>7. Sweeping(h, bs, k, x) BY <1>4, <1>5, <2>3, <2>4, <2>5, <2>6 DEF Sweeping, Good
  <2> QED BY <1>1, <1>2, <2>1, <2>7
<1>12. CASE ~Full(h, b)
  <2>1. PICK kept2 \in Seq(1..MaxBlocks), f \in Seq(Cells), frees2 \in Seq(Cells) :
          kept2 = Append(kept, b) /\ f = FreeOf(h, b) /\ frees2 = frees \o f
    <3>1. FirstFree(h, b, BlockSize, FreeOf(h, b)) BY FreeOfFacts
    <3>2. FreeOf(h, b) \in Seq(Cells) BY <3>1 DEF FirstFree, Lists
    <3>3. Append(kept, b) \in Seq(1..MaxBlocks) OBVIOUS
    <3>4. frees \o FreeOf(h, b) \in Seq(Cells) BY <3>2
    <3> QED BY <3>2, <3>3, <3>4
  <2>2. PICK y : y = [kept |-> kept2, frees |-> frees2] OBVIOUS
  <2>3. Sweep1(h, x, b) = y BY <1>3, <1>12, <2>1, <2>2 DEF Sweep1
  <2>4. Lists(f, Frees(h, b, BlockSize)) BY <2>1, FreeOfFacts DEF FirstFree
  <2>5. Frees(h, b, BlockSize) = Within(h, {b}) BY HeapAssumption DEF Frees, Within, Cells
  <2>6. Within(h, Good(i)) \cap Within(h, {b}) = {} BY <1>10 DEF Within
  <2>7. Within(h, Good(k)) = Within(h, Good(i)) \cup Within(h, {b}) BY <1>9, <1>12 DEF Within
  <2>8. Lists(frees2, Within(h, Good(k)))
    <3>1. Lists(f, Within(h, {b})) BY <2>4, <2>5
    <3>2. Lists(frees, Within(h, Good(i))) BY <1>5
    <3>3. Lists(frees \o f, Within(h, Good(i)) \cup Within(h, {b})) BY <2>6, <3>1, <3>2, ListsJoin
    <3> QED BY <2>1, <2>7, <3>3
  <2>9. /\ Len(kept2) = n + 1 /\ \A j \in 1..n : kept2[j] = kept[j]
        /\ kept2[n + 1] = b BY <1>4, <2>1
  <2>10. ASSUME NEW c
         PROVE (\E j \in 1..n + 1 : kept2[j] = c) <=> \E j \in 1..k : bs[j] = c /\ ~Full(h, c)
    <3>1. (\E j \in 1..n + 1 : kept2[j] = c) <=> (\E j \in 1..n : kept[j] = c) \/ c = b
      <4>1. \A j \in 1..n + 1 : j \in 1..n \/ j = n + 1 OBVIOUS
      <4>2. n + 1 \in 1..n + 1 /\ \A j \in 1..n : j \in 1..n + 1 OBVIOUS
      <4> QED BY <2>9, <4>1, <4>2
    <3>2. (\E j \in 1..k : bs[j] = c /\ ~Full(h, c))
          <=> (\E j \in 1..i : bs[j] = c /\ ~Full(h, c)) \/ c = b BY <1>1, <1>2, <1>6, <1>7, <1>12
    <3> QED BY <1>5, <3>1, <3>2
  <2>11. ASSUME NEW j \in 1..n + 1, NEW l \in 1..n + 1, kept2[j] = kept2[l] PROVE j = l
    <3>1. \A c \in 1..n : kept[c] # b BY <1>5, <1>8
    <3>2. CASE j \in 1..n /\ l \in 1..n BY <1>5, <2>9, <2>11, <3>2
    <3>3. CASE j = n + 1 /\ l \in 1..n BY <2>9, <2>11, <3>1, <3>3
    <3>4. CASE l = n + 1 /\ j \in 1..n BY <2>9, <2>11, <3>1, <3>4
    <3>5. CASE l = n + 1 /\ j = n + 1 BY <3>5
    <3> QED BY <3>2, <3>3, <3>4, <3>5
  <2>12. y \in Sweeps /\ y.kept = kept2 /\ y.frees = frees2 BY <2>2 DEF Sweeps
  <2>13. Sweeping(h, bs, k, y) BY <2>8, <2>9, <2>10, <2>11, <2>12 DEF Sweeping, Good
  <2> QED BY <1>1, <1>2, <2>3, <2>13
<1> QED BY <1>11, <1>12

\* The blocks that are kept, and the free cells in them.
LEMMA SweptFacts ==
  ASSUME NEW h \in Heaps, NEW bs \in Seq(1..MaxBlocks),
         \A i, j \in 1..Len(bs) : bs[i] = bs[j] => i = j
  PROVE  Sweeping(h, bs, Len(bs), Swept(h, bs))
<1> DEFINE S == Sweeps
           G == [t \in Nat \X S |-> Sweep1(h, t[2], bs[t[1]])]
           P == {t \in Nat \X S : Sweeping(h, bs, t[1], t[2])}
<1>1. PICK n \in Nat : n = Len(bs) OBVIOUS
<1>2. PICK a \in S : a = [kept |-> <<>>, frees |-> <<>>]
  <2>1. <<>> \in Seq(1..MaxBlocks) /\ <<>> \in Seq(Cells) OBVIOUS
  <2> QED BY <2>1 DEF Sweeps
<1>3. \A t \in Nat \X S : G[t] = Sweep1(h, t[2], bs[t[1]]) OBVIOUS
<1> HIDE DEF G
<1>4. ASSUME NEW i \in 0..n, i < n, NEW s \in S PROVE G[<<i + 1, s>>] = Sweep1(h, s, bs[i + 1])
  <2>1. PICK t : t = <<i + 1, s>> OBVIOUS
  <2>2. t \in Nat \X S /\ t[1] = i + 1 /\ t[2] = s BY <2>1
  <2>3. G[t] = Sweep1(h, t[2], bs[t[1]]) BY <1>3, <2>2
  <2> QED BY <2>1, <2>2, <2>3
<1>5. \A i \in Nat : \A s : <<i, s>> \in P <=> s \in S /\ Sweeping(h, bs, i, s) OBVIOUS
<1> HIDE DEF P
<1>6. Sweeping(h, bs, 0, a)
  <2>1. a.kept = <<>> /\ a.frees = <<>> /\ Len(a.kept) = 0 BY <1>2
  <2>2. Within(h, {bs[j] : j \in {j \in 1..0 : ~Full(h, bs[j])}}) = {} BY DEF Within
  <2>3. Lists(a.frees, {}) BY <2>1, ListsNone
  <2>4. a \in Sweeps BY <1>2
  <2>5. \A j \in 1..0 : FALSE OBVIOUS
  <2> QED BY <2>1, <2>2, <2>3, <2>4, <2>5 DEF Sweeping
<1> HIDE DEF S
<1>7. Steps(n, S, a, G, P)
  <2>1. <<0, a>> \in P BY <1>5, <1>6
  <2>2. ASSUME NEW i \in 0..n, NEW s \in S, i < n, <<i, s>> \in P
        PROVE G[<<i + 1, s>>] \in S /\ <<i + 1, G[<<i + 1, s>>]>> \in P
    <3>1. i \in Nat /\ i + 1 \in Nat /\ i + 1 \in 1..Len(bs) BY <1>1, <2>2
    <3>2. Sweeping(h, bs, i, s) BY <1>5, <2>2, <3>1
    <3>3. G[<<i + 1, s>>] = Sweep1(h, s, bs[i + 1]) BY <1>4, <2>2
    <3>4. Sweeping(h, bs, i + 1, Sweep1(h, s, bs[i + 1])) BY <3>1, <3>2, SweepStep
    <3>5. Sweep1(h, s, bs[i + 1]) \in S BY <3>4 DEF Sweeping, S
    <3>6. <<i + 1, Sweep1(h, s, bs[i + 1])>> \in P BY <1>5, <3>1, <3>4, <3>5
    <3> QED BY <3>3, <3>5, <3>6
  <2> QED BY <2>1, <2>2 DEF Steps
<1>8. Loops(n, S, a, G) /\ \A g : Follows(n, S, a, G, g) => Stays(n, S, P, g) BY <1>7, Iterating
<1> DEFINE Rec(f) == [i \in 0..Len(bs) |-> IF i = 0 THEN [kept |-> <<>>, frees |-> <<>>]
                                          ELSE Sweep1(h, f[i - 1], bs[i])]
<1>9. \E f : f = Rec(f)
  <2>1. PICK f \in [0..n -> S] : \A i \in 0..n : f[i] = IF i = 0 THEN a ELSE G[<<i, f[i - 1]>>]
    BY <1>8 DEF Loops
  <2>2. ASSUME NEW i \in 0..n PROVE f[i] = IF i = 0 THEN a ELSE Sweep1(h, f[i - 1], bs[i])
    <3>1. CASE i = 0 BY <2>1, <3>1
    <3>2. CASE i # 0
      <4>1. PICK j \in 0..n : j = i - 1 /\ j < n /\ i = j + 1 BY <3>2
      <4>2. f[j] \in S BY <2>1, <4>1
      <4>3. G[<<j + 1, f[j]>>] = Sweep1(h, f[j], bs[j + 1]) BY <1>4, <4>1, <4>2
      <4>4. f[i] = G[<<i, f[i - 1]>>] BY <2>1, <3>2
      <4> QED BY <3>2, <4>1, <4>3, <4>4
    <3> QED BY <3>1, <3>2
  <2>3. f = Rec(f) BY <1>1, <1>2, <2>1, <2>2
  <2> QED BY <2>3
<1>10. PICK g : g = CHOOSE f : f = Rec(f) OBVIOUS
<1>11. g = Rec(g) BY <1>9, <1>10
<1>12. Swept(h, bs) = g[n] BY <1>1, <1>10 DEF Swept, Sweep1, Full
<1>13. \A i \in 0..n : g[i] = IF i = 0 THEN a ELSE Sweep1(h, g[i - 1], bs[i])
  BY ONLY <1>1, <1>2, <1>11
<1>14. Follows(n, S, a, G, g)
  <2>1. 0 \in 0..n OBVIOUS
  <2>2. g[0] = a BY <1>13, <2>1
  <2>3. ASSUME NEW i \in 0..n, i < n, g[i] \in S PROVE g[i + 1] = G[<<i + 1, g[i]>>]
    <3>1. i + 1 \in 0..n /\ i + 1 # 0 /\ (i + 1) - 1 = i BY <2>3
    <3>2. g[i + 1] = Sweep1(h, g[(i + 1) - 1], bs[i + 1]) BY <1>13, <3>1
    <3> QED BY <1>4, <2>3, <3>1, <3>2
  <2> QED BY <2>2, <2>3 DEF Follows
<1>15. Stays(n, S, P, g) BY <1>8, <1>14
<1>16. n \in 0..n OBVIOUS
<1>17. <<n, g[n]>> \in P BY <1>15, <1>16 DEF Stays
<1> QED BY <1>1, <1>5, <1>12, <1>17

\* What the process has in use is not touched when blocks are given back.
Trimmed(m, R, b) ==
  /\ Tidy(b, R) /\ Alive(b.heap) = Alive(m.heap) /\ Keeps(m.heap, b.heap, Alive(m.heap))
  /\ b.process \in {m.process, "crashed"}

\* freeCellBlocks.
LEMMA BlocksTidy ==
  ASSUME NEW m, NEW R, Tidy(m, R), NEW b, b = FreeCellBlocks(m)
  PROVE  Trimmed(m, R, b)
<1>1. PICK h, bs, fr, pr : h = m.heap /\ bs = m.blocks /\ fr = m.free /\ pr = m.process OBVIOUS
<1>2. /\ h \in Heaps /\ bs \in Seq(1..MaxBlocks) /\ fr \in Cells \cup {NULL}
      /\ pr \in {"runs", "exited", "crashed"}
      /\ m = [heap |-> h, free |-> fr, blocks |-> bs, process |-> pr]
      /\ Shape(h, R) /\ Lasts(h)
      /\ \A i, j \in 1..Len(bs) : bs[i] = bs[j] => i = j
      /\ \A x \in Cells : h[x].type = "unmapped" <=> x[1] \notin Range(bs)
  BY <1>1 DEF Tidy, Memories, Owned, Blocked
<1>3. PICK n \in Nat : n = Len(bs) /\ DOMAIN bs = 1..n BY <1>2, SeqLen
<1>4. CASE NoLastFreeCell(m)
  <2>1. b = [m EXCEPT !.process = "crashed"] BY <1>4 DEF FreeCellBlocks
  <2>2. b = [heap |-> h, free |-> fr, blocks |-> bs, process |-> "crashed"] BY ONLY <1>2, <2>1
  <2>3. b \in Memories BY ONLY <1>2, <2>2 DEF Memories
  <2>4. b.heap = m.heap /\ b.free = m.free /\ b.blocks = m.blocks /\ b.process = "crashed"
    BY ONLY <1>1, <1>2, <2>2
  <2>5. Tidy(b, R)
    <3>1. PICK s : FreedAs(m, s) BY DEF Tidy
    <3>2. FreedAs(b, s) BY <2>4, <3>1 DEF FreedAs
    <3>3. Blocked(m) /\ Owned(m.heap, R) BY DEF Tidy
    <3>4. Blocked(b) /\ Owned(b.heap, R) BY <2>4, <3>3 DEF Blocked
    <3> QED BY <2>3, <3>2, <3>4 DEF Tidy
  <2>6. Keeps(m.heap, b.heap, Alive(m.heap)) BY <2>4 DEF Keeps
  <2> QED BY <2>4, <2>5, <2>6 DEF Trimmed
<1>5. CASE ~NoLastFreeCell(m)
  <2>1. PICK s : s = Swept(h, bs) OBVIOUS
  <2>2. Sweeping(h, bs, n, s) BY <1>2, <1>3, <2>1, SweptFacts
  <2>3. PICK kept \in Seq(1..MaxBlocks), frees \in Seq(Cells) : kept = s.kept /\ frees = s.frees
    BY <2>2 DEF Sweeping, Sweeps
  <2> DEFINE K == {c \in 1..MaxBlocks : \E j \in 1..n : bs[j] = c /\ ~Full(h, c)}
             F == Within(h, K)
  <2>4. /\ \A j, k \in 1..Len(kept) : kept[j] = kept[k] => j = k
        /\ \A c : (\E j \in 1..Len(kept) : kept[j] = c) <=> \E j \in 1..n : bs[j] = c /\ ~Full(h, c)
        /\ Lists(frees, Within(h, {bs[j] : j \in {j \in 1..n : ~Full(h, bs[j])}}))
    BY <2>2, <2>3 DEF Sweeping
  <2>5. \A j \in 1..n : bs[j] \in 1..MaxBlocks BY <1>2, <1>3, SeqLen
  <2>6. {bs[j] : j \in {j \in 1..n : ~Full(h, bs[j])}} = K BY <2>5
  <2>7. Lists(frees, F) BY <2>4, <2>6
  <2>8. Range(kept) = K
    <3>1. DOMAIN kept = 1..Len(kept) BY SeqLen
    <3>2. \A c : c \in Range(kept) <=> \E j \in 1..Len(kept) : kept[j] = c BY <3>1 DEF Range
    <3>3. \A c : c \in K <=> \E j \in 1..n : bs[j] = c /\ ~Full(h, c) BY <2>5
    <3> QED BY <2>4, <3>2, <3>3
  <2>9. frees # <<>>
    <3> DEFINE W == {i \in DOMAIN bs : FreeOf(h, bs[i]) # <<>>}
    <3>1. W # {} /\ Len(FreeOf(h, bs[Min(W)])) # BlockSize BY <1>1, <1>5 DEF NoLastFreeCell
    <3>2. W \in SUBSET Nat BY <1>3
    <3>3. Min(W) \in W BY <3>1, <3>2, MinFacts
    <3>4. PICK i \in 1..n : i = Min(W) BY <1>3, <3>3
    <3>5. FreeOf(h, bs[i]) # <<>> /\ ~Full(h, bs[i]) BY <3>1, <3>3, <3>4 DEF Full
    <3>6. FirstFree(h, bs[i], BlockSize, FreeOf(h, bs[i])) BY <1>2, <2>5, FreeOfFacts
    <3>7. Lists(FreeOf(h, bs[i]), Frees(h, bs[i], BlockSize)) BY <3>6 DEF FirstFree
    <3>8. PICK x \in Frees(h, bs[i], BlockSize) : TRUE
      <4>1. FreeOf(h, bs[i]) \in Seq(Cells) BY <3>7 DEF Lists
      <4>2. 1 \in 1..Len(FreeOf(h, bs[i])) BY <3>5, <4>1, SeqLen
      <4> QED BY <3>7, <4>2 DEF Lists
    <3>9. bs[i] \in K BY <2>5, <3>5
    <3>10. x \in F BY <3>8, <3>9 DEF Frees, Within
    <3>11. \E j \in 1..Len(frees) : frees[j] = x BY <2>7, <3>10 DEF Lists
    <3> QED BY <3>11
  <2> DEFINE L == Linked(h, frees, NULL)
             g == [x \in Cells |-> IF x[1] \in Range(kept) THEN L[x] ELSE Unmapped]
  <2>10. b = [m EXCEPT !.blocks = s.kept, !.free = Head(s.frees), !.heap = g]
    BY <1>1, <1>5, <2>1, <2>3 DEF FreeCellBlocks
  <2>11. NULL \in Cells \cup {NULL} OBVIOUS
  <2>12. /\ L \in Heaps /\ F \subseteq Cells
         /\ \A x \in Cells \ F : L[x] = h[x]
         /\ \A x \in F : L[x].type = "free"
         /\ \A i \in 1..Len(frees) : L[frees[i]].next = IF i = Len(frees) THEN NULL ELSE frees[i + 1]
    <3> HIDE DEF K, F
    <3> QED BY <1>2, <2>7, <2>11, LinkedFacts
  <2>13. \A x \in Cells : g[x] = IF x[1] \in K THEN L[x] ELSE Unmapped BY <2>8
  <2>14. g \in [Cells -> [type : Types, next : Cells \cup {NULL}, aux : Cells, contents : Cells]]
    <3>1. Unmapped \in [type : Types, next : Cells \cup {NULL}, aux : Cells, contents : Cells]
      BY Special DEF Unmapped, Cell, Types
    <3>2. \A x \in Cells : L[x] \in [type : Types, next : Cells \cup {NULL}, aux : Cells, contents : Cells]
      BY <2>12 DEF Heaps
    <3> QED BY <3>1, <3>2
  <2> HIDE DEF L, g
  <2>15. Unmapped.type = "unmapped" /\ Unmapped.contents = nilCell BY DEF Unmapped, Cell
  <2>16. g \in Heaps
    <3>1. \A x \in Cells : L[x].type # "list" => L[x].contents = nilCell BY <2>12 DEF Heaps
    <3>2. \A x \in Cells : g[x].type # "list" => g[x].contents = nilCell BY <2>13, <2>15, <3>1
    <3> QED BY <2>14, <3>2 DEF Heaps
  <2>17. ASSUME NEW x \in Cells, x[1] \notin K PROVE h[x].type \in {"unmapped", "free"}
    <3>1. CASE x[1] \notin Range(bs) BY <1>2, <3>1
    <3>2. CASE x[1] \in Range(bs)
      <4>1. PICK j \in 1..n : bs[j] = x[1] BY <1>3, <3>2 DEF Range
      <4>2. Full(h, bs[j]) BY <2>5, <2>17, <4>1
      <4>3. FirstFree(h, bs[j], BlockSize, FreeOf(h, bs[j])) BY <1>2, <2>5, FreeOfFacts
      <4>4. \A i \in 1..BlockSize : h[<<bs[j], i>>].type = "free"
        BY <4>2, <4>3 DEF FirstFree, Full
      <4>5. x = <<x[1], x[2]>> /\ x[2] \in 1..BlockSize BY DEF Cells
      <4> QED BY <4>1, <4>4, <4>5
    <3> QED BY <3>1, <3>2
  <2>18. ASSUME NEW x \in Cells
         PROVE /\ h[x].type \notin {"unmapped", "free"} => g[x] = h[x]
               /\ g[x].type \in {"unmapped", "free"} <=> h[x].type \in {"unmapped", "free"}
               /\ g[x].type = "free" <=> x \in F
               /\ g[x].type = "unmapped" <=> x[1] \notin K
    <3>1. CASE x[1] \notin K
      <4>1. g[x].type = "unmapped" /\ x \notin F BY <2>13, <2>15, <3>1 DEF Within
      <4> QED BY <2>17, <3>1, <4>1
    <3>2. CASE x[1] \in K
      <4>1. g[x] = L[x] BY <2>13, <3>2
      <4>2. x \in F <=> h[x].type = "free" BY <3>2 DEF Within
      <4>3. h[x].type # "unmapped"
        <5>1. x[1] \in Range(bs) BY <1>3, <3>2 DEF Range
        <5> QED BY <1>2, <5>1
      <4> QED BY <2>12, <3>2, <4>1, <4>2, <4>3
    <3> QED BY <3>1, <3>2
  <2>19. Alive(g) = Alive(h) BY <2>18 DEF Alive
  <2>20. nilCell \in Cells /\ trueCell \in Cells /\ h[nilCell].type = "nil" /\ h[trueCell].type = "true"
    BY <1>2, Special DEF Shape
  <2>21. g[nilCell].type = "nil" /\ g[trueCell].type = "true" BY <2>18, <2>20
  <2>22. \A x \in Alive(h) : g[x] = h[x] BY <2>18 DEF Alive
  <2>23. \A x \in Cells : After(g, x) = After(h, x) /\ Below(g, x) = Below(h, x)
    <3>1. ASSUME NEW x \in Cells PROVE After(g, x) = After(h, x) /\ Below(g, x) = Below(h, x)
      <4>1. CASE h[x].type \notin {"unmapped", "free"} BY <2>18, <4>1 DEF After, Below
      <4>2. CASE h[x].type \in {"unmapped", "free"} BY <2>18, <4>2 DEF After, Below
      <4> QED BY <4>1, <4>2
    <3> QED BY <3>1
  <2>24. Owned(g, R) /\ Keeps(h, g, Alive(h))
    BY <1>2, <2>16, <2>19, <2>21, <2>22, <2>23, SameShape
  <2>25. Head(frees) = frees[1] /\ frees[1] \in Cells BY <2>9, SeqLen
  <2>26. b = [heap |-> g, free |-> frees[1], blocks |-> kept, process |-> pr]
    BY ONLY <1>2, <2>3, <2>10, <2>25
  <2>27. b \in Memories BY ONLY <1>2, <2>16, <2>25, <2>26, kept \in Seq(1..MaxBlocks) DEF Memories
  <2>28. b.heap = g /\ b.free = frees[1] /\ b.blocks = kept /\ b.process = pr BY ONLY <2>26
  <2>29. Blocked(b) BY <2>4, <2>8, <2>18, <2>28 DEF Blocked
  <2>30. FreedAs(b, frees)
    <3>1. {x \in Cells : g[x].type = "free"} = F BY <2>12, <2>18
    <3>2. Lists(frees, {x \in Cells : g[x].type = "free"}) BY <2>7, <3>1
    <3>3. ASSUME NEW i \in 1..Len(frees) PROVE g[frees[i]] = L[frees[i]]
      <4>1. frees[i] \in F BY <2>7 DEF Lists
      <4> QED BY <2>12, <2>13, <4>1 DEF Within
    <3>4. \A i \in 1..Len(frees) : g[frees[i]].next = IF i = Len(frees) THEN NULL ELSE frees[i + 1]
      BY <2>12, <3>3
    <3> QED BY <2>9, <2>28, <3>2, <3>4 DEF FreedAs
  <2>31. Tidy(b, R) BY <2>24, <2>27, <2>28, <2>29, <2>30 DEF Tidy
  <2> QED BY <1>1, <2>19, <2>24, <2>28, <2>31 DEF Trimmed
<1> QED BY <1>4, <1>5

(* Who owns which cells. *)

\* An owner is <<kind, which one, cell>>.  Nobody owns nilCell and trueCell.
Owns(H, R) ==
  /\ \A r : r \in R <=> r \notin Permanent /\ \E p \in H : p[3] = r
  /\ \A p, q \in H : p[3] = q[3] /\ p[3] \notin Permanent => p = q

Building(fs) == {k \in 1..Len(fs) : fs[k].fn = "list"}
Held(ct, rs, fs, ls) ==
  {<<"symbol", s, ct[s]>> : s \in Syms} \cup {<<"result", i, rs[i]>> : i \in 1..Len(rs)}
  \cup {<<"list", k, fs[k].cell>> : k \in Building(fs)}
  \cup {<<"kept", c, c>> : c \in BuiltinCells \cup ls}
ResultsFrom(rs, n) == {<<"result", i, rs[i]>> : i \in {j \in 1..Len(rs) : j > n}}

\* Owners that are gone own nothing.
LEMMA OwnsCut ==
  ASSUME NEW H, NEW R, Owns(H, R), NEW D, D \subseteq H
  PROVE  Owns(H \ D, R \ {d[3] : d \in D})
<1>1. ASSUME NEW r PROVE r \in R \ {d[3] : d \in D} <=> r \notin Permanent /\ \E p \in H \ D : p[3] = r
  <2>1. CASE r \in R
    <3>1. PICK p \in H : p[3] = r /\ r \notin Permanent BY <2>1 DEF Owns
    <3>2. \A q \in H : q[3] = r => q = p BY <3>1 DEF Owns
    <3>3. r \in {d[3] : d \in D} <=> p \in D BY <3>1, <3>2
    <3> QED BY <2>1, <3>1, <3>2, <3>3
  <2>2. CASE r \notin R BY <2>2 DEF Owns
  <2> QED BY <2>1, <2>2
<1>2. \A p, q \in H \ D : p[3] = q[3] /\ p[3] \notin Permanent => p = q BY DEF Owns
<1> QED BY <1>1, <1>2 DEF Owns

\* A new owner of a cell nobody owns.
LEMMA OwnsAdd ==
  ASSUME NEW H, NEW R, Owns(H, R), NEW a, NEW b, NEW c, c \notin R
  PROVE  Owns(H \cup {<<a, b, c>>}, (R \cup {c}) \ Permanent)
<1>1. PICK p : p = <<a, b, c>> /\ p[3] = c
  <2>1. <<a, b, c>>[3] = c OBVIOUS
  <2> QED BY <2>1
<1>2. ASSUME NEW r PROVE r \in (R \cup {c}) \ Permanent
                         <=> r \notin Permanent /\ \E q \in H \cup {p} : q[3] = r BY <1>1 DEF Owns
<1>3. ASSUME NEW q1 \in H \cup {p}, NEW q2 \in H \cup {p}, q1[3] = q2[3], q1[3] \notin Permanent
      PROVE q1 = q2
  <2>1. \A q \in H : q[3] = c => c \in Permanent BY DEF Owns
  <2> QED BY <1>1, <1>3, <2>1 DEF Owns
<1> QED BY <1>1, <1>2, <1>3 DEF Owns

\* The owners, one kind after the other.
LEMMA HeldIn ==
  ASSUME NEW ct, NEW rs, NEW fs, NEW ls, NEW p
  PROVE  p \in Held(ct, rs, fs, ls) <=>
           \/ \E s \in Syms : p = <<"symbol", s, ct[s]>>
           \/ \E i \in 1..Len(rs) : p = <<"result", i, rs[i]>>
           \/ \E k \in Building(fs) : p = <<"list", k, fs[k].cell>>
           \/ \E c \in BuiltinCells \cup ls : p = <<"kept", c, c>> BY DEF Held

\* A symbol has another cell.
Renamed(ct, rs, fs, ls, s, c, ct2) ==
  Held(ct2, rs, fs, ls) = (Held(ct, rs, fs, ls) \ {<<"symbol", s, ct[s]>>}) \cup {<<"symbol", s, c>>}

\* An assignment to a symbol replaces what that symbol owns.
LEMMA HeldSymbol ==
  ASSUME NEW ct, NEW rs, NEW fs, NEW ls, NEW s \in Syms, NEW c, NEW ct2,
         ct2[s] = c, \A t \in Syms \ {s} : ct2[t] = ct[t]
  PROVE  Renamed(ct, rs, fs, ls, s, c, ct2)
<1>2. ASSUME NEW p
      PROVE p \in Held(ct2, rs, fs, ls) <=> p \in (Held(ct, rs, fs, ls) \ {<<"symbol", s, ct[s]>>})
                                                  \cup {<<"symbol", s, c>>}
  <2>1. (\E t \in Syms : p = <<"symbol", t, ct2[t]>>)
        <=> ((\E t \in Syms : p = <<"symbol", t, ct[t]>>) /\ p # <<"symbol", s, ct[s]>>)
            \/ p = <<"symbol", s, c>> OBVIOUS
  <2>2. ASSUME \/ \E i \in 1..Len(rs) : p = <<"result", i, rs[i]>>
               \/ \E k \in Building(fs) : p = <<"list", k, fs[k].cell>>
               \/ \E d \in BuiltinCells \cup ls : p = <<"kept", d, d>>
        PROVE p # <<"symbol", s, ct[s]>> BY <2>2
  <2> QED BY <2>1, <2>2, HeldIn
<1> QED BY <1>2 DEF Renamed

\* One more result.
Pushed(ct, rs, fs, ls, c, u) ==
  Held(ct, u, fs, ls) = Held(ct, rs, fs, ls) \cup {<<"result", Len(rs) + 1, c>>}

\* A cell pushed on the result stack has the stack as its owner.
LEMMA HeldResult ==
  ASSUME NEW ct, NEW rs \in Seq(Cells), NEW fs, NEW ls, NEW c \in Cells
  PROVE  Pushed(ct, rs, fs, ls, c, Append(rs, c))
<1>1. PICK n \in Nat : n = Len(rs) OBVIOUS
<1>2. PICK u : u = Append(rs, c) OBVIOUS
<1>3. Len(u) = n + 1 /\ u[n + 1] = c /\ \A i \in 1..n : u[i] = rs[i] BY <1>1, <1>2
<1>4. (\A i \in 1..n + 1 : i \in 1..n \/ i = n + 1) /\ n + 1 \in 1..n + 1
      /\ \A i \in 1..n : i \in 1..n + 1 OBVIOUS
<1>5. ASSUME NEW p
      PROVE p \in Held(ct, u, fs, ls) <=> p \in Held(ct, rs, fs, ls) \cup {<<"result", n + 1, c>>}
  <2>1. (\E i \in 1..n + 1 : p = <<"result", i, u[i]>>)
        <=> (\E i \in 1..n : p = <<"result", i, rs[i]>>) \/ p = <<"result", n + 1, c>>
    BY <1>3, <1>4
  <2> QED BY <1>1, <1>3, <2>1, HeldIn
<1> QED BY <1>1, <1>2, <1>5 DEF Pushed

\* Only the first n results remain, in u.
Shorter(ct, rs, fs, ls, n, u) ==
  /\ Held(ct, u, fs, ls) = Held(ct, rs, fs, ls) \ ResultsFrom(rs, n)
  /\ ResultsFrom(rs, n) \subseteq Held(ct, rs, fs, ls)
  /\ {d[3] : d \in ResultsFrom(rs, n)} = Above(rs, n)
  /\ u \in Seq(Cells) /\ Len(u) = n
  /\ \A i \in 1..n : u[i] = rs[i]

\* Cutting the result stack to n elements takes the owners above and leaves those below.
LEMMA HeldCut ==
  ASSUME NEW ct, NEW rs \in Seq(Cells), NEW fs, NEW ls, NEW n \in Nat, n <= Len(rs)
  PROVE  Shorter(ct, rs, fs, ls, n, SubSeq(rs, 1, n))
<1>1. PICK l \in Nat : l = Len(rs) OBVIOUS
<1>2. PICK u : u = SubSeq(rs, 1, n) OBVIOUS
<1>3. u \in Seq(Cells) /\ Len(u) = n /\ \A i \in 1..n : u[i] = rs[i] BY <1>2
<1>4. \A i \in 1..l : i \in 1..n <=> ~(i > n) BY <1>1
<1>5. \A i \in 1..n : i \in 1..l BY <1>1
<1>6. ASSUME NEW p PROVE p \in ResultsFrom(rs, n) <=> \E i \in 1..l : i > n /\ p = <<"result", i, rs[i]>>
  BY <1>1 DEF ResultsFrom
<1>7. ASSUME NEW p
      PROVE p \in Held(ct, u, fs, ls) <=> p \in Held(ct, rs, fs, ls) \ ResultsFrom(rs, n)
  <2>1. (\E i \in 1..n : p = <<"result", i, u[i]>>)
        <=> (\E i \in 1..l : p = <<"result", i, rs[i]>>) /\ p \notin ResultsFrom(rs, n)
    BY <1>3, <1>4, <1>5, <1>6
  <2>2. ASSUME \/ \E s \in Syms : p = <<"symbol", s, ct[s]>>
               \/ \E k \in Building(fs) : p = <<"list", k, fs[k].cell>>
               \/ \E d \in BuiltinCells \cup ls : p = <<"kept", d, d>>
        PROVE p \notin ResultsFrom(rs, n) BY <1>6, <2>2
  <2> QED BY <1>1, <1>3, <2>1, <2>2, HeldIn
<1>8. ResultsFrom(rs, n) \subseteq Held(ct, rs, fs, ls) BY <1>1, <1>6, HeldIn
<1>9. ASSUME NEW y PROVE y \in {d[3] : d \in ResultsFrom(rs, n)} <=> y \in Above(rs, n)
  <2>1. y \in Above(rs, n) <=> \E i \in 1..l : i > n /\ y = rs[i] BY <1>1 DEF Above
  <2>2. \A d \in ResultsFrom(rs, n) : \E i \in 1..l : i > n /\ d[3] = rs[i] BY <1>6
  <2>3. ASSUME NEW i \in 1..l, i > n PROVE \E d \in ResultsFrom(rs, n) : d[3] = rs[i]
    <3>1. PICK d : d = <<"result", i, rs[i]>> OBVIOUS
    <3>2. d \in ResultsFrom(rs, n) /\ d[3] = rs[i] BY <1>6, <2>3, <3>1
    <3> QED BY <3>2
  <2> QED BY <2>1, <2>2, <2>3
<1> QED BY <1>2, <1>3, <1>7, <1>8, <1>9 DEF Shorter

\* The same lists under construction.
LEMMA HeldSame ==
  ASSUME NEW ct, NEW rs, NEW fs, NEW ls, NEW fs2, Building(fs2) = Building(fs),
         \A k \in Building(fs) : fs2[k].cell = fs[k].cell
  PROVE  Held(ct, rs, fs2, ls) = Held(ct, rs, fs, ls) BY DEF Held

\* Results are owned, each once.
LEMMA HeldStack ==
  ASSUME NEW ct, NEW rs \in Seq(Cells), NEW fs, NEW ls, NEW R, Owns(Held(ct, rs, fs, ls), R)
  PROVE  Stack(rs, R)
<1>1. PICK H : H = Held(ct, rs, fs, ls) OBVIOUS
<1>2. \A i \in 1..Len(rs) : <<"result", i, rs[i]>> \in H BY <1>1 DEF Held
<1>3. \A i \in 1..Len(rs) : rs[i] \in R \cup Permanent
  <2>1. ASSUME NEW i \in 1..Len(rs) PROVE rs[i] \in R \cup Permanent
    <3>1. <<"result", i, rs[i]>>[3] = rs[i] OBVIOUS
    <3> QED BY <1>1, <1>2, <3>1 DEF Owns
  <2> QED BY <2>1
<1>4. ASSUME NEW i \in 1..Len(rs), NEW j \in 1..Len(rs), rs[i] = rs[j], rs[i] \notin Permanent
      PROVE i = j
  <2>1. PICK p \in H, q \in H : p = <<"result", i, rs[i]>> /\ q = <<"result", j, rs[j]>> BY <1>2
  <2>2. p[3] = rs[i] /\ q[3] = rs[j] /\ p[2] = i /\ q[2] = j BY <2>1
  <2>3. p = q BY <1>1, <1>4, <2>2 DEF Owns
  <2> QED BY <2>2, <2>3
<1> QED BY <1>3, <1>4 DEF Stack

(* What values print. *)

\* What Printed is, in any heap.
Prints(h, c) ==
  LET print[x \in Cells] == LET items == IF h[x].type = "list" THEN Chain(h, h[x].contents)
                                         ELSE <<>> IN
        <<h[x].type, [i \in DOMAIN items |-> print[items[i]]]>>
  IN  print[c]

\* The elements of a list, and what the cells of a sequence print.
Elements(h, x) == Chain(h, Below(h, x))
Mapped(h, s) == [i \in 1..Len(s) |-> Prints(h, s[i])]

\* The elements of a list cell are cells in its list, each leads to the next.
LEMMA ElementFacts ==
  ASSUME NEW h, Ranked(h), NEW x \in Cells
  PROVE  /\ Elements(h, x) \in Seq(Cells) /\ Len(Elements(h, x)) \in Nat
         /\ \A i \in 1..Len(Elements(h, x)) : Elements(h, x)[i] \in List(h, Below(h, x))
         /\ (Below(h, x) = nilCell <=> Elements(h, x) = <<>>)
<1>1. PICK b \in Cells : b = Below(h, x) BY KidsType
<1>2. PICK s : s = Chain(h, b) OBVIOUS
<1>3. /\ s \in Seq(Cells) /\ (b = nilCell <=> s = <<>>)
      /\ \A y : y \in List(h, b) <=> \E i \in 1..Len(s) : s[i] = y BY <1>2, ChainFacts
<1>4. Elements(h, x) = s BY <1>1, <1>2 DEF Elements
<1>5. Len(s) \in Nat BY ONLY <1>3
<1>6. \A i \in 1..Len(s) : s[i] \in List(h, b) BY ONLY <1>3
<1> QED BY ONLY <1>1, <1>3, <1>4, <1>5, <1>6

\* Elements have a lower rank than the list cell.
LEMMA ElementRank ==
  ASSUME NEW h, NEW N \in Nat, NEW rank, Falling(h, N, rank), NEW x \in Cells,
         NEW i \in 1..Len(Elements(h, x))
  PROVE  /\ Elements(h, x)[i] \in Cells /\ rank[Elements(h, x)[i]] < rank[x]
         /\ rank[x] \in Nat /\ rank[Elements(h, x)[i]] \in Nat
<1>1. Ranked(h) BY DEF Ranked
<1>2. /\ rank \in [Cells -> 0..N] /\ After(h, nilCell) = nilCell /\ Below(h, nilCell) = nilCell
      /\ \A y \in Cells : After(h, y) \in Cells /\ Below(h, y) \in Cells
      /\ \A y \in Cells \ {nilCell} : rank[After(h, y)] < rank[y] /\ rank[Below(h, y)] < rank[y]
  BY DEF Falling
<1>3. PICK b \in Cells : b = Below(h, x) BY <1>2
<1>4. PICK y : y = Elements(h, x)[i] OBVIOUS
<1>5. y \in List(h, b) BY <1>1, <1>3, <1>4, ElementFacts
<1>6. b # nilCell /\ x # nilCell BY <1>2, <1>3, <1>5 DEF List
<1>7. y \in Reach(Nexts(h), b) BY <1>5, <1>6 DEF List
<1>8. /\ Nexts(h) \in [Cells -> SUBSET Cells]
      /\ \A z \in Cells : Nexts(h)[z] = {After(h, z)} \ {nilCell} BY <1>1, KidsType
<1>9. y \in Cells BY <1>3, <1>7, <1>8, ReachSealed
<1>10. rank \in [Cells -> Nat] BY <1>2
<1>11. \A z \in Cells : \A w \in Nexts(h)[z] : rank[w] < rank[z]
  <2> SUFFICES ASSUME NEW z \in Cells, NEW w \in Nexts(h)[z] PROVE rank[w] < rank[z] OBVIOUS
  <2>1. w = After(h, z) /\ w # nilCell BY <1>8
  <2>2. z # nilCell BY <1>2, <2>1
  <2> QED BY <1>2, <2>1, <2>2
<1>12. rank[y] <= rank[b] BY <1>3, <1>7, <1>8, <1>10, <1>11, ReachRank
<1>13. rank[b] < rank[x] BY <1>2, <1>3, <1>6
<1>14. rank[y] \in Nat /\ rank[b] \in Nat /\ rank[x] \in Nat BY <1>9, <1>10
<1> QED BY <1>4, <1>9, <1>12, <1>13, <1>14

\* What holds of a cell if it holds of its elements, holds of all cells.
LEMMA ElementInduction ==
  ASSUME NEW h, Ranked(h), NEW S,
         \A x \in Cells : (\A i \in 1..Len(Elements(h, x)) : Elements(h, x)[i] \in S) => x \in S
  PROVE  \A x \in Cells : x \in S
<1>1. PICK N \in Nat : \E rank : Falling(h, N, rank) BY DEF Ranked
<1>2. PICK rank : Falling(h, N, rank) BY <1>1
<1>3. rank \in [Cells -> 0..N] BY <1>2 DEF Falling
<1>4. PICK T : T = {k \in Nat : \A x \in Cells : rank[x] < k => x \in S} OBVIOUS
<1>5. 0 \in T
  <2>1. \A x \in Cells : rank[x] \in Nat BY <1>3
  <2> QED BY <1>4, <2>1
<1>6. ASSUME NEW k \in Nat, k \in T PROVE k + 1 \in T
  <2>1. ASSUME NEW x \in Cells, rank[x] < k + 1 PROVE x \in S
    <3>1. ASSUME NEW i \in 1..Len(Elements(h, x)) PROVE Elements(h, x)[i] \in S
      <4>1. PICK y : y = Elements(h, x)[i] OBVIOUS
      <4>2. y \in Cells /\ rank[y] < rank[x] /\ rank[x] \in Nat /\ rank[y] \in Nat
        BY <1>2, <4>1, ElementRank
      <4>3. rank[y] < k BY <2>1, <4>2
      <4> QED BY <1>4, <1>6, <4>1, <4>2, <4>3
    <3> QED BY <3>1
  <2> QED BY <1>4, <2>1
<1>7. \A k \in Nat : k \in T BY <1>5, <1>6, Induction
<1>8. ASSUME NEW x \in Cells PROVE x \in S
  <2>1. rank[x] \in Nat BY <1>3
  <2>2. rank[x] + 1 \in T /\ rank[x] < rank[x] + 1 BY <1>7, <2>1
  <2> QED BY <1>4, <2>2
<1> QED BY <1>8

\* A function up to rank k is as printing asks for.
Upto(h, rank, f, k) ==
  /\ f = [x \in Cells |-> f[x]]
  /\ \A x \in Cells : rank[x] < k =>
       f[x] = <<h[x].type, [i \in 1..Len(Elements(h, x)) |-> f[Elements(h, x)[i]]]>>
\* Printing is a recursion that ends: a cell prints its type and what its elements print.
LEMMA PrintsFacts ==
  ASSUME NEW h \in Heaps, Ranked(h), NEW c \in Cells
  PROVE  Prints(h, c) = <<h[c].type, Mapped(h, Elements(h, c))>>
<1>1. PICK N \in Nat : \E rank : Falling(h, N, rank) BY DEF Ranked
<1>2. PICK rank : Falling(h, N, rank) BY <1>1
<1>3. rank \in [Cells -> 0..N] BY <1>2 DEF Falling
<1>4. PICK T : T = {k \in Nat : \E f : Upto(h, rank, f, k)} OBVIOUS
<1>5. 0 \in T
  <2>1. PICK f : f = [x \in Cells |-> 0] OBVIOUS
  <2>2. \A x \in Cells : ~(rank[x] < 0) BY <1>3
  <2>3. f = [x \in Cells |-> f[x]] BY <2>1
  <2>4. Upto(h, rank, f, 0) BY <2>2, <2>3 DEF Upto
  <2> QED BY <1>4, <2>4
<1>6. ASSUME NEW k \in Nat, k \in T PROVE k + 1 \in T
  <2>1. PICK f : Upto(h, rank, f, k) BY <1>4, <1>6
  <2>2. PICK g : g = [x \in Cells |->
          <<h[x].type, [i \in 1..Len(Elements(h, x)) |-> f[Elements(h, x)[i]]]>>] OBVIOUS
  <2>3. g = [x \in Cells |-> g[x]] BY <2>2
  <2>4. \A x \in Cells : g[x] = <<h[x].type, [i \in 1..Len(Elements(h, x)) |-> f[Elements(h, x)[i]]]>>
    BY <2>2
  <2>5. ASSUME NEW x \in Cells, rank[x] < k PROVE g[x] = f[x] BY <2>1, <2>4, <2>5 DEF Upto
  <2>6. ASSUME NEW x \in Cells, rank[x] < k + 1
        PROVE g[x] = <<h[x].type, [i \in 1..Len(Elements(h, x)) |-> g[Elements(h, x)[i]]]>>
    <3>1. ASSUME NEW i \in 1..Len(Elements(h, x)) PROVE g[Elements(h, x)[i]] = f[Elements(h, x)[i]]
      <4>1. PICK y : y = Elements(h, x)[i] OBVIOUS
      <4>2. y \in Cells /\ rank[y] < rank[x] /\ rank[x] \in Nat /\ rank[y] \in Nat
        BY <1>2, <4>1, ElementRank
      <4>3. rank[y] < k BY <2>6, <4>2
      <4> QED BY <2>5, <4>1, <4>2, <4>3
    <3>2. [i \in 1..Len(Elements(h, x)) |-> g[Elements(h, x)[i]]]
          = [i \in 1..Len(Elements(h, x)) |-> f[Elements(h, x)[i]]] BY ONLY <3>1
    <3> QED BY ONLY <2>4, <3>2, x \in Cells
  <2>7. Upto(h, rank, g, k + 1) BY <2>3, <2>6 DEF Upto
  <2> QED BY <1>4, <2>7
<1>7. \A k \in Nat : k \in T BY <1>5, <1>6, Induction
<1>8. PICK f : Upto(h, rank, f, N + 1)
  <2>1. N + 1 \in T BY <1>7
  <2> QED BY <1>4, <2>1
<1>9. ASSUME NEW x \in Cells
      PROVE f[x] = <<h[x].type, [i \in 1..Len(Elements(h, x)) |-> f[Elements(h, x)[i]]]>>
  <2>1. rank[x] \in 0..N BY <1>3
  <2>2. rank[x] < N + 1 BY <2>1
  <2> QED BY <1>8, <2>2 DEF Upto
<1>10. ASSUME NEW x \in Cells
       PROVE /\ (IF h[x].type = "list" THEN Chain(h, h[x].contents) ELSE <<>>) = Elements(h, x)
             /\ DOMAIN Elements(h, x) = 1..Len(Elements(h, x))
  <2>1. Elements(h, x) \in Seq(Cells) BY ElementFacts
  <2>2. Below(h, x) = nilCell => Elements(h, x) = <<>> BY ElementFacts
  <2>3. h[x].type = "list" => Elements(h, x) = Chain(h, h[x].contents) BY DEF Elements, Below
  <2>4. h[x].type # "list" => Elements(h, x) = <<>> BY <2>2 DEF Below
  <2> QED BY ONLY <2>1, <2>3, <2>4
<1> DEFINE Look(g) == [x \in Cells |->
             LET items == IF h[x].type = "list" THEN Chain(h, h[x].contents) ELSE <<>> IN
             <<h[x].type, [i \in DOMAIN items |-> g[items[i]]]>>]
<1>11. ASSUME NEW g
       PROVE Look(g) = [x \in Cells |->
               <<h[x].type, [i \in 1..Len(Elements(h, x)) |-> g[Elements(h, x)[i]]]>>]
  BY ONLY <1>10
<1>12. f = Look(f)
  <2>1. f = [x \in Cells |-> f[x]] BY <1>8 DEF Upto
  <2>2. [x \in Cells |-> f[x]] = [x \in Cells |->
               <<h[x].type, [i \in 1..Len(Elements(h, x)) |-> f[Elements(h, x)[i]]]>>]
    BY ONLY <1>9
  <2> QED BY ONLY <1>11, <2>1, <2>2
<1> DEFINE print == CHOOSE print : print = Look(print)
<1>13. print = Look(print)
  <2> HIDE DEF Look
  <2> QED BY ONLY <1>12
<1>14. \A x \in Cells : Prints(h, x) = print[x] BY DEF Prints
<1>15. print[c] = <<h[c].type, [i \in 1..Len(Elements(h, c)) |-> print[Elements(h, c)[i]]]>>
  <2> HIDE DEF Look, print
  <2>1. Look(print) = [x \in Cells |->
               <<h[x].type, [i \in 1..Len(Elements(h, x)) |-> print[Elements(h, x)[i]]]>>]
    BY ONLY <1>11
  <2> QED BY ONLY <1>13, <2>1, c \in Cells
<1>16. \A i \in 1..Len(Elements(h, c)) : Elements(h, c)[i] \in Cells
  <2>1. Elements(h, c) \in Seq(Cells) BY ElementFacts
  <2> QED BY ONLY <2>1
<1>17. [i \in 1..Len(Elements(h, c)) |-> print[Elements(h, c)[i]]]
       = [i \in 1..Len(Elements(h, c)) |-> Prints(h, Elements(h, c)[i])]
  <2> HIDE DEF print
  <2> QED BY ONLY <1>14, <1>16
<1>18. Prints(h, c) = <<h[c].type, [i \in 1..Len(Elements(h, c)) |-> Prints(h, Elements(h, c)[i])]>>
  <2> HIDE DEF print
  <2> QED BY ONLY <1>14, <1>15, <1>17, c \in Cells
<1> QED BY ONLY <1>18 DEF Mapped

\* Two sequences of cells with the same elements are one.
LEMMA SameSeq ==
  ASSUME NEW S, NEW s \in Seq(S), NEW T, NEW t \in Seq(T), Len(s) = Len(t),
         \A i \in 1..Len(s) : s[i] = t[i]
  PROVE  s = t
<1>1. s = [i \in 1..Len(s) |-> s[i]] OBVIOUS
<1>2. t = [i \in 1..Len(t) |-> t[i]] OBVIOUS
<1>3. [i \in 1..Len(s) |-> s[i]] = [i \in 1..Len(t) |-> t[i]] OBVIOUS
<1> QED BY ONLY <1>1, <1>2, <1>3

\* s goes from cell to cell along next, to the end.
Follow(h, s) ==
  /\ s \in Seq(Cells) /\ s # <<>>
  /\ \A i \in 1..Len(s) : /\ s[i] # nilCell /\ s[i] \in Cells
                          /\ After(h, s[i]) = IF i = Len(s) THEN nilCell ELSE s[i + 1]
\* Of two such sequences that begin alike, one is no longer than the other.
LEMMA FollowSame ==
  ASSUME NEW h, NEW s, Follow(h, s), NEW t, Follow(h, t), s[1] = t[1]
  PROVE  \A i \in 1..Len(s) : i \in 1..Len(t) /\ t[i] = s[i]
<1>1. Len(s) \in Nat \ {0} /\ Len(t) \in Nat \ {0} BY DEF Follow
<1>2. PICK k \in Nat : k = Len(s) BY <1>1
<1>3. PICK n \in Nat : n = Len(t) BY <1>1
<1>4. k # 0 /\ n # 0 BY <1>1, <1>2, <1>3
<1>5. \A i \in 1..k : s[i] # nilCell /\ After(h, s[i]) = IF i = k THEN nilCell ELSE s[i + 1]
  BY <1>2 DEF Follow
<1>6. \A i \in 1..n : t[i] # nilCell /\ After(h, t[i]) = IF i = n THEN nilCell ELSE t[i + 1]
  BY <1>3 DEF Follow
<1>7. PICK S : S = {i \in Nat : i + 1 <= k => i + 1 <= n /\ t[i + 1] = s[i + 1]} OBVIOUS
<1>8. 0 \in S BY <1>4, <1>7
<1>9. ASSUME NEW i \in Nat, i \in S PROVE i + 1 \in S
  <2>1. PICK j \in Nat : j = i + 1 OBVIOUS
  <2>2. ASSUME j + 1 <= k PROVE j + 1 <= n /\ t[j + 1] = s[j + 1]
    <3>1. j \in 1..k /\ j # k /\ j + 1 \in 1..k BY <2>1, <2>2
    <3>2. j <= n /\ t[j] = s[j] BY <1>7, <1>9, <2>1, <3>1
    <3>3. j \in 1..n BY <2>1, <3>2
    <3>4. After(h, s[j]) = s[j + 1] /\ s[j + 1] # nilCell BY <1>5, <3>1
    <3>5. j # n BY <1>6, <3>2, <3>3, <3>4
    <3>6. After(h, t[j]) = t[j + 1] BY <1>6, <3>3, <3>5
    <3>7. j + 1 <= n BY <3>3, <3>5
    <3> QED BY <3>2, <3>4, <3>6, <3>7
  <2> QED BY <1>7, <2>1, <2>2
<1>10. \A i \in Nat : i \in S BY <1>8, <1>9, Induction
<1>11. ASSUME NEW i \in 1..k PROVE i \in 1..n /\ t[i] = s[i]
  <2>1. PICK j \in Nat : i = j + 1
    <3>1. i - 1 \in Nat /\ i = (i - 1) + 1 BY <1>11
    <3> QED BY <3>1
  <2>2. j + 1 <= n /\ t[j + 1] = s[j + 1] BY <1>7, <1>10, <2>1
  <2> QED BY <2>1, <2>2
<1> QED BY <1>2, <1>3, <1>11

\* A list's elements are the sequence that goes from its first cell to the end.
LEMMA ChainIs ==
  ASSUME NEW h, Ranked(h), NEW s, Follow(h, s), NEW b, b = s[1]
  PROVE  Chain(h, b) = s
<1>1. s \in Seq(Cells) /\ s # <<>> /\ 1 \in 1..Len(s) BY DEF Follow
<1>2. b \in Cells /\ b # nilCell BY <1>1 DEF Follow
<1>3. PICK t : t = Chain(h, b) OBVIOUS
<1>4. /\ t \in Seq(Cells) /\ (b = nilCell <=> t = <<>>)
      /\ b # nilCell => Len(t) > 0 /\ t[1] = b
      /\ \A i \in 1..Len(t) : /\ t[i] # nilCell /\ t[i] \in Cells
                              /\ After(h, t[i]) = IF i = Len(t) THEN nilCell ELSE t[i + 1]
  BY <1>2, <1>3, ChainFacts
<1>5. Follow(h, t) BY ONLY <1>2, <1>4 DEF Follow
<1>6. s[1] = t[1] BY <1>2, <1>4
<1>7. \A i \in 1..Len(s) : i \in 1..Len(t) /\ t[i] = s[i] BY <1>5, <1>6, FollowSame
<1>8. \A i \in 1..Len(t) : i \in 1..Len(s) BY <1>5, <1>6, FollowSame
<1>9. Len(s) = Len(t)
  <2>1. Len(s) \in Nat /\ Len(t) \in Nat BY ONLY <1>1, <1>4
  <2>2. Len(s) \in 1..Len(s) /\ Len(t) \in 1..Len(t)
    <3>1. Len(s) # 0 /\ Len(t) # 0 BY ONLY <1>1, <1>2, <1>4
    <3> QED BY ONLY <2>1, <3>1
  <2>3. Len(s) <= Len(t) /\ Len(t) <= Len(s) BY <1>7, <1>8, <2>1, <2>2
  <2> QED BY ONLY <2>1, <2>3
<1>10. s = t BY ONLY <1>1, <1>4, <1>7, <1>9, SameSeq
<1> QED BY <1>3, <1>10

\* The elements of a list go from cell to cell.
LEMMA ChainFollows ==
  ASSUME NEW h, Ranked(h), NEW b \in Cells, b # nilCell
  PROVE  Follow(h, Chain(h, b)) /\ Chain(h, b)[1] = b
<1>1. PICK t : t = Chain(h, b) OBVIOUS
<1>2. /\ t \in Seq(Cells) /\ (b = nilCell <=> t = <<>>)
      /\ b # nilCell => Len(t) > 0 /\ t[1] = b
      /\ \A i \in 1..Len(t) : /\ t[i] # nilCell /\ t[i] \in Cells
                              /\ After(h, t[i]) = IF i = Len(t) THEN nilCell ELSE t[i + 1]
  BY <1>1, ChainFacts
<1> QED BY <1>1, <1>2 DEF Follow

\* In g the cells at[x] are what the cells x of A are in h, where those of B are in lists.
Alike(h, g, A, B, at) ==
  /\ A \subseteq Cells /\ B \subseteq A /\ nilCell \notin B /\ at \in [A -> Cells]
  /\ \A x \in A : /\ g[at[x]].type = h[x].type /\ Below(h, x) \in B \cup {nilCell}
                  /\ Below(g, at[x]) = IF Below(h, x) = nilCell THEN nilCell ELSE at[Below(h, x)]
  /\ \A x \in B : /\ at[x] # nilCell /\ After(h, x) \in B \cup {nilCell}
                  /\ After(g, at[x]) = IF After(h, x) = nilCell THEN nilCell ELSE at[After(h, x)]
\* Their elements correspond.
LEMMA AlikeElements ==
  ASSUME NEW h, Ranked(h), NEW g, Ranked(g), NEW A, NEW B, NEW at, Alike(h, g, A, B, at),
         NEW x \in A
  PROVE  /\ Len(Elements(g, at[x])) = Len(Elements(h, x)) /\ at[x] \in Cells /\ x \in Cells
         /\ \A i \in 1..Len(Elements(h, x)) :
              Elements(h, x)[i] \in B /\ Elements(g, at[x])[i] = at[Elements(h, x)[i]]
<1>1. /\ A \subseteq Cells /\ B \subseteq A /\ nilCell \notin B /\ at \in [A -> Cells]
      /\ Below(h, x) \in B \cup {nilCell}
      /\ Below(g, at[x]) = IF Below(h, x) = nilCell THEN nilCell ELSE at[Below(h, x)]
      /\ \A y \in B : /\ at[y] # nilCell /\ After(h, y) \in B \cup {nilCell}
                      /\ After(g, at[y]) = IF After(h, y) = nilCell THEN nilCell ELSE at[After(h, y)]
  BY DEF Alike
<1>2. x \in Cells /\ at[x] \in Cells BY <1>1
<1>3. CASE Below(h, x) = nilCell
  <2>1. Below(g, at[x]) = nilCell BY <1>1, <1>3
  <2>2. Elements(h, x) = <<>> /\ Elements(g, at[x]) = <<>> BY <1>2, <1>3, <2>1, ElementFacts
  <2> QED BY <1>2, <2>2
<1>4. CASE Below(h, x) # nilCell
  <2>1. PICK b \in B : b = Below(h, x) BY <1>1, <1>4
  <2>2. b \in Cells /\ b # nilCell /\ Below(g, at[x]) = at[b] BY <1>1, <1>4, <2>1
  <2>3. PICK s : s = Chain(h, b) OBVIOUS
  <2>4. Follow(h, s) /\ s[1] = b BY <2>2, <2>3, ChainFollows
  <2>5. PICK n \in Nat : n = Len(s) /\ n # 0 BY <2>4 DEF Follow
  <2>6. /\ s \in Seq(Cells)
        /\ \A i \in 1..n : s[i] # nilCell /\ After(h, s[i]) = IF i = n THEN nilCell ELSE s[i + 1]
    BY <2>4, <2>5 DEF Follow
  <2>7. \A i \in 1..n : s[i] \in B
    <3>1. PICK S : S = {i \in Nat : i + 1 <= n => s[i + 1] \in B} OBVIOUS
    <3>2. 0 \in S BY <2>1, <2>4, <3>1
    <3>3. ASSUME NEW i \in Nat, i \in S PROVE i + 1 \in S
      <4>1. PICK j \in Nat : j = i + 1 OBVIOUS
      <4>2. ASSUME j + 1 <= n PROVE s[j + 1] \in B
        <5>1. j \in 1..n /\ j # n /\ j + 1 \in 1..n BY <4>1, <4>2
        <5>2. s[j] \in B BY <3>1, <3>3, <4>1, <5>1
        <5>3. After(h, s[j]) = s[j + 1] /\ s[j + 1] # nilCell BY <2>6, <5>1
        <5> QED BY <1>1, <5>2, <5>3
      <4> QED BY <3>1, <4>1, <4>2
    <3>4. \A i \in Nat : i \in S BY <3>2, <3>3, Induction
    <3>5. ASSUME NEW i \in 1..n PROVE s[i] \in B
      <4>1. i - 1 \in Nat /\ i = (i - 1) + 1 /\ i <= n BY <3>5
      <4>2. i - 1 \in S BY <3>4, <4>1
      <4> QED BY <3>1, <4>1, <4>2
    <3> QED BY <3>5
  <2>8. PICK t : t = [i \in 1..n |-> at[s[i]]] OBVIOUS
  <2>9. t \in Seq(Cells) /\ Len(t) = n
    <3>1. \A i \in 1..n : at[s[i]] \in Cells BY <1>1, <2>7
    <3> QED BY ONLY <2>8, <3>1, n \in Nat
  <2>10. t # <<>> /\ t[1] = at[b]
    <3>1. 1 \in 1..n BY <2>5
    <3> QED BY <2>4, <2>5, <2>8, <2>9, <3>1
  <2>11. ASSUME NEW i \in 1..n
         PROVE /\ t[i] # nilCell /\ t[i] \in Cells
               /\ After(g, t[i]) = IF i = n THEN nilCell ELSE t[i + 1]
    <3>1. t[i] = at[s[i]] /\ s[i] \in B BY <2>7, <2>8
    <3>2. After(g, t[i]) = IF After(h, s[i]) = nilCell THEN nilCell ELSE at[After(h, s[i])]
      BY <1>1, <3>1
    <3>3. CASE i = n BY <1>1, <2>6, <3>1, <3>2, <3>3
    <3>4. CASE i # n
      <4>1. i + 1 \in 1..n BY <3>4
      <4>2. After(h, s[i]) = s[i + 1] /\ s[i + 1] # nilCell BY <2>6, <3>4, <4>1
      <4>3. t[i + 1] = at[s[i + 1]] BY <2>8, <4>1
      <4> QED BY <1>1, <3>1, <3>2, <3>4, <4>2, <4>3
    <3> QED BY <3>3, <3>4
  <2>12. Follow(g, t) BY <2>9, <2>10, <2>11 DEF Follow
  <2>13. Chain(g, at[b]) = t BY <2>10, <2>12, ChainIs
  <2>14. Elements(g, at[x]) = t /\ Elements(h, x) = s BY <2>1, <2>2, <2>3, <2>13 DEF Elements
  <2> QED BY <1>2, <2>5, <2>7, <2>8, <2>9, <2>14
<1> QED BY <1>3, <1>4

\* They print the same.
LEMMA AlikePrints ==
  ASSUME NEW h \in Heaps, Ranked(h), NEW g \in Heaps, Ranked(g),
         NEW A, NEW B, NEW at, Alike(h, g, A, B, at), NEW c \in A
  PROVE  Prints(g, at[c]) = Prints(h, c)
<1>1. PICK S : S = {x \in Cells : x \in A => Prints(g, at[x]) = Prints(h, x)} OBVIOUS
<1>2. B \subseteq A /\ A \subseteq Cells /\ \A x \in A : g[at[x]].type = h[x].type BY DEF Alike
<1>3. ASSUME NEW x \in Cells,
             \A i \in 1..Len(Elements(h, x)) : Elements(h, x)[i] \in S
      PROVE  x \in S
  <2>1. ASSUME x \in A PROVE Prints(g, at[x]) = Prints(h, x)
    <3>1. PICK s, t : s = Elements(h, x) /\ t = Elements(g, at[x]) OBVIOUS
    <3>2. Len(t) = Len(s) /\ at[x] \in Cells /\ \A i \in 1..Len(s) : s[i] \in B /\ t[i] = at[s[i]]
      BY <2>1, <3>1, AlikeElements
    <3>3. \A i \in 1..Len(s) : s[i] \in S BY <1>3, <3>1
    <3>4. \A i \in 1..Len(s) : Prints(g, t[i]) = Prints(h, s[i]) BY ONLY <1>1, <1>2, <3>2, <3>3
    <3>5. Mapped(g, t) = Mapped(h, s) BY ONLY <3>2, <3>4 DEF Mapped
    <3>6. Prints(h, x) = <<h[x].type, Mapped(h, s)>> BY <3>1, PrintsFacts
    <3>7. Prints(g, at[x]) = <<g[at[x]].type, Mapped(g, t)>> BY <3>1, <3>2, PrintsFacts
    <3>8. g[at[x]].type = h[x].type BY <1>2, <2>1
    <3> QED BY ONLY <3>5, <3>6, <3>7, <3>8
  <2> QED BY <1>1, <2>1
<1>4. \A x \in Cells : x \in S BY <1>3, ElementInduction
<1> QED BY <1>1, <1>2, <1>4

\* The cells that make up c's value: c and the tree below it.
ValueCells(h, c) == {c} \cup Tree(h, Below(h, c))
\* A value prints the same if its cells have the same types and links.
LEMMA SamePrints ==
  ASSUME NEW h, NEW R, Shape(h, R), NEW g \in Heaps, Ranked(g), NEW c \in Alive(h) \cup Permanent,
         \A x \in ValueCells(h, c) :
           /\ g[x].type = h[x].type /\ Below(g, x) = Below(h, x)
           /\ x # c => After(g, x) = After(h, x)
  PROVE  Prints(g, c) = Prints(h, c)
<1>1. PICK V : V = {c} \cup Tree(h, Below(h, c)) OBVIOUS
<1>2. Whole(h, V, c) /\ V \subseteq Cells BY <1>1, WholeValue
<1>3. h \in Heaps /\ Ranked(h) BY ShapeFacts
<1>4. PICK at : at = [x \in V |-> x] OBVIOUS
<1>5. PICK B : B = V \ {c} OBVIOUS
<1>6. /\ c \in V /\ nilCell \notin B /\ B \subseteq V
      /\ \A x \in V : /\ Below(h, x) \in B \cup {nilCell}
                      /\ x # c => After(h, x) \in B \cup {nilCell} BY <1>2, <1>5 DEF Whole
<1>7. \A x \in V : /\ g[x].type = h[x].type /\ Below(g, x) = Below(h, x)
                   /\ x # c => After(g, x) = After(h, x) BY <1>1 DEF ValueCells
<1>8. Alike(h, g, V, B, at)
  <2>1. at \in [V -> Cells] BY <1>2, <1>4
  <2>2. \A x \in V : at[x] = x BY <1>4
  <2>3. \A x \in V : /\ g[at[x]].type = h[x].type /\ Below(h, x) \in B \cup {nilCell}
                     /\ Below(g, at[x]) = IF Below(h, x) = nilCell THEN nilCell ELSE at[Below(h, x)]
    <3> SUFFICES ASSUME NEW x \in V
        PROVE  /\ g[at[x]].type = h[x].type /\ Below(h, x) \in B \cup {nilCell}
               /\ Below(g, at[x]) = IF Below(h, x) = nilCell THEN nilCell ELSE at[Below(h, x)]
      OBVIOUS
    <3>1. at[x] = x /\ Below(h, x) \in B \cup {nilCell} /\ Below(g, x) = Below(h, x)
          /\ g[x].type = h[x].type BY ONLY <1>6, <1>7, <2>2, x \in V
    <3>2. Below(h, x) # nilCell => at[Below(h, x)] = Below(h, x) BY ONLY <1>6, <2>2, <3>1
    <3> QED BY ONLY <3>1, <3>2
  <2>4. \A x \in B : /\ at[x] # nilCell /\ After(h, x) \in B \cup {nilCell}
                     /\ After(g, at[x]) = IF After(h, x) = nilCell THEN nilCell ELSE at[After(h, x)]
    <3> SUFFICES ASSUME NEW x \in B
        PROVE  /\ at[x] # nilCell /\ After(h, x) \in B \cup {nilCell}
               /\ After(g, at[x]) = IF After(h, x) = nilCell THEN nilCell ELSE at[After(h, x)]
      OBVIOUS
    <3>1. x \in V /\ x # c /\ x # nilCell /\ at[x] = x BY ONLY <1>5, <1>6, <2>2, x \in B
    <3>2. After(h, x) \in B \cup {nilCell} /\ After(g, x) = After(h, x) BY ONLY <1>6, <1>7, <3>1
    <3>3. After(h, x) # nilCell => at[After(h, x)] = After(h, x) BY ONLY <1>6, <2>2, <3>2
    <3> QED BY ONLY <3>1, <3>2, <3>3
  <2> QED BY ONLY <1>2, <1>6, <2>1, <2>3, <2>4 DEF Alike
<1>9. Prints(g, at[c]) = Prints(h, c) BY <1>3, <1>6, <1>8, AlikePrints
<1> QED BY <1>4, <1>6, <1>9

\* In both heaps the cells in use are the same, but for D.
Agrees(h, g, D) == \A x \in Alive(h) \cap Alive(g) : x \notin D => g[x] = h[x]
\* A value prints the same if none of its cells is in D.
LEMMA Untouched ==
  ASSUME NEW h, NEW R, Shape(h, R), NEW g, NEW Q, Shape(g, Q), NEW D, Agrees(h, g, D),
         NEW c \in Alive(h) \cup Permanent, c \in Alive(g) \cup Permanent,
         c \notin D, Tree(h, Below(h, c)) \cap D = {}
  PROVE  Prints(g, c) = Prints(h, c)
<1>1. /\ h \in Heaps /\ g \in Heaps /\ Ranked(h) /\ Ranked(g) /\ Treelike(h)
      /\ Alive(h) \subseteq Cells /\ nilCell \notin Alive(h) /\ nilCell \notin Alive(g)
      /\ \A x \in Cells : /\ After(g, x) \in Alive(g) \cup {nilCell}
                          /\ Below(g, x) \in Alive(g) \cup {nilCell}
                          /\ Below(h, x) \in Alive(h) \cup {nilCell} BY ShapeFacts
<1>2. /\ g[nilCell].type = "nil" /\ g[trueCell].type = "true"
      /\ h[nilCell].type = "nil" /\ h[trueCell].type = "true" BY DEF Shape
<1>3. c \in Cells BY <1>1, Special DEF Permanent
<1>4. PICK b \in Alive(h) \cup {nilCell} : b = Below(h, c) BY <1>1, <1>3
<1>5. PICK T : T = Tree(h, b) OBVIOUS
<1>6. \A x \in Alive(h) \cap Alive(g) : x \notin D => g[x] = h[x] BY DEF Agrees
<1>7. CASE c \in Permanent
  <2>1. c \in {nilCell, trueCell} BY <1>7 DEF Permanent
  <2>2. g[c].type = h[c].type /\ h[c].type # "list" BY <1>2, <2>1
  <2>3. Below(g, c) = nilCell /\ Below(h, c) = nilCell BY <2>2 DEF Below
  <2>4. ValueCells(h, c) = {c} BY <2>3 DEF ValueCells, Tree
  <2> QED BY <1>1, <2>2, <2>3, <2>4, SamePrints
<1>8. CASE c \notin Permanent
  <2>1. c \in Alive(h) \cap Alive(g) /\ g[c] = h[c] BY <1>6, <1>8
  <2>2. Below(g, c) = b /\ g[c].type = h[c].type BY <1>4, <2>1 DEF Below
  <2>3. b \in Alive(g) \cup {nilCell} BY <1>1, <1>3, <2>2
  <2>4. T \subseteq Alive(g) /\ T \subseteq Alive(h)
    <3>1. CASE b = nilCell BY <1>5, <3>1 DEF Tree
    <3>2. CASE b # nilCell
      <4>1. b \in Alive(h) /\ b \in Alive(g) /\ b \in Cells BY <1>1, <1>4, <2>3, <3>2
      <4>2. /\ b \in T /\ T \subseteq Alive(h) /\ \A x \in T : Links(h, x) \subseteq T
        BY <1>5, <4>1, TreeFacts
      <4>3. PICK K : K = Kids(h) OBVIOUS
      <4>4. /\ K \in [Cells -> SUBSET Cells]
            /\ \A x \in Cells : K[x] = {After(h, x), Below(h, x)} \ {nilCell}
        BY <1>1, <4>3, KidsType
      <4>5. PICK S : S = T \cap Alive(g) OBVIOUS
      <4>6. S \in SUBSET Cells /\ b \in S BY <1>1, <4>1, <4>2, <4>5
      <4>7. ASSUME NEW x \in S PROVE K[x] \subseteq S
        <5>1. x \in T /\ x \in Alive(h) /\ x \in Alive(g) /\ x \in Cells /\ x \notin D
          BY <1>1, <1>4, <1>5, <4>2, <4>5
        <5>2. g[x] = h[x] BY <1>6, <5>1
        <5>3. After(g, x) = After(h, x) /\ Below(g, x) = Below(h, x) BY <5>2 DEF After, Below
        <5>4. K[x] \subseteq Alive(g) BY <1>1, <4>4, <5>1, <5>3
        <5>5. K[x] \subseteq T BY <4>2, <4>4, <5>1 DEF Links
        <5> QED BY <4>5, <5>4, <5>5
      <4>8. Sealed(K, S) BY <4>7 DEF Sealed
      <4>9. Reach(K, b) \subseteq S BY <4>1, <4>4, <4>6, <4>8, ReachSealed
      <4>10. T = Reach(K, b) BY <1>5, <3>2, <4>3 DEF Tree
      <4> QED BY <4>2, <4>5, <4>9, <4>10
    <3> QED BY <3>1, <3>2
  <2>5. \A x \in T : g[x] = h[x] BY <1>4, <1>5, <1>6, <2>4
  <2>6. \A x \in ValueCells(h, c) : g[x] = h[x] BY <1>4, <1>5, <2>1, <2>5 DEF ValueCells
  <2>7. \A x \in ValueCells(h, c) :
           /\ g[x].type = h[x].type /\ Below(g, x) = Below(h, x)
           /\ x # c => After(g, x) = After(h, x) BY <2>6 DEF After, Below
  <2> QED BY <1>1, <2>7, SamePrints
<1> QED BY <1>7, <1>8

\* What was in use is kept: values print the same.
LEMMA GrowPrints ==
  ASSUME NEW h, NEW R, Shape(h, R), NEW g, NEW Q, Shape(g, Q), Keeps(h, g, Alive(h)),
         NEW c \in Alive(h) \cup Permanent
  PROVE  Prints(g, c) = Prints(h, c) /\ c \in Alive(g) \cup Permanent
<1>1. Agrees(h, g, {}) BY DEF Agrees, Keeps
<1>2. c \in Alive(g) \cup Permanent BY DEF Keeps
<1> QED BY <1>1, <1>2, Untouched

\* What is still in use is kept: values that are still there print the same.
LEMMA ShrinkPrints ==
  ASSUME NEW h, NEW R, Shape(h, R), NEW g, NEW Q, Shape(g, Q), Keeps(h, g, Alive(g)),
         NEW c \in Alive(g) \cup Permanent
  PROVE  Prints(g, c) = Prints(h, c) /\ c \in Alive(h) \cup Permanent
<1>1. Agrees(h, g, {}) BY DEF Agrees, Keeps
<1>2. c \in Alive(h) \cup Permanent BY DEF Keeps
<1> QED BY <1>1, <1>2, Untouched

\* A copy prints the same.
LEMMA ClonedPrints ==
  ASSUME NEW m, NEW R, Tidy(m, R), NEW c \in Alive(m.heap) \cup Permanent,
         NEW V, V = {c} \cup Tree(m.heap, Below(m.heap, c)),
         NEW at, at \in [V -> Cells \ {nilCell}], NEW g, Copies(m.heap, V, c, at, g),
         NEW p, Tidy(p, R \cup {at[c]}), p.heap = g
  PROVE  Prints(g, at[c]) = Prints(m.heap, c)
<1>1. PICK h : h = m.heap OBVIOUS
<1>2. Shape(h, R) /\ Shape(g, R \cup {at[c]}) BY <1>1 DEF Tidy, Owned
<1>3. /\ h \in Heaps /\ g \in Heaps /\ Ranked(h) /\ Ranked(g) /\ Whole(h, V, c)
      /\ V \subseteq Cells
  <2>1. h \in Heaps /\ g \in Heaps /\ Ranked(h) /\ Ranked(g) BY <1>2, ShapeFacts
  <2>2. Whole(h, V, c) /\ V \subseteq Cells BY <1>1, <1>2, WholeValue
  <2> QED BY <2>1, <2>2
<1>4. PICK B : B = V \ {c} OBVIOUS
<1>5. /\ c \in V /\ nilCell \notin B /\ B \subseteq V
      /\ \A x \in V : /\ Below(h, x) \in B \cup {nilCell}
                      /\ x # c => After(h, x) \in B \cup {nilCell} BY <1>3, <1>4 DEF Whole
<1>7. \A x \in V : /\ g[at[x]].type = h[x].type
                   /\ After(g, at[x]) = IF x = c \/ After(h, x) = nilCell THEN nilCell
                                        ELSE at[After(h, x)]
                   /\ Below(g, at[x]) = IF Below(h, x) = nilCell THEN nilCell ELSE at[Below(h, x)]
  BY <1>1 DEF Copies
<1>8. \A x \in V : at[x] \in Cells /\ at[x] # nilCell OBVIOUS
<1>9. Alike(h, g, V, B, at)
  <2>1. at \in [V -> Cells] OBVIOUS
  <2>2. \A x \in B : x \in V /\ x # c BY <1>4
  <2>3. \A x \in V : /\ g[at[x]].type = h[x].type /\ Below(h, x) \in B \cup {nilCell}
                     /\ Below(g, at[x]) = IF Below(h, x) = nilCell THEN nilCell ELSE at[Below(h, x)]
    BY ONLY <1>5, <1>7
  <2>4. \A x \in B : /\ at[x] # nilCell /\ After(h, x) \in B \cup {nilCell}
                     /\ After(g, at[x]) = IF After(h, x) = nilCell THEN nilCell ELSE at[After(h, x)]
    BY ONLY <1>5, <1>7, <1>8, <2>2
  <2> QED BY ONLY <1>3, <1>5, <2>1, <2>3, <2>4 DEF Alike
<1>10. Prints(g, at[c]) = Prints(h, c) BY ONLY <1>3, <1>5, <1>9, AlikePrints
<1> QED BY <1>1, <1>10

\* copyCell: what the copy prints is what the value prints.
LEMMA CopyPrints ==
  ASSUME NEW m, NEW R, Tidy(m, R), NEW c \in Alive(m.heap) \cup Permanent,
         NEW copy, copy = Copy(m, c), copy.mem.process # "exited"
  PROVE  Prints(copy.mem.heap, copy.cell) = Prints(m.heap, c)
<1>1. Shape(m.heap, R) BY DEF Tidy, Owned
<1>2. PICK V : V = {c} \cup Tree(m.heap, Below(m.heap, c)) OBVIOUS
<1>3. Whole(m.heap, V, c) /\ Lists(Value(m.heap, c), V) /\ Len(Value(m.heap, c)) \in Nat
  BY <1>1, <1>2, WholeValue
<1>4. PICK n, old : n \in Nat /\ old = Value(m.heap, c) /\ n = Len(old) BY <1>3
<1>5. PICK new : new = Filled(m, n) OBVIOUS
<1>6. Given(m, R, n, new) BY <1>4, <1>5, FilledTidy
<1>7. PICK A : /\ Tidy(new.mem, R \cup A) /\ A \cap Alive(m.heap) = {}
               /\ Alive(new.mem.heap) = Alive(m.heap) \cup A
               /\ Keeps(m.heap, new.mem.heap, Alive(m.heap))
               /\ new.mem.process # "exited" =>
                    /\ Lists(new.cells, A) /\ Len(new.cells) = n /\ new.mem.process = m.process
                    /\ \A y \in A : new.mem.heap[y] = Cell("atom", nilCell, nilCell, nilCell)
  BY <1>6 DEF Given
<1>8. copy = Copied(m.heap, c, old, new) BY <1>4, <1>5 DEF Copy
<1>9. new.mem.process # "exited"
  <2>1. ASSUME new.mem.process = "exited" PROVE FALSE
    <3>1. copy = [cell |-> nilCell, mem |-> new.mem] BY <1>8, <2>1 DEF Copied
    <3>2. copy.mem = new.mem BY <3>1
    <3> QED BY <2>1, <3>2
  <2> QED BY <2>1
<1>10. Lists(new.cells, A) /\ Len(new.cells) = Len(old) BY <1>4, <1>7, <1>9
<1>11. new.mem \in Memories /\ c \in V /\ Lists(old, V) BY <1>3, <1>4, <1>7 DEF Tidy, Whole
<1>12. PICK at, g : /\ Cloned(m.heap, c, V, A, at, new.mem.heap, g)
                    /\ copy.cell = at[c] /\ copy.mem = [new.mem EXCEPT !.heap = g]
  <2>1. MadeOf(m.heap, c, V, A, new, copy) BY <1>8, <1>9, <1>10, <1>11, CopiedCells
  <2> QED BY <2>1 DEF MadeOf
<1>13. PICK p, k : p = copy.mem /\ k = new.mem OBVIOUS
<1>14. /\ Tidy(k, R \cup A) /\ Alive(k.heap) = Alive(m.heap) \cup A
       /\ Keeps(m.heap, k.heap, Alive(m.heap))
       /\ \A y \in A : k.heap[y] = Cell("atom", nilCell, nilCell, nilCell)
       /\ Cloned(m.heap, c, V, A, at, k.heap, g) /\ p = [k EXCEPT !.heap = g]
  BY <1>7, <1>9, <1>12, <1>13
<1>15. HasRoot(m, R, A, at[c], p, k.process) /\ Copies(m.heap, V, c, at, g)
  BY ONLY Tidy(m, R), c \in Alive(m.heap) \cup Permanent, <1>2, <1>7, <1>14, ClonedTidy
<1>16. Tidy(p, R \cup {at[c]}) BY <1>15 DEF HasRoot
<1>17. p.heap = g
  <2>1. k \in Memories BY <1>11, <1>13
  <2>2. p = [k EXCEPT !.heap = g] BY <1>14
  <2> QED BY ONLY <2>1, <2>2 DEF Memories
<1>18. A \cap Permanent = {} /\ A \subseteq Cells
  <2>1. A \subseteq Alive(k.heap) BY <1>14
  <2> QED BY <2>1 DEF Alive
<1>19. at \in [V -> Cells \ {nilCell}]
  <2>1. at \in [V -> A] BY <1>14 DEF Cloned
  <2> QED BY <1>18, <2>1 DEF Permanent
<1>20. Prints(g, at[c]) = Prints(m.heap, c)
  BY ONLY Tidy(m, R), c \in Alive(m.heap) \cup Permanent, <1>2, <1>15, <1>16, <1>17, <1>19,
          ClonedPrints
<1> QED BY <1>12, <1>13, <1>17, <1>20

\* Ranks do not rise in a tree.
LEMMA TreeRank ==
  ASSUME NEW h, NEW N \in Nat, NEW rank, Falling(h, N, rank), NEW c \in Cells, c # nilCell,
         NEW y \in Tree(h, c)
  PROVE  y \in Cells /\ rank[y] <= rank[c]
<1>1. Ranked(h) BY DEF Ranked
<1>2. PICK K : K = Kids(h) OBVIOUS
<1>3. /\ K \in [Cells -> SUBSET Cells]
      /\ \A x \in Cells : K[x] = {After(h, x), Below(h, x)} \ {nilCell} BY <1>1, <1>2, KidsType
<1>4. rank \in [Cells -> Nat] BY DEF Falling
<1>5. ASSUME NEW x \in Cells, NEW k \in K[x] PROVE rank[k] < rank[x]
  <2>1. k \in {After(h, x), Below(h, x)} /\ k # nilCell BY <1>3, <1>5
  <2>2. x # nilCell BY <2>1 DEF Falling
  <2> QED BY <2>1, <2>2 DEF Falling
<1>6. y \in Reach(K, c) BY <1>2 DEF Tree
<1>7. rank[y] <= rank[c] BY <1>3, <1>4, <1>5, <1>6, ReachRank
<1>8. y \in Cells BY <1>6 DEF Reach
<1> QED BY <1>7, <1>8

\* The value of a list's element has no element of that list.
LEMMA ListFlat ==
  ASSUME NEW h, NEW R, Shape(h, R), NEW p \in Cells, NEW y \in List(h, Below(h, p))
  PROVE  List(h, Below(h, p)) \cap Tree(h, Below(h, y)) = {}
<1>1. /\ Ranked(h) /\ OneOwner(h) /\ nilCell \notin Alive(h) /\ Alive(h) \subseteq Cells
      /\ \A x \in Cells : After(h, x) = Below(h, x) => After(h, x) = nilCell
      /\ \A x \in Cells : /\ After(h, x) \in Alive(h) \cup {nilCell}
                          /\ Below(h, x) \in Alive(h) \cup {nilCell} BY ShapeFacts
<1>2. PICK b, L : b = Below(h, p) /\ L = List(h, b) OBVIOUS
<1>3. y \in Alive(h) BY ListAlive
<1>4. y \in Cells /\ y \in L BY <1>1, <1>2, <1>3
<1>5. PICK d, T : d = Below(h, y) /\ T = Tree(h, d) OBVIOUS
<1>6. CASE d = nilCell BY <1>2, <1>5, <1>6 DEF Tree
<1>7. CASE d # nilCell
  <2>1. d \in Alive(h) /\ d \in Cells BY <1>1, <1>4, <1>5, <1>7
  <2>2. \A x \in T \ {d} : \E z \in T : x \in Links(h, z) BY <1>5, <2>1, TreeFacts
  <2>3. T \subseteq Alive(h) BY <1>5, <2>1, TreeFacts
  <2>4. b # nilCell BY <1>2, <1>4 DEF List
  <2>5. b \in Cells BY <1>1, <1>2, <2>4
  <2>6. \A x, z \in Cells : Links(h, x) \cap Links(h, z) # {} => x = z BY <1>1 DEF OneOwner
  <2>7. PICK N \in Nat : \E rank : Falling(h, N, rank) BY <1>1 DEF Ranked
  <2>8. PICK rank : Falling(h, N, rank) BY <2>7
  <2>9. rank[b] < rank[p] /\ rank[d] < rank[y]
    <3>1. p # nilCell /\ y # nilCell BY <1>1, <1>2, <1>3, <2>4, <2>8 DEF Falling
    <3> QED BY <1>2, <1>4, <1>5, <2>8, <3>1 DEF Falling
  <2>10. rank[y] <= rank[b]
    <3>1. y \in Tree(h, b) BY <1>1, <1>2, <1>4, <2>5, ListInTree
    <3> QED BY <2>4, <2>5, <2>8, <3>1, TreeRank
  <2>11. rank[b] \in Nat /\ rank[p] \in Nat /\ rank[d] \in Nat /\ rank[y] \in Nat
    BY <1>4, <2>1, <2>5, <2>8 DEF Falling
  <2>12. p \notin T
    <3>1. ASSUME p \in T PROVE FALSE
      <4>1. rank[p] <= rank[d] BY <1>5, <1>7, <2>1, <2>8, <3>1, TreeRank
      <4> QED BY <2>9, <2>10, <2>11, <4>1
    <3> QED BY <3>1
  <2>13. p # y BY <2>9, <2>10, <2>11
  <2>14. b \notin T
    <3>1. ASSUME b \in T PROVE FALSE
      <4>1. b \in Links(h, p) BY <1>2, <2>4 DEF Links
      <4>2. CASE b = d
        <5>1. b \in Links(h, y) BY <1>5, <1>7, <4>2 DEF Links
        <5> QED BY <1>4, <2>6, <2>13, <4>1, <5>1
      <4>3. CASE b # d
        <5>1. PICK z \in T : b \in Links(h, z) BY <2>2, <3>1, <4>3
        <5>2. z = p BY <1>1, <2>3, <2>6, <4>1, <5>1
        <5> QED BY <2>12, <5>1, <5>2
      <4> QED BY <4>2, <4>3
    <3> QED BY <3>1
  <2>15. PICK K : K = Nexts(h) OBVIOUS
  <2>16. K \in [Cells -> SUBSET Cells] /\ \A x \in Cells : K[x] = {After(h, x)} \ {nilCell}
    BY <1>1, <2>15, KidsType
  <2>17. L = Reach(K, b) BY <1>2, <2>4, <2>15 DEF List
  <2>18. b \in L /\ Sealed(K, L) /\ L \subseteq Cells BY <2>5, <2>16, <2>17, ReachSealed
  <2>19. PICK W : W = L \ T OBVIOUS
  <2>20. ASSUME NEW x \in W PROVE K[x] \subseteq W
    <3>1. ASSUME NEW e \in K[x] PROVE e \in W
      <4>1. x \in L /\ x \in Cells /\ x \notin T BY <2>18, <2>19
      <4>2. e \in L /\ e = After(h, x) /\ e # nilCell BY <2>16, <2>18, <3>1, <4>1 DEF Sealed
      <4>3. e \in Links(h, x) BY <4>2 DEF Links
      <4>4. ASSUME e \in T PROVE FALSE
        <5>1. CASE e = d
          <6>1. e \in Links(h, y) BY <1>5, <1>7, <5>1 DEF Links
          <6>2. x = y BY <1>4, <2>6, <4>1, <4>3, <6>1
          <6> QED BY <1>1, <1>5, <4>1, <4>2, <5>1, <6>2
        <5>2. CASE e # d
          <6>1. PICK z \in T : e \in Links(h, z) BY <2>2, <4>4, <5>2
          <6>2. z = x BY <1>1, <2>3, <2>6, <4>1, <4>3, <6>1
          <6> QED BY <4>1, <6>1, <6>2
        <5> QED BY <5>1, <5>2
      <4> QED BY <2>19, <4>2, <4>4
    <3> QED BY <3>1
  <2>21. Sealed(K, W) /\ b \in W /\ W \in SUBSET Cells BY <2>14, <2>18, <2>19, <2>20 DEF Sealed
  <2>22. L \subseteq W BY <2>5, <2>16, <2>17, <2>21, ReachSealed
  <2> QED BY <1>2, <1>5, <2>19, <2>22
<1> QED BY <1>6, <1>7

\* In g the cells of p's list may lead elsewhere; what is below them is as in h.
Relisted(h, p, g) ==
  \A x \in Tree(h, Below(h, p)) :
    /\ g[x].type = h[x].type /\ Below(g, x) = Below(h, x)
    /\ x \notin List(h, Below(h, p)) => After(g, x) = After(h, x)
\* Then the elements print the same.
LEMMA ItemPrints ==
  ASSUME NEW h, NEW R, Shape(h, R), NEW p \in Cells, NEW g \in Heaps, Ranked(g),
         Relisted(h, p, g), NEW y \in List(h, Below(h, p))
  PROVE  Prints(g, y) = Prints(h, y)
<1>1. /\ Ranked(h) /\ nilCell \notin Alive(h) /\ Alive(h) \subseteq Cells
      /\ \A x \in Cells : Below(h, x) \in Alive(h) \cup {nilCell} BY ShapeFacts
<1>2. y \in Alive(h) /\ y \in Cells BY <1>1, ListAlive
<1>3. PICK b, d : b = Below(h, p) /\ d = Below(h, y) OBVIOUS
<1>4. b # nilCell BY <1>3 DEF List
<1>5. b \in Alive(h) /\ b \in Cells BY <1>1, <1>3, <1>4
<1>6. y \in Tree(h, b) BY <1>1, <1>3, <1>5, ListInTree
<1>7. \A x \in Tree(h, b) : Links(h, x) \subseteq Tree(h, b) BY <1>5, TreeFacts
<1>8. Tree(h, d) \subseteq Tree(h, b)
  <2>1. CASE d = nilCell BY <2>1 DEF Tree
  <2>2. CASE d # nilCell
    <3>1. d \in Tree(h, b) BY <1>3, <1>6, <1>7, <2>2 DEF Links
    <3>2. d \in Cells BY <1>1, <1>2, <1>3, <2>2
    <3>3. PICK K : K = Kids(h) OBVIOUS
    <3>4. /\ K \in [Cells -> SUBSET Cells]
          /\ \A x \in Cells : K[x] = {After(h, x), Below(h, x)} \ {nilCell}
      BY <1>1, <3>3, KidsType
    <3>5. Tree(h, b) \in SUBSET Cells BY <1>1, <1>5, TreeFacts
    <3>6. \A x \in Tree(h, b) : K[x] \subseteq Tree(h, b) BY <1>7, <3>4, <3>5 DEF Links
    <3>7. Sealed(K, Tree(h, b)) BY <3>6 DEF Sealed
    <3>8. Reach(K, d) \subseteq Tree(h, b) BY <3>1, <3>2, <3>4, <3>5, <3>7, ReachSealed
    <3> QED BY <2>2, <3>3, <3>8 DEF Tree
  <2> QED BY <2>1, <2>2
<1>9. List(h, b) \cap Tree(h, d) = {} BY <1>3, ListFlat
<1>10. \A x \in ValueCells(h, y) :
          /\ g[x].type = h[x].type /\ Below(g, x) = Below(h, x)
          /\ x # y => After(g, x) = After(h, x)
  <2>1. \A x \in ValueCells(h, y) : x = y \/ x \in Tree(h, d) BY <1>3 DEF ValueCells
  <2>2. \A x \in Tree(h, b) : /\ g[x].type = h[x].type /\ Below(g, x) = Below(h, x)
                              /\ x \notin List(h, b) => After(g, x) = After(h, x)
    BY <1>3 DEF Relisted
  <2> QED BY <1>6, <1>8, <1>9, <2>1, <2>2
<1> QED BY <1>2, <1>10, SamePrints

\* What cells can print.
Trees(h) == {Prints(h, c) : c \in Cells}
\* A sequence of cells prints a sequence.
LEMMA MappedFacts ==
  ASSUME NEW h, NEW s \in Seq(Cells)
  PROVE  /\ Mapped(h, s) \in Seq(Trees(h)) /\ Len(Mapped(h, s)) = Len(s) /\ Len(s) \in Nat
         /\ \A i \in 1..Len(s) : Mapped(h, s)[i] = Prints(h, s[i]) /\ s[i] \in Cells
<1>1. Len(s) \in Nat /\ \A i \in 1..Len(s) : s[i] \in Cells OBVIOUS
<1>2. \A i \in 1..Len(s) : Prints(h, s[i]) \in Trees(h) BY <1>1 DEF Trees
<1>3. PICK n \in Nat : n = Len(s) BY <1>1
<1>4. PICK t : t = Mapped(h, s) OBVIOUS
<1>5. t = [i \in 1..n |-> Prints(h, s[i])] BY <1>3, <1>4 DEF Mapped
<1>6. t \in [1..n -> Trees(h)] BY <1>2, <1>3, <1>5
<1>7. t \in Seq(Trees(h)) /\ Len(t) = n BY ONLY <1>5, <1>6, n \in Nat
<1>8. \A i \in 1..n : t[i] = Prints(h, s[i]) BY <1>5
<1> QED BY ONLY <1>1, <1>3, <1>4, <1>7, <1>8

\* The same cells print the same if each does.
LEMMA MappedSame ==
  ASSUME NEW h, NEW g, NEW s \in Seq(Cells), \A i \in 1..Len(s) : Prints(g, s[i]) = Prints(h, s[i])
  PROVE  Mapped(g, s) = Mapped(h, s)
BY DEF Mapped

\* A cell before a sequence of cells.
LEMMA MappedCons ==
  ASSUME NEW h, NEW z \in Cells, NEW s \in Seq(Cells)
  PROVE  Mapped(h, <<z>> \o s) = <<Prints(h, z)>> \o Mapped(h, s)
<1>1. PICK u : u = <<z>> \o s OBVIOUS
<1>2. PICK n \in Nat : n = Len(s) OBVIOUS
<1>3. u \in Seq(Cells) /\ Len(u) = n + 1 /\ u[1] = z /\ \A i \in 1..n : u[i + 1] = s[i]
  BY <1>1, <1>2
<1>4. PICK a, t : a = Prints(h, z) /\ t = Mapped(h, s) OBVIOUS
<1>5. a \in Trees(h) BY <1>4 DEF Trees
<1>6. t \in Seq(Trees(h)) /\ Len(t) = n /\ \A i \in 1..n : t[i] = Prints(h, s[i])
  BY <1>2, <1>4, MappedFacts
<1>7. PICK w : w = <<a>> \o t OBVIOUS
<1>8. w \in Seq(Trees(h)) /\ Len(w) = n + 1 /\ w[1] = a /\ \A i \in 1..n : w[i + 1] = t[i]
  BY ONLY <1>5, <1>6, <1>7, n \in Nat
<1>9. PICK v : v = Mapped(h, u) OBVIOUS
<1>10. v \in Seq(Trees(h)) /\ Len(v) = n + 1 /\ \A i \in 1..n + 1 : v[i] = Prints(h, u[i])
  BY <1>3, <1>9, MappedFacts
<1>11. ASSUME NEW i \in 1..n + 1 PROVE v[i] = w[i]
  <2>1. CASE i = 1
    <3>1. v[1] = Prints(h, u[1]) BY <1>10
    <3> QED BY ONLY <1>3, <1>4, <1>8, <2>1, <3>1
  <2>2. CASE i # 1
    <3>1. PICK j \in 1..n : i = j + 1
      <4>1. i - 1 \in 1..n /\ i = (i - 1) + 1 BY <2>2
      <4> QED BY <4>1
    <3>2. v[i] = Prints(h, u[j + 1]) BY <1>10, <3>1
    <3>3. w[i] = Prints(h, s[j]) BY <1>6, <1>8, <3>1
    <3>4. u[j + 1] = s[j] BY <1>3, <3>1
    <3> QED BY ONLY <3>2, <3>3, <3>4
  <2> QED BY <2>1, <2>2
<1>12. v = w BY ONLY <1>8, <1>10, <1>11, SameSeq
<1> QED BY ONLY <1>1, <1>4, <1>7, <1>9, <1>12

\* A cell after a sequence of cells.
LEMMA MappedAppend ==
  ASSUME NEW h, NEW z \in Cells, NEW s \in Seq(Cells)
  PROVE  Mapped(h, Append(s, z)) = Append(Mapped(h, s), Prints(h, z))
<1>1. PICK u : u = Append(s, z) OBVIOUS
<1>2. PICK n \in Nat : n = Len(s) OBVIOUS
<1>3. u \in Seq(Cells) /\ Len(u) = n + 1 /\ u[n + 1] = z /\ \A i \in 1..n : u[i] = s[i]
  BY <1>1, <1>2
<1>4. PICK a, t : a = Prints(h, z) /\ t = Mapped(h, s) OBVIOUS
<1>5. a \in Trees(h) BY <1>4 DEF Trees
<1>6. t \in Seq(Trees(h)) /\ Len(t) = n /\ \A i \in 1..n : t[i] = Prints(h, s[i])
  BY <1>2, <1>4, MappedFacts
<1>7. PICK w : w = Append(t, a) OBVIOUS
<1>8. w \in Seq(Trees(h)) /\ Len(w) = n + 1 /\ w[n + 1] = a /\ \A i \in 1..n : w[i] = t[i]
  BY ONLY <1>5, <1>6, <1>7, n \in Nat
<1>9. PICK v : v = Mapped(h, u) OBVIOUS
<1>10. v \in Seq(Trees(h)) /\ Len(v) = n + 1 /\ \A i \in 1..n + 1 : v[i] = Prints(h, u[i])
  BY <1>3, <1>9, MappedFacts
<1>11. ASSUME NEW i \in 1..n + 1 PROVE v[i] = w[i]
  <2>1. v[i] = Prints(h, u[i]) BY <1>10
  <2>2. CASE i = n + 1 BY ONLY <1>3, <1>4, <1>8, <2>1, <2>2
  <2>3. CASE i # n + 1
    <3>1. i \in 1..n BY <2>3
    <3>2. w[i] = Prints(h, s[i]) BY <1>6, <1>8, <3>1
    <3>3. u[i] = s[i] BY <1>3, <3>1
    <3> QED BY ONLY <2>1, <3>2, <3>3
  <2> QED BY <2>2, <2>3
<1>12. v = w BY ONLY <1>8, <1>10, <1>11, SameSeq
<1> QED BY ONLY <1>1, <1>4, <1>7, <1>9, <1>12

\* What a list without its first or last element prints.
LEMMA MappedEnds ==
  ASSUME NEW h, NEW s \in Seq(Cells), NEW z \in Cells
  PROVE  /\ Mapped(h, <<z>> \o s) # <<>> /\ Head(Mapped(h, <<z>> \o s)) = Prints(h, z)
         /\ Tail(Mapped(h, <<z>> \o s)) = Mapped(h, s)
         /\ Mapped(h, Append(s, z)) # <<>> /\ Last(Mapped(h, Append(s, z))) = Prints(h, z)
         /\ Front(Mapped(h, Append(s, z))) = Mapped(h, s)
<1>1. PICK a, t : a = Prints(h, z) /\ t = Mapped(h, s) OBVIOUS
<1>2. a \in Trees(h) BY <1>1 DEF Trees
<1>3. t \in Seq(Trees(h)) BY <1>1, MappedFacts
<1>4. Mapped(h, <<z>> \o s) = <<a>> \o t BY <1>1, MappedCons
<1>5. Mapped(h, Append(s, z)) = Append(t, a) BY <1>1, MappedAppend
<1>6. <<a>> \o t # <<>> /\ Head(<<a>> \o t) = a BY ONLY <1>2, <1>3
<1>7. Tail(<<a>> \o t) = t
  <2>1. PICK n \in Nat : n = Len(t) BY <1>3
  <2>2. PICK w : w = <<a>> \o t OBVIOUS
  <2>3. w \in Seq(Trees(h)) /\ Len(w) = n + 1 /\ \A i \in 1..n : w[i + 1] = t[i]
    BY ONLY <1>2, <1>3, <2>1, <2>2
  <2>4. Tail(w) \in Seq(Trees(h)) /\ Len(Tail(w)) = n /\ \A i \in 1..n : Tail(w)[i] = w[i + 1]
    BY ONLY <2>3, n \in Nat
  <2>5. \A i \in 1..n : Tail(w)[i] = t[i] BY ONLY <2>3, <2>4
  <2> QED BY ONLY <1>3, <2>1, <2>2, <2>4, <2>5, SameSeq
<1>8. Append(t, a) # <<>> /\ Last(Append(t, a)) = a BY ONLY <1>2, <1>3 DEF Last
<1>9. Front(Append(t, a)) = t
  <2>1. PICK n \in Nat : n = Len(t) BY <1>3
  <2>2. PICK w : w = Append(t, a) OBVIOUS
  <2>3. w \in Seq(Trees(h)) /\ Len(w) = n + 1 /\ \A i \in 1..n : w[i] = t[i]
    BY ONLY <1>2, <1>3, <2>1, <2>2
  <2>4. Front(w) = SubSeq(w, 1, n) BY ONLY <2>3, n \in Nat DEF Front
  <2>5. /\ SubSeq(w, 1, n) \in Seq(Trees(h)) /\ Len(SubSeq(w, 1, n)) = n
        /\ \A i \in 1..n : SubSeq(w, 1, n)[i] = w[i] BY ONLY <2>3, n \in Nat
  <2>6. \A i \in 1..n : SubSeq(w, 1, n)[i] = t[i] BY ONLY <2>3, <2>5
  <2> QED BY ONLY <1>3, <2>1, <2>2, <2>4, <2>5, <2>6, SameSeq
<1> QED BY ONLY <1>1, <1>4, <1>5, <1>6, <1>7, <1>8, <1>9

\* The elements of a list: the first, and those after it.
LEMMA ChainStep ==
  ASSUME NEW h, Ranked(h), NEW c \in Cells
  PROVE  /\ Chain(h, nilCell) = <<>> /\ Chain(h, c) \in Seq(Cells)
         /\ c # nilCell => Chain(h, c) = <<c>> \o Chain(h, After(h, c)) /\ After(h, c) \in Cells
<1>1. PICK f : /\ f = [x \in Cells |-> IF x = nilCell THEN <<>> ELSE <<x>> \o f[After(h, x)]]
               /\ \A x \in Cells : Chain(h, x) = f[x] BY ChainFun
<1>2. nilCell \in Cells /\ After(h, c) \in Cells BY KidsType, Special
<1>3. Chain(h, nilCell) = <<>>
  <2>1. f[nilCell] = <<>> BY <1>1, <1>2
  <2> QED BY <1>1, <1>2, <2>1
<1>4. c # nilCell => Chain(h, c) = <<c>> \o Chain(h, After(h, c))
  <2>1. ASSUME c # nilCell PROVE f[c] = <<c>> \o f[After(h, c)] BY ONLY <1>1, <2>1, c \in Cells
  <2>2. Chain(h, c) = f[c] /\ Chain(h, After(h, c)) = f[After(h, c)] BY <1>1, <1>2
  <2> QED BY ONLY <2>1, <2>2
<1>5. Chain(h, c) \in Seq(Cells) BY ChainFacts
<1> QED BY <1>2, <1>3, <1>4, <1>5

\* A list whose cells keep their links has the same elements.
LEMMA ChainSame ==
  ASSUME NEW h, Ranked(h), NEW g, Ranked(g), NEW c \in Cells,
         \A y \in List(h, c) : After(g, y) = After(h, y)
  PROVE  Chain(g, c) = Chain(h, c)
<1>1. CASE c = nilCell
  <2>1. Chain(h, nilCell) = <<>> BY <1>1, ChainStep
  <2>2. Chain(g, nilCell) = <<>> BY <1>1, ChainStep
  <2> QED BY <1>1, <2>1, <2>2
<1>2. CASE c # nilCell
  <2>1. PICK s : s = Chain(h, c) OBVIOUS
  <2>2. Follow(h, s) /\ s[1] = c BY <1>2, <2>1, ChainFollows
  <2>3. \A i \in 1..Len(s) : s[i] \in List(h, c) BY <2>1, ChainFacts
  <2>4. Follow(g, s) BY <2>2, <2>3 DEF Follow
  <2> QED BY <2>1, <2>2, <2>4, ChainIs
<1> QED BY <1>1, <1>2

\* A list ends with one element, which is at no other place.
LEMMA FollowEnd ==
  ASSUME NEW h, NEW s, Follow(h, s), NEW n \in Nat, n = Len(s)
  PROVE  /\ n # 0 /\ s[n] \in Cells \ {nilCell} /\ After(h, s[n]) = nilCell
         /\ \A i \in 1..n : s[i] = s[n] => i = n
         /\ \A i \in 1..n - 1 : s[i] \in Cells \ {nilCell} /\ After(h, s[i]) = s[i + 1]
         /\ \A i, j \in 1..n - 1 : s[i] = s[j] /\ j = n - 1 => i = j
<1>1. n # 0 BY DEF Follow
<1>2. \A i \in 1..n : /\ s[i] # nilCell /\ s[i] \in Cells
                      /\ After(h, s[i]) = IF i = n THEN nilCell ELSE s[i + 1] BY DEF Follow
<1>3. n \in 1..n BY <1>1
<1>4. s[n] \in Cells \ {nilCell} /\ After(h, s[n]) = nilCell BY <1>2, <1>3
<1>5. ASSUME NEW i \in 1..n - 1
      PROVE  s[i] \in Cells \ {nilCell} /\ After(h, s[i]) = s[i + 1] /\ s[i + 1] # nilCell
  <2>1. i \in 1..n /\ i # n /\ i + 1 \in 1..n BY <1>5
  <2> QED BY <1>2, <2>1
<1>6. ASSUME NEW i \in 1..n, s[i] = s[n] PROVE i = n
  <2>1. ASSUME i # n PROVE FALSE
    <3>1. i \in 1..n - 1 BY <2>1
    <3>2. After(h, s[i]) # nilCell BY <1>5, <3>1
    <3> QED BY ONLY <1>4, <1>6, <3>2
  <2> QED BY <2>1
<1>7. ASSUME NEW i \in 1..n - 1, NEW j \in 1..n - 1, s[i] = s[j], j = n - 1 PROVE i = j
  <2>1. After(h, s[i]) = s[i + 1] /\ After(h, s[j]) = s[j + 1] BY <1>5
  <2>2. j + 1 = n /\ i + 1 \in 1..n BY <1>7
  <2>3. s[i + 1] = s[n] BY ONLY <1>7, <2>1, <2>2
  <2>4. i + 1 = n BY <1>6, <2>2, <2>3
  <2> QED BY <1>7, <2>4
<1> QED BY <1>1, <1>4, <1>5, <1>6, <1>7

\* A list with one more element at its end.
LEMMA ChainMore ==
  ASSUME NEW h, Ranked(h), NEW g, Ranked(g), NEW c \in Cells, c # nilCell,
         NEW e \in List(h, c), After(h, e) = nilCell, After(g, e) \in Cells \ {nilCell},
         After(g, After(g, e)) = nilCell,
         \A y \in List(h, c) : y # e => After(g, y) = After(h, y)
  PROVE  Chain(g, c) = Append(Chain(h, c), After(g, e))
<1>1. PICK s, z : s = Chain(h, c) /\ z = After(g, e) OBVIOUS
<1>2. Follow(h, s) /\ s[1] = c BY <1>1, ChainFollows
<1>3. PICK n \in Nat : n = Len(s) /\ s \in Seq(Cells) BY <1>2 DEF Follow
<1>4. \A y : y \in List(h, c) <=> \E i \in 1..n : s[i] = y
  <2>1. \A y : y \in List(h, c) <=> \E i \in 1..Len(Chain(h, c)) : Chain(h, c)[i] = y
    BY ONLY Ranked(h), c \in Cells, ChainFacts
  <2> QED BY ONLY <1>1, <1>3, <2>1
<1>5. /\ n # 0 /\ s[n] \in Cells \ {nilCell} /\ After(h, s[n]) = nilCell
      /\ \A i \in 1..n : s[i] = s[n] => i = n
      /\ \A i \in 1..n - 1 : s[i] \in Cells \ {nilCell} /\ After(h, s[i]) = s[i + 1]
  BY <1>2, <1>3, FollowEnd
<1>6. \A i \in 1..n : s[i] # nilCell /\ s[i] \in Cells BY <1>2, <1>3 DEF Follow
<1>7. s[n] = e
  <2>1. PICK i \in 1..n : s[i] = e BY <1>4
  <2>2. ASSUME i # n PROVE FALSE
    <3>1. i \in 1..n - 1 /\ i + 1 \in 1..n BY <2>2
    <3>2. After(h, s[i]) = s[i + 1] /\ s[i + 1] # nilCell BY <1>5, <1>6, <3>1
    <3> QED BY <2>1, <3>2
  <2> QED BY <2>1, <2>2
<1>8. PICK u : u = Append(s, z) OBVIOUS
<1>9. z \in Cells \ {nilCell} /\ After(g, z) = nilCell BY <1>1
<1>10. u \in Seq(Cells) /\ Len(u) = n + 1 /\ u[n + 1] = z /\ \A i \in 1..n : u[i] = s[i]
  BY ONLY <1>3, <1>8, <1>9
<1>11. ASSUME NEW i \in 1..n + 1
       PROVE  /\ u[i] # nilCell /\ u[i] \in Cells
              /\ After(g, u[i]) = IF i = n + 1 THEN nilCell ELSE u[i + 1]
  <2>1. CASE i = n + 1 BY ONLY <1>9, <1>10, <2>1
  <2>2. CASE i = n
    <3>1. n \in 1..n /\ n # n + 1 BY <1>5
    <3>2. u[n] = e /\ e # nilCell /\ e \in Cells BY <1>6, <1>7, <1>10, <3>1
    <3>3. After(g, e) = u[n + 1] BY <1>1, <1>10
    <3> QED BY ONLY <2>2, <3>1, <3>2, <3>3
  <2>3. CASE i # n /\ i # n + 1
    <3>1. i \in 1..n /\ i \in 1..n - 1 /\ i + 1 \in 1..n BY <2>3
    <3>2. u[i] = s[i] /\ u[i + 1] = s[i + 1] BY <1>10, <3>1
    <3>3. s[i] # e BY <1>5, <1>7, <2>3, <3>1
    <3>4. After(g, s[i]) = After(h, s[i]) BY <1>4, <3>1, <3>3
    <3>5. After(h, s[i]) = s[i + 1] /\ s[i] # nilCell /\ s[i] \in Cells BY <1>5, <1>6, <3>1
    <3> QED BY ONLY <2>3, <3>2, <3>4, <3>5
  <2> QED BY <2>1, <2>2, <2>3
<1>12. u # <<>> /\ u[1] = c
  <2>1. 1 \in 1..n BY <1>5
  <2> QED BY <1>2, <1>10, <2>1
<1>13. Follow(g, u) BY <1>10, <1>11, <1>12 DEF Follow
<1>14. Chain(g, c) = u BY <1>12, <1>13, ChainIs
<1> QED BY <1>1, <1>8, <1>14

\* A list of several without the last.
LEMMA ChainLess ==
  ASSUME NEW h, Ranked(h), NEW g, Ranked(g), NEW c \in Cells, c # nilCell,
         NEW e \in List(h, c), NEW z, z = After(h, e), z # nilCell, After(h, z) = nilCell,
         After(g, e) = nilCell, \A y \in List(h, c) : y # e => After(g, y) = After(h, y)
  PROVE  Chain(h, c) = Append(Chain(g, c), z)
<1>1. Ranked(h) /\ Ranked(g) OBVIOUS
<1>2. e \in List(g, c)
  <2>1. PICK s : s = Chain(h, c) OBVIOUS
  <2>2. Follow(h, s) /\ s[1] = c BY <2>1, ChainFollows
  <2>3. PICK n \in Nat : n = Len(s) /\ s \in Seq(Cells) BY <2>2 DEF Follow
  <2>4. \A y : y \in List(h, c) <=> \E i \in 1..n : s[i] = y
    <3>1. \A y : y \in List(h, c) <=> \E i \in 1..Len(Chain(h, c)) : Chain(h, c)[i] = y
      BY ONLY Ranked(h), c \in Cells, ChainFacts
    <3> QED BY ONLY <2>1, <2>3, <3>1
  <2>5. PICK k \in 1..n : s[k] = e BY <2>4
  <2>6. \A i \in 1..n : /\ s[i] # nilCell /\ s[i] \in Cells
                        /\ After(h, s[i]) = IF i = n THEN nilCell ELSE s[i + 1]
    BY <2>2, <2>3 DEF Follow
  <2>7. /\ n # 0 /\ \A i, j \in 1..n - 1 : s[i] = s[j] /\ j = n - 1 => i = j
    BY <2>2, <2>3, FollowEnd
  <2>8. k # n /\ k + 1 \in 1..n /\ s[k + 1] = z BY <2>5, <2>6
  <2>9. k + 1 = n
    <3>1. ASSUME k + 1 # n PROVE FALSE
      <4>1. k + 2 \in 1..n /\ (k + 1) + 1 = k + 2 BY <2>8, <3>1
      <4>2. After(h, s[k + 1]) = s[k + 2] /\ s[k + 2] # nilCell BY <2>6, <2>8, <3>1, <4>1
      <4> QED BY <2>8, <4>2
    <3> QED BY <3>1
  <2>10. PICK u : u = SubSeq(s, 1, k) OBVIOUS
  <2>11. k \in Nat /\ k # 0 BY <2>5
  <2>12. u \in Seq(Cells) /\ Len(u) = k /\ \A i \in 1..k : u[i] = s[i]
    BY ONLY <2>3, <2>5, <2>10, <2>11
  <2>13. ASSUME NEW i \in 1..k
         PROVE  /\ u[i] # nilCell /\ u[i] \in Cells
                /\ After(g, u[i]) = IF i = k THEN nilCell ELSE u[i + 1]
    <3>1. u[i] = s[i] /\ i \in 1..n BY <2>5, <2>12
    <3>2. u[i] # nilCell /\ u[i] \in Cells BY <2>6, <3>1
    <3>3. CASE i = k BY <2>5, <3>1, <3>2, <3>3
    <3>4. CASE i # k
      <4>1. i \in 1..n - 1 /\ k \in 1..n - 1 /\ k = n - 1 /\ i # n BY <2>9, <3>4
      <4>2. s[i] # e BY <2>5, <2>7, <3>4, <4>1
      <4>3. After(g, s[i]) = After(h, s[i]) BY <2>4, <3>1, <4>2
      <4>4. After(h, s[i]) = s[i + 1] BY <2>6, <3>1, <4>1
      <4>5. i + 1 \in 1..k BY <3>4
      <4>6. u[i + 1] = s[i + 1] BY <2>12, <4>5
      <4> QED BY ONLY <3>1, <3>2, <3>4, <4>3, <4>4, <4>6
    <3> QED BY <3>3, <3>4
  <2>14. u # <<>> /\ u[1] = c
    <3>1. 1 \in 1..k BY <2>11
    <3> QED BY <2>2, <2>12, <3>1
  <2>15. Follow(g, u) BY <2>12, <2>13, <2>14 DEF Follow
  <2>16. Chain(g, c) = u BY <2>14, <2>15, ChainIs
  <2>17. k \in 1..Len(u) /\ u[k] = e BY <2>5, <2>11, <2>12
  <2> QED BY <2>16, <2>17, ChainFacts
<1>3. \A y \in List(g, c) : y \in List(h, c)
  <2>1. \A y \in List(g, c) : After(g, y) \in {nilCell, After(h, y)} \/ y \notin List(h, c)
    OBVIOUS
  <2>2. PICK K, L : K = Nexts(g) /\ L = List(h, c) OBVIOUS
  <2>3. K \in [Cells -> SUBSET Cells] /\ \A x \in Cells : K[x] = {After(g, x)} \ {nilCell}
    BY <2>2, KidsType
  <2>4. c \in L /\ L \in SUBSET Cells
    <3>1. L = {c} \cup List(h, After(h, c)) BY <2>2, ListStep
    <3>2. \A y \in L : y \in Cells BY <2>2, ListAfter
    <3> QED BY <3>1, <3>2
  <2>5. ASSUME NEW x \in L PROVE K[x] \subseteq L
    <3>1. x \in Cells BY <2>4
    <3>2. After(g, x) \in {nilCell, After(h, x)} BY <2>2
    <3>3. After(h, x) \in L \cup {nilCell} BY <2>2, ListAfter
    <3> QED BY <2>3, <3>1, <3>2, <3>3
  <2>6. Sealed(K, L) BY <2>5 DEF Sealed
  <2>7. Reach(K, c) \subseteq L BY <2>3, <2>4, <2>6, ReachSealed
  <2>8. List(g, c) = Reach(K, c) BY <2>2 DEF List
  <2> QED BY <2>2, <2>7, <2>8
<1>4. \A y \in List(g, c) : y # e => After(h, y) = After(g, y) BY <1>3
<1>5. z \in Cells \ {nilCell}
  <2>1. e \in Cells BY ListAfter
  <2> QED BY <2>1, KidsType
<1>6. Chain(h, c) = Append(Chain(g, c), After(h, e))
  BY ONLY <1>1, <1>2, <1>4, <1>5, c \in Cells, c # nilCell, z = After(h, e), After(h, z) = nilCell,
          After(g, e) = nilCell, ChainMore
<1> QED BY <1>6

\* What a list prints.
LEMMA PrintsList ==
  ASSUME NEW h \in Heaps, Ranked(h), NEW p \in Cells, h[p].type = "list", NEW b, b = Below(h, p)
  PROVE  /\ b \in Cells /\ Chain(h, b) \in Seq(Cells)
         /\ Prints(h, p) = ListOf(Mapped(h, Chain(h, b)))
         /\ Items(Prints(h, p)) = Mapped(h, Chain(h, b))
<1>1. b \in Cells BY KidsType
<1>2. Chain(h, b) \in Seq(Cells) BY <1>1, ChainStep
<1>3. PICK w : w = Mapped(h, Chain(h, b)) OBVIOUS
<1>4. Prints(h, p) = <<"list", w>> BY <1>3, PrintsFacts DEF Elements
<1> QED BY <1>1, <1>2, <1>3, <1>4 DEF ListOf, Items

\* The elements print the same, as many as they are.
LEMMA MappedKept ==
  ASSUME NEW h, NEW R, Shape(h, R), NEW p \in Cells, NEW g \in Heaps, Ranked(g),
         Relisted(h, p, g), NEW b, b = Below(h, p)
  PROVE  Mapped(g, Chain(h, b)) = Mapped(h, Chain(h, b))
<1>1. Ranked(h) BY ShapeFacts
<1>2. b \in Cells BY <1>1, KidsType
<1>3. PICK s : s = Chain(h, b) OBVIOUS
<1>4. s \in Seq(Cells) /\ \A i \in 1..Len(s) : s[i] \in List(h, b) BY <1>1, <1>2, <1>3, ChainFacts
<1>5. \A i \in 1..Len(s) : Prints(g, s[i]) = Prints(h, s[i]) BY <1>4, ItemPrints
<1>6. Mapped(g, s) = Mapped(h, s) BY ONLY <1>4, <1>5, MappedSame
<1> QED BY <1>3, <1>6

\* A list with an element before the first.
LEMMA FrontPrints ==
  ASSUME NEW h, NEW R, Shape(h, R), NEW p \in Cells, h[p].type = "list", NEW g \in Heaps, Ranked(g),
         Relisted(h, p, g), g[p].type = "list", NEW z \in Cells \ {nilCell}, Below(g, p) = z,
         After(g, z) = Below(h, p), \A y \in List(h, Below(h, p)) : After(g, y) = After(h, y)
  PROVE  Prints(g, p) = ListOf(<<Prints(g, z)>> \o Items(Prints(h, p)))
<1>1. h \in Heaps /\ Ranked(h) BY ShapeFacts
<1>2. PICK b, s : b = Below(h, p) /\ s = Chain(h, b) OBVIOUS
<1>3. b \in Cells /\ s \in Seq(Cells) /\ Items(Prints(h, p)) = Mapped(h, s)
  BY <1>1, <1>2, PrintsList
<1>4. Chain(g, b) = s BY <1>1, <1>2, <1>3, ChainSame
<1>5. Chain(g, z) = <<z>> \o s
  <2>1. Chain(g, z) = <<z>> \o Chain(g, After(g, z)) BY ChainStep
  <2> QED BY <1>2, <1>4, <2>1
<1>6. Mapped(g, s) = Mapped(h, s) BY <1>2, MappedKept
<1>7. Mapped(g, <<z>> \o s) = <<Prints(g, z)>> \o Mapped(g, s) BY <1>3, MappedCons
<1>8. Prints(g, p) = ListOf(Mapped(g, Chain(g, z))) BY PrintsList
<1> QED BY ONLY <1>3, <1>5, <1>6, <1>7, <1>8

\* A list with an element after the last, e.
LEMMA EndPrints ==
  ASSUME NEW h, NEW R, Shape(h, R), NEW p \in Cells, h[p].type = "list", NEW g \in Heaps, Ranked(g),
         Relisted(h, p, g), g[p].type = "list", NEW e, EndOf(h, p, e), NEW z \in Cells \ {nilCell},
         Below(g, p) = Below(h, p), After(g, e) = z, After(g, z) = nilCell,
         \A y \in List(h, Below(h, p)) : y # e => After(g, y) = After(h, y)
  PROVE  Prints(g, p) = ListOf(Append(Items(Prints(h, p)), Prints(g, z)))
<1>1. h \in Heaps /\ Ranked(h) BY ShapeFacts
<1>2. PICK b, s : b = Below(h, p) /\ s = Chain(h, b) OBVIOUS
<1>3. b \in Cells /\ s \in Seq(Cells) /\ Items(Prints(h, p)) = Mapped(h, s)
  BY <1>1, <1>2, PrintsList
<1>4. e \in List(h, b) /\ After(h, e) = nilCell BY <1>2 DEF EndOf
<1>5. b # nilCell BY <1>4 DEF List
<1>6. Chain(g, b) = Append(s, z)
  <2>1. After(g, e) \in Cells \ {nilCell} /\ After(g, After(g, e)) = nilCell OBVIOUS
  <2>2. \A y \in List(h, b) : y # e => After(g, y) = After(h, y) BY <1>2
  <2>3. Chain(g, b) = Append(Chain(h, b), After(g, e))
    BY ONLY Ranked(g), <1>1, <1>3, <1>4, <1>5, <2>1, <2>2, ChainMore
  <2> QED BY <1>2, <2>3
<1>7. Mapped(g, s) = Mapped(h, s) BY <1>2, MappedKept
<1>8. Mapped(g, Append(s, z)) = Append(Mapped(g, s), Prints(g, z)) BY <1>3, MappedAppend
<1>9. Prints(g, p) = ListOf(Mapped(g, Chain(g, b))) BY <1>2, PrintsList
<1> QED BY ONLY <1>3, <1>6, <1>7, <1>8, <1>9

\* A list that was empty.
LEMMA OnePrints ==
  ASSUME NEW g \in Heaps, Ranked(g), NEW p \in Cells, g[p].type = "list",
         NEW z \in Cells \ {nilCell}, Below(g, p) = z, After(g, z) = nilCell
  PROVE  Prints(g, p) = ListOf(<<Prints(g, z)>>)
<1>1. Chain(g, z) = <<z>> \o <<>>
  <2>1. Chain(g, z) = <<z>> \o Chain(g, After(g, z)) /\ Chain(g, nilCell) = <<>> BY ChainStep
  <2> QED BY <2>1
<1>2. PICK s : s = <<z>> OBVIOUS
<1>3. s \in Seq(Cells) /\ Len(s) = 1 /\ s[1] = z BY <1>2
<1>4. Chain(g, z) = s BY <1>1, <1>2
<1>5. Mapped(g, s) = <<Prints(g, z)>> BY <1>3 DEF Mapped
<1>6. Prints(g, p) = ListOf(Mapped(g, Chain(g, z))) BY PrintsList
<1> QED BY ONLY <1>4, <1>5, <1>6

\* What has no elements.
LEMMA NonePrints ==
  ASSUME NEW h \in Heaps, Ranked(h), NEW p \in Cells, Below(h, p) = nilCell
  PROVE  Prints(h, p) = <<h[p].type, <<>>>> /\ Items(Prints(h, p)) = <<>>
<1>1. Elements(h, p) = <<>> BY ElementFacts
<1>2. Mapped(h, <<>>) = <<>> BY DEF Mapped
<1>3. PICK t : t = h[p].type OBVIOUS
<1>4. Prints(h, p) = <<t, <<>>>> BY <1>1, <1>2, <1>3, PrintsFacts
<1> QED BY <1>3, <1>4 DEF Items

\* A list without its first element z.
LEMMA FirstPrints ==
  ASSUME NEW h, NEW R, Shape(h, R), NEW p \in Cells, h[p].type = "list", NEW g \in Heaps, Ranked(g),
         Relisted(h, p, g), g[p].type = "list", NEW z, z = Below(h, p), z # nilCell,
         Below(g, p) = After(h, z), \A y \in List(h, After(h, z)) : After(g, y) = After(h, y)
  PROVE  /\ Items(Prints(h, p)) # <<>> /\ Prints(g, p) = ListOf(Tail(Items(Prints(h, p))))
         /\ Prints(g, z) = Head(Items(Prints(h, p)))
<1>1. h \in Heaps /\ Ranked(h) BY ShapeFacts
<1>2. PICK d, s : d = After(h, z) /\ s = Chain(h, d) OBVIOUS
<1>3. z \in Cells /\ d \in Cells /\ s \in Seq(Cells)
  <2>1. z \in Cells BY <1>1, KidsType
  <2>2. d \in Cells BY <1>1, <1>2, <2>1, ChainStep
  <2> QED BY <1>1, <1>2, <2>1, <2>2, ChainStep
<1>4. Chain(h, z) = <<z>> \o s BY <1>1, <1>2, <1>3, ChainStep
<1>5. Items(Prints(h, p)) = Mapped(h, <<z>> \o s)
  <2>1. Items(Prints(h, p)) = Mapped(h, Chain(h, z)) BY <1>1, PrintsList
  <2> QED BY ONLY <1>4, <2>1
<1>6. Chain(g, d) = s BY <1>1, <1>2, <1>3, ChainSame
<1>7. Prints(g, p) = ListOf(Mapped(g, s)) BY <1>2, <1>6, PrintsList
<1>8. z \in List(h, z) /\ \A y \in List(h, d) : y \in List(h, z) BY <1>1, <1>2, <1>3, ListStep
<1>9. Mapped(g, s) = Mapped(h, s)
  <2>1. \A i \in 1..Len(s) : s[i] \in List(h, d) BY <1>1, <1>2, <1>3, ChainFacts
  <2>2. \A i \in 1..Len(s) : Prints(g, s[i]) = Prints(h, s[i]) BY <1>8, <2>1, ItemPrints
  <2> QED BY ONLY <1>3, <2>2, MappedSame
<1>10. Prints(g, z) = Prints(h, z) BY <1>8, ItemPrints
<1>11. /\ Mapped(h, <<z>> \o s) # <<>> /\ Head(Mapped(h, <<z>> \o s)) = Prints(h, z)
       /\ Tail(Mapped(h, <<z>> \o s)) = Mapped(h, s) BY <1>3, MappedEnds
<1> QED BY ONLY <1>5, <1>7, <1>9, <1>10, <1>11

\* A list p of several elements without its last, z, which comes after e.
LEMMA LastPrints ==
  ASSUME NEW h, NEW R, Shape(h, R), NEW p \in Cells, h[p].type = "list", NEW g \in Heaps, Ranked(g),
         Relisted(h, p, g), g[p].type = "list", Below(g, p) = Below(h, p),
         NEW e \in List(h, Below(h, p)), NEW z, z = After(h, e), z # nilCell, After(h, z) = nilCell,
         After(g, e) = nilCell, \A y \in List(h, Below(h, p)) : y # e => After(g, y) = After(h, y)
  PROVE  /\ Items(Prints(h, p)) # <<>> /\ Prints(g, p) = ListOf(Front(Items(Prints(h, p))))
         /\ Prints(g, z) = Last(Items(Prints(h, p)))
<1>1. h \in Heaps /\ Ranked(h) BY ShapeFacts
<1>2. PICK b, s : b = Below(h, p) /\ s = Chain(g, b) OBVIOUS
<1>3. b \in Cells /\ b # nilCell /\ Items(Prints(h, p)) = Mapped(h, Chain(h, b))
  BY <1>1, <1>2, PrintsList DEF List
<1>4. s \in Seq(Cells) BY <1>2, <1>3, ChainStep
<1>5. Chain(h, b) = Append(s, z) BY <1>1, <1>2, <1>3, ChainLess
<1>6. Prints(g, p) = ListOf(Mapped(g, s)) BY <1>2, PrintsList
<1>7. z \in List(h, b)
  <2>1. e \in List(h, b) BY <1>2
  <2> QED BY <1>1, <1>3, <2>1, ListAfter
<1>8. z \in Cells BY <1>1, <1>3, <1>7, ListAfter
<1>9. Mapped(g, s) = Mapped(h, s)
  <2>1. PICK u : u = Append(s, z) OBVIOUS
  <2>2. \A i \in 1..Len(s) : i \in 1..Len(u) /\ u[i] = s[i] BY <1>4, <1>8, <2>1
  <2>3. \A i \in 1..Len(u) : u[i] \in List(h, b) BY <1>1, <1>3, <1>5, <2>1, ChainFacts
  <2>4. \A i \in 1..Len(s) : s[i] \in List(h, b) BY <2>2, <2>3
  <2>5. \A i \in 1..Len(s) : Prints(g, s[i]) = Prints(h, s[i]) BY <1>2, <2>4, ItemPrints
  <2> QED BY ONLY <1>4, <2>5, MappedSame
<1>10. Prints(g, z) = Prints(h, z) BY <1>2, <1>7, ItemPrints
<1>11. /\ Mapped(h, Append(s, z)) # <<>> /\ Last(Mapped(h, Append(s, z))) = Prints(h, z)
       /\ Front(Mapped(h, Append(s, z))) = Mapped(h, s) BY <1>4, <1>8, MappedEnds
<1> QED BY ONLY <1>3, <1>5, <1>6, <1>9, <1>10, <1>11

\* A list of one element without it.
LEMMA LastOnePrints ==
  ASSUME NEW h, NEW R, Shape(h, R), NEW p \in Cells, h[p].type = "list", NEW g \in Heaps, Ranked(g),
         Relisted(h, p, g), g[p].type = "list", Below(g, p) = nilCell, NEW z, z = Below(h, p),
         z # nilCell, After(h, z) = nilCell
  PROVE  /\ Items(Prints(h, p)) # <<>> /\ Prints(g, p) = ListOf(Front(Items(Prints(h, p))))
         /\ Prints(g, z) = Last(Items(Prints(h, p)))
<1>1. h \in Heaps /\ Ranked(h) BY ShapeFacts
<1>2. z \in Cells BY <1>1, KidsType
<1>3. PICK s : s = <<>> OBVIOUS
<1>4. s \in Seq(Cells) BY <1>3
<1>5. Chain(h, z) = Append(s, z)
  <2>1. Chain(h, z) = <<z>> \o Chain(h, After(h, z)) /\ Chain(h, nilCell) = <<>>
    BY <1>1, <1>2, ChainStep
  <2> QED BY <1>3, <2>1
<1>6. Items(Prints(h, p)) = Mapped(h, Append(s, z))
  <2>1. Items(Prints(h, p)) = Mapped(h, Chain(h, z)) BY <1>1, PrintsList
  <2> QED BY ONLY <1>5, <2>1
<1>7. Prints(g, p) = ListOf(Mapped(g, s))
  <2>1. Chain(g, nilCell) = s BY <1>3, Special, ChainStep
  <2> QED BY <2>1, PrintsList
<1>8. Mapped(g, s) = Mapped(h, s) BY <1>3 DEF Mapped
<1>9. Prints(g, z) = Prints(h, z)
  <2>1. z \in List(h, z) BY <1>1, <1>2, ListStep
  <2> QED BY <2>1, ItemPrints
<1>10. /\ Mapped(h, Append(s, z)) # <<>> /\ Last(Mapped(h, Append(s, z))) = Prints(h, z)
       /\ Front(Mapped(h, Append(s, z))) = Mapped(h, s) BY <1>2, <1>4, MappedEnds
<1> QED BY ONLY <1>6, <1>7, <1>8, <1>9, <1>10

\* What a cell holds.
CellRecords == [type : Types, next : Cells \cup {NULL}, aux : Cells, contents : Cells]

\* An element is taken from the front or the end.
Loses(old, new, x) ==
  /\ Items(old) # <<>>
  /\ \/ new = ListOf(Tail(Items(old))) /\ x = Head(Items(old))
     \/ new = ListOf(Front(Items(old))) /\ x = Last(Items(old))

(* pop, as what it does to a heap. *)
\* A list's elements keep what is below them when links between them change.
LEMMA Relists ==
  ASSUME NEW h, Ranked(h), NEW p \in Cells, NEW g, NEW D,
         \A x \in Cells \ D : g[x] = h[x],
         \A d \in D \cap Tree(h, Below(h, p)) : /\ d \in List(h, Below(h, p))
                                               /\ g[d].type = h[d].type /\ Below(g, d) = Below(h, d)
  PROVE  Relisted(h, p, g)
<1>1. PICK b : b = Below(h, p) /\ b \in Cells BY KidsType
<1>2. ASSUME NEW x \in Tree(h, b)
      PROVE  /\ g[x].type = h[x].type /\ Below(g, x) = Below(h, x)
             /\ x \notin List(h, b) => After(g, x) = After(h, x)
  <2>1. CASE x \in D BY ONLY <1>1, <1>2, <2>1,
            \A d \in D \cap Tree(h, Below(h, p)) : /\ d \in List(h, Below(h, p))
                                                  /\ g[d].type = h[d].type /\ Below(g, d) = Below(h, d)
  <2>2. CASE x \notin D
    <3>1. x \in Cells
      <4>1. b # nilCell BY <1>2 DEF Tree
      <4>2. Kids(h) \in [Cells -> SUBSET Cells] BY KidsType
      <4>3. PICK N, rank : N \in Nat /\ Falling(h, N, rank) BY ONLY Ranked(h) DEF Ranked, Falling
      <4> QED BY ONLY <1>1, <1>2, <4>1, <4>3, TreeRank
    <3>2. g[x] = h[x] BY ONLY <2>2, <3>1, \A y \in Cells \ D : g[y] = h[y]
    <3> QED BY ONLY <3>2 DEF Below, After
  <2> QED BY ONLY <2>1, <2>2
<1> QED BY ONLY <1>1, <1>2 DEF Relisted

\* A list's cells and its list.
LEMMA ListBelow ==
  ASSUME NEW h, NEW R, Shape(h, R), NEW p \in Alive(h), NEW b, b = Below(h, p)
  PROVE  /\ p \in Cells /\ b \in Cells /\ p \notin Tree(h, b) /\ List(h, b) \subseteq Tree(h, b)
         /\ Tree(h, b) \subseteq Tree(h, p) /\ p \in Tree(h, p) /\ Ranked(h) /\ h \in Heaps
         /\ Treelike(h)
<1>1. Treelike(h) /\ Ranked(h) /\ h \in Heaps /\ p \in Cells /\ p # nilCell
  <2>1. /\ Treelike(h) /\ Ranked(h) /\ h \in Heaps /\ nilCell \notin Alive(h)
        /\ Alive(h) \subseteq Cells BY ONLY Shape(h, R), ShapeFacts
  <2> QED BY ONLY <2>1, p \in Alive(h)
<1>2. b \in Cells BY ONLY <1>1, b = Below(h, p), KidsType
<1>3. /\ Tree(h, p) = {p} \cup Tree(h, Below(h, p)) \cup Tree(h, After(h, p))
      /\ p \notin Tree(h, Below(h, p)) BY ONLY <1>1, TreeParts
<1>4. List(h, b) \subseteq Tree(h, b) BY ONLY <1>1, <1>2, ListInTree
<1> QED BY ONLY <1>1, <1>2, <1>3, <1>4, b = Below(h, p)

\* The heap without the first element of p's list.
Unlinked(h, p, z, a, g) ==
  /\ g \in [Cells -> CellRecords] /\ \A x \in Cells \ {z, p} : g[x] = h[x]
  /\ g[z] = Cell(h[z].type, nilCell, h[z].aux, h[z].contents)
  /\ g[p] = Cell("list", h[p].next, a, h[z].next)
\* The list has lost its first element, which prints as before.
LEMMA UnlinkedPrints ==
  ASSUME NEW h, NEW R, Shape(h, R), NEW p \in Alive(h), h[p].type = "list", NEW z,
         z = h[p].contents, z # nilCell, NEW a, NEW g, Unlinked(h, p, z, a, g), NEW Q, Shape(g, Q)
  PROVE  /\ Loses(Prints(h, p), Prints(g, p), Prints(g, z))
         /\ After(h, z) = nilCell =>
              /\ Items(Prints(h, p)) # <<>> /\ Prints(g, p) = ListOf(Front(Items(Prints(h, p))))
              /\ Prints(g, z) = Last(Items(Prints(h, p)))
<1>1. PICK b : b = Below(h, p) OBVIOUS
<1>2. /\ p \in Cells /\ b \in Cells /\ p \notin Tree(h, b) /\ List(h, b) \subseteq Tree(h, b)
      /\ Ranked(h) /\ h \in Heaps /\ Treelike(h)
  BY ONLY <1>1, Shape(h, R), p \in Alive(h), ListBelow
<1>3. b = z BY ONLY <1>1, <1>2, z = h[p].contents, Fields
<1>4. z \in Alive(h)
  <2>1. Below(h, p) \in Alive(h) \cup {nilCell} BY ONLY <1>2, Shape(h, R), ShapeFacts
  <2> QED BY ONLY <1>1, <1>3, <2>1, z # nilCell
<1>5. After(h, z) = h[z].next /\ z \in Cells BY ONLY <1>2, <1>3, <1>4, Fields
<1>6. g \in Heaps /\ Ranked(g) BY ONLY Shape(g, Q), ShapeFacts DEF Shape
<1>7. g[p].type = "list" /\ g[p].contents = h[z].next BY DEF Unlinked, Cell
<1>8. Below(g, p) = After(h, z) BY ONLY <1>2, <1>5, <1>6, <1>7, Fields
<1>9. List(h, b) = {z} \cup List(h, After(h, z)) /\ After(h, z) \in Cells
  BY ONLY <1>2, <1>3, z # nilCell, ListStep
<1>10. z \notin Tree(h, After(h, z)) BY ONLY <1>2, <1>3, z # nilCell, TreeParts
<1>11. List(h, After(h, z)) \subseteq Tree(h, After(h, z)) BY ONLY <1>2, <1>9, ListInTree
<1>12. \A x \in Cells \ {z, p} : g[x] = h[x] BY DEF Unlinked
<1>13. \A y \in List(h, After(h, z)) : After(g, y) = After(h, y)
  <2> SUFFICES ASSUME NEW y \in List(h, After(h, z)) PROVE After(g, y) = After(h, y) OBVIOUS
  <2>1. y # z /\ y # p BY ONLY <1>2, <1>9, <1>10, <1>11
  <2>2. y \in Cells
    <3>1. y \in List(h, Below(h, p)) BY ONLY <1>1, <1>9
    <3>2. y \in Alive(h) \ R BY ONLY <1>2, <3>1, Shape(h, R), ListAlive
    <3> QED BY ONLY <3>2, Shape(h, R), ShapeFacts
  <2>3. g[y] = h[y] BY ONLY <1>12, <2>1, <2>2
  <2> QED BY ONLY <2>3 DEF After
<1>14. Relisted(h, p, g)
  <2>1. PICK D : D = {z, p} OBVIOUS
  <2>2. \A x \in Cells \ D : g[x] = h[x] BY ONLY <1>12, <2>1
  <2>3. ASSUME NEW d \in D \cap Tree(h, Below(h, p))
        PROVE  d \in List(h, Below(h, p)) /\ g[d].type = h[d].type /\ Below(g, d) = Below(h, d)
    <3>1. d = z BY ONLY <1>1, <1>2, <2>1, <2>3
    <3>2. d \in List(h, Below(h, p)) BY ONLY <1>1, <1>9, <3>1
    <3>3. g[z].type = h[z].type /\ g[z].contents = h[z].contents BY DEF Unlinked, Cell
    <3> QED BY ONLY <3>1, <3>2, <3>3 DEF Below
  <2> QED BY ONLY <1>2, <2>2, <2>3, Relists
<1>15. /\ Items(Prints(h, p)) # <<>> /\ Prints(g, p) = ListOf(Tail(Items(Prints(h, p))))
       /\ Prints(g, z) = Head(Items(Prints(h, p)))
  <2>1. z = Below(h, p) BY ONLY <1>1, <1>3
  <2> QED BY ONLY <1>2, <1>6, <1>7, <1>8, <1>13, <1>14, <2>1, Shape(h, R), h[p].type = "list",
       z # nilCell,
                  FirstPrints
<1>16. ASSUME After(h, z) = nilCell
       PROVE  /\ Items(Prints(h, p)) # <<>> /\ Prints(g, p) = ListOf(Front(Items(Prints(h, p))))
              /\ Prints(g, z) = Last(Items(Prints(h, p)))
  <2>1. z = Below(h, p) /\ Below(g, p) = nilCell BY ONLY <1>1, <1>3, <1>8, <1>16
  <2> QED BY ONLY <1>2, <1>6, <1>7, <1>14, <1>16, <2>1, Shape(h, R), h[p].type = "list",
       z # nilCell,
                  LastOnePrints
<1> QED BY ONLY <1>15, <1>16 DEF Loses

\* The heap without the last element of p's list, which came after q.
Shortened(h, p, q, z, g) ==
  /\ g \in [Cells -> CellRecords] /\ \A x \in Cells \ {p, q} : g[x] = h[x]
  /\ g[q] = Cell(h[q].type, nilCell, h[q].aux, h[q].contents)
  /\ g[p] = Cell("list", h[p].next, q, h[p].contents)
  /\ q \in List(h, Below(h, p)) /\ After(h, q) = z /\ z # nilCell /\ After(h, z) = nilCell
\* The list has lost its last element, which prints as before.
LEMMA ShortenedPrints ==
  ASSUME NEW h, NEW R, Shape(h, R), NEW p \in Alive(h), h[p].type = "list", NEW q, NEW z,
         NEW g, Shortened(h, p, q, z, g), NEW Q, Shape(g, Q)
  PROVE  Loses(Prints(h, p), Prints(g, p), Prints(g, z))
<1>1. PICK b : b = Below(h, p) OBVIOUS
<1>2. /\ p \in Cells /\ b \in Cells /\ p \notin Tree(h, b) /\ List(h, b) \subseteq Tree(h, b)
      /\ Ranked(h) /\ h \in Heaps /\ Treelike(h)
  BY ONLY <1>1, Shape(h, R), p \in Alive(h), ListBelow
<1>3. q \in List(h, b) /\ After(h, q) = z /\ z # nilCell /\ After(h, z) = nilCell
  BY ONLY <1>1, Shortened(h, p, q, z, g) DEF Shortened
<1>4. List(h, b) \subseteq Cells /\ q \in Cells
  <2>1. ASSUME NEW y \in List(h, b) PROVE y \in Cells
    <3>1. y \in List(h, Below(h, p)) BY ONLY <1>1, <2>1
    <3>2. y \in Alive(h) \ R BY ONLY <1>2, <3>1, Shape(h, R), ListAlive
    <3> QED BY ONLY <3>2, Shape(h, R), ShapeFacts
  <2> QED BY ONLY <1>3, <2>1
<1>5. q # p BY ONLY <1>2, <1>3
<1>6. g \in Heaps /\ Ranked(g) BY ONLY Shape(g, Q), ShapeFacts DEF Shape
<1>7. g[p].type = "list" /\ g[p].contents = h[p].contents BY DEF Shortened, Cell
<1>8. Below(g, p) = Below(h, p) BY ONLY <1>7, h[p].type = "list" DEF Below
<1>9. \A x \in Cells \ {p, q} : g[x] = h[x] BY DEF Shortened
<1>10. After(g, q) = nilCell
  <2>1. g[q].next = nilCell BY DEF Shortened, Cell
  <2>2. After(g, q) = g[q].next \/ After(g, q) = nilCell BY DEF After
  <2> QED BY ONLY <2>1, <2>2
<1>11. \A y \in List(h, b) : y # q => After(g, y) = After(h, y)
  <2> SUFFICES ASSUME NEW y \in List(h, b), y # q PROVE After(g, y) = After(h, y) OBVIOUS
  <2>1. y # p /\ y \in Cells BY ONLY <1>2, <1>4
  <2>2. g[y] = h[y] BY ONLY <1>9, <2>1, y # q
  <2> QED BY ONLY <2>2 DEF After
<1>12. Relisted(h, p, g)
  <2>1. PICK D : D = {p, q} OBVIOUS
  <2>2. \A x \in Cells \ D : g[x] = h[x] BY ONLY <1>9, <2>1
  <2>3. ASSUME NEW d \in D \cap Tree(h, Below(h, p))
        PROVE  d \in List(h, Below(h, p)) /\ g[d].type = h[d].type /\ Below(g, d) = Below(h, d)
    <3>1. d = q BY ONLY <1>1, <1>2, <2>1, <2>3
    <3>2. d \in List(h, Below(h, p)) BY ONLY <1>1, <1>3, <3>1
    <3>3. g[q].type = h[q].type /\ g[q].contents = h[q].contents BY DEF Shortened, Cell
    <3> QED BY ONLY <3>1, <3>2, <3>3 DEF Below
  <2> QED BY ONLY <1>2, <2>2, <2>3, Relists
<1>13. /\ Items(Prints(h, p)) # <<>> /\ Prints(g, p) = ListOf(Front(Items(Prints(h, p))))
       /\ Prints(g, z) = Last(Items(Prints(h, p)))
  <2>1. q \in List(h, Below(h, p)) /\ \A y \in List(h, Below(h, p)) : y # q => After(g, y) = After(h, y)
    BY ONLY <1>1, <1>3, <1>11
  <2> QED BY ONLY <1>2, <1>3, <1>6, <1>7, <1>8, <1>10, <1>12, <2>1, Shape(h, R),
       h[p].type = "list", LastPrints
<1> QED BY ONLY <1>13 DEF Loses

\* In g, z has been hung into the list p of heap h: p, z and the cells E of p's list have changed.
Hung(h, Q, p, z, E, g) ==
  /\ Shape(h, Q) /\ p \in Q /\ z \in Q /\ p # z /\ E \subseteq List(h, Below(h, p))
  /\ \A x \in Cells \ ({p, z} \cup E) : g[x] = h[x]
  /\ \A x \in {z} \cup E : g[x].type = h[x].type /\ Below(g, x) = Below(h, x)
\* Trees of the list and of the value.
LEMMA HungApart ==
  ASSUME NEW h, NEW Q, NEW p, NEW z, NEW E, NEW g, Hung(h, Q, p, z, E, g), NEW b, b = Below(h, p)
  PROVE  /\ p \in Alive(h) /\ z \in Alive(h) /\ p \in Cells /\ z \in Cells /\ b \in Cells
         /\ p \notin Tree(h, b) /\ z \notin Tree(h, b) /\ List(h, b) \subseteq Tree(h, b)
         /\ E \subseteq Tree(h, p) /\ Tree(h, z) \cap Tree(h, p) = {} /\ p \in Tree(h, p)
         /\ Ranked(h) /\ h \in Heaps /\ z # nilCell
<1>1. Shape(h, Q) /\ p \in Q /\ z \in Q /\ p # z /\ E \subseteq List(h, b)
  BY ONLY Hung(h, Q, p, z, E, g), b = Below(h, p) DEF Hung
<1>2. p \in Alive(h) /\ z \in Alive(h) /\ z # nilCell /\ z \in Cells
  <2>1. Q \subseteq Alive(h) /\ nilCell \notin Alive(h) /\ Alive(h) \subseteq Cells
    BY ONLY <1>1, ShapeFacts
  <2> QED BY ONLY <1>1, <2>1
<1>3. /\ p \in Cells /\ b \in Cells /\ p \notin Tree(h, b) /\ List(h, b) \subseteq Tree(h, b)
      /\ Tree(h, b) \subseteq Tree(h, p) /\ p \in Tree(h, p) /\ Ranked(h) /\ h \in Heaps
  BY ONLY <1>1, <1>2, b = Below(h, p), ListBelow
<1>4. Tree(h, z) \cap Tree(h, p) = {} BY ONLY <1>1, TreesApart
<1>5. z \in Tree(h, z) BY ONLY <1>1, <1>2, TreeFacts
<1>6. z \notin Tree(h, b) /\ E \subseteq Tree(h, p) BY ONLY <1>1, <1>3, <1>4, <1>5
<1> QED BY ONLY <1>2, <1>3, <1>4, <1>6

\* What hangs below the elements, and the value, stay as they are.
LEMMA HungKeeps ==
  ASSUME NEW h, NEW Q, NEW p, NEW z, NEW E, NEW g, Hung(h, Q, p, z, E, g), NEW P, Shape(g, P)
  PROVE  Relisted(h, p, g) /\ Prints(g, z) = Prints(h, z)
<1>1. PICK b : b = Below(h, p) OBVIOUS
<1>2. /\ p \in Alive(h) /\ z \in Alive(h) /\ p \in Cells /\ z \in Cells /\ b \in Cells
      /\ p \notin Tree(h, b) /\ z \notin Tree(h, b) /\ List(h, b) \subseteq Tree(h, b)
      /\ E \subseteq Tree(h, p) /\ Tree(h, z) \cap Tree(h, p) = {} /\ p \in Tree(h, p)
      /\ Ranked(h) /\ h \in Heaps /\ z # nilCell BY ONLY <1>1, Hung(h, Q, p, z, E, g), HungApart
<1>3. /\ Shape(h, Q) /\ E \subseteq List(h, b)
      /\ \A x \in Cells \ ({p, z} \cup E) : g[x] = h[x]
      /\ \A x \in {z} \cup E : g[x].type = h[x].type /\ Below(g, x) = Below(h, x)
  BY ONLY <1>1, Hung(h, Q, p, z, E, g) DEF Hung
<1>4. Relisted(h, p, g)
  <2>1. PICK D : D = {p, z} \cup E OBVIOUS
  <2>2. \A x \in Cells \ D : g[x] = h[x] BY ONLY <1>3, <2>1
  <2>3. \A d \in D \cap Tree(h, b) : /\ d \in List(h, b)
                                     /\ g[d].type = h[d].type /\ Below(g, d) = Below(h, d)
    BY ONLY <1>2, <1>3, <2>1
  <2>4. \A d \in D \cap Tree(h, Below(h, p)) : /\ d \in List(h, Below(h, p))
                                     /\ g[d].type = h[d].type /\ Below(g, d) = Below(h, d)
    BY ONLY <1>1, <2>3
  <2> QED BY ONLY <1>2, <2>2, <2>4, Relists
<1>5. Prints(g, z) = Prints(h, z)
  <2>1. g \in Heaps /\ Ranked(g) BY ONLY Shape(g, P), ShapeFacts
  <2>2. PICK c : c = Below(h, z) OBVIOUS
  <2>3. /\ c \in Cells /\ z \notin Tree(h, c) /\ Tree(h, c) \subseteq Tree(h, z)
    BY ONLY <1>2, <1>3, <2>2, ListBelow
  <2>4. ASSUME NEW x \in Tree(h, c) PROVE g[x] = h[x]
    <3>1. Tree(h, z) \subseteq Alive(h) BY ONLY <1>2, <1>3, TreeFacts
    <3>2. Alive(h) \subseteq Cells BY ONLY <1>3, ShapeFacts
    <3>3. x \in Cells /\ x \notin {p, z} \cup E BY ONLY <1>2, <2>3, <2>4, <3>1, <3>2
    <3> QED BY ONLY <1>3, <3>3
  <2>5. ASSUME NEW x \in Tree(h, c)
        PROVE  g[x].type = h[x].type /\ Below(g, x) = Below(h, x) /\ After(g, x) = After(h, x)
    <3>1. g[x] = h[x] BY ONLY <2>4, <2>5
    <3> QED BY ONLY <3>1 DEF Below, After
  <2>6. g[z].type = h[z].type /\ Below(g, z) = Below(h, z) BY ONLY <1>3
  <2>7. \A x \in ValueCells(h, z) : /\ g[x].type = h[x].type /\ Below(g, x) = Below(h, x)
                                    /\ x # z => After(g, x) = After(h, x)
    <3>1. ValueCells(h, z) = {z} \cup Tree(h, c) BY ONLY <2>2 DEF ValueCells
    <3> QED BY ONLY <2>5, <2>6, <3>1
  <2>8. z \in Alive(h) \cup Permanent BY ONLY <1>2
  <2> QED BY ONLY <1>3, <2>1, <2>7, <2>8, SamePrints
<1> QED BY ONLY <1>4, <1>5

\* A value is put at the front.
LEMMA HungFrontPrints ==
  ASSUME NEW h, NEW Q, NEW p, NEW z, NEW g, Hung(h, Q, p, z, {}, g), NEW P, Shape(g, P),
         h[p].type = "list", NEW a,
         g[z] = Cell(h[z].type, h[p].contents, h[z].aux, h[z].contents),
         g[p] = Cell("list", h[p].next, a, z)
  PROVE  Prints(g, p) = ListOf(<<Prints(h, z)>> \o Items(Prints(h, p)))
<1>1. PICK b : b = Below(h, p) OBVIOUS
<1>2. /\ p \in Alive(h) /\ z \in Alive(h) /\ p \in Cells /\ z \in Cells /\ b \in Cells
      /\ p \notin Tree(h, b) /\ z \notin Tree(h, b) /\ List(h, b) \subseteq Tree(h, b)
      /\ Ranked(h) /\ h \in Heaps /\ z # nilCell BY ONLY <1>1, Hung(h, Q, p, z, {}, g), HungApart
<1>3. Relisted(h, p, g) /\ Prints(g, z) = Prints(h, z)
  BY ONLY Hung(h, Q, p, z, {}, g), Shape(g, P), HungKeeps
<1>4. Shape(h, Q) /\ \A x \in Cells \ {p, z} : g[x] = h[x]
  BY ONLY Hung(h, Q, p, z, {}, g) DEF Hung
<1>5. g \in Heaps /\ Ranked(g) BY ONLY Shape(g, P), ShapeFacts
<1>6. g[p].type = "list" /\ g[p].contents = z BY ONLY g[p] = Cell("list", h[p].next, a, z) DEF Cell
<1>7. Below(g, p) = z BY ONLY <1>6 DEF Below
<1>8. g[z].type = h[z].type /\ g[z].next = h[p].contents
  BY ONLY g[z] = Cell(h[z].type, h[p].contents, h[z].aux, h[z].contents) DEF Cell
<1>9. After(g, z) = Below(h, p)
  <2>1. h[z].type \notin {"unmapped", "free"} BY ONLY <1>2 DEF Alive
  <2>2. Below(h, p) = h[p].contents BY ONLY h[p].type = "list" DEF Below
  <2> QED BY ONLY <1>8, <2>1, <2>2 DEF After
<1>10. \A y \in List(h, Below(h, p)) : After(g, y) = After(h, y)
  <2>1. ASSUME NEW y \in List(h, b) PROVE After(g, y) = After(h, y)
    <3>1. y \in Cells BY ONLY <1>2, <2>1, ListAfter
    <3>2. g[y] = h[y] BY ONLY <1>2, <1>4, <2>1, <3>1
    <3> QED BY ONLY <3>2 DEF After
  <2> QED BY ONLY <1>1, <2>1
<1>11. z \in Cells \ {nilCell} BY ONLY <1>2
<1>12. Prints(g, p) = ListOf(<<Prints(g, z)>> \o Items(Prints(h, p)))
  BY ONLY <1>2, <1>3, <1>4, <1>5, <1>6, <1>7, <1>9, <1>10, <1>11, h[p].type = "list", FrontPrints
<1> QED BY ONLY <1>3, <1>12

\* h becomes g as z is hung after e, the end of the list p.
HungAtEnd(h, Q, p, z, e, g, P, a) ==
  /\ Hung(h, Q, p, z, {e}, g) /\ Shape(g, P) /\ h[p].type = "list" /\ EndOf(h, p, e)
  /\ g[z] = h[z] /\ g[e] = Cell(h[e].type, z, h[e].aux, h[e].contents)
  /\ g[p] = Cell("list", h[p].next, a, h[p].contents)
\* A value is put after the last element e.
LEMMA HungEndPrints ==
  ASSUME NEW h, NEW Q, NEW p, NEW z, NEW e, NEW g, NEW P, NEW a, HungAtEnd(h, Q, p, z, e, g, P, a)
  PROVE  Prints(g, p) = ListOf(Append(Items(Prints(h, p)), Prints(h, z)))
<1>0. /\ Hung(h, Q, p, z, {e}, g) /\ Shape(g, P) /\ h[p].type = "list" /\ EndOf(h, p, e)
      /\ g[z] = h[z] /\ g[e] = Cell(h[e].type, z, h[e].aux, h[e].contents)
      /\ g[p] = Cell("list", h[p].next, a, h[p].contents)
  BY ONLY HungAtEnd(h, Q, p, z, e, g, P, a) DEF HungAtEnd
<1>1. PICK b : b = Below(h, p) OBVIOUS
<1>2. /\ p \in Alive(h) /\ z \in Alive(h) /\ p \in Cells /\ z \in Cells /\ b \in Cells
      /\ p \notin Tree(h, b) /\ z \notin Tree(h, b) /\ List(h, b) \subseteq Tree(h, b)
      /\ Ranked(h) /\ h \in Heaps /\ z # nilCell BY ONLY <1>1, <1>0, HungApart
<1>3. Relisted(h, p, g) /\ Prints(g, z) = Prints(h, z) BY ONLY <1>0, HungKeeps
<1>4. Shape(h, Q) /\ z \in Q /\ \A x \in Cells \ {p, z, e} : g[x] = h[x] BY ONLY <1>0 DEF Hung
<1>5. g \in Heaps /\ Ranked(g) BY ONLY <1>0, ShapeFacts
<1>6. g[p].type = "list" /\ g[p].contents = h[p].contents BY ONLY <1>0 DEF Cell
<1>7. Below(g, p) = Below(h, p) BY ONLY <1>6, <1>0 DEF Below
<1>8. g[e].type = h[e].type /\ g[e].next = z BY ONLY <1>0 DEF Cell
<1>9. After(g, e) = z
  <2>1. e \in List(h, Below(h, p)) BY ONLY <1>0 DEF EndOf
  <2>2. e \in Alive(h) \ Q BY ONLY <1>2, <1>4, <2>1, ListAlive
  <2>3. h[e].type \notin {"unmapped", "free"} BY ONLY <2>2 DEF Alive
  <2> QED BY ONLY <1>8, <2>3 DEF After
<1>10. After(g, z) = nilCell
  <2>1. After(h, z) = nilCell BY ONLY <1>4 DEF Shape
  <2> QED BY ONLY <2>1, <1>0 DEF After
<1>11. \A y \in List(h, Below(h, p)) : y # e => After(g, y) = After(h, y)
  <2>1. ASSUME NEW y \in List(h, b), y # e PROVE After(g, y) = After(h, y)
    <3>1. y \in Cells BY ONLY <1>2, <2>1, ListAfter
    <3>2. g[y] = h[y] BY ONLY <1>2, <1>4, <2>1, <3>1
    <3> QED BY ONLY <3>2 DEF After
  <2> QED BY ONLY <1>1, <2>1
<1>12. z \in Cells \ {nilCell} BY ONLY <1>2
<1>13. Prints(g, p) = ListOf(Append(Items(Prints(h, p)), Prints(g, z)))
  BY ONLY <1>2, <1>3, <1>4, <1>5, <1>6, <1>7, <1>9, <1>10, <1>11, <1>12, <1>0, EndPrints
<1> QED BY ONLY <1>3, <1>13

\* A value is put into an empty list.
LEMMA HungOnePrints ==
  ASSUME NEW h, NEW Q, NEW p, NEW z, NEW g, Hung(h, Q, p, z, {}, g), NEW P, Shape(g, P),
         h[p].type = "list", h[p].contents = nilCell, NEW a, g[z] = h[z],
         g[p] = Cell("list", h[p].next, a, z)
  PROVE  Prints(g, p) = ListOf(Append(Items(Prints(h, p)), Prints(h, z)))
<1>1. PICK b : b = Below(h, p) OBVIOUS
<1>2. p \in Cells /\ z \in Cells /\ Ranked(h) /\ h \in Heaps /\ z # nilCell
  BY ONLY <1>1, Hung(h, Q, p, z, {}, g), HungApart
<1>3. Prints(g, z) = Prints(h, z) BY ONLY Hung(h, Q, p, z, {}, g), Shape(g, P), HungKeeps
<1>4. Shape(h, Q) /\ z \in Q BY ONLY Hung(h, Q, p, z, {}, g) DEF Hung
<1>5. g \in Heaps /\ Ranked(g) BY ONLY Shape(g, P), ShapeFacts
<1>6. g[p].type = "list" /\ g[p].contents = z BY ONLY g[p] = Cell("list", h[p].next, a, z) DEF Cell
<1>7. Below(g, p) = z BY ONLY <1>6 DEF Below
<1>8. After(g, z) = nilCell
  <2>1. After(h, z) = nilCell BY ONLY <1>4 DEF Shape
  <2> QED BY ONLY <2>1, g[z] = h[z] DEF After
<1>9. z \in Cells \ {nilCell} BY ONLY <1>2
<1>10. Prints(g, p) = ListOf(<<Prints(g, z)>>)
  BY ONLY <1>2, <1>5, <1>6, <1>7, <1>8, <1>9, OnePrints
<1>11. Items(Prints(h, p)) = <<>>
  <2>1. Below(h, p) = nilCell BY ONLY h[p].type = "list", h[p].contents = nilCell DEF Below
  <2> QED BY ONLY <1>2, <2>1, NonePrints
<1>12. PICK old, new : old = Items(Prints(h, p)) /\ new = Prints(h, z) OBVIOUS
<1>13. Append(old, new) = <<new>>
  <2>1. old = <<>> BY ONLY <1>11, <1>12
  <2> QED BY ONLY <2>1
<1> QED BY ONLY <1>3, <1>10, <1>12, <1>13
=============================================================================
