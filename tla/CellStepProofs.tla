---------------------------- MODULE CellStepProofs ----------------------------
(***************************************************************************)
(* Proofs about CellMemory, part 2 of 3: who owns the trees of a sound     *)
(* heap (Owns, Held) and what a function that waits for a value relies on  *)
(* (Framed, Stacked, Valued).  Together that is Ready, the state of a      *)
(* process between two steps.  Lemmas about the heap and the stacks, not   *)
(* yet about actions, say that it is ready again after an evaluation       *)
(* begins, a list gets an element, a list or a program ends, set or pop.   *)
(***************************************************************************)
EXTENDS CellHeapProofs

(* Changes of links between cells in use. *)

\* The lists in A are as they were: what they begin with, and where they end.
Holds(h, g, A) ==
  \A x \in A : /\ x \in Alive(h) /\ x \in Alive(g)
               /\ g[x].type = h[x].type /\ g[x].aux = h[x].aux /\ Below(g, x) = Below(h, x)
               /\ \A e : EndOf(h, x, e) => EndOf(g, x, e)

\* m with other links.
Relinked(m, R2, g, m2, A) == /\ Tidy(m2, R2) /\ m2.heap = g /\ m2.process = m.process
                             /\ Alive(g) = Alive(m.heap) /\ Holds(m.heap, g, A)

\* Cells that are kept hold their lists.
LEMMA KeepsHolds ==
  ASSUME NEW h, NEW g, NEW A, Keeps(h, g, A)
  PROVE  Holds(h, g, A) BY DEF Keeps, Holds, Below

\* Links are no matter of the free list or the blocks.
LEMMA LinkTidy ==
  ASSUME NEW m, NEW R, Tidy(m, R), NEW g \in Heaps, NEW R2, Shape(g, R2), Lasts(g),
         \A x \in Cells : g[x].type = m.heap[x].type,
         \A x \in Cells \ Alive(m.heap) : g[x] = m.heap[x],
         NEW m2, m2 = [m EXCEPT !.heap = g]
  PROVE  Tidy(m2, R2) /\ m2.heap = g /\ m2.process = m.process /\ Alive(g) = Alive(m.heap)
<1>1. PICK h, bs, fr, pr : h = m.heap /\ bs = m.blocks /\ fr = m.free /\ pr = m.process OBVIOUS
<1>2. /\ h \in Heaps /\ bs \in Seq(1..MaxBlocks) /\ fr \in Cells \cup {NULL}
      /\ pr \in {"runs", "exited", "crashed"}
      /\ m = [heap |-> h, free |-> fr, blocks |-> bs, process |-> pr]
      /\ Blocked(m) BY <1>1 DEF Tidy, Memories
<1>3. m2 = [heap |-> g, free |-> fr, blocks |-> bs, process |-> pr]
  BY ONLY <1>2, m2 = [m EXCEPT !.heap = g]
<1>4. m2 \in Memories BY ONLY <1>2, <1>3, g \in Heaps DEF Memories
<1>5. m2.heap = g /\ m2.free = m.free /\ m2.blocks = m.blocks /\ m2.process = m.process
  BY ONLY <1>1, <1>3
<1>6. Alive(g) = Alive(m.heap) BY SameAlive
<1>7. Blocked(m2) BY <1>2, <1>5 DEF Blocked
<1>8. PICK s : FreedAs(m, s) BY DEF Tidy
<1>9. FreedAs(m2, s)
  <2>1. /\ Lists(s, {x \in Cells : h[x].type = "free"})
        /\ m.free = IF s = <<>> THEN NULL ELSE s[1]
        /\ \A i \in 1..Len(s) : h[s[i]].next = IF i = Len(s) THEN NULL ELSE s[i + 1]
    BY <1>1, <1>8 DEF FreedAs
  <2>2. {x \in Cells : g[x].type = "free"} = {x \in Cells : h[x].type = "free"} BY <1>1
  <2>3. ASSUME NEW i \in 1..Len(s) PROVE g[s[i]] = h[s[i]]
    <3>1. s[i] \in Cells /\ h[s[i]].type = "free" BY <2>1 DEF Lists
    <3>2. s[i] \notin Alive(h) BY <3>1 DEF Alive
    <3> QED BY <1>1, <3>1, <3>2
  <2>4. \A i \in 1..Len(s) : g[s[i]].next = IF i = Len(s) THEN NULL ELSE s[i + 1] BY <2>1, <2>3
  <2>5. Lists(s, {x \in Cells : g[x].type = "free"}) BY <2>1, <2>2
  <2> QED BY <1>5, <2>1, <2>4, <2>5 DEF FreedAs
<1>10. Tidy(m2, R2) BY <1>4, <1>5, <1>7, <1>9 DEF Tidy, Owned
<1> QED BY <1>5, <1>6, <1>10

\* The cell z nobody owns becomes the first element of p.
HungFirst(m, R, z, p, g, m2) ==
  /\ Relinked(m, R \ {z}, g, m2, Alive(m.heap) \ {p})
  /\ m.heap[p].contents = nilCell => EndOf(g, p, z)

\* A memory stays tidy when the cell z nobody owns becomes the first element of list p.
LEMMA HangFirst ==
  ASSUME NEW m, NEW R, Tidy(m, R), NEW h, h = m.heap, NEW z \in R, NEW p \in Alive(h),
         h[p].type = "list", p \notin Tree(h, z), NEW a,
         a \in {h[p].aux, nilCell} \/ (a = z /\ h[p].contents = nilCell),
         NEW g \in [Cells -> CellRecords], \A x \in Cells \ {z, p} : g[x] = h[x],
         g[z] = Cell(h[z].type, h[p].contents, h[z].aux, h[z].contents),
         g[p] = Cell("list", h[p].next, a, z),
         NEW m2, m2 = [m EXCEPT !.heap = g]
  PROVE  HungFirst(m, R, z, p, g, m2)
<1>1. /\ Shape(h, R) /\ Lasts(h) /\ h \in Heaps /\ R \subseteq Alive(h) /\ Alive(h) \subseteq Cells
      /\ Ranked(h) BY ShapeFacts DEF Tidy, Owned
<1>2. p \in Cells /\ z \in Cells /\ z \in Alive(h) BY <1>1
<1>3. p # z BY <1>1, <1>2, TreeFacts
<1>4. /\ g[z].type = h[z].type /\ g[z].next = h[p].contents /\ g[z].aux = h[z].aux
      /\ g[z].contents = h[z].contents
      /\ g[p].type = h[p].type /\ g[p].next = h[p].next /\ g[p].aux = a /\ g[p].contents = z
  BY DEF Cell
<1>5. g \in Heaps
  <2>1. ASSUME NEW x \in Cells, g[x].type # "list" PROVE g[x].contents = nilCell
    <3>1. CASE x = z BY <1>1, <1>2, <1>4, <2>1, <3>1 DEF Heaps
    <3>2. CASE x = p BY <1>4, <2>1, <3>2
    <3>3. CASE x \notin {z, p} BY <1>1, <2>1, <3>3 DEF Heaps
    <3> QED BY <3>1, <3>2, <3>3
  <2> QED BY <2>1 DEF Heaps, CellRecords
<1>6. \A x \in Cells : g[x].type = h[x].type BY <1>4
<1>7. Below(h, p) = h[p].contents /\ h[z].type \notin {"unmapped", "free"}
  BY <1>2 DEF Below, Alive
<1>8. ASSUME NEW x \in Cells PROVE After(g, x) = IF x = z THEN Below(h, p) ELSE After(h, x)
  <2>1. CASE x = z BY <1>4, <1>7, <2>1 DEF After
  <2>2. CASE x = p BY <1>3, <1>4, <2>2 DEF After
  <2>3. CASE x \notin {z, p} BY <2>3 DEF After
  <2> QED BY <2>1, <2>2, <2>3
<1>9. ASSUME NEW x \in Cells PROVE Below(g, x) = IF x = p THEN z ELSE Below(h, x)
  <2>1. CASE x = z BY <1>3, <1>4, <2>1 DEF Below
  <2>2. CASE x = p BY <1>4, <2>2 DEF Below
  <2>3. CASE x \notin {z, p} BY <2>3 DEF Below
  <2> QED BY <2>1, <2>2, <2>3
<1>10. /\ Shape(g, R \ {z})
       /\ \A x \in Alive(h) : \A e : EndOf(h, x, e) => EndOf(g, x, e)
       /\ Below(h, p) = nilCell => EndOf(g, p, z)
  <2>1. \A x \in Cells : After(g, x) = IF x = z THEN Below(h, p) ELSE After(h, x) BY <1>8
  <2>2. \A x \in Cells : Below(g, x) = IF x = p THEN z ELSE Below(h, x) BY <1>9
  <2>3. Shape(h, R) /\ z \in R /\ p \in Alive(h) /\ p \notin Tree(h, z) BY <1>1
  <2>4. HungBelow(h, R, z, p, g) BY ONLY <1>5, <1>6, <2>1, <2>2, <2>3, HangBelow
  <2> QED BY <2>4 DEF HungBelow
<1>11. Alive(g) = Alive(h) BY <1>6, SameAlive
<1>12. Lasts(g)
  <2>1. ASSUME NEW x \in Alive(g), g[x].type = "list", g[x].aux # nilCell
        PROVE EndOf(g, x, g[x].aux)
    <3>1. x \in Alive(h) /\ x \in Cells /\ h[x].type = "list" BY <1>1, <1>6, <1>11, <2>1
    <3>2. CASE g[x].aux = h[x].aux
      <4>1. EndOf(h, x, h[x].aux) BY <1>1, <2>1, <3>1, <3>2 DEF Lasts
      <4> QED BY <1>10, <3>1, <3>2, <4>1
    <3>3. CASE g[x].aux # h[x].aux
      <4>1. x = p BY <1>4, <3>1, <3>3
      <4>2. a = z /\ h[p].contents = nilCell BY <1>4, <2>1, <3>3, <4>1
      <4> QED BY <1>4, <1>7, <1>10, <4>1, <4>2
    <3> QED BY <3>2, <3>3
  <2> QED BY <2>1 DEF Lasts
<1>13. \A x \in Cells \ Alive(h) : g[x] = h[x] BY <1>2
<1>14. Tidy(m2, R \ {z}) /\ m2.heap = g /\ m2.process = m.process
  BY <1>5, <1>6, <1>10, <1>12, <1>13, LinkTidy
<1>15. Holds(h, g, Alive(h) \ {p})
  <2>1. ASSUME NEW x \in Alive(h) \ {p}
        PROVE x \in Alive(g) /\ g[x].type = h[x].type /\ g[x].aux = h[x].aux
              /\ Below(g, x) = Below(h, x) BY <1>1, <1>4, <1>9, <1>11
  <2> QED BY <1>10, <2>1 DEF Holds
<1> QED BY <1>7, <1>10, <1>11, <1>14, <1>15 DEF Relinked, HungFirst

\* The cell z nobody owns comes after p, the last element of y.
HungNext(m, R, z, y, p, g, m2) ==
  /\ Relinked(m, R \ {z}, g, m2, Alive(m.heap) \ {y})
  /\ EndOf(g, y, z) /\ y # p

\* A memory stays tidy when the cell z nobody owns comes after p, the last element of y.
LEMMA HangNext ==
  ASSUME NEW m, NEW R, Tidy(m, R), NEW h, h = m.heap, NEW z \in R, NEW y \in Alive(h),
         h[y].type = "list", NEW p \in Cells, EndOf(h, y, p), p \notin Tree(h, z),
         NEW a \in {nilCell, z},
         NEW g \in [Cells -> CellRecords], \A x \in Cells \ {y, p} : g[x] = h[x],
         g[p] = Cell(h[p].type, z, h[p].aux, h[p].contents),
         g[y] = Cell("list", h[y].next, a, h[y].contents),
         NEW m2, m2 = [m EXCEPT !.heap = g]
  PROVE  HungNext(m, R, z, y, p, g, m2)
<1>1. /\ Shape(h, R) /\ Lasts(h) /\ h \in Heaps /\ R \subseteq Alive(h) /\ Alive(h) \subseteq Cells
      /\ Ranked(h) /\ Treelike(h) /\ nilCell \notin Alive(h) BY ShapeFacts DEF Tidy, Owned
<1>2. y \in Cells /\ z \in Cells /\ z \in Alive(h) /\ Below(h, y) \in Cells BY <1>1, KidsType
<1>3. p \in List(h, Below(h, y)) /\ After(h, p) = nilCell /\ p # nilCell BY DEF EndOf
<1>4. p \in Alive(h) \ R BY <1>1, <1>2, <1>3, ListAlive
<1>5. p # y
  <2>1. y # nilCell BY <1>1
  <2>2. y \notin Tree(h, Below(h, y)) BY <1>1, <1>2, <2>1, TreeParts
  <2> QED BY <1>1, <1>2, <1>3, <2>2, ListInTree
<1>6. /\ g[p].type = h[p].type /\ g[p].next = z /\ g[p].aux = h[p].aux
      /\ g[p].contents = h[p].contents
      /\ g[y].type = h[y].type /\ g[y].next = h[y].next /\ g[y].aux = a
      /\ g[y].contents = h[y].contents BY DEF Cell
<1>7. \A x \in Cells : g[x].type = h[x].type /\ g[x].contents = h[x].contents BY <1>6
<1>8. g \in Heaps BY <1>1, <1>7 DEF Heaps, CellRecords
<1>9. ASSUME NEW x \in Cells PROVE After(g, x) = IF x = p THEN z ELSE After(h, x)
  <2>1. CASE x = p BY <1>4, <1>6, <2>1 DEF After, Alive
  <2>2. CASE x = y BY <1>5, <1>6, <2>2 DEF After
  <2>3. CASE x \notin {y, p} BY <2>3 DEF After
  <2> QED BY <2>1, <2>2, <2>3
<1>10. \A x \in Cells : Below(g, x) = Below(h, x) BY <1>7 DEF Below
<1>11. \A x \in Cells : g[x].type = h[x].type BY <1>7
<1>12. /\ Shape(g, R \ {z})
       /\ \A x \in Alive(h) : \A e : EndOf(h, x, e) /\ e # p => EndOf(g, x, e)
       /\ \A x \in Alive(h) : EndOf(h, x, p) => EndOf(g, x, z)
  <2>1. \A x \in Cells : After(g, x) = IF x = p THEN z ELSE After(h, x) BY <1>9
  <2>2. /\ Shape(h, R) /\ z \in R /\ p \in Alive(h) \ R /\ p \notin Tree(h, z)
        /\ After(h, p) = nilCell BY <1>1, <1>3, <1>4
  <2>3. HungAfter(h, R, z, p, g) BY ONLY <1>8, <1>10, <1>11, <2>1, <2>2, HangAfter
  <2> QED BY <2>3 DEF HungAfter
<1>13. Alive(g) = Alive(h) BY <1>7, SameAlive
<1>14. \A x \in Alive(h) : EndOf(h, x, p) => x = y BY <1>1, <1>2, <1>3, ListsApart DEF EndOf
<1>15. EndOf(g, y, z) BY <1>12
<1>16. Lasts(g)
  <2>1. ASSUME NEW x \in Alive(g), g[x].type = "list", g[x].aux # nilCell
        PROVE EndOf(g, x, g[x].aux)
    <3>1. x \in Alive(h) /\ x \in Cells /\ h[x].type = "list" BY <1>1, <1>7, <1>13, <2>1
    <3>2. CASE x = y BY <1>6, <1>15, <2>1, <3>2
    <3>3. CASE x # y
      <4>1. g[x].aux = h[x].aux BY <1>6, <3>1, <3>3
      <4>2. EndOf(h, x, h[x].aux) BY <1>1, <2>1, <3>1, <4>1 DEF Lasts
      <4> QED BY <1>12, <1>14, <3>1, <3>3, <4>1, <4>2
    <3> QED BY <3>2, <3>3
  <2> QED BY <2>1 DEF Lasts
<1>17. \A x \in Cells \ Alive(h) : g[x] = h[x] BY <1>2, <1>4
<1>18. Tidy(m2, R \ {z}) /\ m2.heap = g /\ m2.process = m.process
  BY <1>8, <1>11, <1>12, <1>16, <1>17, LinkTidy
<1>19. Holds(h, g, Alive(h) \ {y})
  <2>1. ASSUME NEW x \in Alive(h) \ {y}
        PROVE x \in Alive(g) /\ g[x].type = h[x].type /\ g[x].aux = h[x].aux
              /\ Below(g, x) = Below(h, x) BY <1>1, <1>6, <1>10, <1>13
  <2> QED BY <1>12, <1>14, <2>1 DEF Holds
<1> QED BY <1>5, <1>13, <1>15, <1>18, <1>19 DEF Relinked, HungNext

\* The first element of p is taken out.
Unhung(m, R, z, p, g, m2) ==
  /\ Relinked(m, R \cup {z}, g, m2, Alive(m.heap) \ {p})
  /\ z \in Alive(m.heap) \ R

\* A memory stays tidy when p's first element is taken out; it has no owner then.
LEMMA TakeFirstTidy ==
  ASSUME NEW m, NEW R, Tidy(m, R), NEW h, h = m.heap, NEW p \in Alive(h),
         h[p].type = "list", NEW z, z = h[p].contents, z # nilCell, NEW a,
         a = nilCell \/ (a = h[p].aux /\ h[z].next # nilCell),
         NEW g \in [Cells -> CellRecords], \A x \in Cells \ {z, p} : g[x] = h[x],
         g[z] = Cell(h[z].type, nilCell, h[z].aux, h[z].contents),
         g[p] = Cell("list", h[p].next, a, h[z].next),
         NEW m2, m2 = [m EXCEPT !.heap = g]
  PROVE  Unhung(m, R, z, p, g, m2)
<1>1. /\ Shape(h, R) /\ Lasts(h) /\ h \in Heaps /\ R \subseteq Alive(h) /\ Alive(h) \subseteq Cells
      /\ Ranked(h) /\ Treelike(h) /\ nilCell \notin Alive(h) BY ShapeFacts DEF Tidy, Owned
<1>2. p \in Cells /\ z = Below(h, p) BY <1>1 DEF Below
<1>3. z \in Alive(h) \ R /\ z \in Cells BY <1>1, <1>2, ShapeFacts
<1>4. z # p
  <2>1. p # nilCell /\ z \in List(h, z) BY <1>1, <1>3, ListStep
  <2>2. p \notin Tree(h, z) BY <1>1, <1>2, <2>1, TreeParts
  <2>3. z \in Tree(h, z) BY <1>1, <1>3, TreeFacts
  <2> QED BY <2>2, <2>3
<1>5. /\ g[z].type = h[z].type /\ g[z].next = nilCell /\ g[z].aux = h[z].aux
      /\ g[z].contents = h[z].contents
      /\ g[p].type = h[p].type /\ g[p].next = h[p].next /\ g[p].aux = a
      /\ g[p].contents = h[z].next BY DEF Cell
<1>6. \A x \in Cells : g[x].type = h[x].type BY <1>5
<1>7. After(h, z) = h[z].next /\ h[z].type \notin {"unmapped", "free"} BY <1>3 DEF After, Alive
<1>8. g \in Heaps
  <2>1. ASSUME NEW x \in Cells, g[x].type # "list" PROVE g[x].contents = nilCell
    <3>1. CASE x = z BY <1>1, <1>3, <1>5, <2>1, <3>1 DEF Heaps
    <3>2. CASE x = p BY <1>5, <2>1, <3>2
    <3>3. CASE x \notin {z, p} BY <1>1, <2>1, <3>3 DEF Heaps
    <3> QED BY <3>1, <3>2, <3>3
  <2> QED BY <2>1 DEF Heaps, CellRecords
<1>9. ASSUME NEW x \in Cells PROVE After(g, x) = IF x = z THEN nilCell ELSE After(h, x)
  <2>1. CASE x = z BY <1>5, <1>7, <2>1 DEF After
  <2>2. CASE x = p BY <1>4, <1>5, <2>2 DEF After
  <2>3. CASE x \notin {z, p} BY <2>3 DEF After
  <2> QED BY <2>1, <2>2, <2>3
<1>10. ASSUME NEW x \in Cells PROVE Below(g, x) = IF x = p THEN After(h, z) ELSE Below(h, x)
  <2>1. CASE x = z BY <1>4, <1>5, <2>1 DEF Below
  <2>2. CASE x = p BY <1>5, <1>7, <2>2 DEF Below
  <2>3. CASE x \notin {z, p} BY <2>3 DEF Below
  <2> QED BY <2>1, <2>2, <2>3
<1>11. /\ Shape(g, R \cup {z}) /\ z \in Alive(h) \ R
       /\ \A x \in Alive(h) : \A e : EndOf(h, x, e) /\ (x # p \/ After(h, z) # nilCell)
                                     => EndOf(g, x, e)
  <2>1. \A x \in Cells : After(g, x) = IF x = z THEN nilCell ELSE After(h, x) BY <1>9
  <2>2. \A x \in Cells : Below(g, x) = IF x = p THEN After(h, z) ELSE Below(h, x) BY <1>10
  <2>3. TookFirst(h, R, z, p, g) BY <1>1, <1>2, <1>6, <1>8, <2>1, <2>2, TakeFirst
  <2> QED BY <2>3 DEF TookFirst
<1>12. Alive(g) = Alive(h) BY <1>6, SameAlive
<1>13. Lasts(g)
  <2>1. ASSUME NEW x \in Alive(g), g[x].type = "list", g[x].aux # nilCell
        PROVE EndOf(g, x, g[x].aux)
    <3>1. x \in Alive(h) /\ x \in Cells /\ h[x].type = "list" BY <1>1, <1>6, <1>12, <2>1
    <3>2. g[x].aux = h[x].aux /\ (x # p \/ After(h, z) # nilCell) BY <1>5, <1>7, <2>1, <3>1
    <3>3. EndOf(h, x, h[x].aux) BY <1>1, <2>1, <3>1, <3>2 DEF Lasts
    <3> QED BY <1>11, <3>1, <3>2, <3>3
  <2> QED BY <2>1 DEF Lasts
<1>14. \A x \in Cells \ Alive(h) : g[x] = h[x] BY <1>3
<1>15. Tidy(m2, R \cup {z}) /\ m2.heap = g /\ m2.process = m.process
  BY <1>6, <1>8, <1>11, <1>13, <1>14, LinkTidy
<1>16. Holds(h, g, Alive(h) \ {p})
  <2>1. ASSUME NEW x \in Alive(h) \ {p}
        PROVE x \in Alive(g) /\ g[x].type = h[x].type /\ g[x].aux = h[x].aux
              /\ Below(g, x) = Below(h, x) BY <1>1, <1>5, <1>10, <1>12
  <2> QED BY <1>11, <2>1 DEF Holds
<1> QED BY <1>3, <1>12, <1>15, <1>16 DEF Relinked, Unhung

\* The last element of y is taken out, p is the one before.
LEMMA TakeLastTidy ==
  ASSUME NEW m, NEW R, Tidy(m, R), NEW h, h = m.heap, NEW y \in Alive(h),
         h[y].type = "list", NEW p \in Cells, p \in List(h, Below(h, y)),
         NEW z \in Cells, After(h, p) = z, EndOf(h, y, z),
         NEW g \in [Cells -> CellRecords], \A x \in Cells \ {y, p} : g[x] = h[x],
         g[p] = Cell(h[p].type, nilCell, h[p].aux, h[p].contents),
         g[y] = Cell("list", h[y].next, p, h[y].contents),
         NEW m2, m2 = [m EXCEPT !.heap = g]
  PROVE  Unhung(m, R, z, y, g, m2)
<1>1. /\ Shape(h, R) /\ Lasts(h) /\ h \in Heaps /\ R \subseteq Alive(h) /\ Alive(h) \subseteq Cells
      /\ Ranked(h) /\ Treelike(h) /\ nilCell \notin Alive(h) BY ShapeFacts DEF Tidy, Owned
<1>2. y \in Cells /\ Below(h, y) \in Cells BY <1>1, KidsType
<1>3. z \in List(h, Below(h, y)) /\ After(h, z) = nilCell /\ z # nilCell BY DEF EndOf
<1>4. p \in Alive(h) \ R /\ z \in Alive(h) \ R BY <1>1, <1>2, <1>3, ListAlive
<1>5. p # y
  <2>1. y # nilCell BY <1>1
  <2>2. y \notin Tree(h, Below(h, y)) BY <1>1, <1>2, <2>1, TreeParts
  <2> QED BY <1>1, <1>2, <2>2, ListInTree
<1>6. /\ g[p].type = h[p].type /\ g[p].next = nilCell /\ g[p].aux = h[p].aux
      /\ g[p].contents = h[p].contents
      /\ g[y].type = h[y].type /\ g[y].next = h[y].next /\ g[y].aux = p
      /\ g[y].contents = h[y].contents BY DEF Cell
<1>7. \A x \in Cells : g[x].type = h[x].type /\ g[x].contents = h[x].contents BY <1>6
<1>8. g \in Heaps BY <1>1, <1>7 DEF Heaps, CellRecords
<1>9. ASSUME NEW x \in Cells PROVE After(g, x) = IF x = p THEN nilCell ELSE After(h, x)
  <2>1. CASE x = p BY <1>6, <2>1 DEF After
  <2>2. CASE x = y BY <1>5, <1>6, <2>2 DEF After
  <2>3. CASE x \notin {y, p} BY <2>3 DEF After
  <2> QED BY <2>1, <2>2, <2>3
<1>10. \A x \in Cells : Below(g, x) = Below(h, x) BY <1>7 DEF Below
<1>11. \A x \in Cells : g[x].type = h[x].type BY <1>7
<1>12. z = After(h, p) /\ p \in Alive(h) BY <1>4
<1>13. /\ Shape(g, R \cup {z}) /\ z \in Alive(h) \ R
       /\ \A x \in Alive(h) : \A e : EndOf(h, x, e) /\ e # z => EndOf(g, x, e)
       /\ \A x \in Alive(h) : EndOf(h, x, z) /\ p \in List(h, Below(h, x)) => EndOf(g, x, p)
  <2>1. \A x \in Cells : After(g, x) = IF x = p THEN nilCell ELSE After(h, x) BY <1>9
  <2>2. TookLast(h, R, z, p, g) BY <1>1, <1>3, <1>8, <1>10, <1>11, <1>12, <2>1, TakeLast
  <2> QED BY <2>2 DEF TookLast
<1>14. Alive(g) = Alive(h) BY <1>7, SameAlive
<1>15. \A x \in Alive(h) : EndOf(h, x, z) => x = y BY <1>1, <1>2, <1>3, ListsApart DEF EndOf
<1>16. EndOf(g, y, p) BY <1>13
<1>17. Lasts(g)
  <2>1. ASSUME NEW x \in Alive(g), g[x].type = "list", g[x].aux # nilCell
        PROVE EndOf(g, x, g[x].aux)
    <3>1. x \in Alive(h) /\ x \in Cells /\ h[x].type = "list" BY <1>1, <1>7, <1>14, <2>1
    <3>2. CASE x = y BY <1>6, <1>16, <2>1, <3>2
    <3>3. CASE x # y
      <4>1. g[x].aux = h[x].aux BY <1>6, <3>1, <3>3
      <4>2. EndOf(h, x, h[x].aux) BY <1>1, <2>1, <3>1, <4>1 DEF Lasts
      <4> QED BY <1>13, <1>15, <3>1, <3>3, <4>1, <4>2
    <3> QED BY <3>2, <3>3
  <2> QED BY <2>1 DEF Lasts
<1>18. \A x \in Cells \ Alive(h) : g[x] = h[x] BY <1>2, <1>4
<1>19. Tidy(m2, R \cup {z}) /\ m2.heap = g /\ m2.process = m.process
  BY <1>8, <1>11, <1>13, <1>17, <1>18, LinkTidy
<1>20. Holds(h, g, Alive(h) \ {y})
  <2>1. ASSUME NEW x \in Alive(h) \ {y}
        PROVE x \in Alive(g) /\ g[x].type = h[x].type /\ g[x].aux = h[x].aux
              /\ Below(g, x) = Below(h, x) BY <1>1, <1>6, <1>10, <1>14
  <2> QED BY <1>13, <1>15, <2>1 DEF Holds
<1> QED BY <1>4, <1>14, <1>19, <1>20 DEF Relinked, Unhung

(* A value is taken from the result stack, or copied. *)

\* What a memory is, whether or not the process still runs.
Typed1(m) ==
  /\ m \in [heap : [Cells -> CellRecords], free : Cells \cup {NULL},
            blocks : Seq(1..MaxBlocks), process : {"runs", "exited", "crashed"}]
  /\ \A x \in Cells : m.heap[x].type = "unmapped" <=> x[1] \notin Range(m.blocks)

\* A tidy memory has its type.
LEMMA TidyTyped ==
  ASSUME NEW m, NEW R, Tidy(m, R)
  PROVE  Typed1(m) BY DEF Tidy, Memories, Heaps, CellRecords, Typed1, Blocked

\* Other cells with the same types.
LEMMA SameTyped ==
  ASSUME NEW m, Typed1(m), NEW g \in [Cells -> CellRecords],
         \A x \in Cells : g[x].type = m.heap[x].type,
         NEW m2, m2 = [m EXCEPT !.heap = g]
  PROVE  Typed1(m2)
<1>1. PICK h, bs, fr, pr : h = m.heap /\ bs = m.blocks /\ fr = m.free /\ pr = m.process OBVIOUS
<1>2. /\ bs \in Seq(1..MaxBlocks) /\ fr \in Cells \cup {NULL}
      /\ pr \in {"runs", "exited", "crashed"}
      /\ m = [heap |-> h, free |-> fr, blocks |-> bs, process |-> pr] BY <1>1 DEF Typed1
<1>3. m2 = [heap |-> g, free |-> fr, blocks |-> bs, process |-> pr]
  BY ONLY <1>2, m2 = [m EXCEPT !.heap = g]
<1>4. m2 \in [heap : [Cells -> CellRecords], free : Cells \cup {NULL},
              blocks : Seq(1..MaxBlocks), process : {"runs", "exited", "crashed"}]
  BY ONLY <1>2, <1>3, g \in [Cells -> CellRecords]
<1>5. m2.heap = g /\ m2.blocks = m.blocks BY ONLY <1>1, <1>3
<1> QED BY <1>4, <1>5 DEF Typed1

\* What is kept twice is kept.
LEMMA KeepsTwice ==
  ASSUME NEW h, NEW g, NEW f, NEW A, NEW B, NEW C, Keeps(h, g, A), Keeps(g, f, B),
         C \subseteq A, C \subseteq B
  PROVE  Keeps(h, f, C) BY DEF Keeps

\* What does not change is kept.
LEMMA KeepsAll ==
  ASSUME NEW h
  PROVE  Keeps(h, h, Alive(h)) BY DEF Keeps

IsLast(rs, c) == rs # <<>> /\ Last(rs) = c /\ c \notin Permanent
\* What copyCell makes of memory m and results rs.
Taking(m, rs, c) ==
  IF IsLast(rs, c) THEN [cell |-> c, mem |-> m, results |-> Front(rs)]
  ELSE LET new == Copy(m, c) IN [cell |-> new.cell, mem |-> new.mem, results |-> rs]

\* new.cell belongs to nobody yet, R are the cells that have an owner.
Offered(m, ct, rs, fs, ls, R, v, new) ==
  /\ Owns(Held(ct, new.results, fs, ls), R) /\ new.results \in Seq(Cells)
  /\ \/ new.results = rs /\ ~IsLast(rs, v)
     \/ new.results = Front(rs) /\ IsLast(rs, v)
  /\ Keeps(m.heap, new.mem.heap, Alive(m.heap))
  /\ \/ /\ new.mem.process = "exited" /\ new.cell = nilCell
        /\ \E A : Tidy(new.mem, R \cup A)
     \/ /\ new.mem.process = m.process /\ new.cell \in Cells \ (R \cup Permanent)
        /\ Tidy(new.mem, R \cup {new.cell})
Offers(m, ct, rs, fs, ls, v, new) == \E R : Offered(m, ct, rs, fs, ls, R, v, new)

\* copyCell takes a value from the top of the result stack or copies it; either way nobody
\* owns the cell it returns, and all else has its owner.
LEMMA TakingTidy ==
  ASSUME NEW m, NEW R, Tidy(m, R), NEW ct, NEW rs \in Seq(Cells), NEW fs, NEW ls,
         Owns(Held(ct, rs, fs, ls), R), NEW v \in Alive(m.heap) \cup Permanent,
         NEW new, new = Taking(m, rs, v)
  PROVE  Offers(m, ct, rs, fs, ls, v, new)
<1>1. Shape(m.heap, R) /\ R \subseteq Alive(m.heap) BY ShapeFacts DEF Tidy, Owned
<1>2. CASE IsLast(rs, v)
  <2>1. new.cell = v /\ new.mem = m /\ new.results = Front(rs) BY <1>2 DEF Taking
  <2>2. PICK n \in Nat : n = Len(rs) /\ n > 0 /\ rs[n] = v BY <1>2 DEF IsLast, Last
  <2>3. PICK k \in Nat : k = n - 1 BY <2>2
  <2>4. Front(rs) = SubSeq(rs, 1, k) BY <2>2, <2>3 DEF Front
  <2>5. /\ Held(ct, SubSeq(rs, 1, k), fs, ls) = Held(ct, rs, fs, ls) \ ResultsFrom(rs, k)
        /\ ResultsFrom(rs, k) \subseteq Held(ct, rs, fs, ls)
        /\ {d[3] : d \in ResultsFrom(rs, k)} = Above(rs, k)
        /\ SubSeq(rs, 1, k) \in Seq(Cells)
    <3>1. k <= Len(rs) BY <2>2, <2>3
    <3>2. Shorter(ct, rs, fs, ls, k, SubSeq(rs, 1, k)) BY <3>1, HeldCut
    <3> QED BY <3>2 DEF Shorter
  <2>6. Above(rs, k) = {v}
    <3>1. \A j \in 1..n : j > k <=> j = n BY <2>3
    <3>2. n \in 1..n BY <2>2
    <3> QED BY <2>2, <3>1, <3>2 DEF Above
  <2>7. Owns(Held(ct, Front(rs), fs, ls), R \ {v})
    <3>1. Owns(Held(ct, rs, fs, ls) \ ResultsFrom(rs, k), R \ {d[3] : d \in ResultsFrom(rs, k)})
      BY <2>5, OwnsCut
    <3> QED BY <2>4, <2>5, <2>6, <3>1
  <2>8. v \in R /\ v \notin Permanent
    <3>1. Stack(rs, R) BY HeldStack
    <3>2. n \in 1..n BY <2>2
    <3> QED BY <1>2, <2>2, <3>1, <3>2 DEF Stack, IsLast
  <2>9. (R \ {v}) \cup {v} = R /\ v \in Cells BY <1>1, <2>8 DEF Alive
  <2>10. Keeps(m.heap, m.heap, Alive(m.heap)) BY KeepsAll
  <2>11. Offered(m, ct, rs, fs, ls, R \ {v}, v, new)
    BY <1>2, <2>1, <2>4, <2>5, <2>7, <2>8, <2>9, <2>10 DEF Offered
  <2> QED BY <2>11 DEF Offers
<1>3. CASE ~IsLast(rs, v)
  <2>1. PICK cp : cp = Copy(m, v) OBVIOUS
  <2>2. new.cell = cp.cell /\ new.mem = cp.mem /\ new.results = rs BY <1>3, <2>1 DEF Taking
  <2>3. Fresh(m, R, cp) BY <2>1, CopyTidy
  <2>4. Offered(m, ct, rs, fs, ls, R, v, new) BY <1>1, <1>3, <2>2, <2>3 DEF Offered, Fresh
  <2> QED BY <2>4 DEF Offers
<1> QED BY <1>2, <1>3

(* Functions that wait. *)

\* The list under construction in cell c ends with last.
Opened(h, c, last) ==
  /\ c \in Alive(h) /\ h[c].type = "list" /\ h[c].aux = nilCell
  /\ IF last = nilCell THEN Below(h, c) = nilCell ELSE EndOf(h, c, last)
Framed(fs, h) ==
  \A k \in 1..Len(fs) :
    /\ fs[k].fn \in {"set", "push", "append"} => fs[k].sym \in Syms
    /\ fs[k].fn = "throw" => \E j \in 1..k - 1 : fs[j].fn = "catch"
    /\ fs[k].fn = "list" => Opened(h, fs[k].cell, fs[k].last)
\* The results below a function's stay while it runs.
Stacked(fs, n) ==
  /\ \A k \in 1..Len(fs) : fs[k].save <= n
  /\ \A j, k \in 1..Len(fs) : j <= k => fs[j].save <= fs[k].save

Frames == [fn : Functions, sym : Syms \cup {""}, cell : Cells, last : Cells, save : Nat]

\* Lists under construction are as they were if their cells are.
LEMMA FramedKept ==
  ASSUME NEW fs, NEW h, Framed(fs, h), NEW g, NEW A, Holds(h, g, A),
         \A k \in Building(fs) : fs[k].cell \in A
  PROVE  Framed(fs, g)
<1>1. ASSUME NEW k \in 1..Len(fs), fs[k].fn = "list" PROVE Opened(g, fs[k].cell, fs[k].last)
  <2>1. fs[k].cell \in A BY <1>1 DEF Building
  <2>2. Opened(h, fs[k].cell, fs[k].last) BY <1>1 DEF Framed
  <2> QED BY <2>1, <2>2 DEF Opened, Holds
<1> QED BY <1>1 DEF Framed

\* fs2 are the first n frames.
Outer(fs, n, fs2) ==
  /\ fs2 \in Seq(Frames) /\ Len(fs2) = n /\ \A k \in 1..n : fs2[k] = fs[k] /\ k \in 1..Len(fs)
  /\ Building(fs2) = {k \in Building(fs) : k <= n}
  /\ \A h : Framed(fs, h) => Framed(fs2, h)
  /\ \A l : Stacked(fs, l) => Stacked(fs2, l)

\* The first n frames of a stack are like the stack.
LEMMA Earlier ==
  ASSUME NEW fs \in Seq(Frames), NEW n \in Nat, n <= Len(fs), NEW fs2, fs2 = SubSeq(fs, 1, n)
  PROVE  Outer(fs, n, fs2)
<1>1. PICK l \in Nat : l = Len(fs) OBVIOUS
<1>2. fs2 \in Seq(Frames) /\ Len(fs2) = n /\ \A k \in 1..n : fs2[k] = fs[k] OBVIOUS
<1>3. \A k \in 1..n : k \in 1..l BY <1>1
<1>4. \A k \in 1..l : k <= n <=> k \in 1..n BY <1>1
<1>5. Building(fs2) = {k \in Building(fs) : k <= n}
  <2>1. \A k : k \in Building(fs2) <=> k \in 1..n /\ fs[k].fn = "list" BY <1>2 DEF Building
  <2>2. \A k : k \in Building(fs) <=> k \in 1..l /\ fs[k].fn = "list" BY <1>1 DEF Building
  <2>3. \A k : k \in Building(fs2) <=> k \in Building(fs) /\ k <= n BY <1>3, <1>4, <2>1, <2>2
  <2> QED BY <2>3
<1>6. ASSUME NEW h, Framed(fs, h) PROVE Framed(fs2, h)
  <2>1. ASSUME NEW k \in 1..n
        PROVE  /\ fs2[k].fn \in {"set", "push", "append"} => fs2[k].sym \in Syms
               /\ fs2[k].fn = "throw" => \E j \in 1..k - 1 : fs2[j].fn = "catch"
               /\ fs2[k].fn = "list" => Opened(h, fs2[k].cell, fs2[k].last)
    <3>1. \A j \in 1..k - 1 : j \in 1..n OBVIOUS
    <3>2. k \in 1..l /\ fs2[k] = fs[k] BY <1>2, <1>3
    <3> QED BY <1>1, <1>2, <1>6, <3>1, <3>2 DEF Framed
  <2> QED BY <1>2, <2>1 DEF Framed
<1>7. ASSUME NEW i, Stacked(fs, i) PROVE Stacked(fs2, i) BY <1>1, <1>2, <1>3, <1>7 DEF Stacked
<1> QED BY <1>1, <1>2, <1>3, <1>5, <1>6, <1>7 DEF Outer

\* A function that builds no list ends.
LEMMA HeldPop ==
  ASSUME NEW ct, NEW rs, NEW fs \in Seq(Frames), NEW ls, fs # <<>>, Last(fs).fn # "list"
  PROVE  Held(ct, rs, Front(fs), ls) = Held(ct, rs, fs, ls)
<1>1. PICK n \in Nat, k \in Nat : n = Len(fs) /\ n > 0 /\ k = n - 1 /\ Last(fs) = fs[n]
  BY DEF Last
<1>2. Front(fs) = SubSeq(fs, 1, k) /\ k <= Len(fs) BY <1>1 DEF Front
<1>3. Building(Front(fs)) = {j \in Building(fs) : j <= k} /\ \A j \in 1..k : Front(fs)[j] = fs[j]
  <2>1. Outer(fs, k, Front(fs)) BY <1>2, Earlier
  <2> QED BY <2>1 DEF Outer
<1>4. \A j \in 1..n : j <= k <=> j # n BY <1>1
<1>5. \A j \in Building(fs) : j \in 1..n /\ j # n BY <1>1 DEF Building
<1>6. Building(Front(fs)) = Building(fs) BY <1>3, <1>4, <1>5
<1>7. \A j \in Building(fs) : Front(fs)[j].cell = fs[j].cell
  <2>1. \A j \in Building(fs) : j \in 1..k BY <1>1, <1>4, <1>5
  <2> QED BY <1>3, <2>1
<1> QED BY <1>6, <1>7, HeldSame

\* A function with a list ends.
LEMMA HeldDone ==
  ASSUME NEW ct, NEW rs, NEW fs \in Seq(Frames), NEW ls, fs # <<>>, Last(fs).fn = "list",
         NEW R, Owns(Held(ct, rs, fs, ls), R)
  PROVE  Owns(Held(ct, rs, Front(fs), ls), R \ {Last(fs).cell})
<1>1. PICK n \in Nat, k \in Nat : n = Len(fs) /\ n > 0 /\ k = n - 1 /\ Last(fs) = fs[n]
  BY DEF Last
<1>2. Front(fs) = SubSeq(fs, 1, k) /\ k <= Len(fs) BY <1>1 DEF Front
<1>3. Building(Front(fs)) = {j \in Building(fs) : j <= k} /\ \A j \in 1..k : Front(fs)[j] = fs[j]
  <2>1. Outer(fs, k, Front(fs)) BY <1>2, Earlier
  <2> QED BY <2>1 DEF Outer
<1>4. \A j \in 1..n : j <= k <=> j # n BY <1>1
<1>5. n \in Building(fs) /\ \A j \in Building(fs) : j \in 1..n BY <1>1 DEF Building
<1>6. Building(Front(fs)) = Building(fs) \ {n} BY <1>3, <1>4, <1>5
<1>7. \A j \in Building(fs) \ {n} : Front(fs)[j].cell = fs[j].cell
  <2>1. \A j \in Building(fs) \ {n} : j \in 1..k BY <1>1, <1>4, <1>5
  <2> QED BY <1>3, <2>1
<1>8. PICK c, d, fs2 : c = fs[n].cell /\ d = <<"list", n, c>> /\ fs2 = Front(fs) OBVIOUS
<1>9. d[3] = c BY <1>8
<1>10. Held(ct, rs, fs2, ls) = Held(ct, rs, fs, ls) \ {d}
  <2>1. ASSUME NEW p PROVE p \in Held(ct, rs, fs2, ls) <=> p \in Held(ct, rs, fs, ls) \ {d}
    <3>1. (\E j \in Building(fs2) : p = <<"list", j, fs2[j].cell>>)
          <=> (\E j \in Building(fs) : p = <<"list", j, fs[j].cell>>) /\ p # d BY <1>6, <1>7, <1>8
    <3>2. ASSUME \/ \E s \in Syms : p = <<"symbol", s, ct[s]>>
                 \/ \E i \in 1..Len(rs) : p = <<"result", i, rs[i]>>
                 \/ \E e \in BuiltinCells \cup ls : p = <<"kept", e, e>>
          PROVE p # d BY <1>8, <3>2
    <3> QED BY <3>1, <3>2, HeldIn
  <2> QED BY <2>1
<1>11. d \in Held(ct, rs, fs, ls) BY <1>5, <1>8, HeldIn
<1>12. Owns(Held(ct, rs, fs, ls) \ {d}, R \ {e[3] : e \in {d}}) BY <1>11, OwnsCut
<1>13. {e[3] : e \in {d}} = {c} BY <1>9
<1> QED BY <1>1, <1>8, <1>10, <1>12, <1>13

\* A function with a list begins.
LEMMA HeldList ==
  ASSUME NEW ct, NEW rs, NEW fs \in Seq(Frames), NEW ls, NEW R, Owns(Held(ct, rs, fs, ls), R),
         NEW f, f.fn = "list", NEW c, f.cell = c, c \notin R
  PROVE  Owns(Held(ct, rs, Append(fs, f), ls), (R \cup {c}) \ Permanent)
<1>1. PICK n \in Nat : n = Len(fs) OBVIOUS
<1>2. PICK m, fs2 : m = n + 1 /\ fs2 = Append(fs, f) /\ m \in Nat
  <2>1. PICK m : m = n + 1 /\ m \in Nat OBVIOUS
  <2> QED BY <2>1
<1>3. Len(fs2) = m /\ fs2[m] = f /\ \A k \in 1..n : fs2[k] = fs[k] BY <1>1, <1>2
<1>4. \A k : k \in 1..m <=> k \in 1..n \/ k = m BY <1>2
<1>5. m \notin 1..n BY <1>2
<1>6. Building(fs2) = Building(fs) \cup {m}
  <2>1. \A k : k \in Building(fs2) <=> k \in Building(fs) \/ k = m
    BY <1>1, <1>3, <1>4, <1>5 DEF Building
  <2> QED BY <2>1
<1>7. Held(ct, rs, fs2, ls) = Held(ct, rs, fs, ls) \cup {<<"list", m, c>>}
  <2>1. ASSUME NEW p PROVE p \in Held(ct, rs, fs2, ls)
                           <=> p \in Held(ct, rs, fs, ls) \cup {<<"list", m, c>>}
    <3>1. \A k \in Building(fs) : fs2[k] = fs[k] BY <1>1, <1>3 DEF Building
    <3>2. (\E k \in Building(fs2) : p = <<"list", k, fs2[k].cell>>)
          <=> (\E k \in Building(fs) : p = <<"list", k, fs[k].cell>>) \/ p = <<"list", m, c>>
      BY <1>3, <1>6, <3>1
    <3> QED BY <3>2, HeldIn
  <2> QED BY <2>1
<1>8. Owns(Held(ct, rs, fs, ls) \cup {<<"list", m, c>>}, (R \cup {c}) \ Permanent) BY OwnsAdd
<1> QED BY <1>2, <1>7, <1>8

\* What longjmp loses is still owned: by nobody who could give it back.
LEMMA HeldJump ==
  ASSUME NEW ct, NEW rs, NEW fs \in Seq(Frames), NEW ls, NEW R, Owns(Held(ct, rs, fs, ls), R),
         NEW n \in Nat, n <= Len(fs), NEW ls2,
         ls2 = ls \cup {fs[i].cell : i \in {i \in Building(fs) : i > n}}
  PROVE  Owns(Held(ct, rs, SubSeq(fs, 1, n), ls2), R)
<1>1. PICK l \in Nat : l = Len(fs) OBVIOUS
<1>2. PICK fs2, H, H2 : /\ fs2 = SubSeq(fs, 1, n) /\ H = Held(ct, rs, fs, ls)
                        /\ H2 = Held(ct, rs, fs2, ls2) OBVIOUS
<1>3. Building(fs2) = {k \in Building(fs) : k <= n} /\ \A k \in 1..n : fs2[k] = fs[k]
  <2>1. Outer(fs, n, fs2) BY <1>2, Earlier
  <2> QED BY <2>1 DEF Outer
<1>4. \A k \in Building(fs) : k \in 1..l /\ (k \in 1..n \/ k > n) /\ ~(k <= n /\ k > n)
  BY <1>1 DEF Building
<1>5. \A k \in Building(fs2) : k \in Building(fs) /\ k \in 1..n /\ fs2[k] = fs[k]
  BY <1>3 DEF Building
<1>6. \A k \in Building(fs) : k \in Building(fs2) \/ k > n BY <1>3, <1>4
<1>7. \A p \in H2 : p \in H \/ \E k \in Building(fs) : k > n /\ p = <<"kept", fs[k].cell, fs[k].cell>>
  <2>1. ASSUME NEW p \in H2
        PROVE p \in H \/ \E k \in Building(fs) : k > n /\ p = <<"kept", fs[k].cell, fs[k].cell>>
    <3>1. CASE \E s \in Syms : p = <<"symbol", s, ct[s]>> BY <1>2, <3>1, HeldIn
    <3>2. CASE \E i \in 1..Len(rs) : p = <<"result", i, rs[i]>> BY <1>2, <3>2, HeldIn
    <3>3. CASE \E k \in Building(fs2) : p = <<"list", k, fs2[k].cell>> BY <1>2, <1>5, <3>3, HeldIn
    <3>4. CASE \E c \in BuiltinCells \cup ls2 : p = <<"kept", c, c>> BY <1>2, <3>4, HeldIn
    <3>5. \/ \E s \in Syms : p = <<"symbol", s, ct[s]>>
          \/ \E i \in 1..Len(rs) : p = <<"result", i, rs[i]>>
          \/ \E k \in Building(fs2) : p = <<"list", k, fs2[k].cell>>
          \/ \E c \in BuiltinCells \cup ls2 : p = <<"kept", c, c>>
      <4>1. p \in Held(ct, rs, fs2, ls2) BY <1>2
      <4> QED BY ONLY <4>1 DEF Held
    <3> QED BY ONLY <3>1, <3>2, <3>3, <3>4, <3>5
  <2> QED BY <2>1
<1>8. \A p \in H : p \in H2 \/ \E k \in Building(fs) : k > n /\ p = <<"list", k, fs[k].cell>>
  <2>1. ASSUME NEW p \in H
        PROVE p \in H2 \/ \E k \in Building(fs) : k > n /\ p = <<"list", k, fs[k].cell>>
    <3>1. CASE \E s \in Syms : p = <<"symbol", s, ct[s]>> BY <1>2, <3>1, HeldIn
    <3>2. CASE \E i \in 1..Len(rs) : p = <<"result", i, rs[i]>> BY <1>2, <3>2, HeldIn
    <3>3. CASE \E k \in Building(fs) : p = <<"list", k, fs[k].cell>>
      BY <1>2, <1>5, <1>6, <3>3, HeldIn
    <3>4. CASE \E c \in BuiltinCells \cup ls : p = <<"kept", c, c>> BY <1>2, <3>4, HeldIn
    <3> QED BY <1>2, <3>1, <3>2, <3>3, <3>4, HeldIn
  <2> QED BY <2>1
<1>9. \A k \in Building(fs) : <<"list", k, fs[k].cell>> \in H BY <1>2, HeldIn
<1>10. \A k \in Building(fs) : k > n => <<"kept", fs[k].cell, fs[k].cell>> \in H2 BY <1>2, HeldIn
<1>11. ASSUME NEW r PROVE r \in R <=> r \notin Permanent /\ \E p \in H2 : p[3] = r
  <2>1. r \in R <=> r \notin Permanent /\ \E p \in H : p[3] = r BY <1>2 DEF Owns
  <2>2. ASSUME NEW p \in H2, p[3] = r PROVE \E q \in H : q[3] = r
    <3>1. CASE p \in H BY <2>2, <3>1
    <3>2. CASE \E k \in Building(fs) : k > n /\ p = <<"kept", fs[k].cell, fs[k].cell>>
      <4>1. PICK k \in Building(fs) : p = <<"kept", fs[k].cell, fs[k].cell>> BY <3>2
      <4>2. p[3] = fs[k].cell /\ <<"list", k, fs[k].cell>>[3] = fs[k].cell BY <4>1
      <4> QED BY <1>9, <2>2, <4>2
    <3> QED BY <1>7, <3>1, <3>2
  <2>3. ASSUME NEW p \in H, p[3] = r PROVE \E q \in H2 : q[3] = r
    <3>1. CASE p \in H2 BY <2>3, <3>1
    <3>2. CASE \E k \in Building(fs) : k > n /\ p = <<"list", k, fs[k].cell>>
      <4>1. PICK k \in Building(fs) : k > n /\ p = <<"list", k, fs[k].cell>> BY <3>2
      <4>2. p[3] = fs[k].cell /\ <<"kept", fs[k].cell, fs[k].cell>>[3] = fs[k].cell BY <4>1
      <4> QED BY <1>10, <2>3, <4>1, <4>2
    <3> QED BY <1>8, <3>1, <3>2
  <2> QED BY <2>1, <2>2, <2>3
<1>12. ASSUME NEW p \in H2, NEW q \in H2, p[3] = q[3], p[3] \notin Permanent PROVE p = q
  <2>1. \A x, y \in H : x[3] = y[3] /\ x[3] \notin Permanent => x = y BY <1>2 DEF Owns
  <2>2. ASSUME NEW k \in Building(fs), k > n, NEW x \in H2, x[3] = fs[k].cell,
               fs[k].cell \notin Permanent
        PROVE x = <<"kept", fs[k].cell, fs[k].cell>>
    <3>1. PICK y : y = <<"list", k, fs[k].cell>> /\ y[3] = fs[k].cell /\ y[2] = k /\ y[1] = "list"
      <4>1. PICK y : y = <<"list", k, fs[k].cell>> OBVIOUS
      <4>2. y[3] = fs[k].cell /\ y[2] = k /\ y[1] = "list" BY <4>1
      <4> QED BY <4>1, <4>2
    <3>2. CASE x \in H
      <4>1. x = y BY <1>9, <2>1, <2>2, <3>1, <3>2
      <4>2. \E i \in Building(fs2) : x = <<"list", i, fs2[i].cell>>
        <5>1. \/ \E s \in Syms : x = <<"symbol", s, ct[s]>>
              \/ \E i \in 1..Len(rs) : x = <<"result", i, rs[i]>>
              \/ \E i \in Building(fs2) : x = <<"list", i, fs2[i].cell>>
              \/ \E c \in BuiltinCells \cup ls2 : x = <<"kept", c, c>>
          <6>1. x \in Held(ct, rs, fs2, ls2) BY <1>2
          <6> QED BY ONLY <6>1 DEF Held
        <5>2. x[1] = "list" BY <3>1, <4>1
        <5> QED BY <5>1, <5>2
      <4>3. k \in Building(fs2) BY <3>1, <4>1, <4>2
      <4> QED BY <1>3, <1>4, <2>2, <4>3
    <3>3. CASE x \notin H
      <4>1. PICK i \in Building(fs) : x = <<"kept", fs[i].cell, fs[i].cell>> BY <1>7, <3>3
      <4>2. x[3] = fs[i].cell BY <4>1
      <4> QED BY <2>2, <4>1, <4>2
    <3> QED BY <3>2, <3>3
  <2>3. CASE p \in H /\ q \in H BY <1>12, <2>1, <2>3
  <2>4. CASE p \notin H
    <3>1. PICK k \in Building(fs) : k > n /\ p = <<"kept", fs[k].cell, fs[k].cell>> BY <1>7, <2>4
    <3>2. p[3] = fs[k].cell BY <3>1
    <3>3. q = <<"kept", fs[k].cell, fs[k].cell>> BY <1>12, <2>2, <3>1, <3>2
    <3> QED BY <3>1, <3>3
  <2>5. CASE q \notin H
    <3>1. PICK k \in Building(fs) : k > n /\ q = <<"kept", fs[k].cell, fs[k].cell>> BY <1>7, <2>5
    <3>2. q[3] = fs[k].cell BY <3>1
    <3>3. p = <<"kept", fs[k].cell, fs[k].cell>> BY <1>12, <2>2, <3>1, <3>2
    <3> QED BY <3>1, <3>3
  <2> QED BY <2>3, <2>4, <2>5
<1> QED BY <1>2, <1>11, <1>12 DEF Owns

(* The state between two steps. *)

\* What an evaluation returned is still there.  If it is on the result stack, it came
\* there after the function that waits for it was entered.
Valued(h, rs, fs, v) ==
  v # NULL => /\ v \in Alive(h) \cup Permanent
              /\ IsLast(rs, v) /\ fs # <<>> => Last(fs).save < Len(rs)
Shaped(ct, rs, fs, ls, v) ==
  /\ ct \in [Syms -> Cells] /\ rs \in Seq(Cells) /\ fs \in Seq(Frames) /\ ls \subseteq Cells
  /\ v \in Cells \cup {NULL}
Good(m, ct, rs, fs, ls, v, R) ==
  /\ Tidy(m, R) /\ Owns(Held(ct, rs, fs, ls), R)
  /\ Stacked(fs, Len(rs)) /\ Framed(fs, m.heap) /\ Valued(m.heap, rs, fs, v)
Sound(m, ct, rs, fs, ls, v) ==
  /\ Typed1(m) /\ Shaped(ct, rs, fs, ls, v)
  /\ m.process = "runs" => \E R : Good(m, ct, rs, fs, ls, v, R)

\* The lists under construction are owned by their functions.
LEMMA FramesOwned ==
  ASSUME NEW ct, NEW rs, NEW fs, NEW ls, NEW R, Owns(Held(ct, rs, fs, ls), R),
         NEW h, Framed(fs, h)
  PROVE  \A k \in Building(fs) : fs[k].cell \in R
<1>1. ASSUME NEW k \in Building(fs) PROVE fs[k].cell \in R
  <2>1. PICK p : p = <<"list", k, fs[k].cell>> OBVIOUS
  <2>2. p[3] = fs[k].cell BY <2>1
  <2>3. p \in Held(ct, rs, fs, ls) BY <2>1, HeldIn
  <2>4. fs[k].cell \notin Permanent BY DEF Framed, Opened, Building, Alive
  <2> QED BY <2>2, <2>3, <2>4 DEF Owns
<1> QED BY <1>1

\* They stay when the heap keeps what it has.
LEMMA FramedNext ==
  ASSUME NEW ct, NEW rs, NEW fs, NEW ls, NEW R, Owns(Held(ct, rs, fs, ls), R),
         NEW h, Framed(fs, h), NEW m, Tidy(m, R), NEW B, Keeps(h, m.heap, B),
         B \in {Alive(h), Alive(m.heap)}
  PROVE  Framed(fs, m.heap)
<1>1. R \subseteq Alive(m.heap) BY DEF Tidy, Owned, Shape
<1>2. \A k \in Building(fs) : fs[k].cell \in Alive(m.heap) BY <1>1, FramesOwned
<1>3. \A k \in Building(fs) : fs[k].cell \in Alive(h) BY DEF Framed, Opened, Building
<1>4. Holds(h, m.heap, B) BY KeepsHolds
<1> QED BY <1>2, <1>3, <1>4, FramedKept

\* The end of a function with a new result c.
LEMMA PushGood ==
  ASSUME NEW m, NEW R, Tidy(m, R), NEW ct \in [Syms -> Cells], NEW rs \in Seq(Cells),
         NEW fs \in Seq(Frames), NEW ls \in SUBSET Cells, NEW c \in R \cup Permanent,
         Owns(Held(ct, rs, fs, ls), R \ {c}), NEW n \in Nat, n <= Len(rs), Stacked(fs, n),
         Framed(fs, m.heap), NEW m2, m2 = Cleaned(m, rs, n), NEW rs2, rs2 = Append(SubSeq(rs, 1, n), c)
  PROVE  Sound(m2, ct, rs2, fs, ls, c)
<1>1. R \subseteq Alive(m.heap) /\ Alive(m.heap) \subseteq Cells /\ R \cap Permanent = {}
  BY ShapeFacts DEF Tidy, Owned, Alive
<1>2. c \in Cells BY <1>1, Special DEF Permanent
<1>3. Stack(rs, R \ {c}) BY HeldStack
<1>4. Stack(rs, R) BY <1>3 DEF Stack
<1>5. /\ Tidy(m2, R \ Above(rs, n)) /\ m2.process = m.process
      /\ Keeps(m.heap, m2.heap, Alive(m2.heap))
  <2>1. Rest(m, R, rs, n, m2) BY <1>4, CleanedTidy
  <2> QED BY <2>1 DEF Rest
<1>6. PICK u : u = SubSeq(rs, 1, n) OBVIOUS
<1>7. /\ Held(ct, u, fs, ls) = Held(ct, rs, fs, ls) \ ResultsFrom(rs, n)
      /\ ResultsFrom(rs, n) \subseteq Held(ct, rs, fs, ls)
      /\ {d[3] : d \in ResultsFrom(rs, n)} = Above(rs, n)
      /\ u \in Seq(Cells) /\ Len(u) = n
  <2>1. Shorter(ct, rs, fs, ls, n, u) BY <1>6, HeldCut
  <2> QED BY <2>1 DEF Shorter
<1>8. Owns(Held(ct, u, fs, ls), (R \ {c}) \ Above(rs, n))
  <2>1. Owns(Held(ct, rs, fs, ls) \ ResultsFrom(rs, n),
             (R \ {c}) \ {d[3] : d \in ResultsFrom(rs, n)}) BY <1>7, OwnsCut
  <2> QED BY <1>7, <2>1
<1>9. Held(ct, rs2, fs, ls) = Held(ct, u, fs, ls) \cup {<<"result", n + 1, c>>}
  <2>1. Pushed(ct, u, fs, ls, c, Append(u, c)) BY <1>2, <1>7, HeldResult
  <2> QED BY <1>6, <1>7, <2>1 DEF Pushed
<1>10. Owns(Held(ct, rs2, fs, ls), (((R \ {c}) \ Above(rs, n)) \cup {c}) \ Permanent)
  <2>1. PICK H, S : H = Held(ct, u, fs, ls) /\ S = (R \ {c}) \ Above(rs, n) OBVIOUS
  <2>2. Owns(H, S) /\ c \notin S BY <1>8, <2>1
  <2>3. Owns(H \cup {<<"result", n + 1, c>>}, (S \cup {c}) \ Permanent) BY <2>2, OwnsAdd
  <2> QED BY <1>9, <2>1, <2>3
<1>11. (((R \ {c}) \ Above(rs, n)) \cup {c}) \ Permanent = R \ Above(rs, n)
  <2>1. ASSUME c \notin Permanent PROVE c \notin Above(rs, n) BY <1>3, <2>1 DEF Above, Stack
  <2> QED BY <1>1, <2>1
<1>12. PICK R2 : R2 = R \ Above(rs, n) OBVIOUS
<1>13. Tidy(m2, R2) /\ Owns(Held(ct, rs2, fs, ls), R2) BY <1>5, <1>10, <1>11, <1>12
<1>14. Framed(fs, m2.heap) BY <1>5, <1>13, FramedNext
<1>15. rs2 \in Seq(Cells) /\ Len(rs2) = n + 1 /\ Last(rs2) = c BY <1>2, <1>6, <1>7 DEF Last
<1>16. Stacked(fs, Len(rs2)) /\ (fs # <<>> => Last(fs).save < Len(rs2))
  <2>1. PICK l \in Nat : l = Len(fs) OBVIOUS
  <2>2. \A k \in 1..l : fs[k].save \in Nat
    <3>1. \A k \in 1..l : fs[k] \in Frames BY <2>1, SeqLen
    <3> QED BY <3>1 DEF Frames
  <2>3. \A k \in 1..l : fs[k].save <= n BY <2>1 DEF Stacked
  <2>4. \A k \in 1..l : fs[k].save < n + 1 BY <2>2, <2>3
  <2>5. ASSUME fs # <<>> PROVE l \in 1..l /\ Last(fs) = fs[l] BY <2>1, <2>5 DEF Last
  <2>6. \A k \in 1..l : fs[k].save <= n + 1 BY <2>2, <2>3
  <2> QED BY <1>15, <2>1, <2>4, <2>5, <2>6 DEF Stacked
<1>17. Valued(m2.heap, rs2, fs, c)
  <2>1. c \in R2 \cup Permanent
    <3>1. CASE c \in Permanent BY <3>1
    <3>2. CASE c \notin Permanent BY <1>3, <1>12, <3>2 DEF Above, Stack
    <3> QED BY <3>1, <3>2
  <2>2. R2 \subseteq Alive(m2.heap) BY <1>13 DEF Tidy, Owned, Shape
  <2> QED BY <1>16, <2>1, <2>2 DEF Valued
<1>18. Good(m2, ct, rs2, fs, ls, c, R2) BY <1>13, <1>14, <1>16, <1>17 DEF Good
<1>19. Typed1(m2) BY <1>5, TidyTyped
<1> QED BY <1>2, <1>15, <1>18, <1>19 DEF Sound, Shaped

\* ... when the process has ended.
LEMMA PushExit ==
  ASSUME NEW m, NEW R, Tidy(m, R), NEW ct \in [Syms -> Cells], NEW rs \in Seq(Cells),
         NEW fs \in Seq(Frames), NEW ls \in SUBSET Cells, NEW c \in Cells,
         NEW R0, R0 \subseteq R, Stack(rs, R0), NEW n \in Nat, n <= Len(rs),
         m.process # "runs", NEW m2, m2 = Cleaned(m, rs, n),
         NEW rs2 \in Seq(Cells), NEW v \in Cells \cup {NULL}
  PROVE  Sound(m2, ct, rs2, fs, ls, v)
<1>1. Stack(rs, R) BY DEF Stack
<1>2. Tidy(m2, R \ Above(rs, n)) /\ m2.process = m.process
  <2>1. Rest(m, R, rs, n, m2) BY <1>1, CleanedTidy
  <2> QED BY <2>1 DEF Rest
<1>3. Typed1(m2) BY <1>2, TidyTyped
<1> QED BY <1>2, <1>3 DEF Sound, Shaped

\* What a symbol has is not on the result stack.
LEMMA SymbolOwned ==
  ASSUME NEW ct, NEW rs \in Seq(Cells), NEW fs, NEW ls, NEW R, Owns(Held(ct, rs, fs, ls), R),
         NEW s \in Syms
  PROVE  /\ ct[s] \in R \cup Permanent /\ ~IsLast(rs, ct[s])
         /\ \A k \in Building(fs) : ct[s] \notin Permanent => fs[k].cell # ct[s]
<1>1. PICK p : p = <<"symbol", s, ct[s]>> OBVIOUS
<1>2. p[3] = ct[s] /\ p[1] = "symbol" BY <1>1
<1>3. p \in Held(ct, rs, fs, ls) BY <1>1, HeldIn
<1>4. ct[s] \in R \cup Permanent BY <1>2, <1>3 DEF Owns
<1>5. ASSUME IsLast(rs, ct[s]) PROVE FALSE
  <2>1. PICK n \in Nat : n = Len(rs) /\ n \in 1..n /\ rs[n] = ct[s] BY <1>5 DEF IsLast, Last
  <2>2. PICK q : q = <<"result", n, rs[n]>> OBVIOUS
  <2>3. q[3] = rs[n] /\ q[1] = "result" BY <2>2
  <2>4. q \in Held(ct, rs, fs, ls)
    <3>1. n \in 1..Len(rs) BY <2>1
    <3> QED BY <2>2, <3>1 DEF Held
  <2>5. p = q BY <1>2, <1>3, <1>5, <2>1, <2>3, <2>4 DEF Owns, IsLast
  <2> QED BY <1>2, <2>3, <2>5
<1>6. ASSUME NEW k \in Building(fs), ct[s] \notin Permanent, fs[k].cell = ct[s] PROVE FALSE
  <2>1. PICK q : q = <<"list", k, fs[k].cell>> OBVIOUS
  <2>2. q[3] = fs[k].cell /\ q[1] = "list" BY <2>1
  <2>3. q \in Held(ct, rs, fs, ls) BY <2>1, HeldIn
  <2>4. p = q BY <1>2, <1>3, <1>6, <2>2, <2>3 DEF Owns
  <2> QED BY <1>2, <2>2, <2>4
<1> QED BY <1>4, <1>5, <1>6

\* What an element of a list is, is not on the result stack.
LEMMA LinkedNotLast ==
  ASSUME NEW ct, NEW rs \in Seq(Cells), NEW fs, NEW ls, NEW R, Owns(Held(ct, rs, fs, ls), R),
         NEW c, c \notin R
  PROVE  ~IsLast(rs, c)
<1>1. ASSUME IsLast(rs, c) PROVE FALSE
  <2>1. PICK n \in Nat : n = Len(rs) /\ n \in 1..n /\ rs[n] = c BY <1>1 DEF IsLast, Last
  <2>2. Stack(rs, R) BY HeldStack
  <2> QED BY <1>1, <2>1, <2>2 DEF Stack, IsLast
<1> QED BY <1>1

\* Another cell for a symbol, that nobody owned.
LEMMA OwnsSymbol ==
  ASSUME NEW ct, NEW rs, NEW fs, NEW ls, NEW R, Owns(Held(ct, rs, fs, ls), R),
         NEW s \in Syms, NEW c, c \notin R, NEW ct2, ct2 = [ct EXCEPT ![s] = c],
         ct \in [Syms -> Cells]
  PROVE  Owns(Held(ct2, rs, fs, ls), ((R \ {ct[s]}) \cup {c}) \ Permanent)
<1>1. ct2[s] = c /\ \A t \in Syms \ {s} : ct2[t] = ct[t] OBVIOUS
<1>2. PICK d : d = <<"symbol", s, ct[s]>> OBVIOUS
<1>3. d[3] = ct[s] BY <1>2
<1>4. Held(ct2, rs, fs, ls) = (Held(ct, rs, fs, ls) \ {d}) \cup {<<"symbol", s, c>>}
      /\ d \in Held(ct, rs, fs, ls)
  <2>1. Held(ct2, rs, fs, ls) = (Held(ct, rs, fs, ls) \ {<<"symbol", s, ct[s]>>})
                                \cup {<<"symbol", s, c>>}
    <3>1. ct2[s] = c BY <1>1
    <3>2. \A t \in Syms \ {s} : ct2[t] = ct[t] BY <1>1
    <3>3. Renamed(ct, rs, fs, ls, s, c, ct2) BY <3>1, <3>2, HeldSymbol
    <3> QED BY <3>3 DEF Renamed
  <2>2. d \in Held(ct, rs, fs, ls) BY <1>2, HeldIn
  <2> QED BY <1>2, <2>1, <2>2
<1>5. Owns(Held(ct, rs, fs, ls) \ {d}, R \ {e[3] : e \in {d}}) BY <1>4, OwnsCut
<1>6. {e[3] : e \in {d}} = {ct[s]} BY <1>3
<1>7. Owns(Held(ct, rs, fs, ls) \ {d}, R \ {ct[s]}) BY <1>5, <1>6
<1>8. c \notin R \ {ct[s]} OBVIOUS
<1>9. Owns((Held(ct, rs, fs, ls) \ {d}) \cup {<<"symbol", s, c>>}, ((R \ {ct[s]}) \cup {c}) \ Permanent)
  BY <1>7, <1>8, OwnsAdd
<1> QED BY <1>4, <1>9

(* Single writes to cells. *)

\* g is h with another cell at c.
Written(h, c, cell, g) == /\ g \in [Cells -> CellRecords] /\ g[c] = cell
                          /\ \A x \in Cells \ {c} : g[x] = h[x]

\* The fields of a cell that is written whole.
LEMMA CellFields ==
  ASSUME NEW t, NEW n, NEW a, NEW c
  PROVE  /\ Cell(t, n, a, c).type = t /\ Cell(t, n, a, c).next = n
         /\ Cell(t, n, a, c).aux = a /\ Cell(t, n, a, c).contents = c
         /\ t \in Types /\ n \in Cells \cup {NULL} /\ a \in Cells /\ c \in Cells
            => Cell(t, n, a, c) \in CellRecords BY DEF Cell, CellRecords

\* A write of next changes one cell.
LEMMA WriteNext ==
  ASSUME NEW h \in [Cells -> CellRecords], NEW c \in Cells, NEW d \in Cells \cup {NULL},
         NEW g, g = [h EXCEPT ![c].next = d]
  PROVE  Written(h, c, Cell(h[c].type, d, h[c].aux, h[c].contents), g)
<1>1. PICK t, n, a, e : h[c] = [type |-> t, next |-> n, aux |-> a, contents |-> e]
                        /\ t \in Types /\ n \in Cells \cup {NULL} /\ a \in Cells /\ e \in Cells
  <2>1. h[c] \in CellRecords OBVIOUS
  <2> QED BY ONLY <2>1 DEF CellRecords
<1>2. PICK x : x = [type |-> t, next |-> d, aux |-> a, contents |-> e] OBVIOUS
<1>3. x \in CellRecords BY <1>1, <1>2 DEF CellRecords
<1>4. g = [h EXCEPT ![c] = x]
  <2>1. [h[c] EXCEPT !.next = d] = x BY ONLY <1>1, <1>2
  <2>2. g = [h EXCEPT ![c] = [h[c] EXCEPT !.next = d]] OBVIOUS
  <2> QED BY ONLY <2>1, <2>2
<1>5. g \in [Cells -> CellRecords] /\ g[c] = x /\ \A y \in Cells \ {c} : g[y] = h[y]
  BY ONLY <1>3, <1>4, h \in [Cells -> CellRecords], c \in Cells
<1>6. x = Cell(h[c].type, d, h[c].aux, h[c].contents) BY ONLY <1>1, <1>2 DEF Cell
<1> QED BY <1>5, <1>6 DEF Written

\* A write of contents changes one cell.
LEMMA WriteContents ==
  ASSUME NEW h \in [Cells -> CellRecords], NEW c \in Cells, NEW d \in Cells,
         NEW g, g = [h EXCEPT ![c].contents = d]
  PROVE  Written(h, c, Cell(h[c].type, h[c].next, h[c].aux, d), g)
<1>1. PICK t, n, a, e : h[c] = [type |-> t, next |-> n, aux |-> a, contents |-> e]
                        /\ t \in Types /\ n \in Cells \cup {NULL} /\ a \in Cells /\ e \in Cells
  <2>1. h[c] \in CellRecords OBVIOUS
  <2> QED BY ONLY <2>1 DEF CellRecords
<1>2. PICK x : x = [type |-> t, next |-> n, aux |-> a, contents |-> d] OBVIOUS
<1>3. x \in CellRecords BY <1>1, <1>2 DEF CellRecords
<1>4. g = [h EXCEPT ![c] = x]
  <2>1. [h[c] EXCEPT !.contents = d] = x BY ONLY <1>1, <1>2
  <2>2. g = [h EXCEPT ![c] = [h[c] EXCEPT !.contents = d]] OBVIOUS
  <2> QED BY ONLY <2>1, <2>2
<1>5. g \in [Cells -> CellRecords] /\ g[c] = x /\ \A y \in Cells \ {c} : g[y] = h[y]
  BY ONLY <1>3, <1>4, h \in [Cells -> CellRecords], c \in Cells
<1>6. x = Cell(h[c].type, h[c].next, h[c].aux, d) BY ONLY <1>1, <1>2 DEF Cell
<1> QED BY <1>5, <1>6 DEF Written

\* A write of aux changes one cell.
LEMMA WriteAux ==
  ASSUME NEW h \in [Cells -> CellRecords], NEW c \in Cells, NEW d \in Cells,
         NEW g, g = [h EXCEPT ![c].aux = d]
  PROVE  Written(h, c, Cell(h[c].type, h[c].next, d, h[c].contents), g)
<1>1. PICK t, n, a, e : h[c] = [type |-> t, next |-> n, aux |-> a, contents |-> e]
                        /\ t \in Types /\ n \in Cells \cup {NULL} /\ a \in Cells /\ e \in Cells
  <2>1. h[c] \in CellRecords OBVIOUS
  <2> QED BY ONLY <2>1 DEF CellRecords
<1>2. PICK x : x = [type |-> t, next |-> n, aux |-> d, contents |-> e] OBVIOUS
<1>3. x \in CellRecords BY <1>1, <1>2 DEF CellRecords
<1>4. g = [h EXCEPT ![c] = x]
  <2>1. [h[c] EXCEPT !.aux = d] = x BY ONLY <1>1, <1>2
  <2>2. g = [h EXCEPT ![c] = [h[c] EXCEPT !.aux = d]] OBVIOUS
  <2> QED BY ONLY <2>1, <2>2
<1>5. g \in [Cells -> CellRecords] /\ g[c] = x /\ \A y \in Cells \ {c} : g[y] = h[y]
  BY ONLY <1>3, <1>4, h \in [Cells -> CellRecords], c \in Cells
<1>6. x = Cell(h[c].type, h[c].next, d, h[c].contents) BY ONLY <1>1, <1>2 DEF Cell
<1> QED BY <1>5, <1>6 DEF Written

\* The cells of a memory.
LEMMA HeapTyped ==
  ASSUME NEW m, Typed1(m)
  PROVE  m.heap \in [Cells -> CellRecords] BY DEF Typed1

(* Steps: programs and evaluations. *)

Ready(m, ct, rs, fs, ls, v, R) ==
  /\ Shaped(ct, rs, fs, ls, v) /\ Good(m, ct, rs, fs, ls, v, R) /\ m.process = "runs"

\* What a process that is ready for a step has.
LEMMA ReadyFacts ==
  ASSUME NEW m, NEW ct, NEW rs, NEW fs, NEW ls, NEW v, NEW R, Ready(m, ct, rs, fs, ls, v, R)
  PROVE  /\ ct \in [Syms -> Cells] /\ rs \in Seq(Cells) /\ fs \in Seq(Frames)
         /\ ls \in SUBSET Cells /\ v \in Cells \cup {NULL}
         /\ Tidy(m, R) /\ Owns(Held(ct, rs, fs, ls), R)
         /\ Stacked(fs, Len(rs)) /\ Framed(fs, m.heap) /\ Valued(m.heap, rs, fs, v)
         /\ m.process = "runs" /\ Shape(m.heap, R) /\ Lasts(m.heap)
         /\ R \subseteq Alive(m.heap) /\ Alive(m.heap) \subseteq Cells
         /\ Alive(m.heap) \cap Permanent = {} /\ Ranked(m.heap) /\ m.heap \in Heaps
         /\ m.heap \in [Cells -> CellRecords]
<1>1. Shape(m.heap, R) /\ Tidy(m, R) /\ Lasts(m.heap) BY DEF Ready, Good, Tidy, Owned
<1>2. R \subseteq Alive(m.heap) /\ Ranked(m.heap) /\ m.heap \in Heaps BY <1>1, ShapeFacts
<1>3. m.heap \in [Cells -> CellRecords] BY <1>1, TidyTyped, HeapTyped
<1> QED BY <1>1, <1>2, <1>3 DEF Ready, Good, Shaped, Alive

\* The lists under construction are in use.
LEMMA FramesAlive ==
  ASSUME NEW fs, NEW h, Framed(fs, h)
  PROVE  \A k \in Building(fs) : fs[k].cell \in Alive(h) BY DEF Framed, Opened, Building

\* m2 is m with another cell at c.
Sets(m, c, cell, m2) == \E g : Written(m.heap, c, cell, g) /\ m2 = [m EXCEPT !.heap = g]

\* Other cells of the same types make no difference to the type of a memory.
LEMMA WrittenTyped ==
  ASSUME NEW m, Typed1(m), NEW c \in Cells, NEW cell, NEW g, Written(m.heap, c, cell, g),
         cell.type = m.heap[c].type, NEW m2, m2 = [m EXCEPT !.heap = g]
  PROVE  Typed1(m2) /\ m2.process = m.process /\ m2.heap = g
<1>1. g \in [Cells -> CellRecords] /\ \A x \in Cells : g[x].type = m.heap[x].type BY DEF Written
<1>2. Typed1(m2) BY <1>1, SameTyped
<1>3. PICK h, bs, fr, pr : m = [heap |-> h, free |-> fr, blocks |-> bs, process |-> pr]
  BY DEF Typed1
<1>4. m2.process = m.process /\ m2.heap = g BY ONLY <1>3, m2 = [m EXCEPT !.heap = g]
<1> QED BY <1>2, <1>4

\* A write of a cell's contents, in a memory.
LEMMA WriteContentsOf ==
  ASSUME NEW m, Typed1(m), NEW c \in Cells, NEW d \in Cells,
         NEW m2, m2 = [m EXCEPT !.heap[c].contents = d],
         NEW h, h = m.heap
  PROVE  /\ Typed1(m2) /\ m2.process = m.process
         /\ Sets(m, c, Cell(h[c].type, h[c].next, h[c].aux, d), m2)
<1>1. PICK g : g = [h EXCEPT ![c].contents = d] OBVIOUS
<1>2. PICK bs, fr, pr : m = [heap |-> h, free |-> fr, blocks |-> bs, process |-> pr] BY DEF Typed1
<1>3. m2 = [m EXCEPT !.heap = g] BY ONLY <1>1, <1>2, m2 = [m EXCEPT !.heap[c].contents = d]
<1>4. Written(h, c, Cell(h[c].type, h[c].next, h[c].aux, d), g) BY <1>1, HeapTyped, WriteContents
<1>5. Typed1(m2) /\ m2.process = m.process BY <1>3, <1>4, CellFields, WrittenTyped
<1> QED BY <1>3, <1>4, <1>5 DEF Sets

\* A write of a cell's next, in a memory.
LEMMA WriteNextOf ==
  ASSUME NEW m, Typed1(m), NEW c \in Cells, NEW d \in Cells \cup {NULL},
         NEW m2, m2 = [m EXCEPT !.heap[c].next = d],
         NEW h, h = m.heap
  PROVE  /\ Typed1(m2) /\ m2.process = m.process
         /\ Sets(m, c, Cell(h[c].type, d, h[c].aux, h[c].contents), m2)
<1>1. PICK g : g = [h EXCEPT ![c].next = d] OBVIOUS
<1>2. PICK bs, fr, pr : m = [heap |-> h, free |-> fr, blocks |-> bs, process |-> pr] BY DEF Typed1
<1>3. m2 = [m EXCEPT !.heap = g] BY ONLY <1>1, <1>2, m2 = [m EXCEPT !.heap[c].next = d]
<1>4. Written(h, c, Cell(h[c].type, d, h[c].aux, h[c].contents), g) BY <1>1, HeapTyped, WriteNext
<1>5. Typed1(m2) /\ m2.process = m.process BY <1>3, <1>4, CellFields, WrittenTyped
<1> QED BY <1>3, <1>4, <1>5 DEF Sets

\* A program is read.
LEMMA ReadStep ==
  ASSUME NEW m, NEW ct, NEW rs, NEW fs, NEW ls, NEW v, NEW R, Ready(m, ct, rs, fs, ls, v, R),
         rs = <<>>, NEW quote, quote = GetCell(m, "list", nilCell),
         NEW inner, inner = GetCell(quote.mem, "atom", nilCell),
         NEW m2, m2 = [inner.mem EXCEPT !.heap[quote.cell].contents = inner.cell]
  PROVE  Sound(m2, ct, <<quote.cell>>, fs, ls, v)
<1>1. /\ ct \in [Syms -> Cells] /\ rs \in Seq(Cells) /\ fs \in Seq(Frames)
      /\ ls \in SUBSET Cells /\ v \in Cells \cup {NULL}
      /\ Tidy(m, R) /\ Owns(Held(ct, rs, fs, ls), R)
      /\ Stacked(fs, Len(rs)) /\ Framed(fs, m.heap) /\ Valued(m.heap, rs, fs, v)
      /\ m.process = "runs" /\ R \subseteq Alive(m.heap) /\ Alive(m.heap) \subseteq Cells
      /\ Alive(m.heap) \cap Permanent = {} BY ReadyFacts
<1>2. PICK q, i, m0, m1 : q = quote.cell /\ m0 = quote.mem /\ i = inner.cell /\ m1 = inner.mem
  OBVIOUS
<1>3. Got(m, R, "list", nilCell, quote) BY <1>1, GetTidy
<1>4. nilCell \in Cells /\ nilCell \in Permanent BY Special DEF Permanent
<1>5. CASE m0.process = "exited"
  <2>1. q = nilCell /\ Tidy(m0, R) BY <1>1, <1>2, <1>3, <1>5 DEF Got
  <2>2. Got(m0, R, "atom", nilCell, inner) BY <1>2, <2>1, GetTidy
  <2>3. m1.process = "exited" /\ i = nilCell /\ Tidy(m1, R) BY <1>2, <1>5, <2>2 DEF Got
  <2>4. Typed1(m1) BY <2>3, TidyTyped
  <2>5. Typed1(m2) /\ m2.process = m1.process BY <1>2, <1>4, <2>1, <2>3, <2>4, WriteContentsOf
  <2>6. <<q>> \in Seq(Cells) BY <1>4, <2>1
  <2> QED BY <1>1, <1>2, <2>3, <2>5, <2>6 DEF Sound, Shaped
<1>6. CASE m0.process # "exited"
  <2>1. /\ m0.process = "runs" /\ q \in Cells \ (Alive(m.heap) \cup Permanent)
        /\ Tidy(m0, (R \ {nilCell}) \cup {q}) /\ Keeps(m.heap, m0.heap, Alive(m.heap))
        /\ Alive(m0.heap) = Alive(m.heap) \cup {q}
        /\ m0.heap[q] = Cell("list", nilCell, nilCell, nilCell) BY <1>1, <1>2, <1>3, <1>6 DEF Got
  <2>2. PICK R0 : R0 = R \cup {q} /\ Tidy(m0, R0)
    <3>1. (R \ {nilCell}) \cup {q} = R \cup {q} BY <1>1, <1>4
    <3> QED BY <2>1, <3>1
  <2>3. Got(m0, R0, "atom", nilCell, inner) BY <1>2, <2>2, GetTidy
  <2>4. <<q>> \in Seq(Cells) BY <2>1
  <2>5. CASE m1.process = "exited"
    <3>1. i = nilCell /\ Tidy(m1, R0) BY <1>2, <2>1, <2>3, <2>5 DEF Got
    <3>2. Typed1(m1) BY <3>1, TidyTyped
    <3>3. Typed1(m2) /\ m2.process = m1.process BY <1>2, <1>4, <2>1, <3>1, <3>2, WriteContentsOf
    <3> QED BY <1>1, <1>2, <2>4, <2>5, <3>3 DEF Sound, Shaped
  <2>6. CASE m1.process # "exited"
    <3>1. /\ m1.process = "runs" /\ i \in Cells \ (Alive(m0.heap) \cup Permanent)
          /\ Tidy(m1, (R0 \ {nilCell}) \cup {i}) /\ Keeps(m0.heap, m1.heap, Alive(m0.heap))
          /\ Alive(m1.heap) = Alive(m0.heap) \cup {i}
          /\ m1.heap[i] = Cell("atom", nilCell, nilCell, nilCell)
      BY <1>2, <2>1, <2>3, <2>6 DEF Got
    <3>2. PICK h, R1 : h = m1.heap /\ R1 = R0 \cup {i} OBVIOUS
    <3>3. Tidy(m1, R1) /\ Typed1(m1)
      <4>1. (R0 \ {nilCell}) \cup {i} = R0 \cup {i} BY <1>1, <1>4, <2>1, <2>2
      <4> QED BY <3>1, <3>2, <4>1, TidyTyped
    <3>4. h[q] = Cell("list", nilCell, nilCell, nilCell) BY <2>1, <3>1, <3>2 DEF Keeps
    <3>5. PICK g : /\ Written(h, q, Cell(h[q].type, h[q].next, h[q].aux, i), g)
                   /\ m2 = [m1 EXCEPT !.heap = g]
      <4>1. q \in Cells /\ i \in Cells BY <2>1, <3>1
      <4>2. Sets(m1, q, Cell(h[q].type, h[q].next, h[q].aux, i), m2)
        BY <1>2, <3>2, <3>3, <4>1, WriteContentsOf
      <4> QED BY <3>2, <4>2 DEF Sets
    <3>6. /\ g \in [Cells -> CellRecords] /\ \A x \in Cells \ {i, q} : g[x] = h[x]
          /\ g[q] = Cell("list", h[q].next, h[q].aux, i) /\ g[i] = h[i] /\ i # q
      BY <2>1, <3>1, <3>4, <3>5, CellFields DEF Written
    <3>7. /\ h[q].type = "list" /\ h[q].contents = nilCell
          /\ g[i] = Cell(h[i].type, h[q].contents, h[i].aux, h[i].contents)
      BY <3>1, <3>2, <3>4, <3>6, CellFields
    <3>8. q \in Alive(h) /\ i \in R1 /\ q \in R1 /\ q \notin Tree(h, i)
      <4>1. Shape(h, R1) BY <3>2, <3>3 DEF Tidy, Owned
      <4>2. q \in R1 /\ i \in R1 /\ R1 \subseteq Alive(h) BY <2>2, <3>2, <4>1 DEF Shape
      <4>3. i \in Alive(h) /\ i # q BY <3>6, <4>2
      <4>4. q \notin Tree(h, i) BY <4>1, <4>2, <4>3, RootTree
      <4> QED BY <4>2, <4>4
    <3>9. Relinked(m1, R1 \ {i}, g, m2, Alive(h) \ {q})
      <4>1. PICK a : a = h[q].aux /\ a \in {h[q].aux, nilCell} OBVIOUS
      <4>2. g[q] = Cell("list", h[q].next, a, i) BY <3>6, <4>1
      <4>3. a \in {h[q].aux, nilCell} \/ (a = i /\ h[q].contents = nilCell) BY <4>1
      <4>4. HungFirst(m1, R1, i, q, g, m2)
        <5>1. /\ Tidy(m1, R1) /\ h = m1.heap /\ i \in R1 /\ q \in Alive(h)
              /\ h[q].type = "list" /\ q \notin Tree(h, i) BY <3>2, <3>3, <3>7, <3>8
        <5>2. /\ g \in [Cells -> CellRecords] /\ \A x \in Cells \ {i, q} : g[x] = h[x]
              /\ g[i] = Cell(h[i].type, h[q].contents, h[i].aux, h[i].contents)
              /\ m2 = [m1 EXCEPT !.heap = g] BY <3>5, <3>6, <3>7
        <5> QED BY ONLY <4>2, <4>3, <5>1, <5>2, HangFirst
      <4> QED BY <3>2, <4>4 DEF HungFirst
    <3>10. R1 \ {i} = R0
      <4>1. i \notin R0 BY <1>1, <2>1, <2>2, <3>1
      <4> QED BY <3>2, <4>1
    <3>11. /\ Tidy(m2, R0) /\ m2.heap = g /\ m2.process = "runs"
           /\ Holds(h, g, Alive(h) \ {q}) /\ Alive(g) = Alive(h)
      BY <3>1, <3>2, <3>9, <3>10 DEF Relinked
    <3>12. Owns(Held(ct, <<q>>, fs, ls), R0)
      <4>1. Held(ct, Append(rs, q), fs, ls) = Held(ct, rs, fs, ls) \cup {<<"result", Len(rs) + 1, q>>}
        <5>1. q \in Cells BY <2>1
        <5>2. Pushed(ct, rs, fs, ls, q, Append(rs, q)) BY <1>1, <5>1, HeldResult
        <5> QED BY <5>2 DEF Pushed
      <4>2. q \notin R BY <1>1, <2>1
      <4>3. Owns(Held(ct, rs, fs, ls) \cup {<<"result", Len(rs) + 1, q>>}, (R \cup {q}) \ Permanent)
        BY <1>1, <4>2, OwnsAdd
      <4>4. (R \cup {q}) \ Permanent = R0 BY <1>1, <2>1, <2>2
      <4>5. Append(rs, q) = <<q>> OBVIOUS
      <4> QED BY <4>1, <4>3, <4>4, <4>5
    <3>13. Framed(fs, g)
      <4>1. \A k \in Building(fs) : fs[k].cell \in Alive(m.heap) BY <1>1, FramesAlive
      <4>2. Keeps(m.heap, h, Alive(m.heap)) BY <2>1, <3>1, <3>2, KeepsTwice
      <4>3. Framed(fs, h) BY <1>1, <4>1, <4>2, KeepsHolds, FramedKept
      <4>4. \A k \in Building(fs) : fs[k].cell \in Alive(h) \ {q} BY <2>1, <3>1, <3>2, <4>1
      <4> QED BY <3>11, <4>3, <4>4, FramedKept
    <3>14. Len(<<q>>) = 1 /\ Last(<<q>>) = q BY DEF Last
    <3>15. Stacked(fs, 1)
      <4>1. Len(rs) = 0 OBVIOUS
      <4>2. \A k \in 1..Len(fs) : fs[k].save \in Nat
        <5>1. \A k \in 1..Len(fs) : fs[k] \in Frames BY <1>1, SeqLen
        <5> QED BY <5>1 DEF Frames
      <4>3. \A k \in 1..Len(fs) : fs[k].save <= 0 BY <1>1, <4>1 DEF Stacked
      <4>4. \A k \in 1..Len(fs) : fs[k].save <= 1 BY <4>2, <4>3
      <4> QED BY <1>1, <4>4 DEF Stacked
    <3>16. Valued(g, <<q>>, fs, v)
      <4>1. Alive(m.heap) \subseteq Alive(g) BY <2>1, <3>1, <3>2, <3>11
      <4>2. v # NULL => v \in Alive(m.heap) \cup Permanent BY <1>1 DEF Valued
      <4>3. v # NULL => v # q BY <2>1, <4>2
      <4> QED BY <3>14, <4>1, <4>2, <4>3 DEF Valued, IsLast
    <3>17. Good(m2, ct, <<q>>, fs, ls, v, R0) BY <3>11, <3>12, <3>13, <3>14, <3>15, <3>16 DEF Good
    <3>18. Typed1(m2) BY <3>11, TidyTyped
    <3> QED BY <1>1, <1>2, <2>4, <3>17, <3>18 DEF Sound, Shaped
  <2> QED BY <2>5, <2>6
<1> QED BY <1>5, <1>6

\* A program ends.
LEMMA ProgramStep ==
  ASSUME NEW m, NEW ct, NEW rs, NEW fs, NEW ls, NEW v, NEW R, Ready(m, ct, rs, fs, ls, v, R),
         fs = <<>>, NEW m2, m2 = Cleaned(m, rs, 0)
  PROVE  Sound(m2, ct, <<>>, fs, ls, NULL)
<1>1. /\ ct \in [Syms -> Cells] /\ rs \in Seq(Cells) /\ fs \in Seq(Frames)
      /\ ls \in SUBSET Cells /\ Tidy(m, R) /\ Owns(Held(ct, rs, fs, ls), R) BY ReadyFacts
<1>2. Stack(rs, R) BY <1>1, HeldStack
<1>3. Tidy(m2, R \ Above(rs, 0))
  <2>1. 0 <= Len(rs) BY <1>1
  <2>2. Rest(m, R, rs, 0, m2) BY <1>1, <1>2, <2>1, CleanedTidy
  <2> QED BY <2>2 DEF Rest
<1>4. Owns(Held(ct, <<>>, fs, ls), R \ Above(rs, 0))
  <2>1. PICK u : u = SubSeq(rs, 1, 0) OBVIOUS
  <2>2. u = <<>> BY <1>1, <2>1
  <2>3. Shorter(ct, rs, fs, ls, 0, u)
    <3>1. 0 <= Len(rs) BY <1>1
    <3> QED BY <1>1, <2>1, <3>1, HeldCut
  <2>4. /\ Held(ct, u, fs, ls) = Held(ct, rs, fs, ls) \ ResultsFrom(rs, 0)
        /\ ResultsFrom(rs, 0) \subseteq Held(ct, rs, fs, ls)
        /\ {d[3] : d \in ResultsFrom(rs, 0)} = Above(rs, 0) BY <2>3 DEF Shorter
  <2>5. Owns(Held(ct, rs, fs, ls) \ ResultsFrom(rs, 0),
             R \ {d[3] : d \in ResultsFrom(rs, 0)}) BY <1>1, <2>4, OwnsCut
  <2> QED BY <2>2, <2>4, <2>5
<1>5. Len(fs) = 0 /\ <<>> \in Seq(Cells) /\ NULL \in Cells \cup {NULL} OBVIOUS
<1>6. Good(m2, ct, <<>>, fs, ls, NULL, R \ Above(rs, 0))
  BY <1>3, <1>4, <1>5 DEF Good, Stacked, Framed, Valued
<1>7. Typed1(m2) BY <1>3, TidyTyped
<1> QED BY <1>1, <1>5, <1>6, <1>7 DEF Sound, Shaped

(* Steps: functions begin and end. *)

\* fs2 is fs without the innermost function.
Popped(fs, fs2, n) ==
  /\ fs2 \in Seq(Frames) /\ Last(fs) \in Frames /\ Last(fs).save \in Nat /\ Last(fs).save <= n
  /\ \A h : Framed(fs, h) => Framed(fs2, h)
  /\ Stacked(fs2, n) /\ Stacked(fs2, Last(fs).save)
  /\ fs2 # <<>> => Last(fs2).save \in Nat /\ Last(fs2).save <= Last(fs).save

\* The innermost function ends: the others are as they were.
LEMMA FrontFrames ==
  ASSUME NEW fs \in Seq(Frames), fs # <<>>, NEW n, Stacked(fs, n)
  PROVE  Popped(fs, Front(fs), n)
<1>1. PICK l \in Nat : l = Len(fs) /\ l > 0 /\ Last(fs) = fs[l] BY DEF Last
<1>2. PICK k : k = l - 1 /\ k \in Nat BY <1>1
<1>3. PICK fs2 : fs2 = SubSeq(fs, 1, k) /\ fs2 = Front(fs) BY <1>1, <1>2 DEF Front
<1>4. Outer(fs, k, fs2)
  <2>1. k <= Len(fs) BY <1>1, <1>2
  <2> QED BY <1>2, <1>3, <2>1, Earlier
<1>5. /\ fs2 \in Seq(Frames) /\ Len(fs2) = k /\ \A i \in 1..k : fs2[i] = fs[i] /\ i \in 1..l
      /\ \A h : Framed(fs, h) => Framed(fs2, h)
      /\ Stacked(fs2, n) BY <1>1, <1>4 DEF Outer
<1>6. l \in 1..l /\ fs[l] \in Frames /\ \A i \in 1..l : fs[i] \in Frames BY <1>1, SeqLen
<1>7. fs[l].save \in Nat /\ fs[l].save <= n /\ \A i \in 1..l : fs[i].save \in Nat
  BY <1>1, <1>6 DEF Frames, Stacked
<1>8. \A i \in 1..k : i <= l BY <1>1, <1>2
<1>9. \A i \in 1..k : fs2[i].save <= fs[l].save BY <1>1, <1>5, <1>6, <1>8 DEF Stacked
<1>10. Stacked(fs2, fs[l].save) BY <1>5, <1>9 DEF Stacked
<1>11. ASSUME fs2 # <<>> PROVE Last(fs2).save \in Nat /\ Last(fs2).save <= fs[l].save
  <2>1. k \in 1..k /\ Last(fs2) = fs2[k] BY <1>2, <1>5, <1>11 DEF Last
  <2> QED BY <1>5, <1>7, <1>9, <2>1
<1> QED BY <1>1, <1>3, <1>5, <1>6, <1>7, <1>10, <1>11 DEF Popped

\* An evaluation returns what is in use, and not on top of the result stack.
LEMMA ValueStep ==
  ASSUME NEW m, NEW ct, NEW rs, NEW fs, NEW ls, NEW v, NEW R, Ready(m, ct, rs, fs, ls, v, R),
         NEW v2 \in Alive(m.heap) \cup Permanent, ~IsLast(rs, v2)
  PROVE  Sound(m, ct, rs, fs, ls, v2)
<1>1. Alive(m.heap) \subseteq Cells /\ Permanent \subseteq Cells
  BY ReadyFacts, Special DEF Permanent
<1>2. v2 \in Cells BY <1>1
<1>3. Valued(m.heap, rs, fs, v2) BY DEF Valued
<1>4. Good(m, ct, rs, fs, ls, v2, R) BY <1>3 DEF Ready, Good
<1>5. Typed1(m) BY TidyTyped DEF Ready, Good
<1> QED BY <1>2, <1>4, <1>5 DEF Ready, Sound, Shaped

\* No value is needed any more.
LEMMA NoValueStep ==
  ASSUME NEW m, NEW ct, NEW rs, NEW fs, NEW ls, NEW v, NEW R, Ready(m, ct, rs, fs, ls, v, R)
  PROVE  Sound(m, ct, rs, fs, ls, NULL)
<1>1. NULL \in Cells \cup {NULL} OBVIOUS
<1>2. Good(m, ct, rs, fs, ls, NULL, R) BY DEF Ready, Good, Valued
<1>3. Typed1(m) BY TidyTyped DEF Ready, Good
<1> QED BY <1>1, <1>2, <1>3 DEF Ready, Sound, Shaped

\* An expression is evaluated: what a quote cell has, or what a symbol has.
LEMMA ConstantStep ==
  ASSUME NEW m, NEW ct, NEW rs, NEW fs, NEW ls, NEW v, NEW R, Ready(m, ct, rs, fs, ls, v, R),
         rs # <<>>
  PROVE  Sound(m, ct, rs, fs, ls, m.heap[rs[1]].contents)
<1>1. /\ Shape(m.heap, R) /\ m.heap \in Heaps /\ rs \in Seq(Cells) /\ Owns(Held(ct, rs, fs, ls), R)
      /\ R \subseteq Alive(m.heap) BY ReadyFacts
<1>2. rs[1] \in Cells BY <1>1, SeqLen
<1>3. PICK v2 : v2 = m.heap[rs[1]].contents OBVIOUS
<1>4. v2 = Below(m.heap, rs[1]) BY <1>1, <1>2, <1>3, Fields
<1>5. v2 \in (Alive(m.heap) \ R) \cup {nilCell} BY <1>1, <1>2, <1>4, ShapeFacts
<1>6. v2 \in Alive(m.heap) \cup Permanent /\ v2 \notin R BY <1>1, <1>5 DEF Permanent, Alive
<1>7. ~IsLast(rs, v2) BY <1>1, <1>6, LinkedNotLast
<1> QED BY <1>3, <1>6, <1>7, ValueStep

\* An evaluation returns the cell of a symbol, which is in use.
LEMMA SymbolStep ==
  ASSUME NEW m, NEW ct, NEW rs, NEW fs, NEW ls, NEW v, NEW R, Ready(m, ct, rs, fs, ls, v, R),
         NEW s \in Syms
  PROVE  Sound(m, ct, rs, fs, ls, ct[s])
<1>1. rs \in Seq(Cells) /\ Owns(Held(ct, rs, fs, ls), R) /\ R \subseteq Alive(m.heap)
  BY ReadyFacts
<1>2. ct[s] \in R \cup Permanent /\ ~IsLast(rs, ct[s]) BY <1>1, SymbolOwned
<1>3. ct[s] \in Alive(m.heap) \cup Permanent BY <1>1, <1>2
<1> QED BY <1>2, <1>3, ValueStep

\* The innermost function ends without a new result.
LEMMA LeaveStep ==
  ASSUME NEW m, NEW ct, NEW rs, NEW fs, NEW ls, NEW v, NEW R, Ready(m, ct, rs, fs, ls, v, R),
         fs # <<>>, Last(fs).fn # "list", NEW v2 \in Alive(m.heap) \cup Permanent,
         v2 = v \/ ~IsLast(rs, v2), v # NULL
  PROVE  Sound(m, ct, rs, Front(fs), ls, v2)
<1>1. /\ ct \in [Syms -> Cells] /\ rs \in Seq(Cells) /\ fs \in Seq(Frames)
      /\ ls \in SUBSET Cells /\ Tidy(m, R) /\ Owns(Held(ct, rs, fs, ls), R)
      /\ Stacked(fs, Len(rs)) /\ Framed(fs, m.heap) /\ Valued(m.heap, rs, fs, v)
      /\ Alive(m.heap) \subseteq Cells BY ReadyFacts
<1>2. v2 \in Cells BY <1>1, Special DEF Permanent
<1>3. Popped(fs, Front(fs), Len(rs)) BY <1>1, FrontFrames
<1>4. PICK fs2 : fs2 = Front(fs) OBVIOUS
<1>5. /\ fs2 \in Seq(Frames) /\ Last(fs).save \in Nat /\ Framed(fs2, m.heap)
      /\ Stacked(fs2, Len(rs))
      /\ fs2 # <<>> => Last(fs2).save \in Nat /\ Last(fs2).save <= Last(fs).save
  BY <1>1, <1>3, <1>4 DEF Popped
<1>6. Held(ct, rs, fs2, ls) = Held(ct, rs, fs, ls) BY <1>1, <1>4, HeldPop
<1>7. Valued(m.heap, rs, fs2, v2)
  <2>1. ASSUME IsLast(rs, v2), fs2 # <<>> PROVE Last(fs2).save < Len(rs)
    <3>1. Last(fs).save < Len(rs) BY <1>1, <2>1 DEF Valued
    <3>2. Len(rs) \in Nat BY <1>1
    <3> QED BY <1>5, <2>1, <3>1, <3>2
  <2> QED BY <2>1 DEF Valued
<1>8. Good(m, ct, rs, fs2, ls, v2, R) BY <1>1, <1>5, <1>6, <1>7 DEF Good
<1>9. Typed1(m) BY <1>1, TidyTyped
<1> QED BY <1>1, <1>2, <1>4, <1>5, <1>8, <1>9 DEF Sound, Shaped

\* first returns an element of the list.
LEMMA FirstStep ==
  ASSUME NEW m, NEW ct, NEW rs, NEW fs, NEW ls, NEW v, NEW R, Ready(m, ct, rs, fs, ls, v, R),
         fs # <<>>, Last(fs).fn # "list", v # NULL
  PROVE  Sound(m, ct, rs, Front(fs), ls, m.heap[v].contents)
<1>1. /\ Shape(m.heap, R) /\ m.heap \in Heaps /\ rs \in Seq(Cells) /\ Owns(Held(ct, rs, fs, ls), R)
      /\ R \subseteq Alive(m.heap) /\ v \in Cells \cup {NULL} BY ReadyFacts
<1>2. v \in Cells BY <1>1
<1>3. PICK v2 : v2 = m.heap[v].contents OBVIOUS
<1>4. v2 = Below(m.heap, v) BY <1>1, <1>2, <1>3, Fields
<1>5. v2 \in (Alive(m.heap) \ R) \cup {nilCell} BY <1>1, <1>2, <1>4, ShapeFacts
<1>6. v2 \in Alive(m.heap) \cup Permanent /\ v2 \notin R BY <1>1, <1>5 DEF Permanent, Alive
<1>7. ~IsLast(rs, v2) BY <1>1, <1>6, LinkedNotLast
<1> QED BY <1>3, <1>6, <1>7, LeaveStep

\* A function begins.
LEMMA EnterStep ==
  ASSUME NEW m, NEW ct, NEW rs, NEW fs, NEW ls, NEW v, NEW R, Ready(m, ct, rs, fs, ls, v, R),
         v = NULL, NEW f \in Frames, f.fn # "list", f.save = Len(rs),
         f.fn \in {"set", "push", "append"} => f.sym \in Syms,
         f.fn = "throw" => \E j \in 1..Len(fs) : fs[j].fn = "catch"
  PROVE  Sound(m, ct, rs, Append(fs, f), ls, v)
<1>1. /\ ct \in [Syms -> Cells] /\ rs \in Seq(Cells) /\ fs \in Seq(Frames)
      /\ ls \in SUBSET Cells /\ v \in Cells \cup {NULL}
      /\ Tidy(m, R) /\ Owns(Held(ct, rs, fs, ls), R)
      /\ Stacked(fs, Len(rs)) /\ Framed(fs, m.heap) BY ReadyFacts
<1>2. PICK n \in Nat, w \in Nat : n = Len(fs) /\ w = Len(rs) BY <1>1
<1>3. PICK k, fs2 : k = n + 1 /\ fs2 = Append(fs, f) OBVIOUS
<1>4. fs2 \in Seq(Frames) /\ Len(fs2) = k /\ fs2[k] = f /\ (\A i \in 1..n : fs2[i] = fs[i])
      /\ (\A i \in 1..k : i \in 1..n \/ i = k) /\ k \notin 1..n /\ k - 1 = n
      /\ (\A i \in 1..n : i \in 1..k /\ ~(k <= i) /\ (\A j \in 1..i - 1 : j \in 1..n))
  BY <1>1, <1>2, <1>3
<1>5. Building(fs2) = Building(fs)
  <2>1. \A i : i \in Building(fs2) <=> i \in Building(fs) BY <1>2, <1>4 DEF Building
  <2> QED BY <2>1
<1>6. Held(ct, rs, fs2, ls) = Held(ct, rs, fs, ls)
  <2>1. \A i \in Building(fs) : fs2[i].cell = fs[i].cell BY <1>2, <1>4 DEF Building
  <2> QED BY <1>5, <2>1, HeldSame
<1>7. Framed(fs2, m.heap)
  <2>1. ASSUME NEW i \in 1..k
        PROVE  /\ fs2[i].fn \in {"set", "push", "append"} => fs2[i].sym \in Syms
               /\ fs2[i].fn = "throw" => \E j \in 1..i - 1 : fs2[j].fn = "catch"
               /\ fs2[i].fn = "list" => Opened(m.heap, fs2[i].cell, fs2[i].last)
    <3>1. CASE i \in 1..n BY <1>1, <1>2, <1>4, <3>1 DEF Framed
    <3>2. CASE i = k BY <1>2, <1>4, <3>2
    <3> QED BY <1>4, <3>1, <3>2
  <2> QED BY <1>4, <2>1 DEF Framed
<1>8. Stacked(fs2, w)
  <2>1. \A i \in 1..n : fs[i].save <= w BY <1>1, <1>2 DEF Stacked
  <2>2. \A i \in 1..k : fs2[i].save <= w
    <3>1. ASSUME NEW i \in 1..k PROVE fs2[i].save <= w
      <4>1. CASE i \in 1..n BY <1>4, <2>1, <4>1
      <4>2. CASE i = k BY <1>2, <1>4, <4>2
      <4> QED BY <1>4, <4>1, <4>2
    <3> QED BY <3>1
  <2>3. ASSUME NEW i \in 1..k, NEW j \in 1..k, i <= j PROVE fs2[i].save <= fs2[j].save
    <3>1. CASE j = k BY <1>2, <1>4, <2>2, <3>1
    <3>2. CASE j \in 1..n
      <4>1. i \in 1..n BY <1>4, <2>3, <3>2
      <4>2. fs[i].save <= fs[j].save BY <1>1, <1>2, <2>3, <3>2, <4>1 DEF Stacked
      <4> QED BY <1>4, <3>2, <4>1, <4>2
    <3> QED BY <1>4, <3>1, <3>2
  <2> QED BY <1>4, <2>2, <2>3 DEF Stacked
<1>9. Valued(m.heap, rs, fs2, v) BY DEF Valued
<1>10. Good(m, ct, rs, fs2, ls, v, R) BY <1>1, <1>2, <1>6, <1>7, <1>8, <1>9 DEF Good
<1>11. Typed1(m) BY <1>1, TidyTyped
<1> QED BY <1>1, <1>3, <1>4, <1>10, <1>11 DEF Sound, Shaped

(* Steps: list. *)

\* fs2 is fs with a function more.
Entered(fs, f, fs2, w) ==
  /\ fs2 \in Seq(Frames) /\ Stacked(fs2, w)
  /\ \A h : Framed(fs, h) /\ (f.fn = "list" => Opened(h, f.cell, f.last)) => Framed(fs2, h)

\* A function begins: those that wait are as they were.
LEMMA AppendFrame ==
  ASSUME NEW fs \in Seq(Frames), NEW w \in Nat, Stacked(fs, w), NEW f \in Frames, f.save = w,
         f.fn \in {"set", "push", "append"} => f.sym \in Syms, f.fn # "throw"
  PROVE  Entered(fs, f, Append(fs, f), w)
<1>1. PICK n \in Nat : n = Len(fs) OBVIOUS
<1>2. PICK k, fs2 : k = n + 1 /\ fs2 = Append(fs, f) OBVIOUS
<1>3. fs2 \in Seq(Frames) /\ Len(fs2) = k /\ fs2[k] = f /\ (\A i \in 1..n : fs2[i] = fs[i])
      /\ (\A i \in 1..k : i \in 1..n \/ i = k) /\ k \notin 1..n
      /\ (\A i \in 1..n : i \in 1..k /\ ~(k <= i) /\ (\A j \in 1..i - 1 : j \in 1..n))
  BY <1>1, <1>2
<1>4. ASSUME NEW h, Framed(fs, h), f.fn = "list" => Opened(h, f.cell, f.last)
      PROVE Framed(fs2, h)
  <2>1. ASSUME NEW i \in 1..k
        PROVE  /\ fs2[i].fn \in {"set", "push", "append"} => fs2[i].sym \in Syms
               /\ fs2[i].fn = "throw" => \E j \in 1..i - 1 : fs2[j].fn = "catch"
               /\ fs2[i].fn = "list" => Opened(h, fs2[i].cell, fs2[i].last)
    <3>1. CASE i \in 1..n BY <1>1, <1>3, <1>4, <3>1 DEF Framed
    <3>2. CASE i = k BY <1>3, <1>4, <3>2
    <3> QED BY <1>3, <3>1, <3>2
  <2> QED BY <1>3, <2>1 DEF Framed
<1>5. Stacked(fs2, w)
  <2>1. \A i \in 1..n : fs[i].save <= w BY <1>1 DEF Stacked
  <2>2. \A i \in 1..k : fs2[i].save <= w
    <3>1. ASSUME NEW i \in 1..k PROVE fs2[i].save <= w
      <4>1. CASE i \in 1..n BY <1>3, <2>1, <4>1
      <4>2. CASE i = k BY <1>3, <4>2
      <4> QED BY <1>3, <4>1, <4>2
    <3> QED BY <3>1
  <2>3. ASSUME NEW i \in 1..k, NEW j \in 1..k, i <= j PROVE fs2[i].save <= fs2[j].save
    <3>1. CASE j = k BY <1>3, <2>2, <3>1
    <3>2. CASE j \in 1..n
      <4>1. i \in 1..n BY <1>3, <2>3, <3>2
      <4>2. fs[i].save <= fs[j].save BY <1>1, <2>3, <3>2, <4>1 DEF Stacked
      <4> QED BY <1>3, <3>2, <4>1, <4>2
    <3> QED BY <1>3, <3>1, <3>2
  <2> QED BY <1>3, <2>2, <2>3 DEF Stacked
<1> QED BY <1>2, <1>3, <1>4, <1>5 DEF Entered

\* The function list begins: it has an empty list.
LEMMA CallListStep ==
  ASSUME NEW m, NEW ct, NEW rs, NEW fs, NEW ls, NEW v, NEW R, Ready(m, ct, rs, fs, ls, v, R),
         v = NULL, NEW new, new = GetCell(m, "list", nilCell), NEW f,
         f = [fn |-> "list", sym |-> "", cell |-> new.cell, last |-> nilCell, save |-> Len(rs)],
         NEW m2, m2 = new.mem
  PROVE  Sound(m2, ct, rs, Append(fs, f), ls, v)
<1>1. /\ ct \in [Syms -> Cells] /\ rs \in Seq(Cells) /\ fs \in Seq(Frames)
      /\ ls \in SUBSET Cells /\ v \in Cells \cup {NULL}
      /\ Tidy(m, R) /\ Owns(Held(ct, rs, fs, ls), R)
      /\ Stacked(fs, Len(rs)) /\ Framed(fs, m.heap)
      /\ m.process = "runs" /\ R \subseteq Alive(m.heap) /\ Alive(m.heap) \subseteq Cells
      /\ Alive(m.heap) \cap Permanent = {} BY ReadyFacts
<1>2. PICK w, c : w = Len(rs) /\ c = new.cell /\ w \in Nat
  <2>1. PICK w : w = Len(rs) OBVIOUS
  <2>2. rs \in Seq(Cells) BY <1>1
  <2>3. w \in Nat BY ONLY <2>1, <2>2
  <2> QED BY <2>1, <2>3
<1>3. Got(m, R, "list", nilCell, new) BY <1>1, GetTidy
<1>4. c \in Cells /\ nilCell \in Cells /\ nilCell \in Permanent
  BY <1>2, <1>3, Special DEF Got, Permanent
<1>5. f.fn = "list" /\ f.sym = "" /\ f.cell = c /\ f.last = nilCell /\ f.save = w BY <1>2
<1>6. f \in Frames BY <1>2, <1>4 DEF Frames, Functions
<1>7. Entered(fs, f, Append(fs, f), w) BY <1>1, <1>2, <1>5, <1>6, AppendFrame
<1>8. PICK fs2 : fs2 = Append(fs, f) OBVIOUS
<1>9. /\ fs2 \in Seq(Frames) /\ Stacked(fs2, w)
      /\ \A h : Framed(fs, h) /\ Opened(h, c, nilCell) => Framed(fs2, h)
  BY <1>5, <1>7, <1>8 DEF Entered
<1>10. CASE m2.process = "exited"
  <2>1. Tidy(m2, R) BY <1>1, <1>3, <1>10 DEF Got
  <2>2. Typed1(m2) BY <2>1, TidyTyped
  <2> QED BY <1>1, <1>8, <1>9, <1>10, <2>2 DEF Sound, Shaped
<1>11. CASE m2.process # "exited"
  <2>1. /\ m2.process = "runs" /\ c \in Cells \ (Alive(m.heap) \cup Permanent)
        /\ Tidy(m2, (R \ {nilCell}) \cup {c}) /\ Keeps(m.heap, m2.heap, Alive(m.heap))
        /\ Alive(m2.heap) = Alive(m.heap) \cup {c}
        /\ m2.heap[c] = Cell("list", nilCell, nilCell, nilCell) BY <1>1, <1>2, <1>3, <1>11 DEF Got
  <2>2. PICK R2 : R2 = R \cup {c} OBVIOUS
  <2>3. (R \ {nilCell}) \cup {c} = R2 /\ (R \cup {c}) \ Permanent = R2 /\ c \notin R
    BY <1>1, <1>4, <2>1, <2>2
  <2>4. Owns(Held(ct, rs, fs2, ls), R2)
    <3>1. Owns(Held(ct, rs, Append(fs, f), ls), (R \cup {c}) \ Permanent)
      BY <1>1, <1>5, <2>3, HeldList
    <3> QED BY <1>8, <2>3, <3>1
  <2>5. Framed(fs, m2.heap)
    <3>1. \A k \in Building(fs) : fs[k].cell \in Alive(m.heap) BY <1>1, FramesAlive
    <3> QED BY <1>1, <2>1, <3>1, KeepsHolds, FramedKept
  <2>6. Opened(m2.heap, c, nilCell)
    <3>1. c \in Alive(m2.heap) BY <2>1
    <3>2. m2.heap[c].type = "list" /\ m2.heap[c].aux = nilCell /\ m2.heap[c].contents = nilCell
      <4>1. m2.heap[c] = Cell("list", nilCell, nilCell, nilCell) BY <2>1
      <4> QED BY ONLY <4>1 DEF Cell
    <3> QED BY <3>1, <3>2 DEF Opened, Below
  <2>7. Framed(fs2, m2.heap) BY <1>9, <2>5, <2>6
  <2>8. Tidy(m2, R2) BY <2>1, <2>3
  <2>9. Valued(m2.heap, rs, fs2, v) BY DEF Valued
  <2>10. Good(m2, ct, rs, fs2, ls, v, R2) BY <1>2, <1>9, <2>4, <2>7, <2>8, <2>9 DEF Good
  <2>11. Typed1(m2) BY <2>8, TidyTyped
  <2> QED BY <1>1, <1>8, <1>9, <2>10, <2>11 DEF Sound, Shaped
<1> QED BY <1>10, <1>11

\* It ends: its list is the result.
LEMMA ListEndsStep ==
  ASSUME NEW m, NEW ct, NEW rs, NEW fs, NEW ls, NEW v, NEW R, Ready(m, ct, rs, fs, ls, v, R),
         fs # <<>>, NEW f, f = Last(fs), f.fn = "list",
         NEW m2, m2 = Cleaned(m, rs, f.save),
         NEW rs2, rs2 = Append(SubSeq(rs, 1, f.save), f.cell)
  PROVE  Sound(m2, ct, rs2, Front(fs), ls, f.cell)
<1>1. /\ ct \in [Syms -> Cells] /\ rs \in Seq(Cells) /\ fs \in Seq(Frames)
      /\ ls \in SUBSET Cells /\ Tidy(m, R) /\ Owns(Held(ct, rs, fs, ls), R)
      /\ Stacked(fs, Len(rs)) /\ Framed(fs, m.heap) BY ReadyFacts
<1>2. PICK c, n : c = f.cell /\ n = f.save OBVIOUS
<1>3. Popped(fs, Front(fs), Len(rs)) BY <1>1, FrontFrames
<1>4. PICK fs2 : fs2 = Front(fs) OBVIOUS
<1>5. /\ fs2 \in Seq(Frames) /\ n \in Nat /\ n <= Len(rs) /\ Framed(fs2, m.heap)
      /\ Stacked(fs2, n) BY <1>1, <1>2, <1>3, <1>4 DEF Popped
<1>6. Owns(Held(ct, rs, fs2, ls), R \ {c})
  <2>1. Owns(Held(ct, rs, Front(fs), ls), R \ {Last(fs).cell}) BY <1>1, HeldDone
  <2> QED BY <1>2, <1>4, <2>1
<1>7. c \in R
  <2>1. PICK k \in 1..Len(fs) : fs[k] = f
    <3>1. PICK l \in Nat : l = Len(fs) /\ l > 0 /\ Last(fs) = fs[l] BY <1>1 DEF Last
    <3>2. l \in 1..Len(fs) BY <3>1
    <3> QED BY <3>1, <3>2
  <2>2. k \in Building(fs) BY <2>1 DEF Building
  <2> QED BY <1>1, <1>2, <2>1, <2>2, FramesOwned
<1>8. Sound(m2, ct, rs2, fs2, ls, c)
  <2>1. c \in R \cup Permanent BY <1>7
  <2>2. m2 = Cleaned(m, rs, n) /\ rs2 = Append(SubSeq(rs, 1, n), c) BY <1>2
  <2> QED BY ONLY <1>1, <1>5, <1>6, <2>1, <2>2, PushGood
<1> QED BY <1>2, <1>4, <1>8

(* Steps: an element of a list. *)

\* The results above the first n are deleted, and none is pushed.
CutTo(m, ct, fs, ls, R2, m2, u) ==
  /\ Tidy(m2, R2) /\ Owns(Held(ct, u, fs, ls), R2) /\ Keeps(m.heap, m2.heap, Alive(m2.heap))
  /\ m2.process = m.process /\ u \in Seq(Cells)

\* cleanupResults deletes the results above n, and those only.
LEMMA CutTidy ==
  ASSUME NEW m, NEW R, Tidy(m, R), NEW ct, NEW rs \in Seq(Cells), NEW fs, NEW ls,
         Owns(Held(ct, rs, fs, ls), R), NEW n \in Nat, n <= Len(rs),
         NEW m2, m2 = Cleaned(m, rs, n)
  PROVE  CutTo(m, ct, fs, ls, R \ Above(rs, n), m2, SubSeq(rs, 1, n))
<1>1. Stack(rs, R) BY HeldStack
<1>2. /\ Tidy(m2, R \ Above(rs, n)) /\ m2.process = m.process
      /\ Keeps(m.heap, m2.heap, Alive(m2.heap))
  <2>1. Rest(m, R, rs, n, m2) BY <1>1, CleanedTidy
  <2> QED BY <2>1 DEF Rest
<1>3. PICK u : u = SubSeq(rs, 1, n) OBVIOUS
<1>4. /\ Held(ct, u, fs, ls) = Held(ct, rs, fs, ls) \ ResultsFrom(rs, n)
      /\ ResultsFrom(rs, n) \subseteq Held(ct, rs, fs, ls)
      /\ {d[3] : d \in ResultsFrom(rs, n)} = Above(rs, n)
      /\ u \in Seq(Cells)
  <2>1. Shorter(ct, rs, fs, ls, n, u) BY <1>3, HeldCut
  <2> QED BY <2>1 DEF Shorter
<1>5. Owns(Held(ct, rs, fs, ls) \ ResultsFrom(rs, n), R \ {d[3] : d \in ResultsFrom(rs, n)})
  BY <1>4, OwnsCut
<1> QED BY <1>2, <1>3, <1>4, <1>5 DEF CutTo

\* The cell z that nobody owns becomes the last element of the list in c.
Extended(m, R, c, z, last, m2) ==
  \E g : Relinked(m, R, g, m2, Alive(m.heap) \ {c}) /\ Opened(g, c, z)

Extend(m, c, last, z) ==
  IF last = nilCell THEN [m EXCEPT !.heap[c].contents = z] ELSE [m EXCEPT !.heap[last].next = z]

\* p_list links a cell nobody owns behind the last one of its list.
LEMMA ExtendTidy ==
  ASSUME NEW m, NEW R, NEW z \in Cells, Tidy(m, R \cup {z}), z \notin R,
         NEW c \in R, NEW last \in Cells, Opened(m.heap, c, last),
         NEW m2, m2 = Extend(m, c, last, z)
  PROVE  Extended(m, R, c, z, last, m2)
<1>1. PICK h, R1 : h = m.heap /\ R1 = R \cup {z} OBVIOUS
<1>2. /\ Shape(h, R1) /\ h \in Heaps /\ R1 \subseteq Alive(h) /\ Alive(h) \subseteq Cells
      /\ Ranked(h) /\ Treelike(h) /\ nilCell \notin Alive(h) /\ Typed1(m) /\ Tidy(m, R1)
  BY <1>1, ShapeFacts, TidyTyped DEF Tidy, Owned
<1>3. /\ z \in R1 /\ c \in R1 /\ z # c /\ z \in Alive(h) /\ c \in Alive(h) /\ c \in Cells
      /\ z # nilCell /\ c # nilCell BY <1>1, <1>2
<1>4. /\ h[c].type = "list" /\ h[c].aux = nilCell
      /\ IF last = nilCell THEN Below(h, c) = nilCell ELSE EndOf(h, c, last) BY <1>1 DEF Opened
<1>5. R1 \ {z} = R BY <1>1
<1>6. h \in [Cells -> CellRecords] BY <1>1, <1>2, HeapTyped
<1>7. \A x \in Cells : h[x] = Cell(h[x].type, h[x].next, h[x].aux, h[x].contents)
  <2>1. ASSUME NEW x \in Cells PROVE h[x] = Cell(h[x].type, h[x].next, h[x].aux, h[x].contents)
    <3>1. h[x] \in CellRecords BY <1>6
    <3> QED BY ONLY <3>1 DEF CellRecords, Cell
  <2> QED BY <2>1
<1>8. z \notin Tree(h, c) /\ c \notin Tree(h, z) BY <1>2, <1>3, RootTree
<1>9. CASE last = nilCell
  <2>1. m2 = [m EXCEPT !.heap[c].contents = z] BY <1>9 DEF Extend
  <2>2. Sets(m, c, Cell(h[c].type, h[c].next, h[c].aux, z), m2)
    BY <1>1, <1>2, <1>3, <2>1, WriteContentsOf
  <2>3. PICK g : /\ Written(h, c, Cell(h[c].type, h[c].next, h[c].aux, z), g)
                 /\ m2 = [m EXCEPT !.heap = g] BY <1>1, <2>2 DEF Sets
  <2>4. h[c].contents = nilCell BY <1>3, <1>4, <1>9 DEF Below
  <2>5. h[z].next = nilCell
    <3>1. After(h, z) = nilCell BY <1>2, <1>3, ShapeFacts
    <3> QED BY <1>2, <1>3, <3>1, Fields
  <2>6. PICK a : a = h[c].aux OBVIOUS
  <2>7. a \in {h[c].aux, nilCell} \/ (a = z /\ h[c].contents = nilCell) BY <2>6
  <2>8. /\ g \in [Cells -> CellRecords] /\ \A x \in Cells \ {z, c} : g[x] = h[x]
        /\ g[z] = Cell(h[z].type, h[c].contents, h[z].aux, h[z].contents)
        /\ g[c] = Cell("list", h[c].next, a, z)
    BY <1>3, <1>4, <1>7, <2>3, <2>4, <2>5, <2>6 DEF Written
  <2>9. HungFirst(m, R1, z, c, g, m2)
    BY ONLY <1>1, <1>2, <1>3, <1>4, <1>8, <2>3, <2>7, <2>8, HangFirst
  <2>10. Relinked(m, R, g, m2, Alive(h) \ {c}) /\ EndOf(g, c, z)
    BY <1>1, <1>5, <2>4, <2>9 DEF HungFirst
  <2>11. c \in Alive(g) BY <1>1, <1>3, <2>10 DEF Relinked
  <2>12. g[c].type = "list" /\ g[c].aux = nilCell BY <1>4, <2>6, <2>8, CellFields
  <2>13. Opened(g, c, z) BY <1>3, <2>10, <2>11, <2>12 DEF Opened
  <2> QED BY <1>1, <2>10, <2>13 DEF Extended
<1>10. CASE last # nilCell
  <2>1. m2 = [m EXCEPT !.heap[last].next = z] BY <1>10 DEF Extend
  <2>2. PICK p \in Cells : p = last OBVIOUS
  <2>3. Sets(m, p, Cell(h[p].type, z, h[p].aux, h[p].contents), m2)
    BY <1>1, <1>2, <2>1, <2>2, WriteNextOf
  <2>4. PICK g : /\ Written(h, p, Cell(h[p].type, z, h[p].aux, h[p].contents), g)
                 /\ m2 = [m EXCEPT !.heap = g] BY <1>1, <2>3 DEF Sets
  <2>5. EndOf(h, c, p) /\ p \in List(h, Below(h, c)) BY <1>4, <1>10, <2>2 DEF EndOf
  <2>6. p \in Alive(h) \ R1 /\ p # c BY <1>2, <1>3, <2>5, ListAlive
  <2>7. p \notin Tree(h, z)
    <3>1. Below(h, c) \in Cells BY <1>2, <1>3, KidsType
    <3>2. p \in Tree(h, Below(h, c)) BY <1>2, <2>5, <3>1, ListInTree
    <3>3. p \in Tree(h, c) BY <1>2, <1>3, <3>2, TreeParts
    <3>4. Tree(h, c) \cap Tree(h, z) = {} BY <1>2, <1>3, TreesApart
    <3> QED BY <3>3, <3>4
  <2>8. PICK a : a = h[c].aux /\ a \in {nilCell, z} BY <1>4
  <2>9. /\ g \in [Cells -> CellRecords] /\ \A x \in Cells \ {c, p} : g[x] = h[x]
        /\ g[p] = Cell(h[p].type, z, h[p].aux, h[p].contents)
        /\ g[c] = Cell("list", h[c].next, a, h[c].contents)
    BY <1>3, <1>4, <1>7, <2>4, <2>6, <2>8 DEF Written
  <2>10. HungNext(m, R1, z, c, p, g, m2)
    BY ONLY <1>1, <1>2, <1>3, <1>4, <2>2, <2>4, <2>5, <2>7, <2>8, <2>9, HangNext
  <2>11. Relinked(m, R, g, m2, Alive(h) \ {c}) /\ EndOf(g, c, z) BY <1>1, <1>5, <2>10 DEF HungNext
  <2>12. c \in Alive(g) BY <1>1, <1>3, <2>11 DEF Relinked
  <2>13. g[c].type = "list" /\ g[c].aux = nilCell BY <1>4, <2>8, <2>9, CellFields
  <2>14. Opened(g, c, z) BY <1>3, <2>11, <2>12, <2>13 DEF Opened
  <2> QED BY <1>1, <2>11, <2>14 DEF Extended
<1> QED BY <1>9, <1>10

\* Without an element nothing changes.
LEMMA ExtendNone ==
  ASSUME NEW m, NEW R, Tidy(m, R), NEW c \in Alive(m.heap), NEW last \in Cells,
         Opened(m.heap, c, last)
  PROVE  Extend(m, c, last, nilCell) = m
<1>1. PICK h, bs, fr, pr : h = m.heap /\ bs = m.blocks /\ fr = m.free /\ pr = m.process OBVIOUS
<1>2. m = [heap |-> h, free |-> fr, blocks |-> bs, process |-> pr] BY <1>1 DEF Tidy, Memories
<1>3. /\ Shape(h, R) /\ h \in Heaps /\ c \in Cells /\ h \in [Cells -> CellRecords]
  BY <1>1, ShapeFacts, TidyTyped, HeapTyped DEF Tidy, Owned
<1>4. CASE last = nilCell
  <2>1. h[c].contents = nilCell BY <1>1, <1>4 DEF Opened, Below
  <2>2. PICK t, n, a : h[c] = [type |-> t, next |-> n, aux |-> a, contents |-> nilCell]
    <3>1. h[c] \in CellRecords BY <1>3
    <3> QED BY ONLY <2>1, <3>1 DEF CellRecords
  <2>3. [h EXCEPT ![c].contents = nilCell] = h BY ONLY <1>3, <2>2
  <2>4. [m EXCEPT !.heap[c].contents = nilCell]
        = [heap |-> [h EXCEPT ![c].contents = nilCell], free |-> fr, blocks |-> bs, process |-> pr]
    BY ONLY <1>2
  <2> QED BY <1>2, <1>4, <2>3, <2>4 DEF Extend
<1>5. CASE last # nilCell
  <2>1. PICK p \in Cells : p = last OBVIOUS
  <2>2. After(h, p) = nilCell /\ p \in List(h, Below(h, c)) BY <1>1, <1>5, <2>1 DEF Opened, EndOf
  <2>3. p \in Alive(h) BY <1>3, <2>2, ListAlive
  <2>4. h[p].next = nilCell BY <1>3, <2>2, <2>3, Fields
  <2>5. PICK t, a, e : h[p] = [type |-> t, next |-> nilCell, aux |-> a, contents |-> e]
    <3>1. h[p] \in CellRecords BY <1>3
    <3> QED BY ONLY <2>4, <3>1 DEF CellRecords
  <2>6. [h EXCEPT ![p].next = nilCell] = h BY ONLY <1>3, <2>1, <2>5
  <2>7. [m EXCEPT !.heap[p].next = nilCell]
        = [heap |-> [h EXCEPT ![p].next = nilCell], free |-> fr, blocks |-> bs, process |-> pr]
    BY ONLY <1>2
  <2> QED BY <1>2, <1>5, <2>1, <2>6, <2>7 DEF Extend
<1> QED BY <1>4, <1>5

\* The innermost function, which builds a list, has another last cell.
Retailed(fs, fs2, z, c) ==
  /\ fs2 \in Seq(Frames) /\ Building(fs2) = Building(fs)
  /\ \A k \in Building(fs) : fs2[k].cell = fs[k].cell
  /\ \A n : Stacked(fs, n) => Stacked(fs2, Last(fs).save)
  /\ \A h, g : /\ Framed(fs, h) /\ Opened(g, c, z)
               /\ \A k \in Building(fs) : fs[k].cell = c => k = Len(fs)
               /\ \A k \in Building(fs) : fs[k].cell # c /\ Opened(h, fs[k].cell, fs[k].last)
                                          => Opened(g, fs[k].cell, fs[k].last)
               => Framed(fs2, g)

\* Nothing about the functions changes but the last cell of the innermost list.
LEMMA Retail ==
  ASSUME NEW fs \in Seq(Frames), fs # <<>>, Last(fs).fn = "list", NEW z \in Cells,
         NEW c, c = Last(fs).cell, NEW fs2, fs2 = [fs EXCEPT ![Len(fs)].last = z]
  PROVE  Retailed(fs, fs2, z, c)
<1>1. PICK l \in Nat : l = Len(fs) /\ l \in 1..l /\ Last(fs) = fs[l] BY DEF Last
<1>2. PICK f, f2 : f = fs[l] /\ f2 = [f EXCEPT !.last = z] OBVIOUS
<1>3. f \in Frames BY <1>1, <1>2, SeqLen
<1>4. /\ f2 \in Frames /\ f2.fn = f.fn /\ f2.sym = f.sym /\ f2.cell = f.cell /\ f2.save = f.save
      /\ f2.last = z
  <2>1. PICK fn, sym, cell, old, save :
             f = [fn |-> fn, sym |-> sym, cell |-> cell, last |-> old, save |-> save]
             /\ fn \in Functions /\ sym \in Syms \cup {""} /\ cell \in Cells /\ save \in Nat
    BY ONLY <1>3 DEF Frames
  <2>0. f2 = [f EXCEPT !.last = z] BY <1>2
  <2>2. f2 = [fn |-> fn, sym |-> sym, cell |-> cell, last |-> z, save |-> save] BY ONLY <2>0, <2>1
  <2>3. f2 \in Frames BY ONLY <2>1, <2>2, z \in Cells DEF Frames
  <2> QED BY ONLY <2>1, <2>2, <2>3
<1>5. fs2 = [fs EXCEPT ![l] = f2] BY <1>1, <1>2
<1>6. /\ fs2 \in Seq(Frames) /\ Len(fs2) = l /\ fs2[l] = f2
      /\ \A k \in 1..l : k # l => fs2[k] = fs[k] BY ONLY <1>1, <1>4, <1>5, fs \in Seq(Frames)
<1>7. \A k \in 1..l : /\ fs2[k].fn = fs[k].fn /\ fs2[k].sym = fs[k].sym
                      /\ fs2[k].cell = fs[k].cell /\ fs2[k].save = fs[k].save BY <1>2, <1>4, <1>6
<1>8. Building(fs2) = Building(fs)
  <2>1. \A k : k \in Building(fs2) <=> k \in Building(fs) BY <1>1, <1>6, <1>7 DEF Building
  <2> QED BY <2>1
<1>9. \A k \in Building(fs) : fs2[k].cell = fs[k].cell BY <1>1, <1>7 DEF Building
<1>10. ASSUME NEW n, Stacked(fs, n) PROVE Stacked(fs2, Last(fs).save)
  <2>1. \A k \in 1..l : k <= l BY <1>1
  <2>2. \A k \in 1..l : fs[k].save <= fs[l].save BY <1>1, <1>10, <2>1 DEF Stacked
  <2>3. \A j, k \in 1..l : j <= k => fs[j].save <= fs[k].save BY <1>1, <1>10 DEF Stacked
  <2> QED BY <1>1, <1>6, <1>7, <2>2, <2>3 DEF Stacked
<1>11. ASSUME NEW h, NEW g, Framed(fs, h), Opened(g, c, z),
              \A k \in Building(fs) : fs[k].cell = c => k = Len(fs),
              \A k \in Building(fs) : fs[k].cell # c /\ Opened(h, fs[k].cell, fs[k].last)
                                      => Opened(g, fs[k].cell, fs[k].last)
       PROVE  Framed(fs2, g)
  <2>1. ASSUME NEW k \in 1..l
        PROVE  /\ fs2[k].fn \in {"set", "push", "append"} => fs2[k].sym \in Syms
               /\ fs2[k].fn = "throw" => \E j \in 1..k - 1 : fs2[j].fn = "catch"
               /\ fs2[k].fn = "list" => Opened(g, fs2[k].cell, fs2[k].last)
    <3>1. fs2[k].fn \in {"set", "push", "append"} => fs2[k].sym \in Syms
      BY <1>1, <1>7, <1>11 DEF Framed
    <3>2. ASSUME fs2[k].fn = "throw" PROVE \E j \in 1..k - 1 : fs2[j].fn = "catch"
      <4>1. PICK j \in 1..k - 1 : fs[j].fn = "catch" BY <1>1, <1>7, <1>11, <3>2 DEF Framed
      <4>2. j \in 1..l BY <1>1
      <4> QED BY <1>7, <4>1, <4>2
    <3>3. ASSUME fs2[k].fn = "list" PROVE Opened(g, fs2[k].cell, fs2[k].last)
      <4>1. k \in Building(fs) /\ Opened(h, fs[k].cell, fs[k].last)
        BY <1>1, <1>7, <1>11, <3>3 DEF Building, Framed
      <4>2. CASE k = l BY <1>1, <1>2, <1>4, <1>6, <1>11, <4>2
      <4>3. CASE k # l
        <5>1. fs[k].cell # c BY <1>1, <1>11, <4>1, <4>3
        <5> QED BY <1>6, <1>11, <4>1, <4>3, <5>1
      <4> QED BY <4>2, <4>3
    <3> QED BY <3>1, <3>2, <3>3
  <2> QED BY <1>6, <2>1 DEF Framed
<1> QED BY <1>6, <1>8, <1>9, <1>10, <1>11 DEF Retailed

\* A cell is under construction in one function.
LEMMA OneBuilder ==
  ASSUME NEW ct, NEW rs, NEW fs, NEW ls, NEW R, Owns(Held(ct, rs, fs, ls), R),
         NEW j \in Building(fs), NEW k \in Building(fs), fs[j].cell = fs[k].cell,
         fs[j].cell \notin Permanent
  PROVE  j = k
<1>1. PICK p, q : p = <<"list", j, fs[j].cell>> /\ q = <<"list", k, fs[k].cell>> OBVIOUS
<1>2. p[3] = fs[j].cell /\ q[3] = fs[k].cell /\ p[2] = j /\ q[2] = k BY <1>1
<1>3. p \in Held(ct, rs, fs, ls) /\ q \in Held(ct, rs, fs, ls) BY <1>1, HeldIn
<1>4. p = q BY <1>2, <1>3 DEF Owns
<1> QED BY <1>2, <1>4

\* What is on top of the stack when a function takes its value came after the function's start.
LEMMA TakenLength ==
  ASSUME NEW rs \in Seq(Cells), NEW u, NEW v, NEW n \in Nat, n <= Len(rs),
         \/ u = rs
         \/ u = Front(rs) /\ IsLast(rs, v),
         IsLast(rs, v) => n < Len(rs)
  PROVE  u \in Seq(Cells) /\ n <= Len(u)
<1>1. CASE u = rs BY <1>1
<1>2. CASE u = Front(rs) /\ IsLast(rs, v)
  <2>1. PICK l \in Nat : l = Len(rs) /\ n < l BY <1>2
  <2>2. PICK k : k = l - 1 /\ k \in Nat BY <2>1
  <2>3. u = SubSeq(rs, 1, k) BY <1>2, <2>1, <2>2 DEF Front
  <2>4. u \in Seq(Cells) /\ Len(u) = k BY <2>1, <2>2, <2>3
  <2> QED BY <2>1, <2>2, <2>4
<1> QED BY <1>1, <1>2

\* p_list appends a copy of the value.
LEMMA ItemStep ==
  ASSUME NEW m, NEW ct, NEW rs, NEW fs, NEW ls, NEW v, NEW R, Ready(m, ct, rs, fs, ls, v, R),
         fs # <<>>, v # NULL, NEW f, f = Last(fs), f.fn = "list",
         NEW new, new = Taking(m, rs, v),
         NEW m2, m2 = Cleaned(Extend(new.mem, f.cell, f.last, new.cell), new.results, f.save),
         NEW rs2, rs2 = SubSeq(new.results, 1, f.save),
         NEW fs2, fs2 = [fs EXCEPT ![Len(fs)].last = new.cell]
  PROVE  Sound(m2, ct, rs2, fs2, ls, NULL)
<1>1. /\ ct \in [Syms -> Cells] /\ rs \in Seq(Cells) /\ fs \in Seq(Frames)
      /\ ls \in SUBSET Cells /\ Tidy(m, R) /\ Owns(Held(ct, rs, fs, ls), R)
      /\ Stacked(fs, Len(rs)) /\ Framed(fs, m.heap) /\ Valued(m.heap, rs, fs, v)
      /\ m.process = "runs" BY ReadyFacts
<1>2. PICK c, last, n, z, u, m1 : /\ c = f.cell /\ last = f.last /\ n = f.save /\ z = new.cell
                                  /\ u = new.results /\ m1 = new.mem OBVIOUS
<1>3. PICK l \in Nat : l = Len(fs) /\ l \in 1..l /\ fs[l] = f
  <2>1. PICK l \in Nat : l = Len(fs) /\ l > 0 /\ Last(fs) = fs[l] BY <1>1 DEF Last
  <2> QED BY <2>1
<1>4. l \in Building(fs) BY <1>3 DEF Building
<1>5. /\ Opened(m.heap, c, last) /\ c \in Alive(m.heap) /\ last \in Cells /\ n \in Nat
      /\ n <= Len(rs) /\ c \notin Permanent
  <2>1. f \in Frames BY <1>1, <1>3, SeqLen
  <2>2. Opened(m.heap, c, last) BY <1>1, <1>2, <1>3, <1>4 DEF Framed, Building
  <2>3. n <= Len(rs) BY <1>1, <1>2, <1>3 DEF Stacked
  <2> QED BY <1>2, <2>1, <2>2, <2>3 DEF Frames, Opened, Alive
<1>6. v \in Alive(m.heap) \cup Permanent /\ (IsLast(rs, v) => n < Len(rs))
  BY <1>1, <1>2 DEF Valued
<1>7. PICK R1 : Offered(m, ct, rs, fs, ls, R1, v, new)
  <2>1. Offers(m, ct, rs, fs, ls, v, new) BY <1>1, <1>6, TakingTidy
  <2> QED BY <2>1 DEF Offers
<1>8. /\ Owns(Held(ct, u, fs, ls), R1) /\ Keeps(m.heap, m1.heap, Alive(m.heap))
      /\ u \in Seq(Cells) /\ n <= Len(u)
  <2>1. /\ Owns(Held(ct, u, fs, ls), R1) /\ Keeps(m.heap, m1.heap, Alive(m.heap))
        /\ \/ u = rs
           \/ u = Front(rs) /\ IsLast(rs, v) BY <1>2, <1>7 DEF Offered
  <2>2. u \in Seq(Cells) /\ n <= Len(u) BY <1>1, <1>5, <1>6, <2>1, TakenLength
  <2> QED BY <2>1, <2>2
<1>9. c \in R1 /\ Opened(m1.heap, c, last)
  <2>1. Holds(m.heap, m1.heap, Alive(m.heap)) BY <1>8, KeepsHolds
  <2> QED BY <1>1, <1>2, <1>3, <1>4, <1>5, <1>8, <2>1, FramesOwned DEF Opened, Holds
<1>10. z \in Cells BY <1>2, <1>7, Special DEF Offered
<1>11. Retailed(fs, fs2, z, c) BY <1>1, <1>2, <1>10, Retail
<1>12. fs2 \in Seq(Frames) /\ Stacked(fs2, n) BY <1>1, <1>2, <1>11 DEF Retailed
<1>13. PICK m3 : m3 = Extend(m1, c, last, z) OBVIOUS
<1>14. m2 = Cleaned(m3, u, n) /\ rs2 = SubSeq(u, 1, n) BY <1>2, <1>13
<1>15. CASE m1.process = "exited"
  <2>1. z = nilCell /\ \E A : Tidy(m1, R1 \cup A) BY <1>1, <1>2, <1>7, <1>15 DEF Offered
  <2>2. PICK A : Tidy(m1, R1 \cup A) BY <2>1
  <2>3. c \in Alive(m1.heap) BY <1>9 DEF Opened
  <2>4. Extend(m1, c, last, nilCell) = m1 BY <1>5, <1>9, <2>2, <2>3, ExtendNone
  <2>5. m3 = m1 BY <1>13, <2>1, <2>4
  <2>6. Stack(u, R1) BY <1>8, HeldStack
  <2>7. rs2 \in Seq(Cells)
    <3>1. n \in Nat /\ n <= Len(u) /\ u \in Seq(Cells) /\ rs2 = SubSeq(u, 1, n)
      BY <1>5, <1>8, <1>14
    <3> QED BY ONLY <3>1
  <2>8. /\ R1 \subseteq R1 \cup A /\ Tidy(m3, R1 \cup A) /\ m3.process # "runs"
        /\ nilCell \in Cells /\ NULL \in Cells \cup {NULL} BY <1>15, <2>2, <2>5, Special
  <2> QED BY ONLY <1>1, <1>5, <1>8, <1>12, <1>14, <2>6, <2>7, <2>8, PushExit
<1>16. CASE m1.process # "exited"
  <2>1. m1.process = "runs" /\ z \in Cells \ (R1 \cup Permanent) /\ Tidy(m1, R1 \cup {z})
    BY <1>1, <1>2, <1>7, <1>16 DEF Offered
  <2>2. Extended(m1, R1, c, z, last, m3)
    <3>1. z \notin R1 BY <2>1
    <3> QED BY <1>5, <1>9, <1>10, <1>13, <2>1, <3>1, ExtendTidy
  <2>3. PICK g : Relinked(m1, R1, g, m3, Alive(m1.heap) \ {c}) /\ Opened(g, c, z)
    BY <2>2 DEF Extended
  <2>4. /\ Tidy(m3, R1) /\ m3.heap = g /\ m3.process = "runs"
        /\ Holds(m1.heap, g, Alive(m1.heap) \ {c}) BY <2>1, <2>3 DEF Relinked
  <2>5. Framed(fs2, g)
    <3>1. \A k \in Building(fs) : fs[k].cell = c => k = l
      BY <1>1, <1>2, <1>3, <1>4, <1>5, OneBuilder
    <3>2. ASSUME NEW k \in Building(fs), fs[k].cell # c, Opened(m.heap, fs[k].cell, fs[k].last)
          PROVE Opened(g, fs[k].cell, fs[k].last)
      <4>1. PICK d, e : d = fs[k].cell /\ e = fs[k].last OBVIOUS
      <4>2. Holds(m.heap, m1.heap, Alive(m.heap)) BY <1>8, KeepsHolds
      <4>3. Opened(m1.heap, d, e) BY <3>2, <4>1, <4>2 DEF Opened, Holds
      <4>4. d \in Alive(m1.heap) \ {c} BY <3>2, <4>1, <4>3 DEF Opened
      <4>5. Opened(g, d, e) BY <2>4, <4>3, <4>4 DEF Opened, Holds
      <4> QED BY <4>1, <4>5
    <3>3. \A k \in Building(fs) : fs[k].cell # c /\ Opened(m.heap, fs[k].cell, fs[k].last)
                                  => Opened(g, fs[k].cell, fs[k].last) BY <3>2
    <3> QED BY <1>1, <1>3, <1>11, <2>3, <3>1, <3>3 DEF Retailed
  <2>6. PICK R2 : R2 = R1 \ Above(u, n) OBVIOUS
  <2>7. CutTo(m3, ct, fs, ls, R2, m2, rs2)
    <3>1. /\ Tidy(m3, R1) /\ u \in Seq(Cells) /\ Owns(Held(ct, u, fs, ls), R1) /\ n \in Nat
          /\ n <= Len(u) /\ m2 = Cleaned(m3, u, n) BY <1>5, <1>8, <1>14, <2>4
    <3>2. CutTo(m3, ct, fs, ls, R1 \ Above(u, n), m2, SubSeq(u, 1, n)) BY ONLY <3>1, CutTidy
    <3> QED BY <1>14, <2>6, <3>2
  <2>8. /\ Tidy(m2, R2) /\ Owns(Held(ct, rs2, fs, ls), R2)
        /\ Keeps(g, m2.heap, Alive(m2.heap)) /\ m2.process = "runs" /\ rs2 \in Seq(Cells)
    BY <2>4, <2>7 DEF CutTo
  <2>9. Owns(Held(ct, rs2, fs2, ls), R2)
    <3>0. /\ Building(fs2) = Building(fs)
          /\ \A k \in Building(fs) : fs2[k].cell = fs[k].cell BY <1>11 DEF Retailed
    <3>1. Held(ct, rs2, fs2, ls) = Held(ct, rs2, fs, ls) BY ONLY <3>0, HeldSame
    <3> QED BY <2>8, <3>1
  <2>10. Framed(fs2, m2.heap) BY <2>5, <2>8, <2>9, FramedNext
  <2>11. Len(rs2) = n
    <3>1. n \in Nat /\ n <= Len(u) /\ u \in Seq(Cells) /\ rs2 = SubSeq(u, 1, n)
      BY <1>5, <1>8, <1>14
    <3> QED BY ONLY <3>1
  <2>12. Valued(m2.heap, rs2, fs2, NULL) BY DEF Valued
  <2>13. Good(m2, ct, rs2, fs2, ls, NULL, R2) BY <1>12, <2>8, <2>9, <2>10, <2>11, <2>12 DEF Good
  <2>14. Typed1(m2) BY <2>8, TidyTyped
  <2>15. NULL \in Cells \cup {NULL} OBVIOUS
  <2> QED BY <1>1, <1>12, <2>8, <2>13, <2>14, <2>15 DEF Sound, Shaped
<1> QED BY <1>15, <1>16

(* Several writes. *)

\* A list's last cell is written.
LEMMA WriteAuxOf ==
  ASSUME NEW m, Typed1(m), NEW c \in Cells, NEW d \in Cells,
         NEW m2, m2 = [m EXCEPT !.heap[c].aux = d],
         NEW h, h = m.heap
  PROVE  /\ Typed1(m2) /\ m2.process = m.process
         /\ Sets(m, c, Cell(h[c].type, h[c].next, d, h[c].contents), m2)
<1>1. PICK g : g = [h EXCEPT ![c].aux = d] OBVIOUS
<1>2. PICK bs, fr, pr : m = [heap |-> h, free |-> fr, blocks |-> bs, process |-> pr] BY DEF Typed1
<1>3. m2 = [m EXCEPT !.heap = g] BY ONLY <1>1, <1>2, m2 = [m EXCEPT !.heap[c].aux = d]
<1>4. Written(h, c, Cell(h[c].type, h[c].next, d, h[c].contents), g) BY <1>1, HeapTyped, WriteAux
<1>5. Typed1(m2) /\ m2.process = m.process
  <2>1. Cell(h[c].type, h[c].next, d, h[c].contents).type = m.heap[c].type BY CellFields
  <2>2. Written(m.heap, c, Cell(h[c].type, h[c].next, d, h[c].contents), g) BY <1>4
  <2> QED BY ONLY <1>3, <2>1, <2>2, Typed1(m), c \in Cells, WrittenTyped
<1> QED BY <1>3, <1>4, <1>5 DEF Sets

\* m2 is m with other cells at p and z.
Changed(m, p, a, z, b, m2) ==
  \E g \in [Cells -> CellRecords] :
    /\ g[p] = a /\ g[z] = b /\ \A x \in Cells \ {z, p} : g[x] = m.heap[x]
    /\ m2 = [m EXCEPT !.heap = g]

\* The heap is written, then written again.
LEMMA HeapTwice ==
  ASSUME NEW m, Typed1(m), NEW f, NEW ma, ma = [m EXCEPT !.heap = f],
         NEW g, NEW mb, mb = [ma EXCEPT !.heap = g]
  PROVE  mb = [m EXCEPT !.heap = g] /\ ma.heap = f
<1>1. PICK h, bs, fr, pr : m = [heap |-> h, free |-> fr, blocks |-> bs, process |-> pr]
  BY DEF Typed1
<1>2. ma = [heap |-> f, free |-> fr, blocks |-> bs, process |-> pr]
  BY ONLY <1>1, ma = [m EXCEPT !.heap = f]
<1>3. mb = [heap |-> g, free |-> fr, blocks |-> bs, process |-> pr]
  BY ONLY <1>2, mb = [ma EXCEPT !.heap = g]
<1> QED BY ONLY <1>1, <1>2, <1>3

\* Two cells are written one after the other.
LEMMA SetsOther ==
  ASSUME NEW m, Typed1(m), NEW p \in Cells, NEW z \in Cells, p # z, NEW a, NEW b,
         NEW ma, Sets(m, p, a, ma), NEW m2, Sets(ma, z, b, m2)
  PROVE  Changed(m, p, a, z, b, m2)
<1>1. PICK f : Written(m.heap, p, a, f) /\ ma = [m EXCEPT !.heap = f] BY DEF Sets
<1>2. PICK g : Written(ma.heap, z, b, g) /\ m2 = [ma EXCEPT !.heap = g] BY DEF Sets
<1>3. m2 = [m EXCEPT !.heap = g] /\ ma.heap = f BY <1>1, <1>2, HeapTwice
<1>4. /\ g \in [Cells -> CellRecords] /\ g[z] = b /\ g[p] = a
      /\ \A x \in Cells \ {z, p} : g[x] = m.heap[x] BY <1>1, <1>2, <1>3 DEF Written
<1> QED BY <1>3, <1>4 DEF Changed

\* A cell is written twice.
LEMMA SetsAgain ==
  ASSUME NEW m, Typed1(m), NEW p \in Cells, NEW a, NEW b,
         NEW ma, Sets(m, p, a, ma), NEW m2, Sets(ma, p, b, m2)
  PROVE  Sets(m, p, b, m2)
<1>1. PICK f : Written(m.heap, p, a, f) /\ ma = [m EXCEPT !.heap = f] BY DEF Sets
<1>2. PICK g : Written(ma.heap, p, b, g) /\ m2 = [ma EXCEPT !.heap = g] BY DEF Sets
<1>3. m2 = [m EXCEPT !.heap = g] /\ ma.heap = f BY <1>1, <1>2, HeapTwice
<1>4. Written(m.heap, p, b, g) BY <1>1, <1>2, <1>3 DEF Written
<1> QED BY <1>3, <1>4 DEF Sets

\* What a write changes.
LEMMA SetsFacts ==
  ASSUME NEW m, NEW p \in Cells, NEW a, NEW ma, Sets(m, p, a, ma), Typed1(m)
  PROVE  ma.heap[p] = a /\ \A x \in Cells \ {p} : ma.heap[x] = m.heap[x]
  BY DEF Sets, Written, Typed1

\* pop takes out the first element.
LEMMA WritePopFirst ==
  ASSUME NEW m, Typed1(m), NEW h, h = m.heap, NEW p \in Cells, NEW z \in Cells, p # z,
         NEW rest \in Cells, NEW a, a = IF rest = nilCell THEN nilCell ELSE h[p].aux, NEW m2,
         m2 = [m EXCEPT !.heap[p].contents = rest,
                        !.heap[p].aux = IF rest = nilCell THEN nilCell ELSE @,
                        !.heap[z].next = nilCell]
  PROVE  Changed(m, p, Cell(h[p].type, h[p].next, a, rest),
                 z, Cell(h[z].type, nilCell, h[z].aux, h[z].contents), m2)
<1>1. a \in Cells
  <2>1. h[p] \in CellRecords BY HeapTyped
  <2> QED BY <2>1, Special DEF CellRecords
<1>2. a = IF rest = nilCell THEN nilCell ELSE m.heap[p].aux OBVIOUS
<1>3. m2 = [m EXCEPT !.heap[p].contents = rest, !.heap[p].aux = a, !.heap[z].next = nilCell]
  BY ONLY <1>2, m2 = [m EXCEPT !.heap[p].contents = rest,
                               !.heap[p].aux = IF rest = nilCell THEN nilCell ELSE @,
                               !.heap[z].next = nilCell]
<1>4. PICK ma : ma = [m EXCEPT !.heap[p].contents = rest] OBVIOUS
<1>5. PICK mb : mb = [ma EXCEPT !.heap[p].aux = a] OBVIOUS
<1>6. m2 = [mb EXCEPT !.heap[z].next = nilCell] BY ONLY <1>3, <1>4, <1>5
<1>7. /\ Typed1(ma) /\ Sets(m, p, Cell(h[p].type, h[p].next, h[p].aux, rest), ma)
  BY <1>4, WriteContentsOf
<1>8. /\ ma.heap[p] = Cell(h[p].type, h[p].next, h[p].aux, rest)
      /\ \A x \in Cells \ {p} : ma.heap[x] = h[x] BY <1>7, SetsFacts
<1>9. PICK k : k = ma.heap OBVIOUS
<1>10. Typed1(mb) /\ Sets(ma, p, Cell(k[p].type, k[p].next, a, k[p].contents), mb)
  BY <1>1, <1>5, <1>7, <1>9, WriteAuxOf
<1>11. /\ k[p].type = h[p].type /\ k[p].next = h[p].next /\ k[p].contents = rest
  BY <1>8, <1>9, CellFields
<1>12. Sets(ma, p, Cell(h[p].type, h[p].next, a, rest), mb) BY <1>10, <1>11
<1>13. Sets(m, p, Cell(h[p].type, h[p].next, a, rest), mb) BY <1>7, <1>12, SetsAgain
<1>14. mb.heap[z] = h[z] BY <1>13, SetsFacts
<1>15. PICK l : l = mb.heap OBVIOUS
<1>16. nilCell \in Cells \cup {NULL} BY Special
<1>17. Sets(mb, z, Cell(l[z].type, nilCell, l[z].aux, l[z].contents), m2)
  BY <1>6, <1>10, <1>15, <1>16, WriteNextOf
<1>18. Sets(mb, z, Cell(h[z].type, nilCell, h[z].aux, h[z].contents), m2) BY <1>14, <1>15, <1>17
<1> QED BY <1>13, <1>18, SetsOther

\* pop takes out the last element, after p.
LEMMA WritePopLast ==
  ASSUME NEW m, Typed1(m), NEW h, h = m.heap, NEW p \in Cells, NEW y \in Cells, p # y,
         NEW m2, m2 = [m EXCEPT !.heap[p].next = nilCell, !.heap[y].aux = p]
  PROVE  Changed(m, p, Cell(h[p].type, nilCell, h[p].aux, h[p].contents),
                 y, Cell(h[y].type, h[y].next, p, h[y].contents), m2)
<1>1. PICK ma : ma = [m EXCEPT !.heap[p].next = nilCell] OBVIOUS
<1>2. m2 = [ma EXCEPT !.heap[y].aux = p]
  BY ONLY <1>1, m2 = [m EXCEPT !.heap[p].next = nilCell, !.heap[y].aux = p]
<1>3. nilCell \in Cells \cup {NULL} BY Special
<1>4. /\ Typed1(ma) /\ Sets(m, p, Cell(h[p].type, nilCell, h[p].aux, h[p].contents), ma)
  BY <1>1, <1>3, WriteNextOf
<1>5. ma.heap[y] = h[y] BY <1>4, SetsFacts
<1>6. PICK k : k = ma.heap OBVIOUS
<1>7. Sets(ma, y, Cell(k[y].type, k[y].next, p, k[y].contents), m2)
  BY <1>2, <1>4, <1>6, WriteAuxOf
<1>8. Sets(ma, y, Cell(h[y].type, h[y].next, p, h[y].contents), m2) BY <1>5, <1>6, <1>7
<1> QED BY <1>4, <1>8, SetsOther

\* push before the first element.
FrontWritten(m, h, z, p, d, m2) ==
  /\ Changed(m, z, Cell(h[z].type, d, h[z].aux, h[z].contents),
             p, Cell(h[p].type, h[p].next, nilCell, z), m2)
  /\ Typed1(m2) /\ m2.process = m.process
\* The writes of push are writes of two cells.
LEMMA WritePushFront ==
  ASSUME NEW m, Typed1(m), NEW h, h = m.heap, NEW z \in Cells, NEW p \in Cells, p # z,
         NEW d \in Cells, NEW m2,
         m2 = [m EXCEPT !.heap[z].next = d, !.heap[p].contents = z, !.heap[p].aux = nilCell]
  PROVE  FrontWritten(m, h, z, p, d, m2)
<1>1. nilCell \in Cells BY Special
<1>4. PICK ma : ma = [m EXCEPT !.heap[z].next = d] OBVIOUS
<1>5. PICK mb : mb = [ma EXCEPT !.heap[p].contents = z] OBVIOUS
<1>6. m2 = [mb EXCEPT !.heap[p].aux = nilCell] BY ONLY <1>4, <1>5,
          m2 = [m EXCEPT !.heap[z].next = d, !.heap[p].contents = z, !.heap[p].aux = nilCell]
<1>7. /\ Typed1(ma) /\ Sets(m, z, Cell(h[z].type, d, h[z].aux, h[z].contents), ma)
      /\ ma.process = m.process BY <1>4, WriteNextOf
<1>8. ma.heap[p] = h[p] BY <1>7, SetsFacts
<1>9. PICK k : k = ma.heap OBVIOUS
<1>10. /\ Typed1(mb) /\ Sets(ma, p, Cell(k[p].type, k[p].next, k[p].aux, z), mb)
       /\ mb.process = ma.process BY <1>5, <1>7, <1>9, WriteContentsOf
<1>11. mb.heap[p] = Cell(k[p].type, k[p].next, k[p].aux, z) BY <1>7, <1>10, SetsFacts
<1>12. PICK l : l = mb.heap OBVIOUS
<1>13. /\ Typed1(m2) /\ Sets(mb, p, Cell(l[p].type, l[p].next, nilCell, l[p].contents), m2)
       /\ m2.process = mb.process
  <2>1. Typed1(mb) BY <1>10
  <2> QED BY ONLY <1>1, <1>6, <1>12, <2>1, p \in Cells, WriteAuxOf
<1>14. l[p].type = k[p].type /\ l[p].next = k[p].next /\ l[p].contents = z
  BY <1>11, <1>12, CellFields
<1>15. Sets(ma, p, Cell(k[p].type, k[p].next, nilCell, z), m2)
  BY <1>7, <1>10, <1>13, <1>14, SetsAgain
<1>16. Sets(ma, p, Cell(h[p].type, h[p].next, nilCell, z), m2) BY <1>8, <1>9, <1>15
<1>17. Changed(m, z, Cell(h[z].type, d, h[z].aux, h[z].contents),
               p, Cell(h[p].type, h[p].next, nilCell, z), m2) BY <1>7, <1>16, SetsOther
<1> QED BY <1>7, <1>10, <1>13, <1>17 DEF FrontWritten

(* Steps: pop. *)

\* A cell taken out of a symbol's list is the result.
LEMMA PopStep ==
  ASSUME NEW m, NEW ct, NEW rs, NEW fs, NEW ls, NEW v, NEW R, Ready(m, ct, rs, fs, ls, v, R),
         NEW s \in Syms, NEW p, p = ct[s], p \in Alive(m.heap), NEW z, NEW g, NEW m1,
         Unhung(m, R, z, p, g, m1), NEW n, n = Len(rs), NEW m2, m2 = Cleaned(m1, rs, n),
         NEW rs2, rs2 = Append(SubSeq(rs, 1, n), z)
  PROVE  Sound(m2, ct, rs2, fs, ls, z)
<1>1. /\ ct \in [Syms -> Cells] /\ rs \in Seq(Cells) /\ fs \in Seq(Frames)
      /\ ls \in SUBSET Cells /\ Owns(Held(ct, rs, fs, ls), R)
      /\ Stacked(fs, n) /\ Framed(fs, m.heap) /\ Alive(m.heap) \cap Permanent = {} BY ReadyFacts
<1>2. /\ Tidy(m1, R \cup {z}) /\ m1.heap = g /\ Holds(m.heap, g, Alive(m.heap) \ {p})
      /\ z \in Alive(m.heap) \ R BY DEF Unhung, Relinked
<1>3. n \in Nat /\ n <= Len(rs)
  <2>1. PICK k \in Nat : k = Len(rs) BY <1>1
  <2> QED BY <2>1
<1>4. \A k \in Building(fs) : fs[k].cell \in Alive(m.heap) \ {p}
  <2>1. \A k \in Building(fs) : fs[k].cell \in Alive(m.heap) BY <1>1, FramesAlive
  <2>2. ct[s] \notin Permanent BY <1>1
  <2>3. \A k \in Building(fs) : ct[s] \notin Permanent => fs[k].cell # ct[s] BY <1>1, SymbolOwned
  <2> QED BY <2>1, <2>2, <2>3
<1>5. Framed(fs, m1.heap)
  <2>1. Framed(fs, g) BY ONLY <1>1, <1>2, <1>4, FramedKept
  <2> QED BY <1>2, <2>1
<1>6. PICK R1 : R1 = R \cup {z} /\ R1 \ {z} = R BY <1>2
<1>7. /\ Tidy(m1, R1) /\ z \in R1 \cup Permanent /\ Owns(Held(ct, rs, fs, ls), R1 \ {z})
  BY <1>1, <1>2, <1>6
<1> QED BY ONLY <1>1, <1>3, <1>5, <1>7, m2 = Cleaned(m1, rs, n),
           rs2 = Append(SubSeq(rs, 1, n), z), PushGood

\* The list in a symbol is in use.
LEMMA SymbolAlive ==
  ASSUME NEW m, NEW ct, NEW rs, NEW fs, NEW ls, NEW v, NEW R, Ready(m, ct, rs, fs, ls, v, R),
         NEW s \in Syms, m.heap[ct[s]].type = "list"
  PROVE  ct[s] \in R /\ ct[s] \in Alive(m.heap) /\ ct[s] \in Cells
<1>1. /\ ct \in [Syms -> Cells] /\ rs \in Seq(Cells) /\ Owns(Held(ct, rs, fs, ls), R)
      /\ Shape(m.heap, R) BY ReadyFacts
<1>2. ct[s] \in R \cup Permanent BY <1>1, SymbolOwned
<1>3. ct[s] \notin Permanent BY <1>1 DEF Shape, Permanent
<1> QED BY <1>1, <1>2, <1>3 DEF Shape

\* A cell is its fields.
LEMMA CellIs ==
  ASSUME NEW h \in [Cells -> CellRecords], NEW x \in Cells
  PROVE  h[x] = Cell(h[x].type, h[x].next, h[x].aux, h[x].contents)
<1>1. h[x] \in CellRecords OBVIOUS
<1> QED BY ONLY <1>1 DEF CellRecords, Cell

\* The first element z of the list cell p is unlinked.
FirstPopped(m, p, z, rest) ==
  [m EXCEPT !.heap[p].contents = rest,
            !.heap[p].aux = IF rest = nilCell THEN nilCell ELSE @,
            !.heap[z].next = nilCell]

\* (pop s)
LEMMA PopFirstStep ==
  ASSUME NEW m, NEW ct, NEW rs, NEW fs, NEW ls, NEW v, NEW R, Ready(m, ct, rs, fs, ls, v, R),
         NEW s \in Syms, NEW p, p = ct[s], NEW h, h = m.heap, h[p].type = "list",
         NEW z, z = h[p].contents, NEW rest, rest = h[z].next, NEW m1,
         m1 = FirstPopped(m, p, z, rest), NEW n, n = Len(rs), NEW m2, m2 = Cleaned(m1, rs, n),
         NEW rs2, rs2 = Append(SubSeq(rs, 1, n), z)
  PROVE  Sound(m2, ct, rs2, fs, ls, z)
<1>1. /\ ct \in [Syms -> Cells] /\ rs \in Seq(Cells) /\ fs \in Seq(Frames)
      /\ ls \in SUBSET Cells /\ Owns(Held(ct, rs, fs, ls), R) /\ Tidy(m, R)
      /\ Stacked(fs, n) /\ Framed(fs, h) /\ h \in Heaps /\ h \in [Cells -> CellRecords]
      /\ Shape(h, R) /\ Lasts(h) /\ Ranked(h) /\ R \subseteq Alive(h) BY ReadyFacts
<1>2. p \in R /\ p \in Alive(h) /\ p \in Cells BY SymbolAlive
<1>3. z = Below(h, p) /\ z \in (Alive(h) \ R) \cup {nilCell} /\ z \in Cells
  <2>1. z = Below(h, p) BY <1>1, <1>2, Fields
  <2> QED BY <1>1, <1>2, <2>1, ShapeFacts, Special
<1>4. rest \in Cells /\ rest = After(h, z) /\ p # z
  <2>1. h[z].type \in {"nil", "true", "atom", "list"} \/ z \in Alive(h) BY <1>1, <1>3 DEF Shape
  <2>2. rest = After(h, z) BY <1>1, <1>3, <2>1, Fields
  <2>3. p # nilCell
    <3>1. h[nilCell].type = "nil" BY <1>1 DEF Shape
    <3> QED BY <3>1
  <2> QED BY <1>1, <1>2, <1>3, <2>2, <2>3, KidsType
<1>5. Typed1(m) BY <1>1, TidyTyped
<1>6. PICK a : a = IF rest = nilCell THEN nilCell ELSE h[p].aux OBVIOUS
<1>7. Changed(m, p, Cell(h[p].type, h[p].next, a, rest),
              z, Cell(h[z].type, nilCell, h[z].aux, h[z].contents), m1)
  <2>1. z \in Cells BY <1>3
  <2>2. m1 = [m EXCEPT !.heap[p].contents = rest,
                       !.heap[p].aux = IF rest = nilCell THEN nilCell ELSE @,
                       !.heap[z].next = nilCell] BY DEF FirstPopped
  <2>3. p \in Cells /\ rest \in Cells /\ p # z BY <1>2, <1>4
  <2> QED BY ONLY <1>5, h = m.heap, <1>6, <2>1, <2>2, <2>3, WritePopFirst
<1>8. PICK g \in [Cells -> CellRecords] :
        /\ g[p] = Cell(h[p].type, h[p].next, a, rest)
        /\ g[z] = Cell(h[z].type, nilCell, h[z].aux, h[z].contents)
        /\ \A x \in Cells \ {z, p} : g[x] = h[x]
        /\ m1 = [m EXCEPT !.heap = g] BY <1>7 DEF Changed
<1>9. CASE z = nilCell
  <2>1. rest = nilCell BY <1>1, <1>4, <1>9, ShapeFacts
  <2>2. h[p].aux = nilCell
    <3>1. SUFFICES ASSUME h[p].aux # nilCell PROVE FALSE OBVIOUS
    <3>2. EndOf(h, p, h[p].aux) BY <1>1, <1>2, <3>1 DEF Lasts
    <3>3. List(h, nilCell) = {} BY DEF List
    <3> QED BY <1>3, <1>9, <3>2, <3>3 DEF EndOf
  <2>3. g[p] = h[p]
    <3>1. h[p] = Cell(h[p].type, h[p].next, h[p].aux, h[p].contents) BY <1>1, <1>2, CellIs
    <3> QED BY <1>6, <1>8, <1>9, <2>1, <2>2, <3>1
  <2>4. g[z] = h[z]
    <3>1. h[z] = Cell(h[z].type, h[z].next, h[z].aux, h[z].contents) BY <1>1, <1>3, CellIs
    <3>2. g[z] = Cell(h[z].type, nilCell, h[z].aux, h[z].contents) BY <1>8
    <3>3. h[z].next = nilCell BY <2>1
    <3> QED BY ONLY <3>1, <3>2, <3>3
  <2>5. \A x \in Cells : g[x] = h[x] BY <1>8, <2>3, <2>4
  <2>6. g = h
    <3>1. h \in [Cells -> CellRecords] BY <1>1
    <3> QED BY ONLY <2>5, <3>1, g \in [Cells -> CellRecords]
  <2>7. m1 = m
    <3>1. PICK fr, bs, pr : m = [heap |-> h, free |-> fr, blocks |-> bs, process |-> pr]
      BY <1>5 DEF Typed1
    <3>2. m1 = [m EXCEPT !.heap = h] BY <1>8, <2>6
    <3> QED BY ONLY <3>1, <3>2
  <2>8. n \in Nat /\ n <= Len(rs)
    <3>1. rs \in Seq(Cells) BY <1>1
    <3> QED BY ONLY <3>1, n = Len(rs)
  <2>9. z \in R \cup Permanent /\ R \ {z} = R
    <3>1. z \notin R BY <1>1, <1>9, ShapeFacts
    <3> QED BY <1>9, <3>1 DEF Permanent
  <2>10. /\ Owns(Held(ct, rs, fs, ls), R \ {z}) /\ m2 = Cleaned(m, rs, n) /\ Framed(fs, m.heap)
    BY <1>1, <2>7, <2>9
  <2> QED BY ONLY <1>1, <2>8, <2>9, <2>10, rs2 = Append(SubSeq(rs, 1, n), z), PushGood
<1>10. CASE z # nilCell
  <2>1. a = nilCell \/ (a = h[p].aux /\ h[z].next # nilCell) BY <1>6
  <2>2. g[p] = Cell("list", h[p].next, a, h[z].next) BY <1>8
  <2>3. Unhung(m, R, z, p, g, m1)
    <3>1. Tidy(m, R) /\ p \in Alive(h) BY <1>1, <1>2
    <3>2. \A x \in Cells \ {z, p} : g[x] = h[x] BY <1>8
    <3>3. g[z] = Cell(h[z].type, nilCell, h[z].aux, h[z].contents) BY <1>8
    <3>4. m1 = [m EXCEPT !.heap = g] BY <1>8
    <3> QED BY ONLY <1>10, <2>1, <2>2, <3>1, <3>2, <3>3, <3>4, h = m.heap, h[p].type = "list",
                    z = h[p].contents, g \in [Cells -> CellRecords], TakeFirstTidy
  <2>4. p \in Alive(m.heap) BY <1>2
  <2> QED BY ONLY <2>3, <2>4, Ready(m, ct, rs, fs, ls, v, R), s \in Syms, p = ct[s], n = Len(rs),
                  m2 = Cleaned(m1, rs, n), rs2 = Append(SubSeq(rs, 1, n), z), PopStep
<1> QED BY <1>9, <1>10

\* The last element of a list and the one before.
Ending(h, b, items, k, x) ==
  /\ k \in Nat \ {0} /\ k = Len(items) /\ x = items[k] /\ x \in Cells /\ x # nilCell
  /\ After(h, x) = nilCell /\ (k = 1 => x = b)
  /\ k > 1 => /\ items[k - 1] \in Cells /\ items[k - 1] \in List(h, b)
              /\ After(h, items[k - 1]) = x

\* What Last and the place before it are in the chain of a list's elements.
LEMMA EndingFacts ==
  ASSUME NEW h, Ranked(h), NEW b \in Cells, NEW items, items = Chain(h, b), items # <<>>
  PROVE  Ending(h, b, items, Len(items), Last(items))
<1>1. /\ items \in Seq(Cells) /\ (b # nilCell => Len(items) > 0 /\ items[1] = b)
      /\ b # nilCell
      /\ \A i \in 1..Len(items) : items[i] \in Cells /\ After(h, items[i]) =
           IF i = Len(items) THEN nilCell ELSE items[i + 1] BY ChainFacts
<1>2. PICK k \in Nat : k = Len(items)
  <2>1. items \in Seq(Cells) BY <1>1
  <2> QED BY ONLY <2>1
<1>3. k \in Nat \ {0} /\ items[1] = b BY <1>1, <1>2
<1>4. Last(items) = items[k] BY <1>2 DEF Last
<1>5. k \in 1..k /\ (k > 1 => k - 1 \in 1..k /\ k - 1 # k /\ (k - 1) + 1 = k) BY <1>3
<1>6. /\ items[k] # nilCell /\ items[k] \in Cells /\ After(h, items[k]) = nilCell
  BY <1>2, <1>5, ChainFacts
<1>7. ASSUME k > 1
      PROVE  items[k - 1] \in Cells /\ items[k - 1] \in List(h, b) /\ After(h, items[k - 1]) = items[k]
  <2>1. PICK j : j = k - 1 /\ j \in 1..k /\ j # k /\ j + 1 = k BY <1>5, <1>7
  <2>2. items[j] \in Cells /\ After(h, items[j]) = IF j = Len(items) THEN nilCell ELSE items[j + 1]
    BY <1>1, <1>2, <2>1
  <2>3. items[j] \in List(h, b) BY <1>2, <2>1, ChainFacts
  <2> QED BY <1>2, <2>1, <2>2, <2>3
<1> QED BY <1>2, <1>3, <1>4, <1>6, <1>7 DEF Ending

\* The last of p's elements is unlinked.
LastPopped(m, p, items) ==
  IF Len(items) = 1 THEN [m EXCEPT !.heap[p] = Cell("list", @.next, nilCell, nilCell)]
  ELSE [m EXCEPT !.heap[items[Len(items) - 1]].next = nilCell,
                 !.heap[p].aux = items[Len(items) - 1]]

\* (pop s -1)
LEMMA PopLastStep ==
  ASSUME NEW m, NEW ct, NEW rs, NEW fs, NEW ls, NEW v, NEW R, Ready(m, ct, rs, fs, ls, v, R),
         NEW s \in Syms, NEW p, p = ct[s], NEW h, h = m.heap, h[p].type = "list",
         NEW items, items = Chain(h, h[p].contents), items # <<>>, NEW x, x = Last(items),
         NEW m1, m1 = LastPopped(m, p, items),
         NEW n, n = Len(rs), NEW m2, m2 = Cleaned(m1, rs, n),
         NEW rs2, rs2 = Append(SubSeq(rs, 1, n), x)
  PROVE  Sound(m2, ct, rs2, fs, ls, x)
<1>1. /\ Tidy(m, R) /\ h \in Heaps /\ h \in [Cells -> CellRecords]
      /\ Shape(h, R) /\ Lasts(h) /\ Ranked(h) /\ R \subseteq Alive(h) BY ReadyFacts
<1>2. p \in R /\ p \in Alive(h) /\ p \in Cells BY SymbolAlive
<1>3. PICK b : b = h[p].contents /\ b = Below(h, p) /\ b \in Cells
  <2>1. h[p].contents = Below(h, p) BY <1>1, <1>2, Fields
  <2> QED BY <1>1, <1>2, <2>1, KidsType
<1>4. PICK k : k = Len(items) OBVIOUS
<1>5. Ending(h, b, items, k, x) BY <1>1, <1>3, <1>4, EndingFacts
<1>6. /\ k \in Nat \ {0} /\ x = items[k] /\ x \in Cells /\ x # nilCell
      /\ After(h, x) = nilCell /\ (k = 1 => x = b)
      /\ k > 1 => /\ items[k - 1] \in Cells /\ items[k - 1] \in List(h, b)
                  /\ After(h, items[k - 1]) = x BY <1>5 DEF Ending
<1>7. Typed1(m) BY <1>1, TidyTyped
<1>8. CASE k = 1
  <2>1. x = b /\ h[x].next = nilCell
    <3>1. x \in Alive(h) BY <1>1, <1>2, <1>3, <1>6, <1>8, ShapeFacts
    <3> QED BY <1>1, <1>6, <1>8, <3>1, Fields
  <2>2. PICK c : c = Cell("list", h[p].next, nilCell, nilCell) OBVIOUS
  <2>3. c \in CellRecords
    <3>1. h[p] \in CellRecords BY <1>1, <1>2
    <3>2. h[p].next \in Cells \cup {NULL} BY ONLY <3>1 DEF CellRecords
    <3> QED BY <2>2, <3>2, Special DEF CellRecords, Cell, Types
  <2>4. PICK g : g = [h EXCEPT ![p] = c] OBVIOUS
  <2>5. m1 = [m EXCEPT !.heap[p] = Cell("list", @.next, nilCell, nilCell)]
    BY <1>4, <1>8 DEF LastPopped
  <2>6. m1 = [m EXCEPT !.heap = g]
    <3>1. PICK fr, bs, pr : m = [heap |-> h, free |-> fr, blocks |-> bs, process |-> pr]
      BY <1>7 DEF Typed1
    <3>2. m1 = [m EXCEPT !.heap[p] = c] BY ONLY <2>2, <2>5, h = m.heap
    <3> QED BY ONLY <2>4, <3>1, <3>2
  <2>7. /\ g \in [Cells -> CellRecords] /\ g[p] = c /\ \A y \in Cells \ {p} : g[y] = h[y]
    BY ONLY <1>1, <1>2, <2>3, <2>4
  <2>8. g[x] = Cell(h[x].type, nilCell, h[x].aux, h[x].contents)
    <3>1. h[x] = Cell(h[x].type, h[x].next, h[x].aux, h[x].contents) BY <1>1, <1>6, CellIs
    <3>2. x # p BY <1>1, <1>2, <1>3, <1>6, <2>1, ShapeFacts
    <3> QED BY <1>6, <2>1, <2>7, <3>1, <3>2
  <2>9. PICK a : a = nilCell OBVIOUS
  <2>10. Unhung(m, R, x, p, g, m1)
    <3>1. Tidy(m, R) /\ p \in Alive(h) /\ x # nilCell BY <1>1, <1>2, <1>6
    <3>2. \A y \in Cells \ {x, p} : g[y] = h[y] BY <2>7
    <3>3. x = h[p].contents BY <1>3, <2>1
    <3>4. a = nilCell \/ (a = h[p].aux /\ h[x].next # nilCell) BY <2>9
    <3>5. g[p] = Cell("list", h[p].next, a, h[x].next) BY <2>1, <2>2, <2>7, <2>9
    <3>6. g \in [Cells -> CellRecords] BY <2>7
    <3> QED BY ONLY <2>6, <2>8, <3>1, <3>2, <3>3, <3>4, <3>5, <3>6, h = m.heap,
                    h[p].type = "list", TakeFirstTidy
  <2>11. p \in Alive(m.heap) BY <1>2
  <2> QED BY ONLY <2>10, <2>11, Ready(m, ct, rs, fs, ls, v, R), s \in Syms, p = ct[s], n = Len(rs),
                  m2 = Cleaned(m1, rs, n), rs2 = Append(SubSeq(rs, 1, n), x), PopStep
<1>9. CASE k # 1
  <2>1. PICK q : q = items[k - 1] OBVIOUS
  <2>2. q \in Cells /\ q \in List(h, b) /\ After(h, q) = x
    <3>0. k \in Nat \ {0} BY <1>6
    <3>1. k > 1 BY ONLY <1>9, <3>0
    <3> QED BY <1>6, <2>1, <3>1
  <2>3. m1 = [m EXCEPT !.heap[q].next = nilCell, !.heap[p].aux = q]
    BY <1>4, <1>9, <2>1 DEF LastPopped
  <2>4. p # q BY <1>1, <1>2, <1>3, <2>2, ListAlive
  <2>5. Changed(m, q, Cell(h[q].type, nilCell, h[q].aux, h[q].contents),
                   p, Cell(h[p].type, h[p].next, q, h[p].contents), m1)
    <3>1. p \in Cells /\ q \in Cells BY <1>2, <2>2
    <3> QED BY ONLY <1>7, <2>3, <2>4, <3>1, h = m.heap, WritePopLast
  <2>6. PICK g \in [Cells -> CellRecords] :
          /\ g[q] = Cell(h[q].type, nilCell, h[q].aux, h[q].contents)
          /\ g[p] = Cell(h[p].type, h[p].next, q, h[p].contents)
          /\ \A y \in Cells \ {p, q} : g[y] = h[y]
          /\ m1 = [m EXCEPT !.heap = g] BY ONLY <2>5, h = m.heap DEF Changed
  <2>7. EndOf(h, p, x)
    <3>1. b # nilCell
      <4>1. List(h, nilCell) = {} BY DEF List
      <4> QED BY <2>2, <4>1
    <3>2. EndOf(h, p, Last(Chain(h, b))) BY <1>1, <1>2, <1>3, <3>1, LastIsEnd
    <3> QED BY <1>3, <3>2
  <2>8. Unhung(m, R, x, p, g, m1)
    <3>1. Tidy(m, R) /\ p \in Alive(h) /\ x \in Cells BY <1>1, <1>2, <1>6
    <3>2. q \in Cells /\ q \in List(h, Below(h, p)) /\ After(h, q) = x BY <1>3, <2>2
    <3>3. \A y \in Cells \ {p, q} : g[y] = h[y] BY <2>6
    <3>4. g[q] = Cell(h[q].type, nilCell, h[q].aux, h[q].contents) BY <2>6
    <3>5. g[p] = Cell("list", h[p].next, q, h[p].contents) BY <2>6
    <3>6. m1 = [m EXCEPT !.heap = g] BY <2>6
    <3> QED BY ONLY <2>7, <3>1, <3>2, <3>3, <3>4, <3>5, <3>6, h = m.heap, h[p].type = "list",
                    g \in [Cells -> CellRecords], TakeLastTidy
  <2>9. p \in Alive(m.heap) BY <1>2
  <2> QED BY ONLY <2>8, <2>9, Ready(m, ct, rs, fs, ls, v, R), s \in Syms, p = ct[s], n = Len(rs),
                  m2 = Cleaned(m1, rs, n), rs2 = Append(SubSeq(rs, 1, n), x), PopStep
<1> QED BY <1>8, <1>9

(* Steps: a function's value is taken. *)

\* More results.
LEMMA StackedMore ==
  ASSUME NEW fs \in Seq(Frames), NEW n \in Nat, NEW k \in Nat, n <= k, Stacked(fs, n)
  PROVE  Stacked(fs, k)
<1>1. ASSUME NEW j \in 1..Len(fs) PROVE fs[j].save <= k
  <2>1. fs[j] \in Frames BY SeqLen
  <2>2. PICK s : s = fs[j].save /\ s \in Nat BY <2>1 DEF Frames
  <2>3. s <= n BY <2>2 DEF Stacked
  <2> QED BY <2>2, <2>3
<1> QED BY <1>1 DEF Stacked

\* The value is taken for the function f that waits.
Took(m, ct, rs, fs, ls, f, R1, new) ==
  /\ Owns(Held(ct, new.results, fs, ls), R1) /\ new.results \in Seq(Cells)
  /\ f.save \in Nat /\ f.save <= Len(new.results) /\ f \in Frames
  /\ Framed(fs, new.mem.heap) /\ new.cell \in Cells
  /\ Keeps(m.heap, new.mem.heap, Alive(m.heap))
  /\ \/ /\ new.mem.process = "exited" /\ new.cell = nilCell
        /\ \E A : Tidy(new.mem, R1 \cup A)
     \/ /\ new.mem.process = "runs" /\ new.cell \in Cells \ (R1 \cup Permanent)
        /\ Tidy(new.mem, R1 \cup {new.cell})
Takes(m, ct, rs, fs, ls, f, new) == \E R1 : Took(m, ct, rs, fs, ls, f, R1, new)

\* A function that waits gets its value as a cell that nobody owns, or there was no memory.
LEMMA TookValue ==
  ASSUME NEW m, NEW ct, NEW rs, NEW fs, NEW ls, NEW v, NEW R, Ready(m, ct, rs, fs, ls, v, R),
         fs # <<>>, v # NULL, NEW f, f = Last(fs), NEW new, new = Taking(m, rs, v)
  PROVE  Takes(m, ct, rs, fs, ls, f, new)
<1>1. /\ rs \in Seq(Cells) /\ fs \in Seq(Frames) /\ Tidy(m, R) /\ Owns(Held(ct, rs, fs, ls), R)
      /\ Stacked(fs, Len(rs)) /\ Framed(fs, m.heap) /\ Valued(m.heap, rs, fs, v)
      /\ m.process = "runs" BY ReadyFacts
<1>2. PICK l \in Nat : l = Len(fs) /\ l \in 1..l /\ fs[l] = f
  <2>1. PICK l \in Nat : l = Len(fs) /\ l > 0 /\ Last(fs) = fs[l] BY <1>1 DEF Last
  <2> QED BY <2>1
<1>3. f \in Frames BY <1>1, <1>2, SeqLen
<1>4. PICK n : n = f.save /\ n \in Nat /\ n <= Len(rs)
  <2>1. f.save <= Len(rs) BY <1>1, <1>2 DEF Stacked
  <2> QED BY <1>3, <2>1 DEF Frames
<1>5. v \in Alive(m.heap) \cup Permanent /\ (IsLast(rs, v) => n < Len(rs))
  BY <1>1, <1>4 DEF Valued
<1>6. PICK R1 : Offered(m, ct, rs, fs, ls, R1, v, new)
  <2>1. Offers(m, ct, rs, fs, ls, v, new) BY <1>1, <1>5, TakingTidy
  <2> QED BY <2>1 DEF Offers
<1>7. PICK u : u = new.results OBVIOUS
<1>8. /\ Owns(Held(ct, u, fs, ls), R1) /\ Keeps(m.heap, new.mem.heap, Alive(m.heap))
      /\ \/ u = rs
         \/ u = Front(rs) /\ IsLast(rs, v) BY <1>6, <1>7 DEF Offered
<1>9. u \in Seq(Cells) /\ n <= Len(u) BY ONLY <1>1, <1>4, <1>5, <1>8, TakenLength
<1>10. Framed(fs, new.mem.heap)
  <2>1. Holds(m.heap, new.mem.heap, Alive(m.heap)) BY <1>8, KeepsHolds
  <2>2. \A k \in Building(fs) : fs[k].cell \in Alive(m.heap) BY <1>1, FramesAlive
  <2> QED BY <1>1, <2>1, <2>2, FramedKept
<1>11. \/ /\ new.mem.process = "exited" /\ new.cell = nilCell
          /\ \E A : Tidy(new.mem, R1 \cup A)
       \/ /\ new.mem.process = "runs" /\ new.cell \in Cells \ (R1 \cup Permanent)
          /\ Tidy(new.mem, R1 \cup {new.cell}) BY <1>1, <1>6 DEF Offered
<1>12. new.cell \in Cells BY <1>11, Special
<1>13. Took(m, ct, rs, fs, ls, f, R1, new)
  BY <1>3, <1>4, <1>7, <1>8, <1>9, <1>10, <1>11, <1>12 DEF Took
<1> QED BY <1>13 DEF Takes

\* A function ends and returns what a symbol has.
LEMMA ReferGood ==
  ASSUME NEW m, NEW R, Tidy(m, R), NEW ct \in [Syms -> Cells], NEW rs \in Seq(Cells),
         NEW fs \in Seq(Frames), NEW ls \in SUBSET Cells, fs # <<>>, Last(fs).fn # "list",
         Owns(Held(ct, rs, fs, ls), R), Framed(fs, m.heap), NEW w, Stacked(fs, w),
         Last(fs).save <= Len(rs), NEW s \in Syms, NEW v, v = ct[s]
  PROVE  Sound(m, ct, rs, Front(fs), ls, v)
<1>1. PICK fs2 : fs2 = Front(fs) OBVIOUS
<1>2. Popped(fs, fs2, w) BY <1>1, FrontFrames
<1>3. PICK n \in Nat : n = Last(fs).save /\ Stacked(fs2, n) BY <1>2 DEF Popped
<1>4. PICK k \in Nat : k = Len(rs) /\ n <= k
  <2>1. Len(rs) \in Nat BY ONLY rs \in Seq(Cells)
  <2> QED BY <1>3, <2>1
<1>5. fs2 \in Seq(Frames) /\ Framed(fs2, m.heap) BY <1>2 DEF Popped
<1>6. Stacked(fs2, Len(rs)) BY <1>3, <1>4, <1>5, StackedMore
<1>7. Owns(Held(ct, rs, fs2, ls), R) BY <1>1, HeldPop
<1>8. v \in R \cup Permanent /\ ~IsLast(rs, v) BY SymbolOwned
<1>9. R \subseteq Alive(m.heap) BY DEF Tidy, Owned, Shape
<1>10. Valued(m.heap, rs, fs2, v) BY <1>8, <1>9 DEF Valued
<1>11. Good(m, ct, rs, fs2, ls, v, R) BY <1>5, <1>6, <1>7, <1>10 DEF Good
<1>12. Typed1(m) BY TidyTyped
<1>13. Shaped(ct, rs, fs2, ls, v) BY <1>5 DEF Shaped
<1> QED BY <1>1, <1>11, <1>12, <1>13 DEF Sound

\* When the process does not run, nothing more is to be shown.
LEMMA SoundExit ==
  ASSUME NEW m, Typed1(m), m.process # "runs", NEW ct \in [Syms -> Cells], NEW rs \in Seq(Cells),
         NEW fs \in Seq(Frames), NEW ls \in SUBSET Cells, NEW v \in Cells \cup {NULL}
  PROVE  Sound(m, ct, rs, fs, ls, v) BY DEF Sound, Shaped

\* setDefine: the value is copied, what the symbol had is deleted.
LEMMA SetStep ==
  ASSUME NEW m, NEW ct, NEW rs, NEW fs, NEW ls, NEW v, NEW R, Ready(m, ct, rs, fs, ls, v, R),
         fs # <<>>, v # NULL, NEW f, f = Last(fs), f.fn = "set", NEW s, s = f.sym,
         NEW new, new = Taking(m, rs, v), NEW m2, m2 = DeleteList(new.mem, ct[s]),
         NEW z, z = new.cell, NEW ct2, ct2 = [ct EXCEPT ![s] = z], NEW u, u = new.results
  PROVE  Sound(m2, ct2, u, Front(fs), ls, z)
<1>1. /\ ct \in [Syms -> Cells] /\ rs \in Seq(Cells) /\ fs \in Seq(Frames)
      /\ ls \in SUBSET Cells /\ Framed(fs, m.heap) /\ Stacked(fs, Len(rs)) BY ReadyFacts
<1>2. s \in Syms
  <2>1. PICK l \in Nat : l = Len(fs) /\ l > 0 /\ Last(fs) = fs[l] BY <1>1 DEF Last
  <2>2. l \in 1..Len(fs) /\ fs[l].fn = "set" BY <2>1
  <2> QED BY <1>1, <2>1, <2>2 DEF Framed
<1>3. PICK R1 : Took(m, ct, rs, fs, ls, f, R1, new)
  <2>1. Takes(m, ct, rs, fs, ls, f, new) BY TookValue
  <2> QED BY <2>1 DEF Takes
<1>4. PICK m1 : m1 = new.mem OBVIOUS
<1>5. /\ Owns(Held(ct, u, fs, ls), R1) /\ u \in Seq(Cells) /\ f.save <= Len(u)
      /\ Framed(fs, m1.heap) /\ z \in Cells /\ m2 = DeleteList(m1, ct[s]) BY <1>3, <1>4 DEF Took
<1>6. ct2 \in [Syms -> Cells] /\ ct2[s] = z BY <1>1, <1>2, <1>5
<1>7. ct[s] \in R1 \cup Permanent BY <1>2, <1>5, SymbolOwned
<1>8. CASE m1.process = "exited"
  <2>1. PICK A : Tidy(m1, R1 \cup A) BY <1>3, <1>4, <1>8 DEF Took
  <2>2. PICK Q : Q = R1 \cup A OBVIOUS
  <2>3. Tidy(m1, Q) /\ ct[s] \in Q \cup Permanent BY <1>7, <2>1, <2>2
  <2>4. Tidy(m2, Q \ {ct[s]}) /\ m2.process # "runs"
    <3>1. PICK c : c = ct[s] OBVIOUS
    <3>2. Tidy(m1, Q) /\ c \in Q \cup Permanent BY <2>3, <3>1
    <3>3. /\ Tidy(DeleteList(m1, c), Q \ {c}) /\ DeleteList(m1, c).process = m1.process
      BY ONLY <3>2, DeleteTidy
    <3> QED BY <1>5, <1>8, <3>1, <3>3
  <2>5. Typed1(m2) BY <2>4, TidyTyped
  <2>6. Front(fs) \in Seq(Frames)
    <3>1. Popped(fs, Front(fs), Len(rs)) BY <1>1, FrontFrames
    <3> QED BY <3>1 DEF Popped
  <2>7. z \in Cells \cup {NULL} BY <1>5
  <2> QED BY ONLY <1>1, <1>5, <1>6, <2>4, <2>5, <2>6, <2>7, SoundExit
<1>9. CASE m1.process # "exited"
  <2>1. z \notin R1 /\ z \notin Permanent /\ Tidy(m1, R1 \cup {z}) BY <1>3, <1>4, <1>9 DEF Took
  <2>2. PICK Q : Q = R1 \cup {z} OBVIOUS
  <2>3. Tidy(m1, Q) /\ ct[s] \in Q \cup Permanent BY <1>7, <2>1, <2>2
  <2>4. Tidy(m2, Q \ {ct[s]}) /\ Keeps(m1.heap, m2.heap, Alive(m2.heap))
    <3>1. PICK c : c = ct[s] OBVIOUS
    <3>2. Tidy(m1, Q) /\ c \in Q \cup Permanent BY <2>3, <3>1
    <3>3. /\ Tidy(DeleteList(m1, c), Q \ {c})
          /\ Keeps(m1.heap, DeleteList(m1, c).heap, Alive(DeleteList(m1, c).heap))
      BY ONLY <3>2, DeleteTidy
    <3> QED BY <1>5, <3>1, <3>3
  <2>5. PICK R2 : R2 = ((R1 \ {ct[s]}) \cup {z}) \ Permanent OBVIOUS
  <2>6. R1 \cap Permanent = {} BY <1>5 DEF Owns
  <2>7. Q \ {ct[s]} = R2 BY <1>7, <2>1, <2>2, <2>5, <2>6
  <2>8. Owns(Held(ct2, u, fs, ls), R2)
    BY ONLY <1>1, <1>2, <1>5, <2>1, <2>5, ct2 = [ct EXCEPT ![s] = z], OwnsSymbol
  <2>9. Tidy(m2, R2) BY <2>4, <2>7
  <2>10. Framed(fs, m2.heap)
    <3>1. PICK B : B = Alive(m2.heap) /\ B \in {Alive(m1.heap), Alive(m2.heap)} OBVIOUS
    <3>2. Keeps(m1.heap, m2.heap, B) BY <2>4, <3>1
    <3> QED BY ONLY <1>5, <2>8, <2>9, <3>1, <3>2, FramedNext
  <2>11. Last(fs).fn # "list" /\ Last(fs).save <= Len(u) BY <1>5
  <2>12. z = ct2[s] BY <1>6
  <2> QED BY ONLY <1>1, <1>2, <1>5, <1>6, <2>8, <2>9, <2>10, <2>11, <2>12, fs # <<>>, ReferGood
<1> QED BY <1>8, <1>9

(* What symbols print. *)
\* No cell of D that is in use belongs to c.
Spared(h, R, c, D) == \A d \in D : d \in Alive(h) => \E r \in R : r # c /\ d \in Tree(h, r)
\* A root prints the same if the cells that change are other roots' cells.
LEMMA SparedPrints ==
  ASSUME NEW h, NEW R, Shape(h, R), NEW g, NEW Q, Shape(g, Q), NEW D, Agrees(h, g, D),
         NEW c \in R \cup Permanent, c \in Q \cup Permanent, Spared(h, R, c, D)
  PROVE  Prints(g, c) = Prints(h, c)
<1>1. /\ R \subseteq Alive(h) /\ Alive(h) \subseteq Cells /\ Q \subseteq Alive(g) /\ Treelike(h)
      /\ nilCell \notin Alive(h) /\ \A x \in Cells : Below(h, x) \in Alive(h) \cup {nilCell}
  BY ShapeFacts
<1>2. PICK E : E = D \cap Alive(h) OBVIOUS
<1>3. Agrees(h, g, E) BY <1>2 DEF Agrees
<1>4. c \notin E /\ Tree(h, Below(h, c)) \cap E = {}
  <2>1. CASE c \in Permanent
    <3>1. c \notin Alive(h) BY <2>1 DEF Alive
    <3>2. h[c].type # "list"
      <4>1. h[nilCell].type = "nil" /\ h[trueCell].type = "true" BY DEF Shape
      <4> QED BY <2>1, <4>1 DEF Permanent
    <3>3. Tree(h, Below(h, c)) = {} BY <3>2 DEF Below, Tree
    <3> QED BY <1>2, <3>1, <3>3
  <2>2. CASE c \notin Permanent
    <3>1. c \in R /\ c \in Alive(h) /\ c \in Cells /\ c # nilCell BY <1>1, <2>2
    <3>2. \A d \in E : \E r \in R : r # c /\ d \in Tree(h, r) BY <1>2 DEF Spared
    <3>3. Tree(h, c) = {c} \cup Tree(h, Below(h, c)) \cup Tree(h, After(h, c))
      BY <1>1, <3>1, TreeParts
    <3>4. ASSUME NEW d \in E PROVE d \notin Tree(h, c)
      <4>1. PICK r \in R : r # c /\ d \in Tree(h, r) BY <3>2
      <4>2. Tree(h, r) \cap Tree(h, c) = {} BY <3>1, <4>1, TreesApart
      <4> QED BY <4>1, <4>2
    <3> QED BY <3>3, <3>4
  <2> QED BY <2>1, <2>2
<1>5. c \in Alive(h) \cup Permanent /\ c \in Alive(g) \cup Permanent BY <1>1
<1> QED BY ONLY Shape(h, R), Shape(g, Q), <1>3, <1>4, <1>5, Untouched

\* What symbols have is owned in heap h.
Settled(h, ct, Q) == Shape(h, Q) /\ \A t \in Syms : ct[t] \in Q \cup Permanent
\* So it is in a sound state.
LEMMA SoundSettled ==
  ASSUME NEW m, NEW ct, NEW rs, NEW fs, NEW ls, NEW v, Sound(m, ct, rs, fs, ls, v),
         m.process = "runs"
  PROVE  \E Q : Settled(m.heap, ct, Q) /\ (v # NULL => v \in Alive(m.heap) \cup Permanent)
<1>1. Shaped(ct, rs, fs, ls, v) /\ \E R : Good(m, ct, rs, fs, ls, v, R) BY DEF Sound
<1>2. PICK R : Good(m, ct, rs, fs, ls, v, R) BY <1>1
<1>3. rs \in Seq(Cells) BY <1>1 DEF Shaped
<1>4. Owns(Held(ct, rs, fs, ls), R) /\ Tidy(m, R) /\ Valued(m.heap, rs, fs, v) BY <1>2 DEF Good
<1>5. \A t \in Syms : ct[t] \in R \cup Permanent BY <1>3, <1>4, SymbolOwned
<1>6. Shape(m.heap, R) BY <1>4 DEF Tidy, Owned
<1>7. v # NULL => v \in Alive(m.heap) \cup Permanent BY <1>4 DEF Valued
<1> QED BY <1>5, <1>6, <1>7 DEF Settled
\* So it is before a step.
LEMMA ReadySettled ==
  ASSUME NEW m, NEW ct, NEW rs, NEW fs, NEW ls, NEW v, NEW R, Ready(m, ct, rs, fs, ls, v, R)
  PROVE  Settled(m.heap, ct, R)
<1>1. /\ Shape(m.heap, R) /\ Owns(Held(ct, rs, fs, ls), R) /\ rs \in Seq(Cells) BY ReadyFacts
<1>2. \A t \in Syms : ct[t] \in R \cup Permanent BY <1>1, SymbolOwned
<1> QED BY <1>1, <1>2 DEF Settled
\* A symbol that keeps its cell prints the same if the cells that change are not its own.
LEMMA SymbolPrints ==
  ASSUME NEW h, NEW ct, NEW R, Settled(h, ct, R), NEW g, NEW ct2, NEW Q, Settled(g, ct2, Q),
         NEW t \in Syms, ct2[t] = ct[t], NEW D, Agrees(h, g, D), Spared(h, R, ct[t], D)
  PROVE  Prints(g, ct2[t]) = Prints(h, ct[t])
<1>1. Shape(h, R) /\ Shape(g, Q) /\ ct[t] \in R \cup Permanent /\ ct[t] \in Q \cup Permanent
  BY DEF Settled
<1>2. Prints(g, ct[t]) = Prints(h, ct[t])
  BY ONLY <1>1, Agrees(h, g, D), Spared(h, R, ct[t], D), SparedPrints
<1> QED BY <1>2

\* Changes one after the other.
LEMMA AgreesGrow ==
  ASSUME NEW h, NEW g, NEW f, NEW D, Keeps(h, g, Alive(h)), Agrees(g, f, D)
  PROVE  Agrees(h, f, D)
<1>1. \A x \in Alive(h) : x \in Alive(g) /\ g[x] = h[x] BY DEF Keeps
<1> QED BY <1>1 DEF Agrees

\* Heaps still agree when the second loses cells.
LEMMA AgreesShrink ==
  ASSUME NEW h, NEW g, NEW f, NEW D, Agrees(h, g, D), Keeps(g, f, Alive(f))
  PROVE  Agrees(h, f, D)
<1>1. \A x \in Alive(f) : x \in Alive(g) /\ f[x] = g[x] BY DEF Keeps
<1> QED BY <1>1 DEF Agrees

\* A heap agrees with one that differs from it only in D.
LEMMA AgreesWrite ==
  ASSUME NEW h, NEW g, NEW D, \A x \in Cells \ D : g[x] = h[x]
  PROVE  Agrees(h, g, D)
<1>1. Alive(h) \subseteq Cells BY DEF Alive
<1> QED BY <1>1 DEF Agrees

\* The empty set holds no cell of any tree.
LEMMA SparedNone ==
  ASSUME NEW h, NEW R, NEW c
  PROVE  Spared(h, R, c, {})
BY DEF Spared

\* The value that a function takes.
TookAs(m, ct, R, v, new, t) ==
  /\ Prints(new.mem.heap, new.cell) = Prints(m.heap, v)
  /\ Keeps(m.heap, new.mem.heap, Alive(m.heap))
  /\ Spared(m.heap, R, ct[t], {new.cell})
  /\ new.cell \in Alive(m.heap) => new.cell \in R
\* It prints what was to be taken, and is no symbol's.
LEMMA TookPrints ==
  ASSUME NEW m, NEW ct, NEW rs, NEW fs, NEW ls, NEW v, NEW R, Ready(m, ct, rs, fs, ls, v, R),
         v # NULL, NEW new, new = Taking(m, rs, v), new.mem.process = "runs", NEW t \in Syms
  PROVE  TookAs(m, ct, R, v, new, t)
<1>1. /\ Tidy(m, R) /\ Owns(Held(ct, rs, fs, ls), R) /\ rs \in Seq(Cells)
      /\ v \in Alive(m.heap) \cup Permanent /\ Shape(m.heap, R) /\ R \subseteq Alive(m.heap)
      /\ m.process = "runs" BY ReadyFacts DEF Valued
<1>2. CASE IsLast(rs, v)
  <2>1. new = [cell |-> v, mem |-> m, results |-> Front(rs)] BY <1>2 DEF Taking
  <2>2. new.cell = v /\ new.mem = m BY <2>1
  <2>3. v # ct[t] BY <1>1, <1>2, SymbolOwned
  <2>4. v \in R BY <1>1, <1>2, LinkedNotLast
  <2>5. v \in Tree(m.heap, v) BY <1>1, <2>4, TreeFacts
  <2>6. Spared(m.heap, R, ct[t], {v}) BY <2>3, <2>4, <2>5 DEF Spared
  <2>7. Keeps(m.heap, m.heap, Alive(m.heap)) BY KeepsAll
  <2> QED BY <2>2, <2>4, <2>6, <2>7 DEF TookAs
<1>3. CASE ~IsLast(rs, v)
  <2>1. PICK copy : copy = Copy(m, v) OBVIOUS
  <2>2. new = [cell |-> copy.cell, mem |-> copy.mem, results |-> rs] BY <1>3, <2>1 DEF Taking
  <2>3. new.cell = copy.cell /\ new.mem = copy.mem BY <2>2
  <2>4. copy.mem.process # "exited" BY <2>3
  <2>5. Prints(copy.mem.heap, copy.cell) = Prints(m.heap, v) BY ONLY <1>1, <2>1, <2>4, CopyPrints
  <2>6. Fresh(m, R, copy) BY ONLY <1>1, <2>1, CopyTidy
  <2>7. copy.cell \notin Alive(m.heap) /\ Keeps(m.heap, copy.mem.heap, Alive(m.heap))
    BY <2>4, <2>6 DEF Fresh
  <2>8. Spared(m.heap, R, ct[t], {copy.cell}) BY <2>7 DEF Spared
  <2> QED BY <2>3, <2>5, <2>7, <2>8 DEF TookAs
<1> QED BY <1>2, <1>3
=============================================================================
