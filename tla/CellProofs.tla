------------------------------ MODULE CellProofs ------------------------------
(***************************************************************************)
(* Proofs about CellMemory, part 3 of 3: push, catch, throw, errors, reset *)
(* and startup keep a process ready, so every action of Next keeps IndInv; *)
(* and what follows from IndInv: the types, the free list, one reference   *)
(* to each cell in use, and the last cells that lists remember.  At the    *)
(* end, what symbols print in two states one step apart: variables behave  *)
(* as if each held its own copy.  All hold for any number and size of      *)
(* blocks, any symbols and any bounds.                                     *)
(***************************************************************************)
EXTENDS CellStepProofs

(* Steps: push on a symbol that has no list. *)

\* The tree of a cell nobody's link leads to, that is no list.
LEMMA LeafTree ==
  ASSUME NEW h, NEW R, Shape(h, R), NEW c \in R, h[c].type # "list"
  PROVE  Tree(h, c) = {c}
<1>1. h \in Heaps /\ Treelike(h) /\ c \in Cells /\ c # nilCell /\ After(h, c) = nilCell
  BY ShapeFacts
<1>2. Below(h, c) = nilCell BY DEF Below
<1>3. Tree(h, c) = {c} \cup Tree(h, nilCell) \cup Tree(h, nilCell) BY <1>1, <1>2, TreeParts
<1> QED BY <1>3 DEF Tree

\* The function at the end of fs has a symbol.
LEMMA TopSymbol ==
  ASSUME NEW fs \in Seq(Frames), fs # <<>>, NEW h, Framed(fs, h),
         Last(fs).fn \in {"set", "push", "append"}
  PROVE  Last(fs).sym \in Syms
<1>1. PICK l \in Nat : l = Len(fs) /\ l > 0 /\ Last(fs) = fs[l] BY DEF Last
<1>2. l \in 1..Len(fs) /\ fs[l].fn \in {"set", "push", "append"} BY <1>1
<1> QED BY <1>1, <1>2 DEF Framed

\* A symbol's cell is deleted while nil is in its place.
LEMMA ClearStep ==
  ASSUME NEW m, NEW ct, NEW rs, NEW fs, NEW ls, NEW v, NEW R, Ready(m, ct, rs, fs, ls, v, R),
         NEW s \in Syms, NEW c, c = ct[s], m.heap[c].type # "list", v # c \/ c \in Permanent,
         NEW m0, m0 = DeleteList(m, c), NEW ct0, ct0 = [ct EXCEPT ![s] = nilCell]
  PROVE  Ready(m0, ct0, rs, fs, ls, v, R \ {c})
<1>1. /\ ct \in [Syms -> Cells] /\ rs \in Seq(Cells) /\ fs \in Seq(Frames)
      /\ ls \in SUBSET Cells /\ v \in Cells \cup {NULL}
      /\ Tidy(m, R) /\ Owns(Held(ct, rs, fs, ls), R)
      /\ Stacked(fs, Len(rs)) /\ Framed(fs, m.heap) /\ Valued(m.heap, rs, fs, v)
      /\ m.process = "runs" /\ Shape(m.heap, R) /\ nilCell \notin R
  <2>1. R \subseteq Alive(m.heap) /\ Alive(m.heap) \cap Permanent = {} BY ReadyFacts
  <2> QED BY <2>1, ReadyFacts DEF Permanent
<1>2. c \in R \cup Permanent BY <1>1, SymbolOwned
<1>3. /\ Tidy(m0, R \ {c}) /\ m0.process = "runs" /\ Keeps(m.heap, m0.heap, Alive(m0.heap))
      /\ \A x \in Alive(m.heap) : c \in Permanent \/ x \notin Tree(m.heap, c) => x \in Alive(m0.heap)
  <2>1. Tidy(m, R) /\ c \in R \cup Permanent BY <1>1, <1>2
  <2>2. /\ Tidy(DeleteList(m, c), R \ {c}) /\ DeleteList(m, c).process = m.process
        /\ Keeps(m.heap, DeleteList(m, c).heap, Alive(DeleteList(m, c).heap))
        /\ \A x \in Alive(m.heap) : c \in Permanent \/ x \notin Tree(m.heap, c)
                                     => x \in Alive(DeleteList(m, c).heap)
    BY ONLY <2>1, DeleteTidy
  <2> QED BY <1>1, <2>2
<1>4. Owns(Held(ct0, rs, fs, ls), R \ {c})
  <2>1. PICK Q : Q = ((R \ {ct[s]}) \cup {nilCell}) \ Permanent OBVIOUS
  <2>2. Owns(Held(ct0, rs, fs, ls), Q)
    BY ONLY <1>1, <2>1, s \in Syms, ct0 = [ct EXCEPT ![s] = nilCell], OwnsSymbol
  <2>3. R \cap Permanent = {} BY <1>1 DEF Owns
  <2>4. Q = R \ {c} BY <2>1, <2>3 DEF Permanent
  <2> QED BY <2>2, <2>4
<1>5. Framed(fs, m0.heap)
  <2>1. PICK B : B = Alive(m0.heap) /\ B \in {Alive(m.heap), Alive(m0.heap)} OBVIOUS
  <2>2. Keeps(m.heap, m0.heap, B) BY <1>3, <2>1
  <2>3. PICK Q : Q = R \ {c} OBVIOUS
  <2>4. Tidy(m0, Q) /\ Owns(Held(ct0, rs, fs, ls), Q) BY <1>3, <1>4, <2>3
  <2> QED BY ONLY <1>1, <2>1, <2>2, <2>4, FramedNext
<1>6. Valued(m0.heap, rs, fs, v)
  <2>1. ASSUME v \in Alive(m.heap) PROVE v \in Alive(m0.heap)
    <3>1. CASE c \in Permanent BY <1>3, <2>1, <3>1
    <3>2. CASE c \notin Permanent
      <4>1. c \in R BY <1>2, <3>2
      <4>2. Tree(m.heap, c) = {c} BY <1>1, <4>1, LeafTree
      <4> QED BY <1>3, <2>1, <3>2, <4>2
    <3> QED BY <3>1, <3>2
  <2> QED BY <1>1, <2>1 DEF Valued
<1>7. ct0 \in [Syms -> Cells] BY <1>1, Special
<1>8. Shaped(ct0, rs, fs, ls, v) BY <1>1, <1>7 DEF Shaped
<1>9. Good(m0, ct0, rs, fs, ls, v, R \ {c}) BY <1>1, <1>3, <1>4, <1>5, <1>6 DEF Good
<1> QED BY <1>3, <1>8, <1>9 DEF Ready

\* A list with the value takes the symbol's place.
LEMMA NewListStep ==
  ASSUME NEW m, NEW ct, NEW rs, NEW fs, NEW ls, NEW v, NEW R, Ready(m, ct, rs, fs, ls, v, R),
         fs # <<>>, v # NULL, NEW f, f = Last(fs), f.fn # "list", NEW s \in Syms, ct[s] = nilCell,
         NEW new, new = Taking(m, rs, v), NEW z, z = new.cell,
         NEW got, got = GetCell(new.mem, "list", z), NEW l, l = got.cell, NEW m2, m2 = got.mem,
         NEW ct2, ct2 = [ct EXCEPT ![s] = l], NEW u, u = new.results
  PROVE  Sound(m2, ct2, u, Front(fs), ls, l)
<1>1. /\ ct \in [Syms -> Cells] /\ rs \in Seq(Cells) /\ fs \in Seq(Frames)
      /\ ls \in SUBSET Cells /\ Framed(fs, m.heap) /\ Stacked(fs, Len(rs)) BY ReadyFacts
<1>2. PICK R1 : Took(m, ct, rs, fs, ls, f, R1, new)
  <2>1. Takes(m, ct, rs, fs, ls, f, new) BY TookValue
  <2> QED BY <2>1 DEF Takes
<1>3. PICK m1 : m1 = new.mem OBVIOUS
<1>4. /\ Owns(Held(ct, u, fs, ls), R1) /\ u \in Seq(Cells) /\ f.save <= Len(u)
      /\ Framed(fs, m1.heap) /\ z \in Cells BY <1>2, <1>3 DEF Took
<1>5. got = GetCell(m1, "list", z) BY <1>3
<1>6. Front(fs) \in Seq(Frames)
  <2>1. Popped(fs, Front(fs), Len(rs)) BY <1>1, FrontFrames
  <2> QED BY <2>1 DEF Popped
<1>7. PICK t : t = "list" /\ t \in {"atom", "list"} /\ (t = "atom" => z = nilCell) OBVIOUS
<1>8. ASSUME l \in Cells, Typed1(m2), m2.process # "runs" PROVE Sound(m2, ct2, u, Front(fs), ls, l)
  <2>1. ct2 \in [Syms -> Cells] BY <1>1, <1>8
  <2>2. l \in Cells \cup {NULL} BY <1>8
  <2> QED BY ONLY <1>1, <1>4, <1>6, <1>8, <2>1, <2>2, SoundExit
<1>9. CASE m1.process = "exited"
  <2>1. z = nilCell /\ \E A : Tidy(m1, R1 \cup A) BY <1>2, <1>3, <1>9 DEF Took
  <2>2. PICK Q : Tidy(m1, Q) BY <2>1
  <2>3. Got(m1, Q, t, z, got)
    <3>1. z \in Q \cup {nilCell} /\ got = GetCell(m1, t, z) BY <1>5, <1>7, <2>1
    <3> QED BY ONLY <1>7, <2>2, <3>1, GetTidy
  <2>4. m2.process = "exited" /\ l = nilCell /\ Tidy(m2, Q) BY <1>9, <2>3 DEF Got
  <2> QED BY <1>8, <2>4, TidyTyped, Special
<1>10. CASE m1.process # "exited"
  <2>1. /\ m1.process = "runs" /\ z \notin R1 /\ z \notin Permanent /\ Tidy(m1, R1 \cup {z})
    BY <1>2, <1>3, <1>10 DEF Took
  <2>0. PICK Q : Q = R1 \cup {z} OBVIOUS
  <2>2. Q = R1 \cup {z} /\ Q \ {z} = R1
    <3>1. z \notin R1 BY <2>1
    <3> QED BY ONLY <2>0, <3>1
  <2>3. Tidy(m1, Q) /\ z \in Q \cup {nilCell} /\ got = GetCell(m1, t, z) BY <1>5, <1>7, <2>1, <2>2
  <2>4. Got(m1, Q, t, z, got) BY ONLY <1>7, <2>3, GetTidy
  <2>5. CASE m2.process = "exited"
    <3>1. l = nilCell /\ Tidy(m2, Q) BY <1>10, <2>4, <2>5, <2>1 DEF Got
    <3> QED BY <1>8, <2>5, <3>1, TidyTyped, Special
  <2>6. CASE m2.process # "exited"
    <3>1. /\ l \in Cells /\ l \notin Alive(m1.heap) /\ l \notin Permanent
          /\ Tidy(m2, R1 \cup {l}) /\ Keeps(m1.heap, m2.heap, Alive(m1.heap))
      BY <2>2, <2>4, <2>6 DEF Got
    <3>2. Q \subseteq Alive(m1.heap) BY <2>3 DEF Tidy, Owned, Shape
    <3>3. l \notin R1 BY <2>2, <3>1, <3>2
    <3>4. PICK R2 : R2 = ((R1 \ {ct[s]}) \cup {l}) \ Permanent OBVIOUS
    <3>5. Owns(Held(ct2, u, fs, ls), R2)
      BY ONLY <1>1, <1>4, <3>3, <3>4, s \in Syms, ct2 = [ct EXCEPT ![s] = l], OwnsSymbol
    <3>6. R1 \cap Permanent = {} BY <1>4 DEF Owns
    <3>7. R2 = R1 \cup {l} BY <3>1, <3>4, <3>6 DEF Permanent
    <3>8. Tidy(m2, R2) BY <3>1, <3>7
    <3>9. Framed(fs, m2.heap)
      <4>1. PICK B : B = Alive(m1.heap) /\ B \in {Alive(m1.heap), Alive(m2.heap)} OBVIOUS
      <4>2. Keeps(m1.heap, m2.heap, B) BY <3>1, <4>1
      <4> QED BY ONLY <1>4, <3>5, <3>8, <4>1, <4>2, FramedNext
    <3>10. Last(fs).fn # "list" /\ Last(fs).save <= Len(u) BY <1>4
    <3>11. ct2 \in [Syms -> Cells] /\ l = ct2[s] BY <1>1, <3>1
    <3> QED BY ONLY <1>1, <1>4, <3>5, <3>8, <3>9, <3>10, <3>11, s \in Syms, fs # <<>>, ReferGood
  <2> QED BY <2>5, <2>6
<1> QED BY <1>9, <1>10

\* Symbol s, with no list, gets one with v: the list l.
PushedOnNil(m, ct, rs, v, s, m2, ct2, u, l) ==
  \E new, got : /\ new = Taking(DeleteList(m, ct[s]), rs, v)
                /\ got = GetCell(new.mem, "list", new.cell)
                /\ l = got.cell /\ m2 = got.mem /\ u = new.results
                /\ ct2 = [ct EXCEPT ![s] = l]

\* p_push on a symbol that is nil, of another value.
LEMMA PushOnNilStep ==
  ASSUME NEW m, NEW ct, NEW rs, NEW fs, NEW ls, NEW v, NEW R, Ready(m, ct, rs, fs, ls, v, R),
         fs # <<>>, v # NULL, NEW f, f = Last(fs), f.fn \in {"push", "append"},
         NEW s, s = f.sym, NEW c, c = ct[s], m.heap[c].type = "nil", v # c \/ c \in Permanent,
         NEW m2, NEW ct2, NEW u, NEW l, PushedOnNil(m, ct, rs, v, s, m2, ct2, u, l)
  PROVE  Sound(m2, ct2, u, Front(fs), ls, l)
<1>1. fs \in Seq(Frames) /\ Framed(fs, m.heap) /\ ct \in [Syms -> Cells] BY ReadyFacts
<1>2. s \in Syms BY <1>1, TopSymbol
<1>9. PICK new, got : /\ new = Taking(DeleteList(m, ct[s]), rs, v)
                      /\ got = GetCell(new.mem, "list", new.cell)
                      /\ l = got.cell /\ m2 = got.mem /\ u = new.results
                      /\ ct2 = [ct EXCEPT ![s] = l] BY DEF PushedOnNil
<1>3. PICK m0, ct0, z : m0 = DeleteList(m, c) /\ ct0 = [ct EXCEPT ![s] = nilCell] /\ z = new.cell
  OBVIOUS
<1>4. m.heap[c].type # "list" /\ (v # c \/ c \in Permanent) BY <1>3
<1>5. PICK Q : Ready(m0, ct0, rs, fs, ls, v, Q)
  <2>1. Ready(m0, ct0, rs, fs, ls, v, R \ {c})
    BY ONLY <1>2, <1>3, <1>4, c = ct[s], Ready(m, ct, rs, fs, ls, v, R), ClearStep
  <2> QED BY <2>1
<1>6. ct0[s] = nilCell /\ ct2 = [ct0 EXCEPT ![s] = l] BY <1>1, <1>2, <1>3, <1>9
<1>7. new = Taking(m0, rs, v) /\ got = GetCell(new.mem, "list", z) BY <1>3, <1>9
<1>8. f.fn # "list" OBVIOUS
<1>10. l = got.cell /\ m2 = got.mem /\ u = new.results BY ONLY <1>9
<1> QED BY ONLY <1>2, <1>3, <1>5, <1>6, <1>7, <1>8, <1>10, fs # <<>>, v # NULL, f = Last(fs), NewListStep

(* Steps: push on a list. *)

\* The end of a root's list is in no other root's tree.
LEMMA EndApart ==
  ASSUME NEW h, NEW R, Shape(h, R), NEW z \in R, NEW y \in R, y # z, NEW e, EndOf(h, y, e)
  PROVE  e \in Alive(h) \ R /\ e # y /\ e \notin Tree(h, z) /\ e \in Cells
<1>1. /\ Ranked(h) /\ Treelike(h) /\ y \in Alive(h) /\ y \in Cells /\ z \in Alive(h)
      /\ nilCell \notin Alive(h) BY ShapeFacts
<1>2. e \in List(h, Below(h, y)) BY DEF EndOf
<1>3. e \in Alive(h) \ R BY <1>1, <1>2, ListAlive
<1>4. e \in Tree(h, y)
  <2>1. Below(h, y) \in Cells BY <1>1, KidsType
  <2>2. e \in Tree(h, Below(h, y)) BY <1>1, <1>2, <2>1, ListInTree
  <2>3. y # nilCell BY <1>1
  <2> QED BY <1>1, <2>2, <2>3, TreeParts
<1>5. Tree(h, y) \cap Tree(h, z) = {} BY TreesApart
<1> QED BY <1>1, <1>3, <1>4, <1>5 DEF Alive

\* What a symbol has gets another element, and is returned.
LEMMA HungGood ==
  ASSUME NEW m, NEW R, NEW z, NEW ct \in [Syms -> Cells], NEW rs \in Seq(Cells),
         NEW fs \in Seq(Frames), NEW ls \in SUBSET Cells, fs # <<>>, Last(fs).fn # "list",
         Owns(Held(ct, rs, fs, ls), R), Framed(fs, m.heap), NEW w, Stacked(fs, w),
         Last(fs).save <= Len(rs), NEW s \in Syms, NEW p, p = ct[s], p \in R,
         NEW g, NEW m2, Relinked(m, R, g, m2, Alive(m.heap) \ {p})
  PROVE  Sound(m2, ct, rs, Front(fs), ls, p)
<1>1. Tidy(m2, R) /\ m2.heap = g /\ Holds(m.heap, g, Alive(m.heap) \ {p}) BY DEF Relinked
<1>2. \A k \in Building(fs) : fs[k].cell \in Alive(m.heap) \ {p}
  <2>1. \A k \in Building(fs) : fs[k].cell \in Alive(m.heap) BY FramesAlive
  <2>2. ct[s] \notin Permanent BY DEF Owns
  <2>3. \A k \in Building(fs) : ct[s] \notin Permanent => fs[k].cell # ct[s] BY SymbolOwned
  <2> QED BY <2>1, <2>2, <2>3
<1>3. Framed(fs, g) BY ONLY <1>1, <1>2, Framed(fs, m.heap), FramedKept
<1>4. Framed(fs, m2.heap) BY <1>1, <1>3
<1>5. Tidy(m2, R) BY <1>1
<1> QED BY ONLY <1>4, <1>5, ct \in [Syms -> Cells], rs \in Seq(Cells), fs \in Seq(Frames),
           ls \in SUBSET Cells, fs # <<>>, Last(fs).fn # "list", Owns(Held(ct, rs, fs, ls), R),
           Stacked(fs, w), Last(fs).save <= Len(rs), s \in Syms, p = ct[s], ReferGood

\* The value is taken while symbol s has a list p.
TookFor(m, ct, fs, ls, f, p, R1, m1, z, u) ==
  /\ ct \in [Syms -> Cells] /\ u \in Seq(Cells) /\ fs \in Seq(Frames) /\ ls \in SUBSET Cells
  /\ Owns(Held(ct, u, fs, ls), R1) /\ Framed(fs, m1.heap) /\ f.save <= Len(u)
  /\ p \in R1 /\ p \in Cells /\ p # nilCell /\ z \in Cells /\ z # p /\ Typed1(m1)
  /\ Front(fs) \in Seq(Frames) /\ m1.heap[p] = m.heap[p] /\ p \in Alive(m.heap)
  /\ \A e : EndOf(m.heap, p, e) => EndOf(m1.heap, p, e)
  /\ \/ m1.process # "runs" /\ z = nilCell
     \/ m1.process = "runs" /\ z \notin R1 /\ z \notin Permanent /\ Tidy(m1, R1 \cup {z})
TakesFor(m, ct, fs, ls, f, p, m1, z, u) == \E R1 : TookFor(m, ct, fs, ls, f, p, R1, m1, z, u)
\* The list p of a symbol is as it was when the value for it has been taken.
LEMMA TakeFor ==
  ASSUME NEW m, NEW ct, NEW rs, NEW fs, NEW ls, NEW v, NEW R, Ready(m, ct, rs, fs, ls, v, R),
         fs # <<>>, v # NULL, NEW f, f = Last(fs), NEW s \in Syms, NEW p, p = ct[s],
         m.heap[p].type = "list", NEW new, new = Taking(m, rs, v),
         NEW m1, m1 = new.mem, NEW z, z = new.cell, NEW u, u = new.results
  PROVE  TakesFor(m, ct, fs, ls, f, p, m1, z, u)
<1>1. /\ ct \in [Syms -> Cells] /\ rs \in Seq(Cells) /\ fs \in Seq(Frames)
      /\ ls \in SUBSET Cells /\ Framed(fs, m.heap) /\ Stacked(fs, Len(rs)) /\ Shape(m.heap, R)
      /\ Alive(m.heap) \cap Permanent = {} BY ReadyFacts
<1>2. PICK R1 : Took(m, ct, rs, fs, ls, f, R1, new)
  <2>1. Takes(m, ct, rs, fs, ls, f, new) BY TookValue
  <2> QED BY <2>1 DEF Takes
<1>3. /\ Owns(Held(ct, u, fs, ls), R1) /\ u \in Seq(Cells) /\ f.save <= Len(u)
      /\ Framed(fs, m1.heap) /\ z \in Cells /\ Keeps(m.heap, m1.heap, Alive(m.heap))
  BY <1>2 DEF Took
<1>4. ct[s] \in R /\ ct[s] \in Alive(m.heap) /\ ct[s] \in Cells BY SymbolAlive
<1>5. p \in R1
  <2>1. ct[s] \in R1 \cup Permanent BY <1>3, SymbolOwned
  <2> QED BY <1>1, <1>4, <2>1
<1>6. p # nilCell BY <1>1, <1>4 DEF Permanent
<1>7. Front(fs) \in Seq(Frames)
  <2>1. Popped(fs, Front(fs), Len(rs)) BY <1>1, FrontFrames
  <2> QED BY <2>1 DEF Popped
<1>8. m1.heap[p] = m.heap[p] /\ \A e : EndOf(m.heap, p, e) => EndOf(m1.heap, p, e)
  BY <1>3, <1>4 DEF Keeps
<1>9. \/ m1.process # "runs" /\ z = nilCell
      \/ m1.process = "runs" /\ z \notin R1 /\ z \notin Permanent /\ Tidy(m1, R1 \cup {z})
  BY <1>2 DEF Took
<1>10. Typed1(m1)
  <2>1. \E A : Tidy(m1, R1 \cup A) BY <1>2 DEF Took
  <2> QED BY <2>1, TidyTyped
<1>11. z # p BY <1>5, <1>6, <1>9
<1>12. TookFor(m, ct, fs, ls, f, p, R1, m1, z, u)
  BY <1>1, <1>3, <1>4, <1>5, <1>6, <1>7, <1>8, <1>9, <1>10, <1>11 DEF TookFor
<1> QED BY <1>12 DEF TakesFor

\* z is put before the elements of p, which begin with d.
PushedFirst(m, z, p, d) ==
  [m EXCEPT !.heap[z].next = d, !.heap[p].contents = z, !.heap[p].aux = nilCell]

\* (push value s)
LEMMA PushFrontStep ==
  ASSUME NEW m, NEW ct, NEW rs, NEW fs, NEW ls, NEW v, NEW R, Ready(m, ct, rs, fs, ls, v, R),
         fs # <<>>, v # NULL, NEW f, f = Last(fs), f.fn \in {"push", "append"}, NEW s, s = f.sym,
         NEW p, p = ct[s], m.heap[p].type = "list", NEW new, new = Taking(m, rs, v),
         NEW m1, m1 = new.mem, NEW z, z = new.cell, NEW u, u = new.results, NEW m2,
         m2 = PushedFirst(m1, z, p, m.heap[p].contents)
  PROVE  Sound(m2, ct, u, Front(fs), ls, p)
<1>1. fs \in Seq(Frames) /\ Framed(fs, m.heap) /\ Stacked(fs, Len(rs)) BY ReadyFacts
<1>2. s \in Syms BY <1>1, TopSymbol
<1>3. PICK R1 : TookFor(m, ct, fs, ls, f, p, R1, m1, z, u)
  <2>1. TakesFor(m, ct, fs, ls, f, p, m1, z, u) BY <1>2, TakeFor
  <2> QED BY <2>1 DEF TakesFor
<1>4. /\ ct \in [Syms -> Cells] /\ u \in Seq(Cells) /\ ls \in SUBSET Cells
      /\ Owns(Held(ct, u, fs, ls), R1) /\ Framed(fs, m1.heap) /\ f.save <= Len(u)
      /\ p \in R1 /\ p \in Cells /\ p # nilCell /\ z \in Cells /\ z # p /\ Typed1(m1)
      /\ Front(fs) \in Seq(Frames) /\ m1.heap[p] = m.heap[p] BY <1>3 DEF TookFor
<1>5. PICK h, d : h = m1.heap /\ d = h[p].contents OBVIOUS
<1>6. h \in [Cells -> CellRecords] BY <1>4, <1>5, HeapTyped
<1>7. d \in Cells
  <2>1. h[p] \in CellRecords BY <1>4, <1>6
  <2> QED BY ONLY <1>5, <2>1 DEF CellRecords
<1>8. m2 = [m1 EXCEPT !.heap[z].next = d, !.heap[p].contents = z, !.heap[p].aux = nilCell]
  <2>1. d = m.heap[p].contents BY <1>4, <1>5
  <2> QED BY <2>1 DEF PushedFirst
<1>9. Changed(m1, z, Cell(h[z].type, d, h[z].aux, h[z].contents),
              p, Cell(h[p].type, h[p].next, nilCell, z), m2) /\ Typed1(m2)
              /\ m2.process = m1.process
  <2>1. Typed1(m1) /\ h = m1.heap /\ z \in Cells /\ p \in Cells /\ p # z BY <1>4, <1>5
  <2>2. FrontWritten(m1, h, z, p, d, m2) BY ONLY <1>7, <1>8, <2>1, WritePushFront
  <2> QED BY ONLY <2>2 DEF FrontWritten
<1>10. CASE m1.process # "runs"
  <2>1. p \in Cells \cup {NULL} BY <1>4
  <2>2. m2.process # "runs" /\ Typed1(m2) BY <1>9, <1>10
  <2> QED BY ONLY <1>4, <2>1, <2>2, SoundExit
<1>11. CASE m1.process = "runs"
  <2>1. PICK g \in [Cells -> CellRecords] :
          /\ g[z] = Cell(h[z].type, d, h[z].aux, h[z].contents)
          /\ g[p] = Cell(h[p].type, h[p].next, nilCell, z)
          /\ \A x \in Cells \ {p, z} : g[x] = h[x]
          /\ m2 = [m1 EXCEPT !.heap = g]
    <3>1. Changed(m1, z, Cell(h[z].type, d, h[z].aux, h[z].contents),
                  p, Cell(h[p].type, h[p].next, nilCell, z), m2) BY <1>9
    <3> QED BY ONLY <1>5, <3>1 DEF Changed
  <2>2. z \notin R1 /\ Tidy(m1, R1 \cup {z}) BY <1>3, <1>11 DEF TookFor
  <2>3. PICK Q : Q = R1 \cup {z} OBVIOUS
  <2>4. Q \ {z} = R1 BY ONLY <2>2, <2>3
  <2>5. Shape(h, Q) /\ z \in Q /\ p \in Q /\ p \in Alive(h) /\ z \in Alive(h) /\ Tidy(m1, Q)
    BY <1>4, <1>5, <2>2, <2>3 DEF Tidy, Owned, Shape
  <2>6. p \notin Tree(h, z) BY <1>4, <2>5, RootTree
  <2>7. PICK a : a = nilCell OBVIOUS
  <2>8. HungFirst(m1, Q, z, p, g, m2)
    <3>1. h[p].type = "list" BY <1>4, <1>5
    <3>2. a \in {h[p].aux, nilCell} \/ (a = z /\ h[p].contents = nilCell) BY <2>7
    <3>3. \A x \in Cells \ {z, p} : g[x] = h[x] BY <2>1
    <3>4. g[z] = Cell(h[z].type, h[p].contents, h[z].aux, h[z].contents) BY <1>5, <2>1
    <3>5. g[p] = Cell("list", h[p].next, a, z) BY <2>1, <2>7, <3>1
    <3>6. m2 = [m1 EXCEPT !.heap = g] /\ h = m1.heap BY <1>5, <2>1
    <3> QED BY ONLY <2>5, <2>6, <3>1, <3>2, <3>3, <3>4, <3>5, <3>6,
                    g \in [Cells -> CellRecords], HangFirst
  <2>9. Relinked(m1, R1, g, m2, Alive(m1.heap) \ {p}) BY <2>4, <2>8 DEF HungFirst
  <2>10. Last(fs).fn # "list" /\ Last(fs).save <= Len(u) BY <1>4
  <2> QED BY ONLY <1>1, <1>2, <1>4, <2>9, <2>10, fs # <<>>, p = ct[s], HungGood
<1> QED BY <1>10, <1>11

(* Steps: push at the end of a list. *)

\* Writes of one field.
AuxSet(m, c, d) == [m EXCEPT !.heap[c].aux = d]
NextSet(m, c, d) == [m EXCEPT !.heap[c].next = d]
ContentsSet(m, c, d) == [m EXCEPT !.heap[c].contents = d]

\* What is known when the value is taken.
TookKnown(m, ct, fs, ls, f, p, R1, m1, z, u) ==
  /\ ct \in [Syms -> Cells] /\ u \in Seq(Cells) /\ fs \in Seq(Frames) /\ ls \in SUBSET Cells
  /\ Owns(Held(ct, u, fs, ls), R1) /\ Framed(fs, m1.heap) /\ f.save <= Len(u)
  /\ p \in R1 /\ p \in Cells /\ p # nilCell /\ z \in Cells /\ z # p /\ Typed1(m1)
  /\ Front(fs) \in Seq(Frames) /\ m1.heap[p] = m.heap[p]
  /\ m1.heap \in [Cells -> CellRecords]
  /\ m1.process = "runs" =>
       /\ Tidy(m1, R1 \cup {z}) /\ (R1 \cup {z}) \ {z} = R1 /\ Shape(m1.heap, R1 \cup {z})
       /\ p \in Alive(m1.heap) /\ z \in Alive(m1.heap)
       /\ p \notin Tree(m1.heap, z)
\* What is known of the list and the value follows from how the value was taken.
LEMMA TookForFacts ==
  ASSUME NEW m, NEW ct, NEW fs, NEW ls, NEW f, NEW p, NEW R1, NEW m1, NEW z, NEW u,
         TookFor(m, ct, fs, ls, f, p, R1, m1, z, u)
  PROVE  TookKnown(m, ct, fs, ls, f, p, R1, m1, z, u)
<1>1. /\ Owns(Held(ct, u, fs, ls), R1) /\ p \in R1 /\ p \in Cells /\ z # p /\ Typed1(m1)
      /\ \/ m1.process # "runs" /\ z = nilCell
         \/ m1.process = "runs" /\ z \notin R1 /\ z \notin Permanent /\ Tidy(m1, R1 \cup {z})
  BY DEF TookFor
<1>2. ASSUME m1.process = "runs"
      PROVE  /\ Tidy(m1, R1 \cup {z}) /\ (R1 \cup {z}) \ {z} = R1 /\ Shape(m1.heap, R1 \cup {z})
             /\ p \in Alive(m1.heap) /\ z \in Alive(m1.heap)
             /\ p \notin Tree(m1.heap, z)
  <2>1. z \notin R1 /\ Tidy(m1, R1 \cup {z}) BY <1>1, <1>2
  <2>2. PICK Q : Q = R1 \cup {z} OBVIOUS
  <2>3. Q \ {z} = R1 BY ONLY <2>1, <2>2
  <2>4. Shape(m1.heap, Q) /\ z \in Q /\ p \in Q /\ p \in Alive(m1.heap) /\ z \in Alive(m1.heap)
    BY <1>1, <2>1, <2>2 DEF Tidy, Owned, Shape
  <2>5. p \notin Tree(m1.heap, z) BY <1>1, <2>4, RootTree
  <2> QED BY <2>1, <2>2, <2>3, <2>4, <2>5
<1>3. m1.heap \in [Cells -> CellRecords] BY <1>1, HeapTyped
<1> QED BY <1>2, <1>3 DEF TookFor, TookKnown

\* z comes after the last element e.
LEMMA AfterLast ==
  ASSUME NEW m, NEW ct, NEW fs, NEW ls, NEW f, NEW p, NEW R1, NEW m1, NEW z, NEW u,
         TookFor(m, ct, fs, ls, f, p, R1, m1, z, u), fs # <<>>, f = Last(fs), f.fn # "list",
         NEW s \in Syms, p = ct[s], NEW w, Stacked(fs, w), m.heap[p].type = "list",
         NEW e \in Cells, EndOf(m.heap, p, e),
         NEW ma, ma = AuxSet(m1, p, z), NEW m2, m2 = NextSet(ma, e, z)
  PROVE  Sound(m2, ct, u, Front(fs), ls, p)
<1>1. /\ ct \in [Syms -> Cells] /\ u \in Seq(Cells) /\ fs \in Seq(Frames) /\ ls \in SUBSET Cells
      /\ Owns(Held(ct, u, fs, ls), R1) /\ Framed(fs, m1.heap) /\ f.save <= Len(u)
      /\ p \in R1 /\ p \in Cells /\ p # nilCell /\ z \in Cells /\ z # p /\ Typed1(m1)
      /\ Front(fs) \in Seq(Frames) /\ m1.heap[p] = m.heap[p]
      /\ m1.heap \in [Cells -> CellRecords]
  <2>1. TookKnown(m, ct, fs, ls, f, p, R1, m1, z, u)
    BY ONLY TookFor(m, ct, fs, ls, f, p, R1, m1, z, u), TookForFacts
  <2> QED BY ONLY <2>1 DEF TookKnown
<1>2. PICK h : h = m1.heap OBVIOUS
<1>3. /\ Typed1(ma) /\ ma.process = m1.process
      /\ Sets(m1, p, Cell(h[p].type, h[p].next, z, h[p].contents), ma)
  <2>1. Typed1(m1) /\ p \in Cells /\ z \in Cells BY <1>1
  <2> QED BY ONLY <1>2, <2>1, ma = AuxSet(m1, p, z), WriteAuxOf DEF AuxSet
<1>4. PICK k : k = ma.heap OBVIOUS
<1>5. /\ Typed1(m2) /\ m2.process = ma.process
      /\ Sets(ma, e, Cell(k[e].type, z, k[e].aux, k[e].contents), m2)
  <2>1. Typed1(ma) /\ z \in Cells \cup {NULL} BY <1>1, <1>3
  <2> QED BY ONLY <1>4, <2>1, e \in Cells, m2 = NextSet(ma, e, z), WriteNextOf DEF NextSet
<1>6. CASE m1.process # "runs"
  <2>1. p \in Cells \cup {NULL} BY <1>1
  <2>2. m2.process # "runs" /\ Typed1(m2) BY <1>3, <1>5, <1>6
  <2> QED BY ONLY <1>1, <2>1, <2>2, SoundExit
<1>7. CASE m1.process = "runs"
  <2>1. PICK Q : Q = R1 \cup {z} OBVIOUS
  <2>2. /\ Tidy(m1, Q) /\ Q \ {z} = R1 /\ Shape(h, Q)
        /\ p \in Alive(h) /\ z \in Alive(h) /\ z \in Q /\ p \in Q
    <3>1. TookKnown(m, ct, fs, ls, f, p, R1, m1, z, u)
      BY ONLY TookFor(m, ct, fs, ls, f, p, R1, m1, z, u), TookForFacts
    <3>2. p \in R1 BY <1>1
    <3> QED BY ONLY <1>2, <1>7, <2>1, <3>1, <3>2 DEF TookKnown
  <2>3. EndOf(h, p, e)
    <3>1. \A d : EndOf(m.heap, p, d) => EndOf(m1.heap, p, d) BY DEF TookFor
    <3> QED BY <1>2, <3>1
  <2>4. e # p /\ e \notin Tree(h, z) BY <1>1, <2>2, <2>3, EndApart
  <2>5. k[e] = h[e] BY <1>1, <1>2, <1>3, <1>4, <2>4, SetsFacts
  <2>6. Sets(ma, e, Cell(h[e].type, z, h[e].aux, h[e].contents), m2) BY <1>5, <2>5
  <2>7. Changed(m1, p, Cell(h[p].type, h[p].next, z, h[p].contents),
                    e, Cell(h[e].type, z, h[e].aux, h[e].contents), m2)
    BY <1>1, <1>3, <2>4, <2>6, SetsOther
  <2>8. PICK g \in [Cells -> CellRecords] :
          /\ g[p] = Cell(h[p].type, h[p].next, z, h[p].contents)
          /\ g[e] = Cell(h[e].type, z, h[e].aux, h[e].contents)
          /\ \A x \in Cells \ {e, p} : g[x] = h[x]
          /\ m2 = [m1 EXCEPT !.heap = g] BY ONLY <1>2, <2>7 DEF Changed
  <2>9. PICK a : a = z OBVIOUS
  <2>10. HungNext(m1, Q, z, p, e, g, m2)
    <3>1. h[p].type = "list" BY <1>1, <1>2
    <3>2. a \in {nilCell, z} BY <2>9
    <3>3. \A x \in Cells \ {p, e} : g[x] = h[x] BY <2>8
    <3>4. g[e] = Cell(h[e].type, z, h[e].aux, h[e].contents) BY <2>8
    <3>5. g[p] = Cell("list", h[p].next, a, h[p].contents) BY <2>8, <2>9, <3>1
    <3>6. m2 = [m1 EXCEPT !.heap = g] BY <2>8
    <3> QED BY ONLY <1>2, <2>2, <2>3, <2>4, <3>1, <3>2, <3>3, <3>4, <3>5, <3>6, e \in Cells,
                    g \in [Cells -> CellRecords], HangNext
  <2>11. Relinked(m1, R1, g, m2, Alive(m1.heap) \ {p}) BY <2>2, <2>10 DEF HungNext
  <2>12. Last(fs).fn # "list" /\ Last(fs).save <= Len(u) BY <1>1
  <2> QED BY ONLY <1>1, <2>11, <2>12, fs # <<>>, p = ct[s], s \in Syms, Stacked(fs, w), HungGood
<1> QED BY <1>6, <1>7

\* z becomes the only element.
LEMMA OnlyElement ==
  ASSUME NEW m, NEW ct, NEW fs, NEW ls, NEW f, NEW p, NEW R1, NEW m1, NEW z, NEW u,
         TookFor(m, ct, fs, ls, f, p, R1, m1, z, u), fs # <<>>, f = Last(fs), f.fn # "list",
         NEW s \in Syms, p = ct[s], NEW w, Stacked(fs, w), m.heap[p].type = "list",
         m.heap[p].contents = nilCell,
         NEW ma, ma = AuxSet(m1, p, z), NEW m2, m2 = ContentsSet(ma, p, z)
  PROVE  Sound(m2, ct, u, Front(fs), ls, p)
<1>1. /\ ct \in [Syms -> Cells] /\ u \in Seq(Cells) /\ fs \in Seq(Frames) /\ ls \in SUBSET Cells
      /\ Owns(Held(ct, u, fs, ls), R1) /\ Framed(fs, m1.heap) /\ f.save <= Len(u)
      /\ p \in R1 /\ p \in Cells /\ p # nilCell /\ z \in Cells /\ z # p /\ Typed1(m1)
      /\ Front(fs) \in Seq(Frames) /\ m1.heap[p] = m.heap[p]
      /\ m1.heap \in [Cells -> CellRecords]
  <2>1. TookKnown(m, ct, fs, ls, f, p, R1, m1, z, u)
    BY ONLY TookFor(m, ct, fs, ls, f, p, R1, m1, z, u), TookForFacts
  <2> QED BY ONLY <2>1 DEF TookKnown
<1>2. PICK h : h = m1.heap OBVIOUS
<1>3. /\ Typed1(ma) /\ ma.process = m1.process
      /\ Sets(m1, p, Cell(h[p].type, h[p].next, z, h[p].contents), ma)
  <2>1. Typed1(m1) /\ p \in Cells /\ z \in Cells BY <1>1
  <2> QED BY ONLY <1>2, <2>1, ma = AuxSet(m1, p, z), WriteAuxOf DEF AuxSet
<1>4. PICK k : k = ma.heap OBVIOUS
<1>5. /\ Typed1(m2) /\ m2.process = ma.process
      /\ Sets(ma, p, Cell(k[p].type, k[p].next, k[p].aux, z), m2)
  <2>1. Typed1(ma) /\ z \in Cells /\ p \in Cells BY <1>1, <1>3
  <2> QED BY ONLY <1>4, <2>1, m2 = ContentsSet(ma, p, z), WriteContentsOf DEF ContentsSet
<1>6. CASE m1.process # "runs"
  <2>1. p \in Cells \cup {NULL} BY <1>1
  <2>2. m2.process # "runs" /\ Typed1(m2) BY <1>3, <1>5, <1>6
  <2> QED BY ONLY <1>1, <2>1, <2>2, SoundExit
<1>7. CASE m1.process = "runs"
  <2>1. PICK Q : Q = R1 \cup {z} OBVIOUS
  <2>2. /\ Tidy(m1, Q) /\ Q \ {z} = R1 /\ Shape(h, Q)
        /\ p \in Alive(h) /\ z \in Alive(h) /\ z \in Q /\ p \in Q /\ p \notin Tree(h, z)
    <3>1. TookKnown(m, ct, fs, ls, f, p, R1, m1, z, u)
      BY ONLY TookFor(m, ct, fs, ls, f, p, R1, m1, z, u), TookForFacts
    <3>2. p \in R1 BY <1>1
    <3> QED BY ONLY <1>2, <1>7, <2>1, <3>1, <3>2 DEF TookKnown
  <2>3. k[p] = Cell(h[p].type, h[p].next, z, h[p].contents)
    <3>1. Typed1(m1) /\ p \in Cells BY <1>1
    <3> QED BY ONLY <1>3, <1>4, <3>1, SetsFacts
  <2>4. k[p].type = "list" /\ k[p].next = h[p].next /\ k[p].aux = z
    <3>1. h[p].type = "list" BY <1>1, <1>2
    <3> QED BY <2>3, <3>1, CellFields
  <2>5. Sets(ma, p, Cell("list", h[p].next, z, z), m2) BY <1>5, <2>4
  <2>6. Sets(m1, p, Cell("list", h[p].next, z, z), m2) BY <1>1, <1>3, <2>5, SetsAgain
  <2>7. PICK g : Written(h, p, Cell("list", h[p].next, z, z), g) /\ m2 = [m1 EXCEPT !.heap = g]
    BY ONLY <1>2, <2>6 DEF Sets
  <2>8. h[p].contents = nilCell /\ h[p].type = "list" BY <1>1, <1>2
  <2>9. h[z].next = nilCell
    <3>1. After(h, z) = nilCell /\ h \in Heaps BY <2>2, ShapeFacts
    <3> QED BY <1>1, <2>2, <3>1, Fields
  <2>10. g[z] = Cell(h[z].type, nilCell, h[z].aux, h[z].contents)
    <3>1. h[z] = Cell(h[z].type, h[z].next, h[z].aux, h[z].contents) BY <1>1, <1>2, CellIs
    <3> QED BY <1>1, <2>7, <2>9, <3>1 DEF Written
  <2>11. PICK a : a = z OBVIOUS
  <2>12. HungFirst(m1, Q, z, p, g, m2)
    <3>1. a \in {h[p].aux, nilCell} \/ (a = z /\ h[p].contents = nilCell) BY <2>8, <2>11
    <3>2. g \in [Cells -> CellRecords] /\ \A x \in Cells \ {z, p} : g[x] = h[x]
      BY <2>7 DEF Written
    <3>3. g[z] = Cell(h[z].type, h[p].contents, h[z].aux, h[z].contents) BY <2>8, <2>10
    <3>4. g[p] = Cell("list", h[p].next, a, z) BY <2>7, <2>11 DEF Written
    <3>5. m2 = [m1 EXCEPT !.heap = g] BY <2>7
    <3> QED BY ONLY <1>2, <2>2, <2>8, <3>1, <3>2, <3>3, <3>4, <3>5, HangFirst
  <2>13. Relinked(m1, R1, g, m2, Alive(m1.heap) \ {p}) BY <2>2, <2>12 DEF HungFirst
  <2>14. Last(fs).fn # "list" /\ Last(fs).save <= Len(u) BY <1>1
  <2> QED BY ONLY <1>1, <2>13, <2>14, fs # <<>>, p = ct[s], s \in Syms, Stacked(fs, w), HungGood
<1> QED BY <1>6, <1>7

\* (push value s -1)
LEMMA PushEndStep ==
  ASSUME NEW m, NEW ct, NEW rs, NEW fs, NEW ls, NEW v, NEW R, Ready(m, ct, rs, fs, ls, v, R),
         fs # <<>>, v # NULL, NEW f, f = Last(fs), f.fn \in {"push", "append"}, NEW s, s = f.sym,
         NEW p, p = ct[s], m.heap[p].type = "list", NEW new, new = Taking(m, rs, v),
         NEW z, z = new.cell, NEW u, u = new.results, NEW k, k = m.heap[p],
         NEW ma, ma = AuxSet(new.mem, p, z), NEW m2,
         m2 = IF k.aux # nilCell THEN NextSet(ma, k.aux, z)
              ELSE IF k.contents = nilCell THEN ContentsSet(ma, p, z)
              ELSE NextSet(ma, Last(Chain(m.heap, k.contents)), z)
  PROVE  Sound(m2, ct, u, Front(fs), ls, p)
<1>1. /\ fs \in Seq(Frames) /\ Framed(fs, m.heap) /\ Stacked(fs, Len(rs)) /\ Lasts(m.heap)
      /\ Ranked(m.heap) /\ m.heap \in [Cells -> CellRecords] /\ m.heap \in Heaps BY ReadyFacts
<1>2. s \in Syms BY <1>1, TopSymbol
<1>3. PICK m1 : m1 = new.mem OBVIOUS
<1>4. PICK R1 : TookFor(m, ct, fs, ls, f, p, R1, m1, z, u)
  <2>1. TakesFor(m, ct, fs, ls, f, p, m1, z, u) BY <1>2, <1>3, TakeFor
  <2> QED BY <2>1 DEF TakesFor
<1>5. f.fn # "list" /\ ma = AuxSet(m1, p, z) BY <1>3
<1>6. p \in Alive(m.heap) /\ p \in Cells BY <1>4 DEF TookFor
<1>11. PICK w : Stacked(fs, w) BY <1>1
<1>7. ASSUME NEW e \in Cells, EndOf(m.heap, p, e), m2 = NextSet(ma, e, z)
      PROVE  Sound(m2, ct, u, Front(fs), ls, p)
  BY ONLY <1>2, <1>4, <1>5, <1>7, <1>11, fs # <<>>, f = Last(fs), p = ct[s],
          m.heap[p].type = "list", AfterLast
<1>8. CASE k.aux # nilCell
  <2>1. PICK e : e = k.aux OBVIOUS
  <2>2. EndOf(m.heap, p, e) BY <1>1, <1>6, <1>8, <2>1 DEF Lasts
  <2>3. e \in Cells
    <3>0. m.heap \in [Cells -> CellRecords] /\ p \in Cells BY <1>1, <1>6
    <3>1. k \in CellRecords BY ONLY <3>0, k = m.heap[p]
    <3> QED BY ONLY <2>1, <3>1 DEF CellRecords
  <2>4. m2 = NextSet(ma, e, z) BY <1>8, <2>1
  <2> QED BY <1>7, <2>2, <2>3, <2>4
<1>9. CASE k.aux = nilCell /\ k.contents = nilCell
  <2>1. m2 = ContentsSet(ma, p, z) BY <1>9
  <2>2. m.heap[p].contents = nilCell BY <1>9
  <2> QED BY ONLY <1>2, <1>4, <1>5, <1>11, <2>1, <2>2, fs # <<>>, f = Last(fs), p = ct[s],
          m.heap[p].type = "list", OnlyElement
<1>10. CASE k.aux = nilCell /\ k.contents # nilCell
  <2>1. PICK b : b = k.contents /\ b = Below(m.heap, p) /\ b \in Cells
    <3>1. k.contents = Below(m.heap, p) BY <1>1, <1>6, Fields
    <3> QED BY <1>1, <1>6, <3>1, KidsType
  <2>2. PICK e : e = Last(Chain(m.heap, b)) OBVIOUS
  <2>3. EndOf(m.heap, p, e) BY <1>1, <1>6, <1>10, <2>1, <2>2, LastIsEnd
  <2>4. e \in Cells
    <3>1. e \in List(m.heap, b) BY <2>1, <2>3 DEF EndOf
    <3> QED BY <1>1, <1>10, <2>1, <3>1, ListAfter
  <2>5. m2 = NextSet(ma, e, z) BY <1>10, <2>1, <2>2
  <2> QED BY <1>7, <2>3, <2>4, <2>5
<1> QED BY <1>8, <1>9, <1>10

(* Steps: what catch returns. *)

\* A set of numbers up to n has a greatest.
LEMMA MaxIn ==
  ASSUME NEW n \in Nat, NEW S \in SUBSET (1..n), S # {}
  PROVE  Max(S) \in S
<1>1. PICK T : T = {j \in Nat : \A y \in S : y <= j} OBVIOUS
<1>2. n \in T BY <1>1
<1>3. T \in SUBSET Nat /\ T # {} BY <1>1, <1>2
<1>4. PICK j \in T : \A k \in T : j <= k BY <1>3, Least
<1>5. j \in Nat /\ \A y \in S : y <= j BY <1>1, <1>4
<1>6. j \in S
  <2>1. SUFFICES ASSUME j \notin S PROVE FALSE OBVIOUS
  <2>2. PICK y \in S : TRUE OBVIOUS
  <2>3. j > 0 BY <1>5, <2>2
  <2>4. PICK i : i = j - 1 /\ i \in Nat BY <1>5, <2>3
  <2>5. \A x \in S : x <= i BY <1>5, <2>1, <2>4
  <2>6. i \in T BY <1>1, <2>4, <2>5
  <2> QED BY <1>4, <1>5, <2>4, <2>6
<1>7. \E x \in S : \A y \in S : x >= y
  <2>1. \A y \in S : j >= y BY <1>5
  <2> QED BY <1>6, <2>1
<1> QED BY <1>7 DEF Max

\* What a function gives back to catch: fs and ls are what remains, n results are kept.
Storing(ct, fs, ls, R, m, z, u, n) ==
  /\ ct \in [Syms -> Cells] /\ u \in Seq(Cells) /\ fs \in Seq(Frames) /\ ls \in SUBSET Cells
  /\ Owns(Held(ct, u, fs, ls), R) /\ Framed(fs, m.heap) /\ Stacked(fs, n)
  /\ n \in Nat /\ n <= Len(u) /\ z \in Cells
  /\ \/ m.process # "runs" /\ z = nilCell /\ \E A : Tidy(m, R \cup A)
     \/ m.process = "runs" /\ z \notin R /\ z \notin Permanent /\ Tidy(m, R \cup {z})

\* catch without a symbol returns z.
LEMMA StorePlain ==
  ASSUME NEW ct, NEW fs, NEW ls, NEW R, NEW m, NEW z, NEW u, NEW n,
         Storing(ct, fs, ls, R, m, z, u, n), NEW m2, m2 = Cleaned(m, u, n),
         NEW rs2, rs2 = Append(SubSeq(u, 1, n), z)
  PROVE  Sound(m2, ct, rs2, fs, ls, z)
<1>1. /\ ct \in [Syms -> Cells] /\ u \in Seq(Cells) /\ fs \in Seq(Frames) /\ ls \in SUBSET Cells
      /\ Owns(Held(ct, u, fs, ls), R) /\ Framed(fs, m.heap) /\ Stacked(fs, n)
      /\ n \in Nat /\ n <= Len(u) /\ z \in Cells BY DEF Storing
<1>2. CASE m.process # "runs"
  <2>1. \E A : Tidy(m, R \cup A) BY <1>2 DEF Storing
  <2>2. PICK Q : Tidy(m, Q) /\ R \subseteq Q BY <2>1
  <2>3. Stack(u, R) BY <1>1, HeldStack
  <2>4. rs2 \in Seq(Cells) BY ONLY <1>1, rs2 = Append(SubSeq(u, 1, n), z)
  <2>5. z \in Cells \cup {NULL} BY <1>1
  <2> QED BY ONLY <1>1, <1>2, <2>2, <2>3, <2>4, <2>5, m2 = Cleaned(m, u, n), PushExit
<1>3. CASE m.process = "runs"
  <2>1. z \notin R /\ Tidy(m, R \cup {z}) BY <1>3 DEF Storing
  <2>2. PICK Q : Q = R \cup {z} OBVIOUS
  <2>3. Q \ {z} = R BY ONLY <2>1, <2>2
  <2>4. Tidy(m, Q) /\ z \in Q \cup Permanent /\ Owns(Held(ct, u, fs, ls), Q \ {z})
    BY <1>1, <2>1, <2>2, <2>3
  <2> QED BY ONLY <1>1, <2>4, m2 = Cleaned(m, u, n), rs2 = Append(SubSeq(u, 1, n), z), PushGood
<1> QED BY <1>2, <1>3

\* catch with symbol s gives it z and returns true or nil.
LEMMA StoreSymbol ==
  ASSUME NEW ct, NEW fs, NEW ls, NEW R, NEW m, NEW z, NEW u, NEW n,
         Storing(ct, fs, ls, R, m, z, u, n), NEW s \in Syms, NEW q \in Permanent,
         NEW m2, m2 = Cleaned(DeleteList(m, ct[s]), u, n),
         NEW rs2, rs2 = Append(SubSeq(u, 1, n), q), NEW ct2, ct2 = [ct EXCEPT ![s] = z]
  PROVE  Sound(m2, ct2, rs2, fs, ls, q)
<1>1. /\ ct \in [Syms -> Cells] /\ u \in Seq(Cells) /\ fs \in Seq(Frames) /\ ls \in SUBSET Cells
      /\ Owns(Held(ct, u, fs, ls), R) /\ Framed(fs, m.heap) /\ Stacked(fs, n)
      /\ n \in Nat /\ n <= Len(u) /\ z \in Cells BY DEF Storing
<1>2. PICK c, m0 : c = ct[s] /\ m0 = DeleteList(m, c) OBVIOUS
<1>3. c \in R \cup Permanent BY <1>1, <1>2, SymbolOwned
<1>4. m2 = Cleaned(m0, u, n) BY <1>2
<1>5. ct2 \in [Syms -> Cells] /\ q \in Cells BY <1>1, Special DEF Permanent
<1>6. R \cap Permanent = {} BY <1>1 DEF Owns
<1>7. CASE m.process # "runs"
  <2>1. \E A : Tidy(m, R \cup A) BY <1>7 DEF Storing
  <2>2. PICK Q : Tidy(m, Q) /\ R \subseteq Q BY <2>1
  <2>3. c \in Q \cup Permanent BY <1>3, <2>2
  <2>4. Tidy(DeleteList(m, c), Q \ {c}) /\ DeleteList(m, c).process = m.process
    BY ONLY <2>2, <2>3, DeleteTidy
  <2>5. Tidy(m0, Q \ {c}) /\ m0.process # "runs" BY <1>2, <1>7, <2>4
  <2>6. PICK ct0 : ct0 = [ct EXCEPT ![s] = nilCell] OBVIOUS
  <2>7. PICK R0 : R0 = ((R \ {ct[s]}) \cup {nilCell}) \ Permanent OBVIOUS
  <2>8. nilCell \notin R BY <1>6 DEF Permanent
  <2>9. Owns(Held(ct0, u, fs, ls), R0) BY ONLY <1>1, <2>6, <2>7, <2>8, s \in Syms, OwnsSymbol
  <2>10. Stack(u, R0) BY <1>1, <2>9, HeldStack
  <2>11. R0 \subseteq Q \ {c} BY <1>2, <2>2, <2>7 DEF Permanent
  <2>12. rs2 \in Seq(Cells) BY ONLY <1>1, <1>5, rs2 = Append(SubSeq(u, 1, n), q)
  <2>13. q \in Cells \cup {NULL} BY <1>5
  <2> QED BY ONLY <1>1, <1>4, <1>5, <2>5, <2>10, <2>11, <2>12, <2>13, PushExit
<1>8. CASE m.process = "runs"
  <2>1. z \notin R /\ z \notin Permanent /\ Tidy(m, R \cup {z}) BY <1>8 DEF Storing
  <2>2. PICK Q : Q = R \cup {z} OBVIOUS
  <2>3. Tidy(m, Q) /\ c \in Q \cup Permanent BY <1>3, <2>1, <2>2
  <2>4. /\ Tidy(DeleteList(m, c), Q \ {c})
        /\ Keeps(m.heap, DeleteList(m, c).heap, Alive(DeleteList(m, c).heap))
    BY ONLY <2>3, DeleteTidy
  <2>5. PICK R2 : R2 = ((R \ {ct[s]}) \cup {z}) \ Permanent OBVIOUS
  <2>6. Q \ {c} = R2 BY <1>2, <1>3, <1>6, <2>1, <2>2, <2>5
  <2>7. Tidy(m0, R2) /\ Keeps(m.heap, m0.heap, Alive(m0.heap)) BY <1>2, <2>4, <2>6
  <2>8. Owns(Held(ct2, u, fs, ls), R2)
    BY ONLY <1>1, <2>1, <2>5, s \in Syms, ct2 = [ct EXCEPT ![s] = z], OwnsSymbol
  <2>9. Framed(fs, m0.heap)
    <3>1. PICK B : B = Alive(m0.heap) /\ B \in {Alive(m.heap), Alive(m0.heap)} OBVIOUS
    <3>2. Keeps(m.heap, m0.heap, B) BY <2>7, <3>1
    <3> QED BY ONLY <1>1, <2>7, <2>8, <3>1, <3>2, FramedNext
  <2>10. q \in R2 \cup Permanent /\ R2 \ {q} = R2 BY <2>5
  <2>11. Owns(Held(ct2, u, fs, ls), R2 \ {q}) BY <2>8, <2>10
  <2> QED BY ONLY <1>1, <1>4, <1>5, <2>7, <2>9, <2>10, <2>11, rs2 = Append(SubSeq(u, 1, n), q),
                  PushGood
<1> QED BY <1>7, <1>8

(* Steps: catch and throw. *)

\* What remains of the functions fs after a jump to the k-th.
Jumped(ct, u, fs, R, k, fs2, ls2) ==
  /\ fs2 \in Seq(Frames) /\ ls2 \in SUBSET Cells /\ Owns(Held(ct, u, fs2, ls2), R)
  /\ \A h : Framed(fs, h) => Framed(fs2, h)
  /\ Stacked(fs2, fs[k].save) /\ fs[k].save \in Nat /\ fs[k].save <= Last(fs).save
  /\ fs[k].sym \in Syms \cup {""}

\* longjmp to a function that builds no list.
LEMMA JumpFrames ==
  ASSUME NEW ct, NEW u, NEW fs \in Seq(Frames), NEW ls \in SUBSET Cells, NEW R,
         Owns(Held(ct, u, fs, ls), R), NEW w, Stacked(fs, w), NEW k \in 1..Len(fs),
         fs[k].fn # "list", NEW fs2, fs2 = SubSeq(fs, 1, k - 1), NEW ls2,
         ls2 = ls \cup {fs[i].cell : i \in {j \in k + 1 .. Len(fs) : fs[j].fn = "list"}}
  PROVE  Jumped(ct, u, fs, R, k, fs2, ls2)
<1>1. PICK l \in Nat : l = Len(fs) OBVIOUS
<1>2. k \in Nat /\ k > 0 /\ k <= l /\ l > 0 /\ l \in 1..l BY <1>1
<1>3. PICK n : n = k - 1 /\ n \in Nat /\ n <= Len(fs) BY <1>1, <1>2
<1>4. fs2 = SubSeq(fs, 1, n) BY <1>3
<1>5. Outer(fs, n, fs2) BY ONLY <1>3, <1>4, fs \in Seq(Frames), Earlier
<1>6. /\ fs2 \in Seq(Frames) /\ Len(fs2) = n /\ \A i \in 1..n : fs2[i] = fs[i]
      /\ \A h : Framed(fs, h) => Framed(fs2, h) BY <1>5 DEF Outer
<1>7. {j \in k + 1 .. Len(fs) : fs[j].fn = "list"} = {i \in Building(fs) : i > n}
  <2>1. \A j : j \in k + 1 .. l <=> j \in 1..l /\ j > n /\ j # k BY <1>2, <1>3
  <2>2. \A j : j \in {i \in k + 1 .. Len(fs) : fs[i].fn = "list"}
               <=> j \in {i \in Building(fs) : i > n} BY <1>1, <2>1 DEF Building
  <2> QED BY <2>2
<1>8. ls2 = ls \cup {fs[i].cell : i \in {i \in Building(fs) : i > n}} BY <1>7
<1>9. Owns(Held(ct, u, SubSeq(fs, 1, n), ls2), R)
  BY ONLY <1>3, <1>8, fs \in Seq(Frames), Owns(Held(ct, u, fs, ls), R), HeldJump
<1>10. \A i \in 1..l : fs[i] \in Frames BY <1>1, SeqLen
<1>11. \A i \in 1..l : fs[i].save \in Nat /\ fs[i].cell \in Cells /\ fs[i].sym \in Syms \cup {""}
  BY <1>10 DEF Frames
<1>12. ls2 \in SUBSET Cells
  <2>1. \A i \in Building(fs) : fs[i].cell \in Cells BY <1>1, <1>11 DEF Building
  <2> QED BY <1>8, <2>1
<1>13. \A i \in 1..l : \A j \in 1..l : i <= j => fs[i].save <= fs[j].save BY <1>1 DEF Stacked
<1>14. \A i \in 1..n : i \in 1..l /\ i <= k BY <1>2, <1>3
<1>15. Stacked(fs2, fs[k].save)
  <2>1. \A i \in 1..n : fs2[i].save <= fs[k].save BY <1>1, <1>6, <1>13, <1>14
  <2>2. \A i \in 1..n : \A j \in 1..n : i <= j => fs2[i].save <= fs2[j].save BY <1>6, <1>13, <1>14
  <2> QED BY <1>6, <2>1, <2>2 DEF Stacked
<1>16. fs[k].save <= Last(fs).save
  <2>1. Last(fs) = fs[l] BY <1>1 DEF Last
  <2> QED BY <1>1, <1>2, <1>13, <2>1
<1> QED BY <1>1, <1>4, <1>6, <1>9, <1>11, <1>12, <1>15, <1>16 DEF Jumped

\* What catch leaves.
Stores(f, m, ct, u, z, m2, rs2, v2, ct2) ==
  IF f.sym = "" THEN /\ m2 = Cleaned(m, u, f.save) /\ rs2 = Append(SubSeq(u, 1, f.save), z)
                     /\ v2 = z /\ ct2 = ct
  ELSE /\ m2 = Cleaned(DeleteList(m, ct[f.sym]), u, f.save)
       /\ rs2 = Append(SubSeq(u, 1, f.save), trueCell) /\ v2 = trueCell
       /\ ct2 = [ct EXCEPT ![f.sym] = z]

\* catch with or without a symbol.
LEMMA StoreStep ==
  ASSUME NEW ct, NEW fs, NEW ls, NEW R, NEW m, NEW z, NEW u, NEW f,
         Storing(ct, fs, ls, R, m, z, u, f.save), f.sym \in Syms \cup {""},
         NEW m2, NEW rs2, NEW v2, NEW ct2, Stores(f, m, ct, u, z, m2, rs2, v2, ct2)
  PROVE  Sound(m2, ct2, rs2, fs, ls, v2)
<1>1. PICK n : n = f.save OBVIOUS
<1>2. Storing(ct, fs, ls, R, m, z, u, n) BY <1>1
<1>3. CASE f.sym = ""
  <2>1. m2 = Cleaned(m, u, n) /\ rs2 = Append(SubSeq(u, 1, n), z) /\ v2 = z /\ ct2 = ct
    BY <1>1, <1>3 DEF Stores
  <2>2. Sound(m2, ct, rs2, fs, ls, z) BY ONLY <1>2, <2>1, StorePlain
  <2> QED BY <2>1, <2>2
<1>4. CASE f.sym # ""
  <2>1. PICK s \in Syms : s = f.sym BY <1>4
  <2>2. PICK q : q = trueCell OBVIOUS
  <2>3. q \in Permanent BY <2>2 DEF Permanent
  <2>4. /\ m2 = Cleaned(DeleteList(m, ct[s]), u, n) /\ rs2 = Append(SubSeq(u, 1, n), q)
        /\ v2 = q /\ ct2 = [ct EXCEPT ![s] = z] BY <1>1, <1>4, <2>1, <2>2 DEF Stores
  <2>5. Sound(m2, ct2, rs2, fs, ls, q) BY ONLY <1>2, <2>3, <2>4, StoreSymbol
  <2> QED BY <2>4, <2>5
<1> QED BY <1>3, <1>4

\* The value that was taken can be given to an outer function.
LEMMA TookStoring ==
  ASSUME NEW m, NEW ct \in [Syms -> Cells], NEW rs, NEW fs, NEW ls, NEW f, NEW R1, NEW new,
         Took(m, ct, rs, fs, ls, f, R1, new), NEW fs2 \in Seq(Frames), NEW ls2 \in SUBSET Cells,
         Owns(Held(ct, new.results, fs2, ls2), R1), \A h : Framed(fs, h) => Framed(fs2, h),
         NEW n \in Nat, n <= f.save, Stacked(fs2, n),
         NEW m1, m1 = new.mem, NEW z, z = new.cell, NEW u, u = new.results
  PROVE  Storing(ct, fs2, ls2, R1, m1, z, u, n)
<1>1. /\ u \in Seq(Cells) /\ f.save \in Nat /\ f.save <= Len(u) /\ z \in Cells
      /\ Framed(fs, m1.heap) BY DEF Took
<1>2. n <= Len(u) BY <1>1
<1>3. Framed(fs2, m1.heap) BY <1>1
<1>4. \/ m1.process # "runs" /\ z = nilCell /\ \E A : Tidy(m1, R1 \cup A)
      \/ m1.process = "runs" /\ z \notin R1 /\ z \notin Permanent /\ Tidy(m1, R1 \cup {z})
  <2>1. \/ /\ m1.process = "exited" /\ z = nilCell
           /\ \E A : Tidy(m1, R1 \cup A)
        \/ /\ m1.process = "runs" /\ z \in Cells \ (R1 \cup Permanent)
           /\ Tidy(m1, R1 \cup {z}) BY DEF Took
  <2> QED BY <2>1
<1>5. Owns(Held(ct, u, fs2, ls2), R1) OBVIOUS
<1> QED BY ONLY <1>1, <1>2, <1>3, <1>4, <1>5, ct \in [Syms -> Cells], fs2 \in Seq(Frames),
             ls2 \in SUBSET Cells, n \in Nat, Stacked(fs2, n) DEF Storing

\* catch ends without a throw.
LEMMA CatchEndsStep ==
  ASSUME NEW m, NEW ct, NEW rs, NEW fs, NEW ls, NEW v, NEW R, Ready(m, ct, rs, fs, ls, v, R),
         fs # <<>>, v # NULL, NEW f, f = Last(fs), f.fn = "catch",
         NEW new, new = Taking(m, rs, v), NEW fs2, fs2 = Front(fs),
         NEW m2, NEW rs2, NEW v2, NEW ct2,
         Stores(f, new.mem, ct, new.results, new.cell, m2, rs2, v2, ct2)
  PROVE  Sound(m2, ct2, rs2, fs2, ls, v2)
<1>1. /\ ct \in [Syms -> Cells] /\ rs \in Seq(Cells) /\ fs \in Seq(Frames)
      /\ ls \in SUBSET Cells /\ Framed(fs, m.heap) /\ Stacked(fs, Len(rs)) BY ReadyFacts
<1>2. PICK R1 : Took(m, ct, rs, fs, ls, f, R1, new)
  <2>1. Takes(m, ct, rs, fs, ls, f, new) BY TookValue
  <2> QED BY <2>1 DEF Takes
<1>3. PICK m1, z, u : m1 = new.mem /\ z = new.cell /\ u = new.results OBVIOUS
<1>4. Popped(fs, fs2, Len(rs)) BY <1>1, FrontFrames
<1>5. fs2 \in Seq(Frames) /\ (\A h : Framed(fs, h) => Framed(fs2, h)) /\ Stacked(fs2, f.save)
      /\ f \in Frames BY <1>4 DEF Popped
<1>6. f.save \in Nat /\ f.sym \in Syms \cup {""} BY <1>5 DEF Frames
<1>7. Held(ct, u, fs2, ls) = Held(ct, u, fs, ls)
  <2>1. Last(fs).fn # "list" OBVIOUS
  <2> QED BY ONLY <1>1, <2>1, fs # <<>>, fs2 = Front(fs), HeldPop
<1>8. Owns(Held(ct, new.results, fs2, ls), R1) BY <1>2, <1>3, <1>7 DEF Took
<1>9. PICK n : n = f.save OBVIOUS
<1>10. n \in Nat /\ n <= f.save /\ Stacked(fs2, n)
  <2>1. Stacked(fs2, f.save) BY <1>5
  <2>2. Stacked(fs2, n) /\ n \in Nat BY ONLY <1>6, <1>9, <2>1
  <2>3. n <= n BY ONLY <2>2
  <2> QED BY <1>9, <2>2, <2>3
<1>11. Storing(ct, fs2, ls, R1, m1, z, u, n)
  BY ONLY <1>1, <1>2, <1>3, <1>5, <1>8, <1>10, TookStoring
<1>12. Storing(ct, fs2, ls, R1, m1, z, u, f.save) BY <1>9, <1>11
<1>13. Stores(f, m1, ct, u, z, m2, rs2, v2, ct2) BY <1>3
<1> QED BY ONLY <1>6, <1>12, <1>13, StoreStep

\* The functions catch that are entered.
CatchesIn(fs, withSymbol) ==
  {k \in DOMAIN fs : fs[k].fn = "catch" /\ (withSymbol => fs[k].sym # "")}

\* The innermost of them.
LEMMA Innermost ==
  ASSUME NEW fs \in Seq(Frames), NEW b \in BOOLEAN, CatchesIn(fs, b) # {},
         NEW k, k = Max(CatchesIn(fs, b))
  PROVE  k \in 1..Len(fs) /\ fs[k].fn = "catch" /\ (b => fs[k].sym # "")
<1>1. PICK n \in Nat : n = Len(fs) OBVIOUS
<1>2. DOMAIN fs = 1..n BY <1>1
<1>3. CatchesIn(fs, b) \in SUBSET (1..n) BY <1>2 DEF CatchesIn
<1>4. k \in CatchesIn(fs, b) BY <1>3, MaxIn
<1> QED BY <1>1, <1>2, <1>4 DEF CatchesIn

\* A value is thrown to the innermost catch.
LEMMA ThrowStep ==
  ASSUME NEW m, NEW ct, NEW rs, NEW fs, NEW ls, NEW v, NEW R, Ready(m, ct, rs, fs, ls, v, R),
         fs # <<>>, v # NULL, Last(fs).fn = "throw",
         NEW new, new = Taking(m, rs, v), NEW k, k = Max(CatchesIn(fs, FALSE)),
         NEW fs2, fs2 = SubSeq(fs, 1, k - 1), NEW ls2,
         ls2 = ls \cup {fs[i].cell : i \in {j \in k + 1 .. Len(fs) : fs[j].fn = "list"}},
         NEW m2, NEW rs2, NEW v2, NEW ct2,
         Stores(fs[k], new.mem, ct, new.results, new.cell, m2, rs2, v2, ct2)
  PROVE  Sound(m2, ct2, rs2, fs2, ls2, v2)
<1>1. /\ ct \in [Syms -> Cells] /\ rs \in Seq(Cells) /\ fs \in Seq(Frames)
      /\ ls \in SUBSET Cells /\ Framed(fs, m.heap) /\ Stacked(fs, Len(rs)) BY ReadyFacts
<1>2. PICK f : f = Last(fs) OBVIOUS
<1>3. PICK R1 : Took(m, ct, rs, fs, ls, f, R1, new)
  <2>1. Takes(m, ct, rs, fs, ls, f, new) BY <1>2, TookValue
  <2> QED BY <2>1 DEF Takes
<1>4. PICK m1, z, u : m1 = new.mem /\ z = new.cell /\ u = new.results OBVIOUS
<1>5. CatchesIn(fs, FALSE) # {}
  <2>1. PICK l \in Nat : l = Len(fs) /\ l > 0 /\ Last(fs) = fs[l] BY <1>1 DEF Last
  <2>2. l \in 1..Len(fs) /\ fs[l].fn = "throw" BY <2>1
  <2>3. PICK j \in 1..l - 1 : fs[j].fn = "catch" BY <1>1, <2>2 DEF Framed
  <2>4. j \in DOMAIN fs BY <1>1, <2>1, <2>3
  <2> QED BY <2>3, <2>4 DEF CatchesIn
<1>6. k \in 1..Len(fs) /\ fs[k].fn = "catch"
  <2>1. FALSE \in BOOLEAN OBVIOUS
  <2> QED BY <1>1, <1>5, <2>1, Innermost
<1>7. PICK w : w = Len(rs) OBVIOUS
<1>8. Owns(Held(ct, u, fs, ls), R1) /\ Stacked(fs, w) /\ fs[k].fn # "list"
  BY <1>1, <1>3, <1>4, <1>6, <1>7 DEF Took
<1>9. Jumped(ct, u, fs, R1, k, fs2, ls2) BY ONLY <1>1, <1>6, <1>8, fs2 = SubSeq(fs, 1, k - 1),
          ls2 = ls \cup {fs[i].cell : i \in {j \in k + 1 .. Len(fs) : fs[j].fn = "list"}}, JumpFrames
<1>10. PICK c : c = fs[k] OBVIOUS
<1>11. /\ fs2 \in Seq(Frames) /\ ls2 \in SUBSET Cells /\ Owns(Held(ct, new.results, fs2, ls2), R1)
       /\ \A h : Framed(fs, h) => Framed(fs2, h)
       /\ Stacked(fs2, c.save) /\ c.save \in Nat /\ c.save <= f.save
       /\ c.sym \in Syms \cup {""} BY <1>2, <1>4, <1>9, <1>10 DEF Jumped
<1>12. PICK n : n = c.save OBVIOUS
<1>13. n \in Nat /\ n <= f.save /\ Stacked(fs2, n) BY <1>11, <1>12
<1>14. Storing(ct, fs2, ls2, R1, m1, z, u, n) BY ONLY <1>1, <1>3, <1>4, <1>11, <1>13, TookStoring
<1>15. Storing(ct, fs2, ls2, R1, m1, z, u, c.save) BY <1>12, <1>14
<1>16. Stores(c, m1, ct, u, z, m2, rs2, v2, ct2) BY <1>4, <1>10
<1> QED BY ONLY <1>11, <1>15, <1>16, StoreStep

(* Steps: errors. *)

\* The lists under construction stay when what is in use is kept.
LEMMA FramedKeeps ==
  ASSUME NEW fs, NEW h, Framed(fs, h), NEW g, Keeps(h, g, Alive(h))
  PROVE  Framed(fs, g)
<1>1. PICK A : A = Alive(h) OBVIOUS
<1>2. Holds(h, g, A) BY ONLY <1>1, Keeps(h, g, Alive(h)), KeepsHolds
<1>3. \A k \in Building(fs) : fs[k].cell \in A BY <1>1, FramesAlive
<1> QED BY ONLY <1>2, <1>3, Framed(fs, h), FramedKept

\* A cell is got while functions wait.
GotMore(fs, m, R, type, c, got) ==
  /\ Framed(fs, got.mem.heap) /\ got.cell \in Cells
  /\ \E Q : Tidy(got.mem, Q) /\ got.cell \in Q \cup {nilCell}
  /\ got.mem.process = "runs" =>
       /\ m.process = "runs" /\ got.cell \notin Alive(m.heap) /\ got.cell \notin Permanent
       /\ Tidy(got.mem, (R \ {c}) \cup {got.cell})
       /\ got.mem.heap[got.cell] = Cell(type, nilCell, nilCell, c)
       /\ c # nilCell => EndOf(got.mem.heap, got.cell, c)
       /\ Keeps(m.heap, got.mem.heap, Alive(m.heap))
  /\ m.process # "runs" => got.mem.process # "runs"
  /\ got.mem.process = "runs" \/ got.mem.process # "exited" \/ got.cell = nilCell

\* getCell, while functions wait: the new cell was free, and all in use stays.
LEMMA GetMore ==
  ASSUME NEW fs, NEW m, NEW R, Tidy(m, R), Framed(fs, m.heap), NEW type \in {"atom", "list"},
         NEW c \in R \cup {nilCell}, type = "atom" => c = nilCell,
         NEW got, got = GetCell(m, type, c)
  PROVE  GotMore(fs, m, R, type, c, got)
<1>1. Got(m, R, type, c, got) BY GetTidy
<1>2. Keeps(m.heap, got.mem.heap, Alive(m.heap)) BY <1>1 DEF Got
<1>3. Framed(fs, got.mem.heap) BY ONLY <1>2, Framed(fs, m.heap), FramedKeeps
<1>4. nilCell \in Cells BY Special
<1>5. CASE /\ got.mem.process = "exited" /\ got.cell = nilCell /\ Tidy(got.mem, R)
  BY <1>3, <1>4, <1>5 DEF GotMore
<1>6. CASE /\ got.mem.process = m.process /\ m.process # "exited"
           /\ got.cell \in Cells \ (Alive(m.heap) \cup Permanent)
           /\ Tidy(got.mem, (R \ {c}) \cup {got.cell})
           /\ got.mem.heap[got.cell] = Cell(type, nilCell, nilCell, c)
           /\ c # nilCell => EndOf(got.mem.heap, got.cell, c) BY <1>2, <1>3, <1>6 DEF GotMore
<1> QED BY ONLY <1>1, <1>5, <1>6 DEF Got

\* deleteList of nilCell deletes nothing.
LEMMA DeleteNil ==
  ASSUME NEW m, Treelike(m.heap)
  PROVE  DeleteList(m, nilCell) = m
<1>1. nilCell \in Cells BY Special
<1>2. PICK s : /\ Lists(s, Tree(m.heap, nilCell) \ {trueCell})
               /\ DeleteList(m, nilCell) =
                     IF s = <<>> THEN m
                     ELSE [m EXCEPT !.heap = Linked(m.heap, s, m.free), !.free = Head(s)]
  BY <1>1, DeleteFacts
<1>3. Lists(s, {}) BY <1>2 DEF Tree
<1>4. s = <<>> BY <1>3 DEF Lists
<1> QED BY <1>2, <1>4

\* An error is caught: what the symbol had is deleted, and it gets the error's text.
LEMMA ErrorCaughtStep ==
  ASSUME NEW m, NEW ct, NEW rs, NEW fs, NEW ls, NEW v, NEW R, Ready(m, ct, rs, fs, ls, v, R),
         CatchesIn(fs, TRUE) # {}, NEW k, k = Max(CatchesIn(fs, TRUE)),
         NEW text, text = GetCell(DeleteList(m, ct[fs[k].sym]), "atom", nilCell),
         NEW fs2, fs2 = SubSeq(fs, 1, k - 1), NEW ls2,
         ls2 = ls \cup {fs[i].cell : i \in {j \in k + 1 .. Len(fs) : fs[j].fn = "list"}},
         NEW m2, m2 = Cleaned(text.mem, rs, fs[k].save),
         NEW rs2, rs2 = Append(SubSeq(rs, 1, fs[k].save), nilCell),
         NEW ct2, ct2 = [ct EXCEPT ![fs[k].sym] = text.cell]
  PROVE  Sound(m2, ct2, rs2, fs2, ls2, nilCell)
<1>1. /\ ct \in [Syms -> Cells] /\ rs \in Seq(Cells) /\ fs \in Seq(Frames)
      /\ ls \in SUBSET Cells /\ Framed(fs, m.heap) /\ Stacked(fs, Len(rs))
      /\ Tidy(m, R) /\ Owns(Held(ct, rs, fs, ls), R) /\ R \subseteq Alive(m.heap)
      /\ Alive(m.heap) \cap Permanent = {} /\ m.process = "runs" BY ReadyFacts
<1>2. k \in 1..Len(fs) /\ fs[k].fn = "catch" /\ fs[k].sym # ""
  <2>1. TRUE \in BOOLEAN OBVIOUS
  <2> QED BY <1>1, <2>1, Innermost
<1>3. PICK w : w = Len(rs) /\ w \in Nat BY <1>1
<1>4. Stacked(fs, w) /\ fs[k].fn # "list" BY <1>1, <1>2, <1>3
<1>5. Jumped(ct, rs, fs, R, k, fs2, ls2) BY ONLY <1>1, <1>2, <1>4, fs2 = SubSeq(fs, 1, k - 1),
          ls2 = ls \cup {fs[i].cell : i \in {j \in k + 1 .. Len(fs) : fs[j].fn = "list"}}, JumpFrames
<1>6. PICK f : f = fs[k] OBVIOUS
<1>7. PICK n : n = f.save OBVIOUS
<1>8. /\ fs2 \in Seq(Frames) /\ ls2 \in SUBSET Cells /\ Owns(Held(ct, rs, fs2, ls2), R)
      /\ \A h : Framed(fs, h) => Framed(fs2, h)
      /\ Stacked(fs2, n) /\ n \in Nat /\ f.sym \in Syms \cup {""} BY <1>5, <1>6, <1>7 DEF Jumped
<1>9. n <= Len(rs) BY <1>1, <1>2, <1>6, <1>7 DEF Stacked
<1>10. PICK s \in Syms : s = f.sym BY <1>2, <1>6, <1>8
<1>11. PICK c, m0, ct0, Q :
         c = ct[s] /\ m0 = DeleteList(m, c) /\ ct0 = [ct EXCEPT ![s] = nilCell] /\ Q = R \ {c}
  OBVIOUS
<1>12. Tidy(m0, Q) /\ m0.process = "runs" /\ Keeps(m.heap, m0.heap, Alive(m0.heap))
  <2>1. ct[s] \in R \cup Permanent BY ONLY <1>1, s \in Syms, SymbolOwned
  <2>2. Tidy(m, R) /\ c \in R \cup Permanent BY ONLY <1>1, <1>11, <2>1
  <2>3. /\ Tidy(DeleteList(m, c), R \ {c}) /\ DeleteList(m, c).process = m.process
        /\ Keeps(m.heap, DeleteList(m, c).heap, Alive(DeleteList(m, c).heap))
    BY ONLY <2>2, DeleteTidy
  <2> QED BY ONLY <1>1, <1>11, <2>3
<1>13. Owns(Held(ct0, rs, fs2, ls2), Q)
  <2>1. PICK P : P = ((R \ {ct[s]}) \cup {nilCell}) \ Permanent OBVIOUS
  <2>2. nilCell \notin R BY <1>1 DEF Permanent
  <2>3. Owns(Held(ct0, rs, fs2, ls2), P) BY ONLY <1>1, <1>8, <1>11, <2>1, <2>2, s \in Syms, OwnsSymbol
  <2>4. R \cap Permanent = {} BY <1>8 DEF Owns
  <2>5. P = Q BY <1>11, <2>1, <2>4 DEF Permanent
  <2> QED BY <2>3, <2>5
<1>14. Framed(fs2, m0.heap)
  <2>1. PICK B : B = Alive(m0.heap) /\ B \in {Alive(m.heap), Alive(m0.heap)} OBVIOUS
  <2>2. Framed(fs2, m.heap) /\ Keeps(m.heap, m0.heap, B) BY ONLY <1>1, <1>8, <1>12, <2>1
  <2> QED BY ONLY <1>12, <1>13, <2>1, <2>2, FramedNext
<1>15. PICK m1, z, q : m1 = text.mem /\ z = text.cell /\ q = nilCell OBVIOUS
<1>16. Got(m0, Q, "atom", nilCell, text)
  <2>1. PICK t : t = "atom" /\ t \in {"atom", "list"} OBVIOUS
  <2>2. PICK e : e = nilCell /\ e \in Q \cup {nilCell} OBVIOUS
  <2>3. text = GetCell(m0, t, e) /\ (t = "atom" => e = nilCell) BY <1>6, <1>10, <1>11, <2>1, <2>2
  <2>4. Got(m0, Q, t, e, text) BY ONLY <1>12, <2>1, <2>2, <2>3, GetTidy
  <2> QED BY <2>1, <2>2, <2>4
<1>17. Framed(fs2, m1.heap)
  <2>1. Keeps(m0.heap, m1.heap, Alive(m0.heap)) BY <1>15, <1>16 DEF Got
  <2> QED BY ONLY <1>14, <2>1, FramedKeeps
<1>18. z \in Cells BY <1>15, <1>16, Special DEF Got
<1>19. Q \ {nilCell} = Q /\ Q \subseteq Alive(m0.heap)
  <2>1. Q \subseteq Alive(m0.heap) BY <1>12 DEF Tidy, Owned, Shape
  <2> QED BY <1>1, <1>11, <2>1 DEF Permanent
<1>20. \/ m1.process # "runs" /\ z = nilCell /\ \E A : Tidy(m1, Q \cup A)
       \/ m1.process = "runs" /\ z \notin Q /\ z \notin Permanent /\ Tidy(m1, Q \cup {z})
  <2>1. CASE text.mem.process = "exited" /\ text.cell = nilCell /\ Tidy(text.mem, Q)
    <3>1. Q \cup {} = Q OBVIOUS
    <3>2. Tidy(m1, Q \cup {}) BY <1>15, <2>1, <3>1
    <3> QED BY <1>15, <2>1, <3>2
  <2>2. CASE /\ text.mem.process = m0.process
             /\ text.cell \in Cells \ (Alive(m0.heap) \cup Permanent)
             /\ Tidy(text.mem, (Q \ {nilCell}) \cup {text.cell}) BY <1>12, <1>15, <1>19, <2>2
  <2> QED BY <1>16, <2>1, <2>2 DEF Got
<1>21. ct0 \in [Syms -> Cells] /\ ct0[s] = nilCell /\ ct2 = [ct0 EXCEPT ![s] = z]
  BY <1>1, <1>6, <1>10, <1>11, <1>15, Special
<1>22. Storing(ct0, fs2, ls2, Q, m1, z, rs, n)
  BY ONLY <1>1, <1>8, <1>9, <1>13, <1>17, <1>18, <1>20, <1>21 DEF Storing
<1>23. DeleteList(m1, ct0[s]) = m1
  <2>1. \E A : Tidy(m1, A) BY ONLY <1>20
  <2>2. Treelike(m1.heap) BY <2>1, ShapeFacts DEF Tidy, Owned
  <2>3. DeleteList(m1, nilCell) = m1 BY ONLY <2>2, DeleteNil
  <2> QED BY ONLY <1>21, <2>3
<1>24. /\ m2 = Cleaned(DeleteList(m1, ct0[s]), rs, n) /\ rs2 = Append(SubSeq(rs, 1, n), q)
       /\ q \in Permanent BY <1>6, <1>7, <1>15, <1>23 DEF Permanent
<1>25. Sound(m2, ct2, rs2, fs2, ls2, q) BY ONLY <1>21, <1>22, <1>24, s \in Syms, StoreSymbol
<1> QED BY <1>15, <1>25

\* An error is not caught: the stacks are emptied and unused blocks given back.
LEMMA ErrorUncaughtStep ==
  ASSUME NEW m, NEW ct, NEW rs, NEW fs, NEW ls, NEW v, NEW R, Ready(m, ct, rs, fs, ls, v, R),
         NEW m2, m2 = FreeCellBlocks(Cleaned(m, rs, 0)),
         NEW fs2, fs2 = <<>>, NEW ls2, ls2 = ls \cup {fs[i].cell : i \in Building(fs)}
  PROVE  Sound(m2, ct, <<>>, fs2, ls2, NULL)
<1>1. /\ ct \in [Syms -> Cells] /\ rs \in Seq(Cells) /\ fs \in Seq(Frames)
      /\ ls \in SUBSET Cells /\ Tidy(m, R) /\ Owns(Held(ct, rs, fs, ls), R) BY ReadyFacts
<1>2. PICK n : n = 0 /\ n \in Nat /\ n <= Len(rs) /\ n <= Len(fs) BY <1>1
<1>3. PICK m1 : m1 = Cleaned(m, rs, n) OBVIOUS
<1>4. PICK R1 : R1 = R \ Above(rs, n) OBVIOUS
<1>5. CutTo(m, ct, fs, ls, R \ Above(rs, n), m1, SubSeq(rs, 1, n))
  BY ONLY <1>1, <1>2, <1>3, CutTidy
<1>6. SubSeq(rs, 1, n) = <<>> /\ SubSeq(fs, 1, n) = <<>> /\ fs2 = <<>> BY <1>1, <1>2
<1>7. Tidy(m1, R1) /\ Owns(Held(ct, <<>>, fs, ls), R1) BY <1>4, <1>5, <1>6 DEF CutTo
<1>8. m2 = FreeCellBlocks(m1) BY <1>2, <1>3
<1>9. Tidy(m2, R1)
  <2>1. Trimmed(m1, R1, m2) BY ONLY <1>7, <1>8, BlocksTidy
  <2> QED BY <2>1 DEF Trimmed
<1>10. ls2 = ls \cup {fs[i].cell : i \in {i \in Building(fs) : i > n}}
  <2>1. Building(fs) = {i \in Building(fs) : i > n} BY <1>1, <1>2 DEF Building
  <2> QED BY <2>1
<1>11. Owns(Held(ct, <<>>, fs2, ls2), R1)
  <2>1. PICK u : u = <<>> OBVIOUS
  <2>2. Owns(Held(ct, u, fs, ls), R1) BY <1>7, <2>1
  <2>3. Owns(Held(ct, u, SubSeq(fs, 1, n), ls2), R1) BY ONLY <1>1, <1>2, <1>10, <2>2, HeldJump
  <2> QED BY <1>6, <2>1, <2>3
<1>12. <<>> \in Seq(Cells) /\ NULL \in Cells \cup {NULL} OBVIOUS
<1>13. fs2 \in Seq(Frames) /\ Len(fs2) = 0
  <2>1. <<>> \in Seq(Frames) /\ Len(<<>>) = 0 OBVIOUS
  <2> QED BY <1>6, <2>1
<1>14. ls2 \subseteq Cells
  <2>1. \A i \in 1..Len(fs) : fs[i] \in Frames BY <1>1, SeqLen
  <2>2. \A i \in Building(fs) : fs[i].cell \in Cells BY <2>1 DEF Frames, Building
  <2> QED BY <1>1, <1>10, <2>2
<1>15. Stacked(fs2, Len(<<>>)) /\ Framed(fs2, m2.heap) /\ Valued(m2.heap, <<>>, fs2, NULL)
  BY ONLY <1>13 DEF Stacked, Framed, Valued
<1>16. Good(m2, ct, <<>>, fs2, ls2, NULL, R1) BY ONLY <1>9, <1>11, <1>15 DEF Good
<1>17. Typed1(m2) BY <1>9, TidyTyped
<1>18. Shaped(ct, <<>>, fs2, ls2, NULL) BY ONLY <1>1, <1>12, <1>13, <1>14 DEF Shaped
<1> QED BY ONLY <1>16, <1>17, <1>18 DEF Sound

(* Steps: reset. *)

\* No result is deleted.
LEMMA CleanedNone ==
  ASSUME NEW m, NEW rs \in Seq(Cells), NEW n, n = Len(rs)
  PROVE  Cleaned(m, rs, n) = m
<1> DEFINE Rec(f) == [i \in n..Len(rs) |-> IF i = Len(rs) THEN m ELSE DeleteList(f[i + 1], rs[i + 1])]
<1>1. n \in Nat OBVIOUS
<1>2. \A i \in n..n : i = n BY <1>1
<1>3. \E f : f = Rec(f)
  <2>1. PICK g : g = [i \in n..n |-> m] OBVIOUS
  <2>2. g = Rec(g) BY <1>2, <2>1
  <2> QED BY <2>2
<1>4. PICK f : f = CHOOSE e : e = Rec(e) OBVIOUS
<1>5. f = Rec(f) BY <1>3, <1>4
<1>6. Cleaned(m, rs, n) = f[n] BY <1>4 DEF Cleaned
<1>7. n \in n..Len(rs) BY <1>1
<1> QED BY <1>5, <1>6, <1>7

\* (reset nil): a list of two atoms is made.
LEMMA ResetNilStep ==
  ASSUME NEW m, NEW ct, NEW rs, NEW fs, NEW ls, NEW v, NEW R, Ready(m, ct, rs, fs, ls, v, R),
         NEW before, before = GetCell(FreeCellBlocks(m), "atom", nilCell),
         NEW list, list = GetCell(before.mem, "list", before.cell),
         NEW after, after = GetCell(list.mem, "atom", nilCell),
         NEW m1, m1 = NextSet(after.mem, before.cell, after.cell),
         NEW m2, m2 = Cleaned(m1, rs, Len(rs)),
         NEW rs2, rs2 = Append(SubSeq(rs, 1, Len(rs)), list.cell)
  PROVE  Sound(m2, ct, rs2, fs, ls, list.cell)
<1>1. /\ ct \in [Syms -> Cells] /\ rs \in Seq(Cells) /\ fs \in Seq(Frames)
      /\ ls \in SUBSET Cells /\ Framed(fs, m.heap) /\ Stacked(fs, Len(rs))
      /\ Tidy(m, R) /\ Owns(Held(ct, rs, fs, ls), R) /\ R \subseteq Alive(m.heap)
      /\ Alive(m.heap) \cap Permanent = {} BY ReadyFacts
<1>2. PICK b, l, a, ma, mb, mc, md : /\ b = before.cell /\ l = list.cell /\ a = after.cell
                                     /\ ma = FreeCellBlocks(m) /\ mb = before.mem
                                     /\ mc = list.mem /\ md = after.mem OBVIOUS
<1>3. /\ Tidy(ma, R) /\ Alive(ma.heap) = Alive(m.heap) /\ Keeps(m.heap, ma.heap, Alive(m.heap))
  <2>1. Trimmed(m, R, ma) BY ONLY <1>1, <1>2, BlocksTidy
  <2> QED BY <2>1 DEF Trimmed
<1>4. Framed(fs, ma.heap) BY ONLY <1>1, <1>3, FramedKeeps
<1>5. PICK t, n : t = "atom" /\ t \in {"atom", "list"} /\ n = nilCell OBVIOUS
<1>6. t = "atom" => n = nilCell BY <1>5
<1>7. before = GetCell(ma, t, n) /\ after = GetCell(mc, t, n) /\ list = GetCell(mb, "list", b)
      /\ m1 = [md EXCEPT !.heap[b].next = a] BY <1>2, <1>5 DEF NextSet
<1>8. GotMore(fs, ma, R, t, n, before)
  <2>1. n \in R \cup {nilCell} BY <1>5
  <2> QED BY ONLY <1>3, <1>4, <1>5, <1>6, <1>7, <2>1, GetMore
<1>9. PICK Q1 : Tidy(mb, Q1) /\ b \in Q1 \cup {nilCell} /\ Framed(fs, mb.heap) /\ b \in Cells
  BY <1>2, <1>8 DEF GotMore
<1>10. ASSUME NEW Q, Tidy(mb, Q), b \in Q \cup {nilCell} PROVE GotMore(fs, mb, Q, "list", b, list)
  <2>1. PICK y : y = "list" /\ y \in {"atom", "list"} OBVIOUS
  <2>2. y = "atom" => b = nilCell BY <2>1
  <2>3. list = GetCell(mb, y, b) BY <1>7, <2>1
  <2>4. GotMore(fs, mb, Q, y, b, list) BY ONLY <1>9, <1>10, <2>1, <2>2, <2>3, GetMore
  <2> QED BY <2>1, <2>4
<1>11. PICK Q2 : Tidy(mc, Q2) /\ Framed(fs, mc.heap) /\ l \in Cells
  BY <1>2, <1>9, <1>10 DEF GotMore
<1>12. ASSUME NEW Q, Tidy(mc, Q) PROVE GotMore(fs, mc, Q, t, n, after)
  <2>1. n \in Q \cup {nilCell} BY <1>5
  <2> QED BY ONLY <1>5, <1>6, <1>7, <1>11, <1>12, <2>1, GetMore
<1>13. PICK Q3 : Tidy(md, Q3) /\ Framed(fs, md.heap) /\ a \in Cells
  BY <1>2, <1>11, <1>12 DEF GotMore
<1>14. PICK h : h = md.heap OBVIOUS
<1>15. /\ Typed1(m1) /\ m1.process = md.process
       /\ Sets(md, b, Cell(h[b].type, a, h[b].aux, h[b].contents), m1)
  <2>1. Typed1(md) BY <1>13, TidyTyped
  <2>2. a \in Cells \cup {NULL} BY <1>13
  <2> QED BY ONLY <1>7, <1>9, <1>14, <2>1, <2>2, WriteNextOf
<1>16. l \in Cells \cup {NULL} /\ rs2 \in Seq(Cells)
  <2>1. rs2 = Append(SubSeq(rs, 1, Len(rs)), l) BY <1>2
  <2> QED BY ONLY <1>1, <1>11, <2>1
<1>17. CASE m1.process # "runs"
  <2>1. m2 = m1
    <3>1. PICK w : w = Len(rs) OBVIOUS
    <3>2. Cleaned(m1, rs, w) = m1 BY ONLY <1>1, <3>1, CleanedNone
    <3> QED BY ONLY <3>1, <3>2, m2 = Cleaned(m1, rs, Len(rs))
  <2>2. Sound(m2, ct, rs2, fs, ls, l) BY ONLY <1>1, <1>15, <1>16, <1>17, <2>1, SoundExit
  <2> QED BY <1>2, <2>2
<1>18. CASE m1.process = "runs"
  <2>1. md.process = "runs" /\ mc.process = "runs" /\ mb.process = "runs"
    BY <1>2, <1>9, <1>10, <1>11, <1>12, <1>15, <1>18 DEF GotMore
  <2>2. PICK Qb : Qb = R \cup {b} OBVIOUS
  <2>3. R \ {nilCell} = R /\ R \cap Permanent = {} BY <1>1 DEF Permanent
  <2>4. b \notin Alive(ma.heap) /\ b \notin Permanent /\ Tidy(mb, Qb)
        /\ mb.heap[b] = Cell("atom", nilCell, nilCell, nilCell)
    BY <1>2, <1>5, <1>8, <2>1, <2>2, <2>3 DEF GotMore
  <2>5. b \in Qb \cup {nilCell} /\ b # nilCell /\ Qb \ {b} = R /\ b \notin R
    BY <1>1, <1>3, <2>2, <2>4 DEF Permanent
  <2>6. PICK Qc : Qc = R \cup {l} OBVIOUS
  <2>7. /\ l \notin Alive(mb.heap) /\ l \notin Permanent /\ Tidy(mc, Qc)
        /\ mc.heap[l] = Cell("list", nilCell, nilCell, b) /\ EndOf(mc.heap, l, b)
    BY <1>2, <1>10, <2>1, <2>4, <2>5, <2>6 DEF GotMore
  <2>8. PICK Qd : Qd = Qc \cup {a} OBVIOUS
  <2>9. Qc \ {nilCell} = Qc BY <2>3, <2>6, <2>7 DEF Permanent
  <2>10. /\ a \notin Alive(mc.heap) /\ a \notin Permanent /\ Tidy(md, Qd)
         /\ Keeps(mc.heap, md.heap, Alive(mc.heap))
    BY <1>2, <1>5, <1>12, <2>1, <2>7, <2>8, <2>9 DEF GotMore
  <2>11. Shape(mc.heap, Qc) /\ Shape(h, Qd) BY <1>14, <2>7, <2>10 DEF Tidy, Owned
  <2>12. l \in Qc /\ l \in Qd /\ a \in Qd /\ Qc \subseteq Alive(mc.heap) /\ Qd \subseteq Alive(h)
    BY <2>6, <2>8, <2>11 DEF Shape
  <2>13. l # a /\ a \notin Qc /\ Qd \ {a} = Qc BY <2>8, <2>10, <2>12
  <2>14. h[l] = Cell("list", nilCell, nilCell, b) /\ EndOf(h, l, b)
    BY <1>14, <2>7, <2>10, <2>12 DEF Keeps
  <2>15. b \notin Tree(h, a) /\ b # l
    <3>1. l \in Qd /\ a \in Qd /\ l # a BY <2>12, <2>13
    <3> QED BY ONLY <2>11, <2>14, <3>1, EndApart
  <2>16. PICK g : /\ g \in [Cells -> CellRecords] /\ m1 = [md EXCEPT !.heap = g]
                  /\ g[b] = Cell(h[b].type, a, h[b].aux, h[b].contents)
                  /\ \A x \in Cells \ {b} : g[x] = h[x]
    <3>1. PICK g : /\ Written(md.heap, b, Cell(h[b].type, a, h[b].aux, h[b].contents), g)
                   /\ m1 = [md EXCEPT !.heap = g] BY <1>15 DEF Sets
    <3> QED BY <1>14, <3>1 DEF Written
  <2>17. HungNext(md, Qd, a, l, b, g, m1)
    <3>1. h[l].type = "list" /\ h[l].next = nilCell /\ h[l].contents = b
          /\ h[l].aux = nilCell BY ONLY <2>14 DEF Cell
    <3>2. PICK d : d = nilCell /\ d \in {nilCell, a} OBVIOUS
    <3>3. \A x \in Cells \ {l, b} : g[x] = h[x] BY <2>16
    <3>4. g[l] = Cell("list", h[l].next, d, h[l].contents) BY <1>11, <2>14, <2>15, <2>16, <3>1, <3>2
    <3>5. l \in Alive(h) /\ a \in Qd BY <2>12
    <3> QED BY ONLY <1>9, <1>14, <2>10, <2>14, <2>15, <2>16, <3>1, <3>2, <3>3, <3>4, <3>5, HangNext
  <2>18. /\ Tidy(m1, Qc) /\ m1.heap = g /\ Holds(h, g, Alive(h) \ {l})
    BY <1>14, <2>13, <2>17 DEF HungNext, Relinked
  <2>19. \A k \in Building(fs) : fs[k].cell \in Alive(h) \ {l}
    <3>1. \A k \in Building(fs) : fs[k].cell \in R BY <1>1, FramesOwned
    <3>2. \A k \in Building(fs) : fs[k].cell \in Alive(mb.heap)
      <4>1. Framed(fs, mb.heap) BY <1>9
      <4> QED BY <4>1, FramesAlive
    <3>3. Framed(fs, h) BY <1>13, <1>14
    <3>4. \A k \in Building(fs) : fs[k].cell \in Alive(h) BY <3>3, FramesAlive
    <3> QED BY <2>7, <3>2, <3>4
  <2>20. Framed(fs, m1.heap)
    <3>1. PICK A : A = Alive(h) \ {l} OBVIOUS
    <3>2. Framed(fs, h) /\ Holds(h, g, A) /\ \A k \in Building(fs) : fs[k].cell \in A
      BY <1>13, <1>14, <2>18, <2>19, <3>1
    <3>3. Framed(fs, g) BY ONLY <3>2, FramedKept
    <3> QED BY <2>18, <3>3
  <2>21. l \notin R
    <3>1. R \subseteq Alive(mb.heap)
      <4>1. Shape(mb.heap, Qb) BY <2>4 DEF Tidy, Owned
      <4> QED BY <2>2, <4>1 DEF Shape
    <3> QED BY <2>7, <3>1
  <2>22. PICK w : w = Len(rs) OBVIOUS
  <2>23. /\ l \in Qc \cup Permanent /\ Owns(Held(ct, rs, fs, ls), Qc \ {l})
         /\ w \in Nat /\ w <= Len(rs) /\ Stacked(fs, w)
         /\ m2 = Cleaned(m1, rs, w) /\ rs2 = Append(SubSeq(rs, 1, w), l)
    <3>1. Qc \ {l} = R /\ l \in Qc BY ONLY <2>6, <2>21
    <3>2. Owns(Held(ct, rs, fs, ls), Qc \ {l}) /\ Stacked(fs, w) BY ONLY <1>1, <2>22, <3>1
    <3>3. w \in Nat /\ w <= Len(rs) BY ONLY <1>1, <2>22
    <3>4. m2 = Cleaned(m1, rs, w) BY ONLY <2>22, m2 = Cleaned(m1, rs, Len(rs))
    <3>5. rs2 = Append(SubSeq(rs, 1, w), l)
      BY ONLY <1>2, <2>22, rs2 = Append(SubSeq(rs, 1, Len(rs)), list.cell)
    <3> QED BY ONLY <3>1, <3>2, <3>3, <3>4, <3>5
  <2>24. Sound(m2, ct, rs2, fs, ls, l) BY ONLY <1>1, <2>18, <2>20, <2>23, PushGood
  <2> QED BY <1>2, <2>24
<1> QED BY <1>17, <1>18

(* Startup. *)

\* The cells of the first heap: all that are in use belong to built-in symbols.
Started(h) ==
  /\ h \in Heaps /\ Alive(h) = BuiltinCells /\ h[nilCell].type = "nil" /\ h[trueCell].type = "true"
  /\ \A x \in Cells : After(h, x) = nilCell /\ Below(h, x) = nilCell /\ h[x].type # "list"
  /\ \A x \in Cells : h[x].type = "unmapped" <=> x[1] # 1
  /\ \A x \in Cells : h[x].type = "free" <=> x[1] = 1 /\ x[2] > Builtins
  /\ \A i \in Builtins + 1 .. BlockSize :
       h[<<1, i>>].next = IF i = BlockSize THEN NULL ELSE <<1, i + 1>>

\* Startup's heap is the one described.
LEMMA StartedHeap == Started(Startup.heap)
<1>1. PICK h : h = Startup.heap OBVIOUS
<1>2. \A x \in Cells : h[x] =
        IF x = nilCell THEN Cell("nil", nilCell, nilCell, nilCell)
        ELSE IF x = trueCell THEN Cell("true", nilCell, nilCell, nilCell)
        ELSE IF x[1] # 1 THEN Unmapped
        ELSE IF x[2] <= Builtins THEN Cell("atom", nilCell, nilCell, nilCell)
        ELSE FreeCell(IF x[2] = BlockSize THEN NULL ELSE <<1, x[2] + 1>>) BY <1>1 DEF Startup
<1>3. h = [x \in Cells |-> h[x]] BY <1>1 DEF Startup
<1>4. MaxBlocks \in Nat \ {0} /\ BlockSize \in Nat /\ Builtins \in Nat /\ 2 <= Builtins
      /\ Builtins <= BlockSize BY HeapAssumption
<1>5. nilCell \in Cells /\ trueCell \in Cells /\ nilCell # trueCell BY Special
<1>6. \A x \in Cells : x = <<x[1], x[2]>> /\ x[1] \in 1..MaxBlocks /\ x[2] \in 1..BlockSize
  BY DEF Cells
<1>7. \A x \in Cells : (x = nilCell \/ x = trueCell) => x[1] = 1 /\ x[2] <= Builtins
  BY <1>4 DEF nilCell, trueCell
<1>8. ASSUME NEW x \in Cells
      PROVE  /\ h[x] \in CellRecords /\ (h[x].type # "list" /\ h[x].contents = nilCell)
             /\ h[x].type \notin {"unmapped", "free"} => h[x].next = nilCell
             /\ h[x].type = "unmapped" <=> x[1] # 1
             /\ h[x].type = "free" <=> x[1] = 1 /\ x[2] > Builtins
             /\ h[x].type = "free" => h[x].next = IF x[2] = BlockSize THEN NULL ELSE <<1, x[2] + 1>>
  <2>1. CASE x = nilCell
    <3>1. h[x] = Cell("nil", nilCell, nilCell, nilCell) BY <1>2, <2>1
    <3>2. x[1] = 1 /\ ~ (x[2] > Builtins) BY <1>4, <1>6, <1>7, <2>1
    <3> QED BY <1>5, <3>1, <3>2 DEF Cell, CellRecords, Types
  <2>2. CASE x = trueCell
    <3>1. h[x] = Cell("true", nilCell, nilCell, nilCell) BY <1>2, <1>5, <2>2
    <3>2. x[1] = 1 /\ ~ (x[2] > Builtins) BY <1>4, <1>6, <1>7, <2>2
    <3> QED BY <1>5, <3>1, <3>2 DEF Cell, CellRecords, Types
  <2>3. CASE x # nilCell /\ x # trueCell /\ x[1] # 1
    <3>1. h[x] = Unmapped BY <1>2, <2>3
    <3> QED BY <1>5, <2>3, <3>1 DEF Unmapped, Cell, CellRecords, Types
  <2>4. CASE x # nilCell /\ x # trueCell /\ x[1] = 1 /\ x[2] <= Builtins
    <3>1. h[x] = Cell("atom", nilCell, nilCell, nilCell) BY <1>2, <2>4
    <3>2. ~ (x[2] > Builtins) BY <1>4, <1>6, <2>4
    <3> QED BY <1>5, <2>4, <3>1, <3>2 DEF Cell, CellRecords, Types
  <2>5. CASE x # nilCell /\ x # trueCell /\ x[1] = 1 /\ ~(x[2] <= Builtins)
    <3>1. PICK n : n = IF x[2] = BlockSize THEN NULL ELSE <<1, x[2] + 1>> OBVIOUS
    <3>2. h[x] = FreeCell(n) BY <1>2, <2>5, <3>1
    <3>3. x[2] > Builtins BY <1>4, <1>6, <2>5
    <3>4. n \in Cells \cup {NULL}
      <4>1. CASE x[2] = BlockSize BY <3>1, <4>1
      <4>2. CASE x[2] # BlockSize
        <5>1. x[2] + 1 \in 1..BlockSize /\ 1 \in 1..MaxBlocks BY <1>4, <1>6, <4>2
        <5> QED BY <3>1, <4>2, <5>1 DEF Cells
      <4> QED BY <4>1, <4>2
    <3> QED BY <1>5, <2>5, <3>1, <3>2, <3>3, <3>4 DEF FreeCell, Cell, CellRecords, Types
  <2> QED BY <2>1, <2>2, <2>3, <2>4, <2>5
<1>9. h \in Heaps
  <2>1. h \in [Cells -> CellRecords] BY <1>3, <1>8
  <2> QED BY <1>8, <2>1 DEF Heaps, CellRecords
<1>10. Alive(h) = BuiltinCells
  <2>1. ASSUME NEW x PROVE x \in Alive(h) <=> x \in BuiltinCells
    <3>1. CASE x \in Cells
      <4>1. x \in Alive(h) <=> x[1] = 1 /\ ~(x[2] > Builtins) /\ x # nilCell /\ x # trueCell
        BY <1>8, <3>1 DEF Alive, Permanent
      <4>2. x = nilCell <=> x[1] = 1 /\ x[2] = 1 BY <1>6, <3>1 DEF nilCell
      <4>3. x = trueCell <=> x[1] = 1 /\ x[2] = 2 BY <1>6, <3>1 DEF trueCell
      <4>4. x \in BuiltinCells <=> x[1] = 1 /\ x[2] \in 3..Builtins BY <1>6, <3>1 DEF BuiltinCells
      <4>5. x[2] \in 3..Builtins <=> ~(x[2] > Builtins) /\ x[2] # 1 /\ x[2] # 2
        BY <1>4, <1>6, <3>1
      <4> QED BY <4>1, <4>2, <4>3, <4>4, <4>5
    <3>2. CASE x \notin Cells
      <4>1. x \notin BuiltinCells
        <5>1. \A i \in 3..Builtins : i \in 1..BlockSize BY <1>4
        <5>2. 1 \in 1..MaxBlocks BY <1>4
        <5> QED BY <3>2, <5>1, <5>2 DEF BuiltinCells, Cells
      <4> QED BY <3>2, <4>1 DEF Alive
    <3> QED BY <3>1, <3>2
  <2> QED BY <2>1
<1>11. h[nilCell].type = "nil" /\ h[trueCell].type = "true"
  <2>1. /\ h[nilCell] = Cell("nil", nilCell, nilCell, nilCell)
        /\ h[trueCell] = Cell("true", nilCell, nilCell, nilCell) BY <1>2, <1>5
  <2> QED BY ONLY <2>1 DEF Cell
<1>12. \A x \in Cells : After(h, x) = nilCell /\ Below(h, x) = nilCell BY <1>8 DEF After, Below
<1>13. ASSUME NEW i \in Builtins + 1 .. BlockSize
       PROVE h[<<1, i>>].next = IF i = BlockSize THEN NULL ELSE <<1, i + 1>>
  <2>1. i \in 1..BlockSize /\ 1 \in 1..MaxBlocks /\ i > Builtins BY <1>4
  <2>2. PICK x : x = <<1, i>> OBVIOUS
  <2>3. x \in Cells /\ x[1] = 1 /\ x[2] = i BY <2>1, <2>2 DEF Cells
  <2> QED BY <1>8, <2>1, <2>2, <2>3
<1> QED BY <1>1, <1>8, <1>9, <1>10, <1>11, <1>12, <1>13 DEF Started

\* The first memory is tidy.
LEMMA StartupTidy == Tidy(Startup, BuiltinCells)
<1>1. PICK h : h = Startup.heap OBVIOUS
<1>2. /\ h \in Heaps /\ Alive(h) = BuiltinCells /\ h[nilCell].type = "nil"
      /\ h[trueCell].type = "true"
      /\ \A x \in Cells : After(h, x) = nilCell /\ Below(h, x) = nilCell /\ h[x].type # "list"
      /\ \A x \in Cells : h[x].type = "unmapped" <=> x[1] # 1
      /\ \A x \in Cells : h[x].type = "free" <=> x[1] = 1 /\ x[2] > Builtins
      /\ \A i \in Builtins + 1 .. BlockSize :
           h[<<1, i>>].next = IF i = BlockSize THEN NULL ELSE <<1, i + 1>>
  BY <1>1, StartedHeap DEF Started
<1>3. MaxBlocks \in Nat \ {0} /\ BlockSize \in Nat /\ Builtins \in Nat /\ 2 <= Builtins
      /\ Builtins <= BlockSize BY HeapAssumption
<1>4. nilCell \in Cells /\ trueCell \in Cells /\ nilCell # trueCell BY Special
<1>5. PICK R : R = BuiltinCells OBVIOUS
<1>6. Shape(h, R)
  <2>1. /\ R \subseteq Alive(h)
        /\ \A x \in Cells : /\ After(h, x) \in (Alive(h) \ R) \cup {nilCell}
                            /\ Below(h, x) \in (Alive(h) \ R) \cup {nilCell}
        /\ After(h, trueCell) = nilCell
        /\ \A y \in Alive(h) \ R : \E x \in Alive(h) : y \in {After(h, x), Below(h, x)}
        /\ \A x \in Cells : After(h, x) = Below(h, x) => After(h, x) = nilCell BY <1>2, <1>4, <1>5
  <2>2. \A r \in R : After(h, r) = nilCell BY <1>2, <1>5 DEF Alive
  <2>3. OneOwner(h) BY <1>2 DEF OneOwner, Links
  <2>4. Ranked(h)
    <3>1. PICK N : N = 1 /\ N \in Nat /\ 0 \in 0..N /\ 1 \in 0..N OBVIOUS
    <3>2. PICK rank : rank = [x \in Cells |-> IF x = nilCell THEN 0 ELSE 1] OBVIOUS
    <3>3. rank \in [Cells -> 0..N] /\ rank[nilCell] = 0 BY <1>4, <3>1, <3>2
    <3>4. \A x \in Cells \ {nilCell} : rank[After(h, x)] < rank[x] /\ rank[Below(h, x)] < rank[x]
      <4>1. \A x \in Cells \ {nilCell} : rank[x] = 1 BY <3>2
      <4> QED BY <1>2, <3>3, <4>1
    <3>5. \A x \in Cells : After(h, x) \in Cells /\ Below(h, x) \in Cells BY <1>2, <1>4
    <3>6. After(h, nilCell) = nilCell /\ Below(h, nilCell) = nilCell BY <1>2, <1>4
    <3> QED BY ONLY <3>1, <3>3, <3>4, <3>5, <3>6, MakeRanked
  <2> QED BY ONLY <1>2, <2>1, <2>2, <2>3, <2>4, MakeShape
<1>7. Lasts(h) BY <1>2 DEF Lasts, Alive
<1>8. /\ Startup.blocks = <<1>> /\ Startup.process = "runs"
      /\ Startup.free = IF BlockSize > Builtins THEN <<1, Builtins + 1>> ELSE NULL
      /\ Startup = [heap |-> h, free |-> Startup.free, blocks |-> <<1>>, process |-> "runs"]
  BY <1>1 DEF Startup
<1>9. <<1>> \in Seq(1..MaxBlocks) /\ Len(<<1>>) = 1 /\ <<1>>[1] = 1 /\ Range(<<1>>) = {1}
  <2>1. 1 \in 1..MaxBlocks BY <1>3
  <2>2. <<1>> \in Seq(1..MaxBlocks) BY <2>1
  <2>3. PICK s : s = <<1>> OBVIOUS
  <2>4. DOMAIN s = 1..1 /\ s[1] = 1 /\ Len(s) = 1 BY <2>3
  <2>5. Range(s) = {1} BY <2>4 DEF Range
  <2> QED BY <2>2, <2>3, <2>4, <2>5
<1>10. Blocked(Startup)
  <2>1. \A i, j \in 1..1 : i = j OBVIOUS
  <2>2. \A x \in Cells : h[x].type = "unmapped" <=> x[1] \notin {1} BY <1>2
  <2> QED BY <1>1, <1>8, <1>9, <2>1, <2>2 DEF Blocked
<1>11. Startup.free \in Cells \cup {NULL}
  <2>1. CASE BlockSize > Builtins
    <3>1. Builtins + 1 \in 1..BlockSize /\ 1 \in 1..MaxBlocks BY <1>3, <2>1
    <3> QED BY <1>8, <2>1, <3>1 DEF Cells
  <2>2. CASE ~(BlockSize > Builtins) BY <1>8, <2>2
  <2> QED BY <2>1, <2>2
<1>12. Startup \in Memories
  <2>1. PICK f : f = Startup.free OBVIOUS
  <2>2. Startup = [heap |-> h, free |-> f, blocks |-> <<1>>, process |-> "runs"] BY <1>8, <2>1
  <2>3. f \in Cells \cup {NULL} BY <1>11, <2>1
  <2> QED BY ONLY <1>2, <1>9, <2>2, <2>3 DEF Memories
<1>13. \E s : FreedAs(Startup, s)
  <2>1. PICK n \in Nat : n = BlockSize - Builtins
    <3>1. BlockSize - Builtins \in Nat BY <1>3
    <3> QED BY <3>1
  <2>2. PICK s : s = [i \in 1..n |-> <<1, Builtins + i>>] OBVIOUS
  <2>3. ASSUME NEW i \in 1..n PROVE s[i] = <<1, Builtins + i>> /\ s[i] \in Cells
    <3>1. Builtins + i \in 1..BlockSize /\ 1 \in 1..MaxBlocks BY <1>3, <2>1
    <3> QED BY <2>2, <3>1 DEF Cells
  <2>4. s \in Seq(Cells) /\ Len(s) = n
    <3>1. s \in [1..n -> Cells] BY <2>2, <2>3
    <3> QED BY <3>1
  <2>5. \A i, j \in 1..n : s[i] = s[j] => i = j
    <3>1. ASSUME NEW i \in 1..n, NEW j \in 1..n, s[i] = s[j] PROVE i = j
      <4>1. <<1, Builtins + i>>[2] = Builtins + i /\ <<1, Builtins + j>>[2] = Builtins + j OBVIOUS
      <4>2. Builtins + i = Builtins + j BY <2>3, <3>1, <4>1
      <4> QED BY <1>3, <4>2
    <3> QED BY <3>1
  <2>6. PICK F : F = {x \in Cells : Startup.heap[x].type = "free"} OBVIOUS
  <2>7. \A y : y \in F <=> \E i \in 1..Len(s) : s[i] = y
    <3>1. ASSUME NEW y \in F PROVE \E i \in 1..n : s[i] = y
      <4>1. y \in Cells /\ y[1] = 1 /\ y[2] > Builtins BY <1>1, <1>2, <2>6
      <4>2. y = <<1, y[2]>> /\ y[2] \in 1..BlockSize BY <4>1 DEF Cells
      <4>3. PICK i : i = y[2] - Builtins OBVIOUS
      <4>4. i \in 1..n /\ Builtins + i = y[2] BY <1>3, <2>1, <4>1, <4>2, <4>3
      <4> QED BY <2>3, <4>2, <4>4
    <3>2. ASSUME NEW i \in 1..n PROVE s[i] \in F
      <4>1. PICK y : y = s[i] /\ y = <<1, Builtins + i>> /\ y \in Cells BY <2>3
      <4>2. y[1] = 1 /\ y[2] = Builtins + i BY <4>1
      <4>3. y[2] > Builtins BY <1>3, <4>2
      <4> QED BY <1>1, <1>2, <2>6, <4>1, <4>2, <4>3
    <3> QED BY <2>4, <3>1, <3>2
  <2>8. Lists(s, F) BY <2>4, <2>5, <2>7 DEF Lists
  <2>9. Startup.free = IF s = <<>> THEN NULL ELSE s[1]
    <3>1. CASE n = 0
      <4>1. s = <<>> /\ ~(BlockSize > Builtins) BY <1>3, <2>1, <2>4, <3>1
      <4> QED BY <1>8, <4>1
    <3>2. CASE n # 0
      <4>1. s # <<>> /\ BlockSize > Builtins /\ 1 \in 1..n BY <1>3, <2>1, <2>4, <3>2
      <4> QED BY <1>8, <2>3, <4>1
    <3> QED BY <3>1, <3>2
  <2>10. ASSUME NEW i \in 1..Len(s)
         PROVE  Startup.heap[s[i]].next = IF i = Len(s) THEN NULL ELSE s[i + 1]
    <3>1. i \in 1..n /\ Builtins + i \in Builtins + 1 .. BlockSize BY <1>3, <2>1, <2>4
    <3>2. h[s[i]].next = IF Builtins + i = BlockSize THEN NULL ELSE <<1, (Builtins + i) + 1>>
      BY <1>2, <2>3, <3>1
    <3>3. CASE i = n
      <4>1. Builtins + i = BlockSize BY <1>3, <2>1, <3>3
      <4> QED BY <1>1, <2>4, <3>2, <3>3, <4>1
    <3>4. CASE i # n
      <4>1. i + 1 \in 1..n /\ Builtins + i # BlockSize /\ (Builtins + i) + 1 = Builtins + (i + 1)
        BY <1>3, <2>1, <3>1, <3>4
      <4> QED BY <1>1, <2>3, <2>4, <3>2, <3>4, <4>1
    <3> QED BY <3>3, <3>4
  <2>11. FreedAs(Startup, s) BY <2>6, <2>8, <2>9, <2>10 DEF FreedAs
  <2> QED BY <2>11
<1>14. Owned(Startup.heap, BuiltinCells) BY <1>1, <1>5, <1>6, <1>7 DEF Owned
<1> QED BY <1>10, <1>12, <1>13, <1>14 DEF Tidy

\* What begins.
LEMMA StartSound ==
  ASSUME NEW ct, ct = [s \in Syms |-> nilCell]
  PROVE  Sound(Startup, ct, <<>>, <<>>, {}, NULL)
<1>1. Tidy(Startup, BuiltinCells) BY StartupTidy
<1>2. ct \in [Syms -> Cells] /\ \A s \in Syms : ct[s] = nilCell BY Special
<1>3. <<>> \in Seq(Cells) /\ <<>> \in Seq(Frames) /\ {} \subseteq Cells /\ NULL \in Cells \cup {NULL}
      /\ Len(<<>>) = 0 OBVIOUS
<1>4. PICK H : H = Held(ct, <<>>, <<>>, {}) OBVIOUS
<1>5. Building(<<>>) = {} BY <1>3 DEF Building
<1>6. \A p : p \in H <=> \/ \E s \in Syms : p = <<"symbol", s, nilCell>>
                         \/ \E c \in BuiltinCells : p = <<"kept", c, c>>
  <2>1. ASSUME NEW p
        PROVE p \in H <=> \/ \E s \in Syms : p = <<"symbol", s, ct[s]>>
                          \/ \E c \in BuiltinCells : p = <<"kept", c, c>>
    <3>1. \A i : i \notin 1..0 OBVIOUS
    <3> QED BY <1>3, <1>4, <1>5, <3>1, HeldIn
  <2> QED BY <1>2, <2>1
<1>7. ASSUME NEW p \in H
      PROVE  p[3] = nilCell \/ \E c \in BuiltinCells : p = <<"kept", c, c>> /\ p[3] = c
  <2>1. CASE \E s \in Syms : p = <<"symbol", s, nilCell>> BY <2>1
  <2>2. CASE \E c \in BuiltinCells : p = <<"kept", c, c>> BY <2>2
  <2> QED BY <1>6, <2>1, <2>2
<1>8. BuiltinCells \cap Permanent = {}
  <2>1. \A i \in 3..Builtins : i # 1 /\ i # 2 BY HeapAssumption
  <2> QED BY <2>1 DEF BuiltinCells, Permanent, nilCell, trueCell
<1>9. ASSUME NEW r PROVE r \in BuiltinCells <=> r \notin Permanent /\ \E p \in H : p[3] = r
  <2>1. ASSUME r \in BuiltinCells PROVE \E p \in H : p[3] = r
    <3>1. PICK p : p = <<"kept", r, r>> OBVIOUS
    <3> QED BY <1>6, <2>1, <3>1
  <2>2. ASSUME r \notin Permanent, NEW p \in H, p[3] = r PROVE r \in BuiltinCells
    BY <1>7, <2>2 DEF Permanent
  <2> QED BY <1>8, <2>1, <2>2
<1>10. \A p, q \in H : p[3] = q[3] /\ p[3] \notin Permanent => p = q BY <1>7 DEF Permanent
<1>11. Owns(H, BuiltinCells) BY <1>9, <1>10 DEF Owns
<1>12. Stacked(<<>>, Len(<<>>)) /\ Framed(<<>>, Startup.heap)
       /\ Valued(Startup.heap, <<>>, <<>>, NULL) BY ONLY <1>3 DEF Stacked, Framed, Valued
<1>13. Good(Startup, ct, <<>>, <<>>, {}, NULL, BuiltinCells)
  BY ONLY <1>1, <1>4, <1>11, <1>12 DEF Good
<1>14. Shaped(ct, <<>>, <<>>, {}, NULL) BY ONLY <1>2, <1>3 DEF Shaped
<1>15. Typed1(Startup) BY <1>1, TidyTyped
<1> QED BY ONLY <1>13, <1>14, <1>15 DEF Sound

(* The invariant, and what each action does to it. *)

IndInv == Sound(mem, contents, results, frames, lost, value) /\ calls \in 0..MaxCalls

\* A process that runs is ready for a step.
LEMMA InvReady ==
  ASSUME IndInv, Runs
  PROVE  \E R : Ready(mem, contents, results, frames, lost, value, R)
<1>1. Sound(mem, contents, results, frames, lost, value) BY DEF IndInv
<1> QED BY <1>1 DEF Runs, Sound, Ready

\* The invariant survives reading a program.
LEMMA ReadProgramKeeps == IndInv /\ ReadProgram => IndInv'
<1> SUFFICES ASSUME IndInv, ReadProgram PROVE IndInv' OBVIOUS
<1>1. Runs BY DEF ReadProgram
<1>2. PICK R : Ready(mem, contents, results, frames, lost, value, R) BY <1>1, InvReady
<1>3. PICK quote : quote = GetCell(mem, "list", nilCell) OBVIOUS
<1>4. PICK inner : inner = GetCell(quote.mem, "atom", nilCell) OBVIOUS
<1>5. /\ results = <<>> /\ mem' = [inner.mem EXCEPT !.heap[quote.cell].contents = inner.cell]
      /\ results' = <<quote.cell>>
      /\ UNCHANGED <<contents, frames, value, lost, calls>>
  BY ONLY <1>3, <1>4, ReadProgram DEF ReadProgram
<1>6. PICK m2 : m2 = mem' OBVIOUS
<1>7. m2 = [inner.mem EXCEPT !.heap[quote.cell].contents = inner.cell] BY ONLY <1>5, <1>6
<1>8. results = <<>> BY ONLY <1>5
<1>9. Sound(m2, contents, <<quote.cell>>, frames, lost, value)
  BY ONLY <1>2, <1>3, <1>4, <1>7, <1>8, ReadStep
<1> QED BY ONLY <1>5, <1>6, <1>9, IndInv DEF IndInv

\* The invariant survives the end of a program.
LEMMA ProgramEndsKeeps == IndInv /\ ProgramEnds => IndInv'
<1> SUFFICES ASSUME IndInv, ProgramEnds PROVE IndInv' OBVIOUS
<1>1. Runs BY DEF ProgramEnds
<1>2. PICK R : Ready(mem, contents, results, frames, lost, value, R) BY <1>1, InvReady
<1>3. /\ frames = <<>> /\ mem' = Cleaned(mem, results, 0) /\ results' = <<>> /\ value' = NULL
      /\ UNCHANGED <<contents, frames, lost, calls>> BY DEF ProgramEnds
<1>4. PICK m2 : m2 = mem' OBVIOUS
<1>5. frames = <<>> /\ m2 = Cleaned(mem, results, 0) BY ONLY <1>3, <1>4
<1>6. Sound(m2, contents, <<>>, frames, lost, NULL) BY ONLY <1>2, <1>5, ProgramStep
<1> QED BY ONLY <1>3, <1>4, <1>6, IndInv DEF IndInv

\* The invariant survives (pop s).
LEMMA PopFirstKeeps ==
  ASSUME NEW s \in Syms PROVE IndInv /\ PopFirst(s) => IndInv'
<1> SUFFICES ASSUME IndInv, PopFirst(s) PROVE IndInv' OBVIOUS
<1>1. Runs BY DEF PopFirst, Calls, Evaluating
<1>2. PICK R : Ready(mem, contents, results, frames, lost, value, R) BY <1>1, InvReady
<1>3. PICK p, h : p = contents[s] /\ h = mem.heap OBVIOUS
<1>4. PICK z : z = h[p].contents OBVIOUS
<1>5. PICK rest : rest = h[z].next OBVIOUS
<1>6. PICK m1 : m1 = FirstPopped(mem, p, z, rest) OBVIOUS
<1>7. PICK n : n = Len(results) OBVIOUS
<1>8. /\ h[p].type = "list" /\ mem' = Cleaned(m1, results, n)
      /\ results' = Append(SubSeq(results, 1, n), z) /\ value' = z
      /\ UNCHANGED <<contents, frames, lost>> /\ calls < MaxCalls /\ calls' = calls + 1
  BY ONLY <1>3, <1>4, <1>5, <1>6, <1>7, PopFirst(s) DEF PopFirst, Push, Calls, FirstPopped
<1>9. PICK m2, rs2 : m2 = mem' /\ rs2 = results' OBVIOUS
<1>10. /\ h[p].type = "list" /\ m2 = Cleaned(m1, results, n)
       /\ rs2 = Append(SubSeq(results, 1, n), z) BY ONLY <1>8, <1>9
<1>11. Sound(m2, contents, rs2, frames, lost, z)
  BY ONLY <1>2, <1>3, <1>4, <1>5, <1>6, <1>7, <1>10, s \in Syms, PopFirstStep
<1>12. calls' \in 0..MaxCalls BY ONLY <1>8, IndInv, MemoryAssumption DEF IndInv
<1> QED BY ONLY <1>8, <1>9, <1>11, <1>12 DEF IndInv

\* The invariant survives (pop s -1).
LEMMA PopLastKeeps ==
  ASSUME NEW s \in Syms PROVE IndInv /\ PopLast(s) => IndInv'
<1> SUFFICES ASSUME IndInv, PopLast(s) PROVE IndInv' OBVIOUS
<1>1. Runs BY DEF PopLast, Calls, Evaluating
<1>2. PICK R : Ready(mem, contents, results, frames, lost, value, R) BY <1>1, InvReady
<1>3. PICK p, h : p = contents[s] /\ h = mem.heap OBVIOUS
<1>4. PICK items : items = Chain(h, h[p].contents) OBVIOUS
<1>5. PICK x : x = Last(items) OBVIOUS
<1>6. PICK m1 : m1 = LastPopped(mem, p, items) OBVIOUS
<1>7. PICK n : n = Len(results) OBVIOUS
<1>8. /\ h[p].type = "list" /\ items # <<>> /\ mem' = Cleaned(m1, results, n)
      /\ results' = Append(SubSeq(results, 1, n), x) /\ value' = x
      /\ UNCHANGED <<contents, frames, lost>> /\ calls < MaxCalls /\ calls' = calls + 1
  <2>1. m1 = IF Len(items) = 1
             THEN [mem EXCEPT !.heap[p] = Cell("list", @.next, nilCell, nilCell)]
             ELSE [mem EXCEPT !.heap[items[Len(items) - 1]].next = nilCell,
                              !.heap[p].aux = items[Len(items) - 1]] BY ONLY <1>6 DEF LastPopped
  <2>2. items = Chain(mem.heap, mem.heap[p].contents) /\ p = contents[s] BY ONLY <1>3, <1>4
  <2> DEFINE Less == IF Len(items) = 1
             THEN [mem EXCEPT !.heap[p] = Cell("list", @.next, nilCell, nilCell)]
             ELSE [mem EXCEPT !.heap[items[Len(items) - 1]].next = nilCell,
                              !.heap[p].aux = items[Len(items) - 1]]
  <2>3. /\ Calls /\ mem.heap[p].type = "list" /\ items # <<>>
        /\ Push(Less, results, Len(results), Last(items))
        /\ UNCHANGED <<contents, frames, lost>> BY ONLY <2>2, PopLast(s) DEF PopLast
  <2> HIDE DEF Less
  <2>4. Less = m1 BY ONLY <2>1 DEF Less
  <2> QED BY ONLY <2>3, <2>4, <1>3, <1>5, <1>7 DEF Push, Calls
<1>9. PICK m2, rs2 : m2 = mem' /\ rs2 = results' OBVIOUS
<1>10. /\ h[p].type = "list" /\ items # <<>> /\ m2 = Cleaned(m1, results, n)
       /\ rs2 = Append(SubSeq(results, 1, n), x) BY ONLY <1>8, <1>9
<1>11. Sound(m2, contents, rs2, frames, lost, x)
  BY ONLY <1>2, <1>3, <1>4, <1>5, <1>6, <1>7, <1>10, s \in Syms, PopLastStep
<1>12. calls' \in 0..MaxCalls BY ONLY <1>8, IndInv, MemoryAssumption DEF IndInv
<1> QED BY ONLY <1>8, <1>9, <1>11, <1>12 DEF IndInv

\* The invariant survives evaluating a constant.
LEMMA EvalConstantKeeps == IndInv /\ EvalConstant => IndInv'
<1> SUFFICES ASSUME IndInv, EvalConstant PROVE IndInv' OBVIOUS
<1>1. Runs BY DEF EvalConstant, Evaluating
<1>2. PICK R : Ready(mem, contents, results, frames, lost, value, R) BY <1>1, InvReady
<1>3. /\ results # <<>> /\ value' = mem.heap[results[1]].contents
      /\ UNCHANGED <<mem, contents, results, frames, lost, calls>> BY DEF EvalConstant, Evaluating
<1>4. Sound(mem, contents, results, frames, lost, mem.heap[results[1]].contents)
  BY ONLY <1>2, <1>3, ConstantStep
<1> QED BY ONLY <1>3, <1>4, IndInv DEF IndInv

\* The invariant survives evaluating a symbol.
LEMMA EvalSymbolKeeps ==
  ASSUME NEW s \in Syms PROVE IndInv /\ EvalSymbol(s) => IndInv'
<1> SUFFICES ASSUME IndInv, EvalSymbol(s) PROVE IndInv' OBVIOUS
<1>1. Runs BY DEF EvalSymbol, Evaluating
<1>2. PICK R : Ready(mem, contents, results, frames, lost, value, R) BY <1>1, InvReady
<1>3. value' = contents[s] /\ UNCHANGED <<mem, contents, results, frames, lost, calls>>
  BY DEF EvalSymbol
<1>4. Sound(mem, contents, results, frames, lost, contents[s])
  BY ONLY <1>2, s \in Syms, SymbolStep
<1> QED BY ONLY <1>3, <1>4, IndInv DEF IndInv

\* The invariant survives the call of a function that builds no list.
LEMMA EnterKeeps ==
  ASSUME NEW g, NEW s, g \in Functions \ {"list"}, s \in Syms \cup {""},
         g \in {"set", "push", "append"} => s \in Syms, g = "throw" => Catches(FALSE) # {}
  PROVE  IndInv /\ Enter(g, s) => IndInv'
<1> SUFFICES ASSUME IndInv, Enter(g, s) PROVE IndInv' OBVIOUS
<1>1. Runs BY DEF Enter, Calls, Evaluating
<1>2. PICK R : Ready(mem, contents, results, frames, lost, value, R) BY <1>1, InvReady
<1>3. results \in Seq(Cells) /\ frames \in Seq(Frames) BY <1>2, ReadyFacts
<1>4. PICK f : f = [fn |-> g, sym |-> s, cell |-> nilCell, last |-> nilCell, save |-> Len(results)]
  OBVIOUS
<1>5. /\ value = NULL /\ frames' = Append(frames, f) /\ calls < MaxCalls /\ calls' = calls + 1
      /\ UNCHANGED <<mem, contents, results, value, lost>>
  BY ONLY <1>4, Enter(g, s) DEF Enter, Calls, Evaluating, Frame
<1>6. f \in Frames /\ f.fn = g /\ f.sym = s /\ f.save = Len(results)
  <2>1. Len(results) \in Nat BY ONLY <1>3
  <2> QED BY <1>4, <2>1, Special DEF Frames
<1>7. f.fn # "list" /\ (f.fn \in {"set", "push", "append"} => f.sym \in Syms) BY <1>6
<1>8. f.fn = "throw" => \E j \in 1..Len(frames) : frames[j].fn = "catch"
  <2>1. g = "throw" => \E j \in DOMAIN frames : frames[j].fn = "catch" BY DEF Catches
  <2>2. DOMAIN frames = 1..Len(frames) BY ONLY <1>3
  <2> QED BY ONLY <2>1, <2>2, <1>6
<1>9. Sound(mem, contents, results, Append(frames, f), lost, value)
  BY ONLY <1>2, <1>5, <1>6, <1>7, <1>8, EnterStep
<1>10. calls' \in 0..MaxCalls
  <2>1. MaxCalls \in Nat /\ calls \in 0..MaxCalls BY MemoryAssumption DEF IndInv
  <2> QED BY ONLY <1>5, <2>1
<1> QED BY ONLY <1>5, <1>9, <1>10 DEF IndInv

\* The invariant survives the call of list.
LEMMA CallListKeeps == IndInv /\ CallList => IndInv'
<1> SUFFICES ASSUME IndInv, CallList PROVE IndInv' OBVIOUS
<1>1. Runs BY DEF CallList, Calls, Evaluating
<1>2. PICK R : Ready(mem, contents, results, frames, lost, value, R) BY <1>1, InvReady
<1>3. PICK new : new = GetCell(mem, "list", nilCell) OBVIOUS
<1>4. PICK f : f = [fn |-> "list", sym |-> "", cell |-> new.cell, last |-> nilCell, save |-> Len(results)]
  OBVIOUS
<1>5. /\ value = NULL /\ frames' = Append(frames, f) /\ calls < MaxCalls /\ calls' = calls + 1
      /\ mem' = new.mem /\ UNCHANGED <<contents, results, value, lost>>
  BY ONLY <1>3, <1>4, CallList DEF CallList, Calls, Evaluating, Frame
<1>6. PICK m2 : m2 = new.mem OBVIOUS
<1>7. Sound(m2, contents, results, Append(frames, f), lost, value)
  BY ONLY <1>2, <1>3, <1>4, <1>5, <1>6, CallListStep
<1>8. calls' \in 0..MaxCalls BY ONLY <1>5, IndInv, MemoryAssumption DEF IndInv
<1> QED BY ONLY <1>5, <1>6, <1>7, <1>8 DEF IndInv

\* copyCell, of the result stack as it is.
LEMMA CopyIsTaking ==
  ASSUME NEW m, NEW c
  PROVE  CopyCell(m, c) = Taking(m, results, c) BY DEF CopyCell, Taking, OnTop, IsLast

\* The invariant survives an element of list.
LEMMA ListItemKeeps == IndInv /\ ListItem => IndInv'
<1> SUFFICES ASSUME IndInv, ListItem PROVE IndInv' OBVIOUS
<1>1. Runs BY DEF ListItem, Waiting
<1>2. PICK R : Ready(mem, contents, results, frames, lost, value, R) BY <1>1, InvReady
<1>3. PICK f : f = Last(frames) OBVIOUS
<1>4. PICK new : new = Taking(mem, results, value) OBVIOUS
<1>5. CopyCell(mem, value) = new BY <1>4, CopyIsTaking
<1>6. /\ frames # <<>> /\ value # NULL /\ f.fn = "list"
      /\ mem' = Cleaned(Extend(new.mem, f.cell, f.last, new.cell), new.results, f.save)
      /\ results' = SubSeq(new.results, 1, f.save)
      /\ frames' = [frames EXCEPT ![Len(frames)].last = new.cell] /\ value' = NULL
      /\ UNCHANGED <<contents, lost, calls>>
  BY ONLY <1>3, <1>5, ListItem DEF ListItem, Waiting, Top, Extend
<1>7. PICK m2, rs2, fs2 : m2 = mem' /\ rs2 = results' /\ fs2 = frames' OBVIOUS
<1>8. /\ frames # <<>> /\ value # NULL /\ f.fn = "list"
      /\ m2 = Cleaned(Extend(new.mem, f.cell, f.last, new.cell), new.results, f.save)
      /\ rs2 = SubSeq(new.results, 1, f.save)
      /\ fs2 = [frames EXCEPT ![Len(frames)].last = new.cell] BY ONLY <1>6, <1>7
<1>9. Sound(m2, contents, rs2, fs2, lost, NULL) BY ONLY <1>2, <1>3, <1>4, <1>8, ItemStep
<1> QED BY ONLY <1>6, <1>7, <1>9, IndInv DEF IndInv

\* The invariant survives the return of list.
LEMMA ListEndsKeeps == IndInv /\ ListEnds => IndInv'
<1> SUFFICES ASSUME IndInv, ListEnds PROVE IndInv' OBVIOUS
<1>1. Runs BY DEF ListEnds, Evaluating
<1>2. PICK R : Ready(mem, contents, results, frames, lost, value, R) BY <1>1, InvReady
<1>3. PICK f : f = Last(frames) OBVIOUS
<1>4. /\ frames # <<>> /\ f.fn = "list" /\ mem' = Cleaned(mem, results, f.save)
      /\ results' = Append(SubSeq(results, 1, f.save), f.cell) /\ value' = f.cell
      /\ frames' = Front(frames) /\ UNCHANGED <<contents, lost, calls>>
  BY ONLY <1>3, ListEnds DEF ListEnds, Top, Push, Pop
<1>5. PICK m2, rs2 : m2 = mem' /\ rs2 = results' OBVIOUS
<1>6. /\ frames # <<>> /\ f.fn = "list" /\ m2 = Cleaned(mem, results, f.save)
      /\ rs2 = Append(SubSeq(results, 1, f.save), f.cell) BY ONLY <1>4, <1>5
<1>7. Sound(m2, contents, rs2, Front(frames), lost, f.cell) BY ONLY <1>2, <1>3, <1>6, ListEndsStep
<1> QED BY ONLY <1>4, <1>5, <1>7, IndInv DEF IndInv

\* What a function that waits knows.
LEMMA WaitingFacts ==
  ASSUME NEW g, Waiting(g)
  PROVE  Runs /\ value # NULL /\ frames # <<>> /\ Last(frames).fn = g BY DEF Waiting, Top

\* The invariant survives set.
LEMMA SetKeeps == IndInv /\ Set => IndInv'
<1> SUFFICES ASSUME IndInv, Set PROVE IndInv' OBVIOUS
<1>1. Runs BY DEF Set, Waiting
<1>2. PICK R : Ready(mem, contents, results, frames, lost, value, R) BY <1>1, InvReady
<1>3. PICK f : f = Last(frames) OBVIOUS
<1>4. PICK s : s = f.sym OBVIOUS
<1>5. PICK new : new = Taking(mem, results, value) OBVIOUS
<1>6. CopyCell(mem, value) = new BY <1>5, CopyIsTaking
<1>7. PICK z, u : z = new.cell /\ u = new.results OBVIOUS
<1>8. /\ frames # <<>> /\ value # NULL /\ f.fn = "set"
      /\ mem' = DeleteList(new.mem, contents[s]) /\ results' = u /\ value' = z
      /\ contents' = [contents EXCEPT ![s] = z]
      /\ frames' = Front(frames) /\ UNCHANGED <<lost, calls>>
  BY ONLY <1>3, <1>4, <1>6, <1>7, Set DEF Set, Waiting, Top, Refer, Pop
<1>9. PICK m2, ct2 : m2 = mem' /\ ct2 = contents' OBVIOUS
<1>10. /\ frames # <<>> /\ value # NULL /\ f.fn = "set"
       /\ m2 = DeleteList(new.mem, contents[s]) /\ ct2 = [contents EXCEPT ![s] = z]
  BY ONLY <1>8, <1>9
<1>11. Sound(m2, ct2, u, Front(frames), lost, z)
  BY ONLY <1>2, <1>3, <1>4, <1>5, <1>7, <1>10, SetStep
<1> QED BY ONLY <1>8, <1>9, <1>11, IndInv DEF IndInv

\* The invariant survives an expression of begin that is not its last.
LEMMA BeginNextKeeps == IndInv /\ BeginNext => IndInv'
<1> SUFFICES ASSUME IndInv, BeginNext PROVE IndInv' OBVIOUS
<1>1. Runs BY DEF BeginNext, Waiting
<1>2. PICK R : Ready(mem, contents, results, frames, lost, value, R) BY <1>1, InvReady
<1>3. value' = NULL /\ UNCHANGED <<mem, contents, results, frames, lost, calls>> BY DEF BeginNext
<1>4. Sound(mem, contents, results, frames, lost, NULL) BY ONLY <1>2, NoValueStep
<1> QED BY ONLY <1>3, <1>4, IndInv DEF IndInv

\* The invariant survives the return of begin.
LEMMA BeginEndsKeeps == IndInv /\ BeginEnds => IndInv'
<1> SUFFICES ASSUME IndInv, BeginEnds PROVE IndInv' OBVIOUS
<1>1. Runs BY DEF BeginEnds, Waiting
<1>2. PICK R : Ready(mem, contents, results, frames, lost, value, R) BY <1>1, InvReady
<1>3. /\ frames # <<>> /\ Last(frames).fn = "begin" /\ value # NULL
      /\ mem' = mem /\ results' = results /\ value' = value /\ frames' = Front(frames)
      /\ UNCHANGED <<contents, lost, calls>> BY DEF BeginEnds, Waiting, Top, Refer, Pop
<1>4. Valued(mem.heap, results, frames, value) BY ONLY <1>2, ReadyFacts
<1>5. value \in Alive(mem.heap) \cup Permanent BY ONLY <1>3, <1>4 DEF Valued
<1>6. PICK v2 : v2 = value OBVIOUS
<1>7. v2 \in Alive(mem.heap) \cup Permanent BY ONLY <1>5, <1>6
<1>8. v2 = value \/ ~IsLast(results, v2) BY ONLY <1>6
<1>9. frames # <<>> /\ Last(frames).fn # "list" /\ value # NULL BY ONLY <1>3
<1>10. Sound(mem, contents, results, Front(frames), lost, v2)
  BY ONLY <1>2, <1>7, <1>8, <1>9, LeaveStep
<1> QED BY ONLY <1>3, <1>6, <1>10, IndInv DEF IndInv

\* The invariant survives first.
LEMMA FirstKeeps == IndInv /\ First => IndInv'
<1> SUFFICES ASSUME IndInv, First PROVE IndInv' OBVIOUS
<1>1. Runs BY DEF First, Waiting
<1>2. PICK R : Ready(mem, contents, results, frames, lost, value, R) BY <1>1, InvReady
<1>3. /\ frames # <<>> /\ Last(frames).fn = "first" /\ value # NULL
      /\ mem' = mem /\ results' = results /\ value' = mem.heap[value].contents
      /\ frames' = Front(frames) /\ UNCHANGED <<contents, lost, calls>>
  BY DEF First, Waiting, Top, Refer, Pop
<1>4. frames # <<>> /\ Last(frames).fn # "list" /\ value # NULL BY ONLY <1>3
<1>5. Sound(mem, contents, results, Front(frames), lost, mem.heap[value].contents)
  BY ONLY <1>2, <1>4, FirstStep
<1> QED BY ONLY <1>3, <1>5, IndInv DEF IndInv

\* The invariant survives push on a symbol that has no list, unless it pushes that symbol's own value.
LEMMA PushOnNilKeeps ==
  ASSUME "selfpush" \notin Events PROVE IndInv /\ PushOnNil => IndInv'
<1> SUFFICES ASSUME IndInv, PushOnNil PROVE IndInv' OBVIOUS
<1>1. Runs BY DEF PushOnNil, Waiting
<1>2. PICK R : Ready(mem, contents, results, frames, lost, value, R) BY <1>1, InvReady
<1>3. PICK f : f = Last(frames) OBVIOUS
<1>4. PICK s : s = f.sym OBVIOUS
<1>5. PICK c : c = contents[s] OBVIOUS
<1>6. PICK d : d = DeleteList(mem, c) OBVIOUS
<1>7. PICK new : new = Taking(d, results, value) OBVIOUS
<1>8. CopyCell(d, value) = new BY <1>7, CopyIsTaking
<1>9. PICK z : z = new.cell OBVIOUS
<1>10. PICK got : got = GetCell(new.mem, "list", z) OBVIOUS
<1>11. PICK l, u : l = got.cell /\ u = new.results OBVIOUS
<1>12. /\ Waiting("push") \/ Waiting("append")
       /\ mem.heap[c].type = "nil"
       /\ value \in {c} \ Permanent => "selfpush" \in Events
       /\ mem' = got.mem /\ results' = u /\ value' = l
       /\ contents' = [contents EXCEPT ![s] = l]
       /\ frames' = Front(frames) /\ UNCHANGED <<lost, calls>>
  BY ONLY <1>3, <1>4, <1>8, <1>10, <1>11, <1>6, <1>9, <1>5, PushOnNil DEF PushOnNil, Top, Refer, Pop
<1>13. frames # <<>> /\ value # NULL /\ f.fn \in {"push", "append"} BY <1>3, <1>12, WaitingFacts
<1>14. value # c \/ c \in Permanent BY <1>12
<1>15. PICK m2, ct2 : m2 = mem' /\ ct2 = contents' OBVIOUS
<1>16. /\ mem.heap[c].type = "nil"
       /\ m2 = got.mem /\ ct2 = [contents EXCEPT ![s] = l] BY ONLY <1>12, <1>15
<1>17. Sound(m2, ct2, u, Front(frames), lost, l)
  <2>1. /\ new = Taking(DeleteList(mem, contents[s]), results, value)
        /\ got = GetCell(new.mem, "list", new.cell)
        /\ l = got.cell /\ m2 = got.mem /\ u = new.results
        /\ ct2 = [contents EXCEPT ![s] = l] BY ONLY <1>7, <1>10, <1>11, <1>16, <1>6, <1>9, <1>5
  <2>2. PushedOnNil(mem, contents, results, value, s, m2, ct2, u, l) BY ONLY <2>1 DEF PushedOnNil
  <2>3. mem.heap[c].type = "nil" BY ONLY <1>16
  <2> QED BY ONLY <1>2, <1>3, <1>4, <1>13, <1>14, <1>5, <2>2, <2>3, PushOnNilStep
<1> QED BY ONLY <1>12, <1>15, <1>17, IndInv DEF IndInv

\* The invariant survives push at the front of a list.
LEMMA PushFrontKeeps == IndInv /\ PushFront => IndInv'
<1> SUFFICES ASSUME IndInv, PushFront PROVE IndInv' OBVIOUS
<1>1. Runs BY DEF PushFront, Waiting
<1>2. PICK R : Ready(mem, contents, results, frames, lost, value, R) BY <1>1, InvReady
<1>3. PICK f : f = Last(frames) OBVIOUS
<1>4. PICK s : s = f.sym OBVIOUS
<1>5. PICK p : p = contents[s] OBVIOUS
<1>6. PICK new : new = Taking(mem, results, value) OBVIOUS
<1>7. CopyCell(mem, value) = new BY <1>6, CopyIsTaking
<1>8. PICK m1, z, u : m1 = new.mem /\ z = new.cell /\ u = new.results OBVIOUS
<1>9. /\ frames # <<>> /\ value # NULL /\ f.fn = "push" /\ mem.heap[p].type = "list"
      /\ mem' = PushedFirst(m1, z, p, mem.heap[p].contents) /\ results' = u /\ value' = p
      /\ frames' = Front(frames) /\ UNCHANGED <<contents, lost, calls>>
  BY ONLY <1>3, <1>4, <1>5, <1>7, <1>8, PushFront
     DEF PushFront, Waiting, Top, Refer, Pop, IsList, PushedFirst
<1>10. PICK m2 : m2 = mem' OBVIOUS
<1>11. /\ frames # <<>> /\ value # NULL /\ f.fn \in {"push", "append"}
       /\ mem.heap[p].type = "list" /\ m2 = PushedFirst(m1, z, p, mem.heap[p].contents)
  BY ONLY <1>9, <1>10
<1>12. Sound(m2, contents, u, Front(frames), lost, p)
  BY ONLY <1>2, <1>3, <1>4, <1>5, <1>6, <1>8, <1>11, PushFrontStep
<1> QED BY ONLY <1>9, <1>10, <1>12, IndInv DEF IndInv

\* The invariant survives push at the end of a list.
LEMMA PushEndKeeps == IndInv /\ PushEnd => IndInv'
<1> SUFFICES ASSUME IndInv, PushEnd PROVE IndInv' OBVIOUS
<1>1. Runs BY DEF PushEnd, Waiting
<1>2. PICK R : Ready(mem, contents, results, frames, lost, value, R) BY <1>1, InvReady
<1>3. PICK f : f = Last(frames) OBVIOUS
<1>4. PICK s : s = f.sym OBVIOUS
<1>5. PICK p : p = contents[s] OBVIOUS
<1>6. PICK new : new = Taking(mem, results, value) OBVIOUS
<1>7. CopyCell(mem, value) = new BY <1>6, CopyIsTaking
<1>8. PICK z, u : z = new.cell /\ u = new.results OBVIOUS
<1>9. PICK k : k = mem.heap[p] OBVIOUS
<1>10. PICK ma : ma = AuxSet(new.mem, p, z) OBVIOUS
<1>11. ma = [new.mem EXCEPT !.heap[p].aux = z] BY ONLY <1>10 DEF AuxSet
<1>12. /\ frames # <<>> /\ value # NULL /\ f.fn = "append" /\ mem.heap[p].type = "list"
       /\ mem' = (IF k.aux # nilCell THEN NextSet(ma, k.aux, z)
                  ELSE IF k.contents = nilCell THEN ContentsSet(ma, p, z)
                  ELSE NextSet(ma, Last(Chain(mem.heap, k.contents)), z))
       /\ results' = u /\ value' = p
       /\ frames' = Front(frames) /\ UNCHANGED <<contents, lost, calls>>
  <2> DEFINE made == IF k.aux # nilCell THEN [ma EXCEPT !.heap[k.aux].next = z]
                     ELSE IF k.contents = nilCell THEN [ma EXCEPT !.heap[p].contents = z]
                     ELSE [ma EXCEPT !.heap[Last(Chain(mem.heap, k.contents))].next = z]
  <2>1. k = mem.heap[contents[Last(frames).sym]] /\ p = contents[Last(frames).sym] BY ONLY <1>3, <1>4, <1>5, <1>9
  <2>2. /\ Waiting("append") /\ IsList(p) /\ Pop /\ UNCHANGED <<contents, lost, calls>>
    BY ONLY <2>1, PushEnd DEF PushEnd, Top
  <2>3. PICK e \in {CopyCell(mem, value)}, q \in {contents[Top.sym]},
             j \in {mem.heap[contents[Top.sym]]} :
          Refer(LET m == [e.mem EXCEPT !.heap[q].aux = e.cell] IN
                IF j.aux # nilCell THEN [m EXCEPT !.heap[j.aux].next = e.cell]
                ELSE IF j.contents = nilCell THEN [m EXCEPT !.heap[q].contents = e.cell]
                ELSE [m EXCEPT !.heap[Last(Chain(mem.heap, j.contents))].next = e.cell],
                e.results, q) BY ONLY PushEnd DEF PushEnd
  <2>4. e = new /\ q = p /\ j = k /\ e.cell = z /\ e.results = u
    BY ONLY <1>7, <1>8, <2>1, <2>3 DEF Top
  <2>5. [e.mem EXCEPT !.heap[q].aux = e.cell] = ma BY ONLY <1>11, <2>4
  <2>6. /\ mem' = IF j.aux # nilCell
                   THEN [[e.mem EXCEPT !.heap[q].aux = e.cell] EXCEPT !.heap[j.aux].next = e.cell]
                   ELSE IF j.contents = nilCell
                   THEN [[e.mem EXCEPT !.heap[q].aux = e.cell] EXCEPT !.heap[q].contents = e.cell]
                   ELSE [[e.mem EXCEPT !.heap[q].aux = e.cell]
                           EXCEPT !.heap[Last(Chain(mem.heap, j.contents))].next = e.cell]
        /\ results' = e.results /\ value' = q BY ONLY <2>3 DEF Refer
  <2>7. mem' = made /\ results' = u /\ value' = p
    <3>1. mem' = IF j.aux # nilCell THEN [ma EXCEPT !.heap[j.aux].next = e.cell]
                 ELSE IF j.contents = nilCell THEN [ma EXCEPT !.heap[q].contents = e.cell]
                 ELSE [ma EXCEPT !.heap[Last(Chain(mem.heap, j.contents))].next = e.cell]
      BY ONLY <2>5, <2>6
    <3>2. e.cell = z /\ q = p /\ j = k BY ONLY <2>4
    <3> QED BY ONLY <2>4, <2>6, <3>1, <3>2
  <2> HIDE DEF made
  <2>8. made = IF k.aux # nilCell THEN NextSet(ma, k.aux, z)
               ELSE IF k.contents = nilCell THEN ContentsSet(ma, p, z)
               ELSE NextSet(ma, Last(Chain(mem.heap, k.contents)), z)
    BY ONLY DEF made, NextSet, ContentsSet
  <2> QED BY ONLY <1>3, <2>2, <2>8, <2>7 DEF Waiting, Top, Pop, IsList
<1>13. PICK m2 : m2 = mem' OBVIOUS
<1>14. /\ frames # <<>> /\ value # NULL /\ f.fn \in {"push", "append"}
       /\ mem.heap[p].type = "list"
       /\ m2 = IF k.aux # nilCell THEN NextSet(ma, k.aux, z)
               ELSE IF k.contents = nilCell THEN ContentsSet(ma, p, z)
               ELSE NextSet(ma, Last(Chain(mem.heap, k.contents)), z) BY ONLY <1>12, <1>13
<1>15. Sound(m2, contents, u, Front(frames), lost, p)
  BY ONLY <1>2, <1>3, <1>4, <1>5, <1>6, <1>8, <1>9, <1>10, <1>14, PushEndStep
<1> QED BY ONLY <1>12, <1>13, <1>15, IndInv DEF IndInv

\* What catch does with a value is what is said of Stores.
LEMMA StoreIsStores ==
  ASSUME NEW f, NEW m, NEW u, NEW z, Store(f, m, u, z)
  PROVE  Stores(f, m, contents, u, z, mem', results', value', contents')
<1>1. CASE f.sym = "" BY ONLY <1>1, Store(f, m, u, z) DEF Store, Stores, Push
<1>2. CASE f.sym # "" BY ONLY <1>2, Store(f, m, u, z) DEF Store, Stores, Push
<1> QED BY ONLY <1>1, <1>2

\* The invariant survives the return of catch.
LEMMA CatchEndsKeeps == IndInv /\ CatchEnds => IndInv'
<1> SUFFICES ASSUME IndInv, CatchEnds PROVE IndInv' OBVIOUS
<1>1. Runs BY DEF CatchEnds, Waiting
<1>2. PICK R : Ready(mem, contents, results, frames, lost, value, R) BY <1>1, InvReady
<1>3. PICK f : f = Last(frames) OBVIOUS
<1>4. PICK new : new = Taking(mem, results, value) OBVIOUS
<1>5. CopyCell(mem, value) = new BY <1>4, CopyIsTaking
<1>6. PICK fs2 : fs2 = Front(frames) OBVIOUS
<1>7. /\ frames # <<>> /\ value # NULL /\ f.fn = "catch"
      /\ Store(f, new.mem, new.results, new.cell)
      /\ frames' = fs2 /\ UNCHANGED <<lost, calls>>
  BY ONLY <1>3, <1>5, <1>6, CatchEnds DEF CatchEnds, Waiting, Top, Pop
<1>8. Stores(f, new.mem, contents, new.results, new.cell, mem', results', value', contents')
  BY ONLY <1>7, StoreIsStores
<1>9. PICK m2, rs2, v2, ct2 : m2 = mem' /\ rs2 = results' /\ v2 = value' /\ ct2 = contents'
  OBVIOUS
<1>10. Stores(f, new.mem, contents, new.results, new.cell, m2, rs2, v2, ct2) BY ONLY <1>8, <1>9
<1>11. frames # <<>> /\ value # NULL /\ f.fn = "catch" BY ONLY <1>7
<1>12. Sound(m2, ct2, rs2, fs2, lost, v2)
  BY ONLY <1>2, <1>3, <1>4, <1>6, <1>10, <1>11, CatchEndsStep
<1> QED BY ONLY <1>7, <1>9, <1>12, IndInv DEF IndInv

\* The invariant survives throw.
LEMMA ThrowKeeps == IndInv /\ Throw => IndInv'
<1> SUFFICES ASSUME IndInv, Throw PROVE IndInv' OBVIOUS
<1>1. Runs BY DEF Throw, Waiting
<1>2. PICK R : Ready(mem, contents, results, frames, lost, value, R) BY <1>1, InvReady
<1>3. PICK new : new = Taking(mem, results, value) OBVIOUS
<1>4. CopyCell(mem, value) = new BY <1>3, CopyIsTaking
<1>5. PICK k : k = Max(CatchesIn(frames, FALSE)) OBVIOUS
<1>6. k = Max(Catches(FALSE)) BY ONLY <1>5 DEF Catches, CatchesIn
<1>7. PICK fs2, ls2 :
        /\ fs2 = SubSeq(frames, 1, k - 1)
        /\ ls2 = lost \cup {frames[i].cell : i \in {j \in k + 1 .. Len(frames) : frames[j].fn = "list"}}
  OBVIOUS
<1>8. /\ frames # <<>> /\ value # NULL /\ Last(frames).fn = "throw"
      /\ Store(frames[k], new.mem, new.results, new.cell) /\ Jump(k)
  BY ONLY <1>4, <1>6, Throw DEF Throw, Waiting, Top
<1>9. frames' = fs2 /\ lost' = ls2 /\ UNCHANGED calls BY ONLY <1>7, <1>8 DEF Jump
<1>10. Stores(frames[k], new.mem, contents, new.results, new.cell, mem', results', value', contents')
  BY ONLY <1>8, StoreIsStores
<1>11. PICK m2, rs2, v2, ct2 : m2 = mem' /\ rs2 = results' /\ v2 = value' /\ ct2 = contents'
  OBVIOUS
<1>12. Stores(frames[k], new.mem, contents, new.results, new.cell, m2, rs2, v2, ct2)
  BY ONLY <1>10, <1>11
<1>13. frames # <<>> /\ value # NULL /\ Last(frames).fn = "throw" BY ONLY <1>8
<1>14. Sound(m2, ct2, rs2, fs2, ls2, v2) BY ONLY <1>2, <1>3, <1>5, <1>7, <1>12, <1>13, ThrowStep
<1> QED BY ONLY <1>9, <1>11, <1>14, IndInv DEF IndInv

\* A process in which an evaluation fails runs.
LEMMA FailsRuns == Fails => Runs BY DEF Fails, Evaluating, Waiting

\* The invariant survives an error that a catch takes.
LEMMA ErrorCaughtKeeps == IndInv /\ ErrorCaught => IndInv'
<1> SUFFICES ASSUME IndInv, ErrorCaught PROVE IndInv' OBVIOUS
<1>1. Runs BY FailsRuns DEF ErrorCaught
<1>2. PICK R : Ready(mem, contents, results, frames, lost, value, R) BY <1>1, InvReady
<1>3. PICK k : k = Max(CatchesIn(frames, TRUE)) OBVIOUS
<1>4. k = Max(Catches(TRUE)) BY ONLY <1>3 DEF Catches, CatchesIn
<1>5. CatchesIn(frames, TRUE) # {} BY DEF ErrorCaught, Catches, CatchesIn
<1>6. PICK text : text = GetCell(DeleteList(mem, contents[frames[k].sym]), "atom", nilCell) OBVIOUS
<1>7. PICK fs2, ls2 :
        /\ fs2 = SubSeq(frames, 1, k - 1)
        /\ ls2 = lost \cup {frames[i].cell : i \in {j \in k + 1 .. Len(frames) : frames[j].fn = "list"}}
  OBVIOUS
<1>8. /\ mem' = Cleaned(text.mem, results, frames[k].save)
      /\ results' = Append(SubSeq(results, 1, frames[k].save), nilCell) /\ value' = nilCell
      /\ contents' = [contents EXCEPT ![frames[k].sym] = text.cell] /\ Jump(k)
  BY ONLY <1>4, <1>6, ErrorCaught DEF ErrorCaught, Push
<1>9. frames' = fs2 /\ lost' = ls2 /\ UNCHANGED calls BY ONLY <1>7, <1>8 DEF Jump
<1>10. PICK m2, rs2, ct2 : m2 = mem' /\ rs2 = results' /\ ct2 = contents' OBVIOUS
<1>11. /\ m2 = Cleaned(text.mem, results, frames[k].save)
       /\ rs2 = Append(SubSeq(results, 1, frames[k].save), nilCell)
       /\ ct2 = [contents EXCEPT ![frames[k].sym] = text.cell] BY ONLY <1>8, <1>10
<1>12. Sound(m2, ct2, rs2, fs2, ls2, nilCell)
  BY ONLY <1>2, <1>3, <1>5, <1>6, <1>7, <1>11, ErrorCaughtStep
<1> QED BY ONLY <1>8, <1>9, <1>10, <1>12, IndInv DEF IndInv

\* The invariant survives an error that nothing takes.
LEMMA ErrorUncaughtKeeps == IndInv /\ ErrorUncaught => IndInv'
<1> SUFFICES ASSUME IndInv, ErrorUncaught PROVE IndInv' OBVIOUS
<1>1. Runs BY FailsRuns DEF ErrorUncaught
<1>2. PICK R : Ready(mem, contents, results, frames, lost, value, R) BY <1>1, InvReady
<1>3. PICK fs2, ls2 : fs2 = <<>> /\ ls2 = lost \cup {frames[i].cell : i \in Building(frames)}
  OBVIOUS
<1>4. /\ mem' = FreeCellBlocks(Cleaned(mem, results, 0)) /\ results' = <<>> /\ value' = NULL
      /\ UNCHANGED contents /\ Jump(0) BY DEF ErrorUncaught
<1>5. frames' = fs2 /\ lost' = ls2 /\ UNCHANGED calls
  <2>1. frames \in Seq(Frames) BY <1>2, ReadyFacts
  <2>2. SubSeq(frames, 1, 0 - 1) = <<>> BY ONLY <2>1
  <2>3. {j \in 0 + 1 .. Len(frames) : frames[j].fn = "list"} = Building(frames)
    BY ONLY DEF Building
  <2> QED BY ONLY <1>3, <1>4, <2>2, <2>3 DEF Jump
<1>6. PICK m2 : m2 = mem' OBVIOUS
<1>7. m2 = FreeCellBlocks(Cleaned(mem, results, 0)) BY ONLY <1>4, <1>6
<1>8. Sound(m2, contents, <<>>, fs2, ls2, NULL) BY ONLY <1>2, <1>3, <1>7, ErrorUncaughtStep
<1> QED BY ONLY <1>4, <1>5, <1>6, <1>8, IndInv DEF IndInv

\* The invariant survives (reset nil).
LEMMA ResetNilKeeps == IndInv /\ ResetNil => IndInv'
<1> SUFFICES ASSUME IndInv, ResetNil PROVE IndInv' OBVIOUS
<1>1. Runs BY DEF ResetNil, Calls, Evaluating
<1>2. PICK R : Ready(mem, contents, results, frames, lost, value, R) BY <1>1, InvReady
<1>3. PICK before : before = GetCell(FreeCellBlocks(mem), "atom", nilCell) OBVIOUS
<1>4. PICK list : list = GetCell(before.mem, "list", before.cell) OBVIOUS
<1>5. PICK after : after = GetCell(list.mem, "atom", nilCell) OBVIOUS
<1>6. PICK m1 : m1 = [after.mem EXCEPT !.heap[before.cell].next = after.cell] OBVIOUS
<1>7. /\ mem' = Cleaned(m1, results, Len(results))
      /\ results' = Append(SubSeq(results, 1, Len(results)), list.cell) /\ value' = list.cell
      /\ UNCHANGED <<contents, frames, lost>> /\ calls < MaxCalls /\ calls' = calls + 1
  BY ONLY <1>3, <1>4, <1>5, <1>6, ResetNil DEF ResetNil, Push, Calls
<1>8. PICK m2, rs2 : m2 = mem' /\ rs2 = results' OBVIOUS
<1>9. /\ m2 = Cleaned(m1, results, Len(results))
      /\ rs2 = Append(SubSeq(results, 1, Len(results)), list.cell) BY ONLY <1>7, <1>8
<1>10. Sound(m2, contents, rs2, frames, lost, list.cell)
  <2>1. m1 = NextSet(after.mem, before.cell, after.cell) BY ONLY <1>6 DEF NextSet
  <2> QED BY ONLY <1>2, <1>3, <1>4, <1>5, <2>1, <1>9, ResetNilStep
<1>11. calls' \in 0..MaxCalls
  <2>1. MaxCalls \in Nat /\ calls \in 0..MaxCalls BY MemoryAssumption DEF IndInv
  <2> QED BY ONLY <1>7, <2>1
<1> QED BY ONLY <1>7, <1>8, <1>10, <1>11 DEF IndInv

\* What startup makes is tidy, and nothing waits.
LEMMA InitKeeps == Init => IndInv
<1> SUFFICES ASSUME Init PROVE IndInv OBVIOUS
<1>1. /\ mem = Startup /\ contents = [s \in Syms |-> nilCell] /\ results = <<>>
      /\ frames = <<>> /\ value = NULL /\ lost = {} /\ calls = 0 BY DEF Init
<1>2. PICK ct : ct = [s \in Syms |-> nilCell] OBVIOUS
<1>3. Sound(Startup, ct, <<>>, <<>>, {}, NULL) BY ONLY <1>2, StartSound
<1>4. calls \in 0..MaxCalls BY ONLY <1>1, MemoryAssumption DEF MemoryAssumption
<1> QED BY ONLY <1>1, <1>2, <1>3, <1>4 DEF IndInv

\* A function that builds no list begins.
LEMMA EnterAnyKeeps ==
  ASSUME IndInv, \/ \E s \in Syms, g \in {"set", "push", "append", "catch"} : Enter(g, s)
                 \/ \E g \in {"begin", "first", "catch"} : Enter(g, "")
                 \/ "throw" \in Events /\ Catches(FALSE) # {} /\ Enter("throw", "")
  PROVE  IndInv'
<1>1. ASSUME NEW s \in Syms, NEW g \in {"set", "push", "append", "catch"}, Enter(g, s)
      PROVE  IndInv'
  <2>1. /\ g \in Functions \ {"list"} /\ s \in Syms \cup {""}
        /\ g \in {"set", "push", "append"} => s \in Syms
        /\ g = "throw" => Catches(FALSE) # {} BY DEF Functions
  <2> QED BY <1>1, <2>1, EnterKeeps
<1>2. ASSUME NEW g \in {"begin", "first", "catch"}, Enter(g, "") PROVE IndInv'
  <2>1. PICK s : s = "" OBVIOUS
  <2>2. /\ g \in Functions \ {"list"} /\ s \in Syms \cup {""}
        /\ g \in {"set", "push", "append"} => s \in Syms
        /\ g = "throw" => Catches(FALSE) # {} BY <2>1 DEF Functions
  <2>3. Enter(g, s) BY <1>2, <2>1
  <2> QED BY <2>2, <2>3, EnterKeeps
<1>3. ASSUME Catches(FALSE) # {}, Enter("throw", "") PROVE IndInv'
  <2>1. PICK s, g : s = "" /\ g = "throw" OBVIOUS
  <2>2. /\ g \in Functions \ {"list"} /\ s \in Syms \cup {""}
        /\ g \in {"set", "push", "append"} => s \in Syms
        /\ g = "throw" => Catches(FALSE) # {} BY <1>3, <2>1 DEF Functions
  <2>3. Enter(g, s) BY <1>3, <2>1
  <2> QED BY <2>2, <2>3, EnterKeeps
<1> QED BY <1>1, <1>2, <1>3

\* Every step keeps the invariant.
LEMMA StepKeeps ==
  ASSUME "selfpush" \notin Events PROVE IndInv /\ [Next]_vars => IndInv'
<1> SUFFICES ASSUME IndInv, [Next]_vars PROVE IndInv' OBVIOUS
<1>1. CASE UNCHANGED vars BY ONLY <1>1, IndInv DEF vars, IndInv
<1>2. CASE ReadProgram \/ ProgramEnds \/ EvalConstant
  BY ONLY <1>2, IndInv, ReadProgramKeeps, ProgramEndsKeeps, EvalConstantKeeps
<1>3. CASE \E s \in Syms : EvalSymbol(s) \/ PopFirst(s) \/ PopLast(s)
  BY ONLY <1>3, IndInv, EvalSymbolKeeps, PopFirstKeeps, PopLastKeeps
<1>4. CASE \/ \E s \in Syms, g \in {"set", "push", "append", "catch"} : Enter(g, s)
           \/ \E g \in {"begin", "first", "catch"} : Enter(g, "")
           \/ "throw" \in Events /\ Catches(FALSE) # {} /\ Enter("throw", "")
  BY ONLY <1>4, IndInv, EnterAnyKeeps
<1>5. CASE CallList \/ ListItem \/ ListEnds
  BY ONLY <1>5, IndInv, CallListKeeps, ListItemKeeps, ListEndsKeeps
<1>6. CASE Set \/ BeginNext \/ BeginEnds \/ First
  BY ONLY <1>6, IndInv, SetKeeps, BeginNextKeeps, BeginEndsKeeps, FirstKeeps
<1>7. CASE PushOnNil \/ PushFront \/ PushEnd
  BY ONLY <1>7, IndInv, "selfpush" \notin Events, PushOnNilKeeps, PushFrontKeeps, PushEndKeeps
<1>8. CASE CatchEnds \/ Throw \/ ErrorCaught \/ ErrorUncaught \/ ResetNil
  BY ONLY <1>8, IndInv, CatchEndsKeeps, ThrowKeeps, ErrorCaughtKeeps, ErrorUncaughtKeeps,
          ResetNilKeeps
<1> QED BY <1>1, <1>2, <1>3, <1>4, <1>5, <1>6, <1>7, <1>8 DEF Next

\* No list under construction is in a cell of a built-in symbol.
LEMMA BuildingApart ==
  ASSUME NEW ct, NEW rs, NEW fs, NEW ls, NEW R, Owns(Held(ct, rs, fs, ls), R),
         NEW k \in Building(fs)
  PROVE  fs[k].cell \notin BuiltinCells
<1> SUFFICES ASSUME fs[k].cell \in BuiltinCells PROVE FALSE OBVIOUS
<1>1. PICK c : c = fs[k].cell OBVIOUS
<1>2. c \notin Permanent BY <1>1 DEF BuiltinCells, Permanent, nilCell, trueCell
<1>3. PICK p, q : p = <<"list", k, c>> /\ q = <<"kept", c, c>> OBVIOUS
<1>4. p \in Held(ct, rs, fs, ls) /\ q \in Held(ct, rs, fs, ls)
  <2>1. \E j \in Building(fs) : p = <<"list", j, fs[j].cell>> BY <1>1, <1>3
  <2>2. \E d \in BuiltinCells \cup ls : q = <<"kept", d, d>> BY <1>1, <1>3
  <2> QED BY <2>1, <2>2, HeldIn
<1>5. p[3] = c /\ q[3] = c /\ p[1] = "list" /\ q[1] = "kept" BY <1>3
<1>6. p = q BY ONLY <1>2, <1>4, <1>5, Owns(Held(ct, rs, fs, ls), R) DEF Owns
<1> QED BY <1>5, <1>6

\* What longjmp leaves behind is no cell of a built-in symbol.
LostApart == lost \cap BuiltinCells = {}

\* A jump keeps it so.
LEMMA JumpApart ==
  ASSUME IndInv, LostApart, Runs, NEW k \in Nat, Jump(k)
  PROVE  LostApart'
<1>1. PICK R : Ready(mem, contents, results, frames, lost, value, R) BY InvReady
<1>2. Owns(Held(contents, results, frames, lost), R) BY <1>1, ReadyFacts
<1>3. \A i \in Building(frames) : frames[i].cell \notin BuiltinCells BY <1>2, BuildingApart
<1>4. lost' = lost \cup {frames[i].cell : i \in {j \in k + 1 .. Len(frames) : frames[j].fn = "list"}}
  BY DEF Jump
<1>5. \A i \in k + 1 .. Len(frames) : i \in 1..Len(frames) OBVIOUS
<1>6. \A i \in {j \in k + 1 .. Len(frames) : frames[j].fn = "list"} : i \in Building(frames)
  BY <1>5 DEF Building
<1> QED BY <1>3, <1>4, <1>6 DEF LostApart, BuiltinCells

\* Nothing else is added to what is lost.
LEMMA ApartKeeps == IndInv /\ LostApart /\ [Next]_vars => LostApart'
<1> SUFFICES ASSUME IndInv, LostApart, [Next]_vars PROVE LostApart' OBVIOUS
<1>1. CASE UNCHANGED lost BY <1>1 DEF LostApart, BuiltinCells
<1>2. ASSUME NEW b \in BOOLEAN, Runs, CatchesIn(frames, b) # {}
      PROVE  Max(Catches(b)) \in Nat
  <2>1. PICK R : Ready(mem, contents, results, frames, lost, value, R) BY <1>2, InvReady
  <2>2. frames \in Seq(Frames) BY <2>1, ReadyFacts
  <2>3. PICK k : k = Max(CatchesIn(frames, b)) OBVIOUS
  <2>4. k \in 1..Len(frames) BY ONLY <1>2, <2>2, <2>3, Innermost
  <2>5. k = Max(Catches(b)) BY ONLY <2>3 DEF Catches, CatchesIn
  <2> QED BY ONLY <2>2, <2>4, <2>5
<1>3. CASE Throw
  <2>1. Runs /\ value # NULL /\ frames # <<>> /\ Last(frames).fn = "throw"
    BY <1>3 DEF Throw, Waiting, Top
  <2>2. PICK R : Ready(mem, contents, results, frames, lost, value, R) BY <2>1, InvReady
  <2>3. Framed(frames, mem.heap) /\ frames \in Seq(Frames) BY <2>2, ReadyFacts
  <2>4. CatchesIn(frames, FALSE) # {}
    <3>1. Len(frames) \in 1..Len(frames) /\ Last(frames) = frames[Len(frames)]
          /\ DOMAIN frames = 1..Len(frames) /\ Len(frames) \in Nat BY ONLY <2>1, <2>3 DEF Last
    <3>2. PICK j \in 1..Len(frames) - 1 : frames[j].fn = "catch"
      BY ONLY <2>1, <2>3, <3>1 DEF Framed
    <3>3. j \in DOMAIN frames BY ONLY <3>1, <3>2
    <3> QED BY ONLY <3>2, <3>3 DEF CatchesIn
  <2>5. Max(Catches(FALSE)) \in Nat BY <1>2, <2>1, <2>4
  <2>6. Jump(Max(Catches(FALSE))) BY ONLY <1>3 DEF Throw
  <2> QED BY <2>1, <2>5, <2>6, JumpApart
<1>4. CASE ErrorCaught
  <2>1. Runs BY <1>4, FailsRuns DEF ErrorCaught
  <2>2. CatchesIn(frames, TRUE) # {} BY <1>4 DEF ErrorCaught, Catches, CatchesIn
  <2>3. Max(Catches(TRUE)) \in Nat BY <1>2, <2>1, <2>2
  <2>4. Jump(Max(Catches(TRUE))) BY ONLY <1>4 DEF ErrorCaught
  <2> QED BY <2>1, <2>3, <2>4, JumpApart
<1>5. CASE ErrorUncaught
  <2>1. Runs /\ Jump(0) BY <1>5, FailsRuns DEF ErrorUncaught
  <2> QED BY <2>1, JumpApart
<1>6. UNCHANGED lost \/ Throw \/ ErrorCaught \/ ErrorUncaught BY ONLY [Next]_vars
     DEF Next, vars, ReadProgram, ProgramEnds, EvalConstant, EvalSymbol, PopFirst, PopLast, Enter,
         CallList, ListItem, ListEnds, Set, BeginNext, BeginEnds, First, PushOnNil, PushFront,
         PushEnd, CatchEnds, ResetNil
<1> QED BY <1>1, <1>3, <1>4, <1>5, <1>6

\* What the program has in use, as the properties name it.
LEMMA UsedAlive ==
  ASSUME Typed1(mem)
  PROVE  Used = Alive(mem.heap)
<1>1. \A x \in Cells : mem.heap[x].type \in Types BY DEF Typed1, CellRecords
<1> QED BY <1>1 DEF Used, Typed, Alive, Types

\* The state has its type.
LEMMA InvTypes == IndInv => TypeOK
<1> SUFFICES ASSUME IndInv PROVE TypeOK OBVIOUS
<1>1. /\ Typed1(mem) /\ Shaped(contents, results, frames, lost, value) /\ calls \in 0..MaxCalls
  BY DEF IndInv, Sound
<1> QED BY ONLY <1>1 DEF TypeOK, Typed1, Shaped, CellRecords, Frames

\* A list's aux is its last cell, or nilCell.
LEMMA InvLasts == IndInv => LastCellRight
<1> SUFFICES ASSUME IndInv, Runs, NEW x \in Used, IsList(x), mem.heap[x].aux # nilCell
             PROVE  /\ mem.heap[x].contents # nilCell
                    /\ mem.heap[x].aux = Last(Chain(mem.heap, mem.heap[x].contents))
  BY DEF LastCellRight
<1>1. PICK R : Ready(mem, contents, results, frames, lost, value, R) BY InvReady
<1>2. PICK h : h = mem.heap OBVIOUS
<1>3. Lasts(h) /\ Ranked(h) /\ h \in Heaps /\ Tidy(mem, R) BY <1>1, <1>2, ReadyFacts
<1>4. x \in Alive(h)
  <2>1. Typed1(mem) BY <1>3, TidyTyped
  <2> QED BY <1>2, <2>1, UsedAlive
<1>5. x \in Cells /\ h[x].type = "list" /\ h[x].aux # nilCell BY <1>2, <1>4 DEF Alive, IsList
<1>6. EndOf(h, x, h[x].aux) BY ONLY <1>3, <1>4, <1>5 DEF Lasts
<1>7. Below(h, x) = h[x].contents /\ h[x].contents \in Cells BY ONLY <1>3, <1>5, Fields
<1>8. h[x].contents # nilCell BY ONLY <1>6, <1>7 DEF EndOf, List
<1>9. PICK b : b = h[x].contents OBVIOUS
<1>10. b \in Cells /\ b = Below(h, x) /\ b # nilCell BY ONLY <1>7, <1>8, <1>9
<1>11. EndOf(h, x, Last(Chain(h, b))) BY ONLY <1>3, <1>5, <1>10, LastIsEnd
<1>12. h[x].aux = Last(Chain(h, b))
  <2>1. PICK e, f : e = h[x].aux /\ f = Last(Chain(h, b)) OBVIOUS
  <2>2. EndOf(h, x, e) /\ EndOf(h, x, f) BY ONLY <1>6, <1>11, <2>1
  <2> QED BY ONLY <1>3, <1>5, <2>1, <2>2, EndOne
<1> QED BY ONLY <1>2, <1>8, <1>9, <1>12

\* There are finitely many cells.
LEMMA CellsFinite == IsFiniteSet(Cells) /\ Cardinality(Cells) \in Nat
<1>1. MaxBlocks \in Int /\ BlockSize \in Int BY HeapAssumption
<1>2. IsFiniteSet(1..MaxBlocks) /\ IsFiniteSet(1..BlockSize) BY <1>1, FS_Interval
<1>3. IsFiniteSet(Cells) BY <1>2, FS_Product DEF Cells
<1> QED BY <1>3, FS_CardinalityType

\* A sequence that lists a set is as long as the set has elements.
LEMMA ListsCount ==
  ASSUME NEW s, NEW A, Lists(s, A)
  PROVE  IsFiniteSet(A) /\ Cardinality(A) = Len(s) /\ Len(s) \in Nat
<1>1. s \in Seq(Cells) /\ Len(s) \in Nat
  <2>1. s \in Seq(Cells) BY DEF Lists
  <2> QED BY <2>1, SeqLen
<1>2. PICK f : f = [i \in 1..Len(s) |-> s[i]] OBVIOUS
<1>3. f \in [1..Len(s) -> A] BY <1>2 DEF Lists
<1>4. f \in Bijection(1..Len(s), A)
  <2>1. \A i, j \in 1..Len(s) : f[i] = f[j] => i = j BY <1>2 DEF Lists
  <2>2. \A y \in A : \E i \in 1..Len(s) : f[i] = y BY <1>2 DEF Lists
  <2> QED BY <1>3, <2>1, <2>2 DEF Bijection, Injection, Surjection, IsInjective
<1>5. ExistsBijection(1..Len(s), A) BY <1>4 DEF ExistsBijection
<1>6. /\ IsFiniteSet(1..Len(s))
      /\ Cardinality(1..Len(s)) = IF 1 > Len(s) THEN 0 ELSE Len(s) - 1 + 1 BY <1>1, FS_Interval
<1> QED BY <1>1, <1>5, <1>6, FS_Bijection

\* The walk along the free cells, for at most k steps.
WalkOf(w, m, A, k) ==
  w = [n \in 0..k |-> IF n = 0 THEN m.free
                      ELSE IF w[n - 1] \in A THEN m.heap[w[n - 1]].next ELSE NULL]

\* There is such a walk: it has visited the elements of s, one after the other, and ends.
Walked(m, s, A, k) ==
  /\ \E w : WalkOf(w, m, A, k)
  /\ \A w : WalkOf(w, m, A, k) => \A n \in 0..k : w[n] = IF n < Len(s) THEN s[n + 1] ELSE NULL

\* It visits the free cells one after the other, and ends.
LEMMA WalkFacts ==
  ASSUME NEW m, NEW s, FreedAs(m, s), NEW A, A = {x \in Cells : m.heap[x].type = "free"},
         NEW k \in Nat
  PROVE  Walked(m, s, A, k)
<1>1. s \in Seq(Cells) /\ Len(s) \in Nat /\ (s = <<>> <=> Len(s) = 0)
  <2>1. s \in Seq(Cells) BY DEF FreedAs, Lists
  <2> QED BY <2>1, SeqLen
<1>2. PICK f : f = [n \in 0..k |-> IF n < Len(s) THEN s[n + 1] ELSE NULL] OBVIOUS
<1>3. m.free = IF s = <<>> THEN NULL ELSE s[1] BY DEF FreedAs
<1>4. \A i \in 1..Len(s) : /\ s[i] \in A
                           /\ m.heap[s[i]].next = IF i = Len(s) THEN NULL ELSE s[i + 1]
  BY DEF FreedAs, Lists
<1>5. NULL \notin A BY Special
<1>6. \A n \in 0..k : f[n] = IF n = 0 THEN m.free
                             ELSE IF f[n - 1] \in A THEN m.heap[f[n - 1]].next ELSE NULL
  <2> SUFFICES ASSUME NEW n \in 0..k
               PROVE  f[n] = IF n = 0 THEN m.free
                             ELSE IF f[n - 1] \in A THEN m.heap[f[n - 1]].next ELSE NULL OBVIOUS
  <2>1. CASE n = 0 BY <1>1, <1>2, <1>3, <2>1
  <2>2. CASE n # 0 /\ n - 1 < Len(s)
    <3>1. n - 1 \in 0..k /\ n \in 1..Len(s) /\ (n < Len(s) <=> n # Len(s)) /\ (n - 1) + 1 = n
      BY <1>1, <2>2
    <3>2. f[n - 1] = s[n]
      <4>1. f[n - 1] = s[(n - 1) + 1] BY <1>2, <2>2, <3>1
      <4> QED BY <3>1, <4>1
    <3> QED BY <1>2, <1>4, <2>2, <3>1, <3>2
  <2>3. CASE n # 0 /\ ~(n - 1 < Len(s))
    <3>1. n - 1 \in 0..k /\ ~(n < Len(s)) BY <1>1, <2>3
    <3>2. f[n - 1] = NULL /\ f[n] = NULL BY <1>2, <2>3, <3>1
    <3> QED BY <1>5, <2>3, <3>2
  <2> QED BY <2>1, <2>2, <2>3
<1>7. WalkOf(f, m, A, k) BY <1>2, <1>6 DEF WalkOf
<1>8. ASSUME NEW w, WalkOf(w, m, A, k) PROVE \A n \in 0..k : w[n] = f[n]
  <2>1. PICK N : N = {n \in Nat : n <= k => w[n] = f[n]} OBVIOUS
  <2>2. \A n \in 0..k : w[n] = IF n = 0 THEN m.free
                               ELSE IF w[n - 1] \in A THEN m.heap[w[n - 1]].next ELSE NULL
    BY <1>8 DEF WalkOf
  <2>3. 0 \in N BY <1>6, <2>1, <2>2
  <2>4. ASSUME NEW n \in Nat, n \in N PROVE n + 1 \in N
    <3>1. CASE n + 1 <= k
      <4>1. n <= k /\ n + 1 \in 0..k /\ n + 1 # 0 /\ (n + 1) - 1 = n BY <3>1
      <4>2. w[n] = f[n] BY <2>1, <2>4, <4>1
      <4>3. w[n + 1] = IF w[n] \in A THEN m.heap[w[n]].next ELSE NULL BY <2>2, <4>1
      <4>4. f[n + 1] = IF f[n] \in A THEN m.heap[f[n]].next ELSE NULL BY <1>6, <4>1
      <4> QED BY <2>1, <4>2, <4>3, <4>4
    <3>2. CASE ~(n + 1 <= k) BY <2>1, <3>2
    <3> QED BY <3>1, <3>2
  <2>5. \A n \in Nat : n \in N BY <2>3, <2>4, Induction
  <2> QED BY <2>1, <2>5
<1> QED BY <1>2, <1>7, <1>8 DEF Walked

\* firstFreeCell leads to every free cell.
LEMMA InvFree == IndInv => FreeListExact
<1> SUFFICES ASSUME IndInv, Runs PROVE FreeListExact BY DEF FreeListExact
<1>1. PICK R : Ready(mem, contents, results, frames, lost, value, R) BY InvReady
<1>2. Tidy(mem, R) BY <1>1, ReadyFacts
<1>3. PICK s : FreedAs(mem, s) BY <1>2 DEF Tidy
<1>4. PICK m, A, k : /\ m = mem /\ A = {x \in Cells : mem.heap[x].type = "free"}
                     /\ k = Cardinality(Cells) OBVIOUS
<1>5. A = Typed({"free"}) BY <1>4 DEF Typed
<1>6. Lists(s, A) BY <1>3, <1>4 DEF FreedAs
<1>7. Cardinality(A) = Len(s) /\ Len(s) \in Nat BY <1>6, ListsCount
<1>8. k \in Nat /\ Len(s) <= k
  <2>1. A \in SUBSET Cells BY <1>4
  <2> QED BY <1>4, <1>7, <2>1, CellsFinite, FS_Subset
<1>9. Walked(m, s, A, k)
  <2>1. FreedAs(m, s) /\ A = {x \in Cells : m.heap[x].type = "free"} BY ONLY <1>3, <1>4
  <2> QED BY ONLY <1>8, <2>1, WalkFacts
<1> DEFINE Rec(w) == [n \in 0..Cardinality(Cells) |->
                        IF n = 0 THEN mem.free
                        ELSE IF w[n - 1] \in Typed({"free"}) THEN mem.heap[w[n - 1]].next ELSE NULL]
<1>10. \E w : w = Rec(w)
  <2>1. PICK w : WalkOf(w, m, A, k) BY ONLY <1>9 DEF Walked
  <2>2. w = [n \in 0..k |-> IF n = 0 THEN m.free
                            ELSE IF w[n - 1] \in A THEN m.heap[w[n - 1]].next ELSE NULL]
    BY ONLY <2>1 DEF WalkOf
  <2>3. m = mem /\ k = Cardinality(Cells) /\ A = Typed({"free"}) BY ONLY <1>4, <1>5
  <2>4. w = Rec(w) BY ONLY <2>2, <2>3
  <2> QED BY ONLY <2>4
<1>11. PICK walk : walk = CHOOSE w : w = Rec(w) OBVIOUS
<1>12. walk = Rec(walk) BY ONLY <1>10, <1>11
<1>13. WalkOf(walk, m, A, k) BY ONLY <1>4, <1>5, <1>12 DEF WalkOf
<1>14. \A n \in 0..k : walk[n] = IF n < Len(s) THEN s[n + 1] ELSE NULL BY ONLY <1>9, <1>13 DEF Walked
<1>15. walk[Len(s)] = NULL BY ONLY <1>7, <1>8, <1>14
<1>16. {walk[n] : n \in 0..Len(s)} = A \cup {NULL}
  <2>1. ASSUME NEW n \in 0..Len(s) PROVE walk[n] \in A \cup {NULL}
    <3>1. CASE n < Len(s)
      <4>1. n + 1 \in 1..Len(s) /\ n \in 0..k BY ONLY <1>7, <1>8, <3>1, n \in 0..Len(s)
      <4>2. walk[n] = s[n + 1] BY ONLY <1>14, <3>1, <4>1
      <4>3. s[n + 1] \in A BY ONLY <1>6, <4>1 DEF Lists
      <4> QED BY ONLY <4>2, <4>3
    <3>2. CASE ~(n < Len(s))
      <4>1. n = Len(s) BY ONLY <1>7, <3>2, n \in 0..Len(s)
      <4> QED BY ONLY <1>15, <4>1
    <3> QED BY ONLY <3>1, <3>2
  <2>2. ASSUME NEW x \in A PROVE \E n \in 0..Len(s) : walk[n] = x
    <3>1. PICK i \in 1..Len(s) : s[i] = x BY <1>6 DEF Lists
    <3>2. i - 1 \in 0..Len(s) /\ i - 1 < Len(s) /\ i - 1 \in 0..k /\ (i - 1) + 1 = i
      BY ONLY <1>7, <1>8, i \in 1..Len(s)
    <3>3. walk[i - 1] = s[(i - 1) + 1] BY ONLY <1>14, <3>2
    <3> QED BY ONLY <3>1, <3>2, <3>3
  <2>3. Len(s) \in 0..Len(s) BY ONLY <1>7
  <2> QED BY ONLY <1>15, <2>1, <2>2, <2>3
<1> QED BY ONLY <1>5, <1>7, <1>11, <1>15, <1>16 DEF FreeListExact

(* Who owns what, as OneReference says it. *)

\* The references of owners outside the heap, and of cells in use.
OuterRefs(ct, rs, fs, ls) ==
  {<<"symbol", s, ct[s]>> : s \in Syms} \cup {<<"result", i, rs[i]>> : i \in 1..Len(rs)}
  \cup {<<"list", k, fs[k].cell>> : k \in Building(fs)}
  \cup {<<"startup", c, c>> : c \in BuiltinCells} \cup {<<"lost", c, c>> : c \in ls}
InnerRefs(h) == {<<"next", c, After(h, c)>> : c \in Alive(h)}
                \cup {<<"contents", c, Below(h, c)>> : c \in {c \in Alive(h) : h[c].type = "list"}}

\* The owner that a reference stands for.
HolderOf(r) == IF r[1] \in {"startup", "lost"} THEN <<"kept", r[2], r[3]>> ELSE r

\* References from outside the heap are to the cells of R, and to each one.
OuterOwn(ct, rs, fs, ls, R) ==
  LET refs == {r \in OuterRefs(ct, rs, fs, ls) : r[3] \notin Permanent} IN
  /\ {r[3] : r \in refs} = R
  /\ \A p, q \in refs : p[3] = q[3] => p = q

\* Owners that own each cell once are references of the same kind.
LEMMA OuterFacts ==
  ASSUME NEW ct, NEW rs, NEW fs, NEW ls, NEW R, Owns(Held(ct, rs, fs, ls), R),
         ls \cap BuiltinCells = {}
  PROVE  OuterOwn(ct, rs, fs, ls, R)
<1>1. PICK O : O = OuterRefs(ct, rs, fs, ls) OBVIOUS
<1>2. PICK H : H = Held(ct, rs, fs, ls) OBVIOUS
<1>3. \A r : r \in O <=> \/ \E s \in Syms : r = <<"symbol", s, ct[s]>>
                         \/ \E i \in 1..Len(rs) : r = <<"result", i, rs[i]>>
                         \/ \E k \in Building(fs) : r = <<"list", k, fs[k].cell>>
                         \/ \E c \in BuiltinCells : r = <<"startup", c, c>>
                         \/ \E c \in ls : r = <<"lost", c, c>> BY <1>1 DEF OuterRefs
<1>4. \A p : p \in H <=> \/ \E s \in Syms : p = <<"symbol", s, ct[s]>>
                         \/ \E i \in 1..Len(rs) : p = <<"result", i, rs[i]>>
                         \/ \E k \in Building(fs) : p = <<"list", k, fs[k].cell>>
                         \/ \E c \in BuiltinCells \cup ls : p = <<"kept", c, c>> BY <1>2, HeldIn
<1>5. ASSUME NEW r \in O
      PROVE  HolderOf(r) \in H /\ HolderOf(r)[3] = r[3]
  <2>1. CASE \E s \in Syms : r = <<"symbol", s, ct[s]>>
    <3>1. r[1] = "symbol" BY <2>1
    <3> QED BY <1>4, <2>1, <3>1 DEF HolderOf
  <2>2. CASE \E i \in 1..Len(rs) : r = <<"result", i, rs[i]>>
    <3>1. r[1] = "result" BY <2>2
    <3> QED BY <1>4, <2>2, <3>1 DEF HolderOf
  <2>3. CASE \E k \in Building(fs) : r = <<"list", k, fs[k].cell>>
    <3>1. r[1] = "list" BY <2>3
    <3> QED BY <1>4, <2>3, <3>1 DEF HolderOf
  <2>4. CASE \E c \in BuiltinCells : r = <<"startup", c, c>>
    <3>1. PICK c \in BuiltinCells : r = <<"startup", c, c>> BY <2>4
    <3>2. HolderOf(r) = <<"kept", c, c>> /\ r[3] = c BY <3>1 DEF HolderOf
    <3> QED BY <1>4, <3>2
  <2>5. CASE \E c \in ls : r = <<"lost", c, c>>
    <3>1. PICK c \in ls : r = <<"lost", c, c>> BY <2>5
    <3>2. HolderOf(r) = <<"kept", c, c>> /\ r[3] = c BY <3>1 DEF HolderOf
    <3> QED BY <1>4, <3>2
  <2> QED BY <1>3, <2>1, <2>2, <2>3, <2>4, <2>5
<1>6. ASSUME NEW p \in H
      PROVE  \E r \in O : r[3] = p[3]
  <2>1. CASE \E c \in BuiltinCells \cup ls : p = <<"kept", c, c>>
    <3>1. PICK c \in BuiltinCells \cup ls : p = <<"kept", c, c>> BY <2>1
    <3>2. p[3] = c BY <3>1
    <3>3. CASE c \in BuiltinCells
      <4>1. PICK r : r = <<"startup", c, c>> OBVIOUS
      <4>2. r \in O /\ r[3] = c BY <1>3, <3>3, <4>1
      <4> QED BY <3>2, <4>2
    <3>4. CASE c \in ls
      <4>1. PICK r : r = <<"lost", c, c>> OBVIOUS
      <4>2. r \in O /\ r[3] = c BY <1>3, <3>4, <4>1
      <4> QED BY <3>2, <4>2
    <3> QED BY <3>3, <3>4
  <2>2. CASE ~ \E c \in BuiltinCells \cup ls : p = <<"kept", c, c>>
    <3>1. p \in O BY <1>3, <1>4, <2>2
    <3> QED BY <3>1
  <2> QED BY <2>1, <2>2
<1>7. ASSUME NEW p \in O, NEW q \in O, HolderOf(p) = HolderOf(q)
      PROVE  p = q
  <2>1. ASSUME NEW r \in O
        PROVE  /\ r = <<r[1], r[2], r[3]>>
               /\ r[1] = "startup" => r[2] \in BuiltinCells
               /\ r[1] = "lost" => r[2] \in ls
               /\ r[1] # "kept"
    <3>1. CASE \E s \in Syms : r = <<"symbol", s, ct[s]>>
      <4>1. r[1] = "symbol" BY <3>1
      <4> QED BY <3>1, <4>1
    <3>2. CASE \E i \in 1..Len(rs) : r = <<"result", i, rs[i]>>
      <4>1. r[1] = "result" BY <3>2
      <4> QED BY <3>2, <4>1
    <3>3. CASE \E k \in Building(fs) : r = <<"list", k, fs[k].cell>>
      <4>1. r[1] = "list" BY <3>3
      <4> QED BY <3>3, <4>1
    <3>4. CASE \E c \in BuiltinCells : r = <<"startup", c, c>>
      <4>1. r[1] = "startup" BY <3>4
      <4> QED BY <3>4, <4>1
    <3>5. CASE \E c \in ls : r = <<"lost", c, c>>
      <4>1. r[1] = "lost" BY <3>5
      <4> QED BY <3>5, <4>1
    <3> QED BY <1>3, <3>1, <3>2, <3>3, <3>4, <3>5
  <2>2. CASE p[1] \in {"startup", "lost"} /\ q[1] \in {"startup", "lost"}
    <3>1. <<"kept", p[2], p[3]>> = <<"kept", q[2], q[3]>> BY <1>7, <2>2 DEF HolderOf
    <3>2. p[2] = q[2] /\ p[3] = q[3] BY ONLY <3>1
    <3>3. p[1] = q[1] BY <2>1, <2>2, <3>2
    <3> QED BY <2>1, <3>2, <3>3
  <2>3. CASE p[1] \notin {"startup", "lost"} /\ q[1] \notin {"startup", "lost"}
    BY <1>7, <2>3 DEF HolderOf
  <2>4. CASE p[1] \in {"startup", "lost"} /\ q[1] \notin {"startup", "lost"}
    <3>1. <<"kept", p[2], p[3]>> = q BY <1>7, <2>4 DEF HolderOf
    <3>2. q[1] = "kept" BY ONLY <3>1
    <3> QED BY <2>1, <3>2
  <2>5. CASE p[1] \notin {"startup", "lost"} /\ q[1] \in {"startup", "lost"}
    <3>1. <<"kept", q[2], q[3]>> = p BY <1>7, <2>5 DEF HolderOf
    <3>2. p[1] = "kept" BY ONLY <3>1
    <3> QED BY <2>1, <3>2
  <2> QED BY <2>2, <2>3, <2>4, <2>5
<1>8. /\ \A r : r \in R <=> r \notin Permanent /\ \E p \in H : p[3] = r
      /\ \A p, q \in H : p[3] = q[3] /\ p[3] \notin Permanent => p = q
  BY ONLY <1>2, Owns(Held(ct, rs, fs, ls), R) DEF Owns
<1>9. PICK refs : refs = {r \in O : r[3] \notin Permanent} OBVIOUS
<1>10. {r[3] : r \in refs} = R
  <2>1. ASSUME NEW r \in refs PROVE r[3] \in R BY <1>5, <1>8, <1>9
  <2>2. ASSUME NEW c \in R PROVE \E r \in refs : r[3] = c
    <3>1. c \notin Permanent /\ \E p \in H : p[3] = c BY <1>8
    <3>2. PICK p \in H : p[3] = c BY <3>1
    <3>3. PICK r \in O : r[3] = c BY <1>6, <3>2
    <3> QED BY <1>9, <3>1, <3>3
  <2> QED BY <2>1, <2>2
<1>11. ASSUME NEW p \in refs, NEW q \in refs, p[3] = q[3] PROVE p = q
  <2>1. p \in O /\ q \in O /\ p[3] \notin Permanent BY <1>9
  <2>2. HolderOf(p) = HolderOf(q) BY <1>5, <1>8, <1>11, <2>1
  <2> QED BY <1>7, <2>1, <2>2
<1> QED BY ONLY <1>1, <1>9, <1>10, <1>11 DEF OuterOwn

\* References from cells in use are to the other cells in use, and to each one.
InnerOwn(h, R) ==
  LET refs == {r \in InnerRefs(h) : r[3] \notin Permanent} IN
  /\ {r[3] : r \in refs} = Alive(h) \ R
  /\ \A p, q \in refs : p[3] = q[3] => p = q

\* In a heap of trees each cell that is no root has one reference from another.
LEMMA InnerFacts ==
  ASSUME NEW h, NEW R, Shape(h, R)
  PROVE  InnerOwn(h, R)
<1>1. PICK I : I = InnerRefs(h) OBVIOUS
<1>2. /\ OneOwner(h) /\ nilCell \notin Alive(h) /\ Alive(h) \subseteq Cells
      /\ \A x \in Cells : After(h, x) = Below(h, x) => After(h, x) = nilCell
      /\ \A x \in Cells : /\ After(h, x) \in (Alive(h) \ R) \cup {nilCell}
                          /\ Below(h, x) \in (Alive(h) \ R) \cup {nilCell}
      /\ \A y \in Alive(h) \ R : \E x \in Alive(h) : y \in {After(h, x), Below(h, x)}
  BY ShapeFacts
<1>3. Alive(h) \cap Permanent = {} /\ nilCell \in Permanent BY DEF Alive, Permanent
<1>4. \A r : r \in I <=> \/ \E c \in Alive(h) : r = <<"next", c, After(h, c)>>
                         \/ \E c \in Alive(h) : h[c].type = "list" /\ r = <<"contents", c, Below(h, c)>>
  BY <1>1 DEF InnerRefs
<1>5. PICK refs : refs = {r \in I : r[3] \notin Permanent} OBVIOUS
<1>6. ASSUME NEW r \in refs
      PROVE  /\ r[2] \in Alive(h) /\ r = <<r[1], r[2], r[3]>> /\ r[1] \in {"next", "contents"}
             /\ r[1] = "next" => r[3] = After(h, r[2])
             /\ r[1] = "contents" => r[3] = Below(h, r[2])
             /\ r[3] # nilCell /\ r[3] \in Alive(h) \ R
  <2>1. r \in I /\ r[3] \notin Permanent BY <1>5
  <2>2. CASE \E c \in Alive(h) : r = <<"next", c, After(h, c)>>
    <3>1. PICK c \in Alive(h) : r = <<"next", c, After(h, c)>> BY <2>2
    <3>2. r[1] = "next" /\ r[2] = c /\ r[3] = After(h, c) BY <3>1
    <3> QED BY <1>2, <1>3, <2>1, <3>1, <3>2
  <2>3. CASE \E c \in Alive(h) : h[c].type = "list" /\ r = <<"contents", c, Below(h, c)>>
    <3>1. PICK c \in Alive(h) : r = <<"contents", c, Below(h, c)>> BY <2>3
    <3>2. r[1] = "contents" /\ r[2] = c /\ r[3] = Below(h, c) BY <3>1
    <3> QED BY <1>2, <1>3, <2>1, <3>1, <3>2
  <2> QED BY <1>4, <2>1, <2>2, <2>3
<1>7. ASSUME NEW y \in Alive(h) \ R PROVE \E r \in refs : r[3] = y
  <2>1. PICK x \in Alive(h) : y \in {After(h, x), Below(h, x)} BY <1>2
  <2>2. y \notin Permanent /\ y # nilCell BY <1>3
  <2>3. CASE y = After(h, x)
    <3>1. PICK r : r = <<"next", x, After(h, x)>> OBVIOUS
    <3>2. r \in I /\ r[3] = y BY <1>4, <2>3, <3>1
    <3> QED BY <1>5, <2>2, <3>2
  <2>4. CASE y = Below(h, x)
    <3>1. h[x].type = "list" BY <2>2, <2>4 DEF Below
    <3>2. PICK r : r = <<"contents", x, Below(h, x)>> OBVIOUS
    <3>3. r \in I /\ r[3] = y BY <1>4, <2>4, <3>1, <3>2
    <3> QED BY <1>5, <2>2, <3>3
  <2> QED BY <2>1, <2>3, <2>4
<1>8. {r[3] : r \in refs} = Alive(h) \ R BY ONLY <1>6, <1>7
<1>9. ASSUME NEW p \in refs, NEW q \in refs, p[3] = q[3] PROVE p = q
  <2>1. p[2] \in Cells /\ q[2] \in Cells BY <1>2, <1>6
  <2>2. p[3] \in Links(h, p[2]) BY <1>6 DEF Links
  <2>3. p[3] \in Links(h, q[2]) BY <1>6, <1>9 DEF Links
  <2>4. p[2] = q[2] BY ONLY <1>2, <2>1, <2>2, <2>3 DEF OneOwner
  <2>5. p[1] = q[1] BY <1>2, <1>6, <1>9, <2>1, <2>4
  <2> QED BY <1>6, <1>9, <2>4, <2>5
<1> QED BY ONLY <1>1, <1>5, <1>8, <1>9 DEF InnerOwn

\* As many references as cells, if each cell has one.
LEMMA CountRefs ==
  ASSUME NEW U, IsFiniteSet(U), NEW refs, {r[3] : r \in refs} = U,
         \A p, q \in refs : p[3] = q[3] => p = q
  PROVE  Cardinality(refs) = Cardinality(U)
<1>1. PICK f : f = [x \in U |-> CHOOSE r \in refs : r[3] = x] OBVIOUS
<1>2. ASSUME NEW x \in U PROVE f[x] \in refs /\ f[x][3] = x
  <2>1. \E r \in refs : r[3] = x OBVIOUS
  <2>2. f[x] = CHOOSE r \in refs : r[3] = x BY <1>1
  <2> QED BY <2>1, <2>2
<1>3. f \in [U -> refs] BY <1>1, <1>2
<1>4. \A x, y \in U : f[x] = f[y] => x = y BY <1>2
<1>5. \A r \in refs : \E x \in U : f[x] = r
  <2> SUFFICES ASSUME NEW r \in refs PROVE \E x \in U : f[x] = r OBVIOUS
  <2>1. r[3] \in U OBVIOUS
  <2>2. f[r[3]] = r BY <1>2, <2>1
  <2> QED BY <2>1, <2>2
<1>6. f \in Bijection(U, refs)
  BY <1>3, <1>4, <1>5 DEF Bijection, Injection, Surjection, IsInjective
<1>7. ExistsBijection(U, refs) BY <1>6 DEF ExistsBijection
<1> QED BY <1>7, FS_Bijection

\* Each cell in use has one reference.
LEMMA InvOwners == IndInv /\ LostApart => OneReference
<1> SUFFICES ASSUME IndInv, LostApart, Runs PROVE OneReference BY DEF OneReference
<1>1. PICK R : Ready(mem, contents, results, frames, lost, value, R) BY InvReady
<1>2. PICK h : h = mem.heap OBVIOUS
<1>3. /\ Tidy(mem, R) /\ Owns(Held(contents, results, frames, lost), R) /\ Shape(h, R)
      /\ R \subseteq Alive(h) /\ Alive(h) \subseteq Cells /\ Valued(h, results, frames, value)
      /\ results \in Seq(Cells) /\ frames \in Seq(Frames) /\ h \in Heaps BY <1>1, <1>2, ReadyFacts
<1>4. Used = Alive(h)
  <2>1. Typed1(mem) BY <1>3, TidyTyped
  <2> QED BY <1>2, <2>1, UsedAlive
<1>5. PICK O, I : O = OuterRefs(contents, results, frames, lost) /\ I = InnerRefs(h) OBVIOUS
<1>6. References = O \cup I
  <2>1. DOMAIN results = 1..Len(results) /\ DOMAIN frames = 1..Len(frames) BY ONLY <1>3
  <2>2. {k \in DOMAIN frames : frames[k].fn = "list"} = Building(frames) BY ONLY <2>1 DEF Building
  <2>3. \A c \in Used : /\ mem.heap[c].next = After(h, c) /\ mem.heap[c].contents = Below(h, c)
                        /\ (IsList(c) <=> h[c].type = "list")
    <3> SUFFICES ASSUME NEW c \in Used
                 PROVE  /\ mem.heap[c].next = After(h, c) /\ mem.heap[c].contents = Below(h, c)
                        /\ (IsList(c) <=> h[c].type = "list") OBVIOUS
    <3>1. c \in Cells /\ c \in Alive(h) BY <1>3, <1>4
    <3>2. After(h, c) = h[c].next /\ Below(h, c) = h[c].contents BY ONLY <1>3, <3>1, Fields
    <3> QED BY ONLY <1>2, <3>2 DEF IsList
  <2>4. {<<"next", c, mem.heap[c].next>> : c \in Used}
        = {<<"next", c, After(h, c)>> : c \in Alive(h)} BY ONLY <1>4, <2>3
  <2>5. {<<"contents", c, mem.heap[c].contents>> : c \in {c \in Used : IsList(c)}}
        = {<<"contents", c, Below(h, c)>> : c \in {c \in Alive(h) : h[c].type = "list"}}
    BY ONLY <1>4, <2>3
  <2>6. PICK ro, rn, rc :
          /\ ro = OuterRefs(contents, results, frames, lost)
          /\ rn = {<<"next", c, After(h, c)>> : c \in Alive(h)}
          /\ rc = {<<"contents", c, Below(h, c)>> : c \in {c \in Alive(h) : h[c].type = "list"}}
    OBVIOUS
  <2>7. I = rn \cup rc BY ONLY <1>5, <2>6 DEF InnerRefs
  <2>8. ro = {<<"symbol", s, contents[s]>> : s \in Syms}
             \cup {<<"result", i, results[i]>> : i \in DOMAIN results}
             \cup {<<"list", k, frames[k].cell>> : k \in {k \in DOMAIN frames : frames[k].fn = "list"}}
             \cup {<<"startup", c, c>> : c \in BuiltinCells} \cup {<<"lost", c, c>> : c \in lost}
    BY ONLY <2>1, <2>2, <2>6 DEF OuterRefs
  <2>9. References = ro \cup rn \cup rc
    <3>1. PICK a, b, d, e, g :
            /\ a = {<<"symbol", s, contents[s]>> : s \in Syms}
            /\ b = {<<"result", i, results[i]>> : i \in DOMAIN results}
            /\ d = {<<"list", k, frames[k].cell>> : k \in {k \in DOMAIN frames : frames[k].fn = "list"}}
            /\ e = {<<"startup", c, c>> : c \in BuiltinCells}
            /\ g = {<<"lost", c, c>> : c \in lost} OBVIOUS
    <3>2. References = a \cup b \cup d \cup rn \cup rc \cup e \cup g
      BY ONLY <2>4, <2>5, <2>6, <3>1 DEF References
    <3>3. ro = a \cup b \cup d \cup e \cup g BY ONLY <2>8, <3>1
    <3> QED BY ONLY <3>2, <3>3
  <2> QED BY ONLY <1>5, <2>6, <2>7, <2>9
<1>7. OuterOwn(contents, results, frames, lost, R)
  <2>1. lost \cap BuiltinCells = {} BY DEF LostApart
  <2> QED BY ONLY <1>3, <2>1, OuterFacts
<1>8. InnerOwn(h, R) BY ONLY <1>3, InnerFacts
<1>9. PICK A, B : /\ A = {r \in O : r[3] \notin Permanent}
                  /\ B = {r \in I : r[3] \notin Permanent} OBVIOUS
<1>10. {r[3] : r \in A} = R /\ \A p, q \in A : p[3] = q[3] => p = q
  BY ONLY <1>5, <1>7, <1>9 DEF OuterOwn
<1>11. {r[3] : r \in B} = Alive(h) \ R /\ \A p, q \in B : p[3] = q[3] => p = q
  BY ONLY <1>5, <1>8, <1>9 DEF InnerOwn
<1>12. PICK refs : refs = {r \in References : r[3] \notin Permanent} OBVIOUS
<1>13. refs = A \cup B BY ONLY <1>6, <1>9, <1>12
<1>14. {r[3] : r \in refs} = Alive(h)
  <2>1. \A r \in refs : r[3] \in Alive(h) BY ONLY <1>3, <1>10, <1>11, <1>13
  <2>2. \A y \in Alive(h) : \E r \in refs : r[3] = y BY ONLY <1>10, <1>11, <1>13
  <2> QED BY ONLY <2>1, <2>2
<1>15. \A p, q \in refs : p[3] = q[3] => p = q
  <2> SUFFICES ASSUME NEW p \in refs, NEW q \in refs, p[3] = q[3] PROVE p = q OBVIOUS
  <2>1. \A r \in A : r[3] \in R BY ONLY <1>10
  <2>2. \A r \in B : r[3] \notin R BY ONLY <1>11
  <2> QED BY ONLY p \in refs, q \in refs, p[3] = q[3], <1>10, <1>11, <1>13, <2>1, <2>2
<1>16. IsFiniteSet(Alive(h)) BY <1>3, CellsFinite, FS_Subset
<1>17. Cardinality(refs) = Cardinality(Alive(h)) BY ONLY <1>14, <1>15, <1>16, CountRefs
<1>18. value # NULL => value \in Used \cup Permanent BY ONLY <1>3, <1>4 DEF Valued
<1> QED BY ONLY <1>4, <1>12, <1>14, <1>17, <1>18 DEF OneReference

\* getCell, deleteList, copyCell, freeCellBlocks, the jumps of catch, throw and errors, and the
\* functions that read and write lists keep IndInv, the invariant from which the rest follows:
\* cells in use form trees whose roots have one owner each, the other cells of mapped blocks are
\* the free list, and what functions wait for is in use.  That no program pushes the value of a
\* symbol that has no list onto that symbol is assumed: p_push frees it first.
THEOREM MemoryKept == "selfpush" \notin Events => (Spec => [](IndInv /\ LostApart))
<1> SUFFICES ASSUME "selfpush" \notin Events PROVE Spec => [](IndInv /\ LostApart) OBVIOUS
<1>1. Init => IndInv /\ LostApart
  <2>1. Init => LostApart BY DEF Init, LostApart
  <2> QED BY <2>1, InitKeeps
<1>2. (IndInv /\ LostApart) /\ [Next]_vars => (IndInv /\ LostApart)' BY StepKeeps, ApartKeeps
<1> QED BY <1>1, <1>2, PTL DEF Spec

\* The cells' fields, the free list's head, both stacks and the symbols hold what their types
\* in newlisp.h allow.
THEOREM TypesKept == "selfpush" \notin Events => (Spec => []TypeOK)
<1> SUFFICES ASSUME "selfpush" \notin Events PROVE Spec => []TypeOK OBVIOUS
<1>1. Spec => [](IndInv /\ LostApart) BY MemoryKept
<1> QED BY <1>1, InvTypes, PTL

\* firstFreeCell leads to every free cell, once, and then ends: getCell never hands out a cell
\* twice or one in use, and none is forgotten, whatever jumps and freed blocks came between.
THEOREM FreeListKept == "selfpush" \notin Events => (Spec => []FreeListExact)
<1> SUFFICES ASSUME "selfpush" \notin Events PROVE Spec => []FreeListExact OBVIOUS
<1>1. Spec => [](IndInv /\ LostApart) BY MemoryKept
<1> QED BY <1>1, InvFree, PTL

\* Memory without reference counts: each cell in use belongs to one symbol, place of the result
\* stack, list under construction, cell that startup made or longjmp lost, or list element, so
\* that deleteList frees no cell twice and leaves no owner with a freed cell.
THEOREM OwnersKept == "selfpush" \notin Events => (Spec => []OneReference)
<1> SUFFICES ASSUME "selfpush" \notin Events PROVE Spec => []OneReference OBVIOUS
<1>1. Spec => [](IndInv /\ LostApart) BY MemoryKept
<1> QED BY <1>1, InvOwners, PTL

\* list->aux, if it is not nilCell, is the list's last cell, after any push, pop, set and copy:
\* where (push x s -1) appends is the end.
THEOREM LastCellsKept == "selfpush" \notin Events => (Spec => []LastCellRight)
<1> SUFFICES ASSUME "selfpush" \notin Events PROVE Spec => []LastCellRight OBVIOUS
<1>1. Spec => [](IndInv /\ LostApart) BY MemoryKept
<1> QED BY <1>1, InvLasts, PTL

(* What a step does to what symbols print. *)
\* What VariablesHoldValues says of a step and of symbol s.
HoldsValue(s) ==
  LET old == Printed(contents[s])
      new == Printed(contents[s])'
      given == IF value = NULL THEN <<>> ELSE Printed(value)
      Leaves(fn) == \E k \in DOMAIN frames \ DOMAIN frames' : frames[k].fn = fn /\ frames[k].sym = s
  IN \/ new = old
     \/ Leaves("set") /\ new = given
     \/ Leaves("push") /\ new = ListOf(<<given>> \o Items(old))
     \/ Leaves("append") /\ new = ListOf(Append(Items(old), given))
     \/ Leaves("catch") /\ new = IF Fails THEN <<"atom", <<>>>> ELSE given
     \/ frames' = frames /\ Items(old) # <<>>
        /\ \/ new = ListOf(Tail(Items(old))) /\ Printed(Last(results))' = Head(Items(old))
           \/ new = ListOf(Front(Items(old))) /\ Printed(Last(results))' = Last(Items(old))
HoldValues == \A s \in Syms : HoldsValue(s)

\* A symbol prints as before.
LEMMA HoldSame ==
  ASSUME NEW s, Prints(mem'.heap, contents'[s]) = Prints(mem.heap, contents[s])
  PROVE  HoldsValue(s)
<1>1. Printed(contents[s]) = Prints(mem.heap, contents[s]) BY DEF Printed, Prints, IsList
<1>2. Printed(contents[s])' = Prints(mem'.heap, contents'[s]) BY DEF Printed, Prints, IsList
<1>3. Printed(contents[s])' = Printed(contents[s])
  BY ONLY <1>1, <1>2, Prints(mem'.heap, contents'[s]) = Prints(mem.heap, contents[s])
<1> QED BY ONLY <1>3 DEF HoldsValue

\* The function fn of symbol s ends in a step.
Left(fn, s) == \E k \in DOMAIN frames \ DOMAIN frames' : frames[k].fn = fn /\ frames[k].sym = s
\* A symbol prints what a function has given it.
Gives(s, fn, given, old, new) ==
  \/ fn = "set" /\ new = given
  \/ fn = "push" /\ new = ListOf(<<given>> \o Items(old))
  \/ fn = "append" /\ new = ListOf(Append(Items(old), given))
  \/ fn = "catch" /\ ~Fails /\ new = given
\* A function that ends may give its symbol the value.
LEMMA HoldGiven ==
  ASSUME NEW s, NEW fn, Left(fn, s), value # NULL,
         Gives(s, fn, Prints(mem.heap, value), Prints(mem.heap, contents[s]), Prints(mem'.heap, contents'[s]))
  PROVE  HoldsValue(s)
<1>1. Printed(contents[s]) = Prints(mem.heap, contents[s]) BY DEF Printed, Prints, IsList
<1>2. Printed(contents[s])' = Prints(mem'.heap, contents'[s]) BY DEF Printed, Prints, IsList
<1>3. Printed(value) = Prints(mem.heap, value) BY DEF Printed, Prints, IsList
<1>4. Gives(s, fn, Printed(value), Printed(contents[s]), Printed(contents[s])')
  BY ONLY <1>1, <1>2, <1>3,
       Gives(s, fn, Prints(mem.heap, value), Prints(mem.heap, contents[s]), Prints(mem'.heap, contents'[s]))
<1>5. CASE fn = "set" BY ONLY <1>4, <1>5, Left(fn, s), value # NULL DEF HoldsValue, Gives, Left
<1>6. CASE fn = "push" BY ONLY <1>4, <1>6, Left(fn, s), value # NULL DEF HoldsValue, Gives, Left
<1>7. CASE fn = "append" BY ONLY <1>4, <1>7, Left(fn, s), value # NULL DEF HoldsValue, Gives, Left
<1>8. CASE fn = "catch" BY ONLY <1>4, <1>8, Left(fn, s), value # NULL DEF HoldsValue, Gives, Left
<1>9. fn \in {"set", "push", "append", "catch"} BY ONLY <1>4 DEF Gives
<1> QED BY ONLY <1>5, <1>6, <1>7, <1>8, <1>9

\* A catch gives its symbol the text of an error.
LEMMA HoldText ==
  ASSUME NEW s, Left("catch", s), Fails, Prints(mem'.heap, contents'[s]) = <<"atom", <<>>>>
  PROVE  HoldsValue(s)
<1>2. Printed(contents[s])' = Prints(mem'.heap, contents'[s]) BY DEF Printed, Prints, IsList
<1>3. Printed(contents[s])' = <<"atom", <<>>>>
  BY ONLY <1>2, Prints(mem'.heap, contents'[s]) = <<"atom", <<>>>>
<1> QED BY ONLY <1>3, Left("catch", s), Fails DEF HoldsValue, Left

\* pop takes an element from a symbol's list and returns it.
LEMMA HoldPop ==
  ASSUME NEW s, frames' = frames,
         Loses(Prints(mem.heap, contents[s]), Prints(mem'.heap, contents'[s]), Prints(mem'.heap, Last(results')))
  PROVE  HoldsValue(s)
<1>1. Printed(contents[s]) = Prints(mem.heap, contents[s]) BY DEF Printed, Prints, IsList
<1>2. Printed(contents[s])' = Prints(mem'.heap, contents'[s]) BY DEF Printed, Prints, IsList
<1>3. Printed(Last(results))' = Prints(mem'.heap, Last(results')) BY DEF Printed, Prints, IsList
<1>4. Loses(Printed(contents[s]), Printed(contents[s])', Printed(Last(results))')
  BY ONLY <1>1, <1>2, <1>3,
     Loses(Prints(mem.heap, contents[s]), Prints(mem'.heap, contents'[s]), Prints(mem'.heap, Last(results')))
<1>5. frames' = frames OBVIOUS
<1>6. PICK old, new, x, is : /\ old = Printed(contents[s]) /\ new = Printed(contents[s])'
                             /\ x = Printed(Last(results))' /\ is = Items(old) OBVIOUS
<1>7. /\ is # <<>>
      /\ \/ new = ListOf(Tail(is)) /\ x = Head(is)
         \/ new = ListOf(Front(is)) /\ x = Last(is) BY ONLY <1>4, <1>6 DEF Loses
<1> QED BY ONLY <1>5, <1>6, <1>7 DEF HoldsValue

\* After a step, symbols own what they have.
LEMMA NextSettled ==
  ASSUME IndInv', mem'.process = "runs"
  PROVE  \E Q : Settled(mem'.heap, contents', Q) /\ (value' # NULL => value' \in Alive(mem'.heap) \cup Permanent)
<1>1. Sound(mem', contents', results', frames', lost', value') BY DEF IndInv
<1> QED BY ONLY <1>1, mem'.process = "runs", SoundSettled

\* A symbol that keeps its cell prints the same if the cells that change are not its own.
LEMMA HoldApart ==
  ASSUME NEW R, Settled(mem.heap, contents, R), IndInv', mem'.process = "runs",
         NEW t \in Syms, contents'[t] = contents[t], NEW D, Agrees(mem.heap, mem'.heap, D),
         Spared(mem.heap, R, contents[t], D)
  PROVE  HoldsValue(t)
<1>1. PICK Q : Settled(mem'.heap, contents', Q)
  BY ONLY IndInv', mem'.process = "runs", NextSettled
<1>2. Prints(mem'.heap, contents'[t]) = Prints(mem.heap, contents[t])
  <2>1. PICK h, g, ct, ct2 : h = mem.heap /\ g = mem'.heap /\ ct = contents /\ ct2 = contents' OBVIOUS
  <2>2. /\ Settled(h, ct, R) /\ Settled(g, ct2, Q) /\ ct2[t] = ct[t] /\ Agrees(h, g, D)
        /\ Spared(h, R, ct[t], D)
    BY ONLY <1>1, <2>1, Settled(mem.heap, contents, R), contents'[t] = contents[t],
         Agrees(mem.heap, mem'.heap, D),
         Spared(mem.heap, R, contents[t], D)
  <2>3. Prints(g, ct2[t]) = Prints(h, ct[t]) BY ONLY <2>2, t \in Syms, SymbolPrints
  <2> QED BY ONLY <2>1, <2>3
<1> QED BY ONLY <1>2, HoldSame

\* A step that changes no cell and no symbol.
LEMMA HoldQuiet ==
  ASSUME UNCHANGED <<mem, contents>>
  PROVE  HoldValues
<1>1. mem' = mem /\ contents' = contents OBVIOUS
<1> SUFFICES ASSUME NEW s \in Syms PROVE HoldsValue(s) BY DEF HoldValues
<1>2. Prints(mem'.heap, contents'[s]) = Prints(mem.heap, contents[s]) BY ONLY <1>1
<1> QED BY ONLY <1>2, HoldSame

\* A step in which what is in use is kept, or given back.
LEMMA HoldAgrees ==
  ASSUME NEW R, Settled(mem.heap, contents, R), IndInv', mem'.process = "runs", contents' = contents,
         Agrees(mem.heap, mem'.heap, {})
  PROVE  HoldValues
<1> SUFFICES ASSUME NEW s \in Syms PROVE HoldsValue(s) BY DEF HoldValues
<1>1. Spared(mem.heap, R, contents[s], {}) BY DEF Spared
<1>2. contents'[s] = contents[s] OBVIOUS
<1> QED BY ONLY <1>1, <1>2, Settled(mem.heap, contents, R), IndInv', mem'.process = "runs",
     s \in Syms,
                Agrees(mem.heap, mem'.heap, {}), HoldApart

(* Steps that leave every symbol its cell. *)
\* What is kept is as it was.
LEMMA KeepsAgrees ==
  ASSUME NEW h, NEW g, Keeps(h, g, Alive(h)) \/ Keeps(h, g, Alive(g))
  PROVE  Agrees(h, g, {})
BY DEF Keeps, Agrees

\* Reading a program takes two cells that were free.
LEMMA ReadAgrees ==
  ASSUME NEW m, NEW R, Tidy(m, R), NEW quote, quote = GetCell(m, "list", nilCell),
         NEW inner, inner = GetCell(quote.mem, "atom", nilCell),
         NEW m2, m2 = [inner.mem EXCEPT !.heap[quote.cell].contents = inner.cell],
         m2.process = "runs"
  PROVE  Agrees(m.heap, m2.heap, {})
<1>1. Got(m, R, "list", nilCell, quote)
  <2>1. nilCell \in R \cup {nilCell} OBVIOUS
  <2> QED BY ONLY Tidy(m, R), quote = GetCell(m, "list", nilCell), <2>1, GetTidy
<1>2. \E Q : Tidy(quote.mem, Q) BY ONLY <1>1 DEF Got
<1>3. PICK Q : Tidy(quote.mem, Q) BY <1>2
<1>4. Got(quote.mem, Q, "atom", nilCell, inner)
  <2>1. nilCell \in Q \cup {nilCell} OBVIOUS
  <2> QED BY ONLY <1>3, inner = GetCell(quote.mem, "atom", nilCell), <2>1, GetTidy
<1>5. \E P : Tidy(inner.mem, P) BY ONLY <1>4 DEF Got
<1>6. Typed1(inner.mem) BY <1>5, TidyTyped
<1>7. quote.cell \in Cells /\ inner.cell \in Cells BY ONLY <1>1, <1>4, Special DEF Got
<1>8. PICK h : h = inner.mem.heap OBVIOUS
<1>9. /\ m2.process = inner.mem.process
      /\ Sets(inner.mem, quote.cell, Cell(h[quote.cell].type, h[quote.cell].next, h[quote.cell].aux, inner.cell), m2)
  BY ONLY <1>6, <1>7, <1>8, m2 = [inner.mem EXCEPT !.heap[quote.cell].contents = inner.cell],
       WriteContentsOf
<1>10. \A x \in Cells \ {quote.cell} : m2.heap[x] = inner.mem.heap[x]
  BY ONLY <1>6, <1>7, <1>9, SetsFacts
<1>11. inner.mem.process # "exited" BY ONLY <1>9, m2.process = "runs"
<1>12. /\ quote.mem.process # "exited" /\ Keeps(quote.mem.heap, inner.mem.heap, Alive(quote.mem.heap))
  BY ONLY <1>4, <1>11 DEF Got
<1>13. quote.cell \notin Alive(m.heap) /\ Keeps(m.heap, quote.mem.heap, Alive(m.heap))
  BY ONLY <1>1, <1>12 DEF Got
<1>14. \A x \in Alive(m.heap) : x \in Alive(quote.mem.heap) /\ quote.mem.heap[x] = m.heap[x]
  BY ONLY <1>13 DEF Keeps
<1>15. \A x \in Alive(quote.mem.heap) : inner.mem.heap[x] = quote.mem.heap[x]
  BY ONLY <1>12 DEF Keeps
<1>16. Alive(m.heap) \subseteq Cells BY DEF Alive
<1>17. \A x \in Alive(m.heap) : m2.heap[x] = m.heap[x] BY ONLY <1>10, <1>13, <1>14, <1>15, <1>16
<1> QED BY ONLY <1>17 DEF Agrees

\* A program is read.
LEMMA ReadProgramHolds ==
  ASSUME IndInv, IndInv', ReadProgram, mem'.process = "runs"
  PROVE  HoldValues
<1>1. Runs BY DEF ReadProgram
<1>2. PICK R : Ready(mem, contents, results, frames, lost, value, R) BY <1>1, InvReady
<1>3. PICK quote : quote = GetCell(mem, "list", nilCell) OBVIOUS
<1>4. PICK inner : inner = GetCell(quote.mem, "atom", nilCell) OBVIOUS
<1>5. mem' = [inner.mem EXCEPT !.heap[quote.cell].contents = inner.cell] /\ contents' = contents
  BY ONLY <1>3, <1>4, ReadProgram DEF ReadProgram
<1>6. PICK m2 : m2 = mem' OBVIOUS
<1>7. m2 = [inner.mem EXCEPT !.heap[quote.cell].contents = inner.cell] /\ m2.process = "runs"
  BY ONLY <1>5, <1>6, mem'.process = "runs"
<1>8. Tidy(mem, R) BY ONLY <1>2, ReadyFacts
<1>9. Agrees(mem.heap, m2.heap, {}) BY ONLY <1>3, <1>4, <1>7, <1>8, ReadAgrees
<1>10. Agrees(mem.heap, mem'.heap, {}) BY ONLY <1>6, <1>9
<1>11. Settled(mem.heap, contents, R) BY ONLY <1>2, ReadySettled
<1> QED BY ONLY <1>5, <1>10, <1>11, IndInv', mem'.process = "runs", HoldAgrees

\* Deleting results frees what they have, and changes nothing else.
LEMMA CleanedAgrees ==
  ASSUME NEW m, NEW ct, NEW rs, NEW fs, NEW ls, NEW v, NEW R, Ready(m, ct, rs, fs, ls, v, R),
         NEW n \in Nat, n <= Len(rs), NEW m2, m2 = Cleaned(m, rs, n)
  PROVE  Agrees(m.heap, m2.heap, {}) /\ \E Q : Tidy(m2, Q)
<1>1. rs \in Seq(Cells) /\ Tidy(m, R) /\ Owns(Held(ct, rs, fs, ls), R) BY ReadyFacts
<1>2. Stack(rs, R) BY ONLY <1>1, HeldStack
<1>3. Rest(m, R, rs, n, m2)
  BY ONLY <1>1, <1>2, n \in Nat, n <= Len(rs), m2 = Cleaned(m, rs, n), CleanedTidy
<1>4. Tidy(m2, R \ Above(rs, n)) /\ Keeps(m.heap, m2.heap, Alive(m2.heap)) BY ONLY <1>3 DEF Rest
<1> QED BY ONLY <1>4, KeepsAgrees

\* A program ends.
LEMMA ProgramEndsHolds ==
  ASSUME IndInv, IndInv', ProgramEnds, mem'.process = "runs"
  PROVE  HoldValues
<1>1. Runs BY DEF ProgramEnds
<1>2. PICK R : Ready(mem, contents, results, frames, lost, value, R) BY <1>1, InvReady
<1>3. mem' = Cleaned(mem, results, 0) /\ contents' = contents BY DEF ProgramEnds
<1>4. PICK m2 : m2 = mem' OBVIOUS
<1>5. m2 = Cleaned(mem, results, 0) BY ONLY <1>3, <1>4
<1>6. 0 \in Nat /\ 0 <= Len(results)
  <2>1. results \in Seq(Cells) BY ONLY <1>2, ReadyFacts
  <2> QED BY ONLY <2>1
<1>7. Agrees(mem.heap, m2.heap, {}) BY ONLY <1>2, <1>5, <1>6, CleanedAgrees
<1>8. Agrees(mem.heap, mem'.heap, {}) BY ONLY <1>4, <1>7
<1>9. Settled(mem.heap, contents, R) BY ONLY <1>2, ReadySettled
<1> QED BY ONLY <1>3, <1>8, <1>9, IndInv', mem'.process = "runs", HoldAgrees

\* list ends.
LEMMA ListEndsHolds ==
  ASSUME IndInv, IndInv', ListEnds, mem'.process = "runs"
  PROVE  HoldValues
<1>1. Runs BY DEF ListEnds, Evaluating
<1>2. PICK R : Ready(mem, contents, results, frames, lost, value, R) BY <1>1, InvReady
<1>3. PICK n : n = Last(frames).save OBVIOUS
<1>4. frames # <<>> /\ mem' = Cleaned(mem, results, n) /\ contents' = contents
  BY ONLY <1>3, ListEnds DEF ListEnds, Top, Push
<1>5. PICK m2 : m2 = mem' OBVIOUS
<1>6. m2 = Cleaned(mem, results, n) BY ONLY <1>4, <1>5
<1>7. n \in Nat /\ n <= Len(results)
  <2>1. frames \in Seq(Frames) /\ Stacked(frames, Len(results)) BY ONLY <1>2, ReadyFacts
  <2>2. Popped(frames, Front(frames), Len(results)) BY ONLY <1>4, <2>1, FrontFrames
  <2> QED BY ONLY <1>3, <2>2 DEF Popped
<1>8. Agrees(mem.heap, m2.heap, {}) BY ONLY <1>2, <1>6, <1>7, CleanedAgrees
<1>9. Agrees(mem.heap, mem'.heap, {}) BY ONLY <1>5, <1>8
<1>10. Settled(mem.heap, contents, R) BY ONLY <1>2, ReadySettled
<1> QED BY ONLY <1>4, <1>9, <1>10, IndInv', mem'.process = "runs", HoldAgrees

\* list begins.
LEMMA CallListHolds ==
  ASSUME IndInv, IndInv', CallList, mem'.process = "runs"
  PROVE  HoldValues
<1>1. Runs BY DEF CallList, Calls, Evaluating
<1>2. PICK R : Ready(mem, contents, results, frames, lost, value, R) BY <1>1, InvReady
<1>3. PICK new : new = GetCell(mem, "list", nilCell) OBVIOUS
<1>4. mem' = new.mem /\ contents' = contents BY ONLY <1>3, CallList DEF CallList
<1>5. Tidy(mem, R) BY ONLY <1>2, ReadyFacts
<1>6. Got(mem, R, "list", nilCell, new)
  <2>1. nilCell \in R \cup {nilCell} OBVIOUS
  <2> QED BY ONLY <1>3, <1>5, <2>1, GetTidy
<1>7. Keeps(mem.heap, new.mem.heap, Alive(mem.heap)) BY ONLY <1>6 DEF Got
<1>8. Agrees(mem.heap, new.mem.heap, {}) BY ONLY <1>7, KeepsAgrees
<1>9. Agrees(mem.heap, mem'.heap, {}) BY ONLY <1>4, <1>8
<1>10. Settled(mem.heap, contents, R) BY ONLY <1>2, ReadySettled
<1> QED BY ONLY <1>4, <1>9, <1>10, IndInv', mem'.process = "runs", HoldAgrees

\* An error is not caught.
LEMMA ErrorUncaughtHolds ==
  ASSUME IndInv, IndInv', ErrorUncaught, mem'.process = "runs"
  PROVE  HoldValues
<1>1. Runs BY FailsRuns DEF ErrorUncaught
<1>2. PICK R : Ready(mem, contents, results, frames, lost, value, R) BY <1>1, InvReady
<1>3. PICK m1 : m1 = Cleaned(mem, results, 0) OBVIOUS
<1>4. mem' = FreeCellBlocks(m1) /\ contents' = contents
  BY ONLY <1>3, ErrorUncaught DEF ErrorUncaught
<1>5. PICK m2 : m2 = FreeCellBlocks(m1) OBVIOUS
<1>6. 0 \in Nat /\ 0 <= Len(results)
  <2>1. results \in Seq(Cells) BY ONLY <1>2, ReadyFacts
  <2> QED BY ONLY <2>1
<1>7. Agrees(mem.heap, m1.heap, {}) /\ \E Q : Tidy(m1, Q) BY ONLY <1>2, <1>3, <1>6, CleanedAgrees
<1>8. PICK Q : Tidy(m1, Q) BY ONLY <1>7
<1>9. Trimmed(m1, Q, m2) BY ONLY <1>5, <1>8, BlocksTidy
<1>10. Keeps(m1.heap, m2.heap, Alive(m2.heap)) BY ONLY <1>9 DEF Trimmed
<1>11. Agrees(mem.heap, m2.heap, {}) BY ONLY <1>7, <1>10, AgreesShrink
<1>12. Agrees(mem.heap, mem'.heap, {}) BY ONLY <1>4, <1>5, <1>11
<1>13. Settled(mem.heap, contents, R) BY ONLY <1>2, ReadySettled
<1> QED BY ONLY <1>4, <1>12, <1>13, IndInv', mem'.process = "runs", HoldAgrees

\* What getCell keeps, and what it returns if the process goes on.
GotCell(m, got) ==
  /\ \E Q : Tidy(got.mem, Q) /\ got.cell \in Q \cup {nilCell}
  /\ got.cell \in Cells /\ Keeps(m.heap, got.mem.heap, Alive(m.heap))
  /\ got.mem.process # "exited" => /\ m.process = got.mem.process /\ got.cell \notin Alive(m.heap)
                                   /\ got.cell \in Alive(got.mem.heap)
\* getCell returns a cell that was free, and keeps what is in use.
LEMMA GetKeeps ==
  ASSUME NEW m, NEW R, Tidy(m, R), NEW type \in {"atom", "list"}, NEW c \in R \cup {nilCell},
         type = "atom" => c = nilCell, NEW got, got = GetCell(m, type, c)
  PROVE  GotCell(m, got)
<1>1. Got(m, R, type, c, got) BY GetTidy
<1>2. CASE /\ got.mem.process = "exited" /\ got.cell = nilCell /\ Tidy(got.mem, R)
           /\ Keeps(m.heap, got.mem.heap, Alive(m.heap)) BY ONLY <1>2, Special DEF GotCell
<1>3. CASE /\ got.mem.process = m.process /\ m.process # "exited"
           /\ got.cell \in Cells \ (Alive(m.heap) \cup Permanent)
           /\ Tidy(got.mem, (R \ {c}) \cup {got.cell})
           /\ Keeps(m.heap, got.mem.heap, Alive(m.heap))
           /\ Alive(got.mem.heap) = Alive(m.heap) \cup {got.cell}
  <2>1. PICK Q : Q = (R \ {c}) \cup {got.cell} OBVIOUS
  <2>2. Tidy(got.mem, Q) /\ got.cell \in Q \cup {nilCell} BY ONLY <1>3, <2>1
  <2> QED BY ONLY <1>3, <2>2 DEF GotCell
<1> QED BY ONLY <1>1, <1>2, <1>3 DEF Got

\* reset changes only cells that were free.
LEMMA ResetAgrees ==
  ASSUME NEW m, NEW R, Tidy(m, R), NEW before, before = GetCell(FreeCellBlocks(m), "atom", nilCell),
         NEW list, list = GetCell(before.mem, "list", before.cell),
         NEW after, after = GetCell(list.mem, "atom", nilCell),
         NEW m1, m1 = [after.mem EXCEPT !.heap[before.cell].next = after.cell],
         m1.process = "runs"
  PROVE  Agrees(m.heap, m1.heap, {})
<1>1. PICK ma, mb, mc, md, b, a : /\ ma = FreeCellBlocks(m) /\ mb = before.mem /\ mc = list.mem
                                  /\ md = after.mem /\ b = before.cell /\ a = after.cell OBVIOUS
<1>2. PICK t, y, n : t = "atom" /\ y = "list" /\ n = nilCell OBVIOUS
<1>3. /\ t \in {"atom", "list"} /\ y \in {"atom", "list"} /\ (y = "atom" => b = nilCell)
      /\ (t = "atom" => n = nilCell) BY ONLY <1>2
<1>4. /\ before = GetCell(ma, t, n) /\ list = GetCell(mb, y, b) /\ after = GetCell(mc, t, n)
      /\ m1 = [md EXCEPT !.heap[b].next = a]
  BY ONLY <1>1, <1>2, before = GetCell(FreeCellBlocks(m), "atom", nilCell),
     list = GetCell(before.mem, "list", before.cell), after = GetCell(list.mem, "atom", nilCell),
     m1 = [after.mem EXCEPT !.heap[before.cell].next = after.cell]
<1>5. Trimmed(m, R, ma) BY ONLY <1>1, Tidy(m, R), BlocksTidy
<1>6. Tidy(ma, R) /\ Keeps(m.heap, ma.heap, Alive(m.heap)) BY ONLY <1>5 DEF Trimmed
<1>7. GotCell(ma, before)
  <2>1. n \in R \cup {nilCell} BY ONLY <1>2
  <2> QED BY ONLY <1>3, <1>4, <1>6, <2>1, GetKeeps
<1>8. PICK Qb : Tidy(mb, Qb) /\ b \in Qb \cup {nilCell} BY ONLY <1>1, <1>7 DEF GotCell
<1>9. GotCell(mb, list) BY ONLY <1>3, <1>4, <1>8, GetKeeps
<1>10. PICK Qc : Tidy(mc, Qc) BY ONLY <1>1, <1>9 DEF GotCell
<1>11. GotCell(mc, after)
  <2>1. n \in Qc \cup {nilCell} BY ONLY <1>2
  <2> QED BY ONLY <1>3, <1>4, <1>10, <2>1, GetKeeps
<1>12. PICK Qd : Tidy(md, Qd) BY ONLY <1>1, <1>11 DEF GotCell
<1>13. b \in Cells /\ a \in Cells BY ONLY <1>1, <1>7, <1>11 DEF GotCell
<1>14. PICK h : h = md.heap OBVIOUS
<1>15. Typed1(md) BY ONLY <1>12, TidyTyped
<1>16. m1.process = md.process /\ Sets(md, b, Cell(h[b].type, a, h[b].aux, h[b].contents), m1)
  <2>1. a \in Cells \cup {NULL} BY ONLY <1>13
  <2> QED BY ONLY <1>4, <1>13, <1>14, <1>15, <2>1, WriteNextOf
<1>17. \A x \in Cells \ {b} : m1.heap[x] = md.heap[x] BY ONLY <1>13, <1>15, <1>16, SetsFacts
<1>18. md.process # "exited" BY ONLY <1>16, m1.process = "runs"
<1>19. mc.process # "exited" /\ Keeps(mc.heap, md.heap, Alive(mc.heap))
  BY ONLY <1>1, <1>11, <1>18 DEF GotCell
<1>20. mb.process # "exited" /\ Keeps(mb.heap, mc.heap, Alive(mb.heap))
  BY ONLY <1>1, <1>9, <1>19 DEF GotCell
<1>21. b \notin Alive(ma.heap) /\ Keeps(ma.heap, mb.heap, Alive(ma.heap))
  BY ONLY <1>1, <1>7, <1>20 DEF GotCell
<1>22. \A x \in Alive(m.heap) : x \in Alive(ma.heap) /\ ma.heap[x] = m.heap[x]
  BY ONLY <1>6 DEF Keeps
<1>23. \A x \in Alive(ma.heap) : x \in Alive(mb.heap) /\ mb.heap[x] = ma.heap[x]
  BY ONLY <1>21 DEF Keeps
<1>24. \A x \in Alive(mb.heap) : x \in Alive(mc.heap) /\ mc.heap[x] = mb.heap[x]
  BY ONLY <1>20 DEF Keeps
<1>25. \A x \in Alive(mc.heap) : md.heap[x] = mc.heap[x] BY ONLY <1>19 DEF Keeps
<1>26. \A x \in Alive(m.heap) : md.heap[x] = m.heap[x] /\ x # b
  BY ONLY <1>21, <1>22, <1>23, <1>24, <1>25
<1>27. Alive(m.heap) \subseteq Cells BY DEF Alive
<1>28. \A x \in Alive(m.heap) : m1.heap[x] = m.heap[x] BY ONLY <1>17, <1>26, <1>27
<1> QED BY ONLY <1>28 DEF Agrees

\* (reset nil)
LEMMA ResetNilHolds ==
  ASSUME IndInv, IndInv', ResetNil, mem'.process = "runs"
  PROVE  HoldValues
<1>1. Runs BY DEF ResetNil, Calls, Evaluating
<1>2. PICK R : Ready(mem, contents, results, frames, lost, value, R) BY <1>1, InvReady
<1>3. PICK before : before = GetCell(FreeCellBlocks(mem), "atom", nilCell) OBVIOUS
<1>4. PICK list : list = GetCell(before.mem, "list", before.cell) OBVIOUS
<1>5. PICK after : after = GetCell(list.mem, "atom", nilCell) OBVIOUS
<1>6. PICK m1 : m1 = [after.mem EXCEPT !.heap[before.cell].next = after.cell] OBVIOUS
<1>7. mem' = Cleaned(m1, results, Len(results)) /\ contents' = contents
  BY ONLY <1>3, <1>4, <1>5, <1>6, ResetNil DEF ResetNil, Push
<1>8. results \in Seq(Cells) /\ Tidy(mem, R) BY ONLY <1>2, ReadyFacts
<1>9. Cleaned(m1, results, Len(results)) = m1
  <2>1. PICK n : n = Len(results) OBVIOUS
  <2>2. Cleaned(m1, results, n) = m1 BY ONLY <1>8, <2>1, CleanedNone
  <2> QED BY ONLY <2>1, <2>2
<1>10. mem' = m1 BY ONLY <1>7, <1>9
<1>11. m1.process = "runs" BY ONLY <1>10, mem'.process = "runs"
<1>12. Agrees(mem.heap, m1.heap, {}) BY ONLY <1>3, <1>4, <1>5, <1>6, <1>8, <1>11, ResetAgrees
<1>13. Agrees(mem.heap, mem'.heap, {}) BY ONLY <1>10, <1>12
<1>14. Settled(mem.heap, contents, R) BY ONLY <1>2, ReadySettled
<1> QED BY ONLY <1>7, <1>13, <1>14, IndInv', mem'.process = "runs", HoldAgrees

\* Two symbols have two cells, but for nil and true.
LEMMA SymbolsApart ==
  ASSUME NEW ct, NEW rs, NEW fs, NEW ls, NEW R, Owns(Held(ct, rs, fs, ls), R),
         NEW s \in Syms, NEW t \in Syms, t # s, ct[s] \notin Permanent
  PROVE  ct[t] # ct[s]
<1>1. PICK H : H = Held(ct, rs, fs, ls) OBVIOUS
<1>2. PICK a, b : a = <<"symbol", s, ct[s]>> /\ b = <<"symbol", t, ct[t]>> OBVIOUS
<1>3. a \in H /\ b \in H BY ONLY <1>1, <1>2, s \in Syms, t \in Syms DEF Held
<1>4. a[3] = ct[s] /\ b[3] = ct[t] /\ a[2] = s /\ b[2] = t BY ONLY <1>2
<1>5. \A p, q \in H : p[3] = q[3] /\ p[3] \notin Permanent => p = q
  BY ONLY <1>1, Owns(Held(ct, rs, fs, ls), R) DEF Owns
<1> QED BY ONLY <1>3, <1>4, <1>5, t # s, ct[s] \notin Permanent

\* Cells of another root's tree are no cells of c.
LEMMA SparedTree ==
  ASSUME NEW h, NEW R, NEW c, NEW p \in R, p # c, NEW D, D \cap Alive(h) \subseteq Tree(h, p)
  PROVE  Spared(h, R, c, D)
BY DEF Spared
\* Nor are those of two such sets.
LEMMA SparedBoth ==
  ASSUME NEW h, NEW R, NEW c, NEW D, Spared(h, R, c, D), NEW E, Spared(h, R, c, E)
  PROVE  Spared(h, R, c, D \cup E)
BY DEF Spared

\* p_list changes cells of the list it builds, and the element's.
LEMMA ItemAgrees ==
  ASSUME NEW m, NEW ct, NEW rs, NEW fs, NEW ls, NEW v, NEW R, Ready(m, ct, rs, fs, ls, v, R),
         fs # <<>>, v # NULL, NEW f, f = Last(fs), f.fn = "list",
         NEW new, new = Taking(m, rs, v),
         NEW m2, m2 = Cleaned(Extend(new.mem, f.cell, f.last, new.cell), new.results, f.save),
         m2.process = "runs", NEW t \in Syms
  PROVE  \E D : Agrees(m.heap, m2.heap, D) /\ Spared(m.heap, R, ct[t], D)
<1>1. /\ ct \in [Syms -> Cells] /\ rs \in Seq(Cells) /\ fs \in Seq(Frames)
      /\ Tidy(m, R) /\ Owns(Held(ct, rs, fs, ls), R) /\ Shape(m.heap, R) /\ Ranked(m.heap)
      /\ Stacked(fs, Len(rs)) /\ Framed(fs, m.heap) /\ Valued(m.heap, rs, fs, v)
      /\ m.process = "runs" /\ R \subseteq Alive(m.heap) /\ Alive(m.heap) \subseteq Cells
      /\ Alive(m.heap) \cap Permanent = {} BY ReadyFacts
<1>2. PICK c, last, n, z, u, m1 : /\ c = f.cell /\ last = f.last /\ n = f.save /\ z = new.cell
                                  /\ u = new.results /\ m1 = new.mem OBVIOUS
<1>3. PICK l \in Nat : l = Len(fs) /\ l \in 1..l /\ fs[l] = f
  <2>1. PICK l \in Nat : l = Len(fs) /\ l > 0 /\ Last(fs) = fs[l] BY <1>1 DEF Last
  <2> QED BY <2>1
<1>4. l \in Building(fs) BY <1>3 DEF Building
<1>5. /\ Opened(m.heap, c, last) /\ c \in Alive(m.heap) /\ last \in Cells /\ n \in Nat
      /\ n <= Len(rs) /\ c \notin Permanent
  <2>1. f \in Frames BY <1>1, <1>3, SeqLen
  <2>2. Opened(m.heap, c, last) BY <1>1, <1>2, <1>3, <1>4 DEF Framed, Building
  <2>3. n <= Len(rs) BY <1>1, <1>2, <1>3 DEF Stacked
  <2> QED BY <1>2, <2>1, <2>2, <2>3 DEF Frames, Opened, Alive
<1>6. v \in Alive(m.heap) \cup Permanent /\ (IsLast(rs, v) => n < Len(rs))
  BY <1>1, <1>2 DEF Valued
<1>7. PICK R1 : Offered(m, ct, rs, fs, ls, R1, v, new)
  <2>1. Offers(m, ct, rs, fs, ls, v, new) BY <1>1, <1>6, TakingTidy
  <2> QED BY <2>1 DEF Offers
<1>8. /\ Owns(Held(ct, u, fs, ls), R1) /\ Keeps(m.heap, m1.heap, Alive(m.heap))
      /\ u \in Seq(Cells) /\ n <= Len(u)
  <2>1. /\ Owns(Held(ct, u, fs, ls), R1) /\ Keeps(m.heap, m1.heap, Alive(m.heap))
        /\ \/ u = rs
           \/ u = Front(rs) /\ IsLast(rs, v) BY <1>2, <1>7 DEF Offered
  <2>2. u \in Seq(Cells) /\ n <= Len(u) BY <1>1, <1>5, <1>6, <2>1, TakenLength
  <2> QED BY <2>1, <2>2
<1>9. c \in R1 /\ c \in R /\ Opened(m1.heap, c, last)
  <2>1. Holds(m.heap, m1.heap, Alive(m.heap)) BY <1>8, KeepsHolds
  <2> QED BY <1>1, <1>2, <1>3, <1>4, <1>5, <1>8, <2>1, FramesOwned DEF Opened, Holds
<1>10. z \in Cells BY <1>2, <1>7, Special DEF Offered
<1>11. PICK m3 : m3 = Extend(m1, c, last, z) OBVIOUS
<1>12. m2 = Cleaned(m3, u, n) BY <1>2, <1>11
<1>13. Stack(u, R1) BY ONLY <1>8, HeldStack
<1>14. m1.process = "runs" /\ z \in Cells \ (R1 \cup Permanent) /\ Tidy(m1, R1 \cup {z})
  <2>1. SUFFICES ASSUME m1.process = "exited" PROVE FALSE BY <1>1, <1>2, <1>7 DEF Offered
  <2>2. z = nilCell /\ \E A : Tidy(m1, R1 \cup A) BY <1>1, <1>2, <1>7, <2>1 DEF Offered
  <2>3. PICK A : Tidy(m1, R1 \cup A) BY <2>2
  <2>4. c \in Alive(m1.heap) BY <1>9 DEF Opened
  <2>5. Extend(m1, c, last, nilCell) = m1 BY <1>5, <1>9, <2>3, <2>4, ExtendNone
  <2>6. m3 = m1 BY <1>11, <2>2, <2>5
  <2>7. Stack(u, R1 \cup A) BY <1>13 DEF Stack
  <2>8. Rest(m3, R1 \cup A, u, n, m2) BY ONLY <1>5, <1>8, <1>12, <2>3, <2>6, <2>7, CleanedTidy
  <2> QED BY <2>1, <2>6, <2>8, m2.process = "runs" DEF Rest
<1>15. \E g : Relinked(m1, R1, g, m3, Alive(m1.heap) \ {c}) /\ Opened(g, c, z)
  <2>1. z \notin R1 BY ONLY <1>14
  <2>2. Extended(m1, R1, c, z, last, m3) BY ONLY <1>5, <1>9, <1>10, <1>11, <1>14, <2>1, ExtendTidy
  <2> QED BY ONLY <2>2 DEF Extended
<1>16. Tidy(m3, R1) BY ONLY <1>15 DEF Relinked
<1>17. Keeps(m3.heap, m2.heap, Alive(m2.heap))
  <2>1. Rest(m3, R1, u, n, m2) BY ONLY <1>5, <1>8, <1>12, <1>13, <1>16, CleanedTidy
  <2> QED BY ONLY <2>1 DEF Rest
<1>18. PICK D : D = {c, last} \cup {z} OBVIOUS
<1>19. \A x \in Cells \ D : m3.heap[x] = m1.heap[x]
  <2>1. Typed1(m1) BY <1>14, TidyTyped
  <2>2. c \in Cells /\ last \in Cells BY <1>1, <1>5
  <2>3. PICK h : h = m1.heap OBVIOUS
  <2>4. CASE last = nilCell
    <3>1. m3 = [m1 EXCEPT !.heap[c].contents = z] BY <1>11, <2>4 DEF Extend
    <3>2. Sets(m1, c, Cell(h[c].type, h[c].next, h[c].aux, z), m3)
      BY ONLY <1>10, <2>1, <2>2, <2>3, <3>1, WriteContentsOf
    <3>3. \A x \in Cells \ {c} : m3.heap[x] = m1.heap[x] BY ONLY <2>1, <2>2, <3>2, SetsFacts
    <3> QED BY ONLY <1>18, <3>3
  <2>5. CASE last # nilCell
    <3>1. m3 = [m1 EXCEPT !.heap[last].next = z] BY <1>11, <2>5 DEF Extend
    <3>2. z \in Cells \cup {NULL} BY ONLY <1>10
    <3>3. Sets(m1, last, Cell(h[last].type, z, h[last].aux, h[last].contents), m3)
      BY ONLY <2>1, <2>2, <2>3, <3>1, <3>2, WriteNextOf
    <3>4. \A x \in Cells \ {last} : m3.heap[x] = m1.heap[x] BY ONLY <2>1, <2>2, <3>3, SetsFacts
    <3> QED BY ONLY <1>18, <3>4
  <2> QED BY ONLY <2>4, <2>5
<1>20. Agrees(m1.heap, m3.heap, D) BY ONLY <1>19, AgreesWrite
<1>21. Agrees(m.heap, m3.heap, D) BY ONLY <1>8, <1>20, AgreesGrow
<1>22. Agrees(m.heap, m2.heap, D) BY ONLY <1>17, <1>21, AgreesShrink
<1>23. Spared(m.heap, R, ct[t], {z})
  <2>1. new.mem.process = "runs" BY ONLY <1>2, <1>14
  <2>2. TookAs(m, ct, R, v, new, t)
    BY ONLY Ready(m, ct, rs, fs, ls, v, R), v # NULL, new = Taking(m, rs, v), <2>1, t \in Syms,
         TookPrints
  <2> QED BY ONLY <1>2, <2>2 DEF TookAs
<1>24. c # ct[t]
  <2>1. \A k \in Building(fs) : ct[t] \notin Permanent => fs[k].cell # ct[t]
    BY ONLY <1>1, t \in Syms, SymbolOwned
  <2> QED BY ONLY <1>2, <1>3, <1>4, <1>5, <2>1
<1>25. Spared(m.heap, R, ct[t], {c, last})
  <2>1. c \in Tree(m.heap, c) BY ONLY <1>1, <1>5, TreeFacts
  <2>2. last \in Tree(m.heap, c) \/ last \notin Alive(m.heap)
    <3>1. CASE last = nilCell BY <3>1 DEF Alive, Permanent
    <3>2. CASE last # nilCell
      <4>1. last \in List(m.heap, Below(m.heap, c)) BY <1>5, <3>2 DEF Opened, EndOf
      <4>2. c \in Cells /\ c # nilCell /\ Treelike(m.heap) BY <1>1, <1>5, ShapeFacts DEF Permanent
      <4>3. Below(m.heap, c) \in Cells BY ONLY <1>1, <4>2, KidsType
      <4>4. last \in Tree(m.heap, Below(m.heap, c)) BY ONLY <1>1, <4>1, <4>3, ListInTree
      <4> QED BY ONLY <4>2, <4>4, TreeParts
    <3> QED BY <3>1, <3>2
  <2>3. {c, last} \cap Alive(m.heap) \subseteq Tree(m.heap, c) BY ONLY <2>1, <2>2
  <2> QED BY ONLY <1>9, <1>24, <2>3, SparedTree
<1>26. Spared(m.heap, R, ct[t], D) BY ONLY <1>18, <1>23, <1>25, SparedBoth
<1> QED BY ONLY <1>22, <1>26

\* An element of a list is evaluated.
LEMMA ListItemHolds ==
  ASSUME IndInv, IndInv', ListItem, mem'.process = "runs"
  PROVE  HoldValues
<1>1. Runs BY DEF ListItem, Waiting
<1>2. PICK R : Ready(mem, contents, results, frames, lost, value, R) BY <1>1, InvReady
<1>3. PICK f : f = Last(frames) OBVIOUS
<1>4. PICK new : new = Taking(mem, results, value) OBVIOUS
<1>5. CopyCell(mem, value) = new BY <1>4, CopyIsTaking
<1>6. /\ frames # <<>> /\ value # NULL /\ f.fn = "list"
      /\ mem' = Cleaned(Extend(new.mem, f.cell, f.last, new.cell), new.results, f.save)
      /\ contents' = contents BY ONLY <1>3, <1>5, ListItem DEF ListItem, Waiting, Top, Extend
<1>7. PICK m2 : m2 = mem' OBVIOUS
<1>8. /\ frames # <<>> /\ value # NULL /\ f.fn = "list" /\ m2.process = "runs"
      /\ m2 = Cleaned(Extend(new.mem, f.cell, f.last, new.cell), new.results, f.save)
  BY ONLY <1>6, <1>7, mem'.process = "runs"
<1>9. Settled(mem.heap, contents, R) BY ONLY <1>2, ReadySettled
<1> SUFFICES ASSUME NEW t \in Syms PROVE HoldsValue(t) BY DEF HoldValues
<1>10. \E D : Agrees(mem.heap, m2.heap, D) /\ Spared(mem.heap, R, contents[t], D)
  BY ONLY <1>2, <1>3, <1>4, <1>8, t \in Syms, ItemAgrees
<1>11. PICK D : Agrees(mem.heap, mem'.heap, D) /\ Spared(mem.heap, R, contents[t], D)
  BY ONLY <1>7, <1>10
<1>12. contents'[t] = contents[t] BY ONLY <1>6
<1> QED BY ONLY <1>9, <1>11, <1>12, IndInv', mem'.process = "runs", t \in Syms, HoldApart

(* Steps that give a symbol another cell. *)
\* A function that is no longer there has ended.
LEMMA LeftOf ==
  ASSUME NEW l \in Nat, NEW k \in 1..l, DOMAIN frames = 1..l, frames' = SubSeq(frames, 1, k - 1),
         NEW fn, frames[k].fn = fn, NEW s, frames[k].sym = s
  PROVE  Left(fn, s)
<1>1. PICK n : n = k - 1 /\ n \in Nat /\ k > n OBVIOUS
<1>2. frames' = SubSeq(frames, 1, n) BY ONLY <1>1, frames' = SubSeq(frames, 1, k - 1)
<1>3. DOMAIN frames' = 1..n
  <2>1. n >= 1 - 1 BY ONLY <1>1
  <2>2. SubSeq(frames, 1, n) = [i \in 1..n |-> frames[1 + i - 1]] BY ONLY <1>1
  <2> QED BY ONLY <1>1, <1>2, <2>2
<1>4. k \in DOMAIN frames \ DOMAIN frames' BY ONLY <1>1, <1>3, k \in 1..l, DOMAIN frames = 1..l
<1> QED BY ONLY <1>4, frames[k].fn = fn, frames[k].sym = s DEF Left

\* The innermost function ends.
LEMMA LeftLast ==
  ASSUME frames \in Seq(Frames), frames # <<>>, frames' = Front(frames),
         NEW f, f = Last(frames), NEW fn, f.fn = fn, NEW s, f.sym = s
  PROVE  Left(fn, s)
<1>1. PICK l \in Nat : l = Len(frames) OBVIOUS
<1>2. DOMAIN frames = 1..l /\ l \in 1..l /\ frames[l] = f BY <1>1 DEF Last
<1>3. frames' = SubSeq(frames, 1, l - 1) BY <1>1 DEF Front
<1> QED BY ONLY <1>1, <1>2, <1>3, f.fn = fn, f.sym = s, LeftOf

\* What is deleted when symbol s gets another cell does not change what stays.
LEMMA GivenKeeps ==
  ASSUME NEW ct \in [Syms -> Cells], NEW u \in Seq(Cells), NEW fs, NEW ls, NEW R1,
         Owns(Held(ct, u, fs, ls), R1), NEW m, NEW Q, R1 \subseteq Q, Tidy(m, Q),
         NEW s \in Syms, NEW n \in Nat, n <= Len(u),
         NEW m2, m2 = Cleaned(DeleteList(m, ct[s]), u, n)
  PROVE  Keeps(m.heap, m2.heap, Alive(m2.heap)) /\ m2.process = m.process
<1>1. PICK c, m0 : c = ct[s] /\ m0 = DeleteList(m, c) OBVIOUS
<1>2. c \in R1 \cup Permanent BY <1>1, SymbolOwned
<1>3. c \in Q \cup Permanent BY ONLY <1>2, R1 \subseteq Q
<1>4. /\ Tidy(m0, Q \ {c}) /\ m0.process = m.process
      /\ Keeps(m.heap, m0.heap, Alive(m0.heap)) BY ONLY <1>1, <1>3, Tidy(m, Q), DeleteTidy
<1>5. PICK ct0 : ct0 = [ct EXCEPT ![s] = nilCell] OBVIOUS
<1>6. PICK R0 : R0 = ((R1 \ {ct[s]}) \cup {nilCell}) \ Permanent OBVIOUS
<1>7. nilCell \notin R1
  <2>1. R1 \cap Permanent = {} BY DEF Owns
  <2> QED BY <2>1 DEF Permanent
<1>8. Owns(Held(ct0, u, fs, ls), R0)
  BY ONLY <1>5, <1>6, <1>7, s \in Syms, ct \in [Syms -> Cells], Owns(Held(ct, u, fs, ls), R1),
       OwnsSymbol
<1>9. Stack(u, R0) BY ONLY <1>8, u \in Seq(Cells), HeldStack
<1>10. PICK P : P = Q \ {c} OBVIOUS
<1>11. R0 \subseteq P BY <1>1, <1>6, <1>10 DEF Permanent
<1>12. Stack(u, P) BY ONLY <1>9, <1>11 DEF Stack
<1>13. Tidy(m0, P) /\ m2 = Cleaned(m0, u, n) BY <1>1, <1>4, <1>10
<1>14. Rest(m0, P, u, n, m2) BY ONLY <1>12, <1>13, n \in Nat, n <= Len(u), CleanedTidy
<1>15. Keeps(m0.heap, m2.heap, Alive(m2.heap)) /\ m2.process = m0.process BY ONLY <1>14 DEF Rest
<1>16. \A x \in Alive(m2.heap) : x \in Alive(m0.heap) BY ONLY <1>15 DEF Keeps
<1>17. Keeps(m.heap, m2.heap, Alive(m2.heap))
  <2>1. Alive(m2.heap) \subseteq Alive(m0.heap) /\ Alive(m2.heap) \subseteq Alive(m2.heap)
    BY ONLY <1>16
  <2> QED BY ONLY <1>4, <1>15, <2>1, KeepsTwice
<1> QED BY ONLY <1>4, <1>15, <1>17

\* Nor does what is deleted when no symbol does.
LEMMA FreedKeeps ==
  ASSUME NEW ct \in [Syms -> Cells], NEW u \in Seq(Cells), NEW fs, NEW ls, NEW R1,
         Owns(Held(ct, u, fs, ls), R1), NEW m, NEW Q, R1 \subseteq Q, Tidy(m, Q),
         NEW n \in Nat, n <= Len(u), NEW m2, m2 = Cleaned(m, u, n)
  PROVE  Keeps(m.heap, m2.heap, Alive(m2.heap)) /\ m2.process = m.process
<1>1. Stack(u, R1) BY HeldStack
<1>2. Stack(u, Q) BY ONLY <1>1, R1 \subseteq Q DEF Stack
<1>3. Rest(m, Q, u, n, m2)
  BY ONLY <1>2, Tidy(m, Q), n \in Nat, n <= Len(u), m2 = Cleaned(m, u, n), CleanedTidy
<1> QED BY ONLY <1>3 DEF Rest

\* The cell a symbol gets prints what it printed when it was made; the others print as before.
Gave(s, g, z) ==
  /\ Prints(mem'.heap, contents'[s]) = Prints(g, z)
  /\ \A t \in Syms : t # s => HoldsValue(t)
\* A step in which symbol s gets cell z, made in heap g, and the cells in D, none of
\* another symbol, may be others.
LEMMA GivenPrints ==
  ASSUME IndInv', mem'.process = "runs", NEW R, Settled(mem.heap, contents, R),
         contents \in [Syms -> Cells], NEW g, NEW Q, Shape(g, Q),
         Keeps(g, mem'.heap, Alive(mem'.heap)),
         NEW s \in Syms, NEW z, contents' = [contents EXCEPT ![s] = z], NEW D, Agrees(mem.heap, g, D),
         \A t \in Syms : t # s => Spared(mem.heap, R, contents[t], D)
  PROVE  Gave(s, g, z)
<1>1. PICK P : Settled(mem'.heap, contents', P)
  BY ONLY IndInv', mem'.process = "runs", NextSettled
<1>2. contents'[s] = z /\ \A t \in Syms : t # s => contents'[t] = contents[t]
  BY ONLY s \in Syms, contents \in [Syms -> Cells], contents' = [contents EXCEPT ![s] = z]
<1>3. Prints(mem'.heap, contents'[s]) = Prints(g, z)
  <2>1. Shape(mem'.heap, P) /\ z \in P \cup Permanent BY ONLY <1>1, <1>2, s \in Syms DEF Settled
  <2>2. PICK h : h = mem'.heap OBVIOUS
  <2>3. Shape(h, P) /\ Keeps(g, h, Alive(h))
    BY ONLY <2>1, <2>2, Keeps(g, mem'.heap, Alive(mem'.heap))
  <2>4. P \subseteq Alive(h) BY ONLY <2>3, ShapeFacts
  <2>5. z \in Alive(h) \cup Permanent BY ONLY <2>1, <2>4
  <2>6. Prints(h, z) = Prints(g, z) BY ONLY <2>3, <2>5, Shape(g, Q), ShrinkPrints
  <2> QED BY ONLY <1>2, <2>2, <2>6
<1>4. Agrees(mem.heap, mem'.heap, D)
  BY ONLY Agrees(mem.heap, g, D), Keeps(g, mem'.heap, Alive(mem'.heap)), AgreesShrink
<1>5. ASSUME NEW t \in Syms, t # s PROVE HoldsValue(t)
  <2>1. contents'[t] = contents[t] BY ONLY <1>2, <1>5
  <2>2. Spared(mem.heap, R, contents[t], D)
    BY ONLY <1>5, \A u \in Syms : u # s => Spared(mem.heap, R, contents[u], D)
  <2> QED BY ONLY <1>4, <2>1, <2>2, t \in Syms, IndInv', mem'.process = "runs",
                  Settled(mem.heap, contents, R), HoldApart
<1> QED BY ONLY <1>3, <1>5 DEF Gave

\* A value is taken and given to symbol s, of the function fn that ends.
LEMMA GivenHolds ==
  ASSUME IndInv', mem'.process = "runs", NEW R,
         Ready(mem, contents, results, frames, lost, value, R), frames # <<>>, value # NULL,
         NEW new, new = Taking(mem, results, value), NEW s \in Syms, NEW fn, Left(fn, s),
         fn = "set" \/ (fn = "catch" /\ ~Fails), NEW n \in Nat, n <= Last(frames).save \/ n <= Len(new.results),
         mem' = Cleaned(DeleteList(new.mem, contents[s]), new.results, n),
         contents' = [contents EXCEPT ![s] = new.cell]
  PROVE  HoldValues
<1>1. contents \in [Syms -> Cells]
  BY ONLY Ready(mem, contents, results, frames, lost, value, R), ReadyFacts
<1>2. PICK m, ct, rs, fs, ls, v, f : /\ m = mem /\ ct = contents /\ rs = results /\ fs = frames
                                     /\ ls = lost /\ v = value /\ f = Last(frames) OBVIOUS
<1>3. PICK m1, z, u, m2, ct2 : /\ m1 = new.mem /\ z = new.cell /\ u = new.results /\ m2 = mem'
                               /\ ct2 = contents' OBVIOUS
<1>4. /\ Ready(m, ct, rs, fs, ls, v, R) /\ fs # <<>> /\ v # NULL /\ f = Last(fs)
      /\ new = Taking(m, rs, v)
  BY ONLY <1>2, Ready(mem, contents, results, frames, lost, value, R), frames # <<>>, value # NULL,
     new = Taking(mem, results, value)
<1>5. PICK R1 : Took(m, ct, rs, fs, ls, f, R1, new)
  <2>1. Takes(m, ct, rs, fs, ls, f, new) BY ONLY <1>4, TookValue
  <2> QED BY ONLY <2>1 DEF Takes
<1>6. /\ Owns(Held(ct, u, fs, ls), R1) /\ u \in Seq(Cells) /\ f.save \in Nat /\ f.save <= Len(u)
      /\ Keeps(m.heap, m1.heap, Alive(m.heap))
      /\ \/ m1.process = "exited"
         \/ m1.process = "runs" /\ Tidy(m1, R1 \cup {z})
      /\ \E A : Tidy(m1, R1 \cup A) BY ONLY <1>3, <1>5 DEF Took
<1>7. n <= Len(u)
  <2>1. n <= f.save \/ n <= Len(u)
    BY ONLY <1>2, <1>3, n <= Last(frames).save \/ n <= Len(new.results)
  <2>2. Len(u) \in Nat BY ONLY <1>6
  <2> QED BY ONLY <1>6, <2>1, <2>2, n \in Nat
<1>8. PICK Q : Tidy(m1, Q) /\ R1 \subseteq Q BY ONLY <1>6
<1>9. m2 = Cleaned(DeleteList(m1, ct[s]), u, n)
  BY ONLY <1>2, <1>3, mem' = Cleaned(DeleteList(new.mem, contents[s]), new.results, n)
<1>10. ct \in [Syms -> Cells] BY ONLY <1>1, <1>2
<1>11. Keeps(m1.heap, m2.heap, Alive(m2.heap)) /\ m2.process = m1.process
  BY ONLY <1>6, <1>7, <1>8, <1>9, <1>10, n \in Nat, s \in Syms, GivenKeeps
<1>12. new.mem.process = "runs" BY ONLY <1>3, <1>11, mem'.process = "runs"
<1>13. TookAs(m, ct, R, v, new, s) BY ONLY <1>4, <1>12, s \in Syms, TookPrints
<1>14. Prints(m1.heap, z) = Prints(m.heap, v) BY ONLY <1>3, <1>13 DEF TookAs
<1>15. Shape(m1.heap, Q) BY ONLY <1>8 DEF Tidy, Owned
<1>16. Settled(mem.heap, contents, R)
  BY ONLY Ready(mem, contents, results, frames, lost, value, R), ReadySettled
<1>17. PICK g : g = m1.heap OBVIOUS
<1>18. Gave(s, g, z)
  <2>1. Keeps(mem.heap, g, Alive(mem.heap)) BY ONLY <1>2, <1>6, <1>17
  <2>2. Keeps(g, mem'.heap, Alive(mem'.heap)) BY ONLY <1>3, <1>11, <1>17
  <2>3. Shape(g, Q) /\ contents' = [contents EXCEPT ![s] = z]
    BY ONLY <1>3, <1>15, <1>17, contents' = [contents EXCEPT ![s] = new.cell]
  <2>4. PICK D : D = {} OBVIOUS
  <2>5. Agrees(mem.heap, g, D) BY ONLY <2>1, <2>4, KeepsAgrees
  <2>6. \A t \in Syms : t # s => Spared(mem.heap, R, contents[t], D) BY ONLY <2>4, SparedNone
  <2> QED BY ONLY <1>1, <1>16, <2>2, <2>3, <2>5, <2>6, s \in Syms, IndInv', mem'.process = "runs",
       GivenPrints
<1>19. HoldsValue(s)
  <2>1. Prints(mem'.heap, contents'[s]) = Prints(mem.heap, value)
    BY ONLY <1>2, <1>14, <1>17, <1>18 DEF Gave
  <2>2. Gives(s, fn, Prints(mem.heap, value), Prints(mem.heap, contents[s]), Prints(mem'.heap, contents'[s]))
    BY ONLY <2>1, fn = "set" \/ (fn = "catch" /\ ~Fails) DEF Gives
  <2> QED BY ONLY <2>2, Left(fn, s), value # NULL, HoldGiven
<1> QED BY ONLY <1>18, <1>19 DEF Gave, HoldValues

\* set
LEMMA SetHolds ==
  ASSUME IndInv, IndInv', Set, mem'.process = "runs"
  PROVE  HoldValues
<1>1. Waiting("set") BY DEF Set
<1>2. /\ Runs /\ value # NULL /\ frames # <<>> /\ Last(frames).fn = "set"
  BY ONLY <1>1, WaitingFacts
<1>3. PICK R : Ready(mem, contents, results, frames, lost, value, R) BY ONLY <1>2, IndInv, InvReady
<1>4. PICK f, s : f = Last(frames) /\ s = f.sym OBVIOUS
<1>5. PICK new : new = Taking(mem, results, value) OBVIOUS
<1>6. CopyCell(mem, value) = new BY <1>5, CopyIsTaking
<1>7. /\ mem' = DeleteList(new.mem, contents[s]) /\ contents' = [contents EXCEPT ![s] = new.cell]
      /\ frames' = Front(frames) BY ONLY <1>4, <1>6, Set DEF Set, Refer, Top, Pop
<1>8. frames \in Seq(Frames) /\ Framed(frames, mem.heap) BY ONLY <1>3, ReadyFacts
<1>9. s \in Syms
  <2>1. Last(frames).fn \in {"set", "push", "append"} BY ONLY <1>2
  <2>2. Last(frames).sym \in Syms BY ONLY <1>2, <1>8, <2>1, TopSymbol
  <2> QED BY ONLY <1>4, <2>2
<1>10. Left("set", s)
  <2>1. PICK fn : fn = "set" OBVIOUS
  <2>2. f.fn = fn /\ f.sym = s BY ONLY <1>2, <1>4, <2>1
  <2>3. Left(fn, s) BY ONLY <1>2, <1>4, <1>7, <1>8, <2>2, LeftLast
  <2> QED BY ONLY <2>1, <2>3
<1>11. new.results \in Seq(Cells)
  <2>1. Takes(mem, contents, results, frames, lost, f, new)
    BY ONLY <1>2, <1>3, <1>4, <1>5, TookValue
  <2> QED BY ONLY <2>1 DEF Takes, Took
<1>12. PICK n \in Nat : n = Len(new.results) /\ n <= Len(new.results) BY ONLY <1>11
<1>13. PICK u, m0 : u = new.results /\ m0 = DeleteList(new.mem, contents[s]) OBVIOUS
<1>14. Cleaned(m0, u, n) = m0 BY ONLY <1>11, <1>12, <1>13, CleanedNone
<1>15. mem' = Cleaned(DeleteList(new.mem, contents[s]), new.results, n) BY ONLY <1>7, <1>13, <1>14
<1>16. PICK fn : fn = "set" OBVIOUS
<1>17. Left(fn, s) /\ (fn = "set" \/ (fn = "catch" /\ ~Fails)) BY ONLY <1>10, <1>16
<1> QED BY ONLY <1>2, <1>3, <1>5, <1>7, <1>9, <1>12, <1>15, <1>17, IndInv', mem'.process = "runs",
     GivenHolds

\* No evaluation fails while catch or throw waits with its value.
LEMMA NotFails ==
  ASSUME value # NULL, frames # <<>>, Last(frames).fn \in {"catch", "throw"}
  PROVE  ~Fails
<1>1. ~Evaluating BY DEF Evaluating
<1>2. ~Waiting("first")
  <2>1. Last(frames).fn # "first" OBVIOUS
  <2> QED BY ONLY <2>1 DEF Waiting, Top
<1>3. Last(frames).fn \notin {"push", "append"} OBVIOUS
<1> QED BY ONLY <1>1, <1>2, <1>3 DEF Fails, Top

\* catch ends with the value that was taken.
LEMMA StoredHolds ==
  ASSUME IndInv', mem'.process = "runs", NEW R,
         Ready(mem, contents, results, frames, lost, value, R), frames # <<>>, value # NULL,
         Last(frames).fn \in {"catch", "throw"},
         NEW new, new = Taking(mem, results, value), NEW c, c.save \in Nat,
         c.save <= Last(frames).save, c.sym \in Syms \cup {""}, Left("catch", c.sym),
         Stores(c, new.mem, contents, new.results, new.cell, mem', results', value', contents')
  PROVE  HoldValues
<1>1. PICK n, s : n = c.save /\ s = c.sym OBVIOUS
<1>2. n \in Nat /\ n <= Last(frames).save BY ONLY <1>1, c.save \in Nat, c.save <= Last(frames).save
<1>3. CASE s # ""
  <2>1. s \in Syms BY ONLY <1>1, <1>3, c.sym \in Syms \cup {""}
  <2>2. /\ mem' = Cleaned(DeleteList(new.mem, contents[s]), new.results, n)
        /\ contents' = [contents EXCEPT ![s] = new.cell] BY ONLY <1>1, <1>3,
       Stores(c, new.mem, contents, new.results, new.cell, mem', results', value', contents')
       DEF Stores
  <2>3. PICK fn : fn = "catch" OBVIOUS
  <2>4. ~Fails BY ONLY value # NULL, frames # <<>>, Last(frames).fn \in {"catch", "throw"}, NotFails
  <2>5. Left(fn, s) /\ (fn = "set" \/ (fn = "catch" /\ ~Fails))
    BY ONLY <1>1, <2>3, <2>4, Left("catch", c.sym)
  <2> QED BY ONLY <1>2, <2>1, <2>2, <2>5, IndInv', mem'.process = "runs", frames # <<>>,
       value # NULL,
                  Ready(mem, contents, results, frames, lost, value, R),
                  new = Taking(mem, results, value), GivenHolds
<1>4. CASE s = ""
  <2>1. mem' = Cleaned(new.mem, new.results, n) /\ contents' = contents BY ONLY <1>1, <1>4,
       Stores(c, new.mem, contents, new.results, new.cell, mem', results', value', contents')
       DEF Stores
  <2>2. PICK m, ct, rs, fs, ls, v, f : /\ m = mem /\ ct = contents /\ rs = results /\ fs = frames
                                       /\ ls = lost /\ v = value /\ f = Last(frames) OBVIOUS
  <2>3. PICK m1, u, m2 : m1 = new.mem /\ u = new.results /\ m2 = mem' OBVIOUS
  <2>4. /\ Ready(m, ct, rs, fs, ls, v, R) /\ fs # <<>> /\ v # NULL /\ f = Last(fs)
        /\ new = Taking(m, rs, v)
    BY ONLY <2>2, Ready(mem, contents, results, frames, lost, value, R), frames # <<>>,
       value # NULL, new = Taking(mem, results, value)
  <2>5. PICK R1 : Took(m, ct, rs, fs, ls, f, R1, new)
    <3>1. Takes(m, ct, rs, fs, ls, f, new) BY ONLY <2>4, TookValue
    <3> QED BY ONLY <3>1 DEF Takes
  <2>6. /\ Owns(Held(ct, u, fs, ls), R1) /\ u \in Seq(Cells) /\ f.save \in Nat /\ f.save <= Len(u)
        /\ Keeps(m.heap, m1.heap, Alive(m.heap)) /\ \E A : Tidy(m1, R1 \cup A)
    BY ONLY <2>3, <2>5 DEF Took
  <2>7. n <= Len(u)
    <3>1. n <= f.save /\ Len(u) \in Nat BY ONLY <1>2, <2>2, <2>6
    <3> QED BY ONLY <1>2, <2>6, <3>1
  <2>8. PICK Q : Tidy(m1, Q) /\ R1 \subseteq Q BY ONLY <2>6
  <2>9. m2 = Cleaned(m1, u, n) /\ ct \in [Syms -> Cells]
    <3>1. ct \in [Syms -> Cells] BY ONLY <2>4, ReadyFacts
    <3> QED BY ONLY <2>1, <2>3, <3>1
  <2>10. Keeps(m1.heap, m2.heap, Alive(m2.heap)) BY ONLY <1>2, <2>6, <2>7, <2>8, <2>9, FreedKeeps
  <2>11. Agrees(m.heap, m1.heap, {}) BY ONLY <2>6, KeepsAgrees
  <2>12. Agrees(m.heap, m2.heap, {}) BY ONLY <2>10, <2>11, AgreesShrink
  <2>13. Agrees(mem.heap, mem'.heap, {}) BY ONLY <2>2, <2>3, <2>12
  <2>14. Settled(mem.heap, contents, R)
    BY ONLY Ready(mem, contents, results, frames, lost, value, R), ReadySettled
  <2> QED BY ONLY <2>1, <2>13, <2>14, IndInv', mem'.process = "runs", HoldAgrees
<1> QED BY ONLY <1>3, <1>4

\* catch ends without a throw.
LEMMA CatchEndsHolds ==
  ASSUME IndInv, IndInv', CatchEnds, mem'.process = "runs"
  PROVE  HoldValues
<1>1. Runs BY DEF CatchEnds, Waiting
<1>2. PICK R : Ready(mem, contents, results, frames, lost, value, R) BY <1>1, InvReady
<1>3. PICK f : f = Last(frames) OBVIOUS
<1>4. PICK new : new = Taking(mem, results, value) OBVIOUS
<1>5. CopyCell(mem, value) = new BY <1>4, CopyIsTaking
<1>6. /\ frames # <<>> /\ value # NULL /\ f.fn = "catch"
      /\ Store(f, new.mem, new.results, new.cell) /\ frames' = Front(frames)
  BY ONLY <1>3, <1>5, CatchEnds DEF CatchEnds, Waiting, Top, Pop
<1>7. Stores(f, new.mem, contents, new.results, new.cell, mem', results', value', contents')
  BY ONLY <1>6, StoreIsStores
<1>8. frames \in Seq(Frames) BY ONLY <1>2, ReadyFacts
<1>9. f.save \in Nat /\ f.save <= f.save /\ f.sym \in Syms \cup {""}
  <2>1. PICK l \in Nat : l = Len(frames) /\ l \in 1..l /\ f = frames[l] BY <1>3, <1>6, <1>8 DEF Last
  <2>2. f \in Frames BY ONLY <1>8, <2>1, SeqLen
  <2>3. f.save \in Nat /\ f.sym \in Syms \cup {""} BY ONLY <2>2 DEF Frames
  <2>4. PICK n \in Nat : n = f.save BY ONLY <2>3
  <2>5. n <= n OBVIOUS
  <2> QED BY ONLY <2>3, <2>4, <2>5
<1>10. Left("catch", f.sym)
  <2>1. PICK fn, s : fn = "catch" /\ s = f.sym OBVIOUS
  <2>2. f.fn = fn /\ f.sym = s BY ONLY <1>6, <2>1
  <2>3. Left(fn, s) BY ONLY <1>3, <1>6, <1>8, <2>2, LeftLast
  <2> QED BY ONLY <2>1, <2>3
<1>11. Last(frames).fn \in {"catch", "throw"} /\ f.save <= Last(frames).save
  BY ONLY <1>3, <1>6, <1>9
<1> QED BY ONLY <1>2, <1>4, <1>6, <1>7, <1>9, <1>10, <1>11, IndInv', mem'.process = "runs",
     StoredHolds

\* The innermost catch.
Caught(b, k) ==
  /\ k \in 1..Len(frames) /\ DOMAIN frames = 1..Len(frames) /\ Len(frames) \in Nat
  /\ frames[k].fn = "catch" /\ (b => frames[k].sym # "") /\ frames[k].sym \in Syms \cup {""}
  /\ frames[k].save \in Nat /\ frames[k].save <= Len(results)
  /\ frames # <<>> /\ frames[k].save <= Last(frames).save
\* It is one of the functions that wait.
LEMMA CaughtFacts ==
  ASSUME NEW R, Ready(mem, contents, results, frames, lost, value, R), NEW b \in BOOLEAN,
         CatchesIn(frames, b) # {}, NEW k, k = Max(CatchesIn(frames, b))
  PROVE  Caught(b, k)
<1>1. frames \in Seq(Frames) /\ Stacked(frames, Len(results)) BY ReadyFacts
<1>2. k \in 1..Len(frames) /\ frames[k].fn = "catch" /\ (b => frames[k].sym # "")
  BY ONLY <1>1, b \in BOOLEAN, CatchesIn(frames, b) # {}, k = Max(CatchesIn(frames, b)), Innermost
<1>3. frames[k] \in Frames BY ONLY <1>1, <1>2, SeqLen
<1>4. frames[k].save \in Nat /\ frames[k].sym \in Syms \cup {""} BY ONLY <1>3 DEF Frames
<1>5. PICK l \in Nat : l = Len(frames) /\ DOMAIN frames = 1..l /\ l \in 1..l /\ Last(frames) = frames[l]
  <2>1. PICK l \in Nat : l = Len(frames) BY ONLY <1>1
  <2>2. DOMAIN frames = 1..l BY ONLY <1>1, <2>1
  <2>3. k \in 1..l BY ONLY <1>2, <2>1
  <2>4. l \in 1..l BY ONLY <2>1, <2>3
  <2> QED BY ONLY <2>1, <2>2, <2>4 DEF Last
<1>6. k <= l
  <2>1. k \in 1..l
    <3>1. l = Len(frames) BY ONLY <1>5
    <3> QED BY ONLY <1>2, <3>1
  <2> QED BY ONLY <2>1
<1>7. frames[k].save <= Len(results) /\ frames[k].save <= frames[l].save
  BY ONLY <1>1, <1>2, <1>5, <1>6 DEF Stacked
<1>8. frames # <<>> BY ONLY <1>5
<1> QED BY ONLY <1>2, <1>4, <1>5, <1>7, <1>8 DEF Caught

\* throw
LEMMA ThrowHolds ==
  ASSUME IndInv, IndInv', Throw, mem'.process = "runs"
  PROVE  HoldValues
<1>1. Runs BY DEF Throw, Waiting
<1>2. PICK R : Ready(mem, contents, results, frames, lost, value, R) BY <1>1, InvReady
<1>3. PICK new : new = Taking(mem, results, value) OBVIOUS
<1>4. CopyCell(mem, value) = new BY <1>3, CopyIsTaking
<1>5. PICK b : b = FALSE /\ b \in BOOLEAN OBVIOUS
<1>6. PICK k : k = Max(CatchesIn(frames, b)) OBVIOUS
<1>7. k = Max(Catches(FALSE)) BY ONLY <1>5, <1>6 DEF Catches, CatchesIn
<1>8. /\ frames # <<>> /\ value # NULL /\ Last(frames).fn = "throw"
      /\ Store(frames[k], new.mem, new.results, new.cell) /\ frames' = SubSeq(frames, 1, k - 1)
  BY ONLY <1>4, <1>7, Throw DEF Throw, Waiting, Top, Jump
<1>9. PICK c : c = frames[k] OBVIOUS
<1>10. Stores(c, new.mem, contents, new.results, new.cell, mem', results', value', contents')
  BY ONLY <1>8, <1>9, StoreIsStores
<1>11. CatchesIn(frames, b) # {}
  <2>1. frames \in Seq(Frames) /\ Framed(frames, mem.heap) BY ONLY <1>2, ReadyFacts
  <2>2. Len(frames) \in 1..Len(frames) /\ Last(frames) = frames[Len(frames)]
        /\ DOMAIN frames = 1..Len(frames) /\ Len(frames) \in Nat BY ONLY <1>8, <2>1 DEF Last
  <2>3. PICK j \in 1..Len(frames) - 1 : frames[j].fn = "catch" BY ONLY <1>8, <2>1, <2>2 DEF Framed
  <2>4. j \in DOMAIN frames BY ONLY <2>2, <2>3
  <2> QED BY ONLY <1>5, <2>3, <2>4 DEF CatchesIn
<1>12. Caught(b, k) BY ONLY <1>2, <1>5, <1>6, <1>11, CaughtFacts
<1>13. /\ c.save \in Nat /\ c.save <= Last(frames).save /\ c.sym \in Syms \cup {""}
  BY ONLY <1>9, <1>12 DEF Caught
<1>14. Left("catch", c.sym)
  <2>1. PICK l \in Nat : l = Len(frames) /\ DOMAIN frames = 1..l /\ k \in 1..l /\ frames[k].fn = "catch"
    BY ONLY <1>12 DEF Caught
  <2>2. PICK fn, s : fn = "catch" /\ s = c.sym OBVIOUS
  <2>3. frames[k].fn = fn /\ frames[k].sym = s BY ONLY <1>9, <2>1, <2>2
  <2>4. Left(fn, s) BY ONLY <1>8, <2>1, <2>3, LeftOf
  <2> QED BY ONLY <2>2, <2>4
<1>15. Last(frames).fn \in {"catch", "throw"} BY ONLY <1>8
<1> QED BY ONLY <1>2, <1>3, <1>8, <1>10, <1>13, <1>14, <1>15, IndInv', mem'.process = "runs",
     StoredHolds

\* An error is caught.
LEMMA ErrorCaughtHolds ==
  ASSUME IndInv, IndInv', ErrorCaught, mem'.process = "runs"
  PROVE  HoldValues
<1>1. Runs /\ Fails BY FailsRuns DEF ErrorCaught
<1>2. PICK R : Ready(mem, contents, results, frames, lost, value, R) BY <1>1, InvReady
<1>3. PICK b : b = TRUE /\ b \in BOOLEAN OBVIOUS
<1>4. PICK k : k = Max(CatchesIn(frames, b)) OBVIOUS
<1>5. k = Max(Catches(TRUE)) BY ONLY <1>3, <1>4 DEF Catches, CatchesIn
<1>6. CatchesIn(frames, b) # {} BY ONLY <1>3, ErrorCaught DEF ErrorCaught, Catches, CatchesIn
<1>7. PICK s, n, p : s = frames[k].sym /\ n = frames[k].save /\ p = contents[s] OBVIOUS
<1>8. PICK d, text : d = DeleteList(mem, p) /\ text = GetCell(d, "atom", nilCell) OBVIOUS
<1>9. /\ mem' = Cleaned(text.mem, results, n)
      /\ contents' = [contents EXCEPT ![s] = text.cell] /\ frames' = SubSeq(frames, 1, k - 1)
  BY ONLY <1>5, <1>7, <1>8, ErrorCaught DEF ErrorCaught, Push, Jump
<1>10. Caught(b, k) BY ONLY <1>2, <1>3, <1>4, <1>6, CaughtFacts
<1>11. s \in Syms /\ n \in Nat /\ n <= Len(results) BY ONLY <1>3, <1>7, <1>10 DEF Caught
<1>12. Left("catch", s)
  <2>1. PICK l \in Nat : l = Len(frames) /\ DOMAIN frames = 1..l /\ k \in 1..l /\ frames[k].fn = "catch"
    BY ONLY <1>10 DEF Caught
  <2>2. PICK fn : fn = "catch" OBVIOUS
  <2>3. frames[k].fn = fn /\ frames[k].sym = s BY ONLY <1>7, <2>1, <2>2
  <2>4. Left(fn, s) BY ONLY <1>9, <2>1, <2>3, LeftOf
  <2> QED BY ONLY <2>2, <2>4
<1>13. PICK m, ct, rs, fs, ls : m = mem /\ ct = contents /\ rs = results /\ fs = frames /\ ls = lost
  OBVIOUS
<1>14. /\ ct \in [Syms -> Cells] /\ rs \in Seq(Cells) /\ Tidy(m, R)
       /\ Owns(Held(ct, rs, fs, ls), R) /\ R \cap Permanent = {}
  <2>1. /\ ct \in [Syms -> Cells] /\ rs \in Seq(Cells) /\ Tidy(m, R)
        /\ Owns(Held(ct, rs, fs, ls), R) BY ONLY <1>2, <1>13, ReadyFacts
  <2> QED BY ONLY <2>1 DEF Owns
<1>15. PICK R0, ct0 : R0 = R \ {p} /\ ct0 = [ct EXCEPT ![s] = nilCell] OBVIOUS
<1>16. p \in R \cup Permanent
  <2>1. ct[s] \in R \cup Permanent BY ONLY <1>11, <1>14, SymbolOwned
  <2> QED BY ONLY <1>7, <1>13, <2>1
<1>17. /\ Tidy(d, R0) /\ d.process = m.process /\ Keeps(m.heap, d.heap, Alive(d.heap))
       /\ \A x \in Alive(m.heap) : p \in Permanent \/ x \notin Tree(m.heap, p) => x \in Alive(d.heap)
  <2>1. d = DeleteList(m, p) BY ONLY <1>8, <1>13
  <2>2. /\ Tidy(DeleteList(m, p), R \ {p}) /\ DeleteList(m, p).process = m.process
        /\ Keeps(m.heap, DeleteList(m, p).heap, Alive(DeleteList(m, p).heap))
        /\ \A x \in Alive(m.heap) : p \in Permanent \/ x \notin Tree(m.heap, p)
                                     => x \in Alive(DeleteList(m, p).heap)
    BY ONLY <1>14, <1>16, DeleteTidy
  <2> QED BY ONLY <1>15, <2>1, <2>2
<1>18. Owns(Held(ct0, rs, fs, ls), R0) /\ ct0 \in [Syms -> Cells]
  <2>1. PICK O : O = ((R \ {ct[s]}) \cup {nilCell}) \ Permanent OBVIOUS
  <2>2. nilCell \notin R BY ONLY <1>14 DEF Permanent
  <2>3. Owns(Held(ct0, rs, fs, ls), O) BY ONLY <1>11, <1>14, <1>15, <2>1, <2>2, OwnsSymbol
  <2>4. O = R0 BY ONLY <1>7, <1>13, <1>14, <1>15, <2>1 DEF Permanent
  <2>5. nilCell \in Cells BY ONLY Special
  <2> QED BY ONLY <1>14, <1>15, <2>3, <2>4, <2>5
<1>19. PICK t, c : t = "atom" /\ c = nilCell OBVIOUS
<1>20. Got(d, R0, t, c, text)
  <2>1. t \in {"atom", "list"} /\ c \in R0 \cup {nilCell} /\ (t = "atom" => c = nilCell) /\ text = GetCell(d, t, c)
    BY ONLY <1>8, <1>19
  <2> QED BY ONLY <1>17, <2>1, GetTidy
<1>21. PICK m1, z, m2 : m1 = text.mem /\ z = text.cell /\ m2 = mem' OBVIOUS
<1>22. /\ Keeps(d.heap, m1.heap, Alive(d.heap))
       /\ \/ m1.process = "exited" /\ Tidy(m1, R0)
          \/ /\ m1.process = d.process /\ z \in Cells
             /\ Tidy(m1, (R0 \ {c}) \cup {z}) /\ m1.heap[z] = Cell(t, nilCell, nilCell, c)
  BY ONLY <1>20, <1>21 DEF Got
<1>23. PICK Q : Tidy(m1, Q) /\ R0 \subseteq Q
  <2>1. R0 \ {c} = R0 BY ONLY <1>14, <1>15, <1>19 DEF Permanent
  <2>2. CASE Tidy(m1, R0) BY ONLY <2>2
  <2>3. CASE Tidy(m1, (R0 \ {c}) \cup {z})
    <3>1. R0 \subseteq (R0 \ {c}) \cup {z} BY ONLY <2>1
    <3> QED BY ONLY <2>3, <3>1
  <2> QED BY ONLY <1>22, <2>2, <2>3
<1>24. Keeps(m1.heap, m2.heap, Alive(m2.heap)) /\ m2.process = m1.process
  <2>1. m2 = Cleaned(m1, rs, n) BY ONLY <1>9, <1>13, <1>21
  <2>2. n \in Nat /\ n <= Len(rs) BY ONLY <1>11, <1>13
  <2> QED BY ONLY <1>14, <1>18, <1>23, <2>1, <2>2, FreedKeeps
<1>25. z \in Cells /\ m1.heap[z] = Cell(t, nilCell, nilCell, c)
  <2>1. m1.process # "exited" BY ONLY <1>21, <1>24, mem'.process = "runs"
  <2> QED BY ONLY <1>22, <2>1
<1>26. PICK g : g = m1.heap /\ Shape(g, Q)
  <2>1. Shape(m1.heap, Q) BY ONLY <1>23 DEF Tidy, Owned
  <2> QED BY ONLY <2>1
<1>27. Prints(g, z) = <<"atom", <<>>>>
  <2>1. g \in Heaps /\ Ranked(g)
    <3>1. Shape(g, Q) BY ONLY <1>26
    <3> QED BY ONLY <3>1, ShapeFacts
  <2>2. g[z].type = "atom" BY ONLY <1>19, <1>25, <1>26 DEF Cell
  <2>3. Below(g, z) = nilCell BY ONLY <2>2 DEF Below
  <2>4. Prints(g, z) = <<g[z].type, <<>>>> BY ONLY <1>25, <2>1, <2>3, NonePrints
  <2> QED BY ONLY <2>2, <2>4
<1>28. Gave(s, g, z)
  <2>1. PICK D : D = IF p \in Permanent THEN {} ELSE Tree(m.heap, p) OBVIOUS
  <2>2. Agrees(m.heap, g, D)
    <3>1. ASSUME NEW x \in Alive(m.heap), x \notin D PROVE g[x] = m.heap[x]
      <4>1. p \in Permanent \/ x \notin Tree(m.heap, p) BY ONLY <2>1, <3>1
      <4>2. x \in Alive(d.heap) BY ONLY <1>17, <3>1, <4>1
      <4>3. d.heap[x] = m.heap[x] BY ONLY <1>17, <4>2 DEF Keeps
      <4>4. g[x] = d.heap[x] BY ONLY <1>22, <1>26, <4>2 DEF Keeps
      <4> QED BY ONLY <4>3, <4>4
    <3>2. PICK h : h = m.heap OBVIOUS
    <3>3. \A x \in Alive(h) \cap Alive(g) : x \notin D => g[x] = h[x] BY ONLY <3>1, <3>2
    <3>4. Agrees(h, g, D) BY ONLY <3>3 DEF Agrees
    <3> QED BY ONLY <3>2, <3>4
  <2>3. ASSUME NEW y \in Syms, y # s PROVE Spared(m.heap, R, ct[y], D)
    <3>1. CASE p \in Permanent
      <4>1. D = {} BY ONLY <2>1, <3>1
      <4> QED BY ONLY <4>1, SparedNone
    <3>2. CASE p \notin Permanent
      <4>1. ct[s] \notin Permanent BY ONLY <1>7, <1>13, <3>2
      <4>2. ct[y] # ct[s] BY ONLY <1>11, <1>14, <2>3, <4>1, SymbolsApart
      <4>3. p # ct[y] /\ p \in R BY ONLY <1>7, <1>13, <1>16, <3>2, <4>2
      <4>4. D \cap Alive(m.heap) \subseteq Tree(m.heap, p) BY ONLY <2>1, <3>2
      <4> QED BY ONLY <4>3, <4>4, SparedTree
    <3> QED BY ONLY <3>1, <3>2
  <2>4. Agrees(mem.heap, g, D) /\ \A y \in Syms : y # s => Spared(mem.heap, R, contents[y], D)
    BY ONLY <1>13, <2>2, <2>3
  <2>5. Keeps(g, mem'.heap, Alive(mem'.heap)) BY ONLY <1>21, <1>24, <1>26
  <2>6. contents \in [Syms -> Cells] /\ contents' = [contents EXCEPT ![s] = z]
    BY ONLY <1>9, <1>13, <1>14, <1>21
  <2>7. Settled(mem.heap, contents, R) BY ONLY <1>2, ReadySettled
  <2> QED BY ONLY <1>11, <1>26, <2>4, <2>5, <2>6, <2>7, IndInv', mem'.process = "runs", GivenPrints
<1>29. HoldsValue(s)
  <2>1. Prints(mem'.heap, contents'[s]) = <<"atom", <<>>>> BY ONLY <1>27, <1>28 DEF Gave
  <2> QED BY ONLY <1>1, <1>12, <2>1, HoldText
<1> QED BY ONLY <1>28, <1>29 DEF Gave, HoldValues

\* A step of pop: the list p of symbol s loses the element z, and z is the result.
LEMMA PoppedHolds ==
  ASSUME IndInv', mem'.process = "runs", NEW R,
         Ready(mem, contents, results, frames, lost, value, R), NEW s \in Syms, NEW p,
         p = contents[s], mem.heap[p].type = "list", contents' = contents, frames' = frames,
         NEW m1, NEW z, NEW n, n = Len(results), mem' = Cleaned(m1, results, n),
         results' = Append(SubSeq(results, 1, n), z), NEW D,
         \A x \in Cells \ D : m1.heap[x] = mem.heap[x],
         D \cap Alive(mem.heap) \subseteq Tree(mem.heap, p),
         Loses(Prints(mem.heap, p), Prints(m1.heap, p), Prints(m1.heap, z))
  PROVE  HoldValues
<1>1. /\ results \in Seq(Cells) /\ Owns(Held(contents, results, frames, lost), R)
      /\ Alive(mem.heap) \cap Permanent = {}
  BY ONLY Ready(mem, contents, results, frames, lost, value, R), ReadyFacts
<1>2. mem' = m1
  <2>1. Cleaned(m1, results, n) = m1 BY ONLY <1>1, n = Len(results), CleanedNone
  <2> QED BY ONLY <2>1, mem' = Cleaned(m1, results, n)
<1>3. Last(results') = z
  <2>1. PICK l \in Nat : l = n BY ONLY <1>1, n = Len(results)
  <2>2. PICK rs2 : rs2 = SubSeq(results, 1, l) OBVIOUS
  <2>3. rs2 = results BY ONLY <1>1, <2>1, <2>2, n = Len(results)
  <2>4. results' = Append(results, z)
    BY ONLY <2>1, <2>2, <2>3, results' = Append(SubSeq(results, 1, n), z)
  <2>5. PICK u : u = Append(results, z) OBVIOUS
  <2>6. Len(u) = l + 1 /\ u[l + 1] = z BY ONLY <1>1, <2>1, <2>5, n = Len(results)
  <2>7. u[Len(u)] = z BY ONLY <2>6
  <2> QED BY ONLY <2>4, <2>5, <2>7 DEF Last
<1>4. p \in R /\ p \in Alive(mem.heap)
  <2>1. mem.heap[contents[s]].type = "list" BY ONLY p = contents[s], mem.heap[p].type = "list"
  <2>2. contents[s] \in R /\ contents[s] \in Alive(mem.heap)
    BY ONLY <2>1, s \in Syms, Ready(mem, contents, results, frames, lost, value, R), SymbolAlive
  <2> QED BY ONLY <2>2, p = contents[s]
<1>5. HoldsValue(s)
  <2>1. contents'[s] = p BY ONLY p = contents[s], contents' = contents
  <2>2. Loses(Prints(mem.heap, contents[s]), Prints(mem'.heap, contents'[s]), Prints(mem'.heap, Last(results')))
    BY ONLY <1>2, <1>3, <2>1, p = contents[s],
            Loses(Prints(mem.heap, p), Prints(m1.heap, p), Prints(m1.heap, z))
  <2> QED BY ONLY <2>2, frames' = frames, HoldPop
<1>6. ASSUME NEW t \in Syms, t # s PROVE HoldsValue(t)
  <2>1. contents[s] \notin Permanent BY ONLY <1>1, <1>4, p = contents[s]
  <2>2. contents[t] # contents[s] BY ONLY <1>1, <1>6, <2>1, s \in Syms, SymbolsApart
  <2>3. p # contents[t] BY ONLY <2>2, p = contents[s]
  <2>4. Spared(mem.heap, R, contents[t], D)
    BY ONLY <1>4, <2>3, D \cap Alive(mem.heap) \subseteq Tree(mem.heap, p), SparedTree
  <2>5. Agrees(mem.heap, m1.heap, D)
    BY ONLY \A x \in Cells \ D : m1.heap[x] = mem.heap[x], AgreesWrite
  <2>6. Agrees(mem.heap, mem'.heap, D) /\ contents'[t] = contents[t]
    BY ONLY <1>2, <2>5, contents' = contents
  <2>7. Settled(mem.heap, contents, R)
    BY ONLY Ready(mem, contents, results, frames, lost, value, R), ReadySettled
  <2> QED BY ONLY <2>4, <2>6, <2>7, t \in Syms, IndInv', mem'.process = "runs", HoldApart
<1> QED BY ONLY <1>5, <1>6 DEF HoldValues

\* The first element of p is taken out, if there is one.
UnlinkedFirst(m, R, p, z, m1) ==
  IF z = nilCell THEN m1 = m
  ELSE \E a, g : /\ Unlinked(m.heap, p, z, a, g) /\ z = m.heap[p].contents
                 /\ Unhung(m, R, z, p, g, m1)
\* What pop does to the memory.
LEMMA UnlinkFirst ==
  ASSUME NEW m, NEW ct, NEW rs, NEW fs, NEW ls, NEW v, NEW R, Ready(m, ct, rs, fs, ls, v, R),
         NEW s \in Syms, NEW p, p = ct[s], NEW h, h = m.heap, h[p].type = "list",
         NEW z, z = h[p].contents, NEW rest, rest = h[z].next, NEW m1,
         m1 = FirstPopped(m, p, z, rest)
  PROVE  UnlinkedFirst(m, R, p, z, m1)
<1>1. /\ Tidy(m, R) /\ h \in Heaps /\ h \in [Cells -> CellRecords]
      /\ Shape(h, R) /\ Lasts(h) /\ Ranked(h) /\ R \subseteq Alive(h) BY ReadyFacts
<1>2. p \in R /\ p \in Alive(h) /\ p \in Cells BY SymbolAlive
<1>3. z = Below(h, p) /\ z \in (Alive(h) \ R) \cup {nilCell} /\ z \in Cells
  <2>1. z = Below(h, p) BY <1>1, <1>2, Fields
  <2> QED BY <1>1, <1>2, <2>1, ShapeFacts, Special
<1>4. rest \in Cells /\ rest = After(h, z) /\ p # z
  <2>1. h[z].type \in {"nil", "true", "atom", "list"} \/ z \in Alive(h) BY <1>1, <1>3 DEF Shape
  <2>2. rest = After(h, z) BY <1>1, <1>3, <2>1, Fields
  <2>3. p # nilCell
    <3>1. h[nilCell].type = "nil" BY <1>1 DEF Shape
    <3> QED BY <3>1
  <2> QED BY <1>1, <1>2, <1>3, <2>2, <2>3, KidsType
<1>5. Typed1(m) BY <1>1, TidyTyped
<1>6. PICK a : a = IF rest = nilCell THEN nilCell ELSE h[p].aux OBVIOUS
<1>7. Changed(m, p, Cell(h[p].type, h[p].next, a, rest),
              z, Cell(h[z].type, nilCell, h[z].aux, h[z].contents), m1)
  <2>1. z \in Cells BY <1>3
  <2>2. m1 = [m EXCEPT !.heap[p].contents = rest,
                       !.heap[p].aux = IF rest = nilCell THEN nilCell ELSE @,
                       !.heap[z].next = nilCell] BY DEF FirstPopped
  <2>3. p \in Cells /\ rest \in Cells /\ p # z BY <1>2, <1>4
  <2> QED BY ONLY <1>5, h = m.heap, <1>6, <2>1, <2>2, <2>3, WritePopFirst
<1>8. PICK g \in [Cells -> CellRecords] :
        /\ g[p] = Cell(h[p].type, h[p].next, a, rest)
        /\ g[z] = Cell(h[z].type, nilCell, h[z].aux, h[z].contents)
        /\ \A x \in Cells \ {z, p} : g[x] = h[x]
        /\ m1 = [m EXCEPT !.heap = g] BY <1>7 DEF Changed
<1>9. CASE z = nilCell
  <2>1. rest = nilCell BY <1>1, <1>4, <1>9, ShapeFacts
  <2>2. h[p].aux = nilCell
    <3>1. SUFFICES ASSUME h[p].aux # nilCell PROVE FALSE OBVIOUS
    <3>2. EndOf(h, p, h[p].aux) BY <1>1, <1>2, <3>1 DEF Lasts
    <3>3. List(h, nilCell) = {} BY DEF List
    <3> QED BY <1>3, <1>9, <3>2, <3>3 DEF EndOf
  <2>3. g[p] = h[p]
    <3>1. h[p] = Cell(h[p].type, h[p].next, h[p].aux, h[p].contents) BY <1>1, <1>2, CellIs
    <3> QED BY <1>6, <1>8, <1>9, <2>1, <2>2, <3>1
  <2>4. g[z] = h[z]
    <3>1. h[z] = Cell(h[z].type, h[z].next, h[z].aux, h[z].contents) BY <1>1, <1>3, CellIs
    <3>2. g[z] = Cell(h[z].type, nilCell, h[z].aux, h[z].contents) BY <1>8
    <3>3. h[z].next = nilCell BY <2>1
    <3> QED BY ONLY <3>1, <3>2, <3>3
  <2>5. \A x \in Cells : g[x] = h[x] BY <1>8, <2>3, <2>4
  <2>6. g = h
    <3>1. h \in [Cells -> CellRecords] BY <1>1
    <3> QED BY ONLY <2>5, <3>1, g \in [Cells -> CellRecords]
  <2>7. m1 = m
    <3>1. PICK fr, bs, pr : m = [heap |-> h, free |-> fr, blocks |-> bs, process |-> pr]
      BY <1>5 DEF Typed1
    <3>2. m1 = [m EXCEPT !.heap = h] BY <1>8, <2>6
    <3> QED BY ONLY <3>1, <3>2
  <2> QED BY ONLY <1>9, <2>7 DEF UnlinkedFirst
<1>10. CASE z # nilCell
  <2>1. a = nilCell \/ (a = h[p].aux /\ h[z].next # nilCell) BY <1>6
  <2>2. g[p] = Cell("list", h[p].next, a, h[z].next) BY <1>8
  <2>3. Unhung(m, R, z, p, g, m1)
    <3>1. Tidy(m, R) /\ p \in Alive(h) BY <1>1, <1>2
    <3>2. \A x \in Cells \ {z, p} : g[x] = h[x] BY <1>8
    <3>3. g[z] = Cell(h[z].type, nilCell, h[z].aux, h[z].contents) BY <1>8
    <3>4. m1 = [m EXCEPT !.heap = g] BY <1>8
    <3> QED BY ONLY <1>10, <2>1, <2>2, <3>1, <3>2, <3>3, <3>4, h = m.heap, h[p].type = "list",
                    z = h[p].contents, g \in [Cells -> CellRecords], TakeFirstTidy
  <2>4. Unlinked(m.heap, p, z, a, g)
    <3>1. g[p] = Cell("list", m.heap[p].next, a, m.heap[z].next) BY ONLY <2>2, h = m.heap
    <3>2. g[z] = Cell(m.heap[z].type, nilCell, m.heap[z].aux, m.heap[z].contents)
      BY ONLY <1>8, h = m.heap
    <3>3. \A x \in Cells \ {z, p} : g[x] = m.heap[x] BY ONLY <1>8, h = m.heap
    <3> QED BY ONLY <3>1, <3>2, <3>3, g \in [Cells -> CellRecords] DEF Unlinked
  <2>5. z = m.heap[p].contents BY ONLY h = m.heap, z = h[p].contents
  <2> QED BY ONLY <1>10, <2>3, <2>4, <2>5 DEF UnlinkedFirst
<1> QED BY ONLY <1>9, <1>10

\* The last element of p is taken out.
UnlinkedLast(m, R, p, z, m1) ==
  \/ UnlinkedFirst(m, R, p, z, m1) /\ z # nilCell /\ After(m.heap, z) = nilCell
  \/ \E q, g : Shortened(m.heap, p, q, z, g) /\ Unhung(m, R, z, p, g, m1)
\* What pop from the end does to the memory.
LEMMA UnlinkLast ==
  ASSUME NEW m, NEW ct, NEW rs, NEW fs, NEW ls, NEW v, NEW R, Ready(m, ct, rs, fs, ls, v, R),
         NEW s \in Syms, NEW p, p = ct[s], NEW h, h = m.heap, h[p].type = "list",
         NEW items, items = Chain(h, h[p].contents), items # <<>>, NEW x, x = Last(items),
         NEW m1, m1 = LastPopped(m, p, items)
  PROVE  UnlinkedLast(m, R, p, x, m1)
<1>1. /\ Tidy(m, R) /\ h \in Heaps /\ h \in [Cells -> CellRecords]
      /\ Shape(h, R) /\ Lasts(h) /\ Ranked(h) /\ R \subseteq Alive(h) BY ReadyFacts
<1>2. p \in R /\ p \in Alive(h) /\ p \in Cells BY SymbolAlive
<1>3. PICK b : b = h[p].contents /\ b = Below(h, p) /\ b \in Cells
  <2>1. h[p].contents = Below(h, p) BY <1>1, <1>2, Fields
  <2> QED BY <1>1, <1>2, <2>1, KidsType
<1>4. PICK k : k = Len(items) OBVIOUS
<1>5. Ending(h, b, items, k, x) BY <1>1, <1>3, <1>4, EndingFacts
<1>6. /\ k \in Nat \ {0} /\ x = items[k] /\ x \in Cells /\ x # nilCell
      /\ After(h, x) = nilCell /\ (k = 1 => x = b)
      /\ k > 1 => /\ items[k - 1] \in Cells /\ items[k - 1] \in List(h, b)
                  /\ After(h, items[k - 1]) = x BY <1>5 DEF Ending
<1>7. Typed1(m) BY <1>1, TidyTyped
<1>8. CASE k = 1
  <2>1. x = b /\ h[x].next = nilCell
    <3>1. x \in Alive(h) BY <1>1, <1>2, <1>3, <1>6, <1>8, ShapeFacts
    <3> QED BY <1>1, <1>6, <1>8, <3>1, Fields
  <2>2. PICK c : c = Cell("list", h[p].next, nilCell, nilCell) OBVIOUS
  <2>3. c \in CellRecords
    <3>1. h[p] \in CellRecords BY <1>1, <1>2
    <3>2. h[p].next \in Cells \cup {NULL} BY ONLY <3>1 DEF CellRecords
    <3> QED BY <2>2, <3>2, Special DEF CellRecords, Cell, Types
  <2>4. PICK g : g = [h EXCEPT ![p] = c] OBVIOUS
  <2>5. m1 = [m EXCEPT !.heap[p] = Cell("list", @.next, nilCell, nilCell)]
    BY <1>4, <1>8 DEF LastPopped
  <2>6. m1 = [m EXCEPT !.heap = g]
    <3>1. PICK fr, bs, pr : m = [heap |-> h, free |-> fr, blocks |-> bs, process |-> pr]
      BY <1>7 DEF Typed1
    <3>2. m1 = [m EXCEPT !.heap[p] = c] BY ONLY <2>2, <2>5, h = m.heap
    <3> QED BY ONLY <2>4, <3>1, <3>2
  <2>7. /\ g \in [Cells -> CellRecords] /\ g[p] = c /\ \A y \in Cells \ {p} : g[y] = h[y]
    BY ONLY <1>1, <1>2, <2>3, <2>4
  <2>8. g[x] = Cell(h[x].type, nilCell, h[x].aux, h[x].contents)
    <3>1. h[x] = Cell(h[x].type, h[x].next, h[x].aux, h[x].contents) BY <1>1, <1>6, CellIs
    <3>2. x # p BY <1>1, <1>2, <1>3, <1>6, <2>1, ShapeFacts
    <3> QED BY <1>6, <2>1, <2>7, <3>1, <3>2
  <2>9. PICK a : a = nilCell OBVIOUS
  <2>10. Unhung(m, R, x, p, g, m1)
    <3>1. Tidy(m, R) /\ p \in Alive(h) /\ x # nilCell BY <1>1, <1>2, <1>6
    <3>2. \A y \in Cells \ {x, p} : g[y] = h[y] BY <2>7
    <3>3. x = h[p].contents BY <1>3, <2>1
    <3>4. a = nilCell \/ (a = h[p].aux /\ h[x].next # nilCell) BY <2>9
    <3>5. g[p] = Cell("list", h[p].next, a, h[x].next) BY <2>1, <2>2, <2>7, <2>9
    <3>6. g \in [Cells -> CellRecords] BY <2>7
    <3> QED BY ONLY <2>6, <2>8, <3>1, <3>2, <3>3, <3>4, <3>5, <3>6, h = m.heap,
                    h[p].type = "list", TakeFirstTidy
  <2>11. Unlinked(m.heap, p, x, a, g)
    <3>1. g[p] = Cell("list", m.heap[p].next, a, m.heap[x].next)
      BY ONLY <2>1, <2>2, <2>7, <2>9, h = m.heap
    <3>2. g[x] = Cell(m.heap[x].type, nilCell, m.heap[x].aux, m.heap[x].contents)
      BY ONLY <2>8, h = m.heap
    <3>3. \A y \in Cells \ {x, p} : g[y] = m.heap[y] BY ONLY <2>7, h = m.heap
    <3> QED BY ONLY <2>7, <3>1, <3>2, <3>3 DEF Unlinked
  <2>12. x = m.heap[p].contents BY ONLY <1>3, <2>1, h = m.heap
  <2>13. UnlinkedFirst(m, R, p, x, m1) BY ONLY <1>6, <2>10, <2>11, <2>12 DEF UnlinkedFirst
  <2> QED BY ONLY <1>6, <2>13, h = m.heap DEF UnlinkedLast
<1>9. CASE k # 1
  <2>1. PICK q : q = items[k - 1] OBVIOUS
  <2>2. q \in Cells /\ q \in List(h, b) /\ After(h, q) = x
    <3>0. k \in Nat \ {0} BY <1>6
    <3>1. k > 1 BY ONLY <1>9, <3>0
    <3> QED BY <1>6, <2>1, <3>1
  <2>3. m1 = [m EXCEPT !.heap[q].next = nilCell, !.heap[p].aux = q]
    BY <1>4, <1>9, <2>1 DEF LastPopped
  <2>4. p # q BY <1>1, <1>2, <1>3, <2>2, ListAlive
  <2>5. Changed(m, q, Cell(h[q].type, nilCell, h[q].aux, h[q].contents),
                   p, Cell(h[p].type, h[p].next, q, h[p].contents), m1)
    <3>1. p \in Cells /\ q \in Cells BY <1>2, <2>2
    <3> QED BY ONLY <1>7, <2>3, <2>4, <3>1, h = m.heap, WritePopLast
  <2>6. PICK g \in [Cells -> CellRecords] :
          /\ g[q] = Cell(h[q].type, nilCell, h[q].aux, h[q].contents)
          /\ g[p] = Cell(h[p].type, h[p].next, q, h[p].contents)
          /\ \A y \in Cells \ {p, q} : g[y] = h[y]
          /\ m1 = [m EXCEPT !.heap = g] BY ONLY <2>5, h = m.heap DEF Changed
  <2>7. EndOf(h, p, x)
    <3>1. b # nilCell
      <4>1. List(h, nilCell) = {} BY DEF List
      <4> QED BY <2>2, <4>1
    <3>2. EndOf(h, p, Last(Chain(h, b))) BY <1>1, <1>2, <1>3, <3>1, LastIsEnd
    <3> QED BY <1>3, <3>2
  <2>8. Unhung(m, R, x, p, g, m1)
    <3>1. Tidy(m, R) /\ p \in Alive(h) /\ x \in Cells BY <1>1, <1>2, <1>6
    <3>2. q \in Cells /\ q \in List(h, Below(h, p)) /\ After(h, q) = x BY <1>3, <2>2
    <3>3. \A y \in Cells \ {p, q} : g[y] = h[y] BY <2>6
    <3>4. g[q] = Cell(h[q].type, nilCell, h[q].aux, h[q].contents) BY <2>6
    <3>5. g[p] = Cell("list", h[p].next, q, h[p].contents) BY <2>6
    <3>6. m1 = [m EXCEPT !.heap = g] BY <2>6
    <3> QED BY ONLY <2>7, <3>1, <3>2, <3>3, <3>4, <3>5, <3>6, h = m.heap, h[p].type = "list",
                    g \in [Cells -> CellRecords], TakeLastTidy
  <2>9. Shortened(m.heap, p, q, x, g)
    <3>1. q \in List(h, Below(h, p)) BY ONLY <1>3, <2>2
    <3> QED BY ONLY <1>6, <2>2, <2>6, <3>1, h = m.heap, h[p].type = "list",
         g \in [Cells -> CellRecords] DEF Shortened
  <2> QED BY ONLY <2>8, <2>9 DEF UnlinkedLast
<1> QED BY ONLY <1>8, <1>9

\* In g the list p has lost its element z, and only its cells have changed.
LostItem(h, p, z, g) ==
  \E D : /\ \A x \in Cells \ D : g[x] = h[x]
         /\ D \cap Alive(h) \subseteq Tree(h, p)
         /\ Loses(Prints(h, p), Prints(g, p), Prints(g, z))
\* Cells of p's list are in its tree.
LEMMA ListCells ==
  ASSUME NEW h, NEW R, Shape(h, R), NEW p \in Alive(h), NEW y \in List(h, Below(h, p))
  PROVE  {y, p} \subseteq Tree(h, p)
<1>1. PICK b : b = Below(h, p) OBVIOUS
<1>2. List(h, b) \subseteq Tree(h, b) /\ Tree(h, b) \subseteq Tree(h, p) /\ p \in Tree(h, p)
  BY ONLY <1>1, Shape(h, R), p \in Alive(h), ListBelow
<1> QED BY ONLY <1>1, <1>2, y \in List(h, Below(h, p))

\* The first element is lost.
LEMMA FirstLost ==
  ASSUME NEW m, NEW R, Shape(m.heap, R), NEW p \in Alive(m.heap), m.heap[p].type = "list",
         NEW z, z # nilCell, NEW m1, UnlinkedFirst(m, R, p, z, m1)
  PROVE  LostItem(m.heap, p, z, m1.heap)
<1>1. PICK a, g : Unlinked(m.heap, p, z, a, g) /\ z = m.heap[p].contents /\ Unhung(m, R, z, p, g, m1)
  BY ONLY z # nilCell, UnlinkedFirst(m, R, p, z, m1) DEF UnlinkedFirst
<1>2. PICK h : h = m.heap OBVIOUS
<1>3. Unlinked(h, p, z, a, g) /\ z = h[p].contents /\ Shape(h, R) /\ p \in Alive(h) /\ h[p].type = "list"
  BY ONLY <1>1, <1>2, Shape(m.heap, R), p \in Alive(m.heap), m.heap[p].type = "list"
<1>4. PICK Q : Tidy(m1, Q) /\ m1.heap = g BY ONLY <1>1 DEF Unhung, Relinked
<1>5. Shape(g, Q) BY ONLY <1>4 DEF Tidy, Owned
<1>6. Loses(Prints(h, p), Prints(g, p), Prints(g, z))
  BY ONLY <1>3, <1>5, z # nilCell, UnlinkedPrints
<1>7. z \in List(h, Below(h, p))
  <2>1. h \in Heaps /\ Ranked(h) /\ Alive(h) \subseteq Cells BY ONLY <1>3, ShapeFacts
  <2>2. Below(h, p) = z /\ z \in Cells
    <3>1. p \in Cells BY ONLY <1>3, <2>1
    <3>2. h[p].contents \in Cells BY ONLY <2>1, <3>1, Fields
    <3> QED BY ONLY <1>3, <3>2 DEF Below
  <2>3. List(h, z) = {z} \cup List(h, After(h, z)) BY ONLY <2>1, <2>2, z # nilCell, ListStep
  <2> QED BY ONLY <2>2, <2>3
<1>8. {z, p} \subseteq Tree(h, p) BY ONLY <1>3, <1>7, ListCells
<1>9. \A x \in Cells \ {z, p} : g[x] = h[x] BY ONLY <1>3 DEF Unlinked
<1> QED BY ONLY <1>2, <1>4, <1>6, <1>8, <1>9 DEF LostItem

\* The last element is lost.
LEMMA LastLost ==
  ASSUME NEW m, NEW R, Shape(m.heap, R), NEW p \in Alive(m.heap), m.heap[p].type = "list",
         NEW z, NEW m1, UnlinkedLast(m, R, p, z, m1)
  PROVE  LostItem(m.heap, p, z, m1.heap)
<1>1. CASE UnlinkedFirst(m, R, p, z, m1) /\ z # nilCell
  BY ONLY <1>1, Shape(m.heap, R), p \in Alive(m.heap), m.heap[p].type = "list", FirstLost
<1>2. ASSUME NEW q, NEW g, Shortened(m.heap, p, q, z, g), Unhung(m, R, z, p, g, m1)
      PROVE  LostItem(m.heap, p, z, m1.heap)
  <2>1. PICK h : h = m.heap OBVIOUS
  <2>2. Shortened(h, p, q, z, g) /\ Shape(h, R) /\ p \in Alive(h) /\ h[p].type = "list"
    BY ONLY <1>2, <2>1, Shape(m.heap, R), p \in Alive(m.heap), m.heap[p].type = "list"
  <2>3. PICK Q : Tidy(m1, Q) /\ m1.heap = g BY ONLY <1>2 DEF Unhung, Relinked
  <2>4. Shape(g, Q) BY ONLY <2>3 DEF Tidy, Owned
  <2>5. Loses(Prints(h, p), Prints(g, p), Prints(g, z)) BY ONLY <2>2, <2>4, ShortenedPrints
  <2>6. q \in List(h, Below(h, p)) /\ \A x \in Cells \ {p, q} : g[x] = h[x]
    BY ONLY <2>2 DEF Shortened
  <2>7. {q, p} \subseteq Tree(h, p) BY ONLY <2>2, <2>6, ListCells
  <2> QED BY ONLY <2>1, <2>3, <2>5, <2>6, <2>7 DEF LostItem
<1> QED BY ONLY <1>1, <1>2, UnlinkedLast(m, R, p, z, m1) DEF UnlinkedLast

\* A step of pop that takes an element.
LEMMA LostHolds ==
  ASSUME IndInv', mem'.process = "runs", NEW R,
         Ready(mem, contents, results, frames, lost, value, R), NEW s \in Syms, NEW p,
         p = contents[s], mem.heap[p].type = "list", contents' = contents, frames' = frames,
         NEW m1, NEW z, NEW n, n = Len(results), mem' = Cleaned(m1, results, n),
         results' = Append(SubSeq(results, 1, n), z), LostItem(mem.heap, p, z, m1.heap)
  PROVE  HoldValues
<1>1. PICK D : /\ \A x \in Cells \ D : m1.heap[x] = mem.heap[x]
               /\ D \cap Alive(mem.heap) \subseteq Tree(mem.heap, p)
               /\ Loses(Prints(mem.heap, p), Prints(m1.heap, p), Prints(m1.heap, z))
  BY ONLY LostItem(mem.heap, p, z, m1.heap) DEF LostItem
<1> QED BY ONLY <1>1, IndInv', mem'.process = "runs", s \in Syms, p = contents[s],
                Ready(mem, contents, results, frames, lost, value, R), mem.heap[p].type = "list",
                contents' = contents, frames' = frames, n = Len(results),
                mem' = Cleaned(m1, results, n), results' = Append(SubSeq(results, 1, n), z), PoppedHolds

\* (pop s)
LEMMA PopFirstHolds ==
  ASSUME NEW s \in Syms, IndInv, IndInv', PopFirst(s), mem'.process = "runs"
  PROVE  HoldValues
<1>1. Runs BY DEF PopFirst, Calls, Evaluating
<1>2. PICK R : Ready(mem, contents, results, frames, lost, value, R) BY <1>1, InvReady
<1>3. PICK p, h : p = contents[s] /\ h = mem.heap OBVIOUS
<1>4. PICK z : z = h[p].contents OBVIOUS
<1>5. PICK rest : rest = h[z].next OBVIOUS
<1>6. PICK m1 : m1 = FirstPopped(mem, p, z, rest) OBVIOUS
<1>7. PICK n : n = Len(results) OBVIOUS
<1>8. /\ h[p].type = "list" /\ mem' = Cleaned(m1, results, n)
      /\ results' = Append(SubSeq(results, 1, n), z)
      /\ UNCHANGED <<contents, frames>> BY ONLY <1>3, <1>4, <1>5, <1>6, <1>7, PopFirst(s)
     DEF PopFirst, Push, Calls, FirstPopped
<1>9. UnlinkedFirst(mem, R, p, z, m1)
  BY ONLY <1>2, <1>3, <1>4, <1>5, <1>6, <1>8, s \in Syms, UnlinkFirst
<1>10. CASE z = nilCell
  <2>1. m1 = mem BY ONLY <1>9, <1>10 DEF UnlinkedFirst
  <2>2. results \in Seq(Cells) BY ONLY <1>2, ReadyFacts
  <2>3. Cleaned(mem, results, n) = mem BY ONLY <1>7, <2>2, CleanedNone
  <2>4. UNCHANGED <<mem, contents>> BY ONLY <1>8, <2>1, <2>3
  <2> QED BY ONLY <2>4, HoldQuiet
<1>11. CASE z # nilCell
  <2>1. Shape(mem.heap, R) BY ONLY <1>2, ReadyFacts
  <2>2. mem.heap[contents[s]].type = "list" BY ONLY <1>3, <1>8
  <2>3. contents[s] \in Alive(mem.heap) BY ONLY <1>2, <2>2, s \in Syms, SymbolAlive
  <2>4. p \in Alive(mem.heap) /\ mem.heap[p].type = "list" BY ONLY <1>3, <2>2, <2>3
  <2>5. LostItem(mem.heap, p, z, m1.heap) BY ONLY <1>9, <1>11, <2>1, <2>4, FirstLost
  <2>6. contents' = contents /\ frames' = frames BY ONLY <1>8
  <2> QED BY ONLY <1>2, <1>3, <1>7, <1>8, <2>4, <2>5, <2>6, s \in Syms, IndInv',
       mem'.process = "runs", LostHolds
<1> QED BY ONLY <1>10, <1>11

\* (pop s -1)
LEMMA PopLastHolds ==
  ASSUME NEW s \in Syms, IndInv, IndInv', PopLast(s), mem'.process = "runs"
  PROVE  HoldValues
<1>1. Runs BY DEF PopLast, Calls, Evaluating
<1>2. PICK R : Ready(mem, contents, results, frames, lost, value, R) BY <1>1, InvReady
<1>3. PICK p, h : p = contents[s] /\ h = mem.heap OBVIOUS
<1>4. PICK items : items = Chain(h, h[p].contents) OBVIOUS
<1>5. PICK x : x = Last(items) OBVIOUS
<1>6. PICK m1 : m1 = LastPopped(mem, p, items) OBVIOUS
<1>7. PICK n : n = Len(results) OBVIOUS
<1>8. /\ h[p].type = "list" /\ items # <<>> /\ mem' = Cleaned(m1, results, n)
      /\ results' = Append(SubSeq(results, 1, n), x)
      /\ UNCHANGED <<contents, frames>>
  <2>1. m1 = IF Len(items) = 1
             THEN [mem EXCEPT !.heap[p] = Cell("list", @.next, nilCell, nilCell)]
             ELSE [mem EXCEPT !.heap[items[Len(items) - 1]].next = nilCell,
                              !.heap[p].aux = items[Len(items) - 1]] BY ONLY <1>6 DEF LastPopped
  <2>2. items = Chain(mem.heap, mem.heap[p].contents) /\ p = contents[s] BY ONLY <1>3, <1>4
  <2> DEFINE Less == IF Len(items) = 1
             THEN [mem EXCEPT !.heap[p] = Cell("list", @.next, nilCell, nilCell)]
             ELSE [mem EXCEPT !.heap[items[Len(items) - 1]].next = nilCell,
                              !.heap[p].aux = items[Len(items) - 1]]
  <2>3. /\ Calls /\ mem.heap[p].type = "list" /\ items # <<>>
        /\ Push(Less, results, Len(results), Last(items))
        /\ UNCHANGED <<contents, frames, lost>> BY ONLY <2>2, PopLast(s) DEF PopLast
  <2> HIDE DEF Less
  <2>4. Less = m1 BY ONLY <2>1 DEF Less
  <2> QED BY ONLY <2>3, <2>4, <1>3, <1>5, <1>7 DEF Push, Calls
<1>9. UnlinkedLast(mem, R, p, x, m1)
  BY ONLY <1>2, <1>3, <1>4, <1>5, <1>6, <1>8, s \in Syms, UnlinkLast
<1>10. Shape(mem.heap, R) BY ONLY <1>2, ReadyFacts
<1>11. mem.heap[contents[s]].type = "list" BY ONLY <1>3, <1>8
<1>12. contents[s] \in Alive(mem.heap) BY ONLY <1>2, <1>11, s \in Syms, SymbolAlive
<1>13. p \in Alive(mem.heap) /\ mem.heap[p].type = "list" BY ONLY <1>3, <1>11, <1>12
<1>14. LostItem(mem.heap, p, x, m1.heap) BY ONLY <1>9, <1>10, <1>13, LastLost
<1>15. contents' = contents /\ frames' = frames BY ONLY <1>8
<1> QED BY ONLY <1>2, <1>3, <1>7, <1>8, <1>13, <1>14, <1>15, s \in Syms, IndInv',
     mem'.process = "runs", LostHolds

\* A cell without elements is deleted, and v becomes the element of a new list.
MadeFor(m, d, got, v, c) ==
  /\ Prints(got.mem.heap, got.cell) = ListOf(<<Prints(m.heap, v)>>)
  /\ Items(Prints(m.heap, c)) = <<>>
  /\ Agrees(m.heap, got.mem.heap, {c})
\* What getCell made of the value that was taken.
Listed(new, Q, z, got) ==
  /\ Tidy(new.mem, Q) /\ z \in Q /\ z = new.cell /\ new.mem.process = "runs"
  /\ Got(new.mem, Q, "list", z, got)
\* A value was taken if a list was made of it.
LEMMA TakenListed ==
  ASSUME NEW m, NEW ct, NEW rs, NEW fs, NEW ls, NEW f, NEW R1, NEW new,
         Took(m, ct, rs, fs, ls, f, R1, new),
         NEW got, got = GetCell(new.mem, "list", new.cell), got.mem.process = "runs"
  PROVE  \E Q : Listed(new, Q, new.cell, got)
<1>1. PICK z, m1 : z = new.cell /\ m1 = new.mem OBVIOUS
<1>2. PICK t : t = "list" /\ t \in {"atom", "list"} /\ (t = "atom" => z = nilCell) OBVIOUS
<1>3. got = GetCell(m1, t, z) BY ONLY <1>1, <1>2, got = GetCell(new.mem, "list", new.cell)
<1>4. \/ m1.process = "exited" /\ z = nilCell /\ \E A : Tidy(m1, R1 \cup A)
      \/ m1.process = "runs" /\ Tidy(m1, R1 \cup {z})
  BY ONLY <1>1, Took(m, ct, rs, fs, ls, f, R1, new) DEF Took
<1>5. CASE m1.process = "exited"
  <2>1. PICK Q : Tidy(m1, Q) /\ z = nilCell BY ONLY <1>4, <1>5
  <2>2. Got(m1, Q, t, z, got) BY ONLY <1>2, <1>3, <2>1, GetTidy
  <2>3. got.mem.process = "exited" BY ONLY <1>5, <2>2 DEF Got
  <2> QED BY ONLY <2>3, got.mem.process = "runs"
<1>6. CASE m1.process = "runs"
  <2>1. PICK Q : Tidy(m1, Q) /\ z \in Q BY ONLY <1>4, <1>6
  <2>2. z \in Q \cup {nilCell} BY ONLY <2>1
  <2>3. Got(m1, Q, t, z, got) BY ONLY <1>2, <1>3, <2>1, <2>2, GetTidy
  <2> QED BY ONLY <1>1, <1>2, <1>6, <2>1, <2>3 DEF Listed
<1> QED BY ONLY <1>4, <1>5, <1>6

\* The new list prints its one element.
LEMMA ListedPrints ==
  ASSUME NEW new, NEW Q, NEW z, NEW got, Listed(new, Q, z, got), got.mem.process = "runs"
  PROVE  /\ Prints(got.mem.heap, got.cell) = ListOf(<<Prints(new.mem.heap, z)>>)
         /\ Keeps(new.mem.heap, got.mem.heap, Alive(new.mem.heap))
<1>1. PICK h, g, l : h = new.mem.heap /\ g = got.mem.heap /\ l = got.cell OBVIOUS
<1>2. /\ l \in Cells \ (Alive(h) \cup Permanent) /\ Keeps(h, g, Alive(h))
      /\ g[l] = Cell("list", nilCell, nilCell, z) /\ \E P : Tidy(got.mem, P)
  BY ONLY <1>1, Listed(new, Q, z, got), got.mem.process = "runs" DEF Listed, Got
<1>3. Shape(h, Q) /\ z \in Q BY ONLY <1>1, Listed(new, Q, z, got) DEF Listed, Tidy, Owned
<1>4. PICK P : Shape(g, P) BY ONLY <1>1, <1>2 DEF Tidy, Owned
<1>5. g \in Heaps /\ Ranked(g) BY ONLY <1>4, ShapeFacts
<1>6. z \in Alive(h) /\ z \in Cells /\ z # nilCell /\ After(h, z) = nilCell
  <2>1. Q \subseteq Alive(h) /\ Alive(h) \subseteq Cells /\ nilCell \notin Alive(h)
    BY ONLY <1>3, ShapeFacts
  <2>2. After(h, z) = nilCell BY ONLY <1>3 DEF Shape
  <2> QED BY ONLY <1>3, <2>1, <2>2
<1>7. After(g, z) = nilCell
  <2>1. g[z] = h[z] BY ONLY <1>2, <1>6 DEF Keeps
  <2> QED BY ONLY <1>6, <2>1 DEF After
<1>8. g[l].type = "list" /\ g[l].contents = z BY ONLY <1>2 DEF Cell
<1>9. Below(g, l) = z BY ONLY <1>8 DEF Below
<1>10. z \in Cells \ {nilCell} /\ l \in Cells BY ONLY <1>2, <1>6
<1>11. Prints(g, l) = ListOf(<<Prints(g, z)>>) BY ONLY <1>5, <1>7, <1>8, <1>9, <1>10, OnePrints
<1>12. Prints(g, z) = Prints(h, z)
  <2>1. z \in Alive(h) \cup Permanent BY ONLY <1>6
  <2> QED BY ONLY <1>2, <1>3, <1>4, <2>1, GrowPrints
<1> QED BY ONLY <1>1, <1>2, <1>11, <1>12

\* What a symbol without a list gets.
LEMMA MadeList ==
  ASSUME NEW m, NEW ct, NEW rs, NEW fs, NEW ls, NEW v, NEW R, Ready(m, ct, rs, fs, ls, v, R),
         fs # <<>>, v # NULL, NEW s \in Syms, NEW c, c = ct[s], m.heap[c].type # "list",
         v # c \/ c \in Permanent, NEW d, d = DeleteList(m, c), NEW new, new = Taking(d, rs, v),
         NEW got, got = GetCell(new.mem, "list", new.cell), got.mem.process = "runs"
  PROVE  MadeFor(m, d, got, v, c)
<1>1. PICK ct0 : ct0 = [ct EXCEPT ![s] = nilCell] OBVIOUS
<1>2. PICK P : P = R \ {c} OBVIOUS
<1>3. Ready(d, ct0, rs, fs, ls, v, P)
  <2>1. Ready(d, ct0, rs, fs, ls, v, R \ {c})
    BY ONLY Ready(m, ct, rs, fs, ls, v, R), s \in Syms, c = ct[s], m.heap[c].type # "list",
            v # c \/ c \in Permanent, d = DeleteList(m, c), <1>1, ClearStep
  <2> QED BY ONLY <1>2, <2>1
<1>4. PICK f : f = Last(fs) OBVIOUS
<1>5. PICK R1 : Took(d, ct0, rs, fs, ls, f, R1, new)
  <2>1. Takes(d, ct0, rs, fs, ls, f, new)
    BY ONLY <1>3, <1>4, fs # <<>>, v # NULL, new = Taking(d, rs, v), TookValue
  <2> QED BY ONLY <2>1 DEF Takes
<1>6. PICK z : z = new.cell OBVIOUS
<1>7. PICK Q : Listed(new, Q, z, got)
  <2>1. \E Q : Listed(new, Q, new.cell, got)
    BY ONLY <1>5, got = GetCell(new.mem, "list", new.cell), got.mem.process = "runs", TakenListed
  <2> QED BY ONLY <1>6, <2>1
<1>8. /\ Prints(got.mem.heap, got.cell) = ListOf(<<Prints(new.mem.heap, z)>>)
      /\ Keeps(new.mem.heap, got.mem.heap, Alive(new.mem.heap))
  BY ONLY <1>7, got.mem.process = "runs", ListedPrints
<1>9. new.mem.process = "runs" BY ONLY <1>7 DEF Listed
<1>10. TookAs(d, ct0, P, v, new, s)
  BY ONLY <1>3, <1>9, v # NULL, new = Taking(d, rs, v), s \in Syms, TookPrints
<1>11. Prints(new.mem.heap, z) = Prints(d.heap, v) /\ Keeps(d.heap, new.mem.heap, Alive(d.heap))
  BY ONLY <1>6, <1>10 DEF TookAs
<1>12. /\ Tidy(m, R) /\ Shape(m.heap, R) /\ rs \in Seq(Cells) /\ Owns(Held(ct, rs, fs, ls), R)
       /\ ct \in [Syms -> Cells] /\ Alive(m.heap) \cap Permanent = {}
  BY ONLY Ready(m, ct, rs, fs, ls, v, R), ReadyFacts
<1>13. c \in R \cup Permanent
  <2>1. ct[s] \in R \cup Permanent BY ONLY <1>12, s \in Syms, SymbolOwned
  <2> QED BY ONLY <2>1, c = ct[s]
<1>14. /\ Keeps(m.heap, d.heap, Alive(d.heap))
       /\ \A x \in Alive(m.heap) : c \in Permanent \/ x \notin Tree(m.heap, c) => x \in Alive(d.heap)
  <2>1. /\ Keeps(m.heap, DeleteList(m, c).heap, Alive(DeleteList(m, c).heap))
        /\ \A x \in Alive(m.heap) : c \in Permanent \/ x \notin Tree(m.heap, c)
                                     => x \in Alive(DeleteList(m, c).heap)
    BY ONLY <1>12, <1>13, DeleteTidy
  <2> QED BY ONLY <2>1, d = DeleteList(m, c)
<1>15. Prints(d.heap, v) = Prints(m.heap, v)
  <2>1. Valued(d.heap, rs, fs, v) /\ Shape(d.heap, P) BY ONLY <1>3, ReadyFacts
  <2>2. v \in Alive(d.heap) \cup Permanent BY ONLY <2>1, v # NULL DEF Valued
  <2>3. PICK h, g : h = m.heap /\ g = d.heap OBVIOUS
  <2>4. Shape(h, R) /\ Shape(g, P) /\ Keeps(h, g, Alive(g)) /\ v \in Alive(g) \cup Permanent
    BY ONLY <1>12, <1>14, <2>1, <2>2, <2>3
  <2>5. Prints(g, v) = Prints(h, v) BY ONLY <2>4, ShrinkPrints
  <2> QED BY ONLY <2>3, <2>5
<1>16. Items(Prints(m.heap, c)) = <<>>
  <2>1. PICK h : h = m.heap OBVIOUS
  <2>2. h \in Heaps /\ Ranked(h) BY ONLY <1>12, <2>1, ShapeFacts
  <2>3. Below(h, c) = nilCell BY ONLY <2>1, m.heap[c].type # "list" DEF Below
  <2>4. c \in Cells BY ONLY <1>12, s \in Syms, c = ct[s]
  <2>5. Items(Prints(h, c)) = <<>> BY ONLY <2>2, <2>3, <2>4, NonePrints
  <2> QED BY ONLY <2>1, <2>5
<1>17. Agrees(m.heap, got.mem.heap, {c})
  <2>1. ASSUME NEW x \in Alive(m.heap), x # c PROVE got.mem.heap[x] = m.heap[x]
    <3>1. c \in Permanent \/ x \notin Tree(m.heap, c)
      <4>1. CASE c \in R
        <5>1. Tree(m.heap, c) = {c} BY ONLY <1>12, <4>1, m.heap[c].type # "list", LeafTree
        <5> QED BY ONLY <2>1, <5>1
      <4> QED BY ONLY <1>13, <4>1
    <3>2. x \in Alive(d.heap) BY ONLY <1>14, <2>1, <3>1
    <3>3. d.heap[x] = m.heap[x] BY ONLY <1>14, <3>2 DEF Keeps
    <3>4. x \in Alive(new.mem.heap) /\ new.mem.heap[x] = d.heap[x] BY ONLY <1>11, <3>2 DEF Keeps
    <3>5. got.mem.heap[x] = new.mem.heap[x] BY ONLY <1>8, <3>4 DEF Keeps
    <3> QED BY ONLY <3>3, <3>4, <3>5
  <2>2. PICK h, g : h = m.heap /\ g = got.mem.heap OBVIOUS
  <2>3. \A x \in Alive(h) : x # c => g[x] = h[x] BY ONLY <2>1, <2>2
  <2>4. \A x \in Alive(h) \cap Alive(g) : x \notin {c} => g[x] = h[x] BY ONLY <2>3
  <2>5. Agrees(h, g, {c}) BY ONLY <2>4 DEF Agrees
  <2> QED BY ONLY <2>2, <2>5
<1> QED BY ONLY <1>8, <1>11, <1>15, <1>16, <1>17 DEF MadeFor


\* A symbol's cell without elements is in no other symbol's value.
LEMMA LeafSpared ==
  ASSUME NEW m, NEW ct, NEW rs, NEW fs, NEW ls, NEW v, NEW R, Ready(m, ct, rs, fs, ls, v, R),
         NEW s \in Syms, NEW t \in Syms, t # s, NEW c, c = ct[s]
  PROVE  Spared(m.heap, R, ct[t], {c})
<1>1. /\ Shape(m.heap, R) /\ rs \in Seq(Cells) /\ Owns(Held(ct, rs, fs, ls), R)
      /\ R \subseteq Alive(m.heap) /\ Alive(m.heap) \cap Permanent = {}
  BY ONLY Ready(m, ct, rs, fs, ls, v, R), ReadyFacts
<1>2. c \in R \cup Permanent
  <2>1. ct[s] \in R \cup Permanent BY ONLY <1>1, s \in Syms, SymbolOwned
  <2> QED BY ONLY <2>1, c = ct[s]
<1>3. CASE c \in R
  <2>1. ct[s] \notin Permanent BY ONLY <1>1, <1>3, c = ct[s]
  <2>2. ct[t] # ct[s] BY ONLY <1>1, <2>1, s \in Syms, t \in Syms, t # s, SymbolsApart
  <2>3. c # ct[t] BY ONLY <2>2, c = ct[s]
  <2>4. c \in Alive(m.heap) BY ONLY <1>1, <1>3
  <2>5. PICK b : b = Below(m.heap, c) OBVIOUS
  <2>6. c \in Tree(m.heap, c) BY ONLY <1>1, <2>4, <2>5, ListBelow
  <2>7. {c} \cap Alive(m.heap) \subseteq Tree(m.heap, c) BY ONLY <2>6
  <2> QED BY ONLY <1>3, <2>3, <2>7, SparedTree
<1>4. CASE c \in Permanent
  <2>1. c \notin Alive(m.heap) BY ONLY <1>1, <1>4
  <2> QED BY ONLY <2>1 DEF Spared
<1> QED BY ONLY <1>2, <1>3, <1>4

\* push and append on a symbol that has no list.
LEMMA PushOnNilHolds ==
  ASSUME "selfpush" \notin Events, IndInv, IndInv', PushOnNil, mem'.process = "runs"
  PROVE  HoldValues
<1>1. Runs BY DEF PushOnNil, Waiting
<1>2. PICK R : Ready(mem, contents, results, frames, lost, value, R) BY ONLY IndInv, <1>1, InvReady
<1>3. PICK f : f = Last(frames) OBVIOUS
<1>4. PICK s : s = f.sym OBVIOUS
<1>5. PICK c : c = contents[s] OBVIOUS
<1>6. PICK d : d = DeleteList(mem, c) OBVIOUS
<1>7. PICK new : new = Taking(d, results, value) OBVIOUS
<1>8. CopyCell(d, value) = new BY <1>7, CopyIsTaking
<1>9. PICK z : z = new.cell OBVIOUS
<1>10. PICK got : got = GetCell(new.mem, "list", z) OBVIOUS
<1>11. PICK l, u : l = got.cell /\ u = new.results OBVIOUS
<1>12. /\ Waiting("push") \/ Waiting("append")
       /\ mem.heap[c].type = "nil"
       /\ value \in {c} \ Permanent => "selfpush" \in Events
       /\ mem' = got.mem /\ contents' = [contents EXCEPT ![s] = l]
       /\ frames' = Front(frames)
  BY ONLY <1>3, <1>4, <1>8, <1>10, <1>11, <1>6, <1>9, <1>5, PushOnNil DEF PushOnNil, Top, Refer, Pop
<1>13. frames # <<>> /\ value # NULL /\ f.fn \in {"push", "append"}
  BY ONLY <1>3, <1>12, WaitingFacts
<1>14. value # c \/ c \in Permanent BY ONLY <1>12, "selfpush" \notin Events
<1>15. frames \in Seq(Frames) /\ Framed(frames, mem.heap) /\ contents \in [Syms -> Cells]
  BY ONLY <1>2, ReadyFacts
<1>16. s \in Syms
  <2>1. Last(frames).fn \in {"set", "push", "append"} BY ONLY <1>3, <1>13
  <2>2. Last(frames).sym \in Syms BY ONLY <1>13, <1>15, <2>1, TopSymbol
  <2> QED BY ONLY <1>3, <1>4, <2>2
<1>17. MadeFor(mem, d, got, value, c)
  <2>1. mem.heap[c].type # "list" BY ONLY <1>12
  <2>2. got = GetCell(new.mem, "list", new.cell) /\ got.mem.process = "runs"
    BY ONLY <1>9, <1>10, <1>12, mem'.process = "runs"
  <2> QED BY ONLY <1>2, <1>5, <1>6, <1>7, <1>13, <1>14, <1>16, <2>1, <2>2, MadeList
<1>18. /\ Prints(mem'.heap, l) = ListOf(<<Prints(mem.heap, value)>>)
       /\ Items(Prints(mem.heap, c)) = <<>> /\ Agrees(mem.heap, mem'.heap, {c})
  BY ONLY <1>11, <1>12, <1>17 DEF MadeFor
<1>19. contents'[s] = l /\ \A t \in Syms : t # s => contents'[t] = contents[t]
  BY ONLY <1>12, <1>15, <1>16
<1>20. HoldsValue(s)
  <2>1. PICK fn : fn = f.fn OBVIOUS
  <2>2. Left(fn, s) BY ONLY <1>3, <1>4, <1>12, <1>13, <1>15, <2>1, LeftLast
  <2>3. PICK old, given, new2 : /\ old = Prints(mem.heap, contents[s]) /\ given = Prints(mem.heap, value)
                                /\ new2 = Prints(mem'.heap, contents'[s]) OBVIOUS
  <2>4. Items(old) = <<>> /\ new2 = ListOf(<<given>>) BY ONLY <1>5, <1>18, <1>19, <2>3
  <2>5. <<given>> \o Items(old) = <<given>> /\ Append(Items(old), given) = <<given>>
    <3>1. PICK e : e = Items(old) OBVIOUS
    <3>2. e = <<>> BY ONLY <2>4, <3>1
    <3>3. <<given>> \o e = <<given>>
      <4>1. <<given>> \in Seq({given}) OBVIOUS
      <4> QED BY ONLY <3>2, <4>1
    <3>4. Append(e, given) = <<given>> BY ONLY <3>2
    <3> QED BY ONLY <3>1, <3>3, <3>4
  <2>6. fn = "push" \/ fn = "append" BY ONLY <1>13, <2>1
  <2>7. Gives(s, fn, given, old, new2) BY ONLY <2>4, <2>5, <2>6 DEF Gives
  <2> QED BY ONLY <1>13, <2>2, <2>3, <2>7, HoldGiven
<1>21. ASSUME NEW t \in Syms, t # s PROVE HoldsValue(t)
  <2>1. Spared(mem.heap, R, contents[t], {c}) BY ONLY <1>2, <1>5, <1>16, <1>21, LeafSpared
  <2>2. Settled(mem.heap, contents, R) BY ONLY <1>2, ReadySettled
  <2>3. contents'[t] = contents[t] BY ONLY <1>19, <1>21
  <2> QED BY ONLY <1>18, <2>1, <2>2, <2>3, t \in Syms, IndInv', mem'.process = "runs", HoldApart
<1> QED BY ONLY <1>20, <1>21 DEF HoldValues

\* The list p is as it was when the value for it has been taken; both are roots.
TookHeap(m, p, new, Q) ==
  /\ Shape(new.mem.heap, Q) /\ p \in Q /\ new.cell \in Q /\ p # new.cell
  /\ p \in Cells /\ new.cell \in Cells /\ Typed1(new.mem) /\ new.mem.heap[p] = m.heap[p]
  /\ \A e : EndOf(m.heap, p, e) => EndOf(new.mem.heap, p, e)

\* Taking a value leaves the list of a symbol, and the heap sound, for push and append.
LEMMA TookHeaped ==
  ASSUME NEW m, NEW ct, NEW rs, NEW fs, NEW ls, NEW v, NEW R, Ready(m, ct, rs, fs, ls, v, R),
         fs # <<>>, v # NULL, NEW s \in Syms, NEW p, p = ct[s],
         m.heap[p].type = "list", NEW new, new = Taking(m, rs, v), new.mem.process = "runs"
  PROVE  \E Q : TookHeap(m, p, new, Q)
<1>1. PICK f, m1, z, u : f = Last(fs) /\ m1 = new.mem /\ z = new.cell /\ u = new.results OBVIOUS
<1>2. PICK R1 : TookFor(m, ct, fs, ls, f, p, R1, m1, z, u)
  <2>1. TakesFor(m, ct, fs, ls, f, p, m1, z, u)
    BY ONLY <1>1, Ready(m, ct, rs, fs, ls, v, R), fs # <<>>, v # NULL, s \in Syms, p = ct[s],
            m.heap[p].type = "list", new = Taking(m, rs, v), TakeFor
  <2> QED BY ONLY <2>1 DEF TakesFor
<1>3. /\ p \in R1 /\ p \in Cells /\ z \in Cells /\ z # p /\ Typed1(m1) /\ m1.heap[p] = m.heap[p]
      /\ \A e : EndOf(m.heap, p, e) => EndOf(m1.heap, p, e)
      /\ \/ m1.process # "runs"
         \/ Tidy(m1, R1 \cup {z}) BY ONLY <1>2 DEF TookFor
<1>4. PICK Q : Q = R1 \cup {z} OBVIOUS
<1>5. Tidy(m1, Q) BY ONLY <1>1, <1>3, <1>4, new.mem.process = "runs"
<1>6. Shape(m1.heap, Q) BY ONLY <1>5 DEF Tidy, Owned
<1>7. p \in Q /\ z \in Q BY ONLY <1>3, <1>4
<1>8. TookHeap(m, p, new, Q) BY ONLY <1>1, <1>3, <1>6, <1>7 DEF TookHeap
<1> QED BY ONLY <1>8

\* A list p with the element given in front or at the end.
ListGot(fn, given, old, new) ==
  \/ fn = "push" /\ new = ListOf(<<given>> \o Items(old))
  \/ fn = "append" /\ new = ListOf(Append(Items(old), given))
\* A step of push: the list p of symbol s gets the value as an element.
LEMMA PushedHolds ==
  ASSUME IndInv', mem'.process = "runs", NEW R,
         Ready(mem, contents, results, frames, lost, value, R), NEW s \in Syms, NEW p,
         p = contents[s], mem.heap[p].type = "list", contents' = contents, frames # <<>>,
         frames' = Front(frames), NEW f, f = Last(frames), f.sym = s, NEW fn, f.fn = fn,
         value # NULL, NEW new, new = Taking(mem, results, value), new.mem.process = "runs",
         NEW z, z = new.cell, NEW E, NEW h, h = new.mem.heap, NEW g, g = mem'.heap, NEW Q,
         Hung(h, Q, p, z, E, g), E \cap Alive(mem.heap) \subseteq Tree(mem.heap, p),
         ListGot(fn, Prints(h, z), Prints(h, p), Prints(g, p))
  PROVE  HoldValues
<1>1. /\ frames \in Seq(Frames) /\ Shape(mem.heap, R) /\ Alive(mem.heap) \cap Permanent = {}
      /\ Owns(Held(contents, results, frames, lost), R)
  BY ONLY Ready(mem, contents, results, frames, lost, value, R), ReadyFacts
<1>2. p \in R /\ p \in Alive(mem.heap)
  <2>1. mem.heap[contents[s]].type = "list" BY ONLY p = contents[s], mem.heap[p].type = "list"
  <2>2. contents[s] \in R /\ contents[s] \in Alive(mem.heap)
    BY ONLY <2>1, s \in Syms, Ready(mem, contents, results, frames, lost, value, R), SymbolAlive
  <2> QED BY ONLY <2>2, p = contents[s]
<1>3. ASSUME NEW t \in Syms PROVE TookAs(mem, contents, R, value, new, t)
  BY ONLY <1>3, Ready(mem, contents, results, frames, lost, value, R), value # NULL,
          new = Taking(mem, results, value), new.mem.process = "runs", TookPrints
<1>4. Prints(h, z) = Prints(mem.heap, value) /\ Keeps(mem.heap, h, Alive(mem.heap))
  <2>1. TookAs(mem, contents, R, value, new, s) BY ONLY <1>3, s \in Syms
  <2> QED BY ONLY <2>1, h = new.mem.heap, z = new.cell DEF TookAs
<1>5. Prints(h, p) = Prints(mem.heap, p)
  <2>1. PICK k : k = mem.heap OBVIOUS
  <2>2. Shape(k, R) /\ Keeps(k, h, Alive(k)) /\ p \in Alive(k) \cup Permanent
    BY ONLY <1>1, <1>2, <1>4, <2>1
  <2>3. Shape(h, Q) BY ONLY Hung(h, Q, p, z, E, g) DEF Hung
  <2>4. Prints(h, p) = Prints(k, p) BY ONLY <2>2, <2>3, GrowPrints
  <2> QED BY ONLY <2>1, <2>4
<1>6. HoldsValue(s)
  <2>1. contents'[s] = p BY ONLY p = contents[s], contents' = contents
  <2>2. Left(fn, s)
    BY ONLY <1>1, frames # <<>>, frames' = Front(frames), f = Last(frames), f.fn = fn, f.sym = s,
         LeftLast
  <2>3. ListGot(fn, Prints(mem.heap, value), Prints(mem.heap, p), Prints(g, p))
    BY ONLY <1>4, <1>5, ListGot(fn, Prints(h, z), Prints(h, p), Prints(g, p))
  <2>4. Gives(s, fn, Prints(mem.heap, value), Prints(mem.heap, p), Prints(g, p))
    BY ONLY <2>3 DEF ListGot, Gives
  <2>5. Gives(s, fn, Prints(mem.heap, value), Prints(mem.heap, contents[s]), Prints(mem'.heap, contents'[s]))
    BY ONLY <2>1, <2>4, p = contents[s], g = mem'.heap
  <2> QED BY ONLY <2>2, <2>5, value # NULL, HoldGiven
<1>7. ASSUME NEW t \in Syms, t # s PROVE HoldsValue(t)
  <2>1. contents[s] \notin Permanent BY ONLY <1>1, <1>2, p = contents[s]
  <2>2. contents[t] # contents[s] BY ONLY <1>1, <1>7, <2>1, s \in Syms, SymbolsApart
  <2>3. p # contents[t] BY ONLY <2>2, p = contents[s]
  <2>4. PICK D : D = {p} \cup E OBVIOUS
  <2>5. D \cap Alive(mem.heap) \subseteq Tree(mem.heap, p)
    <3>1. p \in Tree(mem.heap, p) BY ONLY <1>1, <1>2, TreeFacts
    <3> QED BY ONLY <2>4, <3>1, E \cap Alive(mem.heap) \subseteq Tree(mem.heap, p)
  <2>6. Spared(mem.heap, R, contents[t], D) BY ONLY <1>2, <2>3, <2>5, SparedTree
  <2>7. Spared(mem.heap, R, contents[t], {z})
    <3>1. TookAs(mem, contents, R, value, new, t) BY ONLY <1>3, <1>7
    <3> QED BY ONLY <3>1, z = new.cell DEF TookAs
  <2>8. PICK B : B = D \cup {z} OBVIOUS
  <2>9. Spared(mem.heap, R, contents[t], B)
    <3>1. Spared(mem.heap, R, contents[t], D \cup {z}) BY ONLY <2>6, <2>7, SparedBoth
    <3> QED BY ONLY <2>8, <3>1
  <2>10. Agrees(h, g, B)
    <3>1. \A x \in Cells \ ({p, z} \cup E) : g[x] = h[x] BY ONLY Hung(h, Q, p, z, E, g) DEF Hung
    <3>2. \A x \in Cells \ B : g[x] = h[x] BY ONLY <2>4, <2>8, <3>1
    <3> QED BY ONLY <3>2, AgreesWrite
  <2>11. Agrees(mem.heap, g, B) BY ONLY <1>4, <2>10, AgreesGrow
  <2>12. Agrees(mem.heap, mem'.heap, B) /\ contents'[t] = contents[t]
    BY ONLY <2>11, g = mem'.heap, contents' = contents
  <2>13. Settled(mem.heap, contents, R)
    BY ONLY Ready(mem, contents, results, frames, lost, value, R), ReadySettled
  <2> QED BY ONLY <2>9, <2>12, <2>13, t \in Syms, IndInv', mem'.process = "runs", HoldApart
<1> QED BY ONLY <1>6, <1>7 DEF HoldValues

\* push at the front of a list.
LEMMA PushFrontHolds ==
  ASSUME IndInv, IndInv', PushFront, mem'.process = "runs"
  PROVE  HoldValues
<1>1. Runs BY DEF PushFront, Waiting
<1>2. PICK R : Ready(mem, contents, results, frames, lost, value, R) BY ONLY IndInv, <1>1, InvReady
<1>3. PICK f : f = Last(frames) OBVIOUS
<1>4. PICK s : s = f.sym OBVIOUS
<1>5. PICK p : p = contents[s] OBVIOUS
<1>6. PICK new : new = Taking(mem, results, value) OBVIOUS
<1>7. CopyCell(mem, value) = new BY <1>6, CopyIsTaking
<1>8. PICK m1, z, u : m1 = new.mem /\ z = new.cell /\ u = new.results OBVIOUS
<1>9. /\ frames # <<>> /\ value # NULL /\ f.fn = "push" /\ mem.heap[p].type = "list"
      /\ mem' = PushedFirst(m1, z, p, mem.heap[p].contents)
      /\ frames' = Front(frames) /\ contents' = contents
  BY ONLY <1>3, <1>4, <1>5, <1>7, <1>8, PushFront
     DEF PushFront, Waiting, Top, Refer, Pop, IsList, PushedFirst
<1>10. frames \in Seq(Frames) /\ Framed(frames, mem.heap) BY ONLY <1>2, ReadyFacts
<1>11. s \in Syms
  <2>1. Last(frames).fn \in {"set", "push", "append"} BY ONLY <1>3, <1>9
  <2>2. Last(frames).sym \in Syms BY ONLY <1>9, <1>10, <2>1, TopSymbol
  <2> QED BY ONLY <1>3, <1>4, <2>2
<1>12. new.mem.process = "runs" BY ONLY <1>8, <1>9, mem'.process = "runs" DEF PushedFirst
<1>13. PICK Q : TookHeap(mem, p, new, Q)
  <2>1. \E Q : TookHeap(mem, p, new, Q) BY ONLY <1>2, <1>5, <1>6, <1>9, <1>11, <1>12, TookHeaped
  <2> QED BY ONLY <2>1
<1>14. PICK h, g : h = m1.heap /\ g = mem'.heap OBVIOUS
<1>15. /\ Shape(h, Q) /\ p \in Q /\ z \in Q /\ p # z /\ p \in Cells /\ z \in Cells /\ Typed1(m1)
       /\ h[p] = mem.heap[p] BY ONLY <1>8, <1>13, <1>14 DEF TookHeap
<1>16. PICK d : d = h[p].contents OBVIOUS
<1>17. d \in Cells
  <2>1. h \in Heaps BY ONLY <1>15, ShapeFacts
  <2>2. h[p].contents \in Cells BY ONLY <1>15, <2>1, Fields
  <2> QED BY ONLY <1>16, <2>2
<1>18. PICK m2 : m2 = mem' OBVIOUS
<1>19. m2 = [m1 EXCEPT !.heap[z].next = d, !.heap[p].contents = z, !.heap[p].aux = nilCell]
  <2>1. d = mem.heap[p].contents BY ONLY <1>15, <1>16
  <2> QED BY ONLY <1>9, <1>18, <2>1 DEF PushedFirst
<1>20. FrontWritten(m1, h, z, p, d, m2) BY ONLY <1>14, <1>15, <1>17, <1>19, WritePushFront
<1>21. /\ g[z] = Cell(h[z].type, d, h[z].aux, h[z].contents)
       /\ g[p] = Cell(h[p].type, h[p].next, nilCell, z)
       /\ \A x \in Cells \ {p, z} : g[x] = h[x]
  <2>1. Changed(m1, z, Cell(h[z].type, d, h[z].aux, h[z].contents),
                p, Cell(h[p].type, h[p].next, nilCell, z), m2) BY ONLY <1>20 DEF FrontWritten
  <2>2. PICK k \in [Cells -> CellRecords] :
          /\ k[z] = Cell(h[z].type, d, h[z].aux, h[z].contents)
          /\ k[p] = Cell(h[p].type, h[p].next, nilCell, z)
          /\ \A x \in Cells \ {p, z} : k[x] = m1.heap[x]
          /\ m2 = [m1 EXCEPT !.heap = k] BY ONLY <2>1 DEF Changed
  <2>3. m2.heap = k BY ONLY <1>15, <2>2 DEF Typed1
  <2>4. g = k BY ONLY <1>14, <1>18, <2>3
  <2> QED BY ONLY <1>14, <2>2, <2>4
<1>22. g[z].type = h[z].type /\ Below(g, z) = Below(h, z)
  <2>1. g[z].type = h[z].type /\ g[z].contents = h[z].contents BY ONLY <1>21 DEF Cell
  <2> QED BY ONLY <2>1 DEF Below
<1>23. PICK E : E = {} OBVIOUS
<1>24. Hung(h, Q, p, z, E, g) BY ONLY <1>15, <1>21, <1>22, <1>23 DEF Hung
<1>25. PICK P : Settled(mem'.heap, contents', P) BY ONLY IndInv', mem'.process = "runs", NextSettled
<1>26. Shape(g, P) BY ONLY <1>14, <1>25 DEF Settled
<1>27. PICK a : a = nilCell OBVIOUS
<1>28. Prints(g, p) = ListOf(<<Prints(h, z)>> \o Items(Prints(h, p)))
  <2>1. h[p].type = "list" BY ONLY <1>9, <1>15
  <2>2. /\ g[z] = Cell(h[z].type, h[p].contents, h[z].aux, h[z].contents)
        /\ g[p] = Cell("list", h[p].next, a, z) BY ONLY <1>16, <1>21, <1>27, <2>1
  <2>3. Hung(h, Q, p, z, {}, g) BY ONLY <1>23, <1>24
  <2> QED BY ONLY <1>26, <2>1, <2>2, <2>3, HungFrontPrints
<1>29. PICK fn : fn = "push" OBVIOUS
<1>30. PICK x, y, w : x = Prints(h, z) /\ y = Prints(h, p) /\ w = Prints(g, p) OBVIOUS
<1>31. ListGot(fn, x, y, w) BY ONLY <1>28, <1>29, <1>30 DEF ListGot
<1>32. ListGot(fn, Prints(h, z), Prints(h, p), Prints(g, p)) BY ONLY <1>30, <1>31
<1>33. f.fn = fn /\ f.sym = s BY ONLY <1>4, <1>9, <1>29
<1>34. E \cap Alive(mem.heap) \subseteq Tree(mem.heap, p) BY ONLY <1>23
<1>35. z = new.cell /\ h = new.mem.heap BY ONLY <1>8, <1>14
<1> QED BY ONLY <1>2, <1>3, <1>5, <1>6, <1>9, <1>11, <1>12, <1>14, <1>24, <1>32, <1>33, <1>34,
     <1>35,
                IndInv', mem'.process = "runs", PushedHolds

\* The writes of push at the end of a list, as writes of the heap.
EndWritten(h, p, e, z, g) ==
  /\ g[p] = Cell(h[p].type, h[p].next, z, h[p].contents)
  /\ g[e] = Cell(h[e].type, z, h[e].aux, h[e].contents)
  /\ \A x \in Cells \ {e, p} : g[x] = h[x]

\* The two writes that hang a cell at the end of a list change the end and the list cell.
LEMMA EndWrites ==
  ASSUME NEW m1, Typed1(m1), NEW p \in Cells, NEW z \in Cells, NEW e \in Cells, e # p,
         NEW ma, ma = AuxSet(m1, p, z), NEW m2, m2 = NextSet(ma, e, z)
  PROVE  EndWritten(m1.heap, p, e, z, m2.heap) /\ m2.process = m1.process
<1>1. PICK h : h = m1.heap OBVIOUS
<1>2. /\ Typed1(ma) /\ ma.process = m1.process
      /\ Sets(m1, p, Cell(h[p].type, h[p].next, z, h[p].contents), ma)
  BY ONLY <1>1, Typed1(m1), p \in Cells, z \in Cells, ma = AuxSet(m1, p, z), WriteAuxOf DEF AuxSet
<1>3. PICK k : k = ma.heap OBVIOUS
<1>4. /\ Typed1(m2) /\ m2.process = ma.process
      /\ Sets(ma, e, Cell(k[e].type, z, k[e].aux, k[e].contents), m2)
  <2>1. z \in Cells \cup {NULL} OBVIOUS
  <2> QED BY ONLY <1>2, <1>3, <2>1, e \in Cells, m2 = NextSet(ma, e, z), WriteNextOf DEF NextSet
<1>5. k[e] = h[e] BY ONLY <1>1, <1>2, <1>3, p \in Cells, e \in Cells, e # p, Typed1(m1), SetsFacts
<1>6. Sets(ma, e, Cell(h[e].type, z, h[e].aux, h[e].contents), m2) BY ONLY <1>4, <1>5
<1>7. Changed(m1, p, Cell(h[p].type, h[p].next, z, h[p].contents),
                  e, Cell(h[e].type, z, h[e].aux, h[e].contents), m2)
  BY ONLY <1>2, <1>6, p \in Cells, e \in Cells, e # p, Typed1(m1), SetsOther
<1>8. PICK g \in [Cells -> CellRecords] :
        /\ g[p] = Cell(h[p].type, h[p].next, z, h[p].contents)
        /\ g[e] = Cell(h[e].type, z, h[e].aux, h[e].contents)
        /\ \A x \in Cells \ {e, p} : g[x] = h[x]
        /\ m2 = [m1 EXCEPT !.heap = g] BY ONLY <1>1, <1>7 DEF Changed
<1>9. m2.heap = g BY ONLY <1>8, Typed1(m1) DEF Typed1
<1> QED BY ONLY <1>1, <1>2, <1>4, <1>8, <1>9 DEF EndWritten

\* The writes when the list is empty.
LEMMA OneWrites ==
  ASSUME NEW m1, Typed1(m1), NEW p \in Cells, NEW z \in Cells, NEW h, h = m1.heap,
         h[p].type = "list", NEW ma, ma = AuxSet(m1, p, z), NEW m2, m2 = ContentsSet(ma, p, z)
  PROVE  /\ m2.heap[p] = Cell("list", h[p].next, z, z) /\ m2.process = m1.process
         /\ \A x \in Cells \ {p} : m2.heap[x] = h[x]
<1>1. /\ Typed1(ma) /\ ma.process = m1.process
      /\ Sets(m1, p, Cell(h[p].type, h[p].next, z, h[p].contents), ma)
  BY ONLY h = m1.heap, Typed1(m1), p \in Cells, z \in Cells, ma = AuxSet(m1, p, z),
       WriteAuxOf DEF AuxSet
<1>2. PICK k : k = ma.heap OBVIOUS
<1>3. /\ Typed1(m2) /\ m2.process = ma.process
      /\ Sets(ma, p, Cell(k[p].type, k[p].next, k[p].aux, z), m2)
  BY ONLY <1>1, <1>2, p \in Cells, z \in Cells, m2 = ContentsSet(ma, p, z),
       WriteContentsOf DEF ContentsSet
<1>4. k[p] = Cell(h[p].type, h[p].next, z, h[p].contents)
  BY ONLY <1>1, <1>2, p \in Cells, Typed1(m1), SetsFacts
<1>5. k[p].type = "list" /\ k[p].next = h[p].next /\ k[p].aux = z
  BY ONLY <1>4, h[p].type = "list", CellFields
<1>6. Sets(ma, p, Cell("list", h[p].next, z, z), m2) BY ONLY <1>3, <1>5
<1>7. Sets(m1, p, Cell("list", h[p].next, z, z), m2)
  BY ONLY <1>1, <1>6, p \in Cells, Typed1(m1), SetsAgain
<1>8. PICK g : Written(h, p, Cell("list", h[p].next, z, z), g) /\ m2 = [m1 EXCEPT !.heap = g]
  BY ONLY <1>7, h = m1.heap DEF Sets
<1>9. m2.heap = g BY ONLY <1>8, Typed1(m1) DEF Typed1
<1> QED BY ONLY <1>1, <1>3, <1>8, <1>9, p \in Cells DEF Written

\* After push at the end, z is the last element of p.
Ended(h, Q, p, z, E, g) ==
  Hung(h, Q, p, z, E, g) /\ ListGot("append", Prints(h, z), Prints(h, p), Prints(g, p))
\* It comes after the element e.
LEMMA AfterEnd ==
  ASSUME NEW m, NEW p, NEW new, NEW Q, TookHeap(m, p, new, Q), m.heap[p].type = "list",
         NEW z, z = new.cell, NEW h, h = new.mem.heap, NEW e, EndOf(m.heap, p, e),
         NEW ma, ma = AuxSet(new.mem, p, z), NEW m2, m2 = NextSet(ma, e, z),
         NEW g, g = m2.heap, NEW P, Shape(g, P)
  PROVE  Ended(h, Q, p, z, {e}, g)
<1>1. /\ Shape(h, Q) /\ p \in Q /\ z \in Q /\ p # z /\ p \in Cells /\ z \in Cells /\ Typed1(new.mem)
      /\ h[p] = m.heap[p] /\ EndOf(h, p, e)
  BY ONLY TookHeap(m, p, new, Q), z = new.cell, h = new.mem.heap, EndOf(m.heap, p, e) DEF TookHeap
<1>2. e \in Alive(h) \ Q /\ e # p /\ e \notin Tree(h, z) /\ e \in Cells BY ONLY <1>1, EndApart
<1>3. EndWritten(h, p, e, z, g)
  <2>1. EndWritten(new.mem.heap, p, e, z, m2.heap)
    BY ONLY <1>1, <1>2, ma = AuxSet(new.mem, p, z), m2 = NextSet(ma, e, z), EndWrites
  <2> QED BY ONLY <2>1, h = new.mem.heap, g = m2.heap
<1>4. /\ g[p] = Cell(h[p].type, h[p].next, z, h[p].contents)
      /\ g[e] = Cell(h[e].type, z, h[e].aux, h[e].contents)
      /\ \A x \in Cells \ {e, p} : g[x] = h[x] BY ONLY <1>3 DEF EndWritten
<1>5. z # e BY ONLY <1>1, <1>2
<1>6. g[z] = h[z] BY ONLY <1>1, <1>4, <1>5
<1>7. g[e].type = h[e].type /\ Below(g, e) = Below(h, e)
  <2>1. g[e].type = h[e].type /\ g[e].contents = h[e].contents BY ONLY <1>4 DEF Cell
  <2> QED BY ONLY <2>1 DEF Below
<1>8. g[z].type = h[z].type /\ Below(g, z) = Below(h, z) BY ONLY <1>6 DEF Below
<1>9. e \in List(h, Below(h, p)) BY ONLY <1>1 DEF EndOf
<1>10. PICK E : E = {e} OBVIOUS
<1>11. Hung(h, Q, p, z, E, g)
  <2>1. E \subseteq List(h, Below(h, p)) BY ONLY <1>9, <1>10
  <2>2. \A x \in Cells \ ({p, z} \cup E) : g[x] = h[x] BY ONLY <1>4, <1>10
  <2>3. \A x \in {z} \cup E : g[x].type = h[x].type /\ Below(g, x) = Below(h, x)
    BY ONLY <1>7, <1>8, <1>10
  <2> QED BY ONLY <1>1, <2>1, <2>2, <2>3 DEF Hung
<1>12. PICK a : a = z OBVIOUS
<1>13. Prints(g, p) = ListOf(Append(Items(Prints(h, p)), Prints(h, z)))
  <2>1. h[p].type = "list" BY ONLY <1>1, m.heap[p].type = "list"
  <2>2. g[p] = Cell("list", h[p].next, a, h[p].contents) BY ONLY <1>4, <1>12, <2>1
  <2>3. Hung(h, Q, p, z, {e}, g) BY ONLY <1>10, <1>11
  <2>4. EndOf(h, p, e) BY ONLY <1>1
  <2>5. g[e] = Cell(h[e].type, z, h[e].aux, h[e].contents) BY ONLY <1>4
  <2>6. HungAtEnd(h, Q, p, z, e, g, P, a)
    BY ONLY <1>6, <2>1, <2>2, <2>3, <2>4, <2>5, Shape(g, P) DEF HungAtEnd
  <2> QED BY ONLY <2>6, HungEndPrints
<1>14. PICK x, y, w : x = Prints(h, z) /\ y = Prints(h, p) /\ w = Prints(g, p) OBVIOUS
<1>15. ListGot("append", x, y, w) BY ONLY <1>13, <1>14 DEF ListGot
<1> QED BY ONLY <1>10, <1>11, <1>14, <1>15 DEF Ended

\* It is the only element.
LEMMA OnlyEnd ==
  ASSUME NEW m, NEW p, NEW new, NEW Q, TookHeap(m, p, new, Q), m.heap[p].type = "list",
         m.heap[p].contents = nilCell, NEW z, z = new.cell, NEW h, h = new.mem.heap,
         NEW ma, ma = AuxSet(new.mem, p, z), NEW m2, m2 = ContentsSet(ma, p, z),
         NEW g, g = m2.heap, NEW P, Shape(g, P)
  PROVE  Ended(h, Q, p, z, {}, g)
<1>1. /\ Shape(h, Q) /\ p \in Q /\ z \in Q /\ p # z /\ p \in Cells /\ z \in Cells /\ Typed1(new.mem)
      /\ h[p] = m.heap[p]
  BY ONLY TookHeap(m, p, new, Q), z = new.cell, h = new.mem.heap DEF TookHeap
<1>2. h[p].type = "list" /\ h[p].contents = nilCell
  BY ONLY <1>1, m.heap[p].type = "list", m.heap[p].contents = nilCell
<1>3. g[p] = Cell("list", h[p].next, z, z) /\ \A x \in Cells \ {p} : g[x] = h[x]
  <2>1. m2.heap[p] = Cell("list", h[p].next, z, z) /\ \A x \in Cells \ {p} : m2.heap[x] = h[x]
    BY ONLY <1>1, <1>2, h = new.mem.heap, ma = AuxSet(new.mem, p, z), m2 = ContentsSet(ma, p, z),
         OneWrites
  <2> QED BY ONLY <2>1, g = m2.heap
<1>4. g[z] = h[z] BY ONLY <1>1, <1>3
<1>5. g[z].type = h[z].type /\ Below(g, z) = Below(h, z) BY ONLY <1>4 DEF Below
<1>6. PICK E : E = {} OBVIOUS
<1>7. Hung(h, Q, p, z, E, g) BY ONLY <1>1, <1>3, <1>5, <1>6 DEF Hung
<1>8. PICK a : a = z OBVIOUS
<1>9. Prints(g, p) = ListOf(Append(Items(Prints(h, p)), Prints(h, z)))
  <2>1. g[p] = Cell("list", h[p].next, a, z) BY ONLY <1>3, <1>8
  <2>2. Hung(h, Q, p, z, {}, g) BY ONLY <1>6, <1>7
  <2> QED BY ONLY <1>2, <1>4, <2>1, <2>2, Shape(g, P), HungOnePrints
<1>10. PICK x, y, w : x = Prints(h, z) /\ y = Prints(h, p) /\ w = Prints(g, p) OBVIOUS
<1>11. ListGot("append", x, y, w) BY ONLY <1>9, <1>10 DEF ListGot
<1> QED BY ONLY <1>6, <1>7, <1>10, <1>11 DEF Ended

\* What push at the end writes.
EndMade(h, ma, p, z, m2) ==
  m2 = IF h[p].aux # nilCell THEN NextSet(ma, h[p].aux, z)
       ELSE IF h[p].contents = nilCell THEN ContentsSet(ma, p, z)
       ELSE NextSet(ma, Last(Chain(h, h[p].contents)), z)
\* The end is found, by the list's aux or by following its elements.
LEMMA EndFound ==
  ASSUME NEW m, NEW ct, NEW rs, NEW fs, NEW ls, NEW v, NEW R, Ready(m, ct, rs, fs, ls, v, R),
         NEW p \in Alive(m.heap), m.heap[p].type = "list", NEW new, NEW Q, TookHeap(m, p, new, Q),
         NEW z, z = new.cell, NEW h, h = new.mem.heap, NEW ma, ma = AuxSet(new.mem, p, z),
         NEW m2, EndMade(m.heap, ma, p, z, m2), NEW g, g = m2.heap, NEW P, Shape(g, P)
  PROVE  \E E : Ended(h, Q, p, z, E, g) /\ E \subseteq Tree(m.heap, p)
<1>1. PICK k : k = m.heap OBVIOUS
<1>2. /\ Lasts(k) /\ Ranked(k) /\ k \in Heaps /\ Shape(k, R) /\ p \in Alive(k)
      /\ k[p].type = "list" /\ p \in Cells
  <2>1. /\ Lasts(m.heap) /\ Ranked(m.heap) /\ m.heap \in Heaps /\ Shape(m.heap, R)
        /\ Alive(m.heap) \subseteq Cells BY ONLY Ready(m, ct, rs, fs, ls, v, R), ReadyFacts
  <2> QED BY ONLY <1>1, <2>1, p \in Alive(m.heap), m.heap[p].type = "list"
<1>3. m2 = IF k[p].aux # nilCell THEN NextSet(ma, k[p].aux, z)
           ELSE IF k[p].contents = nilCell THEN ContentsSet(ma, p, z)
           ELSE NextSet(ma, Last(Chain(k, k[p].contents)), z)
  BY ONLY <1>1, EndMade(m.heap, ma, p, z, m2) DEF EndMade
<1>4. ASSUME NEW e, EndOf(k, p, e), m2 = NextSet(ma, e, z)
      PROVE  \E E : Ended(h, Q, p, z, E, g) /\ E \subseteq Tree(m.heap, p)
  <2>1. EndOf(m.heap, p, e) BY ONLY <1>1, <1>4
  <2>2. Ended(h, Q, p, z, {e}, g)
    BY ONLY <1>4, <2>1, TookHeap(m, p, new, Q), m.heap[p].type = "list", z = new.cell,
            h = new.mem.heap, ma = AuxSet(new.mem, p, z), g = m2.heap, Shape(g, P), AfterEnd
  <2>3. e \in List(k, Below(k, p)) BY ONLY <1>4 DEF EndOf
  <2>4. {e, p} \subseteq Tree(k, p) BY ONLY <1>2, <2>3, ListCells
  <2>5. {e} \subseteq Tree(m.heap, p) BY ONLY <1>1, <2>4
  <2> QED BY ONLY <2>2, <2>5
<1>5. CASE k[p].aux # nilCell
  <2>1. PICK e : e = k[p].aux OBVIOUS
  <2>2. EndOf(k, p, e) BY ONLY <1>2, <1>5, <2>1 DEF Lasts
  <2>3. m2 = NextSet(ma, e, z) BY ONLY <1>3, <1>5, <2>1
  <2> QED BY ONLY <1>4, <2>2, <2>3
<1>6. CASE k[p].aux = nilCell /\ k[p].contents = nilCell
  <2>1. m2 = ContentsSet(ma, p, z) BY ONLY <1>3, <1>6
  <2>2. m.heap[p].contents = nilCell BY ONLY <1>1, <1>6
  <2>3. Ended(h, Q, p, z, {}, g)
    BY ONLY <2>1, <2>2, TookHeap(m, p, new, Q), m.heap[p].type = "list", z = new.cell,
            h = new.mem.heap, ma = AuxSet(new.mem, p, z), g = m2.heap, Shape(g, P), OnlyEnd
  <2>4. {} \subseteq Tree(m.heap, p) OBVIOUS
  <2> QED BY ONLY <2>3, <2>4
<1>7. CASE k[p].aux = nilCell /\ k[p].contents # nilCell
  <2>1. PICK b : b = k[p].contents OBVIOUS
  <2>2. b = Below(k, p) /\ b \in Cells /\ b # nilCell
    <3>1. k[p].contents = Below(k, p) /\ k[p].contents \in Cells BY ONLY <1>2, Fields
    <3> QED BY ONLY <1>7, <2>1, <3>1
  <2>3. PICK e : e = Last(Chain(k, b)) OBVIOUS
  <2>4. EndOf(k, p, e) BY ONLY <1>2, <2>2, <2>3, LastIsEnd
  <2>5. m2 = NextSet(ma, e, z) BY ONLY <1>3, <1>7, <2>1, <2>3
  <2> QED BY ONLY <1>4, <2>4, <2>5
<1> QED BY ONLY <1>5, <1>6, <1>7

\* push at the end of a list.
LEMMA PushEndHolds ==
  ASSUME IndInv, IndInv', PushEnd, mem'.process = "runs"
  PROVE  HoldValues
<1>1. Runs BY DEF PushEnd, Waiting
<1>2. PICK R : Ready(mem, contents, results, frames, lost, value, R) BY ONLY IndInv, <1>1, InvReady
<1>3. PICK f : f = Last(frames) OBVIOUS
<1>4. PICK s : s = f.sym OBVIOUS
<1>5. PICK p : p = contents[s] OBVIOUS
<1>6. PICK new : new = Taking(mem, results, value) OBVIOUS
<1>7. CopyCell(mem, value) = new BY <1>6, CopyIsTaking
<1>8. PICK z : z = new.cell OBVIOUS
<1>9. PICK h0 : h0 = mem.heap OBVIOUS
<1>10. PICK ma : ma = AuxSet(new.mem, p, z) OBVIOUS
<1>11. ma = [new.mem EXCEPT !.heap[p].aux = z] BY ONLY <1>10 DEF AuxSet
<1>12. /\ frames # <<>> /\ value # NULL /\ f.fn = "append" /\ h0[p].type = "list"
       /\ EndMade(h0, ma, p, z, mem')
       /\ frames' = Front(frames) /\ contents' = contents
  <2> DEFINE made == IF h0[p].aux # nilCell THEN [ma EXCEPT !.heap[h0[p].aux].next = z]
                     ELSE IF h0[p].contents = nilCell THEN [ma EXCEPT !.heap[p].contents = z]
                     ELSE [ma EXCEPT !.heap[Last(Chain(h0, h0[p].contents))].next = z]
  <2>1. p = contents[Last(frames).sym] BY ONLY <1>3, <1>4, <1>5
  <2>2. /\ Waiting("append") /\ IsList(p) /\ Pop /\ UNCHANGED <<contents, lost, calls>>
    BY ONLY <2>1, PushEnd DEF PushEnd, Top
  <2>3. PICK e \in {CopyCell(mem, value)}, q \in {contents[Top.sym]},
             j \in {mem.heap[contents[Top.sym]]} :
          Refer(LET m == [e.mem EXCEPT !.heap[q].aux = e.cell] IN
                IF j.aux # nilCell THEN [m EXCEPT !.heap[j.aux].next = e.cell]
                ELSE IF j.contents = nilCell THEN [m EXCEPT !.heap[q].contents = e.cell]
                ELSE [m EXCEPT !.heap[Last(Chain(mem.heap, j.contents))].next = e.cell],
                e.results, q) BY ONLY PushEnd DEF PushEnd
  <2>4. e = new /\ q = p /\ j = h0[p] /\ e.cell = z /\ mem.heap = h0
    BY ONLY <1>7, <1>8, <1>9, <2>1, <2>3 DEF Top
  <2>5. [e.mem EXCEPT !.heap[q].aux = e.cell] = ma BY ONLY <1>11, <2>4
  <2>6. mem' = IF j.aux # nilCell
               THEN [[e.mem EXCEPT !.heap[q].aux = e.cell] EXCEPT !.heap[j.aux].next = e.cell]
               ELSE IF j.contents = nilCell
               THEN [[e.mem EXCEPT !.heap[q].aux = e.cell] EXCEPT !.heap[q].contents = e.cell]
               ELSE [[e.mem EXCEPT !.heap[q].aux = e.cell]
                       EXCEPT !.heap[Last(Chain(mem.heap, j.contents))].next = e.cell]
    BY ONLY <2>3 DEF Refer
  <2>7. mem' = made
    <3>1. mem' = IF j.aux # nilCell THEN [ma EXCEPT !.heap[j.aux].next = e.cell]
                 ELSE IF j.contents = nilCell THEN [ma EXCEPT !.heap[q].contents = e.cell]
                 ELSE [ma EXCEPT !.heap[Last(Chain(mem.heap, j.contents))].next = e.cell]
      BY ONLY <2>5, <2>6
    <3> QED BY ONLY <2>4, <3>1
  <2> HIDE DEF made
  <2>8. made = IF h0[p].aux # nilCell THEN NextSet(ma, h0[p].aux, z)
               ELSE IF h0[p].contents = nilCell THEN ContentsSet(ma, p, z)
               ELSE NextSet(ma, Last(Chain(h0, h0[p].contents)), z)
    BY ONLY DEF made, NextSet, ContentsSet
  <2>9. EndMade(h0, ma, p, z, mem') BY ONLY <2>7, <2>8 DEF EndMade
  <2> QED BY ONLY <1>3, <1>9, <2>2, <2>9 DEF Waiting, Top, Pop, IsList
<1>13. frames \in Seq(Frames) /\ Framed(frames, mem.heap) BY ONLY <1>2, ReadyFacts
<1>14. s \in Syms
  <2>1. Last(frames).fn \in {"set", "push", "append"} BY ONLY <1>3, <1>12
  <2>2. Last(frames).sym \in Syms BY ONLY <1>12, <1>13, <2>1, TopSymbol
  <2> QED BY ONLY <1>3, <1>4, <2>2
<1>15. new.mem.process = "runs"
  <2>1. ma.process = new.mem.process BY ONLY <1>10 DEF AuxSet
  <2>2. PICK m2 : m2 = mem' OBVIOUS
  <2>3. EndMade(h0, ma, p, z, m2) /\ m2.process = "runs" BY ONLY <1>12, <2>2, mem'.process = "runs"
  <2>4. PICK e : m2 = NextSet(ma, e, z) \/ m2 = ContentsSet(ma, p, z) BY ONLY <2>3 DEF EndMade
  <2>5. CASE m2 = NextSet(ma, e, z)
    <3>1. m2 = [ma EXCEPT !.heap[e].next = z] BY ONLY <2>5 DEF NextSet
    <3>2. m2.process = ma.process BY ONLY <3>1
    <3> QED BY ONLY <2>1, <2>3, <3>2
  <2>6. CASE m2 = ContentsSet(ma, p, z)
    <3>1. m2 = [ma EXCEPT !.heap[p].contents = z] BY ONLY <2>6 DEF ContentsSet
    <3>2. m2.process = ma.process BY ONLY <3>1
    <3> QED BY ONLY <2>1, <2>3, <3>2
  <2> QED BY ONLY <2>4, <2>5, <2>6
<1>16. mem.heap[p].type = "list" BY ONLY <1>9, <1>12
<1>17. PICK Q : TookHeap(mem, p, new, Q)
  <2>1. \E Q : TookHeap(mem, p, new, Q)
    BY ONLY <1>2, <1>5, <1>6, <1>12, <1>14, <1>15, <1>16, TookHeaped
  <2> QED BY ONLY <2>1
<1>18. PICK h, g, m, m2 : h = new.mem.heap /\ g = mem'.heap /\ m = mem /\ m2 = mem' OBVIOUS
<1>19. PICK P : Settled(mem'.heap, contents', P) BY ONLY IndInv', mem'.process = "runs", NextSettled
<1>20. Shape(g, P) BY ONLY <1>18, <1>19 DEF Settled
<1>21. p \in Alive(m.heap)
  <2>1. mem.heap[contents[s]].type = "list" BY ONLY <1>5, <1>16
  <2>2. contents[s] \in Alive(mem.heap) BY ONLY <1>2, <1>14, <2>1, SymbolAlive
  <2> QED BY ONLY <1>5, <1>18, <2>2
<1>22. PICK E : Ended(h, Q, p, z, E, g) /\ E \subseteq Tree(m.heap, p)
  <2>1. PICK ct, rs, fs, ls, v : Ready(m, ct, rs, fs, ls, v, R) BY ONLY <1>2, <1>18
  <2>2. m.heap[p].type = "list" /\ TookHeap(m, p, new, Q) /\ EndMade(m.heap, ma, p, z, m2) /\ g = m2.heap
    BY ONLY <1>9, <1>12, <1>16, <1>17, <1>18
  <2>3. h = new.mem.heap BY ONLY <1>18
  <2>4. \E E : Ended(h, Q, p, z, E, g) /\ E \subseteq Tree(m.heap, p)
    BY ONLY <1>8, <1>10, <1>20, <1>21, <2>1, <2>2, <2>3, EndFound
  <2> QED BY ONLY <2>4
<1>23. PICK fn : fn = "append" OBVIOUS
<1>24. Hung(h, Q, p, z, E, g) /\ ListGot(fn, Prints(h, z), Prints(h, p), Prints(g, p))
  BY ONLY <1>22, <1>23 DEF Ended
<1>25. f.fn = fn /\ f.sym = s BY ONLY <1>4, <1>12, <1>23
<1>26. E \cap Alive(mem.heap) \subseteq Tree(mem.heap, p) BY ONLY <1>18, <1>22
<1>27. h = new.mem.heap /\ g = mem'.heap BY ONLY <1>18
<1> QED BY ONLY <1>2, <1>3, <1>5, <1>6, <1>8, <1>12, <1>14, <1>15, <1>16, <1>24, <1>25, <1>26,
     <1>27,
                IndInv', mem'.process = "runs", PushedHolds

\* Every step gives symbols only the values that functions give them.
LEMMA StepHolds ==
  ASSUME "selfpush" \notin Events, IndInv, [Next]_vars, mem'.process = "runs"
  PROVE  HoldValues
<1>1. IndInv' BY ONLY "selfpush" \notin Events, IndInv, [Next]_vars, StepKeeps
<1>2. CASE UNCHANGED <<mem, contents>> BY ONLY <1>2, HoldQuiet
<1>3. CASE ReadProgram \/ ProgramEnds \/ ResetNil
  BY ONLY <1>1, <1>3, IndInv, mem'.process = "runs", ReadProgramHolds, ProgramEndsHolds,
       ResetNilHolds
<1>4. CASE \E s \in Syms : PopFirst(s) \/ PopLast(s)
  BY ONLY <1>1, <1>4, IndInv, mem'.process = "runs", PopFirstHolds, PopLastHolds
<1>5. CASE CallList \/ ListItem \/ ListEnds
  BY ONLY <1>1, <1>5, IndInv, mem'.process = "runs", CallListHolds, ListItemHolds, ListEndsHolds
<1>6. CASE Set \/ CatchEnds \/ Throw
  BY ONLY <1>1, <1>6, IndInv, mem'.process = "runs", SetHolds, CatchEndsHolds, ThrowHolds
<1>7. CASE PushOnNil \/ PushFront \/ PushEnd
  BY ONLY <1>1, <1>7, IndInv, mem'.process = "runs", "selfpush" \notin Events, PushOnNilHolds,
          PushFrontHolds, PushEndHolds
<1>8. CASE ErrorCaught \/ ErrorUncaught
  BY ONLY <1>1, <1>8, IndInv, mem'.process = "runs", ErrorCaughtHolds, ErrorUncaughtHolds
<1>9. CASE UNCHANGED vars
  <2>1. UNCHANGED <<mem, contents>> BY ONLY <1>9 DEF vars
  <2> QED BY ONLY <2>1, HoldQuiet
<1>10. CASE EvalConstant \/ BeginNext \/ BeginEnds \/ First
  <2>1. UNCHANGED <<mem, contents>>
    BY ONLY <1>10 DEF EvalConstant, BeginNext, BeginEnds, First, Refer
  <2> QED BY ONLY <2>1, HoldQuiet
<1>11. CASE \E s \in Syms : EvalSymbol(s)
  <2>1. UNCHANGED <<mem, contents>> BY ONLY <1>11 DEF EvalSymbol
  <2> QED BY ONLY <2>1, HoldQuiet
<1>12. CASE \/ \E s \in Syms, g \in {"set", "push", "append", "catch"} : Enter(g, s)
            \/ \E g \in {"begin", "first", "catch"} : Enter(g, "")
            \/ "throw" \in Events /\ Catches(FALSE) # {} /\ Enter("throw", "")
  <2>1. UNCHANGED <<mem, contents>> BY ONLY <1>12 DEF Enter
  <2> QED BY ONLY <2>1, HoldQuiet
<1> QED BY ONLY [Next]_vars, <1>3, <1>4, <1>5, <1>6, <1>7, <1>8, <1>9, <1>10, <1>11, <1>12 DEF Next

\* What VariablesHoldValues says of a step.
ValuesStep == mem'.process = "runs" => HoldValues

\* Variables behave as if each held its own copy of its value: in every step, of any program, what
\* a symbol prints stays as it was unless a function of that symbol ends in that step and gives it
\* what that function is for.
THEOREM ValuesKept == "selfpush" \notin Events => (Spec => VariablesHoldValues)
<1> SUFFICES ASSUME "selfpush" \notin Events PROVE Spec => VariablesHoldValues OBVIOUS
<1>1. Spec => [](IndInv /\ LostApart) BY MemoryKept
<1>2. IndInv /\ [Next]_vars => [ValuesStep]_vars
  <2> SUFFICES ASSUME IndInv, [Next]_vars PROVE ValuesStep OBVIOUS
  <2>1. ASSUME mem'.process = "runs" PROVE HoldValues
    BY ONLY <2>1, "selfpush" \notin Events, IndInv, [Next]_vars, StepHolds
  <2> QED BY ONLY <2>1 DEF ValuesStep
<1>3. Spec => [][ValuesStep]_vars BY <1>1, <1>2, PTL DEF Spec
<1>4. VariablesHoldValues <=> [][ValuesStep]_vars
  BY DEF VariablesHoldValues, ValuesStep, HoldValues, HoldsValue
<1> QED BY <1>3, <1>4
=============================================================================
