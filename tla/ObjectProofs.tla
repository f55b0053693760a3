---------------------------- MODULE ObjectProofs ----------------------------
(***************************************************************************)
(* Theorems about Objects, for any variables, any of them constants, any   *)
(* depth of calls and any number of jumps.                                 *)
(*                                                                         *)
(* What the registers should hold is a matter of the frames below: Means   *)
(* and SelfFits say it of any prefix of the stack, so that they can be     *)
(* said of the registers as they are and of those a frame has saved.       *)
(***************************************************************************)
EXTENDS Objects, FiniteSetTheorems, SequenceTheorems, WellFoundedInduction, TLAPS

Named == (Vars \cup {None}) \cup (Nat \ {Same})
Left == Named \cup {Same}

ColonFrames == [kind : {"colon"}, at : {"call", "called"}, obj : Named, left : Left,
                self : Named, objCell : Named, guarded : BOOLEAN]
CatchFrames == [kind : {"catch"}, at : {"body"}, left : Left, self : Named, objCell : Named]
PlainFrames == [kind : {"lambda", "macro", "eval"}, at : {"args", "body"}, left : Left]
Frames == ColonFrames \cup CatchFrames \cup PlainFrames

Types ==
  /\ stack \in Seq(Frames)
  /\ self \in Named /\ objCell \in Named /\ guarded \in BOOLEAN
  /\ jump \in {"none", "throw", "error"}
  /\ base \in Left /\ exposed \in BOOLEAN

\* The frames that say which object is meant.
Mark(f) == f.kind = "colon" \/ f.left # Same
Value(f) == IF f.left # Same THEN f.left ELSE f.obj

\* With the first j frames on the stack, o is the object that is meant.
Means(st, b, j, o) ==
  /\ \A k \in 1..j : Mark(st[k]) /\ (\A m \in k + 1 .. j : ~Mark(st[m])) => o = Value(st[k])
  /\ (\A m \in 1..j : ~Mark(st[m])) => o = IF b # Same THEN b ELSE None

\* Frame k is that of a method; or it changes nothing of what (self) is.
OnColon(st, k) == k > 1 /\ st[k - 1].kind = "colon"
Passive(st, k) ==
  /\ st[k].left = Same
  /\ \/ st[k].kind \in {"catch", "eval"}
     \/ st[k].kind = "lambda" /\ st[k].at = "args" /\ ~OnColon(st, k)

\* What frame k, as long as no error has left anything in it, asks of (self).
Fits(st, k, s, o) ==
  /\ st[k].kind = "colon" /\ st[k].at = "call" => s = st[k].self
  /\ st[k].left = Same =>
       /\ st[k].kind = "lambda" /\ st[k].at = "body" => s = o
       /\ st[k].kind \in {"lambda", "macro"} /\ OnColon(st, k) => s \in {st[k - 1].self, o}
SelfFits(st, b, j, s, o) ==
  /\ \A k \in 1..j : (\A m \in k + 1 .. j : Passive(st, m)) => Fits(st, k, s, o)
  /\ (\A m \in 1..j : Passive(st, m)) /\ b = Same => s = None

Right(st, b, j, s, o) == Means(st, b, j, o) /\ SelfFits(st, b, j, s, o)

\* A method's frame is above that of its colon operator, and nothing else is.
Methods(st) ==
  \A k \in DOMAIN st :
    /\ st[k].kind = "macro" => OnColon(st, k)
    /\ OnColon(st, k) => st[k].kind \in {"lambda", "macro"} /\ st[k - 1].at = "called"

Saves(f) == f.kind \in {"colon", "catch"}
Saved(st, b) ==
  \A i \in DOMAIN st : Saves(st[i]) => Right(st, b, i - 1, st[i].self, st[i].objCell)

\* Until a jump leaves a method the flags are those of the object, wherever they
\* are kept; and catch has nothing to put back.
NoColon(st, i, j) == \A m \in i + 1 .. j : st[m].kind # "colon"
Kept(st, o, g) ==
  /\ o \in Protected => g
  /\ \A i \in DOMAIN st :
       /\ st[i].kind = "colon" => (st[i].objCell \in Protected => st[i].guarded)
       /\ st[i].kind = "catch" =>
            /\ NoColon(st, i, Len(st)) => st[i].objCell = o
            /\ \A k \in i + 1 .. Len(st) :
                 st[k].kind = "colon" /\ NoColon(st, i, k - 1) => st[i].objCell = st[k].objCell

IInv ==
  /\ Types /\ Methods(stack) /\ Saved(stack, base)
  /\ jump = "none" => Right(stack, base, Len(stack), self, objCell)
  /\ ~exposed => ConstantsKept /\ Kept(stack, objCell, guarded)
----------------------------------------
(* Sequences and frames. *)

\* A frame pushed on a stack.
LEMMA Grown ==
  ASSUME NEW q \in Seq(Frames), NEW f \in Frames
  PROVE  /\ Append(q, f) \in Seq(Frames) /\ Len(Append(q, f)) = Len(q) + 1
         /\ Append(q, f)[Len(q) + 1] = f
         /\ \A m \in 1 .. Len(q) : Append(q, f)[m] = q[m]
OBVIOUS

\* What is left of a stack.
LEMMA Cut ==
  ASSUME NEW q \in Seq(Frames), NEW d \in 0 .. Len(q)
  PROVE  /\ SubSeq(q, 1, d) \in Seq(Frames) /\ Len(SubSeq(q, 1, d)) = d
         /\ \A m \in 1..d : SubSeq(q, 1, d)[m] = q[m]
OBVIOUS

\* A stack whose innermost frame is changed.
LEMMA Put ==
  ASSUME NEW q \in Seq(Frames), q # <<>>, NEW f \in Frames
  PROVE  /\ [q EXCEPT ![Len(q)] = f] \in Seq(Frames) /\ Len([q EXCEPT ![Len(q)] = f]) = Len(q)
         /\ [q EXCEPT ![Len(q)] = f][Len(q)] = f
         /\ \A m \in 1 .. Len(q) - 1 : [q EXCEPT ![Len(q)] = f][m] = q[m]
<1>1. Len(q) \in 1 .. Len(q) OBVIOUS
<1> QED BY <1>1

\* The fields of frames.
LEMMA Fields ==
  ASSUME NEW f \in Frames
  PROVE  /\ f.kind \in {"colon", "catch", "lambda", "macro", "eval"} /\ f.left \in Left
         /\ f.kind = "colon" => /\ f.at \in {"call", "called"} /\ f.obj \in Named
                                /\ f.guarded \in BOOLEAN
         /\ Saves(f) => f.self \in Named /\ f.objCell \in Named
BY DEF Frames, ColonFrames, CatchFrames, PlainFrames, Saves

\* What an error leaves in a frame changes nothing else of it.
LEMMA LeftIn ==
  ASSUME NEW f \in Frames, NEW v \in Left, NEW g, g = [f EXCEPT !.left = v]
  PROVE  /\ g \in Frames /\ g.left = v /\ g.kind = f.kind /\ g.at = f.at
         /\ Saves(f) => g.self = f.self /\ g.objCell = f.objCell
         /\ f.kind = "colon" => g.guarded = f.guarded
<1>1. CASE f \in ColonFrames BY <1>1 DEF Frames, ColonFrames, Saves
<1>2. CASE f \in CatchFrames BY <1>2 DEF Frames, CatchFrames, Saves
<1>3. CASE f \in PlainFrames BY <1>3 DEF Frames, PlainFrames, Saves
<1> QED BY <1>1, <1>2, <1>3 DEF Frames

\* The colon operator has called; a body begins.
LEMMA AtNext ==
  ASSUME NEW f \in Frames, NEW a, NEW g, g = [f EXCEPT !.at = a],
         \/ f.kind = "colon" /\ a = "called"
         \/ f.kind = "lambda" /\ a = "body"
  PROVE  /\ g \in Frames /\ g.left = f.left /\ g.kind = f.kind /\ g.at = a
         /\ Saves(f) => g.self = f.self /\ g.objCell = f.objCell
         /\ f.kind = "colon" => g.guarded = f.guarded /\ g.obj = f.obj
<1>1. CASE f \in ColonFrames BY <1>1 DEF Frames, ColonFrames, Saves
<1>2. CASE f \in CatchFrames BY <1>2 DEF Frames, CatchFrames, Saves
<1>3. CASE f \in PlainFrames BY <1>3 DEF Frames, PlainFrames, Saves
<1> QED BY <1>1, <1>2, <1>3 DEF Frames

----------------------------------------
(* Which object is meant, of one stack and the next. *)

\* It depends on the frames up to j only.
LEMMA RightAgree ==
  ASSUME NEW q, NEW r, NEW b, NEW j \in Nat, NEW s, NEW o,
         \A m \in 1..j : r[m] = q[m], Right(q, b, j, s, o)
  PROVE  Right(r, b, j, s, o)
<1>1. \A m \in 1..j : (Passive(r, m) <=> Passive(q, m)) /\ (Mark(r[m]) <=> Mark(q[m]))
  BY DEF Passive, OnColon, Mark
<1>2. ASSUME NEW m \in 1..j, Fits(q, m, s, o) PROVE Fits(r, m, s, o)
  <2>1. r[m] = q[m] /\ (m > 1 => r[m - 1] = q[m - 1]) OBVIOUS
  <2>2. OnColon(r, m) <=> OnColon(q, m) BY <2>1 DEF OnColon
  <2>3. OnColon(r, m) => r[m - 1] = q[m - 1] BY <2>1 DEF OnColon
  <2> HIDE DEF OnColon
  <2> QED BY <1>2, <2>1, <2>2, <2>3 DEF Fits
<1>3. Means(r, b, j, o) BY <1>1 DEF Right, Means, Value
<1>4. SelfFits(r, b, j, s, o) BY <1>1, <1>2 DEF Right, SelfFits
<1> QED BY <1>3, <1>4 DEF Right

\* A frame that is not marked does not change it.
LEMMA MeansUnmarked ==
  ASSUME NEW q, NEW b, NEW j \in Nat, NEW o, ~Mark(q[j + 1])
  PROVE  Means(q, b, j, o) <=> Means(q, b, j + 1, o)
<1>1. ASSUME Means(q, b, j, o) PROVE Means(q, b, j + 1, o) BY <1>1 DEF Means
<1>2. ASSUME Means(q, b, j + 1, o) PROVE Means(q, b, j, o)
  <2>1. ASSUME NEW k \in 1..j, Mark(q[k]), \A m \in k + 1 .. j : ~Mark(q[m])
        PROVE  o = Value(q[k])
    <3>1. \A m \in k + 1 .. j + 1 : ~Mark(q[m]) BY <2>1
    <3> QED BY <1>2, <2>1, <3>1 DEF Means
  <2>2. ASSUME \A m \in 1..j : ~Mark(q[m]) PROVE \A m \in 1 .. j + 1 : ~Mark(q[m]) BY <2>2
  <2> QED BY <1>2, <2>1, <2>2 DEF Means
<1> QED BY <1>1, <1>2

\* Nor does a passive one change (self).
LEMMA RightPassive ==
  ASSUME NEW q, NEW b, NEW j \in Nat, NEW s, NEW o, Passive(q, j + 1)
  PROVE  Right(q, b, j, s, o) <=> Right(q, b, j + 1, s, o)
<1>1. ~Mark(q[j + 1]) BY DEF Passive, Mark
<1>2. Means(q, b, j, o) <=> Means(q, b, j + 1, o) BY <1>1, MeansUnmarked
<1>3. Fits(q, j + 1, s, o) BY DEF Passive, Fits
<1>4. ASSUME SelfFits(q, b, j, s, o) PROVE SelfFits(q, b, j + 1, s, o)
  <2>1. ASSUME NEW k \in 1 .. j + 1, \A m \in k + 1 .. j + 1 : Passive(q, m)
        PROVE  Fits(q, k, s, o)
    <3>1. CASE k = j + 1 BY <1>3, <3>1
    <3>2. CASE k \in 1..j
      <4>1. \A m \in k + 1 .. j : Passive(q, m) BY <2>1
      <4> QED BY <1>4, <3>2, <4>1 DEF SelfFits
    <3> QED BY <3>1, <3>2
  <2> QED BY <1>4, <2>1 DEF SelfFits
<1>5. ASSUME SelfFits(q, b, j + 1, s, o) PROVE SelfFits(q, b, j, s, o)
  <2>1. ASSUME NEW k \in 1..j, \A m \in k + 1 .. j : Passive(q, m)
        PROVE  Fits(q, k, s, o)
    <3>1. \A m \in k + 1 .. j + 1 : Passive(q, m) BY <2>1
    <3> QED BY <1>5, <3>1 DEF SelfFits
  <2>2. ASSUME \A m \in 1..j : Passive(q, m) PROVE \A m \in 1 .. j + 1 : Passive(q, m) BY <2>2
  <2> QED BY <1>5, <2>1, <2>2 DEF SelfFits
<1> QED BY <1>2, <1>4, <1>5 DEF Right

\* An error has left its object in the innermost frame, or at the top level.
LEMMA RightLeft ==
  ASSUME NEW q, NEW b, NEW j \in Nat \ {0}, NEW s, NEW o,
         q[j].left # Same, q[j].left = o, ~(q[j].kind = "colon" /\ q[j].at = "call")
  PROVE  Right(q, b, j, s, o)
<1>1. Mark(q[j]) /\ Value(q[j]) = o /\ ~Passive(q, j) BY DEF Mark, Value, Passive
<1>2. \A k \in 1 .. j - 1 : j \in k + 1 .. j OBVIOUS
<1>3. Means(q, b, j, o) BY <1>1, <1>2 DEF Means
<1>4. Fits(q, j, s, o) BY DEF Fits
<1>5. SelfFits(q, b, j, s, o) BY <1>1, <1>2, <1>4 DEF SelfFits
<1> QED BY <1>3, <1>5 DEF Right

\* At the top level, with what an error has left there or nothing.
LEMMA RightAtTop ==
  ASSUME NEW q, NEW b, NEW s, NEW o, IF b = Same THEN s = None /\ o = None ELSE o = b
  PROVE  Right(q, b, 0, s, o)
BY DEF Right, Means, SelfFits

\* The colon operator sets objCell.
LEMMA RightColon ==
  ASSUME NEW q, NEW b, NEW j \in Nat, NEW s, NEW o,
         q[j + 1].kind = "colon", q[j + 1].left = Same, q[j + 1].obj = o, q[j + 1].self = s
  PROVE  Right(q, b, j + 1, s, o)
<1>1. Mark(q[j + 1]) /\ Value(q[j + 1]) = o /\ ~Passive(q, j + 1) BY DEF Mark, Value, Passive
<1>2. \A k \in 1..j : j + 1 \in k + 1 .. j + 1 OBVIOUS
<1>3. Means(q, b, j + 1, o) BY <1>1, <1>2 DEF Means
<1>4. Fits(q, j + 1, s, o) BY DEF Fits
<1>5. SelfFits(q, b, j + 1, s, o) BY <1>1, <1>2, <1>4 DEF SelfFits
<1> QED BY <1>3, <1>5 DEF Right

\* Its method is called: while the arguments are evaluated, and in a macro's body,
\* (self) may still be the caller's.
LEMMA RightMethod ==
  ASSUME NEW q, NEW r, NEW b, NEW j \in Nat \ {0}, NEW s, NEW o, Right(q, b, j, s, o),
         q[j].kind = "colon", q[j].at = "call",
         \A m \in 1 .. j - 1 : r[m] = q[m],
         r[j].kind = "colon", r[j].at = "called", r[j].left = q[j].left, r[j].obj = q[j].obj,
         r[j].self = q[j].self,
         \/ r[j + 1].kind = "lambda" /\ r[j + 1].at = "args"
         \/ r[j + 1].kind = "macro",
         r[j + 1].left = Same
  PROVE  Right(r, b, j + 1, s, o)
<1>1. s = q[j].self
  <2>1. \A m \in j + 1 .. j : Passive(q, m) OBVIOUS
  <2> QED BY <2>1 DEF Right, SelfFits, Fits
<1>2. o = Value(q[j])
  <2>1. Mark(q[j]) /\ \A m \in j + 1 .. j : ~Mark(q[m]) BY DEF Mark
  <2> QED BY <2>1 DEF Right, Means
<1>3. Mark(r[j]) /\ Value(r[j]) = o /\ ~Mark(r[j + 1]) BY <1>2 DEF Mark, Value
<1>4. \A k \in 1 .. j - 1 : j \in k + 1 .. j OBVIOUS
<1>5. Means(r, b, j, o) BY <1>3, <1>4 DEF Means
<1>6. Means(r, b, j + 1, o) BY <1>3, <1>5, MeansUnmarked
<1>7. OnColon(r, j + 1) BY DEF OnColon
<1>8. ~Passive(r, j + 1) BY <1>7 DEF Passive
<1>9. Fits(r, j + 1, s, o) BY <1>1, <1>7 DEF Fits
<1>10. \A k \in 1..j : j + 1 \in k + 1 .. j + 1 OBVIOUS
<1>11. SelfFits(r, b, j + 1, s, o) BY <1>8, <1>9, <1>10 DEF SelfFits
<1> QED BY <1>6, <1>11 DEF Right

\* A body begins: (self) is objCell.
LEMMA RightBody ==
  ASSUME NEW q, NEW r, NEW b, NEW j \in Nat \ {0}, NEW s, NEW o, Right(q, b, j, s, o),
         \A m \in 1 .. j - 1 : r[m] = q[m],
         q[j].kind = "lambda", r[j].kind = "lambda", r[j].at = "body", r[j].left = q[j].left
  PROVE  Right(r, b, j, o, o)
<1>1. \A m \in 1..j : Mark(r[m]) <=> Mark(q[m]) BY DEF Mark
<1>2. \A m \in 1..j : Mark(q[m]) => Value(r[m]) = Value(q[m]) BY DEF Mark, Value
<1>3. Means(r, b, j, o) BY <1>1, <1>2 DEF Right, Means
<1>4. ~Passive(r, j) /\ Fits(r, j, o, o) BY DEF Passive, Fits
<1>5. \A k \in 1 .. j - 1 : j \in k + 1 .. j OBVIOUS
<1>6. SelfFits(r, b, j, o, o) BY <1>4, <1>5 DEF SelfFits
<1> QED BY <1>3, <1>6 DEF Right

\* A function returns, and no error has left anything in its frame: the caller's
\* registers are as right as its own.
LEMMA RightReturn ==
  ASSUME NEW q \in Seq(Frames), NEW b, NEW j \in Nat, NEW s, NEW o, Len(q) = j + 1,
         Methods(q), Right(q, b, j + 1, s, o), q[j + 1].kind # "colon", q[j + 1].at = "body",
         q[j + 1].left = Same
  PROVE  Right(q, b, j, s, o)
<1>1. q[j + 1] \in Frames /\ DOMAIN q = 1 .. j + 1 OBVIOUS
<1>2. q[j + 1].kind \in {"catch", "lambda", "macro", "eval"} BY <1>1, Fields
<1>3. CASE q[j + 1].kind \in {"catch", "eval"}
  <2>1. Passive(q, j + 1) BY <1>3 DEF Passive
  <2> QED BY <2>1, RightPassive
<1>4. Means(q, b, j, o)
  <2>1. ~Mark(q[j + 1]) BY DEF Mark
  <2> QED BY <2>1, MeansUnmarked DEF Right
<1>5. ASSUME NEW k \in 1..j PROVE ~(q[k].kind = "colon" /\ q[k].at = "call")
  <2>1. q[k].kind = "colon" => OnColon(q, k + 1) BY DEF OnColon
  <2>2. OnColon(q, k + 1) => q[(k + 1) - 1].at = "called" BY <1>1 DEF Methods
  <2>3. (k + 1) - 1 = k OBVIOUS
  <2> QED BY <2>1, <2>2, <2>3
<1>6. CASE q[j + 1].kind = "lambda"
  <2>1. s = o
    <3>1. \A m \in (j + 1) + 1 .. j + 1 : Passive(q, m) OBVIOUS
    <3>2. Fits(q, j + 1, s, o) BY <3>1 DEF Right, SelfFits
    <3> QED BY <1>6, <3>2 DEF Fits
  <2>2. \A k \in 1..j : Fits(q, k, s, o) BY <1>5, <2>1 DEF Fits
  <2>3. ASSUME \A m \in 1..j : Passive(q, m), b = Same PROVE s = None
    <3>1. \A m \in 1..j : ~Mark(q[m]) BY <2>3 DEF Passive, Mark
    <3> QED BY <1>4, <2>1, <2>3, <3>1 DEF Means
  <2>4. SelfFits(q, b, j, s, o) BY <2>2, <2>3 DEF SelfFits
  <2> QED BY <1>4, <2>4 DEF Right
<1>7. CASE q[j + 1].kind = "macro"
  <2>1. j > 0 /\ q[j].kind = "colon"
    <3>1. OnColon(q, j + 1) BY <1>1, <1>7 DEF Methods
    <3> QED BY <3>1 DEF OnColon
  <2>2. ~Passive(q, j) BY <2>1 DEF Passive
  <2>3. \A k \in 1 .. j - 1 : j \in k + 1 .. j OBVIOUS
  <2>4. Fits(q, j, s, o) BY <1>5, <2>1 DEF Fits
  <2>5. SelfFits(q, b, j, s, o) BY <2>1, <2>2, <2>3, <2>4 DEF SelfFits
  <2> QED BY <1>4, <2>5 DEF Right
<1> QED BY <1>2, <1>3, <1>6, <1>7

----------------------------------------
(* The other parts of the invariant, of one stack and the next. *)

\* A stack that is cut to d frames, the last of which may have changed, but for what
\* it has saved.
Shortened(q, r, d) ==
  /\ Len(r) = d /\ d <= Len(q)
  /\ \A m \in 1 .. d - 1 : r[m] = q[m]
  /\ d > 0 => /\ r[d].kind = q[d].kind
              /\ Saves(q[d]) => r[d].self = q[d].self /\ r[d].objCell = q[d].objCell
              /\ q[d].kind = "colon" => r[d].guarded = q[d].guarded

\* What the frames have saved is right in a shorter stack.
LEMMA SavedCut ==
  ASSUME NEW q \in Seq(Frames), NEW r \in Seq(Frames), NEW b, NEW d \in Nat,
         Saved(q, b), Shortened(q, r, d)
  PROVE  Saved(r, b)
<1>1. DOMAIN r = 1..d /\ DOMAIN q = 1 .. Len(q) BY DEF Shortened
<1>2. ASSUME NEW i \in 1..d, Saves(r[i])
      PROVE  Right(r, b, i - 1, r[i].self, r[i].objCell)
  <2>1. Saves(q[i]) /\ r[i].self = q[i].self /\ r[i].objCell = q[i].objCell
    BY <1>2 DEF Shortened, Saves
  <2>2. i \in DOMAIN q BY <1>1 DEF Shortened
  <2>3. Right(q, b, i - 1, q[i].self, q[i].objCell) BY <2>1, <2>2 DEF Saved
  <2>4. i - 1 \in Nat /\ \A m \in 1 .. i - 1 : r[m] = q[m] BY DEF Shortened
  <2> HIDE DEF Saved
  <2>5. Right(r, b, i - 1, q[i].self, q[i].objCell) BY <2>3, <2>4, RightAgree
  <2> QED BY <2>1, <2>5
<1> QED BY <1>1, <1>2 DEF Saved

\* So is what one more frame saves.
LEMMA SavedPush ==
  ASSUME NEW q \in Seq(Frames), NEW f \in Frames, NEW b, Saved(q, b),
         Saves(f) => Right(q, b, Len(q), f.self, f.objCell)
  PROVE  Saved(Append(q, f), b)
<1> DEFINE r == Append(q, f)
<1>1. /\ r \in Seq(Frames) /\ Len(r) = Len(q) + 1 /\ r[Len(q) + 1] = f
      /\ \A m \in 1 .. Len(q) : r[m] = q[m] BY Grown
<1> HIDE DEF r
<1>2. ASSUME NEW i \in 1 .. Len(q) + 1, Saves(r[i])
      PROVE  Right(r, b, i - 1, r[i].self, r[i].objCell)
  <2>1. Right(q, b, i - 1, r[i].self, r[i].objCell) BY <1>1, <1>2 DEF Saved
  <2>2. i - 1 \in Nat /\ \A m \in 1 .. i - 1 : r[m] = q[m] BY <1>1
  <2> QED BY <2>1, <2>2, RightAgree
<1>3. DOMAIN r = 1 .. Len(q) + 1 BY <1>1
<1>4. Saved(r, b) BY <1>2, <1>3 DEF Saved
<1> QED BY <1>4 DEF r

\* Methods stay above their colon operators.
LEMMA MethodsCut ==
  ASSUME NEW q \in Seq(Frames), NEW r \in Seq(Frames), NEW d \in Nat,
         Methods(q), Shortened(q, r, d)
  PROVE  Methods(r)
<1>1. DOMAIN r = 1..d /\ DOMAIN q = 1 .. Len(q) /\ 1..d \subseteq 1 .. Len(q) BY DEF Shortened
<1>2. ASSUME NEW k \in 1..d
      PROVE  /\ r[k].kind = q[k].kind
             /\ k > 1 => r[k - 1] = q[k - 1] BY DEF Shortened
<1>3. ASSUME NEW k \in 1..d PROVE OnColon(r, k) <=> OnColon(q, k) BY <1>2 DEF OnColon
<1>4. ASSUME NEW k \in 1..d
      PROVE  /\ r[k].kind = "macro" => OnColon(r, k)
             /\ OnColon(r, k) => r[k].kind \in {"lambda", "macro"} /\ r[k - 1].at = "called"
  <2>1. /\ q[k].kind = "macro" => OnColon(q, k)
        /\ OnColon(q, k) => q[k].kind \in {"lambda", "macro"} /\ q[k - 1].at = "called"
    BY <1>1 DEF Methods
  <2>2. OnColon(q, k) => k > 1 BY DEF OnColon
  <2> QED BY <1>2, <1>3, <2>1, <2>2
<1> QED BY <1>1, <1>4 DEF Methods

\* One more frame.
LEMMA MethodsPush ==
  ASSUME NEW q \in Seq(Frames), NEW f \in Frames, Methods(q),
         f.kind = "macro" => q # <<>> /\ q[Len(q)].kind = "colon",
         q # <<>> /\ q[Len(q)].kind = "colon" =>
           f.kind \in {"lambda", "macro"} /\ q[Len(q)].at = "called"
  PROVE  Methods(Append(q, f))
<1> DEFINE r == Append(q, f)
           n == Len(q)
<1>1. /\ r \in Seq(Frames) /\ Len(r) = n + 1 /\ r[n + 1] = f
      /\ \A m \in 1..n : r[m] = q[m] BY Grown
<1>2. n \in Nat /\ (q # <<>> <=> n > 0) /\ DOMAIN q = 1..n OBVIOUS
<1> HIDE DEF r, n
<1>3. DOMAIN r = 1 .. n + 1 BY <1>1
<1>4. ASSUME NEW k \in 1..n
      PROVE  /\ r[k].kind = "macro" => OnColon(r, k)
             /\ OnColon(r, k) => r[k].kind \in {"lambda", "macro"} /\ r[k - 1].at = "called"
  <2>1. /\ q[k].kind = "macro" => OnColon(q, k)
        /\ OnColon(q, k) => q[k].kind \in {"lambda", "macro"} /\ q[k - 1].at = "called"
    BY <1>2 DEF Methods
  <2>2. r[k] = q[k] /\ (k > 1 => r[k - 1] = q[k - 1]) BY <1>1, <1>2
  <2> QED BY <2>1, <2>2 DEF OnColon
<1>5. /\ r[n + 1].kind = "macro" => OnColon(r, n + 1)
      /\ OnColon(r, n + 1) => r[n + 1].kind \in {"lambda", "macro"} /\ r[(n + 1) - 1].at = "called"
  <2>1. (n + 1) - 1 = n /\ (n > 0 => r[n] = q[n]) BY <1>1, <1>2
  <2> QED BY <1>1, <1>2, <2>1 DEF OnColon, n
<1>6. Methods(r)
  <2>1. \A k \in 1 .. n + 1 : k \in 1..n \/ k = n + 1 BY <1>2
  <2> QED BY <1>3, <1>4, <1>5, <2>1 DEF Methods
<1> QED BY <1>6 DEF r

\* The flags, and what catch has saved: registers that do not change, and no frame of
\* the colon operator is dropped.
LEMMA KeptCut ==
  ASSUME NEW q \in Seq(Frames), NEW r \in Seq(Frames), NEW d \in Nat, NEW o, NEW g,
         Kept(q, o, g), Shortened(q, r, d), NoColon(q, d, Len(q))
  PROVE  Kept(r, o, g)
<1>1. DOMAIN r = 1..d /\ DOMAIN q = 1 .. Len(q) /\ 1..d \subseteq 1 .. Len(q) /\ Len(r) = d
      /\ d <= Len(q) /\ Len(q) \in Nat BY DEF Shortened
<1>2. ASSUME NEW k \in 1..d
      PROVE  /\ r[k].kind = q[k].kind
             /\ Saves(q[k]) => r[k].objCell = q[k].objCell
             /\ q[k].kind = "colon" => r[k].guarded = q[k].guarded BY DEF Shortened
<1>3. ASSUME NEW i \in 1..d, q[i].kind = "catch", NoColon(r, i, d)
      PROVE  q[i].objCell = o
  <2>1. NoColon(q, i, Len(q))
    <3>1. ASSUME NEW m \in i + 1 .. Len(q) PROVE q[m].kind # "colon"
      <4>1. CASE m \in i + 1 .. d BY <1>2, <1>3, <4>1 DEF NoColon
      <4>2. CASE m \in d + 1 .. Len(q) BY <4>2 DEF NoColon
      <4> QED BY <1>1, <4>1, <4>2
    <3> QED BY <3>1 DEF NoColon
  <2> QED BY <1>1, <1>3, <2>1 DEF Kept
<1>4. ASSUME NEW i \in 1..d, q[i].kind = "catch", NEW k \in i + 1 .. d, r[k].kind = "colon",
             NoColon(r, i, k - 1)
      PROVE  q[i].objCell = r[k].objCell
  <2>1. k \in 1..d /\ k \in i + 1 .. Len(q) BY <1>1
  <2>2. q[k].kind = "colon" /\ q[k].objCell = r[k].objCell BY <1>2, <1>4, <2>1 DEF Saves
  <2>3. NoColon(q, i, k - 1)
    <3>1. ASSUME NEW m \in i + 1 .. k - 1 PROVE q[m].kind # "colon"
      <4>1. m \in 1..d BY <1>1
      <4> QED BY <1>2, <1>4, <4>1 DEF NoColon
    <3> QED BY <3>1 DEF NoColon
  <2> QED BY <1>1, <1>4, <2>1, <2>2, <2>3 DEF Kept
<1>5. ASSUME NEW i \in 1..d, r[i].kind = "colon"
      PROVE  r[i].objCell \in Protected => r[i].guarded BY <1>1, <1>2, <1>5 DEF Kept, Saves
<1>6. ASSUME NEW i \in 1..d, r[i].kind = "catch"
      PROVE  q[i].kind = "catch" /\ r[i].objCell = q[i].objCell BY <1>2, <1>6 DEF Saves
<1>7. o \in Protected => g BY DEF Kept
<1> QED BY <1>1, <1>3, <1>4, <1>5, <1>6, <1>7 DEF Kept

\* The colon operator returns, and puts back what it has saved.
LEMMA KeptReturn ==
  ASSUME NEW q \in Seq(Frames), NEW r \in Seq(Frames), NEW d \in Nat, NEW o, NEW g,
         Kept(q, o, g), Len(q) = d + 1, q[d + 1].kind = "colon",
         Len(r) = d, \A m \in 1..d : r[m] = q[m]
  PROVE  Kept(r, q[d + 1].objCell, q[d + 1].guarded)
<1>1. DOMAIN r = 1..d /\ DOMAIN q = 1 .. d + 1 OBVIOUS
<1>2. q[d + 1].objCell \in Protected => q[d + 1].guarded BY <1>1 DEF Kept
<1>3. ASSUME NEW i \in 1..d, NEW k \in 1 .. d + 1, NoColon(r, i, k - 1)
      PROVE  NoColon(q, i, k - 1)
  <2>1. \A m \in i + 1 .. k - 1 : m \in 1..d OBVIOUS
  <2> QED BY <1>3, <2>1 DEF NoColon
<1>4. ASSUME NEW i \in 1..d, r[i].kind = "catch", NoColon(r, i, d)
      PROVE  r[i].objCell = q[d + 1].objCell
  <2>1. NoColon(q, i, (d + 1) - 1) /\ (d + 1) - 1 = d BY <1>3, <1>4
  <2>2. d + 1 \in i + 1 .. d + 1 /\ i \in DOMAIN q /\ q[i].kind = "catch" BY <1>1, <1>4
  <2> QED BY <2>1, <2>2 DEF Kept
<1>5. ASSUME NEW i \in 1..d, r[i].kind = "catch", NEW k \in i + 1 .. d, r[k].kind = "colon",
             NoColon(r, i, k - 1)
      PROVE  r[i].objCell = r[k].objCell
  <2>1. NoColon(q, i, k - 1) BY <1>3, <1>5
  <2>2. k \in i + 1 .. d + 1 /\ k \in 1..d /\ i \in DOMAIN q BY <1>1
  <2> QED BY <1>5, <2>1, <2>2 DEF Kept
<1>6. ASSUME NEW i \in 1..d, r[i].kind = "colon"
      PROVE  r[i].objCell \in Protected => r[i].guarded BY <1>1, <1>6 DEF Kept
<1> QED BY <1>1, <1>2, <1>4, <1>5, <1>6 DEF Kept

\* One more frame, and what the registers are then.
LEMMA KeptPush ==
  ASSUME NEW q \in Seq(Frames), NEW f \in Frames, NEW o, NEW g, NEW p, NEW h, Kept(q, o, g),
         Saves(f) => f.objCell = o,
         \/ f.kind = "colon" /\ f.guarded = g /\ (p \in Protected => h)
         \/ f.kind # "colon" /\ p = o /\ h = g
  PROVE  Kept(Append(q, f), p, h)
<1> DEFINE r == Append(q, f)
           n == Len(q)
<1>1. /\ r \in Seq(Frames) /\ Len(r) = n + 1 /\ r[n + 1] = f
      /\ \A m \in 1..n : r[m] = q[m] BY Grown
<1>2. n \in Nat /\ DOMAIN q = 1..n OBVIOUS
<1> HIDE DEF r
<1>3. DOMAIN r = 1 .. n + 1 BY <1>1
<1>4. p \in Protected => h BY DEF Kept
<1>5. ASSUME NEW i \in 1 .. n + 1, r[i].kind = "colon"
      PROVE  r[i].objCell \in Protected => r[i].guarded
  <2>1. CASE i \in 1..n BY <1>1, <1>2, <1>5, <2>1 DEF Kept
  <2>2. CASE i = n + 1 BY <1>1, <1>5, <2>2 DEF Kept, Saves
  <2> QED BY <1>2, <2>1, <2>2
<1>6. ASSUME NEW i \in 1..n, NEW k \in 1 .. n + 1, NoColon(r, i, k - 1)
      PROVE  NoColon(q, i, k - 1)
  <2>1. \A m \in i + 1 .. k - 1 : m \in 1..n BY <1>2
  <2> QED BY <1>1, <1>6, <2>1 DEF NoColon
<1>7. ASSUME NEW i \in 1 .. n + 1, r[i].kind = "catch", NoColon(r, i, n + 1)
      PROVE  r[i].objCell = p
  <2>1. CASE i = n + 1 BY <1>1, <1>7, <2>1 DEF Saves
  <2>2. CASE i \in 1..n
    <3>1. n + 1 \in i + 1 .. n + 1 BY <1>2, <2>2
    <3>2. f.kind # "colon" BY <1>1, <1>7, <3>1 DEF NoColon
    <3>3. NoColon(r, i, (n + 1) - 1) /\ (n + 1) - 1 = n BY <1>2, <1>7 DEF NoColon
    <3>4. NoColon(q, i, n) BY <1>2, <1>6, <2>2, <3>3
    <3> QED BY <1>1, <1>2, <1>7, <2>2, <3>2, <3>4 DEF Kept
  <2> QED BY <1>2, <2>1, <2>2
<1>8. ASSUME NEW i \in 1 .. n + 1, r[i].kind = "catch", NEW k \in i + 1 .. n + 1,
             r[k].kind = "colon", NoColon(r, i, k - 1)
      PROVE  r[i].objCell = r[k].objCell
  <2>1. i \in 1..n /\ k \in 1 .. n + 1 /\ q[i].kind = "catch" /\ r[i] = q[i] BY <1>1, <1>2, <1>8
  <2>2. NoColon(q, i, k - 1) BY <1>6, <1>8, <2>1
  <2>3. CASE k = n + 1
    <3>1. NoColon(q, i, n) BY <1>2, <2>2, <2>3
    <3>2. q[i].objCell = o BY <1>2, <2>1, <3>1 DEF Kept
    <3> QED BY <1>1, <1>8, <2>1, <2>3, <3>2 DEF Saves
  <2>4. CASE k \in i + 1 .. n BY <1>1, <1>2, <1>8, <2>1, <2>2, <2>4 DEF Kept
  <2> QED BY <1>2, <2>3, <2>4
<1>9. Kept(r, p, h) BY <1>1, <1>3, <1>4, <1>5, <1>7, <1>8 DEF Kept
<1> QED BY <1>9 DEF r

----------------------------------------
(* What the invariant says. *)

\* The innermost of some frames is one of them.
LEMMA Innermost ==
  ASSUME NEW n \in Nat, NEW S \in SUBSET (1..n), S # {}
  PROVE  Max(S) \in S /\ \A i \in S : i <= Max(S)
<1> DEFINE T == {n - j : j \in S}
<1>1. T \subseteq Nat /\ T # {}
  <2>1. ASSUME NEW j \in S PROVE n - j \in Nat OBVIOUS
  <2> QED BY <2>1
<1>2. PICK t \in T : \A u \in T : <<u, t>> \notin OpToRel(<, Nat)
  <2> HIDE DEF T
  <2> QED BY <1>1, WFMin, NatLessThanWellFounded, Zenon
<1>3. \A u \in T : ~(u < t) BY <1>1, <1>2 DEF OpToRel
<1>4. PICK j \in S : t = n - j OBVIOUS
<1>5. ASSUME NEW k \in S PROVE j >= k
  <2>1. ~(n - k < t) BY <1>3
  <2> QED BY <1>4, <2>1
<1>6. Max(S) \in S /\ \A y \in S : Max(S) >= y BY <1>5 DEF Max
<1> QED BY <1>6

\* objCell is what the innermost method call has put there, or an error left.
LEMMA RightMeant ==
  ASSUME stack \in Seq(Frames), Means(stack, base, Len(stack), objCell)
  PROVE  objCell = Meant
<1>1. DOMAIN stack = 1 .. Len(stack) /\ Len(stack) \in Nat OBVIOUS
<1>2. Marked = {i \in 1 .. Len(stack) : Mark(stack[i])} BY <1>1 DEF Marked, Mark
<1>3. CASE Marked = {}
  <2>1. \A m \in 1 .. Len(stack) : ~Mark(stack[m]) BY <1>2, <1>3
  <2> QED BY <1>3, <2>1 DEF Means, Meant
<1>4. CASE Marked # {}
  <2>1. Max(Marked) \in Marked /\ \A i \in Marked : i <= Max(Marked)
    <3>1. Marked \in SUBSET (1 .. Len(stack)) BY <1>2
    <3> QED BY <1>1, <1>4, <3>1, Innermost
  <2>2. PICK k : k = Max(Marked) OBVIOUS
  <2>3. k \in 1 .. Len(stack) /\ Mark(stack[k]) BY <1>2, <2>1, <2>2
  <2>4. \A m \in k + 1 .. Len(stack) : ~Mark(stack[m])
    <3>1. ASSUME NEW m \in k + 1 .. Len(stack), Mark(stack[m]) PROVE FALSE
      <4>1. m \in Marked /\ ~(m <= k) BY <1>1, <1>2, <2>3, <3>1
      <4> QED BY <2>1, <2>2, <4>1
    <3> QED BY <3>1
  <2>5. objCell = Value(stack[k]) BY <2>3, <2>4 DEF Means
  <2> QED BY <1>4, <2>2, <2>5 DEF Meant, Value
<1> QED BY <1>3, <1>4

\* What the invariant says of (self) and of constants is what is asked of them.
LEMMA Exact == IInv => ObjectsExact
<1> SUFFICES ASSUME IInv PROVE ObjectsExact OBVIOUS
<1>1. stack \in Seq(Frames) /\ Len(stack) \in Nat /\ base \in Left /\ exposed \in BOOLEAN
  BY DEF IInv, Types
<1>2. ConstantsKeptWithin BY <1>1 DEF IInv, ConstantsKeptWithin
<1>3. ASSUME jump = "none"
      PROVE  Means(stack, base, Len(stack), objCell) /\ SelfFits(stack, base, Len(stack), self, objCell)
  BY <1>3 DEF IInv, Right
<1>4. jump = "none" => objCell = Meant BY <1>1, <1>3, RightMeant
<1>5. ASSUME jump = "none", stack # <<>>, Top.kind = "lambda", Top.left = Same
      PROVE  IF Top.at = "body" THEN self = objCell
             ELSE Len(stack) > 1 /\ Below[Len(Below)].kind = "colon" =>
                    self \in {Below[Len(Below)].self, objCell}
  <2>1. PICK n \in Nat : n = Len(stack) /\ n > 0 BY <1>1, <1>5
  <2>2. Fits(stack, n, self, objCell)
    <3>1. \A m \in n + 1 .. n : Passive(stack, m) OBVIOUS
    <3> QED BY <1>3, <1>5, <2>1, <3>1 DEF SelfFits
  <2>3. CASE Top.at = "body" BY <1>5, <2>1, <2>2, <2>3 DEF Fits, Top
  <2>4. CASE n > 1
    <3>1. Len(Below) = n - 1 /\ Below[n - 1] = stack[n - 1]
      <4>1. n - 1 \in 0 .. Len(stack) /\ n - 1 \in 1 .. n - 1 BY <2>1, <2>4
      <4> QED BY <1>1, <2>1, <4>1, Cut DEF Below
    <3> QED BY <1>5, <2>1, <2>2, <2>4, <3>1 DEF Fits, Top, OnColon
  <2> QED BY <2>1, <2>3, <2>4
<1>6. ASSUME jump = "none", stack = <<>>, base = Same PROVE self = None
  <2>1. \A m \in 1 .. Len(stack) : Passive(stack, m) BY <1>6
  <2> QED BY <1>3, <1>6, <2>1 DEF SelfFits
<1>7. SelfExact BY <1>4, <1>5, <1>6 DEF SelfExact
<1> QED BY <1>2, <1>7 DEF ObjectsExact

----------------------------------------
(* The invariant is inductive. *)

\* The state after a step.
LEMMA After ==
  ASSUME NEW q, q = stack', q \in Seq(Frames), self' \in Named, objCell' \in Named,
         guarded' \in BOOLEAN, jump' \in {"none", "throw", "error"}, base' \in Left,
         exposed' \in BOOLEAN, Methods(q), Saved(q, base'),
         jump' = "none" => Right(q, base', Len(q), self', objCell'),
         ~exposed' => changed' = {} /\ Kept(q, objCell', guarded')
  PROVE  IInv'
BY DEF IInv, Types, ConstantsKept

\* At the start the registers hold nothing.
LEMMA InitInv == ASSUME ObjectsAssumption, ObjectsInit PROVE IInv
<1>1. stack = <<>> /\ Len(stack) = 0 /\ DOMAIN stack = {} /\ stack \in Seq(Frames)
  BY DEF ObjectsInit
<1>2. Methods(stack) /\ Saved(stack, base) /\ Kept(stack, objCell, guarded)
  BY <1>1 DEF Methods, Saved, Kept, ObjectsInit, ObjectsAssumption
<1>3. Right(stack, base, 0, self, objCell) BY RightAtTop DEF ObjectsInit
<1>4. Types BY <1>1 DEF ObjectsInit, Types, Named, Left
<1> QED BY <1>1, <1>2, <1>3, <1>4 DEF IInv, ObjectsInit, ConstantsKept

\* A frame that changes nothing of what (self) is.
LEMMA PushPassive ==
  ASSUME IInv, NEW f \in Frames, Push(f), f.left = Same,
         f.kind \in {"catch", "eval"} \/ (f.kind = "lambda" /\ f.at = "args"),
         Saves(f) => f.self = self /\ f.objCell = objCell,
         UNCHANGED <<Registers, Others, base>>
  PROVE  IInv'
<1> DEFINE n == Len(stack)
<1>1. stack \in Seq(Frames) /\ n \in Nat /\ stack' = Append(stack, f) /\ jump = "none"
  BY DEF IInv, Types, Push, Evaluating
<1>2. stack # <<>> => stack[n].kind # "colon" BY DEF Push, Evaluating, Top
<1>3. PICK q : q = stack' OBVIOUS
<1>4. /\ q \in Seq(Frames) /\ Len(q) = n + 1 /\ q[n + 1] = f
      /\ \A m \in 1..n : q[m] = stack[m] BY <1>1, <1>3, Grown
<1>5. Right(stack, base, n, self, objCell) BY <1>1 DEF IInv
<1>6. Methods(q) BY <1>1, <1>2, <1>3, MethodsPush DEF IInv
<1>7. Saved(q, base) BY <1>1, <1>3, <1>5, SavedPush DEF IInv
<1>8. Right(q, base, n + 1, self, objCell)
  <2>1. Passive(q, n + 1)
    <3>1. (n + 1) - 1 = n /\ (n > 0 => stack # <<>>) BY <1>1
    <3>2. ~OnColon(q, n + 1) BY <1>1, <1>2, <1>4, <3>1 DEF OnColon
    <3> QED BY <1>4, <3>2 DEF Passive
  <2>2. Right(q, base, n, self, objCell) BY <1>1, <1>4, <1>5, RightAgree
  <2> QED BY <1>1, <2>1, <2>2, RightPassive
<1>9. ~exposed => changed = {} /\ Kept(q, objCell, guarded)
  <2>1. ASSUME ~exposed PROVE Kept(q, objCell, guarded) BY <1>1, <1>3, <2>1, KeptPush DEF IInv
  <2> QED BY <2>1 DEF IInv, ConstantsKept
<1>10. /\ self' = self /\ objCell' = objCell /\ guarded' = guarded /\ jump' = jump
       /\ changed' = changed /\ exposed' = exposed /\ base' = base BY DEF Registers, Others
<1> QED BY <1>3, <1>4, <1>6, <1>7, <1>8, <1>9, <1>10, After DEF IInv, Types

\* catch, eval-string and a function that is called from elsewhere than a colon.
LEMMA PushInv ==
  ASSUME IInv, p_catch \/ sysEvalString \/ Call
  PROVE  IInv'
<1>1. self \in Named /\ objCell \in Named /\ Same \in Left BY DEF IInv, Types, Left
<1>2. CASE p_catch
  <2>1. PICK f : f = [kind |-> "catch", at |-> "body", left |-> Same, self |-> self, objCell |-> objCell]
    OBVIOUS
  <2>2. f \in Frames BY <1>1, <2>1 DEF Frames, CatchFrames
  <2>3. f.kind = "catch" /\ f.left = Same /\ f.self = self /\ f.objCell = objCell BY <2>1
  <2>4. Push(f) /\ UNCHANGED <<Registers, Others, base>> BY <1>2, <2>1 DEF p_catch
  <2> QED BY <2>2, <2>3, <2>4, PushPassive
<1>3. CASE sysEvalString
  <2>1. PICK f : f = [kind |-> "eval", at |-> "body", left |-> Same] OBVIOUS
  <2>2. f \in Frames BY <1>1, <2>1 DEF Frames, PlainFrames
  <2>3. f.kind = "eval" /\ f.left = Same /\ ~Saves(f) BY <2>1 DEF Saves
  <2>4. Push(f) /\ UNCHANGED <<Registers, Others, base>> BY <1>3, <2>1 DEF sysEvalString
  <2> QED BY <2>2, <2>3, <2>4, PushPassive
<1>4. CASE Call
  <2>1. PICK f : f = [kind |-> "lambda", at |-> "args", left |-> Same] OBVIOUS
  <2>2. f \in Frames BY <1>1, <2>1 DEF Frames, PlainFrames
  <2>3. f.kind = "lambda" /\ f.at = "args" /\ f.left = Same /\ ~Saves(f) BY <2>1 DEF Saves
  <2>4. Push(f) /\ UNCHANGED <<Registers, Others, base>> BY <1>4, <2>1 DEF Call, Function
  <2> QED BY <2>2, <2>3, <2>4, PushPassive
<1> QED BY <1>2, <1>3, <1>4

\* The colon operator sets the registers, and may fail.
LEMMA ColonInv ==
  ASSUME ObjectsAssumption, IInv, NEW from \in Vars \cup {"new", "self"}, p_colon(from)
  PROVE  IInv'
<1>1. stack \in Seq(Frames) /\ self \in Named /\ objCell \in Named /\ Same \in Left /\ guarded \in BOOLEAN
      /\ Len(stack) \in Nat /\ base \in Left /\ exposed \in BOOLEAN BY DEF IInv, Types, Left
<1>2. New \in Nat \ {Same}
  <2> DEFINE S == {i \in DOMAIN stack : stack[i].kind = "colon" /\ stack[i].obj \notin Vars}
  <2>1. IsFiniteSet(1 .. Len(stack)) /\ S \subseteq 1 .. Len(stack)
    <3>1. DOMAIN stack = 1 .. Len(stack) /\ 1 \in Int /\ Len(stack) \in Int BY <1>1
    <3>2. IsFiniteSet(1 .. Len(stack)) BY <3>1, FS_Interval
    <3> QED BY <3>1, <3>2
  <2>2. Cardinality(S) \in Nat
    <3> HIDE DEF S
    <3> QED BY <2>1, FS_Subset, FS_CardinalityType
  <2>3. New = Cardinality(S) + 1 BY DEF New
  <2> QED BY <2>2, <2>3 DEF Same
<1>3. Target(from) = IF from = "self" THEN self ELSE IF from = "new" THEN New ELSE from
  BY DEF Target
<1>4. Target(from) \in Named /\ Flags(from) \in BOOLEAN
  <2>1. Target(from) \in Named BY <1>1, <1>2, <1>3 DEF Named
  <2>2. (from \in Protected) \in BOOLEAN OBVIOUS
  <2>3. Flags(from) \in BOOLEAN BY <1>1, <2>2, Zenon DEF Flags
  <2> QED BY <2>1, <2>3
<1>5. /\ objCell' = Target(from) /\ guarded' = Flags(from) /\ self' = self /\ changed' = changed
      /\ base' = base /\ exposed' = (exposed \/ jump' # "none" \/ (from = "self" /\ self # objCell))
      /\ jump = "none" BY DEF p_colon, Raise, Push, Evaluating
<1>6. CASE Raise("error") /\ UNCHANGED stack
  <2>1. PICK q : q = stack OBVIOUS
  <2>2. q = stack' /\ jump' = "error" /\ exposed' BY <1>5, <1>6, <2>1 DEF Raise
  <2> QED BY <1>1, <1>4, <1>5, <2>1, <2>2, After DEF IInv
<1>7. ASSUME NEW f, f = [kind |-> "colon", at |-> "call", obj |-> Target(from), left |-> Same,
                         self |-> self, objCell |-> objCell, guarded |-> guarded],
             Push(f), UNCHANGED <<jump, jumps>>
      PROVE  IInv'
  <2> DEFINE n == Len(stack)
  <2>1. PICK q : q = stack' OBVIOUS
  <2>2. f \in Frames BY <1>1, <1>4, <1>7 DEF Frames, ColonFrames
  <2>3. /\ f.kind = "colon" /\ f.left = Same /\ f.obj = Target(from) /\ f.self = self
        /\ f.objCell = objCell /\ f.guarded = guarded BY <1>7
  <2>4. /\ q = Append(stack, f) /\ q \in Seq(Frames) /\ Len(q) = n + 1 /\ q[n + 1] = f
        /\ \A m \in 1..n : q[m] = stack[m] BY <1>1, <1>7, <2>1, <2>2, Grown DEF Push
  <2>5. Methods(q)
    <3>1. stack # <<>> => stack[Len(stack)].kind # "colon" BY <1>7 DEF Push, Evaluating, Top
    <3> QED BY <1>1, <2>2, <2>3, <2>4, <3>1, MethodsPush DEF IInv
  <2>6. Saved(q, base)
    <3>1. Right(stack, base, Len(stack), f.self, f.objCell) BY <1>5, <2>3 DEF IInv
    <3> QED BY <1>1, <2>2, <2>4, <3>1, SavedPush DEF IInv
  <2>7. Right(q, base, n + 1, self, Target(from)) BY <1>1, <2>3, <2>4, RightColon
  <2>8. ASSUME ~exposed' PROVE changed = {} /\ Kept(q, Target(from), Flags(from))
    <3>1. ~exposed /\ (from = "self" => self = objCell) BY <1>1, <1>5, <2>8
    <3>2. Kept(stack, objCell, guarded) /\ changed = {} BY <3>1 DEF IInv, ConstantsKept
    <3>3. Target(from) \in Protected => Flags(from)
      <4>1. CASE from = "self" BY <1>3, <3>1, <3>2, <4>1 DEF Flags, ObjectsAssumption, Kept
      <4>2. CASE from = "new" BY <1>2, <1>3, <4>2 DEF ObjectsAssumption
      <4>3. CASE from \in Vars BY <1>3, <4>3 DEF Flags, ObjectsAssumption
      <4> QED BY <4>1, <4>2, <4>3
    <3> QED BY <1>1, <2>2, <2>3, <2>4, <3>2, <3>3, KeptPush DEF Saves
  <2>9. jump' = "none" /\ exposed' \in BOOLEAN BY <1>1, <1>5, <1>7
  <2> QED BY <1>1, <1>4, <1>5, <2>1, <2>4, <2>5, <2>6, <2>7, <2>8, <2>9, After
<1> QED BY <1>6, <1>7 DEF p_colon

\* It calls the method.
LEMMA MethodInv ==
  ASSUME IInv, NEW kind \in {"lambda", "macro"}, CallMethod(kind)
  PROVE  IInv'
<1>1. PICK n : n = Len(stack) OBVIOUS
<1>2. /\ stack \in Seq(Frames) /\ n \in Nat \ {0} /\ stack # <<>> /\ stack[n] \in Frames
      /\ stack[n].kind = "colon" /\ stack[n].at = "call" /\ jump = "none" /\ Same \in Left
  <2>1. stack \in Seq(Frames) /\ stack # <<>> /\ Same \in Left
    BY DEF IInv, Types, CallMethod, Left
  <2>2. n \in Nat \ {0} /\ stack[n] \in Frames BY <1>1, <2>1
  <2> QED BY <1>1, <2>1, <2>2 DEF CallMethod, Top
<1>3. PICK c : c = [stack[n] EXCEPT !.at = "called"] OBVIOUS
<1>4. /\ c \in Frames /\ c.left = stack[n].left /\ c.kind = "colon" /\ c.at = "called"
      /\ c.self = stack[n].self /\ c.objCell = stack[n].objCell
      /\ c.guarded = stack[n].guarded /\ c.obj = stack[n].obj
  <2>1. PICK t : t = stack[n] OBVIOUS
  <2>2. t \in Frames /\ c = [t EXCEPT !.at = "called"] /\ t.kind = "colon" /\ Saves(t)
    BY <1>2, <1>3, <2>1 DEF Saves
  <2>3. \/ t.kind = "colon" /\ "called" = "called"
        \/ t.kind = "lambda" /\ "called" = "body" BY <2>2
  <2> QED BY <2>1, <2>2, <2>3, AtNext
<1>5. PICK r : r = [stack EXCEPT ![n] = c] OBVIOUS
<1>6. r \in Seq(Frames) /\ Len(r) = n /\ r[n] = c /\ \A m \in 1 .. n - 1 : r[m] = stack[m]
  BY <1>1, <1>2, <1>4, <1>5, Put
<1>7. PICK f : f = Function(kind) OBVIOUS
<1>8. /\ f \in Frames /\ f.kind = kind /\ f.left = Same /\ ~Saves(f)
      /\ kind = "lambda" => f.at = "args" BY <1>2, <1>7 DEF Function, Frames, PlainFrames, Saves
<1>9. PICK q : q = stack' OBVIOUS
<1>10. /\ q = Append(r, f) /\ q \in Seq(Frames) /\ Len(q) = n + 1 /\ q[n + 1] = f
       /\ \A m \in 1..n : q[m] = r[m]
  <2>1. q = Append(r, f) BY <1>1, <1>3, <1>5, <1>7, <1>9 DEF CallMethod
  <2> QED BY <1>6, <1>8, <2>1, Grown
<1>11. Shortened(stack, r, n) BY <1>1, <1>2, <1>4, <1>6 DEF Shortened
<1>12. Methods(q)
  <2>1. Methods(r) BY <1>2, <1>6, <1>11, MethodsCut DEF IInv
  <2>2. r # <<>> BY <1>2, <1>6
  <2> QED BY <1>4, <1>6, <1>8, <1>10, <2>1, <2>2, MethodsPush
<1>13. Saved(q, base)
  <2>1. Saved(r, base) BY <1>2, <1>6, <1>11, SavedCut DEF IInv
  <2> QED BY <1>6, <1>8, <1>10, <2>1, SavedPush
<1>14. Right(q, base, n + 1, self, objCell)
  <2>1. Right(stack, base, n, self, objCell) BY <1>1, <1>2 DEF IInv
  <2>2. n \in 1..n /\ \A m \in 1 .. n - 1 : m \in 1..n BY <1>2
  <2>3. /\ q[n] = c /\ q[n + 1] = f
        /\ \A m \in 1 .. n - 1 : q[m] = stack[m] BY <1>6, <1>10, <2>2
  <2>4. \/ f.kind = "lambda" /\ f.at = "args"
        \/ f.kind = "macro" BY <1>8
  <2> QED BY <1>2, <1>4, <1>8, <2>1, <2>3, <2>4, RightMethod
<1>15. ~exposed => changed = {} /\ Kept(q, objCell, guarded)
  <2>1. ASSUME ~exposed PROVE changed = {} /\ Kept(stack, objCell, guarded)
    BY <2>1 DEF IInv, ConstantsKept
  <2>2. NoColon(stack, n, Len(stack)) BY <1>1, <1>2 DEF NoColon
  <2>3. ASSUME ~exposed PROVE Kept(r, objCell, guarded)
    BY <1>2, <1>6, <1>11, <2>1, <2>2, <2>3, KeptCut
  <2>4. f.kind # "colon" BY <1>8
  <2>5. ASSUME ~exposed PROVE Kept(q, objCell, guarded)
    BY <1>6, <1>8, <1>10, <2>3, <2>4, <2>5, KeptPush
  <2> QED BY <2>1, <2>5
<1>16. /\ self' = self /\ objCell' = objCell /\ guarded' = guarded /\ jump' = jump
       /\ changed' = changed /\ exposed' = exposed /\ base' = base
  BY DEF CallMethod, Registers, Others
<1>17. /\ self \in Named /\ objCell \in Named /\ guarded \in BOOLEAN /\ base \in Left
       /\ exposed \in BOOLEAN /\ jump \in {"none", "throw", "error"} BY DEF IInv, Types
<1> QED BY <1>9, <1>10, <1>12, <1>13, <1>14, <1>15, <1>16, <1>17, After

\* The body of a function begins.
LEMMA BodyInv == ASSUME IInv, evaluateLambda PROVE IInv'
<1>1. PICK n : n = Len(stack) OBVIOUS
<1>2. /\ stack \in Seq(Frames) /\ n \in Nat \ {0} /\ stack # <<>> /\ stack[n] \in Frames
      /\ stack[n].kind = "lambda" /\ jump = "none"
  <2>1. stack \in Seq(Frames) /\ stack # <<>> BY DEF IInv, Types, evaluateLambda
  <2>2. n \in Nat \ {0} /\ stack[n] \in Frames BY <1>1, <2>1
  <2> QED BY <1>1, <2>1, <2>2 DEF evaluateLambda, Top
<1>3. PICK c : c = [stack[n] EXCEPT !.at = "body"] OBVIOUS
<1>4. /\ c \in Frames /\ c.left = stack[n].left /\ c.kind = "lambda" /\ c.at = "body"
  <2>1. PICK t : t = stack[n] OBVIOUS
  <2>2. t \in Frames /\ c = [t EXCEPT !.at = "body"] /\ t.kind = "lambda" BY <1>2, <1>3, <2>1
  <2>3. \/ t.kind = "colon" /\ "body" = "called"
        \/ t.kind = "lambda" /\ "body" = "body" BY <2>2
  <2> QED BY <2>1, <2>2, <2>3, AtNext
<1>5. PICK q : q = stack' OBVIOUS
<1>6. q \in Seq(Frames) /\ Len(q) = n /\ q[n] = c /\ \A m \in 1 .. n - 1 : q[m] = stack[m]
  <2>1. q = [stack EXCEPT ![n] = c] BY <1>1, <1>3, <1>5 DEF evaluateLambda
  <2> QED BY <1>1, <1>2, <1>4, <2>1, Put
<1>7. Shortened(stack, q, n) BY <1>1, <1>2, <1>4, <1>6 DEF Shortened, Saves
<1>8. Methods(q) /\ Saved(q, base) BY <1>2, <1>6, <1>7, MethodsCut, SavedCut DEF IInv
<1>9. Right(q, base, n, objCell, objCell)
  <2>1. Right(stack, base, n, self, objCell) BY <1>1, <1>2 DEF IInv
  <2> QED BY <1>2, <1>4, <1>6, <2>1, RightBody
<1>10. ~exposed => changed = {} /\ Kept(q, objCell, guarded)
  <2>1. NoColon(stack, n, Len(stack)) BY <1>1, <1>2 DEF NoColon
  <2>2. ASSUME ~exposed PROVE changed = {} /\ Kept(stack, objCell, guarded)
    BY <2>2 DEF IInv, ConstantsKept
  <2>3. ASSUME ~exposed PROVE Kept(q, objCell, guarded)
    BY <1>2, <1>6, <1>7, <2>1, <2>2, <2>3, KeptCut
  <2> QED BY <2>2, <2>3
<1>11. /\ self' = objCell /\ objCell' = objCell /\ guarded' = guarded /\ jump' = jump
       /\ changed' = changed /\ exposed' = exposed /\ base' = base
  BY DEF evaluateLambda, BodySelf, Others
<1>12. /\ objCell \in Named /\ guarded \in BOOLEAN /\ base \in Left
       /\ exposed \in BOOLEAN /\ jump \in {"none", "throw", "error"} BY DEF IInv, Types
<1> QED BY <1>5, <1>6, <1>8, <1>9, <1>10, <1>11, <1>12, After

\* A function returns.
LEMMA ReturnInv == ASSUME IInv, Return PROVE IInv'
<1>1. PICK j \in Nat : Len(stack) = j + 1
  <2>1. stack \in Seq(Frames) /\ stack # <<>> BY DEF IInv, Types, Return
  <2>2. Len(stack) - 1 \in Nat /\ Len(stack) = (Len(stack) - 1) + 1 BY <2>1
  <2> QED BY <2>2
<1>2. /\ stack \in Seq(Frames) /\ stack[j + 1] \in Frames /\ stack[j + 1].kind # "colon"
      /\ stack[j + 1].at = "body" /\ jump = "none" /\ Top = stack[j + 1]
  <2>1. stack \in Seq(Frames) /\ stack # <<>> BY DEF IInv, Types, Return
  <2>2. stack[j + 1] \in Frames BY <1>1, <2>1
  <2> QED BY <1>1, <2>1, <2>2 DEF Return, Top
<1>3. Right(stack, base, j + 1, self, objCell) /\ Methods(stack) BY <1>1, <1>2 DEF IInv
<1>4. /\ Below \in Seq(Frames) /\ Len(Below) = j /\ \A m \in 1..j : Below[m] = stack[m]
  <2>1. j \in 0 .. Len(stack) /\ Len(stack) - 1 = j BY <1>1
  <2> QED BY <1>2, <2>1, Cut DEF Below
<1>5. NoColon(stack, j, Len(stack))
  <2>1. \A m \in j + 1 .. j + 1 : m = j + 1 OBVIOUS
  <2> QED BY <1>1, <1>2, <2>1 DEF NoColon
<1>6. ASSUME NEW q \in Seq(Frames), Shortened(stack, q, j)
      PROVE  /\ Methods(q) /\ Saved(q, base)
             /\ ~exposed => changed = {} /\ Kept(q, objCell, guarded)
  <2>1. Methods(q) /\ Saved(q, base) BY <1>2, <1>6, MethodsCut, SavedCut DEF IInv
  <2>2. ASSUME ~exposed PROVE changed = {} /\ Kept(stack, objCell, guarded)
    BY <2>2 DEF IInv, ConstantsKept
  <2>3. ASSUME ~exposed PROVE Kept(q, objCell, guarded) BY <1>2, <1>5, <1>6, <2>2, <2>3, KeptCut
  <2> QED BY <2>1, <2>2, <2>3
<1>7. /\ self' = self /\ objCell' = objCell /\ guarded' = guarded /\ jump' = jump
      /\ changed' = changed /\ exposed' = exposed BY DEF Return, Registers, Others
<1>8. /\ self \in Named /\ objCell \in Named /\ guarded \in BOOLEAN /\ base \in Left
      /\ exposed \in BOOLEAN /\ jump \in {"none", "throw", "error"} BY DEF IInv, Types
<1>9. Shortened(stack, Below, j)
  <2>1. j > 0 => j \in 1..j OBVIOUS
  <2> QED BY <1>1, <1>4, <2>1 DEF Shortened
<1>10. CASE Top.left = Same
  <2>1. PICK q : q = Below OBVIOUS
  <2>2. q = stack' /\ base' = base BY <1>10, <2>1 DEF Return, PopFrame
  <2>3. Right(stack, base, j, self, objCell) BY <1>1, <1>2, <1>3, <1>10, RightReturn
  <2>4. Right(q, base, j, self, objCell) BY <1>4, <2>1, <2>3, RightAgree
  <2>5. q \in Seq(Frames) /\ Len(q) = j /\ Shortened(stack, q, j) BY <1>4, <1>9, <2>1
  <2> QED BY <1>6, <1>7, <1>8, <2>2, <2>4, <2>5, After
<1>11. ASSUME Top.left # Same PROVE objCell = Top.left /\ Top.left \in Left
  <2>1. Mark(stack[j + 1]) /\ Value(stack[j + 1]) = Top.left BY <1>2, <1>11 DEF Mark, Value
  <2>2. \A m \in (j + 1) + 1 .. j + 1 : ~Mark(stack[m]) OBVIOUS
  <2>3. objCell = Value(stack[j + 1]) BY <1>3, <2>1, <2>2 DEF Right, Means
  <2> QED BY <1>2, <2>1, <2>3, Fields
<1>12. CASE Top.left # Same /\ Below = <<>>
  <2>1. PICK q : q = Below OBVIOUS
  <2>2. q = stack' /\ base' = Top.left BY <1>12, <2>1 DEF Return, PopFrame
  <2>3. j = 0 /\ q \in Seq(Frames) /\ Len(q) = 0 /\ DOMAIN q = {} BY <1>4, <1>12, <2>1
  <2>4. Right(q, Top.left, 0, self, objCell) BY <1>11, <1>12, RightAtTop
  <2>5. Methods(q) /\ (~exposed => changed = {} /\ Kept(q, objCell, guarded))
    BY <1>6, <1>9, <2>1, <2>3
  <2>6. Saved(q, Top.left) BY <2>3 DEF Saved
  <2> QED BY <1>7, <1>8, <1>11, <1>12, <2>2, <2>3, <2>4, <2>5, <2>6, After
<1>13. CASE Top.left # Same /\ Below # <<>>
  <2>1. j > 0 /\ Below[j] = stack[j] /\ stack[j] \in Frames BY <1>1, <1>2, <1>4, <1>13
  <2>2. PICK f : f = [stack[j] EXCEPT !.left = Top.left] OBVIOUS
  <2>3. /\ f \in Frames /\ f.left = Top.left /\ f.kind = stack[j].kind /\ f.at = stack[j].at
        /\ Saves(stack[j]) => f.self = stack[j].self /\ f.objCell = stack[j].objCell
        /\ stack[j].kind = "colon" => f.guarded = stack[j].guarded
    BY <1>11, <1>13, <2>1, <2>2, LeftIn
  <2>4. PICK q : q = stack' OBVIOUS
  <2>5. /\ q \in Seq(Frames) /\ Len(q) = j /\ q[j] = f /\ \A m \in 1 .. j - 1 : q[m] = stack[m]
        /\ base' = base
    <3>1. q = [Below EXCEPT ![j] = f] /\ base' = base
      BY <1>4, <1>13, <2>1, <2>2, <2>4 DEF Return, PopFrame
    <3>2. /\ q \in Seq(Frames) /\ Len(q) = j /\ q[j] = f
          /\ \A m \in 1 .. j - 1 : q[m] = Below[m] BY <1>4, <1>13, <2>3, <3>1, Put
    <3>3. \A m \in 1 .. j - 1 : m \in 1..j OBVIOUS
    <3> QED BY <1>4, <3>1, <3>2, <3>3
  <2>6. Shortened(stack, q, j) BY <1>1, <2>1, <2>3, <2>5 DEF Shortened
  <2>7. ~(stack[j].kind = "colon" /\ stack[j].at = "call")
    <3>1. stack[j].kind = "colon" => OnColon(stack, j + 1) BY <2>1 DEF OnColon
    <3>2. j + 1 \in DOMAIN stack /\ (j + 1) - 1 = j BY <1>1, <1>2
    <3> QED BY <1>3, <3>1, <3>2 DEF Methods
  <2>8. Right(q, base, j, self, objCell)
    <3>1. j \in Nat \ {0} /\ q[j].left # Same /\ q[j].left = objCell
      BY <1>11, <1>13, <2>1, <2>3, <2>5
    <3>2. ~(q[j].kind = "colon" /\ q[j].at = "call") BY <2>3, <2>5, <2>7
    <3> QED BY <3>1, <3>2, RightLeft
  <2> QED BY <1>6, <1>7, <1>8, <2>4, <2>5, <2>6, <2>8, After
<1> QED BY <1>10, <1>12, <1>13

\* The colon operator returns.
LEMMA ColonReturnsInv == ASSUME IInv, ColonReturns PROVE IInv'
<1>1. PICK j \in Nat : Len(stack) = j + 1
  <2>1. stack \in Seq(Frames) /\ stack # <<>> BY DEF IInv, Types, ColonReturns
  <2>2. Len(stack) - 1 \in Nat /\ Len(stack) = (Len(stack) - 1) + 1 BY <2>1
  <2> QED BY <2>2
<1>2. PICK f : f = stack[j + 1] OBVIOUS
<1>3. /\ stack \in Seq(Frames) /\ f \in Frames /\ f.kind = "colon" /\ jump = "none"
      /\ f.self \in Named /\ f.objCell \in Named /\ f.guarded \in BOOLEAN /\ Saves(f)
  <2>1. stack \in Seq(Frames) /\ stack # <<>> BY DEF IInv, Types, ColonReturns
  <2>2. f \in Frames BY <1>1, <1>2, <2>1
  <2>3. f.kind = "colon" /\ jump = "none" BY <1>1, <1>2 DEF ColonReturns, Top
  <2> QED BY <2>1, <2>2, <2>3, Fields DEF Saves
<1>4. PICK q : q = Below OBVIOUS
<1>5. q \in Seq(Frames) /\ Len(q) = j /\ \A m \in 1..j : q[m] = stack[m]
  <2>1. j \in 0 .. Len(stack) /\ Len(stack) - 1 = j BY <1>1
  <2> QED BY <1>3, <1>4, <2>1, Cut DEF Below
<1>6. /\ q = stack' /\ self' = f.self /\ objCell' = f.objCell /\ guarded' = f.guarded
      /\ jump' = jump /\ changed' = changed /\ exposed' = exposed /\ base' = base
  BY <1>1, <1>2, <1>4 DEF ColonReturns, PutBack, Top, Others
<1>7. Shortened(stack, q, j)
  <2>1. j > 0 => j \in 1..j OBVIOUS
  <2> QED BY <1>1, <1>5, <2>1 DEF Shortened
<1>8. Methods(q) /\ Saved(q, base) BY <1>3, <1>5, <1>7, MethodsCut, SavedCut DEF IInv
<1>9. Right(q, base, j, f.self, f.objCell)
  <2>1. j + 1 \in DOMAIN stack /\ (j + 1) - 1 = j BY <1>1, <1>3
  <2>2. Right(stack, base, j, f.self, f.objCell) BY <1>2, <1>3, <2>1 DEF IInv, Saved
  <2> QED BY <1>5, <2>2, RightAgree
<1>10. ~exposed => changed = {} /\ Kept(q, f.objCell, f.guarded)
  <2>1. ASSUME ~exposed PROVE changed = {} /\ Kept(stack, objCell, guarded)
    BY <2>1 DEF IInv, ConstantsKept
  <2> QED BY <1>1, <1>2, <1>3, <1>5, <2>1, KeptReturn
<1>11. base \in Left /\ exposed \in BOOLEAN BY DEF IInv, Types
<1> QED BY <1>3, <1>5, <1>6, <1>8, <1>9, <1>10, <1>11, After

\* Throws, errors and changes through (self).
LEMMA RaiseInv == ASSUME IInv, p_self \/ p_throw \/ Error PROVE IInv'
<1>1. PICK q : q = stack' OBVIOUS
<1>2. /\ q = stack /\ self' = self /\ objCell' = objCell /\ guarded' = guarded /\ base' = base
      /\ jump = "none" BY <1>1 DEF p_self, p_throw, Error, Jump, Registers, Raise, Evaluating
<1>3. /\ self \in Named /\ objCell \in Named /\ guarded \in BOOLEAN /\ base \in Left
      /\ exposed \in BOOLEAN /\ stack \in Seq(Frames) BY DEF IInv, Types
<1>4. jump' \in {"none", "throw", "error"} /\ exposed' \in BOOLEAN
  <2>1. CASE p_self
    <3>1. jump' \in {"none", "error"} BY <1>2, <2>1 DEF p_self, Raise
    <3>2. exposed' = (exposed \/ self # objCell) BY <2>1 DEF p_self
    <3>3. exposed' \in BOOLEAN BY <3>2
    <3> QED BY <3>1, <3>3
  <2>2. CASE p_throw \/ Error BY <1>3, <2>2 DEF p_throw, Error, Jump, Raise
  <2> QED BY <2>1, <2>2
<1>5. ASSUME ~exposed' PROVE changed' = {} /\ Kept(q, objCell, guarded)
  <2>1. CASE p_self
    <3>1. ~exposed /\ self = objCell BY <1>5, <2>1 DEF p_self
    <3>2. changed = {} /\ Kept(stack, objCell, guarded) BY <3>1 DEF IInv, ConstantsKept
    <3>3. changed' = {}
      <4>1. CASE guarded BY <2>1, <3>2, <4>1 DEF p_self
      <4>2. CASE ~guarded
        <5>1. objCell \notin Protected BY <3>2, <4>2 DEF Kept
        <5>2. changed' = changed \cup ({self} \cap Protected) BY <2>1, <4>2 DEF p_self
        <5> QED BY <3>1, <3>2, <5>1, <5>2
      <4> QED BY <4>1, <4>2
    <3> QED BY <1>2, <3>2, <3>3
  <2>2. CASE p_throw \/ Error
    <3>1. exposed' = exposed /\ changed' = changed BY <2>2 DEF p_throw, Error, Jump
    <3> QED BY <1>2, <1>5, <3>1 DEF IInv, ConstantsKept
  <2> QED BY <2>1, <2>2
<1>6. Right(q, base, Len(q), self, objCell) /\ Methods(q) /\ Saved(q, base) BY <1>2 DEF IInv
<1> QED BY <1>1, <1>2, <1>3, <1>4, <1>5, <1>6, After

\* What a jump keeps when it lands at frame i, or at the top level with i = 0: the
\* frames below it.
LEMMA Landed ==
  ASSUME IInv, NEW i \in 0 .. Len(stack), NEW d \in 0 .. i, Leave(i),
         NoColon(stack, d, i),
         NEW q \in Seq(Frames), Shortened(stack, q, d)
  PROVE  /\ Methods(q) /\ Saved(q, base) /\ exposed' \in BOOLEAN
         /\ ~exposed' => /\ ~exposed /\ changed = {} /\ Kept(stack, objCell, guarded)
                         /\ NoColon(stack, i, Len(stack)) /\ Kept(q, objCell, guarded)
<1>1. stack \in Seq(Frames) /\ Len(stack) \in Nat /\ exposed \in BOOLEAN
      /\ DOMAIN stack = 1 .. Len(stack) BY DEF IInv, Types
<1>2. Methods(q) /\ Saved(q, base) BY <1>1, MethodsCut, SavedCut DEF IInv
<1>3. exposed' \in BOOLEAN
  <2>1. (exposed \/ \E k \in Kind({"colon"}) : k > i) \in BOOLEAN OBVIOUS
  <2> QED BY <2>1, Zenon DEF Leave
<1>4. ASSUME ~exposed'
      PROVE  /\ ~exposed /\ changed = {} /\ Kept(stack, objCell, guarded)
             /\ NoColon(stack, i, Len(stack)) /\ Kept(q, objCell, guarded)
  <2>1. ~exposed /\ \A k \in Kind({"colon"}) : ~(k > i) BY <1>4 DEF Leave
  <2>2. changed = {} /\ Kept(stack, objCell, guarded) BY <2>1 DEF IInv, ConstantsKept
  <2>3. NoColon(stack, i, Len(stack))
    <3>1. ASSUME NEW m \in i + 1 .. Len(stack), stack[m].kind = "colon" PROVE FALSE
      <4>1. m \in Kind({"colon"}) /\ m > i BY <1>1, <3>1 DEF Kind
      <4> QED BY <2>1, <4>1
    <3> QED BY <3>1 DEF NoColon
  <2>4. NoColon(stack, d, Len(stack))
    <3>1. \A m \in d + 1 .. Len(stack) : m \in d + 1 .. i \/ m \in i + 1 .. Len(stack) BY <1>1
    <3> QED BY <2>3, <3>1 DEF NoColon
  <2>5. Kept(q, objCell, guarded)
    <3>1. d \in Nat BY <1>1
    <3> QED BY <1>1, <2>2, <2>4, <3>1, KeptCut
  <2> QED BY <2>1, <2>2, <2>3, <2>5
<1> QED BY <1>2, <1>3, <1>4

\* A jump lands: at catch, which puts the registers back, or elsewhere, where they stay
\* and are remembered.
LEMMA LandInv ==
  ASSUME ObjectsAssumption, IInv, LandAtCatch \/ LandAtEval \/ LandAtTop
  PROVE  IInv'
<1>1. /\ stack \in Seq(Frames) /\ Len(stack) \in Nat /\ DOMAIN stack = 1 .. Len(stack)
      /\ self \in Named /\ objCell \in Named /\ guarded \in BOOLEAN /\ base \in Left
      /\ objCell \in Left BY DEF IInv, Types, Left
<1>2. objCell # Same BY <1>1 DEF Named, ObjectsAssumption, Same
<1>3. CASE LandAtTop
  <2>1. PICK q : q = stack' OBVIOUS
  <2>2. /\ q = <<>> /\ base' = objCell /\ jump' = "none" /\ Leave(0)
        /\ self' = self /\ objCell' = objCell /\ guarded' = guarded /\ changed' = changed
    BY <1>3, <2>1 DEF LandAtTop, Registers
  <2>3. q \in Seq(Frames) /\ Len(q) = 0 /\ DOMAIN q = {} BY <2>2
  <2>4. Shortened(stack, q, 0) /\ NoColon(stack, 0, 0) BY <1>1, <2>3 DEF Shortened, NoColon
  <2>5. 0 \in 0 .. Len(stack) /\ 0 \in 0..0 BY <1>1
  <2>6. /\ Methods(q) /\ exposed' \in BOOLEAN
        /\ ~exposed' => changed = {} /\ Kept(q, objCell, guarded)
    BY <2>2, <2>3, <2>4, <2>5, Landed
  <2>7. Saved(q, objCell) BY <2>3 DEF Saved
  <2>8. Right(q, objCell, 0, self, objCell) BY <1>2, RightAtTop
  <2> QED BY <1>1, <2>1, <2>2, <2>3, <2>6, <2>7, <2>8, After
<1>4. ASSUME Handlers # {}
      PROVE  \E i \in 1 .. Len(stack) : i = Max(Handlers) /\ stack[i].kind \in {"catch", "eval"}
  <2>1. Handlers \in SUBSET (1 .. Len(stack)) BY <1>1 DEF Handlers, Kind
  <2>2. Max(Handlers) \in Handlers BY <1>1, <1>4, <2>1, Innermost
  <2> QED BY <2>1, <2>2 DEF Handlers, Kind
<1>5. CASE LandAtCatch
  <2>1. PICK i \in 1 .. Len(stack) : i = Max(Handlers) BY <1>4, <1>5 DEF LandAtCatch
  <2>2. PICK f : f = stack[i] OBVIOUS
  <2>3. PICK q : q = stack' OBVIOUS
  <2>4. /\ q = SubSeq(stack, 1, i - 1) /\ Leave(i) /\ f.kind = "catch" /\ base' = base
        /\ self' = f.self /\ objCell' = f.objCell /\ guarded' = guarded /\ changed' = changed
        /\ jump' \in {"error", "none"}
    <3>1. jump' \in (IF jump = "error" THEN {"error", "none"} ELSE {"none"})
      BY <1>5 DEF LandAtCatch
    <3>2. jump' \in {"error", "none"} BY <3>1
    <3>3. /\ stack' = SubSeq(stack, 1, i - 1) /\ Leave(i) /\ stack[i].kind = "catch"
          /\ PutBackCaught(stack[i]) /\ UNCHANGED <<jumps, changed, base>>
      BY <1>5, <2>1 DEF LandAtCatch
    <3> QED BY <2>2, <2>3, <3>2, <3>3 DEF PutBackCaught
  <2>5. f \in Frames /\ Saves(f) /\ f.self \in Named /\ f.objCell \in Named
    <3>1. f \in Frames /\ Saves(f) BY <1>1, <2>2, <2>4 DEF Saves
    <3> QED BY <3>1, Fields
  <2>6. PICK d : d = i - 1 OBVIOUS
  <2>7. d \in Nat /\ d \in 0 .. Len(stack) /\ i \in 0 .. Len(stack) /\ d \in 0..i /\ i = d + 1
    BY <1>1, <2>6
  <2>8. q \in Seq(Frames) /\ Len(q) = d /\ \A m \in 1..d : q[m] = stack[m]
    BY <1>1, <2>4, <2>6, <2>7, Cut
  <2>9. Shortened(stack, q, d)
    <3>1. d > 0 => d \in 1..d BY <2>7
    <3> QED BY <1>1, <2>7, <2>8, <3>1 DEF Shortened
  <2>10. NoColon(stack, d, i)
    <3>1. \A m \in d + 1 .. i : m = i BY <2>7
    <3> QED BY <2>2, <2>4, <3>1 DEF NoColon
  <2>11. /\ Methods(q) /\ Saved(q, base) /\ exposed' \in BOOLEAN
         /\ ~exposed' => /\ changed = {} /\ Kept(stack, objCell, guarded)
                         /\ NoColon(stack, i, Len(stack)) /\ Kept(q, objCell, guarded)
    BY <2>4, <2>7, <2>8, <2>9, <2>10, Landed
  <2>12. Right(q, base, d, f.self, f.objCell)
    <3>1. Right(stack, base, d, f.self, f.objCell) BY <1>1, <2>2, <2>5, <2>6 DEF IInv, Saved
    <3> QED BY <2>7, <2>8, <3>1, RightAgree
  <2>13. ~exposed' => changed = {} /\ Kept(q, f.objCell, guarded)
    <3>1. ASSUME ~exposed' PROVE f.objCell = objCell BY <1>1, <2>2, <2>4, <2>11, <3>1 DEF Kept
    <3> QED BY <2>11, <3>1
  <2> QED BY <1>1, <2>3, <2>4, <2>5, <2>8, <2>11, <2>12, <2>13, After
<1>6. CASE LandAtEval
  <2>1. PICK i \in 1 .. Len(stack) : i = Max(Handlers) BY <1>4, <1>6 DEF LandAtEval
  <2>2. PICK q : q = stack' OBVIOUS
  <2>3. /\ stack[i].kind = "eval" /\ Leave(i) /\ jump' = "none"
        /\ self' = self /\ objCell' = objCell /\ guarded' = guarded /\ changed' = changed
    BY <1>6, <2>1 DEF LandAtEval, Registers
  <2>4. IF i = 1 THEN q = <<>> /\ base' = objCell
        ELSE q = [SubSeq(stack, 1, i - 1) EXCEPT ![i - 1].left = objCell] /\ base' = base
    BY <1>6, <2>1, <2>2 DEF LandAtEval
  <2>5. PICK d : d = i - 1 OBVIOUS
  <2>6. d \in Nat /\ d \in 0 .. Len(stack) /\ i \in 0 .. Len(stack) /\ d \in 0..i /\ i = d + 1
    BY <1>1, <2>5
  <2>7. NoColon(stack, d, i)
    <3>1. \A m \in d + 1 .. i : m = i BY <2>6
    <3> QED BY <2>3, <3>1 DEF NoColon
  <2>8. CASE i = 1
    <3>1. d = 0 /\ q \in Seq(Frames) /\ Len(q) = 0 /\ DOMAIN q = {} /\ base' = objCell
      BY <2>4, <2>5, <2>8
    <3>2. Shortened(stack, q, d) BY <1>1, <3>1 DEF Shortened
    <3>3. /\ Methods(q) /\ exposed' \in BOOLEAN
          /\ ~exposed' => changed = {} /\ Kept(q, objCell, guarded)
      BY <2>3, <2>6, <2>7, <3>1, <3>2, Landed
    <3>4. Saved(q, objCell) BY <3>1 DEF Saved
    <3>5. Right(q, objCell, 0, self, objCell) BY <1>2, RightAtTop
    <3> QED BY <1>1, <2>2, <2>3, <3>1, <3>3, <3>4, <3>5, After
  <2>9. CASE i # 1
    <3>1. PICK s : s = SubSeq(stack, 1, d) OBVIOUS
    <3>2. d > 0 /\ d \in 1..d BY <1>1, <2>5, <2>9
    <3>3. s \in Seq(Frames) /\ Len(s) = d /\ s # <<>> /\ \A m \in 1..d : s[m] = stack[m]
      <4>1. s \in Seq(Frames) /\ Len(s) = d /\ \A m \in 1..d : s[m] = stack[m]
        BY <1>1, <2>6, <3>1, Cut
      <4> QED BY <3>2, <4>1
    <3>4. PICK f : f = [stack[d] EXCEPT !.left = objCell] OBVIOUS
    <3>5. /\ f \in Frames /\ f.left = objCell /\ f.kind = stack[d].kind /\ f.at = stack[d].at
          /\ Saves(stack[d]) => f.self = stack[d].self /\ f.objCell = stack[d].objCell
          /\ stack[d].kind = "colon" => f.guarded = stack[d].guarded
      <4>1. stack[d] \in Frames BY <1>1, <2>6, <3>2
      <4> QED BY <1>1, <3>4, <4>1, LeftIn
    <3>6. /\ q \in Seq(Frames) /\ Len(q) = d /\ q[d] = f /\ \A m \in 1 .. d - 1 : q[m] = stack[m]
          /\ base' = base
      <4>1. q = [s EXCEPT ![d] = f] /\ base' = base
        <5>1. q = [s EXCEPT ![d].left = objCell] /\ base' = base BY <2>4, <2>5, <2>9, <3>1
        <5>2. s[d] = stack[d] BY <3>2, <3>3
        <5> QED BY <3>4, <5>1, <5>2
      <4>2. /\ q \in Seq(Frames) /\ Len(q) = d /\ q[d] = f
            /\ \A m \in 1 .. d - 1 : q[m] = s[m] BY <3>3, <3>5, <4>1, Put
      <4>3. \A m \in 1 .. d - 1 : m \in 1..d BY <2>6
      <4> QED BY <3>3, <4>1, <4>2, <4>3
    <3>7. Shortened(stack, q, d) BY <2>6, <3>2, <3>5, <3>6 DEF Shortened
    <3>8. /\ Methods(q) /\ Saved(q, base) /\ exposed' \in BOOLEAN
          /\ ~exposed' => changed = {} /\ Kept(q, objCell, guarded)
      BY <2>3, <2>6, <2>7, <3>6, <3>7, Landed
    <3>9. Right(q, base, d, self, objCell)
      <4>1. stack[d].kind # "colon"
        <5>1. stack[d].kind = "colon" => OnColon(stack, i) BY <2>5, <2>6, <3>2 DEF OnColon
        <5>2. OnColon(stack, i) => stack[i].kind \in {"lambda", "macro"}
          BY <1>1, <2>1 DEF IInv, Methods
        <5> QED BY <2>3, <5>1, <5>2
      <4>2. d \in Nat \ {0} /\ q[d].left # Same /\ q[d].left = objCell
        BY <1>2, <2>6, <3>2, <3>5, <3>6
      <4>3. ~(q[d].kind = "colon" /\ q[d].at = "call") BY <3>5, <3>6, <4>1
      <4> QED BY <4>2, <4>3, RightLeft
    <3> QED BY <1>1, <2>2, <2>3, <3>6, <3>8, <3>9, After
  <2> QED BY <2>8, <2>9
<1> QED BY <1>3, <1>5, <1>6

\* Every step keeps the invariant.
LEMMA Inductive == ASSUME ObjectsAssumption, IInv, [ObjectsNext]_objectVars PROVE IInv'
<1>1. CASE UNCHANGED objectVars
  <2>1. PICK q : q = stack' OBVIOUS
  <2>2. /\ q = stack /\ self' = self /\ objCell' = objCell /\ guarded' = guarded /\ jump' = jump
        /\ changed' = changed /\ base' = base /\ exposed' = exposed BY <1>1, <2>1 DEF objectVars
  <2> QED BY <2>1, <2>2, After DEF IInv, Types, ConstantsKept
<1>2. CASE ObjectsNext
  BY <1>2, ColonInv, MethodInv, PushInv, BodyInv, ReturnInv, ColonReturnsInv, RaiseInv, LandInv
     DEF ObjectsNext
<1> QED BY <1>1, <1>2

\* Whatever calls, throws and errors have come and gone, (self) is the object of the
\* innermost method call or what an error has left since; and as long as no jump has
\* left a method and (self) is used in its body only, no constant is changed through
\* it: for any variables, any depth and any number of jumps (p_colon, p_self,
\* evaluateLambda, p_catch, sysEvalString, the reset).
THEOREM SelfKept == ASSUME ObjectsAssumption PROVE ObjectsSpec => []ObjectsExact
<1>1. ObjectsInit => IInv BY InitInv
<1>2. IInv /\ [ObjectsNext]_objectVars => IInv' BY Inductive
<1>3. IInv => ObjectsExact BY Exact
<1> QED BY <1>1, <1>2, <1>3, PTL DEF ObjectsSpec
=============================================================================
