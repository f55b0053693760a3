---------------------------- MODULE ScopeProofs ----------------------------
(***************************************************************************)
(* Theorems about DynamicScope, for all variables, values, functions and   *)
(* parameter lists and any depth of calls.  In trace mode a body that      *)
(* fails returns without popping its entries, and a loop may go on without *)
(* having bound: what is only true without it is said under NoTrace.       *)
(***************************************************************************)
EXTENDS DynamicScope, FiniteSetTheorems, SequenceTheorems, WellFoundedInduction, TLAPS

NoTrace == "trace" \notin Features

(* The inductive invariant.  Until a loop goes on without having bound, *)
(* every activation's entries are above those of its callers; without trace *)
(* mode every function pops what it pushed, and the activations' marks *)
(* partition envStack. *)
Catching(a) == a.kind \in {"catch", "eval-string"} /\ a.phase = "body"
Armed(a) == a.kind \in {"catch", "eval-string", "load"} /\ a.phase = "body"
Catchers == {i \in 1..Depth : Catching(activations[i])}

\* Only functions that bind own entries, and none has bound too many.
Sound(a) ==
  /\ a.kind \notin Binders => a.n = 0
  /\ a.phase = "args" => a.n = 0
  /\ a.phase = "bind" => a.n < Len(a.params)
  /\ a.kind = "lambda" => a.fn \in Fun /\ Len(a.params) > 0
  /\ a.kind = "loop" => Len(a.params) > 0
  /\ a.phase = "store" => a.kind = "catch"
Shape ==
  /\ NoTrace => traceFlag = FALSE /\ goneOn = FALSE
  /\ \A i \in 1..Depth : Sound(activations[i])

\* Every activation has its entries where it will pop them.
End(a) == a.env + a.n
Room == goneOn = FALSE =>
  /\ \A j \in 1..Depth : \A i \in 1 .. j - 1 : End(activations[i]) <= activations[j].env
  /\ \A i \in 1..Depth : End(activations[i]) <= Len(envStack)

\* envStack is the activations' own entries, one after the other.
Partition ==
  /\ Depth = 0 => Len(envStack) = 0
  /\ Depth > 0 => activations[1].env = 0 /\ Len(envStack) = Top.env + Top.n
  /\ \A i \in 1 .. Depth - 1 : activations[i + 1].env = activations[i].env + activations[i].n

\* An activation that leaves the context as it is for those it calls, in a
\* program that does not switch contexts itself.
Steady == NoTrace /\ "context" \notin Features
KeepsContext(a) == /\ Steady
                   /\ SavesContext(a) => a.kind = "lambda" /\ a.phase = "args"
Registers ==
  /\ \A i \in 1..Depth : activations[i].rec = i - 1
  /\ \A i \in 1 .. Depth - 1 : KeepsContext(activations[i]) => activations[i + 1].ctx = activations[i].ctx
  /\ jump = Null => recursionCount = Depth
  /\ jump = Null /\ Depth > 0 /\ KeepsContext(Top) => currentContext = Top.ctx

\* errorJump and the saved jmp of every activation is the innermost setjmp.
Innermost(q, j, d) == /\ j \in 0..d
                      /\ j > 0 => Armed(q[j])
                      /\ \A i \in 1..d : i > j => ~Armed(q[i])
Setjmps ==
  /\ \A k \in 1..Depth : Innermost(activations, activations[k].jmp, k - 1)
  /\ jump = Null => Innermost(activations, errorJump, Depth)
  /\ errorJump > 0 => Armed(activations[errorJump])
  /\ \A i \in 1..Depth : i > errorJump => ~Catching(activations[i])

Counted == evalCatchFlag = Cardinality(Catchers)

\* So are the calls on lambdaStack.
Calls(a) == IF a.kind = "lambda" THEN 1 ELSE 0
Before(a, lam) == a.lam + Calls(a) <= lam
Nested ==
  /\ \A j \in 1..Depth : \A i \in 1 .. j - 1 : Before(activations[i], activations[j].lam)
  /\ \A i \in 1..Depth : Before(activations[i], Len(lambdaStack))

\* A throw that is under way started while a catch could receive it.
Caught == jump = "throw" => evalCatchFlag > 0

IInv == /\ TypeOK /\ Shape /\ Room /\ (NoTrace => Partition) /\ Registers /\ Setjmps /\ Nested
        /\ Counted /\ Caught
----------------------------------------
(* Undoing. *)
\* A set of numbers that is not empty has a least one, which Lowest is.
LEMMA LowestIsLeast ==
  ASSUME NEW S \in SUBSET Nat, S # {}
  PROVE  Lowest(S) \in S /\ \A i \in S : Lowest(S) <= i
<1>1. PICK j \in S : \A i \in S : j <= i
  <2>1. PICK j \in S : \A i \in S : <<i, j>> \notin OpToRel(<, Nat)
    BY WFMin, NatLessThanWellFounded, Zenon
  <2>2. \A i \in S : ~(i < j) BY <2>1 DEF OpToRel
  <2> QED BY <2>2
<1> QED BY <1>1 DEF Lowest

\* What an undone variable gets back is a value.
LEMMA UndoneIsValue ==
  ASSUME TypeOK, NEW d \in Nat, NEW s \in Sym
  PROVE  Undone(d, s) \in Val
<1>1. CASE Above(d, s) = {} BY <1>1 DEF Undone, TypeOK
<1>2. CASE Above(d, s) # {}
  <2>1. Above(d, s) \in SUBSET Nat /\ Above(d, s) \subseteq 1 .. Len(envStack)
    BY DEF Above, TypeOK
  <2>2. Lowest(Above(d, s)) \in 1 .. Len(envStack) BY <1>2, <2>1, LowestIsLeast
  <2>3. envStack[Lowest(Above(d, s))] \in [sym : Sym, saved : Val]
    <3>. DEFINE E == [sym : Sym, saved : Val]
    <3>1. envStack \in Seq(E) BY DEF TypeOK
    <3>. HIDE DEF E
    <3>2. envStack[Lowest(Above(d, s))] \in E BY <2>2, <3>1
    <3> QED BY <3>2 DEF E
  <2> QED BY <1>2, <2>3 DEF Undone
<1> QED BY <1>1, <1>2

\* A prefix of a sequence.
LEMMA CutSeq ==
  ASSUME NEW T, NEW q \in Seq(T), NEW d \in 0 .. Len(q)
  PROVE  /\ SubSeq(q, 1, d) \in Seq(T)
         /\ Len(SubSeq(q, 1, d)) = d
         /\ \A i \in 1..d : SubSeq(q, 1, d)[i] = q[i]
OBVIOUS

\* Undoing keeps the types.
LEMMA UndoTypes ==
  ASSUME TypeOK, NEW d \in Nat, UndoTo(d)
  PROVE  /\ contents' \in [Sym -> Val]
         /\ envStack' \in Seq([sym : Sym, saved : Val])
         /\ d <= Len(envStack) => Len(envStack') = d
<1>1. contents' \in [Sym -> Val] BY UndoneIsValue DEF UndoTo
<1>2. envStack \in Seq([sym : Sym, saved : Val]) BY DEF TypeOK
<1>3. Lower(d) \in 0 .. Len(envStack) /\ (d <= Len(envStack) => Lower(d) = d) BY <1>2 DEF Lower
<1> QED BY <1>1, <1>2, <1>3, CutSeq DEF UndoTo
----------------------------------------
(* The four ways a step changes the C stack. *)
LEMMA Element == ASSUME TypeOK, NEW i \in 1..Depth PROVE activations[i] \in Activation
<1>1. activations \in Seq(Activation) BY DEF TypeOK
<1> QED BY <1>1 DEF Depth

\* The innermost activation is one.
LEMMA TopElement == ASSUME TypeOK, Depth > 0 PROVE Top \in Activation /\ Depth \in 1..Depth
<1>1. Depth \in Nat BY DEF TypeOK, Depth
<1> QED BY <1>1, Element DEF Top

\* An activation is added to the others.
LEMMA Grown ==
  ASSUME TypeOK, NEW a \in Activation, activations' = Append(activations, a)
  PROVE  /\ activations' \in Seq(Activation)
         /\ Depth \in Nat /\ Depth' = Depth + 1
         /\ activations'[Depth + 1] = a /\ Top' = a
         /\ \A i \in 1..Depth : activations'[i] = activations[i]
<1>1. activations \in Seq(Activation) BY DEF TypeOK
<1> QED BY <1>1 DEF Depth, Top

\* The innermost activation is changed.
LEMMA Changed ==
  ASSUME TypeOK, Depth > 0, NEW a \in Activation, activations' = WithTop(a)
  PROVE  /\ activations' \in Seq(Activation)
         /\ Depth \in Nat /\ Depth' = Depth
         /\ activations'[Depth] = a /\ Top' = a
         /\ \A i \in 1 .. Depth - 1 : activations'[i] = activations[i]
<1>1. activations \in Seq(Activation) BY DEF TypeOK
<1> QED BY <1>1 DEF Depth, Top, WithTop

\* The innermost activations are left, down to k.
LEMMA Popped ==
  ASSUME TypeOK, NEW k \in 0..Depth, activations' = SubSeq(activations, 1, k)
  PROVE  /\ activations' \in Seq(Activation)
         /\ Depth \in Nat /\ Depth' = k
         /\ k > 0 => Top' = activations[k]
         /\ \A i \in 1..k : activations'[i] = activations[i]
<1>1. activations \in Seq(Activation) BY DEF TypeOK
<1> QED BY <1>1, CutSeq DEF Depth, Top

\* Those above activation k are left, and k is changed.
LEMMA Replaced ==
  ASSUME TypeOK, NEW k \in 1..Depth, NEW a \in Activation,
         activations' = Append(SubSeq(activations, 1, k - 1), a)
  PROVE  /\ activations' \in Seq(Activation)
         /\ Depth \in Nat /\ Depth' = k
         /\ activations'[k] = a /\ Top' = a
         /\ \A i \in 1 .. k - 1 : activations'[i] = activations[i]
<1>1. activations \in Seq(Activation) BY DEF TypeOK
<1>2. /\ SubSeq(activations, 1, k - 1) \in Seq(Activation)
      /\ Len(SubSeq(activations, 1, k - 1)) = k - 1
      /\ \A i \in 1 .. k - 1 : SubSeq(activations, 1, k - 1)[i] = activations[i]
  BY <1>1, CutSeq DEF Depth
<1> QED BY <1>1, <1>2 DEF Depth, Top

\* The fields of an activation.
LEMMA Fields ==
  ASSUME NEW a \in Activation
  PROVE  /\ a.kind \in Kinds /\ a.phase \in {"args", "bind", "body", "store"}
         /\ a.fn \in Fun \cup {Null} /\ a.params \in Seq(Sym) /\ a.n \in Nat
         /\ a.args \in Seq(Val) /\ a.sym \in Sym \cup {Null}
         /\ a.env \in Nat /\ a.rec \in Nat /\ a.lam \in Nat /\ a.ctx \in Ctx /\ a.jmp \in Nat
BY DEF Activation
----------------------------------------
\* The innermost setjmp depends only on which activations are armed.
LEMMA InnermostAgree ==
  ASSUME NEW q, NEW r, NEW d \in Nat, NEW j, Innermost(q, j, d),
         \A i \in 1..d : Armed(r[i]) <=> Armed(q[i])
  PROVE  Innermost(r, j, d)
BY DEF Innermost

\* It stays the same when an activation is added that is not.
LEMMA InnermostMore ==
  ASSUME NEW q, NEW d \in Nat, NEW j, Innermost(q, j, d), ~Armed(q[d + 1])
  PROVE  Innermost(q, j, d + 1)
BY DEF Innermost

\* The catches that are running can be counted.
LEMMA CatchersFinite ==
  ASSUME TypeOK
  PROVE  IsFiniteSet(Catchers) /\ Cardinality(Catchers) \in Nat
<1>1. Depth \in Nat BY DEF TypeOK, Depth
<1>2. IsFiniteSet(1..Depth) BY <1>1, FS_Interval
<1>3. IsFiniteSet(Catchers) BY <1>2, FS_Subset DEF Catchers
<1> QED BY <1>3, FS_CardinalityType

\* A call.
LEMMA EnterStep ==
  ASSUME IInv, NEW k \in Kinds \ {"plain"}, NEW ph \in {"args", "bind", "body"},
         NEW f \in Fun \cup {Null}, NEW ps \in Seq(Sym), NEW s \in Sym \cup {Null},
         Enter(Entered(k, ph, f, ps, s)),
         k = "lambda" => f \in Fun /\ Len(ps) > 0, k = "loop" => Len(ps) > 0,
         k \notin Binders => ph = "body",
         ph = "bind" => Len(ps) > 0,
         lambdaStack' = IF k = "lambda" THEN Append(lambdaStack, f) ELSE lambdaStack,
         currentContext' \in Ctx,
         currentContext' = currentContext \/ k \in {"eval-string", "load"},
         evalCatchFlag' = IF k \in {"catch", "eval-string"} THEN evalCatchFlag + 1 ELSE evalCatchFlag,
         errorJump' = IF k \in {"catch", "eval-string", "load"} THEN Depth + 1 ELSE errorJump
  PROVE  IInv'
<1>. DEFINE a == Entered(k, ph, f, ps, s)
<1>1. /\ TypeOK /\ jump = Null
      /\ activations' = Append(activations, a) /\ recursionCount' = recursionCount + 1
      /\ UNCHANGED <<contents, envStack, traceFlag, goneOn, jump>> BY DEF IInv, Enter, Evaluating
<1>2. /\ a \in Activation
      /\ a.kind = k /\ a.phase = ph /\ a.fn = f /\ a.params = ps /\ a.n = 0
      /\ a.env = Len(envStack) /\ a.rec = recursionCount /\ a.lam = Len(lambdaStack)
      /\ a.ctx = currentContext /\ a.jmp = errorJump BY <1>1 DEF Entered, Activation, TypeOK
<1>. HIDE DEF a
<1>3. /\ activations' \in Seq(Activation)
      /\ Depth \in Nat /\ Depth' = Depth + 1
      /\ activations'[Depth + 1] = a /\ Top' = a
      /\ \A i \in 1..Depth : activations'[i] = activations[i] BY <1>1, <1>2, Grown
<1>4. Depth > 0 => Depth \in 1..Depth /\ Top = activations[Depth] BY <1>3 DEF Top
<1>5. TypeOK' BY <1>1, <1>3 DEF TypeOK
<1>6. Shape'
  <2>1. Sound(a) BY <1>2 DEF Sound
  <2>2. \A i \in 1..Depth : Sound(activations[i]) BY DEF IInv, Shape
  <2>3. \A i \in 1 .. Depth + 1 : Sound(activations'[i]) BY <1>3, <2>1, <2>2
  <2> QED BY <1>1, <1>3, <2>3 DEF IInv, Shape, Sound
<1>15. Room'
  <2>. SUFFICES ASSUME goneOn' = FALSE PROVE Room' BY DEF Room
  <2>0. /\ \A j \in 1..Depth : \A i \in 1 .. j - 1 : End(activations[i]) <= activations[j].env
        /\ \A i \in 1..Depth : End(activations[i]) <= Len(envStack) BY <1>1 DEF IInv, Room
  <2>1. a.env = Len(envStack') /\ End(a) <= Len(envStack') BY <1>1, <1>2 DEF TypeOK, End
  <2>2. \A i \in 1..Depth : End(activations'[i]) <= Len(envStack') BY <1>1, <1>3, <2>0
  <2>3. \A i \in 1 .. Depth + 1 : End(activations'[i]) <= Len(envStack') BY <1>3, <2>1, <2>2
  <2>4. ASSUME NEW j \in 1 .. Depth + 1, NEW i \in 1 .. j - 1
        PROVE  End(activations'[i]) <= activations'[j].env
    <3>1. i \in 1..Depth /\ activations'[i] = activations[i] BY <1>3
    <3>2. CASE j = Depth + 1 BY <1>3, <2>1, <2>2, <3>1, <3>2
    <3>3. CASE j \in 1..Depth BY <1>3, <2>0, <3>1, <3>3
    <3> QED BY <1>3, <3>2, <3>3
  <2> QED BY <1>3, <2>3, <2>4 DEF Room, End
<1>7. NoTrace => Partition'
  <2>. SUFFICES ASSUME NoTrace PROVE Partition' OBVIOUS
  <2>1. a.env = Len(envStack) /\ a.n = 0 /\ Len(envStack) \in Nat BY <1>1, <1>2 DEF TypeOK
  <2>2. Depth = 0 => Len(envStack) = 0 BY DEF IInv, Partition
  <2>3. Depth > 0 => activations[1].env = 0 /\ Len(envStack) = activations[Depth].env + activations[Depth].n
    BY <1>4 DEF IInv, Partition
  <2>4. \A i \in 1 .. Depth - 1 : activations[i + 1].env = activations[i].env + activations[i].n
    BY DEF IInv, Partition
  <2>5. ASSUME NEW i \in 1..Depth
        PROVE  activations'[i + 1].env = activations'[i].env + activations'[i].n
    <3>1. CASE i = Depth BY <1>3, <2>1, <2>3, <3>1
    <3>2. CASE i # Depth
      <4>1. i \in 1 .. Depth - 1 /\ i + 1 \in 1..Depth BY <1>3, <3>2
      <4> QED BY <1>3, <2>4, <4>1
    <3> QED BY <3>1, <3>2
  <2>6. activations'[1].env = 0 BY <1>3, <2>1, <2>2, <2>3
  <2>7. Len(envStack') = Top'.env + Top'.n BY <1>1, <1>3, <2>1
  <2>8. \A i \in 1 .. Depth' - 1 : activations'[i + 1].env = activations'[i].env + activations'[i].n
    <3>1. Depth' - 1 = Depth BY <1>3
    <3> QED BY <2>5, <3>1
  <2>9. Depth' # 0 BY <1>3
  <2> QED BY <2>6, <2>7, <2>8, <2>9 DEF Partition
<1>8. Registers'
  <2>1. Registers BY DEF IInv
  <2>6. recursionCount = Depth /\ \A i \in 1..Depth : activations[i].rec = i - 1
    BY <1>1, <2>1 DEF Registers
  <2>2. ASSUME NEW i \in 1 .. Depth + 1 PROVE activations'[i].rec = i - 1
    <3>1. CASE i = Depth + 1 BY <1>2, <1>3, <2>6, <3>1
    <3>2. CASE i \in 1..Depth BY <1>3, <2>6, <3>2
    <3> QED BY <1>3, <3>1, <3>2
  <2>3. ASSUME NEW i \in 1..Depth, KeepsContext(activations'[i])
        PROVE  activations'[i + 1].ctx = activations'[i].ctx
    <3>1. CASE i = Depth
      <4>1. activations'[i + 1] = a /\ activations'[i] = Top /\ a.ctx = currentContext
        BY <1>2, <1>3, <1>4, <3>1
      <4>2. Depth > 0 BY <1>3, <3>1
      <4>3. KeepsContext(Top) => currentContext = Top.ctx BY <1>1, <2>1, <4>2 DEF Registers
      <4> QED BY <2>3, <4>1, <4>3
    <3>2. CASE i # Depth
      <4>1. i \in 1 .. Depth - 1 /\ i + 1 \in 1..Depth BY <1>3, <3>2
      <4> QED BY <1>3, <2>1, <2>3, <4>1 DEF Registers
    <3> QED BY <3>1, <3>2
  <2>4. recursionCount' = Depth + 1 BY <1>1, <2>1 DEF Registers
  <2>5. KeepsContext(a) => currentContext' = a.ctx BY <1>2 DEF KeepsContext, SavesContext
  <2> QED BY <1>3, <2>2, <2>3, <2>4, <2>5 DEF Registers
<1>9. Setjmps'
  <2>1. Armed(a) <=> k \in {"catch", "eval-string", "load"} BY <1>2 DEF Armed, Binders
  <2>2. Catching(a) => Armed(a) BY DEF Armed, Catching
  <2>3. Innermost(activations, errorJump, Depth) BY <1>1 DEF IInv, Setjmps
  <2>4. Innermost(activations', errorJump', Depth + 1)
    <3>1. CASE k \in {"catch", "eval-string", "load"}
      <4>1. errorJump' = Depth + 1 /\ Armed(activations'[Depth + 1]) BY <1>3, <2>1, <3>1
      <4>2. Depth \in Nat BY <1>3
      <4>3. Innermost(activations', Depth + 1, Depth + 1) BY ONLY <4>1, <4>2 DEF Innermost
      <4> QED BY ONLY <4>1, <4>3
    <3>2. CASE k \notin {"catch", "eval-string", "load"}
      <4>1. Innermost(activations', errorJump, Depth) BY <1>3, <2>3, InnermostAgree
      <4>2. errorJump' = errorJump /\ ~Armed(activations'[Depth + 1]) BY <1>3, <2>1, <3>2
      <4> QED BY <1>3, <4>1, <4>2, InnermostMore
    <3> QED BY <3>1, <3>2
  <2>5. ASSUME NEW i \in 1 .. Depth + 1
        PROVE  Innermost(activations', activations'[i].jmp, i - 1)
    <3>1. CASE i = Depth + 1 BY <1>2, <1>3, <2>3, <3>1 DEF Innermost
    <3>2. CASE i \in 1..Depth
      <4>1. Innermost(activations, activations[i].jmp, i - 1) BY <3>2 DEF IInv, Setjmps
      <4> QED BY <1>3, <3>2, <4>1 DEF Innermost
    <3> QED BY <1>3, <3>1, <3>2
  <2> QED BY <1>1, <1>3, <2>2, <2>4, <2>5 DEF Setjmps, Innermost, Catching, Armed
<1>10. Nested'
  <2>1. /\ Len(lambdaStack) \in Nat /\ Calls(a) \in Nat
        /\ Len(lambdaStack') = Len(lambdaStack) + Calls(a) BY <1>1, <1>2 DEF TypeOK, Calls
  <2>2. ASSUME NEW i \in 1..Depth
        PROVE  Before(activations'[i], Len(lambdaStack'))
    <3>1. Before(activations[i], Len(lambdaStack)) /\ activations[i] \in Activation
      BY <1>1, Element DEF IInv, Nested
    <3>2. activations[i].lam + Calls(activations[i]) \in Nat BY <3>1, Fields DEF Calls
    <3>3. activations'[i] = activations[i] BY <1>3
    <3> QED BY <2>1, <3>1, <3>2, <3>3 DEF Before
  <2>3. Before(a, Len(lambdaStack')) BY <1>1, <1>2, <2>1 DEF Before, TypeOK
  <2>4. ASSUME NEW j \in 1 .. Depth + 1, NEW i \in 1 .. j - 1
        PROVE  Before(activations'[i], activations'[j].lam)
    <3>1. i \in 1..Depth /\ activations'[i] = activations[i] BY <1>3
    <3>2. CASE j = Depth + 1 BY <1>2, <1>3, <3>1, <3>2 DEF IInv, Nested
    <3>3. CASE j \in 1..Depth BY <1>3, <3>1, <3>3 DEF IInv, Nested
    <3> QED BY <1>3, <3>2, <3>3
  <2>5. ASSUME NEW i \in 1 .. Depth + 1 PROVE Before(activations'[i], Len(lambdaStack'))
    <3>1. CASE i = Depth + 1 BY <1>3, <2>3, <3>1
    <3>2. CASE i \in 1..Depth BY <2>2, <3>2
    <3> QED BY <1>3, <3>1, <3>2
  <2>6. Depth' = Depth + 1 BY <1>3
  <2> QED BY <2>4, <2>5, <2>6 DEF Nested, Before, Calls
<1>11. Counted'
  <2>1. Catchers' = IF k \in {"catch", "eval-string"} THEN Catchers \cup {Depth + 1} ELSE Catchers
    BY <1>2, <1>3 DEF Catchers, Catching, Binders
  <2>2. Depth + 1 \notin Catchers BY <1>3 DEF Catchers
  <2> QED BY <1>1, <2>1, <2>2, CatchersFinite, FS_AddElement DEF IInv, Counted
<1>12. Caught' BY <1>1, ScopeAssumption DEF Caught
<1> QED BY <1>5, <1>6, <1>7, <1>8, <1>9, <1>10, <1>11, <1>12, <1>15 DEF IInv

\* The running function goes on: it binds the next symbol, or stops catching.
LEMMA ChangeStep ==
  ASSUME IInv, jump = Null, Depth > 0, NEW a \in Activation, activations' = WithTop(a),
         a.kind = Top.kind, a.fn = Top.fn, a.params = Top.params, a.env = Top.env,
         a.rec = Top.rec, a.lam = Top.lam, a.jmp = Top.jmp, Sound(a),
         a.ctx = Top.ctx \/ (Top.kind = "lambda" /\ Top.phase = "args" /\ a.ctx = currentContext),
         contents' \in [Sym -> Val], envStack' \in Seq([sym : Sym, saved : Val]),
         goneOn' = FALSE => Top.env + a.n <= Len(envStack'), NoTrace => Len(envStack') = Top.env + a.n,
         goneOn' = goneOn \/ (goneOn' = TRUE /\ ~NoTrace),
         currentContext' \in Ctx, KeepsContext(a) => KeepsContext(Top) /\ currentContext' = currentContext,
         \/ Top.kind \in Binders /\ UNCHANGED <<errorJump, evalCatchFlag>>
         \/ Catching(Top) /\ ~Armed(a) /\ errorJump' = Top.jmp /\ evalCatchFlag' = evalCatchFlag - 1,
         UNCHANGED <<lambdaStack, recursionCount, traceFlag, jump>>
  PROVE  IInv'
<1>1. TypeOK /\ Top \in Activation /\ Depth \in 1..Depth /\ Top = activations[Depth]
  BY TopElement DEF IInv, Top
<1>2. /\ activations' \in Seq(Activation)
      /\ Depth \in Nat /\ Depth' = Depth
      /\ activations'[Depth] = a /\ Top' = a
      /\ \A i \in 1 .. Depth - 1 : activations'[i] = activations[i] BY <1>1, Changed
<1>3. Catching(Top) => Armed(Top) /\ Top \in Activation BY <1>1 DEF Catching, Armed
<1>4. Top.kind \in Binders => ~Armed(Top) /\ ~Armed(a) /\ ~Catching(Top) /\ ~Catching(a)
  BY DEF Armed, Catching, Binders
<1>5. ~Armed(a) => ~Catching(a) BY DEF Armed, Catching
<1>6. /\ Innermost(activations, errorJump, Depth)
      /\ \A i \in 1..Depth : Innermost(activations, activations[i].jmp, i - 1)
  BY DEF IInv, Setjmps
<1>7. Catchers' = IF Catching(Top) THEN Catchers \ {Depth} ELSE Catchers
  BY <1>1, <1>2, <1>4, <1>5 DEF Catchers, Catching
<1>8. Catching(Top) <=> Depth \in Catchers BY <1>1 DEF Catchers
<1>9. evalCatchFlag = Cardinality(Catchers) BY DEF IInv, Counted
<1>10. Catching(Top) => Cardinality(Catchers \ {Depth}) = Cardinality(Catchers) - 1
                        /\ Cardinality(Catchers) - 1 \in Nat
  <2>1. Catching(Top) => Cardinality(Catchers \ {Depth}) = Cardinality(Catchers) - 1
                         /\ IsFiniteSet(Catchers \ {Depth})
    BY <1>1, <1>8, CatchersFinite, FS_RemoveElement
  <2> QED BY <2>1, FS_CardinalityType
<1>11. Counted' /\ evalCatchFlag' \in Nat BY <1>1, <1>4, <1>7, <1>9, <1>10 DEF Counted, TypeOK
<1>12. TypeOK'
  <2>1. errorJump' \in 0..Depth
    <3>1. Innermost(activations, Top.jmp, Depth - 1) BY <1>1, <1>6
    <3> QED BY <1>2, <1>6, <3>1 DEF Innermost
  <2> QED BY <1>1, <1>2, <1>11, <2>1 DEF TypeOK
<1>13. Shape'
  <2>1. \A i \in 1..Depth : Sound(activations[i]) BY DEF IInv, Shape
  <2>2. \A i \in 1..Depth : Sound(activations'[i]) BY <1>2, <2>1
  <2> QED BY <1>2, <2>2 DEF IInv, Shape, Sound
<1>19. Room'
  <2>. SUFFICES ASSUME goneOn' = FALSE PROVE Room' BY DEF Room
  <2>0. /\ \A j \in 1..Depth : \A i \in 1 .. j - 1 : End(activations[i]) <= activations[j].env
        /\ Top.env + a.n <= Len(envStack') BY DEF IInv, Room
  <2>1. \A i \in 1..Depth : activations'[i].env = activations[i].env BY <1>1, <1>2
  <2>2. ASSUME NEW j \in 1..Depth, NEW i \in 1 .. j - 1
        PROVE  End(activations'[i]) <= activations'[j].env
    <3>1. i \in 1 .. Depth - 1 /\ i \in 1..Depth BY <1>2
    <3> QED BY <1>2, <2>0, <2>1, <3>1
  <2>3. ASSUME NEW i \in 1..Depth PROVE End(activations'[i]) <= Len(envStack')
    <3>1. CASE i = Depth BY <1>1, <1>2, <2>0, <3>1 DEF End
    <3>2. CASE i \in 1 .. Depth - 1
      <4>1. End(activations[i]) <= Top.env /\ activations'[i] = activations[i]
        BY <1>1, <1>2, <2>0, <3>2
      <4>2. /\ activations[i].env \in Nat /\ activations[i].n \in Nat
            /\ Top.env \in Nat /\ a.n \in Nat /\ Len(envStack') \in Nat BY <1>1, Element, Fields
      <4> QED BY <2>0, <4>1, <4>2 DEF End
    <3> QED BY <1>2, <3>1, <3>2
  <2> QED BY <1>2, <2>2, <2>3 DEF Room, End
<1>14. NoTrace => Partition'
  <2>. SUFFICES ASSUME NoTrace PROVE Partition' OBVIOUS
  <2>1. activations[1].env = 0 BY DEF IInv, Partition
  <2>2. \A i \in 1 .. Depth - 1 : activations[i + 1].env = activations[i].env + activations[i].n
    BY DEF IInv, Partition
  <2>3. \A i \in 1..Depth : activations'[i].env = activations[i].env BY <1>1, <1>2
  <2>4. ASSUME NEW i \in 1 .. Depth - 1
        PROVE  activations'[i + 1].env = activations'[i].env + activations'[i].n
    <3>1. i \in 1..Depth /\ i + 1 \in 1..Depth BY <1>2
    <3> QED BY <1>2, <2>2, <2>3, <3>1
  <2>5. activations'[1].env = 0 BY <1>1, <1>2, <2>1, <2>3
  <2> QED BY <1>2, <2>4, <2>5 DEF Partition
<1>15. Registers'
  <2>1. /\ recursionCount = Depth /\ \A i \in 1..Depth : activations[i].rec = i - 1
        /\ KeepsContext(Top) => currentContext = Top.ctx BY DEF IInv, Registers
  <2>2. Steady => a.ctx = Top.ctx BY <2>1 DEF KeepsContext
  <2>3. ASSUME NEW i \in 1..Depth PROVE activations'[i].rec = i - 1
    <3>1. CASE i = Depth BY <1>1, <1>2, <2>1, <3>1
    <3>2. CASE i \in 1 .. Depth - 1 BY <1>2, <2>1, <3>2
    <3> QED BY <1>2, <3>1, <3>2
  <2>4. ASSUME NEW i \in 1 .. Depth - 1, KeepsContext(activations'[i])
        PROVE  activations'[i + 1].ctx = activations'[i].ctx
    <3>1. i + 1 \in 1..Depth /\ activations'[i] = activations[i] /\ Steady
      BY <1>2, <2>4 DEF KeepsContext
    <3>2. activations[i + 1].ctx = activations[i].ctx BY <2>4, <3>1 DEF IInv, Registers
    <3>3. CASE i + 1 = Depth BY <1>1, <1>2, <2>2, <3>1, <3>2, <3>3
    <3>4. CASE i + 1 # Depth
      <4>1. i + 1 \in 1 .. Depth - 1 BY <1>2, <3>1, <3>4
      <4> QED BY <1>2, <3>1, <3>2, <4>1
    <3> QED BY <3>3, <3>4
  <2>5. KeepsContext(a) => currentContext' = a.ctx BY <2>1, <2>2 DEF KeepsContext
  <2> QED BY <1>2, <2>1, <2>3, <2>4, <2>5 DEF Registers
<1>16. Setjmps'
  <2>1. \A i \in 1..Depth : activations'[i].jmp = activations[i].jmp BY <1>1, <1>2
  <2>2. ASSUME NEW i \in 1..Depth PROVE Innermost(activations', activations'[i].jmp, i - 1)
    <3>1. i - 1 \in Nat /\ \A k \in 1 .. i - 1 : activations'[k] = activations[k] BY <1>2
    <3>2. Innermost(activations, activations[i].jmp, i - 1) BY <1>6
    <3> QED BY <2>1, <3>1, <3>2, InnermostAgree
  <2>3. Innermost(activations', Top.jmp, Depth - 1) /\ Depth - 1 \in Nat BY <1>1, <1>2, <2>1, <2>2
  <2>4. Innermost(activations', errorJump', Depth)
    <3>1. CASE Top.kind \in Binders /\ UNCHANGED <<errorJump, evalCatchFlag>>
      <4>1. \A i \in 1..Depth : Armed(activations'[i]) <=> Armed(activations[i])
        BY <1>1, <1>2, <1>4, <3>1
      <4> QED BY <1>2, <1>6, <3>1, <4>1, InnermostAgree
    <3>2. CASE Catching(Top) /\ ~Armed(a) /\ errorJump' = Top.jmp
      <4>1. ~Armed(activations'[(Depth - 1) + 1]) BY <1>2, <3>2
      <4>2. Innermost(activations', Top.jmp, (Depth - 1) + 1) BY <2>3, <4>1, InnermostMore
      <4> QED BY <1>2, <3>2, <4>2
    <3> QED BY <3>1, <3>2
  <2> QED BY <1>2, <2>2, <2>4 DEF Setjmps, Innermost, Catching, Armed
<1>17. Nested'
  <2>1. \A i \in 1..Depth : /\ activations'[i].lam = activations[i].lam
                            /\ Calls(activations'[i]) = Calls(activations[i])
    BY <1>1, <1>2 DEF Calls
  <2>2. ASSUME NEW j \in 1..Depth, NEW i \in 1 .. j - 1
        PROVE  Before(activations'[i], activations'[j].lam)
    <3>1. i \in 1..Depth /\ Before(activations[i], activations[j].lam) BY <1>2 DEF IInv, Nested
    <3> QED BY <2>1, <3>1 DEF Before
  <2>3. ASSUME NEW i \in 1..Depth
        PROVE  Before(activations'[i], Len(lambdaStack'))
    <3>1. Before(activations[i], Len(lambdaStack)) BY DEF IInv, Nested
    <3> QED BY <2>1, <3>1 DEF Before
  <2> QED BY <1>2, <2>2, <2>3 DEF Nested, Before, Calls
<1>18. Caught' BY ScopeAssumption DEF Caught
<1> QED BY <1>11, <1>12, <1>13, <1>14, <1>15, <1>16, <1>17, <1>18, <1>19 DEF IInv

\* A function returns and leaves the registers as it found them.
LEMMA ReturnStep ==
  ASSUME IInv, jump = Null, Depth > 0, activations' = Callers,
         contents' \in [Sym -> Val], envStack' \in Seq([sym : Sym, saved : Val]),
         goneOn = FALSE => Top.env <= Len(envStack'), NoTrace => Len(envStack') = Top.env,
         recursionCount' = recursionCount - 1,
         currentContext' \in Ctx, Steady => currentContext' = Top.ctx,
         errorJump' = Top.jmp,
         lambdaStack' \in Seq(Fun), Top.lam <= Len(lambdaStack'),
         evalCatchFlag' = IF Catching(Top) THEN evalCatchFlag - 1 ELSE evalCatchFlag,
         UNCHANGED <<traceFlag, goneOn, jump>>
  PROVE  IInv' /\ recursionCount' = Top.rec
<1>1. TypeOK /\ Top \in Activation /\ Depth \in 1..Depth /\ Top = activations[Depth]
  BY TopElement DEF IInv, Top
<1>. DEFINE d == Depth - 1
<1>2. Depth \in Nat /\ d \in 0..Depth BY <1>1
<1>3. /\ activations' \in Seq(Activation)
      /\ Depth' = d
      /\ d > 0 => Top' = activations[d]
      /\ \A i \in 1..d : activations'[i] = activations[i] BY <1>1, <1>2, Popped DEF Callers
<1>4. /\ Innermost(activations, Top.jmp, d)
      /\ \A i \in 1..Depth : Innermost(activations, activations[i].jmp, i - 1)
  BY <1>1 DEF IInv, Setjmps
<1>5. Catchers' = Catchers \ {Depth} /\ (Catching(Top) <=> Depth \in Catchers)
  BY <1>1, <1>2, <1>3 DEF Catchers, Catching
<1>6. evalCatchFlag = Cardinality(Catchers) BY DEF IInv, Counted
<1>7. Counted' /\ evalCatchFlag' \in Nat
  <2>1. CASE Depth \in Catchers
    <3>1. Cardinality(Catchers \ {Depth}) = Cardinality(Catchers) - 1 /\ IsFiniteSet(Catchers \ {Depth})
      BY <1>1, <2>1, CatchersFinite, FS_RemoveElement
    <3> QED BY <1>5, <1>6, <2>1, <3>1, FS_CardinalityType DEF Counted
  <2>2. CASE Depth \notin Catchers
    <3>1. Catchers \ {Depth} = Catchers BY <2>2
    <3> QED BY <1>1, <1>5, <1>6, <2>2, <3>1 DEF Counted, TypeOK
  <2> QED BY <2>1, <2>2
<1>8. TypeOK'
  <2>1. errorJump' \in 0..d BY <1>1, <1>4, Fields DEF Innermost
  <2>2. recursionCount' \in Nat BY <1>1 DEF IInv, Registers
  <2> QED BY <1>1, <1>3, <1>7, <2>1, <2>2 DEF TypeOK
<1>9. Shape'
  <2>1. \A i \in 1..d : i \in 1..Depth /\ Sound(activations[i]) BY <1>2 DEF IInv, Shape
  <2>2. \A i \in 1..d : Sound(activations'[i]) BY <1>3, <2>1
  <2> QED BY <1>3, <2>2 DEF IInv, Shape, Sound
<1>15. Room'
  <2>. SUFFICES ASSUME goneOn' = FALSE PROVE Room' BY DEF Room
  <2>0. /\ \A j \in 1..Depth : \A i \in 1 .. j - 1 : End(activations[i]) <= activations[j].env
        /\ Top.env <= Len(envStack') BY DEF IInv, Room
  <2>1. ASSUME NEW j \in 1..d, NEW i \in 1 .. j - 1 PROVE End(activations'[i]) <= activations'[j].env
    <3>1. i \in 1..d /\ j \in 1..Depth BY <1>2
    <3> QED BY <1>3, <2>0, <3>1
  <2>2. ASSUME NEW i \in 1..d PROVE End(activations'[i]) <= Len(envStack')
    <3>1. i \in 1..Depth /\ i \in 1 .. Depth - 1 BY <1>2
    <3>2. End(activations[i]) <= Top.env /\ activations'[i] = activations[i]
      BY <1>1, <1>3, <2>0, <3>1
    <3>3. /\ activations[i].env \in Nat /\ activations[i].n \in Nat
          /\ Top.env \in Nat /\ Len(envStack') \in Nat BY <1>1, <3>1, Element, Fields
    <3> QED BY <2>0, <3>2, <3>3 DEF End
  <2> QED BY <1>3, <2>1, <2>2 DEF Room, End
<1>10. NoTrace => Partition'
  <2>. SUFFICES ASSUME NoTrace PROVE Partition' OBVIOUS
  <2>1. activations[1].env = 0 BY DEF IInv, Partition
  <2>2. \A i \in 1..d : i \in 1..Depth /\ activations[i + 1].env = activations[i].env + activations[i].n
    BY <1>2 DEF IInv, Partition
  <2>3. ASSUME NEW i \in 1 .. d - 1
        PROVE  activations'[i + 1].env = activations'[i].env + activations'[i].n
    <3>1. i \in 1..d /\ i + 1 \in 1..d BY <1>2
    <3> QED BY <1>3, <2>2, <3>1
  <2>4. d > 0 => activations'[1].env = 0 /\ Len(envStack') = Top'.env + Top'.n
    <3>1. d > 0 => 1 \in 1..d /\ d \in 1..d /\ d + 1 = Depth BY <1>2
    <3> QED BY <1>1, <1>3, <2>1, <2>2, <3>1
  <2>5. d = 0 => Len(envStack') = 0 BY <1>1, <2>1
  <2> QED BY <1>3, <2>3, <2>4, <2>5 DEF Partition
<1>11. Registers' /\ recursionCount' = Top.rec
  <2>1. recursionCount = Depth /\ Top.rec = d BY <1>1 DEF IInv, Registers
  <2>2. \A i \in 1..d : i \in 1..Depth /\ activations'[i].rec = i - 1
    BY <1>2, <1>3 DEF IInv, Registers
  <2>3. ASSUME NEW i \in 1 .. d - 1, KeepsContext(activations'[i])
        PROVE  activations'[i + 1].ctx = activations'[i].ctx
    <3>1. i \in 1..d /\ i + 1 \in 1..d /\ i \in 1 .. Depth - 1 BY <1>2
    <3> QED BY <1>3, <2>3, <3>1 DEF IInv, Registers
  <2>4. d > 0 /\ KeepsContext(activations[d]) => Top.ctx = activations[d].ctx
    <3>1. d > 0 => d \in 1 .. Depth - 1 /\ d + 1 = Depth BY <1>2
    <3> QED BY <1>1, <3>1 DEF IInv, Registers
  <2> QED BY <1>2, <1>3, <2>1, <2>2, <2>3, <2>4 DEF Registers, KeepsContext
<1>12. Setjmps'
  <2>1. ASSUME NEW i \in 1..d PROVE Innermost(activations', activations'[i].jmp, i - 1)
    <3>1. i - 1 \in Nat /\ i \in 1..Depth /\ \A k \in 1 .. i - 1 : activations'[k] = activations[k]
      BY <1>2, <1>3
    <3> QED BY <1>3, <1>4, <3>1, InnermostAgree
  <2>2. Innermost(activations', errorJump', d)
    <3>1. d \in Nat /\ \A i \in 1..d : activations'[i] = activations[i] BY <1>2, <1>3
    <3> QED BY <1>4, <3>1, InnermostAgree
  <2> QED BY <1>3, <2>1, <2>2 DEF Setjmps, Innermost, Catching, Armed
<1>13. Nested'
  <2>1. ASSUME NEW j \in 1..d, NEW i \in 1 .. j - 1
        PROVE  Before(activations'[i], activations'[j].lam)
    <3>1. i \in 1..d /\ j \in 1..Depth BY <1>2
    <3> QED BY <1>3, <3>1 DEF IInv, Nested
  <2>2. ASSUME NEW i \in 1..d
        PROVE  Before(activations'[i], Len(lambdaStack'))
    <3>1. i \in 1..Depth /\ i \in 1 .. Depth - 1 BY <1>2
    <3>2. Before(activations[i], Top.lam) BY <1>1, <3>1 DEF IInv, Nested
    <3>3. /\ activations[i].lam + Calls(activations[i]) \in Nat /\ Top.lam \in Nat
          /\ Len(lambdaStack') \in Nat BY <1>1, <3>1, Element, Fields DEF Calls
    <3>4. activations[i].lam + Calls(activations[i]) <= Len(lambdaStack') BY <3>2, <3>3 DEF Before
    <3> QED BY <1>3, <3>4 DEF Before
  <2> QED BY <1>3, <2>1, <2>2 DEF Nested, Before, Calls
<1>14. Caught' BY ScopeAssumption DEF Caught
<1> QED BY <1>7, <1>8, <1>9, <1>10, <1>11, <1>12, <1>13, <1>14, <1>15 DEF IInv

\* What is known of the activation a jump lands at.
LEMMA TargetFacts ==
  ASSUME IInv, jump # Null, errorJump > 0
  PROVE  /\ errorJump \in 1..Depth /\ Depth \in Nat /\ Target \in Activation
         /\ Armed(Target) /\ Sound(Target) /\ Target.n = 0
         /\ Target.rec = errorJump - 1
         /\ Target.env \in Nat /\ (goneOn = FALSE => Target.env \in 0 .. Len(envStack))
         /\ Target.lam <= Len(lambdaStack)
         /\ Innermost(activations, Target.jmp, errorJump - 1)
<1>1. TypeOK /\ errorJump \in 1..Depth /\ Depth \in Nat BY DEF IInv, TypeOK, Depth
<1>2. Target \in Activation BY <1>1, Element DEF Target
<1>3. Armed(Target) /\ Innermost(activations, Target.jmp, errorJump - 1)
  BY <1>1 DEF IInv, Setjmps, Target
<1>4. Sound(Target) BY <1>1 DEF IInv, Shape, Target
<1>5. Target.n = 0 BY <1>3, <1>4 DEF Armed, Sound, Binders
<1>6. Target.rec = errorJump - 1 BY <1>1 DEF IInv, Registers, Target
<1>7. Before(Target, Len(lambdaStack)) /\ (goneOn = FALSE => End(Target) <= Len(envStack))
  BY <1>1 DEF IInv, Nested, Room, Target
<1>8. /\ Target.env \in Nat /\ Target.lam \in Nat /\ Calls(Target) \in Nat
      /\ Len(envStack) \in Nat /\ Len(lambdaStack) \in Nat BY <1>1, <1>2, Fields DEF Calls, TypeOK
<1> QED BY <1>1, <1>2, <1>3, <1>4, <1>5, <1>6, <1>7, <1>8 DEF Before, End

\* A longjmp has landed: activations above number d are gone, and number d + 1
\* with them, unless it goes on as a.
LEMMA LandStep ==
  ASSUME IInv, jump # Null, errorJump > 0, NEW d \in Nat, d = errorJump - 1,
         contents' \in [Sym -> Val], envStack' \in Seq([sym : Sym, saved : Val]),
         goneOn = FALSE => Len(envStack') = Target.env,
         recursionCount' = Target.rec + 1, currentContext' = Target.ctx, errorJump' = Target.jmp,
         lambdaStack' \in Seq(Fun), Target.lam <= Len(lambdaStack'),
         Catching(Target), evalCatchFlag' = evalCatchFlag - 1, UNCHANGED <<traceFlag, goneOn>>,
         \/ activations' = SubSeq(activations, 1, d) /\ jump = "error" /\ jump' = jump
         \/ \E a \in Activation :
              /\ activations' = Append(SubSeq(activations, 1, d), a)
              /\ jump' = Null /\ ~Armed(a) /\ Sound(a) /\ a.kind # "lambda"
              /\ a.n = 0 /\ a.env = Target.env /\ a.rec = Target.rec /\ a.lam = Target.lam
              /\ a.ctx = Target.ctx /\ a.jmp = Target.jmp
  PROVE  IInv'
<1>1. /\ TypeOK /\ errorJump \in 1..Depth /\ Depth \in Nat /\ Target \in Activation
      /\ Target.rec = d /\ Innermost(activations, Target.jmp, d)
      /\ d \in 0..Depth /\ errorJump = d + 1 /\ Target = activations[d + 1]
  <2>1. /\ errorJump \in 1..Depth /\ Depth \in Nat /\ Target \in Activation
        /\ Target.rec = errorJump - 1 /\ Innermost(activations, Target.jmp, errorJump - 1)
    BY TargetFacts
  <2>2. TypeOK BY DEF IInv
  <2> QED BY <2>1, <2>2 DEF Target
<1>2. /\ activations' \in Seq(Activation)
      /\ \A i \in 1..d : activations'[i] = activations[i]
      /\ \/ Depth' = d /\ jump = "error" /\ jump' = jump
         \/ /\ Depth' = d + 1 /\ jump' = Null
            /\ LET a == activations'[d + 1] IN
                /\ Top' = a /\ ~Armed(a) /\ Sound(a) /\ a.kind # "lambda"
                /\ a.n = 0 /\ a.env = Target.env /\ a.rec = Target.rec /\ a.lam = Target.lam
                /\ a.ctx = Target.ctx /\ a.jmp = Target.jmp
  <2>1. CASE activations' = SubSeq(activations, 1, d) /\ jump = "error" /\ jump' = jump
    BY <1>1, <2>1, Popped
  <2>2. ASSUME NEW a \in Activation,
               activations' = Append(SubSeq(activations, 1, d), a)
        PROVE  /\ activations' \in Seq(Activation) /\ Depth' = d + 1
               /\ activations'[d + 1] = a /\ Top' = a
               /\ \A i \in 1..d : activations'[i] = activations[i]
    <3>1. d = errorJump - 1 OBVIOUS
    <3> QED BY <1>1, <2>2, <3>1, Replaced
  <2> QED BY <2>1, <2>2
<1>3. /\ d \in Nat /\ Depth' \in Nat /\ Depth' \in {d, d + 1}
      /\ \A i \in 1..Depth' : i \in 1..d \/ i = d + 1
      /\ (Depth' = d + 1 => jump' = Null) /\ (Depth' = d => jump' = "error") BY <1>1, <1>2
<1>4. \A i \in 1..d : i \in 1..Depth /\ activations[i] \in Activation BY <1>1, Element
<1>14. ASSUME NEW i \in 1 .. Depth' - 1
       PROVE  i \in 1..d /\ i \in 1..Depth' /\ i + 1 \in 1..Depth' /\ (i + 1 \in 1..d \/ i = d)
  <2>1. CASE Depth' = d BY <1>3, <1>14, <2>1
  <2>2. CASE Depth' = d + 1 BY <1>3, <1>14, <2>2
  <2> QED BY <1>3, <2>1, <2>2
<1>5. Catchers' = Catchers \ {d + 1} /\ d + 1 \in Catchers
  <2>1. \A i \in 1..Depth : i > d + 1 => ~Catching(activations[i]) BY <1>1 DEF IInv, Setjmps
  <2>2. \A i \in 1 .. d + 1 : i \in 1..Depth BY <1>1
  <2>3. Depth' = d + 1 => ~Catching(activations'[d + 1]) BY <1>1, <1>2 DEF Armed, Catching
  <2> QED BY <1>1, <1>2, <1>3, <2>1, <2>2, <2>3 DEF Catchers, Catching
<1>6. Counted' /\ evalCatchFlag' \in Nat
  <2>1. Cardinality(Catchers \ {d + 1}) = Cardinality(Catchers) - 1 /\ IsFiniteSet(Catchers \ {d + 1})
    BY <1>1, <1>5, CatchersFinite, FS_RemoveElement
  <2>2. evalCatchFlag = Cardinality(Catchers) BY DEF IInv, Counted
  <2> QED BY <1>5, <2>1, <2>2, FS_CardinalityType DEF Counted
<1>7. TypeOK'
  <2>1. errorJump' \in 0..d /\ Target.ctx \in Ctx /\ recursionCount' \in Nat
    BY <1>1, Fields DEF Innermost
  <2>2. errorJump' \in 0..Depth' BY <1>3, <2>1
  <2>3. jump' \in {"throw", "error", Null} /\ traceFlag' \in BOOLEAN BY <1>1, <1>3 DEF TypeOK
  <2>4. goneOn' \in BOOLEAN /\ jump' # "underflow" BY <1>1, <1>3, ScopeAssumption DEF TypeOK
  <2> QED BY <1>2, <1>6, <2>1, <2>2, <2>3, <2>4 DEF TypeOK
<1>8. Shape'
  <2>1. \A i \in 1..d : Sound(activations'[i]) BY <1>2, <1>4 DEF IInv, Shape
  <2>2. \A i \in 1..Depth' : Sound(activations'[i]) BY <1>2, <1>3, <2>1
  <2> QED BY <2>2 DEF IInv, Shape, Sound
<1>15. Room'
  <2>. SUFFICES ASSUME goneOn' = FALSE PROVE Room' BY DEF Room
  <2>0. /\ \A j \in 1..Depth : \A i \in 1 .. j - 1 : End(activations[i]) <= activations[j].env
        /\ Len(envStack') = Target.env BY DEF IInv, Room
  <2>1. \A i \in 1..d : End(activations[i]) <= Target.env BY <1>1, <2>0
  <2>2. \A i \in 1..d : End(activations'[i]) <= Len(envStack') BY <1>2, <2>0, <2>1
  <2>3. ASSUME NEW i \in 1..Depth' PROVE End(activations'[i]) <= Len(envStack')
    <3>1. CASE i = d + 1
      <4>1. activations'[i].env = Target.env /\ activations'[i].n = 0 /\ Target.env \in Nat
        BY <1>1, <1>2, <1>3, <3>1, Fields
      <4> QED BY <2>0, <4>1 DEF End
    <3> QED BY <1>3, <2>2, <3>1
  <2>4. ASSUME NEW j \in 1..Depth', NEW i \in 1 .. j - 1
        PROVE  End(activations'[i]) <= activations'[j].env
    <3>1. i \in 1..d /\ activations'[i] = activations[i] BY <1>2, <1>3
    <3>2. CASE j = d + 1
      <4>1. activations'[j].env = Target.env BY <1>1, <1>2, <1>3, <3>2
      <4> QED BY <2>1, <3>1, <4>1
    <3>3. CASE j \in 1..d BY <1>2, <1>4, <2>0, <3>1, <3>3
    <3> QED BY <1>3, <3>2, <3>3
  <2> QED BY <2>3, <2>4 DEF Room, End
<1>9. NoTrace => Partition'
  <2>. SUFFICES ASSUME NoTrace PROVE Partition' OBVIOUS
  <2>0. Len(envStack') = Target.env BY DEF IInv, Shape
  <2>1. \A i \in 1..d : /\ i \in 1 .. Depth - 1
                        /\ activations[i + 1].env = activations[i].env + activations[i].n
    BY <1>1 DEF IInv, Partition
  <2>2. \A i \in 1..Depth' : activations'[i].env = activations[i].env BY <1>1, <1>2, <1>3
  <2>3. ASSUME NEW i \in 1 .. Depth' - 1
        PROVE  activations'[i + 1].env = activations'[i].env + activations'[i].n
    <3>1. i \in 1..d /\ i \in 1..Depth' /\ i + 1 \in 1..Depth' BY <1>14
    <3> QED BY <1>2, <2>1, <2>2, <3>1
  <2>4. activations[1].env = 0 BY <1>1 DEF IInv, Partition
  <2>5. CASE Depth' = d + 1
    <3>1. Top'.env = Target.env /\ Top'.n = 0 /\ Target.env \in Nat /\ Depth' > 0
      BY <1>1, <1>2, <1>3, <2>5, Fields
    <3>2. activations'[1].env = 0
      <4>1. 1 \in 1..Depth' BY ONLY <1>3, <2>5
      <4> QED BY ONLY <2>2, <2>4, <4>1
    <3>3. Len(envStack') = Top'.env + Top'.n /\ ~(Depth' = 0) BY <2>0, <3>1
    <3> QED BY <2>3, <3>2, <3>3 DEF Partition
  <2>6. CASE Depth' = d /\ d > 0
    <3>1. 1 \in 1..d /\ d \in 1..d BY <2>6
    <3>2. Top' = activations'[d] BY <2>6 DEF Top
    <3>3. Top' = activations[d] /\ activations'[1].env = 0 BY <1>2, <2>4, <3>1, <3>2
    <3>4. Target.env = activations[d].env + activations[d].n BY <1>1, <2>1, <3>1
    <3>5. Len(envStack') = Top'.env + Top'.n BY <2>0, <3>3, <3>4
    <3>6. \A i \in 1 .. Depth' - 1 : activations'[i + 1].env = activations'[i].env + activations'[i].n
      BY <2>3
    <3>7. ~(Depth' = 0) BY <2>6
    <3> QED BY <3>3, <3>5, <3>6, <3>7 DEF Partition
  <2>7. CASE Depth' = 0
    <3>1. Depth > 0 /\ d = 0 BY <1>1, <1>3, <2>7
    <3>2. Target.env = 0 BY <1>1, <1>3, <2>4, <3>1
    <3>3. Len(envStack') = 0 /\ ~(Depth' > 0) BY <2>0, <2>7, <3>2
    <3>4. \A i \in 1 .. Depth' - 1 : activations'[i + 1].env = activations'[i].env + activations'[i].n
      BY <2>3
    <3> QED BY <3>3, <3>4 DEF Partition
  <2> QED BY <1>3, <2>5, <2>6, <2>7
<1>10. Registers'
  <2>1. \A i \in 1..d : activations'[i].rec = i - 1 BY <1>2, <1>4 DEF IInv, Registers
  <2>2. ASSUME NEW i \in 1..Depth' PROVE activations'[i].rec = i - 1
    <3>1. CASE i = d + 1 BY <1>1, <1>2, <1>3, <3>1
    <3> QED BY <1>3, <2>1, <3>1
  <2>3. ASSUME NEW i \in 1 .. Depth' - 1, KeepsContext(activations'[i])
        PROVE  activations'[i + 1].ctx = activations'[i].ctx
    <3>4. i \in 1..d /\ (i + 1 \in 1..d \/ i = d) BY <1>14
    <3>0. i \in 1 .. Depth - 1 BY <1>1, <3>4
    <3>1. i \in 1..d /\ i \in 1 .. Depth - 1 /\ activations'[i] = activations[i]
      BY <1>2, <3>0, <3>4
    <3>2. activations[i + 1].ctx = activations[i].ctx BY <2>3, <3>1 DEF IInv, Registers
    <3>3. activations'[i + 1].ctx = activations[i + 1].ctx
      <4>1. CASE i + 1 \in 1..d BY <1>2, <4>1
      <4>2. CASE i = d
        <5>1. Depth' = d + 1 BY <1>3, <4>2
        <5>2. activations'[d + 1].ctx = Target.ctx BY <1>2, <1>3, <5>1
        <5> QED BY <1>1, <4>2, <5>2
      <4> QED BY <3>4, <4>1, <4>2
    <3> QED BY <3>1, <3>2, <3>3
  <2> QED BY <1>1, <1>2, <1>3, <2>2, <2>3, ScopeAssumption DEF Registers, KeepsContext
<1>11. Setjmps'
  <2>1. \A i \in 1..d : Armed(activations'[i]) <=> Armed(activations[i]) BY <1>2
  <2>2. Innermost(activations', Target.jmp, d) BY <1>1, <2>1, InnermostAgree
  <2>3. ASSUME NEW i \in 1..Depth'
        PROVE  Innermost(activations', activations'[i].jmp, i - 1)
    <3>1. CASE i = d + 1
      <4>1. activations'[i].jmp = Target.jmp BY <1>1, <1>2, <1>3, <3>1
      <4> QED BY <2>2, <3>1, <4>1
    <3>2. CASE i \in 1..d
      <4>1. Innermost(activations, activations[i].jmp, i - 1) BY <1>4, <3>2 DEF IInv, Setjmps
      <4>2. i - 1 \in Nat /\ \A k \in 1 .. i - 1 : Armed(activations'[k]) <=> Armed(activations[k])
        BY <2>1, <3>2
      <4> QED BY <1>2, <3>2, <4>1, <4>2, InnermostAgree
    <3> QED BY <1>3, <3>1, <3>2
  <2>4. jump' = Null => Innermost(activations', errorJump', Depth')
    <3>1. SUFFICES ASSUME Depth' = d + 1 PROVE Innermost(activations', Target.jmp, d + 1)
      BY <1>3, ScopeAssumption
    <3>2. ~Armed(activations'[d + 1]) BY <1>2, <1>3, <3>1
    <3> QED BY <2>2, <3>2, InnermostMore
  <2>5. errorJump' > 0 => Armed(activations'[errorJump']) BY <2>2 DEF Innermost
  <2>6. ASSUME NEW i \in 1..Depth', i > errorJump' PROVE ~Catching(activations'[i])
    <3>1. ~Armed(activations'[i]) BY <1>2, <1>3, <2>2, <2>6 DEF Innermost
    <3> QED BY <3>1 DEF Armed, Catching
  <2> QED BY <2>3, <2>4, <2>5, <2>6 DEF Setjmps, Innermost, Armed, Catching
<1>12. Nested'
  <2>1. /\ Target.lam \in Nat /\ Len(lambdaStack') \in Nat
        /\ \A i \in 1..d : Before(activations[i], Target.lam) BY <1>1, Fields DEF IInv, Nested
  <2>2. \A i \in 1..d : activations[i].lam + Calls(activations[i]) \in Nat
    BY <1>4, Fields DEF Calls
  <2>3. ASSUME NEW i \in 1..d
        PROVE  Before(activations'[i], Len(lambdaStack'))
    <3>1. activations'[i] = activations[i] /\ Before(activations[i], Target.lam) BY <1>2, <2>1
    <3>2. activations[i].lam + Calls(activations[i]) \in Nat BY <2>2
    <3>3. activations[i].lam + Calls(activations[i]) <= Len(lambdaStack')
      BY <2>1, <3>1, <3>2 DEF Before
    <3> QED BY <3>1, <3>3 DEF Before
  <2>4. \A i \in 1..Depth' : Before(activations'[i], Len(lambdaStack'))
    BY <1>2, <1>3, <2>1, <2>3 DEF Before, Calls
  <2>5. ASSUME NEW j \in 1..Depth', NEW i \in 1 .. j - 1
        PROVE  Before(activations'[i], activations'[j].lam)
    <3>1. i \in 1..d /\ activations'[i] = activations[i] BY <1>2, <1>3
    <3>2. CASE j = d + 1
      <4>1. activations'[j].lam = Target.lam BY <1>1, <1>2, <1>3, <3>2
      <4> QED BY <2>1, <3>1, <4>1
    <3>3. CASE j \in 1..d BY <1>2, <1>4, <3>1, <3>3 DEF IInv, Nested
    <3> QED BY <1>3, <3>2, <3>3
  <2> QED BY <2>4, <2>5 DEF Nested, Before, Calls
<1>13. Caught' BY <1>3, ScopeAssumption DEF Caught
<1> QED BY <1>6, <1>7, <1>8, <1>9, <1>10, <1>11, <1>12, <1>13, <1>15 DEF IInv

\* A step that leaves the C stack and the stacks as they are.
LEMMA SameStep ==
  ASSUME IInv, contents' \in [Sym -> Val], currentContext' \in Ctx,
         errorJump' \in 0..Depth, jump' \in {"throw", "error", "underflow", Null},
         jump' = "underflow" => goneOn, goneOn' = goneOn,
         jump' = Null => jump = Null /\ errorJump' = errorJump
                           /\ (Steady => currentContext' = currentContext),
         traceFlag' \in BOOLEAN, NoTrace => traceFlag' = traceFlag,
         UNCHANGED <<envStack, activations, lambdaStack, recursionCount, evalCatchFlag>>
  PROVE  TypeOK' /\ Shape' /\ Room' /\ (NoTrace => Partition') /\ Registers' /\ Nested' /\ Counted'
<1>1. TypeOK' BY DEF IInv, TypeOK, Depth
<1>2. Shape' /\ Room' /\ (NoTrace => Partition') BY DEF IInv, Shape, Room, Partition, Depth, Top
<1>3. Registers' BY DEF IInv, Registers, KeepsContext, SavesContext, Depth, Top
<1>4. Nested' /\ Counted' BY DEF IInv, Nested, Counted, Catchers, Depth
<1> QED BY <1>1, <1>2, <1>3, <1>4

\* An assignment, or a jump that starts.
LEMMA PlainStep ==
  ASSUME IInv, contents' \in [Sym -> Val], jump' \in {jump, "throw", "error", "underflow"},
         jump' # jump => jump = Null /\ (jump' = "throw" => evalCatchFlag > 0),
         jump' = "underflow" => goneOn, goneOn' = goneOn,
         currentContext' \in Ctx, Steady /\ jump' = Null => currentContext' = currentContext,
         traceFlag' \in BOOLEAN, NoTrace => traceFlag' = traceFlag,
         UNCHANGED <<envStack, activations, lambdaStack, recursionCount,
                     evalCatchFlag, errorJump>>
  PROVE  IInv'
<1>1. /\ errorJump' \in 0..Depth
      /\ jump' \in {"throw", "error", "underflow", Null} /\ (jump' = Null => jump = Null)
  BY ScopeAssumption DEF IInv, TypeOK
<1>2. Setjmps' BY <1>1 DEF IInv, Setjmps, Depth
<1>3. Caught' BY DEF IInv, Caught
<1> QED BY <1>1, <1>2, <1>3, SameStep DEF IInv

\* load lands, and jumps on.
LEMMA LoadLands == ASSUME IInv, LandAtLoad PROVE IInv'
<1>1. /\ jump \in {"throw", "error"} /\ jump # Null /\ errorJump > 0 /\ Target.kind = "load"
      /\ currentContext' = Target.ctx /\ errorJump' = Target.jmp
      /\ UNCHANGED <<contents, envStack, activations, lambdaStack, recursionCount,
                     evalCatchFlag, traceFlag, goneOn, jump>>
  BY ScopeAssumption DEF LandAtLoad, Land, Jumping, Target
<1>2. /\ errorJump \in 1..Depth /\ Depth \in Nat /\ Target \in Activation
      /\ Innermost(activations, Target.jmp, errorJump - 1) BY <1>1, TargetFacts
<1>3. /\ contents' \in [Sym -> Val] /\ currentContext' \in Ctx /\ errorJump' \in 0..Depth
      /\ jump' \in {"throw", "error"} /\ jump' # Null /\ traceFlag' \in BOOLEAN
  BY <1>1, <1>2, Fields DEF IInv, TypeOK, Innermost
<1>4. Setjmps'
  <2>1. \A k \in 1..Depth : Innermost(activations, activations[k].jmp, k - 1) BY DEF IInv, Setjmps
  <2>2. errorJump' > 0 => Armed(activations[errorJump']) BY <1>1, <1>2 DEF Innermost
  <2>3. ASSUME NEW i \in 1..Depth, i > errorJump' PROVE ~Catching(activations[i])
    <3>1. CASE i > errorJump BY <3>1 DEF IInv, Setjmps
    <3>2. CASE i = errorJump BY <1>1, <3>2 DEF Catching, Target
    <3>3. CASE i < errorJump
      <4>1. i \in 1 .. errorJump - 1 BY <1>2, <3>3
      <4> QED BY <1>1, <2>3, <4>1, <1>2 DEF Innermost, Armed, Catching
    <3> QED BY <1>2, <3>1, <3>2, <3>3
  <2> QED BY <1>1, <1>3, <2>1, <2>2, <2>3 DEF Setjmps, Depth
<1>5. Caught' BY <1>1 DEF IInv, Caught
<1> QED BY <1>1, <1>3, <1>4, <1>5, SameStep DEF IInv

\* reset: nothing could catch the jump, so evalCatchFlag, which reset does not
\* clear, is 0 already.
LEMMA MainLands == ASSUME IInv, LandAtMain PROVE IInv' /\ evalCatchFlag = 0
<1>1. /\ TypeOK /\ errorJump = 0 /\ UndoTo(0)
      /\ activations' = <<>> /\ lambdaStack' = <<>> /\ currentContext' = Main
      /\ recursionCount' = 0 /\ traceFlag' = FALSE /\ jump' = Null
      /\ UNCHANGED <<evalCatchFlag, errorJump, goneOn>> BY DEF IInv, LandAtMain
<1>2. evalCatchFlag = 0
  <2>1. Catchers = {} BY <1>1 DEF IInv, Setjmps, Catchers
  <2> QED BY <2>1, FS_EmptySet DEF IInv, Counted
<1>3. Len(envStack) \in Nat /\ 0 \in Nat /\ 0 <= Len(envStack) BY <1>1 DEF TypeOK
<1>4. /\ contents' \in [Sym -> Val] /\ envStack' \in Seq([sym : Sym, saved : Val])
      /\ Len(envStack') = 0 BY <1>1, <1>3, UndoTypes
<1>5. activations' \in Seq(Activation) /\ lambdaStack' \in Seq(Fun) /\ Depth' = 0
  BY <1>1 DEF Depth
<1>6. TypeOK'
  <2>1. /\ currentContext' \in Ctx /\ recursionCount' \in Nat /\ traceFlag' \in BOOLEAN
        /\ jump' = Null /\ jump' # "underflow" /\ goneOn' \in BOOLEAN
    BY <1>1, ScopeAssumption DEF TypeOK
  <2>2. evalCatchFlag' \in Nat /\ errorJump' \in 0..Depth' BY <1>1, <1>2, <1>5
  <2> QED BY <1>4, <1>5, <2>1, <2>2 DEF TypeOK
<1>7. Catchers' = {} /\ Cardinality({}) = 0 BY <1>5, FS_EmptySet DEF Catchers
<1>8. Shape' /\ Room' /\ Partition' /\ Registers' /\ Setjmps' /\ Nested' /\ Counted' /\ Caught'
  BY <1>1, <1>2, <1>4, <1>5, <1>7, ScopeAssumption
     DEF IInv, Shape, Room, Partition, Registers, Setjmps, Innermost, Nested, Counted, Caught
<1> QED BY <1>2, <1>6, <1>8 DEF IInv
----------------------------------------
(* The invariant. *)
LEMMA InitInv == Init => IInv
<1>. SUFFICES ASSUME Init PROVE IInv OBVIOUS
<1>1. Depth = 0 /\ Catchers = {} /\ Len(envStack) = 0 /\ Cardinality({}) = 0
  BY FS_EmptySet DEF Init, Depth, Catchers
<1>2. TypeOK
  <2>1. contents \in [Sym -> Val] /\ currentContext \in Ctx BY ScopeAssumption DEF Init
  <2>2. /\ envStack \in Seq([sym : Sym, saved : Val]) /\ activations \in Seq(Activation)
        /\ lambdaStack \in Seq(Fun) BY DEF Init
  <2>3. recursionCount \in Nat /\ evalCatchFlag \in Nat /\ traceFlag \in BOOLEAN BY DEF Init
  <2>4. errorJump \in 0..Depth BY <1>1 DEF Init
  <2>5. jump = Null /\ jump # "underflow" /\ goneOn \in BOOLEAN BY ScopeAssumption DEF Init
  <2> QED BY <2>1, <2>2, <2>3, <2>4, <2>5 DEF TypeOK
<1> QED BY <1>1, <1>2, ScopeAssumption
  DEF Init, IInv, Shape, Room, Partition, Registers, Setjmps, Innermost, Nested, Counted, Caught

\* Two innermost setjmps are the same.
LEMMA InnermostUnique ==
  ASSUME NEW q, NEW d \in Nat \ {0}, NEW j, NEW k,
         Innermost(q, j, d), Innermost(q, k, d - 1), ~Armed(q[d])
  PROVE  j = k
<1>1. j \in 0 .. d - 1 /\ k \in 0 .. d - 1 BY DEF Innermost
<1>2. ~(j > k)
  <2>1. SUFFICES ASSUME j > k PROVE FALSE OBVIOUS
  <2>2. j \in 1 .. d - 1 /\ Armed(q[j]) BY <1>1, <2>1 DEF Innermost
  <2> QED BY <2>1, <2>2 DEF Innermost
<1>3. ~(k > j)
  <2>1. SUFFICES ASSUME k > j PROVE FALSE OBVIOUS
  <2>2. k \in 1..d /\ Armed(q[k]) BY <1>1, <2>1 DEF Innermost
  <2> QED BY <2>1, <2>2 DEF Innermost
<1> QED BY <1>1, <1>2, <1>3

\* What is known of the function that runs.
LEMMA TopFacts ==
  ASSUME IInv, jump = Null, Depth > 0
  PROVE  /\ TypeOK /\ Top \in Activation /\ Sound(Top) /\ Depth \in Nat \ {0}
         /\ goneOn = FALSE => Top.env + Top.n <= Len(envStack)
         /\ NoTrace => Len(envStack) = Top.env + Top.n
         /\ Len(envStack) \in Nat
         /\ Top.n \in Nat /\ Top.env \in Nat /\ Top.lam \in Nat
         /\ Top.lam + Calls(Top) <= Len(lambdaStack)
         /\ recursionCount = Depth
         /\ Steady /\ ~SavesContext(Top) => currentContext = Top.ctx
         /\ ~Armed(Top) => errorJump = Top.jmp
         /\ currentContext \in Ctx /\ Top.ctx \in Ctx
<1>1. TypeOK /\ Top \in Activation /\ Depth \in 1..Depth /\ Top = activations[Depth]
  BY TopElement DEF IInv, Top
<1>2. Depth \in Nat \ {0} BY <1>1
<1>3. Sound(Top) /\ Before(Top, Len(lambdaStack)) BY <1>1 DEF IInv, Shape, Nested
<1>4. /\ goneOn = FALSE => Top.env + Top.n <= Len(envStack)
      /\ NoTrace => Len(envStack) = Top.env + Top.n BY <1>1 DEF IInv, Room, End, Partition
<1>5. /\ recursionCount = Depth
      /\ Steady /\ ~SavesContext(Top) => currentContext = Top.ctx
  BY DEF IInv, Registers, KeepsContext
<1>6. ~Armed(Top) => errorJump = Top.jmp
  <2>1. Innermost(activations, errorJump, Depth) /\ Innermost(activations, Top.jmp, Depth - 1)
    BY <1>1 DEF IInv, Setjmps
  <2> QED BY <1>1, <1>2, <2>1, InnermostUnique
<1>7. /\ Top.n \in Nat /\ Top.env \in Nat /\ Top.lam \in Nat /\ Len(envStack) \in Nat
      /\ currentContext \in Ctx /\ Top.ctx \in Ctx BY <1>1, Fields DEF TypeOK
<1> QED BY <1>1, <1>2, <1>3, <1>4, <1>5, <1>6, <1>7 DEF Before

\* Calls keep the invariant.
LEMMA CallInv == ASSUME IInv, Call PROVE IInv'
<1>. USE DEF Binders, Kinds
<1>1. ASSUME NEW f \in Fun, NEW ps \in Params, CallLambda(f, ps) PROVE IInv'
  <2>1. ps \in Seq(Sym) /\ Args \in Sym BY ScopeAssumption
  <2>2. Append(ps, Args) \in Seq(Sym) /\ Len(Append(ps, Args)) > 0 BY <2>1
  <2>3. currentContext' = currentContext /\ currentContext \in Ctx
    BY <1>1 DEF CallLambda, IInv, TypeOK
  <2> QED BY <1>1, <2>2, <2>3, EnterStep DEF CallLambda
<1>2. ASSUME NEW k \in {"let", "letn", "local"}, NEW ps \in Params, CallLet(k, ps) PROVE IInv'
  <2>. DEFINE ph == IF k = "let" THEN "args" ELSE BindPhase(0, ps)
  <2>1. ps \in Seq(Sym) BY ScopeAssumption
  <2>2. ph \in {"args", "bind", "body"} /\ (ph = "bind" => Len(ps) > 0) BY <2>1 DEF BindPhase
  <2>3. currentContext' = currentContext /\ currentContext \in Ctx
    BY <1>2 DEF CallLet, IInv, TypeOK
  <2>4. Enter(Entered(k, ph, Null, ps, Null)) BY <1>2 DEF CallLet
  <2>. HIDE DEF ph
  <2> QED BY <1>2, <2>1, <2>2, <2>3, <2>4, EnterStep DEF CallLet
<1>3. ASSUME NEW s \in Sym, NEW ps \in {<<s>>, <<Idx>>, <<s, Idx>>}, CallLoop(ps) PROVE IInv'
  <2>1. ps \in Seq(Sym) /\ Len(ps) > 0
    <3>1. /\ <<s>> \in Seq(Sym) /\ <<Idx>> \in Seq(Sym) /\ <<s, Idx>> \in Seq(Sym)
          /\ Len(<<s>>) > 0 /\ Len(<<Idx>>) > 0 /\ Len(<<s, Idx>>) > 0 BY ScopeAssumption
    <3> QED BY <3>1, Zenon
  <2>2. currentContext' = currentContext /\ currentContext \in Ctx
    BY <1>3 DEF CallLoop, IInv, TypeOK
  <2> QED BY <1>3, <2>1, <2>2, EnterStep DEF CallLoop
<1>4. ASSUME NEW s \in Sym \cup {Null}, CallCatch(s) PROVE IInv'
  <2>1. currentContext' = currentContext /\ currentContext \in Ctx
    BY <1>4 DEF CallCatch, IInv, TypeOK
  <2>2. <<>> \in Seq(Sym) OBVIOUS
  <2>3. /\ Enter(Entered("catch", "body", Null, <<>>, s))
        /\ lambdaStack' = lambdaStack /\ evalCatchFlag' = evalCatchFlag + 1
        /\ errorJump' = Depth + 1 BY <1>4 DEF CallCatch
  <2> QED BY <2>1, <2>2, <2>3, EnterStep
<1>5. ASSUME NEW c \in Ctx, CallEvalString(c) PROVE IInv'
  <2>1. <<>> \in Seq(Sym) OBVIOUS
  <2>2. /\ Enter(Entered("eval-string", "body", Null, <<>>, Null))
        /\ lambdaStack' = lambdaStack /\ evalCatchFlag' = evalCatchFlag + 1
        /\ errorJump' = Depth + 1 /\ currentContext' \in Ctx BY <1>5 DEF CallEvalString
  <2> QED BY <2>1, <2>2, EnterStep
<1>6. ASSUME NEW c \in Ctx, CallLoad(c) PROVE IInv'
  <2>1. <<>> \in Seq(Sym) OBVIOUS
  <2>2. /\ Enter(Entered("load", "body", Null, <<>>, Null))
        /\ lambdaStack' = lambdaStack /\ evalCatchFlag' = evalCatchFlag
        /\ errorJump' = Depth + 1 /\ currentContext' \in Ctx BY <1>6 DEF CallLoad
  <2> QED BY <2>1, <2>2, EnterStep
<1> QED BY <1>1, <1>2, <1>3, <1>4, <1>5, <1>6 DEF Call, Settable

\* Binding keeps the invariant.
LEMMA EvalArgInv == ASSUME IInv, NEW v \in Val, EvalArg(v) PROVE IInv'
<1>. DEFINE a == [Top EXCEPT !.args = Append(@, v)]
<1>1. /\ jump = Null /\ Depth > 0 /\ Top.kind \in {"lambda", "let"} /\ Top.phase = "args"
      /\ activations' = WithTop(a)
      /\ UNCHANGED <<contents, envStack, lambdaStack, currentContext, recursionCount,
                     evalCatchFlag, errorJump, traceFlag, goneOn, jump>> BY DEF EvalArg, Running
<1>2. /\ TypeOK /\ Top \in Activation /\ Sound(Top)
      /\ (goneOn = FALSE => Top.env + Top.n <= Len(envStack)) /\ (NoTrace => Len(envStack) = Top.env + Top.n)
  BY <1>1, TopFacts
<1>3. /\ a \in Activation /\ a.kind = Top.kind /\ a.phase = Top.phase /\ a.fn = Top.fn
      /\ a.params = Top.params /\ a.n = Top.n /\ a.env = Top.env /\ a.rec = Top.rec
      /\ a.lam = Top.lam /\ a.ctx = Top.ctx /\ a.jmp = Top.jmp
  <2>1. Append(Top.args, v) \in Seq(Val) BY <1>2, Fields
  <2> QED BY <1>2, <2>1 DEF Activation
<1>4. Sound(a) BY <1>2, <1>3 DEF Sound
<1>5. /\ contents' \in [Sym -> Val] /\ envStack' \in Seq([sym : Sym, saved : Val])
      /\ currentContext' \in Ctx BY <1>1, <1>2 DEF TypeOK
<1>. HIDE DEF a
<1>6. KeepsContext(a) => KeepsContext(Top) /\ currentContext' = currentContext
  BY <1>1, <1>3 DEF KeepsContext, SavesContext
<1> QED BY <1>1, <1>2, <1>3, <1>4, <1>5, <1>6, ChangeStep DEF Binders

\* The arguments have been evaluated.
LEMMA BeginBindingInv == ASSUME IInv, BeginBinding PROVE IInv'
<1>. DEFINE a == [Top EXCEPT !.phase = BindPhase(0, Top.params),
                            !.ctx = IF Top.kind = "lambda" THEN currentContext ELSE @]
<1>1. /\ jump = Null /\ Depth > 0 /\ Top.kind \in {"lambda", "let"} /\ Top.phase = "args"
      /\ activations' = WithTop(a)
      /\ currentContext' = IF Top.kind = "lambda" THEN Home[Top.fn] ELSE currentContext
      /\ UNCHANGED <<contents, envStack, lambdaStack, recursionCount, evalCatchFlag,
                     errorJump, traceFlag, goneOn, jump>> BY DEF BeginBinding, Running
<1>2. /\ TypeOK /\ Top \in Activation /\ Sound(Top)
      /\ (goneOn = FALSE => Top.env + Top.n <= Len(envStack)) /\ (NoTrace => Len(envStack) = Top.env + Top.n)
  BY <1>1, TopFacts
<1>3. /\ a \in Activation /\ a.kind = Top.kind /\ a.phase = BindPhase(0, Top.params)
      /\ a.fn = Top.fn /\ a.params = Top.params /\ a.n = Top.n /\ a.env = Top.env
      /\ a.rec = Top.rec /\ a.lam = Top.lam /\ a.jmp = Top.jmp
      /\ a.ctx = IF Top.kind = "lambda" THEN currentContext ELSE Top.ctx
  <2>. DEFINE ph == BindPhase(0, Top.params)
              c == IF Top.kind = "lambda" THEN currentContext ELSE Top.ctx
  <2>1. ph \in {"args", "bind", "body", "store"} /\ c \in Ctx
    BY <1>2, Fields DEF BindPhase, TypeOK
  <2>2. a = [Top EXCEPT !.phase = ph, !.ctx = c] BY <1>2 DEF Activation
  <2>. HIDE DEF a, ph, c
  <2>3. /\ a \in Activation /\ a.kind = Top.kind /\ a.phase = ph
        /\ a.fn = Top.fn /\ a.params = Top.params /\ a.n = Top.n /\ a.env = Top.env
        /\ a.rec = Top.rec /\ a.lam = Top.lam /\ a.jmp = Top.jmp /\ a.ctx = c
    BY <1>2, <2>1, <2>2 DEF Activation
  <2> QED BY <2>3 DEF ph, c
<1>4. Sound(a) BY <1>1, <1>2, <1>3, Fields DEF Sound, BindPhase, Binders
<1>5. /\ contents' \in [Sym -> Val] /\ envStack' \in Seq([sym : Sym, saved : Val])
      /\ currentContext' \in Ctx BY <1>1, <1>2, ScopeAssumption DEF TypeOK, Sound
<1>. HIDE DEF a
<1>6. KeepsContext(a) => KeepsContext(Top) /\ currentContext' = currentContext
  BY <1>1, <1>3 DEF KeepsContext, SavesContext, BindPhase
<1>7. a.ctx = Top.ctx \/ (Top.kind = "lambda" /\ Top.phase = "args" /\ a.ctx = currentContext)
  BY <1>1, <1>3
<1> QED BY <1>1, <1>2, <1>3, <1>4, <1>5, <1>6, <1>7, ChangeStep DEF Binders

\* One parameter is bound.
LEMMA BindNextInv == ASSUME IInv, NEW v \in Val, BindNext(v) PROVE IInv'
<1>. DEFINE a == [Top EXCEPT !.n = @ + 1, !.phase = BindPhase(Top.n + 1, Top.params),
                             !.args = IF @ = <<>> THEN <<>> ELSE Tail(@)]
<1>0. PICK s \in Bindable : /\ envStack' = Append(envStack, [sym |-> s, saved |-> contents[s]])
                            /\ contents' = [contents EXCEPT ![s] = v] BY DEF BindNext
<1>1. /\ jump = Null /\ Depth > 0 /\ Top.kind \in Binders /\ Top.phase = "bind"
      /\ envStack' = Append(envStack, [sym |-> s, saved |-> contents[s]])
      /\ contents' = [contents EXCEPT ![s] = v]
      /\ activations' = WithTop(a)
      /\ UNCHANGED <<lambdaStack, currentContext, recursionCount, evalCatchFlag,
                     errorJump, traceFlag, goneOn, jump>> BY <1>0 DEF BindNext, Running
<1>2. /\ TypeOK /\ Top \in Activation /\ Sound(Top) /\ Top.n \in Nat /\ Top.env \in Nat
      /\ (goneOn = FALSE => Top.env + Top.n <= Len(envStack)) /\ (NoTrace => Len(envStack) = Top.env + Top.n)
  BY <1>1, TopFacts
<1>3. /\ Top.params \in Seq(Sym) /\ Top.args \in Seq(Val) /\ Top.n < Len(Top.params)
  BY <1>1, <1>2, Fields DEF Sound
<1>4. s \in Sym BY <1>2, <1>3 DEF Bindable
<1>5. /\ a \in Activation /\ a.kind = Top.kind /\ a.phase = BindPhase(Top.n + 1, Top.params)
      /\ a.fn = Top.fn /\ a.params = Top.params /\ a.n = Top.n + 1 /\ a.env = Top.env
      /\ a.rec = Top.rec /\ a.lam = Top.lam /\ a.ctx = Top.ctx /\ a.jmp = Top.jmp
  <2>. DEFINE ph == BindPhase(Top.n + 1, Top.params)
              q == IF Top.args = <<>> THEN <<>> ELSE Tail(Top.args)
              n == Top.n + 1
  <2>1. q \in Seq(Val) /\ n \in Nat /\ ph \in {"args", "bind", "body", "store"}
    BY <1>2, <1>3 DEF BindPhase
  <2>2. a = [Top EXCEPT !.n = n, !.phase = ph, !.args = q] BY <1>2 DEF Activation
  <2>. HIDE DEF a, ph, q, n
  <2>3. /\ a \in Activation /\ a.kind = Top.kind /\ a.phase = ph /\ a.fn = Top.fn
        /\ a.params = Top.params /\ a.n = n /\ a.env = Top.env /\ a.rec = Top.rec
        /\ a.lam = Top.lam /\ a.ctx = Top.ctx /\ a.jmp = Top.jmp
    BY <1>2, <2>1, <2>2 DEF Activation
  <2> QED BY <2>3 DEF ph, n
<1>6. /\ contents' \in [Sym -> Val] /\ currentContext' \in Ctx BY <1>1, <1>2 DEF TypeOK
<1>7. /\ envStack' \in Seq([sym : Sym, saved : Val])
      /\ goneOn' = FALSE => Top.env + a.n <= Len(envStack')
      /\ NoTrace => Len(envStack') = Top.env + a.n
  <2>1. [sym |-> s, saved |-> contents[s]] \in [sym : Sym, saved : Val] BY <1>2, <1>4 DEF TypeOK
  <2>2. envStack \in Seq([sym : Sym, saved : Val]) BY <1>2 DEF TypeOK
  <2>3. envStack' \in Seq([sym : Sym, saved : Val]) /\ Len(envStack') = Len(envStack) + 1
    BY <1>1, <2>1, <2>2
  <2>4. Len(envStack) \in Nat BY <2>2
  <2> QED BY <1>1, <1>2, <1>5, <2>3, <2>4
<1>. HIDE DEF a
<1>8. Sound(a) BY <1>1, <1>2, <1>3, <1>5 DEF Sound, BindPhase, Binders
<1>9. KeepsContext(a) => KeepsContext(Top) /\ currentContext' = currentContext
  BY <1>1, <1>5 DEF KeepsContext, SavesContext, BindPhase
<1> QED BY <1>1, <1>2, <1>5, <1>6, <1>7, <1>8, <1>9, ChangeStep

\* Returns keep the invariant.
LEMMA ReturnBinderInv ==
  ASSUME IInv, ReturnBinder
  PROVE  /\ IInv'
         /\ recursionCount' = Top.rec /\ (NoTrace => Len(envStack') = Top.env)
         /\ SavesContext(Top) \/ Steady => currentContext' = Top.ctx
         /\ errorJump' = Top.jmp
<1>1. /\ jump = Null /\ Depth > 0 /\ Top.kind \in Binders /\ Top.phase = "body"
      /\ Top.n <= Len(envStack) /\ UndoTo(Len(envStack) - Top.n)
      /\ activations' = Callers /\ recursionCount' = recursionCount - 1
      /\ lambdaStack' = IF Top.kind = "lambda" THEN SubSeq(lambdaStack, 1, Len(lambdaStack) - 1)
                                               ELSE lambdaStack
      /\ currentContext' = IF Top.kind = "lambda" THEN Top.ctx ELSE currentContext
      /\ UNCHANGED <<evalCatchFlag, errorJump, traceFlag, goneOn, jump>>
  BY DEF ReturnBinder, Running
<1>2. /\ TypeOK /\ Top \in Activation /\ Top.n \in Nat /\ Top.env \in Nat /\ Top.lam \in Nat
      /\ (goneOn = FALSE => Top.env + Top.n <= Len(envStack)) /\ (NoTrace => Len(envStack) = Top.env + Top.n)
      /\ Len(envStack) \in Nat
      /\ Top.lam + Calls(Top) <= Len(lambdaStack)
      /\ Steady /\ ~SavesContext(Top) => currentContext = Top.ctx
      /\ currentContext \in Ctx /\ Top.ctx \in Ctx
      /\ ~Armed(Top) => errorJump = Top.jmp BY <1>1, TopFacts
<1>3. ~Armed(Top) /\ ~Catching(Top) /\ (SavesContext(Top) <=> Top.kind = "lambda")
  BY <1>1 DEF Armed, Catching, SavesContext, Binders
<1>4. /\ contents' \in [Sym -> Val] /\ envStack' \in Seq([sym : Sym, saved : Val])
      /\ (goneOn = FALSE => Top.env <= Len(envStack')) /\ (NoTrace => Len(envStack') = Top.env)
  <2>. DEFINE d == Len(envStack) - Top.n
  <2>1. d \in Nat /\ d <= Len(envStack) /\ (goneOn = FALSE => Top.env <= d) /\ (NoTrace => d = Top.env)
    BY <1>1, <1>2
  <2>2. UndoTo(d) BY <1>1
  <2>. HIDE DEF d
  <2> QED BY <1>2, <2>1, <2>2, UndoTypes
<1>5. lambdaStack' \in Seq(Fun) /\ Top.lam <= Len(lambdaStack')
  <2>1. lambdaStack \in Seq(Fun) /\ Len(lambdaStack) \in Nat BY <1>2 DEF TypeOK
  <2>2. CASE Top.kind = "lambda"
    <3>1. Len(lambdaStack) - 1 \in 0 .. Len(lambdaStack) BY <1>2, <2>1, <2>2 DEF Calls
    <3>2. lambdaStack' \in Seq(Fun) /\ Len(lambdaStack') = Len(lambdaStack) - 1
      BY <1>1, <2>1, <2>2, <3>1, CutSeq
    <3> QED BY <1>2, <2>1, <2>2, <3>2 DEF Calls
  <2>3. CASE Top.kind # "lambda" BY <1>1, <1>2, <2>1, <2>3 DEF Calls
  <2> QED BY <2>2, <2>3
<1> QED BY <1>1, <1>2, <1>3, <1>4, <1>5, ReturnStep

\* eval-string and load return.
LEMMA ReturnHandlerInv ==
  ASSUME IInv, ReturnEvalString \/ ReturnLoad \/ \E v \in Val : CatchStores(v)
  PROVE  /\ IInv'
         /\ recursionCount' = Top.rec /\ (NoTrace => Len(envStack') = Top.env)
         /\ SavesContext(Top) \/ Steady => currentContext' = Top.ctx
         /\ errorJump' = Top.jmp
<1>1. /\ jump = Null /\ Depth > 0 /\ activations' = Callers
      /\ recursionCount' = recursionCount - 1
      /\ UNCHANGED <<envStack, lambdaStack, traceFlag, goneOn, jump>>
  BY DEF ReturnEvalString, ReturnLoad, CatchStores, Running
<1>2. /\ TypeOK /\ Top \in Activation /\ Sound(Top) /\ Top.env \in Nat /\ Top.lam \in Nat
      /\ (goneOn = FALSE => Top.env + Top.n <= Len(envStack)) /\ (NoTrace => Len(envStack) = Top.env + Top.n)
      /\ Len(envStack) \in Nat
      /\ Top.lam + Calls(Top) <= Len(lambdaStack)
      /\ Steady /\ ~SavesContext(Top) => currentContext = Top.ctx
      /\ currentContext \in Ctx /\ Top.ctx \in Ctx
      /\ ~Armed(Top) => errorJump = Top.jmp BY <1>1, TopFacts
<1>3. /\ Top.kind \in {"eval-string", "load", "catch"}
      /\ contents' \in [Sym -> Val] /\ errorJump' = Top.jmp /\ currentContext' \in Ctx
      /\ SavesContext(Top) \/ Steady => currentContext' = Top.ctx
      /\ evalCatchFlag' = IF Catching(Top) THEN evalCatchFlag - 1 ELSE evalCatchFlag
  <2>1. CASE ReturnEvalString BY <1>2, <2>1 DEF ReturnEvalString, Running, Catching, TypeOK
  <2>2. CASE ReturnLoad BY <1>2, <2>2 DEF ReturnLoad, Running, Catching, TypeOK
  <2>3. ASSUME NEW v \in Val, CatchStores(v)
        PROVE  /\ Top.kind = "catch" /\ Top.phase = "store"
               /\ contents' \in [Sym -> Val] /\ UNCHANGED <<currentContext, errorJump, evalCatchFlag>>
    BY <1>2, <2>3 DEF CatchStores, Running, TypeOK
  <2>4. Top.kind = "catch" /\ Top.phase = "store" => ~Armed(Top) /\ ~Catching(Top) /\ ~SavesContext(Top)
    BY DEF Armed, Catching, SavesContext
  <2> QED BY <1>2, <2>1, <2>2, <2>3, <2>4
<1>4. Top.n = 0 /\ (goneOn = FALSE => Top.env <= Len(envStack')) /\ (NoTrace => Len(envStack') = Top.env)
  BY <1>1, <1>2, <1>3 DEF Sound, Binders
<1>5. /\ envStack' \in Seq([sym : Sym, saved : Val])
      /\ lambdaStack' \in Seq(Fun) /\ Top.lam <= Len(lambdaStack')
  BY <1>1, <1>2, <1>3 DEF TypeOK, Calls
<1> QED BY <1>1, <1>2, <1>3, <1>4, <1>5, ReturnStep

\* What catch is to return has been evaluated.
LEMMA ReturnCatchInv == ASSUME IInv, ReturnCatch PROVE IInv'
<1>. DEFINE a == [Top EXCEPT !.phase = "store"]
<1>1. /\ jump = Null /\ Depth > 0 /\ Top.kind = "catch" /\ Top.phase = "body"
      /\ activations' = WithTop(a)
      /\ evalCatchFlag' = evalCatchFlag - 1 /\ errorJump' = Top.jmp
      /\ UNCHANGED <<contents, envStack, lambdaStack, currentContext, recursionCount,
                     traceFlag, goneOn, jump>> BY DEF ReturnCatch, Running
<1>2. /\ TypeOK /\ Top \in Activation /\ Sound(Top)
      /\ (goneOn = FALSE => Top.env + Top.n <= Len(envStack)) /\ (NoTrace => Len(envStack) = Top.env + Top.n)
  BY <1>1, TopFacts
<1>3. /\ a \in Activation /\ a.kind = Top.kind /\ a.phase = "store" /\ a.fn = Top.fn
      /\ a.params = Top.params /\ a.n = Top.n /\ a.env = Top.env /\ a.rec = Top.rec
      /\ a.lam = Top.lam /\ a.ctx = Top.ctx /\ a.jmp = Top.jmp BY <1>2 DEF Activation
<1>4. Sound(a) /\ Catching(Top) /\ ~Armed(a)
  BY <1>1, <1>2, <1>3 DEF Sound, Catching, Armed, Binders
<1>5. /\ contents' \in [Sym -> Val] /\ envStack' \in Seq([sym : Sym, saved : Val])
      /\ currentContext' \in Ctx BY <1>1, <1>2 DEF TypeOK
<1>. HIDE DEF a
<1>6. KeepsContext(a) => KeepsContext(Top) /\ currentContext' = currentContext
  BY <1>1, <1>3 DEF KeepsContext, SavesContext
<1> QED BY <1>1, <1>2, <1>3, <1>4, <1>5, <1>6, ChangeStep

\* Landings keep the invariant.
LEMMA HandlerLands == ASSUME IInv, LandAtCatch \/ LandAtEvalString PROVE IInv'
<1>. DEFINE d == errorJump - 1
<1>1. /\ jump \in {"throw", "error"} /\ jump # Null /\ errorJump > 0
      /\ Target.kind \in {"catch", "eval-string"}
      /\ UndoTo(Target.env) /\ recursionCount' = Target.rec + 1
      /\ currentContext' = Target.ctx /\ evalCatchFlag' = evalCatchFlag - 1
      /\ errorJump' = Target.jmp /\ UNCHANGED <<traceFlag, goneOn>>
      /\ lambdaStack' \in {lambdaStack, SubSeq(lambdaStack, 1, Target.lam)}
  BY ScopeAssumption DEF LandAtCatch, LandAtEvalString, Land, Jumping, Target
<1>2. /\ errorJump \in 1..Depth /\ Depth \in Nat /\ Target \in Activation
      /\ Armed(Target) /\ Sound(Target) /\ Target.n = 0
      /\ Target.env \in Nat /\ (goneOn = FALSE => Target.env \in 0 .. Len(envStack))
      /\ Target.lam <= Len(lambdaStack) BY <1>1, TargetFacts
<1>3. TypeOK /\ d \in Nat /\ Catching(Target) /\ Len(envStack) \in Nat
  BY <1>1, <1>2 DEF IInv, Armed, Catching, TypeOK
<1>4. /\ contents' \in [Sym -> Val] /\ envStack' \in Seq([sym : Sym, saved : Val])
      /\ goneOn = FALSE => Len(envStack') = Target.env
  <2>1. Target.env \in Nat /\ (goneOn = FALSE => Target.env <= Len(envStack)) BY <1>2, <1>3
  <2>2. /\ contents' \in [Sym -> Val] /\ envStack' \in Seq([sym : Sym, saved : Val])
        /\ Target.env <= Len(envStack) => Len(envStack') = Target.env
    BY <1>1, <1>3, <2>1, UndoTypes
  <2> QED BY <2>1, <2>2
<1>5. lambdaStack' \in Seq(Fun) /\ Target.lam <= Len(lambdaStack')
  <2>1. lambdaStack \in Seq(Fun) /\ Target.lam \in 0 .. Len(lambdaStack)
    BY <1>2, <1>3, Fields DEF TypeOK
  <2>2. /\ SubSeq(lambdaStack, 1, Target.lam) \in Seq(Fun)
        /\ Len(SubSeq(lambdaStack, 1, Target.lam)) = Target.lam BY <2>1, CutSeq
  <2>3. CASE lambdaStack' = lambdaStack BY <1>2, <2>1, <2>3
  <2>4. CASE lambdaStack' = SubSeq(lambdaStack, 1, Target.lam) BY <2>1, <2>2, <2>4
  <2> QED BY <1>1, <2>3, <2>4
<1>6. \/ activations' = SubSeq(activations, 1, d) /\ jump = "error" /\ jump' = jump
      \/ \E a \in Activation :
           /\ activations' = Append(SubSeq(activations, 1, d), a)
           /\ jump' = Null /\ ~Armed(a) /\ Sound(a) /\ a.kind # "lambda"
           /\ a.n = 0 /\ a.env = Target.env /\ a.rec = Target.rec /\ a.lam = Target.lam
           /\ a.ctx = Target.ctx /\ a.jmp = Target.jmp
  <2>1. CASE activations' = SubSeq(activations, 1, d) /\ jump = "error" /\ jump' = jump BY <2>1
  <2>2. ASSUME Target.kind = "catch", jump' = Null,
               activations' = Append(SubSeq(activations, 1, d), [Target EXCEPT !.phase = "store"])
        PROVE  <1>6!2
    <3>. DEFINE a == [Target EXCEPT !.phase = "store"]
    <3>1. /\ a \in Activation /\ a.kind = "catch" /\ a.phase = "store"
          /\ a.n = 0 /\ a.env = Target.env /\ a.rec = Target.rec /\ a.lam = Target.lam
          /\ a.ctx = Target.ctx /\ a.jmp = Target.jmp BY <1>2, <2>2 DEF Activation
    <3>2. ~Armed(a) /\ Sound(a) BY <3>1 DEF Armed, Sound, Binders
    <3> QED BY <2>2, <3>1, <3>2
  <2>3. ASSUME Target.kind = "eval-string", jump' = Null,
               activations' = Append(SubSeq(activations, 1, d), [Target EXCEPT !.kind = "plain"])
        PROVE  <1>6!2
    <3>. DEFINE a == [Target EXCEPT !.kind = "plain"]
    <3>1. /\ a \in Activation /\ a.kind = "plain" /\ a.phase = Target.phase /\ a.params = Target.params
          /\ a.n = 0 /\ a.env = Target.env /\ a.rec = Target.rec /\ a.lam = Target.lam
          /\ a.ctx = Target.ctx /\ a.jmp = Target.jmp BY <1>2, <2>3 DEF Activation, Kinds, Binders
    <3>2. ~Armed(a) /\ Sound(a) BY <1>2, <3>1 DEF Armed, Sound, Binders
    <3> QED BY <2>3, <3>1, <3>2
  <2> QED BY <2>1, <2>2, <2>3 DEF LandAtCatch, LandAtEvalString, Land, Target
<1>. HIDE DEF d
<1>7. d = errorJump - 1 BY DEF d
<1> QED BY <1>1, <1>3, <1>4, <1>5, <1>6, <1>7, LandStep

\* In trace mode a function that fails returns with its entries left.
LEMMA AbandonInv ==
  ASSUME IInv, Abandon, jump = Null, Depth > 0, Top.kind \in Binders
  PROVE  IInv'
<1>1. /\ traceFlag /\ activations' = Callers /\ recursionCount' = recursionCount - 1
      /\ lambdaStack' = IF Top.kind = "lambda"
                          THEN SubSeq(lambdaStack, 1, Len(lambdaStack) - 1) ELSE lambdaStack
      /\ UNCHANGED <<contents, envStack, currentContext, evalCatchFlag, errorJump, traceFlag, goneOn, jump>>
  BY DEF Abandon
<1>2. /\ TypeOK /\ Top \in Activation /\ Top.n \in Nat /\ Top.env \in Nat /\ Top.lam \in Nat
      /\ (goneOn = FALSE => Top.env + Top.n <= Len(envStack)) /\ Len(envStack) \in Nat
      /\ Top.lam + Calls(Top) <= Len(lambdaStack)
      /\ ~Armed(Top) => errorJump = Top.jmp BY TopFacts
<1>3. ~Armed(Top) /\ ~Catching(Top) BY DEF Armed, Catching, Binders
<1>4. ~NoTrace /\ ~Steady BY <1>1 DEF IInv, Shape, Steady
<1>5. lambdaStack' \in Seq(Fun) /\ Top.lam <= Len(lambdaStack')
  <2>1. lambdaStack \in Seq(Fun) /\ Len(lambdaStack) \in Nat BY <1>2 DEF TypeOK
  <2>2. CASE Top.kind = "lambda"
    <3>1. Len(lambdaStack) - 1 \in 0 .. Len(lambdaStack) BY <1>2, <2>1, <2>2 DEF Calls
    <3>2. lambdaStack' \in Seq(Fun) /\ Len(lambdaStack') = Len(lambdaStack) - 1
      BY <1>1, <2>1, <2>2, <3>1, CutSeq
    <3> QED BY <1>2, <2>1, <2>2, <3>2 DEF Calls
  <2>3. CASE Top.kind # "lambda" BY <1>1, <1>2, <2>1, <2>3 DEF Calls
  <2> QED BY <2>2, <2>3
<1>6. /\ contents' \in [Sym -> Val] /\ envStack' \in Seq([sym : Sym, saved : Val])
      /\ currentContext' \in Ctx /\ (goneOn = FALSE => Top.env <= Len(envStack'))
  BY <1>1, <1>2 DEF TypeOK
<1> QED BY <1>1, <1>2, <1>3, <1>4, <1>5, <1>6, ReturnStep

\* A loop goes on with a variable it has not bound.
LEMMA GoOnInv == ASSUME IInv, GoOn, Running({"loop"}, "bind") PROVE IInv'
<1>. DEFINE ph == BindPhase(Top.n + 1, Top.params)
            n == Top.n + 1
            a == [Top EXCEPT !.n = n, !.phase = ph]
<1>1. /\ jump = Null /\ Depth > 0 /\ Top.kind = "loop" /\ Top.phase = "bind"
      /\ traceFlag /\ goneOn' = TRUE /\ activations' = WithTop([Top EXCEPT !.n = @ + 1, !.phase = ph])
      /\ UNCHANGED <<contents, envStack, lambdaStack, currentContext, recursionCount,
                     evalCatchFlag, errorJump, traceFlag, jump>> BY DEF GoOn, Running
<1>2. TypeOK /\ Top \in Activation /\ Sound(Top) /\ Top.n \in Nat /\ Top.params \in Seq(Sym)
  BY <1>1, TopFacts, Fields
<1>3. n \in Nat /\ n <= Len(Top.params) /\ ph = (IF n = Len(Top.params) THEN "body" ELSE "bind")
  BY <1>1, <1>2 DEF Sound, BindPhase
<1>. HIDE DEF ph, n
<1>4. /\ a \in Activation /\ a.kind = Top.kind /\ a.phase = ph /\ a.fn = Top.fn
      /\ a.params = Top.params /\ a.n = n /\ a.env = Top.env /\ a.rec = Top.rec
      /\ a.lam = Top.lam /\ a.ctx = Top.ctx /\ a.jmp = Top.jmp BY <1>2, <1>3 DEF Activation
<1>5. activations' = WithTop(a) BY <1>1 DEF n
<1>. HIDE DEF a
<1>6. Sound(a) BY <1>1, <1>2, <1>3, <1>4 DEF Sound, Binders
<1>7. ~NoTrace /\ ~Steady BY <1>1 DEF IInv, Shape, Steady
<1>8. /\ contents' \in [Sym -> Val] /\ envStack' \in Seq([sym : Sym, saved : Val])
      /\ currentContext' \in Ctx /\ ~KeepsContext(a) BY <1>1, <1>2, <1>7 DEF TypeOK, KeepsContext
<1> QED BY <1>1, <1>4, <1>5, <1>6, <1>7, <1>8, ChangeStep DEF Binders

\* There are too few entries only after a loop has gone on.
LEMMA UnderflowInv == ASSUME IInv, Underflow PROVE IInv'
<1>1. /\ jump = Null /\ Depth > 0 /\ Top.n > Len(envStack) /\ jump' = "underflow"
      /\ UNCHANGED <<contents, envStack, activations, lambdaStack, currentContext,
                     recursionCount, evalCatchFlag, errorJump, traceFlag, goneOn>>
  BY DEF Underflow, Running
<1>2. goneOn = TRUE /\ TypeOK
  <2>1. /\ TypeOK /\ Top.n \in Nat /\ Top.env \in Nat /\ Len(envStack) \in Nat
        /\ (goneOn = FALSE => Top.env + Top.n <= Len(envStack)) BY <1>1, TopFacts
  <2> QED BY <1>1, <2>1 DEF TypeOK
<1>3. contents' \in [Sym -> Val] /\ currentContext' \in Ctx /\ traceFlag' \in BOOLEAN
  BY <1>1, <1>2 DEF TypeOK
<1> QED BY <1>1, <1>2, <1>3, PlainStep

\* Steps that change neither a stack nor a register of the handlers.
LEMMA PlainInv ==
  ASSUME IInv,
         \/ UNCHANGED vars \/ RaiseError \/ Throw
         \/ \E v \in Val : LoopStep(v) \/ \E s \in Sym : SetVar(s, v)
         \/ \E on \in BOOLEAN : Trace(on)
         \/ \E c \in Ctx : SwitchContext(c) \/ LoadFails(c)
  PROVE  IInv'
<1>1. /\ TypeOK /\ contents \in [Sym -> Val] /\ currentContext \in Ctx /\ traceFlag \in BOOLEAN
      /\ (jump = "underflow" => goneOn)
      /\ Null # "underflow" /\ Null # "error" /\ Null # "throw"
  BY ScopeAssumption DEF IInv, TypeOK
<1>2. CASE UNCHANGED vars BY <1>1, <1>2, PlainStep DEF vars
<1>3. ASSUME NEW v \in Val, LoopStep(v) \/ \E s \in Sym : SetVar(s, v) PROVE IInv'
  <2>1. /\ contents' \in [Sym -> Val] /\ jump' = jump
        /\ UNCHANGED <<envStack, activations, lambdaStack, currentContext, recursionCount,
                       evalCatchFlag, errorJump, traceFlag, goneOn>>
    BY <1>1, <1>3 DEF LoopStep, SetVar
  <2> QED BY <1>1, <2>1, PlainStep
<1>4. CASE RaiseError
  <2>1. /\ jump = Null /\ jump' = "error" /\ contents' \in [Sym -> Val]
        /\ traceFlag' \in {traceFlag, FALSE}
        /\ UNCHANGED <<contents, envStack, activations, lambdaStack, currentContext,
                       recursionCount, evalCatchFlag, errorJump, goneOn>>
    BY <1>1, <1>4 DEF RaiseError, Jump, Evaluating
  <2>2. traceFlag' \in BOOLEAN /\ (NoTrace => traceFlag' = traceFlag)
    BY <1>1, <2>1 DEF IInv, Shape
  <2> QED BY <1>1, <2>1, <2>2, PlainStep
<1>5. CASE Throw
  <2>1. /\ jump = Null /\ jump' = "throw" /\ evalCatchFlag > 0 /\ contents' \in [Sym -> Val]
        /\ UNCHANGED <<contents, envStack, activations, lambdaStack, currentContext,
                       recursionCount, evalCatchFlag, errorJump, traceFlag, goneOn>>
    BY <1>1, <1>5 DEF Throw, Jump, Evaluating
  <2> QED BY <1>1, <2>1, PlainStep
<1>6. ASSUME NEW on \in BOOLEAN, Trace(on) PROVE IInv'
  <2>1. /\ contents' \in [Sym -> Val] /\ jump' = jump /\ traceFlag' \in BOOLEAN /\ ~NoTrace
        /\ UNCHANGED <<envStack, activations, lambdaStack, currentContext, recursionCount,
                       evalCatchFlag, errorJump, goneOn>> BY <1>1, <1>6 DEF Trace, NoTrace
  <2> QED BY <1>1, <2>1, PlainStep
<1>7. ASSUME NEW c \in Ctx, SwitchContext(c) PROVE IInv'
  <2>1. /\ contents' \in [Sym -> Val] /\ jump' = jump /\ currentContext' \in Ctx /\ ~Steady
        /\ UNCHANGED <<envStack, activations, lambdaStack, recursionCount,
                       evalCatchFlag, errorJump, traceFlag, goneOn>>
    BY <1>1, <1>7 DEF SwitchContext, Steady
  <2> QED BY <1>1, <2>1, PlainStep
<1>8. ASSUME NEW c \in Ctx, LoadFails(c) PROVE IInv'
  <2>1. /\ contents' \in [Sym -> Val] /\ jump = Null /\ jump' = (IF traceFlag THEN Null ELSE "error")
        /\ currentContext' \in Ctx
        /\ UNCHANGED <<envStack, activations, lambdaStack, recursionCount,
                       evalCatchFlag, errorJump, traceFlag, goneOn>>
    BY <1>1, <1>8 DEF LoadFails, Evaluating
  <2>2. Steady => ~traceFlag BY DEF IInv, Shape, Steady
  <2>3. jump' \in {jump, "error"} /\ (Steady => jump' # Null) BY <1>1, <2>1, <2>2
  <2> QED BY <1>1, <2>1, <2>3, PlainStep
<1> QED BY <1>2, <1>3, <1>4, <1>5, <1>6, <1>7, <1>8

\* One step, whatever it is.
LEMMA StepInv == ASSUME IInv, [Next]_vars PROVE IInv'
<1>1. CASE BindFails
  <2>1. jump = Null /\ Depth > 0 /\ Top.kind \in Binders BY <1>1 DEF BindFails, Running
  <2>2. CASE Abandon BY <2>1, <2>2, AbandonInv
  <2>4. CASE GoOn /\ Top.kind = "loop" BY <1>1, <2>4, GoOnInv DEF BindFails, Running
  <2>3. CASE jump' = "error" /\ UNCHANGED <<contents, envStack, activations, lambdaStack,
              currentContext, recursionCount, evalCatchFlag, errorJump, traceFlag, goneOn>>
    <3>1. /\ contents' \in [Sym -> Val] /\ currentContext' \in Ctx /\ traceFlag' \in BOOLEAN
      BY <2>3 DEF IInv, TypeOK
    <3> QED BY <2>1, <2>3, <3>1, PlainStep, ScopeAssumption
  <2> QED BY <1>1, <2>2, <2>3, <2>4 DEF BindFails
<1>2. CASE NoList BY <1>2, AbandonInv DEF NoList, Running, Binders
<1>3. CASE \/ UNCHANGED vars \/ RaiseError \/ Throw
           \/ \E v \in Val : LoopStep(v) \/ \E s \in Sym : SetVar(s, v)
           \/ \E on \in BOOLEAN : Trace(on)
           \/ \E c \in Ctx : SwitchContext(c) \/ LoadFails(c) BY <1>3, PlainInv
<1>4. CASE Return
  BY <1>4, ReturnBinderInv, UnderflowInv, ReturnHandlerInv, ReturnCatchInv DEF Return
<1>5. CASE Landing BY <1>5, LoadLands, HandlerLands, MainLands DEF Landing
<1>6. ASSUME NEW v \in Val, EvalArg(v) \/ BindNext(v) \/ CatchStores(v) PROVE IInv'
  BY <1>6, EvalArgInv, BindNextInv, ReturnHandlerInv
<1> QED BY <1>1, <1>2, <1>3, <1>4, <1>5, <1>6, CallInv, BeginBindingInv DEF Next

\* Every throw finds its catch (p_throw tests evalCatchFlag only, and the
\* longjmp goes where errorJump says, see p_catch and sysEvalString).
LEMMA CaughtLemma == ASSUME IInv PROVE ThrowHasCatcher
<1>. SUFFICES ASSUME jump = "throw"
              PROVE  \E i \in 1..errorJump : activations[i].kind \in {"catch", "eval-string"}
  BY DEF ThrowHasCatcher
<1>1. evalCatchFlag > 0 /\ evalCatchFlag = Cardinality(Catchers) BY DEF IInv, Caught, Counted
<1>2. Catchers # {} BY <1>1, FS_EmptySet
<1>3. PICK i \in 1..Depth : Catching(activations[i]) BY <1>2 DEF Catchers
<1>4. i \in 1..errorJump BY <1>3 DEF IInv, Setjmps, TypeOK
<1> QED BY <1>3, <1>4 DEF Catching
----------------------------------------
(* The call history.  catch puts lambdaStackIdx back and eval-string does *)
(* not, so this is for programs that do not use eval-string's handler. *)
NoEvalString == "eval-string" \notin Features

\* An activation's lam is the number of lambdas that led to it; lambdaStack
\* has every lambda above those, in the order of the calls.
CallsBelow(i) == {k \in LambdaCalls : k < i}
Chain ==
  /\ \A i \in 1..Depth : activations[i].kind # "eval-string"
  /\ Len(lambdaStack) = Cardinality(LambdaCalls)
  /\ \A i \in 1..Depth : activations[i].lam = Cardinality(CallsBelow(i))
  /\ \A i \in LambdaCalls : lambdaStack[activations[i].lam + 1] = activations[i].fn

\* The lambdas under way are finitely many activations.
LEMMA CallSets ==
  ASSUME TypeOK
  PROVE  /\ LambdaCalls = {i \in 1..Depth : activations[i].kind = "lambda"} /\ Depth \in Nat
         /\ IsFiniteSet(LambdaCalls) /\ Cardinality(LambdaCalls) \in Nat
         /\ \A i \in Nat : IsFiniteSet(CallsBelow(i)) /\ Cardinality(CallsBelow(i)) \in Nat
         /\ CallsBelow(Depth + 1) = LambdaCalls
<1>1. activations \in Seq(Activation) BY DEF TypeOK
<1>2. LambdaCalls = {i \in 1..Depth : activations[i].kind = "lambda"} /\ Depth \in Nat
  BY <1>1 DEF LambdaCalls, Depth
<1>3. IsFiniteSet(1..Depth) BY <1>2, FS_Interval
<1>4. IsFiniteSet(LambdaCalls) BY <1>2, <1>3, FS_Subset
<1>5. \A i \in Nat : IsFiniteSet(CallsBelow(i)) BY <1>4, FS_Subset DEF CallsBelow
<1>6. CallsBelow(Depth + 1) = LambdaCalls BY <1>2 DEF CallsBelow
<1> QED BY <1>2, <1>4, <1>5, <1>6, FS_CardinalityType

\* The number of a lambda is one more than the lambdas below it.
LEMMA NextNumber ==
  ASSUME TypeOK, NEW i \in 1..Depth, activations[i].kind = "lambda"
  PROVE  /\ CallsBelow(i + 1) = CallsBelow(i) \cup {i}
         /\ Cardinality(CallsBelow(i + 1)) = Cardinality(CallsBelow(i)) + 1
<1>1. i \in LambdaCalls /\ i \in Nat /\ \A k \in LambdaCalls : k \in Nat BY CallSets
<1>2. \A k \in LambdaCalls : k < i + 1 <=> k < i \/ k = i BY <1>1
<1>3. CallsBelow(i + 1) = CallsBelow(i) \cup {i}
  <2>1. CallsBelow(i + 1) = {k \in LambdaCalls : k < i \/ k = i} BY <1>2 DEF CallsBelow
  <2>2. {k \in LambdaCalls : k < i \/ k = i} = {k \in LambdaCalls : k < i} \cup {i} BY <1>1
  <2> QED BY <2>1, <2>2 DEF CallsBelow
<1>4. i \notin CallsBelow(i) BY <1>1 DEF CallsBelow
<1> QED BY <1>1, <1>3, <1>4, CallSets, FS_AddElement

\* Other activations have no number.
LEMMA SameNumber ==
  ASSUME TypeOK, NEW i \in 1..Depth, activations[i].kind # "lambda"
  PROVE  CallsBelow(i + 1) = CallsBelow(i)
<1>1. i \notin LambdaCalls /\ i \in Nat /\ \A k \in LambdaCalls : k \in Nat BY CallSets
<1>2. \A k \in LambdaCalls : k < i + 1 <=> k < i BY <1>1
<1> QED BY <1>2 DEF CallsBelow

\* The activations above number n end, and so do their lambdas' entries.
LEMMA ChainCut ==
  ASSUME TypeOK, TypeOK', Chain, NEW n \in 0..Depth, Depth' = n,
         \A i \in 1..n : /\ activations'[i].kind # "eval-string"
                         /\ activations'[i].kind = "lambda" <=> activations[i].kind = "lambda"
                         /\ activations'[i].fn = activations[i].fn
                         /\ activations'[i].lam = activations[i].lam,
         Len(lambdaStack') = Cardinality(CallsBelow(n + 1)),
         \A k \in 1 .. Len(lambdaStack') : lambdaStack'[k] = lambdaStack[k]
  PROVE  Chain'
<1>1. Depth \in Nat /\ n \in Nat /\ \A i \in 1..n : i \in 1..Depth BY CallSets
<1>2. LambdaCalls = {i \in 1..Depth : activations[i].kind = "lambda"} BY CallSets
<1>3. LambdaCalls' = {i \in 1..n : activations'[i].kind = "lambda"}
  <2>1. activations' \in Seq(Activation) BY DEF TypeOK
  <2> QED BY <2>1 DEF LambdaCalls, Depth
<1>4. LambdaCalls' = CallsBelow(n + 1) BY <1>1, <1>2, <1>3 DEF CallsBelow
<1>5. ASSUME NEW i \in 1..n PROVE CallsBelow(i)' = CallsBelow(i)
  <2>1. \A k \in LambdaCalls : k \in Nat BY <1>1, <1>2
  <2>2. \A k : k \in LambdaCalls' <=> k \in LambdaCalls /\ k < n + 1 BY <1>4 DEF CallsBelow
  <2>3. \A k \in LambdaCalls : k < n + 1 /\ k < i <=> k < i BY <1>1, <2>1
  <2>4. \A k : k \in LambdaCalls' /\ k < i <=> k \in LambdaCalls /\ k < i BY <2>2, <2>3
  <2>5. CallsBelow(i)' = {k \in LambdaCalls' : k < i} BY DEF CallsBelow
  <2> QED BY <2>4, <2>5 DEF CallsBelow
<1>6. ASSUME NEW i \in 1..n PROVE activations'[i].lam = Cardinality(CallsBelow(i)')
  BY <1>1, <1>5 DEF Chain
<1>7. ASSUME NEW i \in LambdaCalls'
      PROVE  lambdaStack'[activations'[i].lam + 1] = activations'[i].fn
  <2>1. i \in 1..n /\ i \in 1..Depth /\ i \in LambdaCalls /\ activations[i].kind = "lambda"
    BY <1>1, <1>2, <1>3
  <2>2. activations[i].lam = Cardinality(CallsBelow(i)) /\ activations[i].lam \in Nat
    <3>1. activations[i].lam = Cardinality(CallsBelow(i)) BY <2>1 DEF Chain
    <3> QED BY <1>1, <2>1, <3>1, CallSets
  <2>3. activations[i].lam + 1 <= Len(lambdaStack')
    <3>1. CallsBelow(i + 1) \subseteq CallsBelow(n + 1) BY <1>1, <1>2, <2>1 DEF CallsBelow
    <3>2. Cardinality(CallsBelow(i + 1)) <= Cardinality(CallsBelow(n + 1))
      BY <1>1, <3>1, CallSets, FS_Subset
    <3> QED BY <2>1, <2>2, <3>2, NextNumber
  <2>4. Len(lambdaStack') \in Nat BY DEF TypeOK
  <2>5. activations[i].lam + 1 \in 1 .. Len(lambdaStack') BY <2>2, <2>3, <2>4
  <2>6. lambdaStack[activations[i].lam + 1] = activations[i].fn BY <2>1 DEF Chain
  <2> QED BY <2>1, <2>5, <2>6
<1>8. \A i \in 1..Depth' : /\ activations'[i].kind # "eval-string"
                           /\ activations'[i].lam = Cardinality(CallsBelow(i)') BY <1>6
<1> QED BY <1>4, <1>7, <1>8 DEF Chain

\* A call puts its number on its activation and, if it is a lambda's, its
\* function on lambdaStack.
LEMMA ChainPush ==
  ASSUME TypeOK, TypeOK', Chain, NEW a \in Activation, a.kind # "eval-string",
         a.lam = Len(lambdaStack), activations' = Append(activations, a),
         lambdaStack' = IF a.kind = "lambda" THEN Append(lambdaStack, a.fn) ELSE lambdaStack
  PROVE  Chain'
<1>1. /\ Depth \in Nat /\ Depth' = Depth + 1 /\ activations'[Depth + 1] = a
      /\ \A i \in 1..Depth : activations'[i] = activations[i] BY Grown
<1>2. LambdaCalls = {i \in 1..Depth : activations[i].kind = "lambda"} BY CallSets
<1>3. LambdaCalls' = {i \in 1 .. Depth + 1 : activations'[i].kind = "lambda"}
  <2>1. activations' \in Seq(Activation) BY DEF TypeOK
  <2> QED BY <1>1, <2>1 DEF LambdaCalls, Depth
<1>4. \A k : k \in LambdaCalls' <=> k \in LambdaCalls \/ (k = Depth + 1 /\ a.kind = "lambda")
  <2>1. \A k : k \in 1 .. Depth + 1 <=> k \in 1..Depth \/ k = Depth + 1 BY <1>1
  <2>2. \A k : k \in LambdaCalls' <=> k \in 1 .. Depth + 1 /\ activations'[k].kind = "lambda"
    BY <1>3
  <2>3. \A k : k \in LambdaCalls <=> k \in 1..Depth /\ activations[k].kind = "lambda" BY <1>2
  <2>4. Depth + 1 \notin 1..Depth BY <1>1
  <2> QED BY <1>1, <2>1, <2>2, <2>3, <2>4
<1>5. \A k \in LambdaCalls : k \in Nat /\ k <= Depth BY <1>1, <1>2
<1>6. ASSUME NEW i \in 1 .. Depth + 1 PROVE CallsBelow(i)' = CallsBelow(i)
  <2>1. \A k : k \in LambdaCalls' /\ k < i <=> k \in LambdaCalls /\ k < i BY <1>1, <1>4
  <2>2. CallsBelow(i)' = {k \in LambdaCalls' : k < i} BY DEF CallsBelow
  <2> QED BY <2>1, <2>2 DEF CallsBelow
<1>7. CallsBelow(Depth + 1) = LambdaCalls /\ Len(lambdaStack) = Cardinality(LambdaCalls)
  BY CallSets DEF Chain
<1>8. ASSUME NEW i \in 1 .. Depth + 1
      PROVE  /\ activations'[i].kind # "eval-string"
             /\ activations'[i].lam = Cardinality(CallsBelow(i)')
  <2>1. CASE i = Depth + 1 BY <1>1, <1>6, <1>7, <2>1
  <2>2. CASE i # Depth + 1
    <3>1. i \in 1..Depth BY <1>1, <2>2
    <3> QED BY <1>1, <1>6, <3>1 DEF Chain
  <2> QED BY <2>1, <2>2
<1>9. Cardinality(LambdaCalls') = Len(lambdaStack')
  <2>1. CASE a.kind = "lambda"
    <3>1. LambdaCalls' = LambdaCalls \cup {Depth + 1} /\ Depth + 1 \notin LambdaCalls
      BY <1>1, <1>4, <1>5, <2>1
    <3>2. Cardinality(LambdaCalls') = Cardinality(LambdaCalls) + 1
      BY <3>1, CallSets, FS_AddElement
    <3>3. lambdaStack' = Append(lambdaStack, a.fn) /\ lambdaStack \in Seq(Fun) BY <2>1 DEF TypeOK
    <3>4. Len(lambdaStack') = Len(lambdaStack) + 1 BY <3>3
    <3> QED BY <1>7, <3>2, <3>4
  <2>2. CASE a.kind # "lambda"
    <3>1. LambdaCalls' = LambdaCalls BY <1>4, <2>2
    <3> QED BY <1>7, <2>2, <3>1
  <2> QED BY <2>1, <2>2
<1>10. ASSUME NEW i \in LambdaCalls'
       PROVE  lambdaStack'[activations'[i].lam + 1] = activations'[i].fn
  <2>0. lambdaStack \in Seq(Fun) /\ Len(lambdaStack) \in Nat BY DEF TypeOK
  <2>1. CASE i \in LambdaCalls
    <3>1. i \in 1..Depth /\ activations[i].kind = "lambda" BY <1>2, <2>1
    <3>2. activations[i].lam = Cardinality(CallsBelow(i)) /\ lambdaStack[activations[i].lam + 1] = activations[i].fn
      BY <2>1, <3>1 DEF Chain
    <3>3. Cardinality(CallsBelow(i)) \in Nat BY <3>1, <1>1, CallSets
    <3>4. Cardinality(CallsBelow(i)) + 1 <= Len(lambdaStack)
      <4>1. CallsBelow(i + 1) \subseteq LambdaCalls BY DEF CallsBelow
      <4>2. Cardinality(CallsBelow(i + 1)) <= Cardinality(LambdaCalls)
        BY <4>1, CallSets, FS_Subset
      <4> QED BY <1>7, <3>1, <4>2, NextNumber
    <3>5. activations[i].lam + 1 \in 1 .. Len(lambdaStack) BY <2>0, <3>2, <3>3, <3>4
    <3>6. lambdaStack'[activations[i].lam + 1] = lambdaStack[activations[i].lam + 1] BY <2>0, <3>5
    <3> QED BY <1>1, <3>1, <3>2, <3>6
  <2>2. CASE i \notin LambdaCalls
    <3>1. i = Depth + 1 /\ a.kind = "lambda" BY <1>4, <2>2
    <3>2. lambdaStack' = Append(lambdaStack, a.fn) BY <3>1
    <3>3. lambdaStack'[Len(lambdaStack) + 1] = a.fn BY <2>0, <3>2
    <3> QED BY <1>1, <3>1, <3>3
  <2> QED BY <2>1, <2>2
<1> QED BY <1>1, <1>8, <1>9, <1>10 DEF Chain

\* A step that neither calls, returns nor lands.
LEMMA ChainStays ==
  ASSUME TypeOK, TypeOK', Chain, UNCHANGED lambdaStack,
         \/ UNCHANGED activations
         \/ Depth > 0 /\ \E a \in Activation : /\ activations' = WithTop(a) /\ a.kind = Top.kind
                                               /\ a.fn = Top.fn /\ a.lam = Top.lam
  PROVE  Chain'
<1>1. Depth \in Nat /\ CallsBelow(Depth + 1) = LambdaCalls BY CallSets
<1>2. /\ Depth' = Depth
      /\ \A i \in 1..Depth : /\ activations'[i].kind = activations[i].kind
                             /\ activations'[i].fn = activations[i].fn
                             /\ activations'[i].lam = activations[i].lam
  <2>1. CASE UNCHANGED activations BY <2>1 DEF Depth
  <2>2. ASSUME NEW a \in Activation, Depth > 0, activations' = WithTop(a), a.kind = Top.kind,
               a.fn = Top.fn, a.lam = Top.lam
        PROVE  /\ Depth' = Depth
               /\ \A i \in 1..Depth : /\ activations'[i].kind = activations[i].kind
                                      /\ activations'[i].fn = activations[i].fn
                                      /\ activations'[i].lam = activations[i].lam
    <3>1. /\ Depth' = Depth /\ activations'[Depth] = a
          /\ \A i \in 1 .. Depth - 1 : activations'[i] = activations[i] BY <2>2, Changed
    <3>2. \A i \in 1..Depth : i = Depth \/ i \in 1 .. Depth - 1 BY <1>1
    <3> QED BY <2>2, <3>1, <3>2 DEF Top
  <2> QED BY <2>1, <2>2
<1>3. Len(lambdaStack') = Cardinality(CallsBelow(Depth + 1)) BY <1>1 DEF Chain
<1>4. Depth \in 0..Depth BY <1>1
<1>5. \A i \in 1..Depth : activations'[i].kind # "eval-string" BY <1>2 DEF Chain
<1> QED BY <1>2, <1>3, <1>4, <1>5, ChainCut

\* The innermost function returns.
LEMMA ChainPop ==
  ASSUME TypeOK, TypeOK', Chain, Depth > 0, activations' = Callers,
         lambdaStack' = IF Top.kind = "lambda"
                          THEN SubSeq(lambdaStack, 1, Len(lambdaStack) - 1) ELSE lambdaStack
  PROVE  Chain'
<1>1. Depth \in Nat /\ CallsBelow(Depth + 1) = LambdaCalls /\ Depth \in 1..Depth BY CallSets
<1>2. Depth - 1 \in 0..Depth BY <1>1
<1>3. Depth' = Depth - 1 /\ \A i \in 1 .. Depth - 1 : activations'[i] = activations[i]
  BY <1>2, Popped DEF Callers
<1>4. \A i \in 1 .. Depth - 1 : activations'[i].kind # "eval-string" BY <1>1, <1>3 DEF Chain
<1>5. lambdaStack \in Seq(Fun) /\ Len(lambdaStack) \in Nat BY DEF TypeOK
<1>6. Len(lambdaStack) = Cardinality(LambdaCalls) /\ Cardinality(CallsBelow(Depth)) \in Nat
  BY <1>1, CallSets DEF Chain
<1>7. /\ Len(lambdaStack') = Cardinality(CallsBelow(Depth))
      /\ \A k \in 1 .. Len(lambdaStack') : lambdaStack'[k] = lambdaStack[k]
  <2>1. CASE Top.kind = "lambda"
    <3>1. Len(lambdaStack) = Cardinality(CallsBelow(Depth)) + 1
      BY <1>1, <1>6, <2>1, NextNumber DEF Top
    <3>2. Len(lambdaStack) - 1 \in 0 .. Len(lambdaStack) BY <1>5, <1>6, <3>1
    <3>3. lambdaStack' = SubSeq(lambdaStack, 1, Len(lambdaStack) - 1) BY <2>1
    <3>4. /\ Len(lambdaStack') = Len(lambdaStack) - 1
          /\ \A k \in 1 .. Len(lambdaStack) - 1 : lambdaStack'[k] = lambdaStack[k]
      BY <1>5, <3>2, <3>3, CutSeq
    <3> QED BY <1>6, <3>1, <3>4
  <2>2. CASE Top.kind # "lambda" BY <1>1, <1>6, <2>2, SameNumber DEF Top
  <2> QED BY <2>1, <2>2
<1>8. Depth - 1 + 1 = Depth BY <1>1
<1> QED BY <1>2, <1>3, <1>4, <1>7, <1>8, ChainCut

\* catch cuts lambdaStack back to what it was when it was entered.
LEMMA ChainLand ==
  ASSUME TypeOK, TypeOK', Chain, LandAtCatch
  PROVE  Chain'
<1>. DEFINE k == errorJump
<1>1. /\ Depth \in Nat /\ k \in 1..Depth /\ Target = activations[k] /\ Target.kind = "catch"
      /\ Target \in Activation
  <2>1. Depth \in Nat /\ errorJump \in 0..Depth BY CallSets DEF TypeOK
  <2>2. errorJump > 0 /\ activations[errorJump].kind = "catch" BY DEF LandAtCatch, Land
  <2>3. errorJump \in 1..Depth BY <2>1, <2>2
  <2> QED BY <2>1, <2>2, <2>3, Element DEF Target
<1>. HIDE DEF k
<1>2. lambdaStack' = SubSeq(lambdaStack, 1, Target.lam) BY DEF LandAtCatch
<1>3. Target.lam = Cardinality(CallsBelow(k)) /\ Cardinality(CallsBelow(k)) \in Nat
  <2>1. Target.lam = Cardinality(CallsBelow(k)) BY <1>1 DEF Chain
  <2>2. k \in Nat BY <1>1
  <2> QED BY <2>1, <2>2, CallSets
<1>4. Target.lam \in 0 .. Len(lambdaStack) /\ lambdaStack \in Seq(Fun)
  <2>1. CallsBelow(k) \subseteq LambdaCalls BY DEF CallsBelow
  <2>2. Cardinality(CallsBelow(k)) <= Cardinality(LambdaCalls) BY <2>1, CallSets, FS_Subset
  <2>3. Len(lambdaStack) = Cardinality(LambdaCalls) /\ Cardinality(LambdaCalls) \in Nat
    BY CallSets DEF Chain
  <2>4. lambdaStack \in Seq(Fun) BY DEF TypeOK
  <2> QED BY <1>3, <2>2, <2>3, <2>4
<1>5. /\ Len(lambdaStack') = Cardinality(CallsBelow(k))
      /\ \A i \in 1 .. Len(lambdaStack') : lambdaStack'[i] = lambdaStack[i]
  BY <1>2, <1>3, <1>4, CutSeq
<1>6. CallsBelow(k + 1) = CallsBelow(k) BY <1>1, SameNumber
<1>7. CASE activations' = SubSeq(activations, 1, k - 1)
  <2>1. k - 1 \in 0..Depth /\ k - 1 + 1 = k /\ \A i \in 1 .. k - 1 : i \in 1..Depth BY <1>1
  <2>2. Depth' = k - 1 /\ \A i \in 1 .. k - 1 : activations'[i] = activations[i]
    BY <1>7, <2>1, Popped
  <2>3. \A i \in 1 .. k - 1 : activations'[i].kind # "eval-string" BY <2>1, <2>2 DEF Chain
  <2>4. Len(lambdaStack') = Cardinality(CallsBelow(k - 1 + 1)) BY <1>5, <2>1
  <2> QED BY <1>5, <2>1, <2>2, <2>3, <2>4, ChainCut
<1>8. CASE activations' = Append(SubSeq(activations, 1, k - 1), [Target EXCEPT !.phase = "store"])
  <2>. DEFINE a == [Target EXCEPT !.phase = "store"]
  <2>1. /\ a \in Activation /\ a.kind = Target.kind /\ a.fn = Target.fn /\ a.lam = Target.lam
    BY <1>1 DEF Activation
  <2>. HIDE DEF a
  <2>2. activations' = Append(SubSeq(activations, 1, k - 1), a) BY <1>8 DEF a
  <2>3. /\ Depth' = k /\ activations'[k] = a
        /\ \A i \in 1 .. k - 1 : activations'[i] = activations[i] BY <1>1, <2>1, <2>2, Replaced
  <2>4. \A i \in 1..k : (i = k \/ i \in 1 .. k - 1) /\ i \in 1..Depth BY <1>1
  <2>5. \A i \in 1..k : /\ activations'[i].kind = activations[i].kind
                        /\ activations'[i].fn = activations[i].fn
                        /\ activations'[i].lam = activations[i].lam BY <1>1, <2>1, <2>3, <2>4
  <2>6. \A i \in 1..k : activations'[i].kind # "eval-string" BY <2>4, <2>5 DEF Chain
  <2>7. k \in 0..Depth BY <1>1
  <2> QED BY <1>5, <1>6, <2>3, <2>5, <2>6, <2>7, ChainCut
<1> QED BY <1>7, <1>8 DEF LandAtCatch, k

\* One step, by the form of what it does to the C stack.
LEMMA ChainStep ==
  ASSUME NoEvalString, IInv, IInv', Chain, [Next]_vars
  PROVE  Chain'
<1>1. TypeOK /\ TypeOK' /\ Depth \in Nat BY CallSets DEF IInv
<1>2. CASE Call
  <2>1. ASSUME NEW k \in Kinds \ {"eval-string"}, NEW ph \in {"args", "bind", "body"},
               NEW f \in Fun \cup {Null}, NEW ps \in Seq(Sym), NEW s \in Sym \cup {Null},
               Enter(Entered(k, ph, f, ps, s)),
               lambdaStack' = IF k = "lambda" THEN Append(lambdaStack, f) ELSE lambdaStack
        PROVE  Chain'
    <3>. DEFINE a == Entered(k, ph, f, ps, s)
    <3>1. a \in Activation /\ a.kind = k /\ a.fn = f /\ a.lam = Len(lambdaStack)
      BY <1>1 DEF Entered, Activation, TypeOK
    <3>2. activations' = Append(activations, a) BY <2>1 DEF Enter
    <3>. HIDE DEF a
    <3> QED BY <1>1, <2>1, <3>1, <3>2, ChainPush
  <2>2. ASSUME NEW f \in Fun, NEW ps \in Params, CallLambda(f, ps) PROVE Chain'
    <3>1. Append(ps, Args) \in Seq(Sym) BY ScopeAssumption
    <3> QED BY <2>1, <2>2, <3>1 DEF CallLambda, Kinds, Binders
  <2>3. ASSUME NEW k \in {"let", "letn", "local"}, NEW ps \in Params, CallLet(k, ps) PROVE Chain'
    <3>1. ps \in Seq(Sym) BY ScopeAssumption
    <3>. DEFINE ph == IF k = "let" THEN "args" ELSE BindPhase(0, ps)
    <3>2. ph \in {"args", "bind", "body"} /\ k # "lambda" /\ k \in Kinds \ {"eval-string"}
      BY DEF BindPhase, Kinds, Binders
    <3>3. Enter(Entered(k, ph, Null, ps, Null)) /\ lambdaStack' = lambdaStack BY <2>3 DEF CallLet
    <3>. HIDE DEF ph
    <3> QED BY <2>1, <3>1, <3>2, <3>3
  <2>4. ASSUME NEW s \in Sym, NEW ps \in {<<s>>, <<Idx>>, <<s, Idx>>}, CallLoop(ps)
        PROVE  Chain'
    <3>0. Idx \in Sym BY ScopeAssumption
    <3>1. <<s>> \in Seq(Sym) /\ <<Idx>> \in Seq(Sym) /\ <<s, Idx>> \in Seq(Sym) BY <3>0
    <3>2. ps \in Seq(Sym) BY <3>1
    <3>3. /\ "loop" \in Kinds \ {"eval-string"} /\ "bind" \in {"args", "bind", "body"}
          /\ "loop" # "lambda" BY DEF Kinds, Binders
    <3>4. Enter(Entered("loop", "bind", Null, ps, Null)) /\ lambdaStack' = lambdaStack
      BY <2>4 DEF CallLoop
    <3> QED BY <2>1, <3>2, <3>3, <3>4
  <2>5. ASSUME NEW s \in Sym \cup {Null}, CallCatch(s) PROVE Chain'
    <3>1. /\ "catch" \in Kinds \ {"eval-string"} /\ "body" \in {"args", "bind", "body"}
          /\ "catch" # "lambda" /\ <<>> \in Seq(Sym) BY DEF Kinds
    <3>2. Enter(Entered("catch", "body", Null, <<>>, s)) /\ lambdaStack' = lambdaStack
      BY <2>5 DEF CallCatch
    <3> QED BY <2>1, <3>1, <3>2
  <2>6. ASSUME NEW c \in Ctx, CallEvalString(c) \/ CallLoad(c) PROVE Chain'
    <3>1. CallLoad(c) BY <2>6 DEF CallEvalString, NoEvalString
    <3>2. /\ "load" \in Kinds \ {"eval-string"} /\ "body" \in {"args", "bind", "body"}
          /\ "load" # "lambda" /\ <<>> \in Seq(Sym) BY DEF Kinds
    <3>3. Enter(Entered("load", "body", Null, <<>>, Null)) /\ lambdaStack' = lambdaStack
      BY <3>1 DEF CallLoad
    <3> QED BY <2>1, <3>2, <3>3
  <2> QED BY <1>2, <2>2, <2>3, <2>4, <2>5, <2>6 DEF Call, Settable
<1>3. CASE \/ BeginBinding \/ ReturnCatch \/ (Depth > 0 /\ GoOn)
           \/ \E v \in Val : EvalArg(v) \/ BindNext(v)
  <2>1. Depth > 0 /\ UNCHANGED lambdaStack /\ Top \in Activation /\ activations \in Seq(Activation)
    BY <1>1, <1>3, TopElement DEF BeginBinding, ReturnCatch, GoOn, EvalArg, BindNext, Running, TypeOK
  <2>2. PICK a : activations' = WithTop(a) /\ a.kind = Top.kind /\ a.fn = Top.fn /\ a.lam = Top.lam
    <3>1. CASE BeginBinding
      <4>. DEFINE a == [Top EXCEPT !.phase = BindPhase(0, Top.params),
                               !.ctx = IF Top.kind = "lambda" THEN currentContext ELSE @]
      <4>1. activations' = WithTop(a) BY <3>1 DEF BeginBinding
      <4>2. a.kind = Top.kind /\ a.fn = Top.fn /\ a.lam = Top.lam BY <2>1 DEF Activation
      <4> QED BY <4>1, <4>2
    <3>2. CASE ReturnCatch
      <4>. DEFINE a == [Top EXCEPT !.phase = "store"]
      <4>1. activations' = WithTop(a) BY <3>2 DEF ReturnCatch
      <4>2. a.kind = Top.kind /\ a.fn = Top.fn /\ a.lam = Top.lam BY <2>1 DEF Activation
      <4> QED BY <4>1, <4>2
    <3>3. ASSUME NEW v \in Val, EvalArg(v)
          PROVE  \E a : activations' = WithTop(a) /\ a.kind = Top.kind /\ a.fn = Top.fn /\ a.lam = Top.lam
      <4>. DEFINE a == [Top EXCEPT !.args = Append(@, v)]
      <4>1. activations' = WithTop(a) BY <3>3 DEF EvalArg
      <4>2. a.kind = Top.kind /\ a.fn = Top.fn /\ a.lam = Top.lam BY <2>1 DEF Activation
      <4> QED BY <4>1, <4>2
    <3>4. ASSUME NEW v \in Val, BindNext(v)
          PROVE  \E a : activations' = WithTop(a) /\ a.kind = Top.kind /\ a.fn = Top.fn /\ a.lam = Top.lam
      <4>. DEFINE a == [Top EXCEPT !.n = @ + 1, !.phase = BindPhase(Top.n + 1, Top.params),
                               !.args = IF @ = <<>> THEN <<>> ELSE Tail(@)]
      <4>1. activations' = WithTop(a) BY <3>4 DEF BindNext
      <4>2. a.kind = Top.kind /\ a.fn = Top.fn /\ a.lam = Top.lam BY <2>1 DEF Activation
      <4> QED BY <4>1, <4>2
    <3>5. CASE GoOn
      <4>. DEFINE a == [Top EXCEPT !.n = @ + 1, !.phase = BindPhase(Top.n + 1, Top.params)]
      <4>1. activations' = WithTop(a) BY <3>5 DEF GoOn
      <4>2. a.kind = Top.kind /\ a.fn = Top.fn /\ a.lam = Top.lam BY <2>1 DEF Activation
      <4> QED BY <4>1, <4>2
    <3> QED BY <1>3, <3>1, <3>2, <3>3, <3>4, <3>5
  <2>3. a \in Activation
    <3>1. activations'[Depth] = a /\ Len(activations') = Depth
      BY <1>1, <2>1, <2>2 DEF WithTop, Depth
    <3>2. activations' \in Seq(Activation) BY <1>1 DEF TypeOK
    <3> QED BY <1>1, <2>1, <3>1, <3>2
  <2> QED BY <1>1, <2>1, <2>2, <2>3, ChainStays
<1>4. CASE Abandon /\ Depth > 0 BY <1>1, <1>4, ChainPop DEF Abandon
<1>5. CASE ReturnBinder \/ ReturnEvalString \/ ReturnLoad \/ \E v \in Val : CatchStores(v)
  <2>1. Depth > 0 /\ activations' = Callers
    BY <1>5 DEF ReturnBinder, ReturnEvalString, ReturnLoad, CatchStores, Running
  <2>2. lambdaStack' = IF Top.kind = "lambda"
                         THEN SubSeq(lambdaStack, 1, Len(lambdaStack) - 1) ELSE lambdaStack
    BY <1>5 DEF ReturnBinder, ReturnEvalString, ReturnLoad, CatchStores, Running
  <2> QED BY <1>1, <2>1, <2>2, ChainPop
<1>6. CASE LandAtMain
  <2>1. activations' = <<>> /\ lambdaStack' = <<>> BY <1>6 DEF LandAtMain
  <2>2. Depth' = 0 /\ LambdaCalls' = {} /\ Len(lambdaStack') = 0 BY <2>1 DEF Depth, LambdaCalls
  <2> QED BY <2>2, FS_EmptySet DEF Chain
<1>7. CASE LandAtCatch BY <1>1, <1>7, ChainLand
<1>8. ~LandAtEvalString
  <2>1. Land("eval-string") => errorJump \in 1..Depth BY <1>1 DEF Land, TypeOK
  <2> QED BY <2>1 DEF LandAtEvalString, Land, Chain
<1>9. CASE UNCHANGED <<activations, lambdaStack>> BY <1>1, <1>9, ChainStays
<1>10. CASE BindFails \/ NoList BY <1>3, <1>4, <1>9, <1>10 DEF BindFails, NoList, Running
<1>11. CASE LandAtLoad \/ Underflow \/ RaiseError \/ Throw \/ UNCHANGED vars
  BY <1>9, <1>11 DEF LandAtLoad, Underflow, RaiseError, Throw, Jump, vars
<1>12. CASE \/ \E v \in Val : LoopStep(v)
            \/ \E s \in Sym, v \in Val : SetVar(s, v)
            \/ \E on \in BOOLEAN : Trace(on)
            \/ \E c \in Ctx : SwitchContext(c) \/ LoadFails(c)
  BY <1>9, <1>12 DEF LoopStep, SetVar, Trace, SwitchContext, LoadFails
<1> QED BY <1>2, <1>3, <1>5, <1>6, <1>7, <1>8, <1>10, <1>11, <1>12 DEF Next, Return, Landing

\* Chain holds at the start.
LEMMA ChainInit == Init => Chain
<1>. SUFFICES ASSUME Init PROVE Chain OBVIOUS
<1>1. Depth = 0 /\ LambdaCalls = {} /\ Len(lambdaStack) = 0 BY DEF Init, Depth, LambdaCalls
<1> QED BY <1>1, FS_EmptySet DEF Chain

\* A lambda's number, counting itself, is where Chain says its function is.
LEMMA ChainIsHistory == ASSUME TypeOK, Chain PROVE HistoryIsCallChain
<1>1. Len(lambdaStack) = Cardinality(LambdaCalls) BY DEF Chain
<1>2. ASSUME NEW i \in LambdaCalls PROVE lambdaStack[CallNumber(i)] = activations[i].fn
  <2>1. /\ i \in 1..Depth /\ i \in Nat /\ activations[i].kind = "lambda"
        /\ \A k \in LambdaCalls : k \in Nat BY CallSets
  <2>2. \A k \in LambdaCalls : k <= i <=> k < i + 1 BY <2>1
  <2>3. CallNumber(i) = Cardinality(CallsBelow(i + 1)) BY <2>2 DEF CallNumber, CallsBelow
  <2>4. CallNumber(i) = activations[i].lam + 1 BY <2>1, <2>3, NextNumber DEF Chain
  <2> QED BY <2>4 DEF Chain
<1> QED BY <1>1, <1>2 DEF HistoryIsCallChain

----------------------------------------
(* Theorems. *)
\* The inductive invariant holds in every state.
THEOREM Invariance == Spec => []IInv
<1>1. IInv /\ [Next]_vars => IInv' BY StepInv
<1> QED BY InitInv, <1>1, PTL DEF Spec

\* The variables have their types: no counter of calls and catches becomes
\* negative, and envStack is popped below its bottom only after a loop went on,
\* in trace mode, with a variable it had not bound (evaluateLambda, p_catch, loop).
THEOREM TypesKept == Spec => []TypeOK
<1>1. IInv => TypeOK BY DEF IInv
<1> QED BY Invariance, <1>1, PTL

\* A throw always lands at a catch or at eval-string, never at top level.
THEOREM ThrowsAreCaught == Spec => []ThrowHasCatcher
<1>1. IInv => ThrowHasCatcher BY CaughtLemma
<1> QED BY Invariance, <1>1, PTL

\* history shows the functions being called, in every program that does not
\* use eval-string's handler (evaluateLambda, p_history, p_catch).
THEOREM HistoriesMatch == ASSUME NoEvalString PROVE Spec => []HistoryIsCallChain
<1>1. IInv /\ IInv' /\ Chain /\ [Next]_vars => Chain' BY ChainStep
<1>2. IInv /\ Chain => HistoryIsCallChain BY ChainIsHistory DEF IInv
<1> QED BY Invariance, ChainInit, <1>1, <1>2, PTL DEF Spec

\* A function that returns leaves environment stack, recursion count, context
\* and handler as it found them, whatever was thrown and caught below it
\* (evaluateLambda, let, loop, p_catch, sysEvalString, loadFile).
THEOREM ReturnsBalanced == ASSUME NoTrace PROVE Spec => Balanced
<1>. DEFINE Restored == /\ Len(envStack') = Top.env /\ recursionCount' = Top.rec
                        /\ SavesContext(Top) \/ "context" \notin Features => currentContext' = Top.ctx
                        /\ errorJump' = Top.jmp
<1>1. ASSUME IInv, Next, jump = Null, Depth > 0, activations' = Callers PROVE Restored
  <2>1. TypeOK /\ activations \in Seq(Activation) /\ Depth \in Nat BY <1>1 DEF IInv, TypeOK, Depth
  <2>2. Len(activations') = Depth - 1
    <3>1. Depth - 1 \in 0 .. Len(activations) BY <1>1, <2>1 DEF Depth
    <3> QED BY <1>1, <2>1, <3>1, CutSeq DEF Callers
  <2>3. \A a : activations' # Append(activations, a) BY <1>1, <2>1, <2>2 DEF Depth
  <2>4. \A a : activations' # WithTop(a) BY <1>1, <2>1, <2>2 DEF Depth, WithTop
  <2>5. activations' # activations BY <2>1, <2>2 DEF Depth
  <2>6. ~Abandon /\ ~GoOn BY <1>1 DEF IInv, Shape, Abandon, GoOn
  <2>12. "context" \notin Features => Steady BY DEF Steady
  <2>7. ~Call
    BY <2>3 DEF Call, CallLambda, CallLet, CallLoop, CallCatch, CallEvalString, CallLoad, Enter
  <2>8. ~BeginBinding /\ ~ReturnCatch /\ \A v \in Val : ~EvalArg(v) /\ ~BindNext(v)
    BY <2>4 DEF BeginBinding, ReturnCatch, EvalArg, BindNext
  <2>9. /\ ~BindFails /\ ~NoList /\ ~RaiseError /\ ~Throw /\ ~Underflow
        /\ \A v \in Val : ~LoopStep(v) /\ \A s \in Sym : ~SetVar(s, v)
        /\ \A on \in BOOLEAN : ~Trace(on)
        /\ \A c \in Ctx : ~SwitchContext(c) /\ ~LoadFails(c)
    BY <2>5, <2>6 DEF SwitchContext, LoadFails, BindFails, NoList, RaiseError, Throw, Jump, LoopStep,
                      SetVar, Trace, Underflow
  <2>10. ~Landing BY <1>1, ScopeAssumption
       DEF Landing, LandAtLoad, LandAtCatch, LandAtEvalString, LandAtMain, Land, Jumping
  <2>11. ReturnBinder \/ ReturnEvalString \/ ReturnLoad \/ \E v \in Val : CatchStores(v)
    BY <1>1, <2>7, <2>8, <2>9, <2>10 DEF Next, Return
  <2> QED BY <1>1, <2>11, <2>12, ReturnBinderInv, ReturnHandlerInv
<1>2. IInv /\ [Next]_vars => [jump = Null /\ Depth > 0 /\ activations' = Callers => Restored]_vars
  BY <1>1
<1> QED BY Invariance, <1>2, PTL DEF Spec, Balanced
----------------------------------------
(* Shallow binding implements deep binding: seen as a stack of bindings, *)
(* what symbols and envStack hold changes as DeepBinding says.  Again for *)
(* programs that do not switch on trace mode, for all constants. *)
Entry == [sym : Sym, saved : Val]
----------------------------------------
(* What a variable has once envStack is popped to depth d, under the three *)
(* changes of envStack and contents. *)
LEMMA LowestUnique ==
  ASSUME NEW S \in SUBSET Nat, NEW j \in S, \A i \in S : j <= i
  PROVE  Lowest(S) = j
<1>1. Lowest(S) \in S /\ \A i \in S : Lowest(S) <= i BY LowestIsLeast
<1>2. Lowest(S) \in Nat /\ j \in Nat /\ Lowest(S) <= j /\ j <= Lowest(S) BY <1>1
<1> QED BY <1>2

\* The entries of a variable above depth d are numbered, and there is a first one.
LEMMA AboveFacts ==
  ASSUME TypeOK, NEW d \in Nat, NEW s
  PROVE  /\ Above(d, s) \in SUBSET Nat
         /\ Above(d, s) # {} => /\ Lowest(Above(d, s)) \in Above(d, s)
                                /\ \A i \in Above(d, s) : Lowest(Above(d, s)) <= i
<1>1. Above(d, s) \in SUBSET Nat BY DEF Above, TypeOK
<1> QED BY <1>1, LowestIsLeast

\* envStack's entries.
LEMMA Entries ==
  ASSUME TypeOK
  PROVE  /\ envStack \in Seq(Entry) /\ Len(envStack) \in Nat
         /\ \A i \in 1 .. Len(envStack) : envStack[i] \in Entry /\ envStack[i].sym \in Sym
<1>1. envStack \in Seq(Entry) BY DEF TypeOK, Entry
<1>2. \A i \in 1 .. Len(envStack) : envStack[i] \in Entry BY <1>1
<1>3. \A e \in Entry : e.sym \in Sym BY DEF Entry
<1> QED BY <1>1, <1>2, <1>3

\* Saving a variable and giving it a new value leaves what is below as it was.
LEMMA PushUndone ==
  ASSUME TypeOK, NEW s \in Sym, NEW v \in Val,
         envStack' = Append(envStack, [sym |-> s, saved |-> contents[s]]),
         contents' = [contents EXCEPT ![s] = v],
         NEW d \in 0 .. Len(envStack), NEW t \in Sym
  PROVE  Undone(d, t)' = Undone(d, t)
<1>. DEFINE L == Len(envStack)
            e == [sym |-> s, saved |-> contents[s]]
<1>1. /\ envStack \in Seq(Entry) /\ L \in Nat /\ contents \in [Sym -> Val]
      /\ d \in Nat BY Entries DEF TypeOK
<1>2. e \in Entry /\ e.sym = s /\ e.saved = contents[s] BY <1>1 DEF Entry
<1>. HIDE DEF e
<1>3. /\ Len(envStack') = L + 1 /\ envStack'[L + 1] = e
      /\ \A i \in 1..L : envStack'[i] = envStack[i] BY <1>1, <1>2 DEF e
<1>4. Above(d, t)' = Above(d, t) \cup (IF t = s THEN {L + 1} ELSE {})
  BY <1>1, <1>2, <1>3 DEF Above
<1>5. CASE Above(d, t) # {}
  <2>. DEFINE j == Lowest(Above(d, t))
  <2>1. j \in Above(d, t) /\ (\A i \in Above(d, t) : j <= i) /\ Above(d, t) \in SUBSET Nat
    BY <1>1, <1>5, AboveFacts
  <2>2. j \in 1..L BY <1>1, <2>1 DEF Above
  <2>. HIDE DEF j
  <2>3. Lowest(Above(d, t)') = j
    <3>1. Above(d, t)' \in SUBSET Nat /\ j \in Above(d, t)' /\ \A i \in Above(d, t)' : j <= i
      BY <1>1, <1>4, <2>1, <2>2
    <3> QED BY <3>1, LowestUnique
  <2>4. Undone(d, t)' = envStack'[j].saved BY <1>4, <1>5, <2>3 DEF Undone
  <2>5. Undone(d, t) = envStack[j].saved BY <1>5 DEF Undone, j
  <2> QED BY <1>3, <2>2, <2>4, <2>5
<1>6. CASE Above(d, t) = {} /\ t = s
  <2>1. Above(d, t)' = {L + 1} BY <1>4, <1>6
  <2>2. Lowest(Above(d, t)') = L + 1 BY <1>1, <2>1, LowestUnique
  <2>3. Undone(d, t)' = envStack'[L + 1].saved BY <2>1, <2>2 DEF Undone
  <2> QED BY <1>2, <1>3, <1>6, <2>3 DEF Undone
<1>7. CASE Above(d, t) = {} /\ t # s
  <2>1. Above(d, t)' = {} BY <1>4, <1>7
  <2> QED BY <1>1, <1>7, <2>1 DEF Undone
<1> QED BY <1>5, <1>6, <1>7

\* An assignment is seen where nothing above hides it.
LEMMA AssignUndone ==
  ASSUME TypeOK, NEW s \in Sym, NEW v \in Val,
         envStack' = envStack, contents' = [contents EXCEPT ![s] = v],
         NEW d \in Nat, NEW t \in Sym
  PROVE  Undone(d, t)' = IF Above(d, t) = {} /\ t = s THEN v ELSE Undone(d, t)
<1>1. Above(d, t)' = Above(d, t) BY DEF Above
<1>2. contents'[t] = IF t = s THEN v ELSE contents[t] BY DEF TypeOK
<1> QED BY <1>1, <1>2 DEF Undone

\* Popping to depth d leaves what is below as it was.
LEMMA CutUndone ==
  ASSUME TypeOK, NEW d \in 0 .. Len(envStack), UndoTo(d),
         NEW k \in 0..d, NEW t \in Sym
  PROVE  Undone(k, t)' = Undone(k, t)
<1>1. /\ envStack \in Seq(Entry) /\ Len(envStack) \in Nat /\ d \in Nat /\ k \in Nat
      /\ contents' = [s \in Sym |-> Undone(d, s)] BY Entries DEF UndoTo
<1>0. envStack' = SubSeq(envStack, 1, d) BY <1>1 DEF UndoTo, Lower
<1>2. Len(envStack') = d /\ \A i \in 1..d : envStack'[i] = envStack[i] BY <1>0, <1>1, CutSeq
<1>3. Above(k, t)' = Above(k, t) \cap (1..d) BY <1>1, <1>2 DEF Above
<1>4. CASE Above(k, t)' # {}
  <2>. DEFINE j == Lowest(Above(k, t))
  <2>1. /\ Above(k, t) # {} /\ Above(k, t) \in SUBSET Nat
        /\ j \in Above(k, t) /\ \A i \in Above(k, t) : j <= i BY <1>1, <1>3, <1>4, AboveFacts
  <2>2. j \in 1..d /\ j \in Above(k, t)'
    <3>1. PICK i \in Above(k, t) : i \in 1..d BY <1>3, <1>4
    <3>2. j <= i /\ j \in k + 1 .. Len(envStack) BY <2>1, <3>1 DEF Above
    <3>3. j \in 1..d BY <1>1, <3>1, <3>2
    <3> QED BY <1>3, <2>1, <3>3
  <2>3. Undone(k, t) = envStack[j].saved BY <2>1 DEF Undone
  <2>. HIDE DEF j
  <2>4. Lowest(Above(k, t)') = j
    <3>1. Above(k, t)' \in SUBSET Nat /\ \A i \in Above(k, t)' : j <= i BY <1>3, <2>1
    <3> QED BY <2>2, <3>1, LowestUnique
  <2>5. Undone(k, t)' = envStack'[j].saved BY <1>4, <2>4 DEF Undone
  <2> QED BY <1>2, <2>2, <2>3, <2>5
<1>5. CASE Above(k, t)' = {}
  <2>1. Above(k, t) = Above(d, t) BY <1>1, <1>3, <1>5 DEF Above
  <2>2. Undone(k, t) = Undone(d, t) BY <2>1 DEF Undone
  <2>3. Undone(k, t)' = contents'[t] BY <1>5 DEF Undone
  <2> QED BY <1>1, <2>2, <2>3
<1> QED BY <1>4, <1>5
----------------------------------------
(* The mapped state under the same changes. *)
\* The mapped state: every binding has the value that popping to it would give.
LEMMA DeepTypes ==
  ASSUME TypeOK
  PROVE  /\ GlobalValues \in [Sym -> Val]
         /\ DeepBindings \in Seq(Deep!Binding) /\ Len(DeepBindings) = Len(envStack)
         /\ DOMAIN DeepBindings = 1 .. Len(envStack)
         /\ \A k \in 1 .. Len(envStack) :
              DeepBindings[k] = [sym |-> envStack[k].sym, val |-> Undone(k, envStack[k].sym)]
<1>1. envStack \in Seq(Entry) /\ Len(envStack) \in Nat /\ DOMAIN envStack = 1 .. Len(envStack)
  BY Entries
<1>2. \A k \in 1 .. Len(envStack) :
        [sym |-> envStack[k].sym, val |-> Undone(k, envStack[k].sym)] \in Deep!Binding
  BY <1>1, Entries, UndoneIsValue DEF Deep!Binding
<1>3. DeepBindings \in [1 .. Len(envStack) -> Deep!Binding] BY <1>1, <1>2 DEF DeepBindings
<1>4. DeepBindings \in Seq(Deep!Binding) /\ Len(DeepBindings) = Len(envStack) BY <1>1, <1>3
<1>5. GlobalValues \in [Sym -> Val] BY UndoneIsValue DEF GlobalValues
<1> QED BY <1>1, <1>3, <1>4, <1>5 DEF DeepBindings

\* A sequence with one more element.
LEMMA ExtendedSeq ==
  ASSUME NEW T, NEW q \in Seq(T), NEW x \in T, NEW r, DOMAIN r = 1 .. Len(q) + 1,
         r = [k \in DOMAIN r |-> r[k]],
         \A k \in 1 .. Len(q) : r[k] = q[k], r[Len(q) + 1] = x
  PROVE  r = Append(q, x)
<1>1. /\ Append(q, x) \in Seq(T) /\ Len(Append(q, x)) = Len(q) + 1 /\ Len(q) \in Nat
      /\ Append(q, x)[Len(q) + 1] = x /\ \A k \in 1 .. Len(q) : Append(q, x)[k] = q[k] OBVIOUS
<1>2. \A k \in 1 .. Len(q) + 1 : r[k] = Append(q, x)[k] /\ r[k] \in T BY <1>1
<1>3. r \in Seq(T) /\ Len(r) = Len(q) + 1
  <2>1. r \in [1 .. Len(q) + 1 -> T] BY <1>2
  <2> QED BY <1>1, <2>1
<1> QED BY <1>1, <1>2, <1>3, SeqEqual

\* Saving a variable and giving it a new value is a new binding.
LEMMA PushDeep ==
  ASSUME TypeOK, NEW s \in Sym, NEW v \in Val,
         envStack' = Append(envStack, [sym |-> s, saved |-> contents[s]]),
         contents' = [contents EXCEPT ![s] = v]
  PROVE  /\ GlobalValues' = GlobalValues
         /\ DeepBindings' = Append(DeepBindings, [sym |-> s, val |-> v])
<1>. DEFINE L == Len(envStack)
            e == [sym |-> s, saved |-> contents[s]]
            b == [sym |-> s, val |-> v]
<1>1. envStack \in Seq(Entry) /\ L \in Nat /\ e \in Entry /\ e.sym = s
  BY Entries DEF TypeOK, Entry
<1>2. /\ Len(envStack') = L + 1 /\ DOMAIN envStack' = 1 .. L + 1
      /\ envStack'[L + 1].sym = s /\ \A i \in 1..L : envStack'[i] = envStack[i] BY <1>1
<1>3. \A d \in 0..L : \A t \in Sym : Undone(d, t)' = Undone(d, t) BY PushUndone
<1>4. GlobalValues' = GlobalValues BY <1>1, <1>3 DEF GlobalValues
<1>5. ASSUME NEW k, k = L + 1 PROVE Undone(k, s)' = v
  <2>1. Above(k, s)' = {} BY <1>1, <1>2, <1>5 DEF Above
  <2>2. contents'[s] = v BY DEF TypeOK
  <2> QED BY <2>1, <2>2 DEF Undone
<1>6. /\ DeepBindings \in Seq(Deep!Binding) /\ Len(DeepBindings) = L
      /\ \A k \in 1..L : DeepBindings[k] = [sym |-> envStack[k].sym, val |-> Undone(k, envStack[k].sym)]
  BY DeepTypes
<1>7. /\ DOMAIN DeepBindings' = 1 .. L + 1
      /\ DeepBindings' = [k \in DOMAIN DeepBindings' |-> DeepBindings'[k]]
      /\ \A k \in 1 .. L + 1 :
           DeepBindings'[k] = [sym |-> envStack'[k].sym, val |-> Undone(k, envStack[k].sym)']
  BY <1>2 DEF DeepBindings
<1>8. \A k \in 1..L : DeepBindings'[k] = DeepBindings[k]
  <2>. SUFFICES ASSUME NEW k \in 1..L PROVE DeepBindings'[k] = DeepBindings[k] OBVIOUS
  <2>1. envStack'[k].sym = envStack[k].sym /\ envStack[k].sym \in Sym /\ k \in 0..L /\ k \in 1 .. L + 1
    BY <1>1, <1>2, Entries
  <2> QED BY <1>3, <1>6, <1>7, <2>1
<1>9. DeepBindings'[L + 1] = b
  <2>. SUFFICES ASSUME NEW k, k = L + 1 PROVE DeepBindings'[k] = b OBVIOUS
  <2>1. k \in 1 .. L + 1 /\ envStack'[k].sym = s BY <1>1, <1>2
  <2>2. Undone(k, s)' = v BY <1>5
  <2> QED BY <1>7, <2>1, <2>2
<1>10. b \in Deep!Binding BY DEF Deep!Binding
<1> QED BY <1>1, <1>4, <1>6, <1>7, <1>8, <1>9, <1>10, ExtendedSeq

\* An assignment goes to the innermost binding, or to the global value.
LEMMA AssignDeep ==
  ASSUME TypeOK, NEW s \in Sym, NEW v \in Val,
         envStack' = envStack, contents' = [contents EXCEPT ![s] = v]
  PROVE  /\ GlobalValues' = Deep!AssignedBase(s, v)
         /\ DeepBindings' = Deep!Assigned(s, v)
<1>. DEFINE L == Len(envStack)
<1>1. /\ L \in Nat /\ DOMAIN envStack = 1..L
      /\ \A k \in 1..L : envStack[k].sym \in Sym BY Entries
<1>2. \A d \in Nat : \A t \in Sym :
        Undone(d, t)' = IF Above(d, t) = {} /\ t = s THEN v ELSE Undone(d, t) BY AssignUndone
<1>3. /\ DOMAIN DeepBindings = 1..L /\ GlobalValues \in [Sym -> Val]
      /\ \A k \in 1..L : DeepBindings[k] = [sym |-> envStack[k].sym, val |-> Undone(k, envStack[k].sym)]
  BY DeepTypes
<1>4. \A k \in 1..L : DeepBindings[k].sym = envStack[k].sym BY <1>3
<1>5. GlobalValues' = Deep!AssignedBase(s, v)
  <2>1. Deep!BindingsOf(s) = Above(0, s) BY <1>1, <1>3, <1>4 DEF Deep!BindingsOf, Above
  <2>2. \A t \in Sym : GlobalValues[t] = Undone(0, t) BY DEF GlobalValues
  <2>3. GlobalValues' = [t \in Sym |-> IF Above(0, t) = {} /\ t = s THEN v ELSE GlobalValues[t]]
    BY <1>2, <2>2 DEF GlobalValues
  <2>4. CASE Above(0, s) = {}
    <3>1. Deep!AssignedBase(s, v) = [GlobalValues EXCEPT ![s] = v]
      BY <2>1, <2>4 DEF Deep!AssignedBase
    <3> QED BY <1>3, <2>3, <2>4, <3>1
  <2>5. CASE Above(0, s) # {}
    <3>1. Deep!AssignedBase(s, v) = GlobalValues BY <2>1, <2>5 DEF Deep!AssignedBase
    <3> QED BY <1>3, <2>3, <2>5, <3>1
  <2> QED BY <2>4, <2>5
<1>6. DeepBindings' = Deep!Assigned(s, v)
  <2>1. \A k \in 1..L : Deep!Topmost(k) <=> Above(k, envStack[k].sym) = {}
    <3>. SUFFICES ASSUME NEW k \in 1..L
                  PROVE  Deep!Topmost(k) <=> Above(k, envStack[k].sym) = {} OBVIOUS
    <3>1. Deep!Topmost(k) <=> \A j \in 1..L : envStack[j].sym = envStack[k].sym => j <= k
      BY <1>3, <1>4 DEF Deep!Topmost
    <3> QED BY <1>1, <3>1 DEF Above
  <2>2. DeepBindings' = [k \in 1..L |->
          [sym |-> envStack[k].sym,
           val |-> IF Above(k, envStack[k].sym) = {} /\ envStack[k].sym = s
                     THEN v ELSE Undone(k, envStack[k].sym)]]
    <3>1. DeepBindings' = [k \in 1..L |-> [sym |-> envStack'[k].sym, val |-> Undone(k, envStack[k].sym)']]
      BY <1>1 DEF DeepBindings
    <3>2. ASSUME NEW k \in 1..L
          PROVE  Undone(k, envStack[k].sym)' =
                   IF Above(k, envStack[k].sym) = {} /\ envStack[k].sym = s
                     THEN v ELSE Undone(k, envStack[k].sym) BY <1>1, <1>2
    <3> QED BY <3>1, <3>2
  <2>3. Deep!Assigned(s, v) = [k \in 1..L |->
          IF envStack[k].sym = s /\ Above(k, envStack[k].sym) = {}
            THEN [sym |-> s, val |-> v]
            ELSE [sym |-> envStack[k].sym, val |-> Undone(k, envStack[k].sym)]]
    BY <1>3, <1>4, <2>1 DEF Deep!Assigned
  <2> QED BY <2>2, <2>3
<1> QED BY <1>5, <1>6

\* Popping to depth d removes the bindings above it.
LEMMA CutDeep ==
  ASSUME TypeOK, NEW d \in 0 .. Len(envStack), UndoTo(d)
  PROVE  /\ GlobalValues' = GlobalValues
         /\ DeepBindings' = SubSeq(DeepBindings, 1, d)
<1>1. /\ envStack \in Seq(Entry) /\ Len(envStack) \in Nat /\ d \in Nat
      /\ \A k \in 1 .. Len(envStack) : envStack[k].sym \in Sym BY Entries
<1>0. envStack' = SubSeq(envStack, 1, d) BY <1>1 DEF UndoTo, Lower
<1>2. /\ Len(envStack') = d /\ DOMAIN envStack' = 1..d
      /\ \A i \in 1..d : envStack'[i] = envStack[i] BY <1>0, <1>1, CutSeq
<1>3. \A k \in 0..d : \A t \in Sym : Undone(k, t)' = Undone(k, t) BY CutUndone
<1>4. GlobalValues' = GlobalValues BY <1>1, <1>3 DEF GlobalValues
<1>5. /\ DeepBindings \in Seq(Deep!Binding) /\ Len(DeepBindings) = Len(envStack)
      /\ \A k \in 1 .. Len(envStack) :
           DeepBindings[k] = [sym |-> envStack[k].sym, val |-> Undone(k, envStack[k].sym)]
  BY DeepTypes
<1>6. /\ SubSeq(DeepBindings, 1, d) \in Seq(Deep!Binding) /\ Len(SubSeq(DeepBindings, 1, d)) = d
      /\ \A k \in 1..d : SubSeq(DeepBindings, 1, d)[k] = DeepBindings[k] BY <1>5, CutSeq
<1>7. DeepBindings' = [k \in 1..d |-> DeepBindings[k]]
  <2>1. DeepBindings' = [k \in 1..d |-> [sym |-> envStack'[k].sym, val |-> Undone(k, envStack[k].sym)']]
    BY <1>2 DEF DeepBindings
  <2>2. ASSUME NEW k \in 1..d
        PROVE  [sym |-> envStack'[k].sym, val |-> Undone(k, envStack[k].sym)'] = DeepBindings[k]
    BY <1>1, <1>2, <1>3, <1>5
  <2> QED BY <2>1, <2>2
<1>8. \A k \in 1..d : DeepBindings[k] \in Deep!Binding BY <1>1, <1>5
<1>9. DeepBindings' \in Seq(Deep!Binding) /\ Len(DeepBindings') = d
  <2>1. DeepBindings' \in [1..d -> Deep!Binding] BY <1>7, <1>8
  <2> QED BY <1>1, <2>1
<1>10. \A k \in 1..d : DeepBindings'[k] = SubSeq(DeepBindings, 1, d)[k] BY <1>6, <1>7
<1> QED BY <1>4, <1>6, <1>9, <1>10, SeqEqual
----------------------------------------
(* The activations' marks. *)
\* The marks of a sequence of activations.
LEMMA MarkTypes ==
  ASSUME NEW q \in Seq(Activation)
  PROVE  LET m == [i \in DOMAIN q |-> q[i].env] IN
         m \in Seq(Nat) /\ Len(m) = Len(q) /\ \A i \in 1 .. Len(q) : m[i] = q[i].env
<1>. DEFINE m == [i \in DOMAIN q |-> q[i].env]
<1>1. DOMAIN q = 1 .. Len(q) /\ Len(q) \in Nat /\ \A i \in 1 .. Len(q) : q[i] \in Activation
  OBVIOUS
<1>2. \A i \in 1 .. Len(q) : q[i].env \in Nat BY <1>1, Fields
<1>3. m \in [1 .. Len(q) -> Nat] BY <1>1, <1>2
<1>4. m \in Seq(Nat) /\ Len(m) = Len(q) BY <1>1, <1>3
<1> QED BY <1>1, <1>4

\* The marks before a step.
LEMMA MarksAre ==
  ASSUME TypeOK
  PROVE  /\ Marks \in Seq(Nat) /\ Len(Marks) = Depth /\ Depth \in Nat
         /\ \A i \in 1..Depth : Marks[i] = activations[i].env
<1>1. activations \in Seq(Activation) BY DEF TypeOK
<1> QED BY <1>1, MarkTypes DEF Marks, Depth

\* The marks after it.
LEMMA MarksNext ==
  ASSUME activations' \in Seq(Activation)
  PROVE  /\ Marks' \in Seq(Nat) /\ Len(Marks') = Depth' /\ Depth' \in Nat
         /\ \A i \in 1..Depth' : Marks'[i] = activations'[i].env
BY MarkTypes DEF Marks, Depth

\* The mapped values are functions of the variables they mention.
LEMMA ValuesStay ==
  ASSUME UNCHANGED <<contents, envStack>>
  PROVE  GlobalValues' = GlobalValues /\ DeepBindings' = DeepBindings
BY DEF GlobalValues, DeepBindings, Undone, Above

\* Marks that no step changes.
LEMMA MarksStay ==
  ASSUME TypeOK, activations' \in Seq(Activation), Depth' = Depth,
         \A i \in 1..Depth : activations'[i].env = activations[i].env
  PROVE  Marks' = Marks
BY MarksAre, MarksNext, SeqEqual

\* Marks of the activations up to n.
LEMMA MarksCut ==
  ASSUME TypeOK, activations' \in Seq(Activation), NEW n \in 0..Depth, Depth' = n,
         \A i \in 1..n : activations'[i].env = activations[i].env
  PROVE  Marks' = SubSeq(Marks, 1, n)
<1>1. /\ Marks \in Seq(Nat) /\ Len(Marks) = Depth /\ Depth \in Nat /\ n \in Nat
      /\ \A i \in 1..Depth : Marks[i] = activations[i].env BY MarksAre
<1>2. /\ SubSeq(Marks, 1, n) \in Seq(Nat) /\ Len(SubSeq(Marks, 1, n)) = n
      /\ \A i \in 1..n : SubSeq(Marks, 1, n)[i] = Marks[i] BY <1>1, CutSeq
<1>3. /\ Marks' \in Seq(Nat) /\ Len(Marks') = n
      /\ \A i \in 1..n : Marks'[i] = activations'[i].env BY MarksNext
<1>4. \A i \in 1..n : Marks'[i] = SubSeq(Marks, 1, n)[i] BY <1>1, <1>2, <1>3
<1> QED BY <1>2, <1>3, <1>4, SeqEqual

\* The activations up to n stay, the values are cut at the mark of the next.
LEMMA LeaveStep ==
  ASSUME TypeOK, NEW n \in 0 .. Depth - 1, activations' \in Seq(Activation), Depth' = n,
         \A i \in 1..n : activations'[i].env = activations[i].env,
         \/ UndoTo(activations[n + 1].env) /\ activations[n + 1].env \in 0 .. Len(envStack)
         \/ UNCHANGED <<contents, envStack>> /\ activations[n + 1].env = Len(envStack)
  PROVE  Deep!Leave(n) /\ n \in 0 .. Len(Marks) - 1
<1>1. Depth \in Nat /\ Len(Marks) = Depth /\ Marks[n + 1] = activations[n + 1].env BY MarksAre
<1>2. Marks' = SubSeq(Marks, 1, n) BY <1>1, MarksCut
<1>3. GlobalValues' = GlobalValues /\ DeepBindings' = SubSeq(DeepBindings, 1, activations[n + 1].env)
  <2>1. CASE UndoTo(activations[n + 1].env) /\ activations[n + 1].env \in 0 .. Len(envStack)
    BY <2>1, CutDeep
  <2>2. CASE UNCHANGED <<contents, envStack>> /\ activations[n + 1].env = Len(envStack)
    BY <2>2, ValuesStay, DeepTypes, SubSeqFull
  <2> QED BY <2>1, <2>2
<1> QED BY <1>1, <1>2, <1>3 DEF Deep!Leave

\* Undoing nothing.
LEMMA StayStep ==
  ASSUME TypeOK, activations' \in Seq(Activation), Depth' = Depth,
         \A i \in 1..Depth : activations'[i].env = activations[i].env,
         UndoTo(Len(envStack)) \/ UNCHANGED <<contents, envStack>>
  PROVE  UNCHANGED Deep!vars
<1>1. Len(envStack) \in 0 .. Len(envStack) BY Entries
<1>2. GlobalValues' = GlobalValues /\ DeepBindings' = DeepBindings
  <2>1. CASE UndoTo(Len(envStack)) BY <1>1, <2>1, CutDeep, DeepTypes, SubSeqFull
  <2>2. CASE UNCHANGED <<contents, envStack>> BY <2>2, ValuesStay
  <2> QED BY <2>1, <2>2
<1> QED BY <1>2, MarksStay DEF Deep!vars
----------------------------------------
(* The steps. *)
\* A call enters a function.
LEMMA CallDeep == ASSUME IInv, Call PROVE Deep!Enter
<1>1. PICK k, ph, f, ps, s :
        /\ Entered(k, ph, f, ps, s).env = Len(envStack)
        /\ activations' = Append(activations, Entered(k, ph, f, ps, s))
        /\ UNCHANGED <<contents, envStack>>
  BY DEF Call, CallLambda, CallLet, CallLoop, CallCatch, CallEvalString, CallLoad, Enter, Entered
<1>. DEFINE a == Entered(k, ph, f, ps, s)
<1>2. TypeOK /\ activations \in Seq(Activation) /\ activations' \in Seq(Activation)
  BY CallInv DEF IInv, TypeOK
<1>. HIDE DEF a
<1>3. /\ Depth' = Depth + 1 /\ Depth \in Nat
      /\ activations'[Depth + 1] = a /\ \A i \in 1..Depth : activations'[i] = activations[i]
  BY <1>1, <1>2 DEF Depth, a
<1>4. /\ Marks \in Seq(Nat) /\ Len(Marks) = Depth
      /\ \A i \in 1..Depth : Marks[i] = activations[i].env BY <1>2, MarksAre
<1>5. /\ Marks' \in Seq(Nat) /\ Len(Marks') = Depth + 1
      /\ \A i \in 1 .. Depth + 1 : Marks'[i] = activations'[i].env BY <1>2, <1>3, MarksNext
<1>6. Marks' = Append(Marks, Len(envStack))
  <2>1. Len(envStack) \in Nat /\ a.env = Len(envStack) BY <1>1, <1>2, Entries DEF a
  <2>2. /\ Append(Marks, Len(envStack)) \in Seq(Nat)
        /\ Len(Append(Marks, Len(envStack))) = Depth + 1
        /\ Append(Marks, Len(envStack))[Depth + 1] = Len(envStack)
        /\ \A i \in 1..Depth : Append(Marks, Len(envStack))[i] = Marks[i] BY <1>4, <2>1
  <2>3. ASSUME NEW i \in 1..Depth PROVE Marks'[i] = Append(Marks, Len(envStack))[i]
    <3>1. i \in 1 .. Depth + 1 /\ activations'[i] = activations[i] BY <1>3
    <3>2. Marks'[i] = activations'[i].env /\ Marks[i] = activations[i].env BY <1>4, <1>5, <3>1
    <3> QED BY <2>2, <3>1, <3>2
  <2>4. Marks'[Depth + 1] = Append(Marks, Len(envStack))[Depth + 1] BY <1>3, <1>5, <2>1, <2>2
  <2>5. \A i \in 1 .. Depth + 1 : i \in 1..Depth \/ i = Depth + 1 BY <1>3
  <2>6. \A i \in 1 .. Depth + 1 : Marks'[i] = Append(Marks, Len(envStack))[i] BY <2>3, <2>4, <2>5
  <2> QED BY <1>5, <2>2, <2>6, SeqEqual
<1> QED BY <1>1, <1>2, <1>6, ValuesStay, DeepTypes DEF Deep!Enter

\* The running function goes on; the marks are as they were.
LEMMA OnMarks ==
  ASSUME TypeOK, TypeOK', Depth > 0, NEW a, activations' = WithTop(a), a.env = Top.env
  PROVE  /\ activations' \in Seq(Activation) /\ Depth' = Depth
         /\ \A i \in 1..Depth : activations'[i].env = activations[i].env
BY DEF TypeOK, Depth, Top, WithTop

\* Evaluating an argument changes no binding.
LEMMA OnDeep ==
  ASSUME IInv, IInv', BeginBinding \/ ReturnCatch \/ \E v \in Val : EvalArg(v)
  PROVE  UNCHANGED Deep!vars
<1>1. jump = Null /\ Depth > 0 /\ UNCHANGED <<contents, envStack>>
  BY DEF BeginBinding, ReturnCatch, EvalArg, Running
<1>2. TypeOK /\ TypeOK' /\ Top \in Activation BY <1>1, TopElement DEF IInv
<1>3. \E a : activations' = WithTop(a) /\ a.env = Top.env
  <2>1. ASSUME NEW v \in Val, EvalArg(v)
        PROVE  activations' = WithTop([Top EXCEPT !.args = Append(@, v)]) BY <2>1 DEF EvalArg
  <2>2. BeginBinding =>
          activations' = WithTop([Top EXCEPT !.phase = BindPhase(0, Top.params),
                              !.ctx = IF Top.kind = "lambda" THEN currentContext ELSE @])
    BY DEF BeginBinding
  <2>3. ReturnCatch => activations' = WithTop([Top EXCEPT !.phase = "store"]) BY DEF ReturnCatch
  <2>4. /\ \A v : [Top EXCEPT !.args = Append(@, v)].env = Top.env
        /\ [Top EXCEPT !.phase = BindPhase(0, Top.params),
                       !.ctx = IF Top.kind = "lambda" THEN currentContext ELSE @].env = Top.env
        /\ [Top EXCEPT !.phase = "store"].env = Top.env BY <1>2 DEF Activation
  <2> QED BY <2>1, <2>2, <2>3, <2>4, Zenon
<1> QED BY <1>1, <1>2, <1>3, OnMarks, StayStep

\* Binding a parameter.
LEMMA BindDeep ==
  ASSUME IInv, IInv', NEW v \in Val, BindNext(v)
  PROVE  \E s \in Sym : Deep!Bind(s, v)
<1>. DEFINE a == [Top EXCEPT !.n = @ + 1, !.phase = BindPhase(Top.n + 1, Top.params),
                             !.args = IF @ = <<>> THEN <<>> ELSE Tail(@)]
<1>0. PICK s \in Bindable : /\ envStack' = Append(envStack, [sym |-> s, saved |-> contents[s]])
                            /\ contents' = [contents EXCEPT ![s] = v] BY DEF BindNext
<1>1. /\ jump = Null /\ Depth > 0 /\ Top.kind \in Binders /\ Top.phase = "bind"
      /\ envStack' = Append(envStack, [sym |-> s, saved |-> contents[s]])
      /\ contents' = [contents EXCEPT ![s] = v]
      /\ activations' = WithTop(a) BY <1>0 DEF BindNext, Running
<1>2. TypeOK /\ TypeOK' /\ Top \in Activation /\ Sound(Top) /\ Top.n \in Nat
  BY <1>1, TopFacts DEF IInv
<1>3. s \in Sym BY <1>1, <1>2, Fields DEF Sound, Bindable
<1>4. a.env = Top.env BY <1>2 DEF Activation
<1>. HIDE DEF a
<1>5. Marks' = Marks BY <1>1, <1>2, <1>4, OnMarks, MarksStay
<1>6. GlobalValues' = GlobalValues /\ DeepBindings' = Append(DeepBindings, [sym |-> s, val |-> v])
  BY <1>1, <1>2, <1>3, PushDeep
<1> QED BY <1>3, <1>5, <1>6 DEF Deep!Bind

\* Assigning a variable, by set or by a loop.
LEMMA AssignStep ==
  ASSUME IInv, IInv',
         \/ \E v \in Val : LoopStep(v)
         \/ \E s \in Sym, v \in Val : SetVar(s, v)
  PROVE  \E s \in Sym, v \in Val : Deep!Assign(s, v)
<1>1. PICK v \in Val : LoopStep(v) \/ \E s \in Sym : SetVar(s, v) OBVIOUS
<1>2. PICK s \in Sym : contents' = [contents EXCEPT ![s] = v] /\ UNCHANGED <<envStack, activations>>
  <2>1. CASE LoopStep(v)
    <3>1. /\ contents' = [contents EXCEPT ![Top.params[1]] = v] /\ UNCHANGED <<envStack, activations>>
          /\ jump = Null /\ Depth > 0 /\ Top.kind = "loop" /\ Top.phase = "body"
      BY <2>1 DEF LoopStep, Running
    <3>2. Top \in Activation /\ Len(Top.params) > 0 BY <3>1, TopFacts DEF Sound
    <3>3. Top.params[1] \in Sym BY <3>2, Fields
    <3> QED BY <3>1, <3>3
  <2>2. CASE \E s \in Sym : SetVar(s, v) BY <2>2 DEF SetVar
  <2> QED BY <1>1, <2>1, <2>2
<1>3. GlobalValues' = Deep!AssignedBase(s, v) /\ DeepBindings' = Deep!Assigned(s, v)
  BY <1>2, AssignDeep DEF IInv
<1>4. Marks' = Marks BY <1>2 DEF Marks
<1> QED BY <1>3, <1>4 DEF Deep!Assign

\* What is left when the running function has returned.
LEMMA CallersLeft ==
  ASSUME TypeOK, Depth > 0, activations' = Callers
  PROVE  /\ Depth - 1 \in 0 .. Depth - 1 /\ activations' \in Seq(Activation) /\ Depth' = Depth - 1
         /\ \A i \in 1 .. Depth - 1 : activations'[i].env = activations[i].env
         /\ activations[(Depth - 1) + 1] = Top
<1>1. Depth \in Nat /\ Depth - 1 \in 0..Depth BY DEF TypeOK, Depth
<1>2. activations' = SubSeq(activations, 1, Depth - 1) BY DEF Callers
<1>3. /\ activations' \in Seq(Activation) /\ Depth' = Depth - 1
      /\ \A i \in 1 .. Depth - 1 : activations'[i] = activations[i] BY <1>1, <1>2, Popped
<1> QED BY <1>1, <1>3 DEF Top

\* Returning leaves one function.
LEMMA ReturnDeep ==
  ASSUME NoTrace, IInv, ReturnBinder \/ ReturnEvalString \/ ReturnLoad
  PROVE  \E n \in 0 .. Len(Marks) - 1 : Deep!Leave(n)
<1>1. /\ jump = Null /\ Depth > 0 /\ activations' = Callers
      /\ \/ UndoTo(Len(envStack) - Top.n)
         \/ UNCHANGED <<contents, envStack>> /\ Top.kind \notin Binders
  BY DEF ReturnBinder, ReturnEvalString, ReturnLoad, Running, Binders
<1>2. /\ TypeOK /\ Sound(Top) /\ Len(envStack) = Top.env + Top.n
      /\ Len(envStack) \in Nat /\ Top.n \in Nat /\ Top.env \in Nat BY <1>1, TopFacts
<1>3. \/ UndoTo(Top.env) /\ Top.env \in 0 .. Len(envStack)
      \/ UNCHANGED <<contents, envStack>> /\ Top.env = Len(envStack)
  <2>1. CASE UndoTo(Len(envStack) - Top.n)
    <3>1. Len(envStack) - Top.n = Top.env /\ Top.env \in 0 .. Len(envStack) BY <1>2
    <3> QED BY <2>1, <3>1
  <2>2. CASE UNCHANGED <<contents, envStack>> /\ Top.kind \notin Binders BY <1>2, <2>2 DEF Sound
  <2> QED BY <1>1, <2>1, <2>2
<1>4. /\ Depth - 1 \in 0 .. Depth - 1 /\ activations' \in Seq(Activation) /\ Depth' = Depth - 1
      /\ \A i \in 1 .. Depth - 1 : activations'[i].env = activations[i].env
      /\ activations[(Depth - 1) + 1] = Top BY <1>1, <1>2, CallersLeft
<1> QED BY <1>2, <1>3, <1>4, LeaveStep

\* catch stores its result where the program sees its variable.
LEMMA StoreDeep ==
  ASSUME NoTrace, IInv, NEW v \in Val, CatchStores(v)
  PROVE  \/ \E n \in 0 .. Len(Marks) - 1 : Deep!Leave(n)
         \/ \E s \in Sym : Deep!Deliver(s, v)
<1>1. /\ jump = Null /\ Depth > 0 /\ activations' = Callers /\ UNCHANGED envStack
      /\ Top.kind = "catch"
      /\ contents' = IF Top.sym = Null THEN contents ELSE [contents EXCEPT ![Top.sym] = v]
  BY DEF CatchStores, Running
<1>2. /\ TypeOK /\ Top \in Activation /\ Sound(Top) /\ Len(envStack) = Top.env + Top.n
      /\ Len(envStack) \in Nat /\ Top.n \in Nat /\ Top.env \in Nat /\ Depth \in Nat
  BY <1>1, TopFacts
<1>3. Top.env = Len(envStack) BY <1>1, <1>2 DEF Sound, Binders
<1>4. /\ Depth - 1 \in 0 .. Depth - 1 /\ activations' \in Seq(Activation) /\ Depth' = Depth - 1
      /\ \A i \in 1 .. Depth - 1 : activations'[i].env = activations[i].env
      /\ activations[(Depth - 1) + 1] = Top BY <1>1, <1>2, CallersLeft
<1>5. CASE Top.sym = Null BY <1>1, <1>2, <1>3, <1>4, <1>5, LeaveStep
<1>6. CASE Top.sym # Null
  <2>1. Top.sym \in Sym BY <1>2, <1>6, Fields
  <2>2. GlobalValues' = Deep!AssignedBase(Top.sym, v) /\ DeepBindings' = Deep!Assigned(Top.sym, v)
    BY <1>1, <1>2, <1>6, <2>1, AssignDeep
  <2>3. Marks' = SubSeq(Marks, 1, Depth - 1)
    <3>1. Depth - 1 \in 0..Depth BY <1>1, <1>2
    <3> QED BY <1>2, <1>4, <3>1, MarksCut
  <2>4. Len(Marks) = Depth /\ Marks # <<>> /\ Marks[Depth] = Len(DeepBindings)
    BY <1>1, <1>2, <1>3, MarksAre, DeepTypes DEF Top
  <2> QED BY <2>1, <2>2, <2>3, <2>4 DEF Deep!Deliver
<1> QED BY <1>5, <1>6

\* catch and eval-string land: the functions above them are gone, or they too.
LEMMA LandDeep ==
  ASSUME NoTrace, IInv, IInv', LandAtCatch \/ LandAtEvalString
  PROVE  (\E n \in 0 .. Len(Marks) - 1 : Deep!Leave(n)) \/ UNCHANGED Deep!vars
<1>. DEFINE e == errorJump
<1>1. jump # Null /\ errorJump > 0 /\ UndoTo(Target.env) /\ goneOn = FALSE
  BY ScopeAssumption DEF LandAtCatch, LandAtEvalString, Land, Jumping, IInv, Shape
<1>2. /\ TypeOK /\ TypeOK' /\ e \in 1..Depth /\ Depth \in Nat /\ Target \in Activation
      /\ Target.n = 0 /\ Target.env \in 0 .. Len(envStack) /\ Target = activations[e]
  BY <1>1, TargetFacts DEF IInv, Target
<1>3. activations' \in Seq(Activation) BY <1>2 DEF TypeOK
<1>4. CASE activations' = SubSeq(activations, 1, e - 1)
  <2>1. /\ e - 1 \in 0 .. Depth - 1 /\ Depth' = e - 1 /\ activations[(e - 1) + 1].env = Target.env
        /\ \A i \in 1 .. e - 1 : activations'[i] = activations[i] BY <1>2, <1>4, Popped
  <2> QED BY <1>1, <1>2, <1>3, <2>1, LeaveStep
<1>5. ASSUME NEW a \in Activation, a.env = Target.env,
             activations' = Append(SubSeq(activations, 1, e - 1), a)
      PROVE  (\E n \in 0 .. Len(Marks) - 1 : Deep!Leave(n)) \/ UNCHANGED Deep!vars
  <2>1. /\ Depth' = e /\ activations'[e] = a
        /\ \A i \in 1 .. e - 1 : activations'[i] = activations[i] BY <1>2, <1>5, Replaced
  <2>2. \A i \in 1..e : activations'[i].env = activations[i].env BY <1>2, <1>5, <2>1
  <2>3. CASE e < Depth
    <3>1. e \in 0 .. Depth - 1 /\ e \in 1 .. Depth - 1 BY <1>2, <2>3
    <3>2. activations[e + 1].env = Target.env
      <4>1. activations[e + 1].env = activations[e].env + activations[e].n
        BY <3>1 DEF IInv, Partition
      <4> QED BY <1>2, <4>1, Fields
    <3> QED BY <1>1, <1>2, <1>3, <2>1, <2>2, <3>1, <3>2, LeaveStep
  <2>4. CASE e = Depth
    <3>1. Len(envStack) = Target.env BY <1>2, <2>4, Fields DEF IInv, Partition, Top
    <3> QED BY <1>1, <1>2, <1>3, <2>1, <2>2, <2>4, <3>1, StayStep
  <2> QED BY <1>2, <2>3, <2>4
<1>6. \/ activations' = SubSeq(activations, 1, e - 1)
      \/ activations' = Append(SubSeq(activations, 1, e - 1), [Target EXCEPT !.phase = "store"])
      \/ activations' = Append(SubSeq(activations, 1, e - 1), [Target EXCEPT !.kind = "plain"])
  BY DEF LandAtCatch, LandAtEvalString
<1>7. /\ [Target EXCEPT !.phase = "store"] \in Activation
      /\ [Target EXCEPT !.phase = "store"].env = Target.env
      /\ [Target EXCEPT !.kind = "plain"] \in Activation
      /\ [Target EXCEPT !.kind = "plain"].env = Target.env BY <1>2 DEF Activation, Kinds, Binders
<1> QED BY <1>4, <1>5, <1>6, <1>7

\* reset: everything is left at once.
LEMMA MainDeep ==
  ASSUME NoTrace, IInv, LandAtMain
  PROVE  (\E n \in 0 .. Len(Marks) - 1 : Deep!Leave(n)) \/ UNCHANGED Deep!vars
<1>1. UndoTo(0) /\ activations' = <<>> /\ TypeOK /\ Depth \in Nat /\ Len(envStack) \in Nat
  BY DEF LandAtMain, IInv, TypeOK, Depth
<1>2. activations' \in Seq(Activation) /\ Depth' = 0 BY <1>1 DEF Depth
<1>3. CASE Depth = 0
  <2>1. Len(envStack) = 0 BY <1>3 DEF IInv, Partition
  <2> QED BY <1>1, <1>2, <1>3, <2>1, StayStep
<1>4. CASE Depth > 0
  <2>1. activations[0 + 1].env = 0 BY <1>4 DEF IInv, Partition
  <2>2. 0 \in 0 .. Depth - 1 /\ 0 \in 0 .. Len(envStack) BY <1>1, <1>4
  <2> QED BY <1>1, <1>2, <2>1, <2>2, LeaveStep
<1> QED BY <1>1, <1>3, <1>4
----------------------------------------
\* No binding has been made at the start.
LEMMA InitDeep == Init => Deep!Init
<1>. SUFFICES ASSUME Init PROVE Deep!Init OBVIOUS
<1>1. IInv /\ TypeOK BY InitInv DEF IInv
<1>2. GlobalValues \in [Sym -> Val] /\ DeepBindings = <<>> /\ Marks = <<>>
  BY <1>1, DeepTypes, MarksAre, EmptySeq DEF Init, Depth
<1> QED BY <1>2 DEF Deep!Init

\* Every step is one of deep binding, or none.
LEMMA StepDeep == ASSUME NoTrace, IInv, IInv', [Next]_vars PROVE [Deep!Next]_(Deep!vars)
<1>1. TypeOK /\ ~Abandon /\ ~GoOn BY DEF IInv, Shape, Abandon, GoOn
<1>2. ASSUME \/ UNCHANGED <<contents, envStack, activations>>
      PROVE  UNCHANGED Deep!vars BY <1>2, ValuesStay DEF Deep!vars, Marks
<1>3. CASE \/ UNCHANGED vars \/ BindFails \/ NoList \/ RaiseError \/ Throw \/ LandAtLoad
           \/ Underflow
           \/ \E on \in BOOLEAN : Trace(on)
           \/ \E c \in Ctx : SwitchContext(c) \/ LoadFails(c)
  BY <1>1, <1>2, <1>3 DEF vars, BindFails, NoList, RaiseError, Throw, Jump, LandAtLoad, Underflow,
                          Trace, SwitchContext, LoadFails
<1>4. CASE Call BY <1>4, CallDeep DEF Deep!Next
<1>5. CASE BeginBinding \/ ReturnCatch \/ \E v \in Val : EvalArg(v) BY <1>5, OnDeep
<1>6. CASE \E v \in Val : BindNext(v) BY <1>6, BindDeep DEF Deep!Next
<1>7. CASE (\E v \in Val : LoopStep(v)) \/ \E s \in Sym, v \in Val : SetVar(s, v)
  BY <1>7, AssignStep DEF Deep!Next
<1>8. CASE ReturnBinder \/ ReturnEvalString \/ ReturnLoad BY <1>8, ReturnDeep DEF Deep!Next
<1>9. CASE \E v \in Val : CatchStores(v) BY <1>9, StoreDeep DEF Deep!Next
<1>10. CASE LandAtCatch \/ LandAtEvalString BY <1>10, LandDeep DEF Deep!Next
<1>11. CASE LandAtMain BY <1>11, MainDeep DEF Deep!Next
<1> QED BY <1>3, <1>4, <1>5, <1>6, <1>7, <1>8, <1>9, <1>10, <1>11 DEF Next, Return, Landing

\* Dynamic scoping as the manual describes it is what shallow binding does:
\* however activations end - by returning, by throws and errors through any
\* number of them - exactly their own bindings go, and assignments to outer
\* variables stay (evaluateLambda, let, loop, p_catch, recoverEnvironment).
THEOREM Implementation == ASSUME NoTrace PROVE Spec => ImplementsDeepBinding
<1>1. IInv /\ IInv' /\ [Next]_vars => [Deep!Next]_(Deep!vars) BY StepDeep
<1> QED BY Invariance, InitDeep, <1>1, PTL DEF Spec, ImplementsDeepBinding, Deep!Spec
=============================================================================
