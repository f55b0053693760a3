---------------------------- MODULE DeepBinding ----------------------------
(***************************************************************************)
(* What newLISP's dynamic scoping promises, without saying how: variables  *)
(* live in a stack of bindings above the global values, a variable means   *)
(* its topmost binding, and leaving an activation - by returning, by a     *)
(* throw or by an error - removes exactly the bindings made since it was   *)
(* entered.  doc/newlisp_manual.html section 15 describes this; the code   *)
(* stores current values in the symbols instead (module DynamicScope).     *)
(***************************************************************************)
EXTENDS Naturals, Sequences

CONSTANTS Sym, Val

VARIABLES
  base,       \* the global value of every symbol
  bindings,   \* the stack of bindings, each a symbol and its value
  marks       \* one entry per activation: the bindings it found when entered

vars == <<base, bindings, marks>>

Binding == [sym : Sym, val : Val]

BindingsOf(s) == {k \in DOMAIN bindings : bindings[k].sym = s}

\* k is the topmost binding of its symbol.
Topmost(k) == \A j \in DOMAIN bindings : bindings[j].sym = bindings[k].sym => j <= k

Init == base \in [Sym -> Val] /\ bindings = <<>> /\ marks = <<>>

Enter ==
  /\ marks' = Append(marks, Len(bindings))
  /\ UNCHANGED <<base, bindings>>

Bind(s, v) ==
  /\ bindings' = Append(bindings, [sym |-> s, val |-> v])
  /\ UNCHANGED <<base, marks>>

\* An assignment changes the topmost binding, or the global value if none.
AssignedBase(s, v) == IF BindingsOf(s) = {} THEN [base EXCEPT ![s] = v] ELSE base
Assigned(s, v) == [k \in DOMAIN bindings |->
  IF bindings[k].sym = s /\ Topmost(k) THEN [sym |-> s, val |-> v] ELSE bindings[k]]

Assign(s, v) ==
  /\ base' = AssignedBase(s, v)
  /\ bindings' = Assigned(s, v)
  /\ UNCHANGED marks

\* The last activation, with no binding of its own, ends by assigning its result.
Deliver(s, v) ==
  /\ marks # <<>> /\ marks[Len(marks)] = Len(bindings)
  /\ marks' = SubSeq(marks, 1, Len(marks) - 1)
  /\ base' = AssignedBase(s, v)
  /\ bindings' = Assigned(s, v)

\* All activations above the first n end, in whatever way.
Leave(n) ==
  /\ marks' = SubSeq(marks, 1, n)
  /\ bindings' = SubSeq(bindings, 1, marks[n + 1])
  /\ UNCHANGED base

Next ==
  \/ Enter
  \/ \E s \in Sym, v \in Val : Bind(s, v) \/ Assign(s, v) \/ Deliver(s, v)
  \/ \E n \in 0 .. Len(marks) - 1 : Leave(n)

Spec == Init /\ [][Next]_vars
=============================================================================
