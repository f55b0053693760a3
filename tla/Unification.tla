------------------------------ MODULE Unification ------------------------------
(***************************************************************************)
(* unify (nl-math.c): two stacks, of pairs still to be made equal (ws) and  *)
(* of variables that have their terms (mgu), which are global and outlive a *)
(* call that ends with an error.                                            *)
(*                                                                          *)
(* A term is an atom, a variable, which is a symbol that begins with a      *)
(* capital letter, the symbol _, or a list of terms.                        *)
(***************************************************************************)
EXTENDS Integers, Sequences, FiniteSets, SequencesExt

CONSTANTS Vars, Protected,     \* the variables, and those that may not be bound
          Pairs,               \* what is unified: pairs of terms
          Environments,        \* sequences of bindings to begin with
          MaxCalls

VARIABLES ws, mgu,      \* sequences of pairs, the top at the end
          bound,        \* variable -> what it is set to
          asked, result, calls,
          stale         \* whether an error has left something on the stacks

Var(x) == <<"var", x>>
Wildcard == <<"any">>
Atom(a) == <<"atom", a>>
List(s) == <<"list", s>>
IsVar(t) == t[1] = "var"
IsList(t) == t[1] = "list"
\* A binding of the environment that is not a list.
NoList == <<"no list">>
Unbound == <<"unbound">>

Init == /\ ws = <<>> /\ mgu = <<>> /\ bound = [x \in Vars |-> Unbound]
        /\ asked = <<>> /\ result = <<"none">> /\ calls = 0 /\ stale = FALSE
----------------------------------------
\* Mutant: a variable is looked for in the elements only.
occurCheckFlat(x, t) == IsList(t) /\ x \in ToSet(t[2])
\* Whether the variable is somewhere in the term.
RECURSIVE occurCheck(_, _)
occurCheck(x, t) ==
  IF ~IsList(t) THEN x = t ELSE \E i \in DOMAIN t[2] : x = t[2][i] \/ occurCheck(x, t[2][i])

\* The term with the variable replaced.
RECURSIVE subsym(_, _, _)
subsym(term, x, t) ==
  IF IsList(t) THEN List([i \in DOMAIN t[2] |-> subsym(term, x, t[2][i])]) ELSE IF t = x THEN term ELSE t
substitute(term, x, stack) == [i \in DOMAIN stack |-> <<subsym(term, x, stack[i][1]), subsym(term, x, stack[i][2])>>]

\* Mutant: the variables that have their terms are left as they are.
BindKept(x, term, w, m) == <<substitute(term, x, w), Append(m, <<x, term>>)>>
\* A variable gets its term, which takes its place on both stacks.
Bind(x, term, w, m) == <<substitute(term, x, w), Append(substitute(term, x, m), <<x, term>>)>>

\* The elements of two lists, pair by pair.
PairUp(s, t) == [i \in DOMAIN s |-> <<s[i], t[i]>>]

\* Work until nothing is left, or two terms are not to be made equal: the
\* stacks then, and whether it ended well.
RECURSIVE Work(_, _)
Work(w, m) ==
  IF w = <<>> THEN <<TRUE, w, m>>
  ELSE LET left == Last(w)[1]
           right == Last(w)[2]
           rest == Front(w)
           Bound(b) == Work(b[1], b[2]) IN
    IF left = Wildcard \/ right = Wildcard \/ left = right THEN Work(rest, m)
    ELSE IF left[1] = "atom" /\ right[1] = "atom" THEN <<FALSE, rest, m>>
    ELSE IF IsVar(left) /\ ~occurCheck(left, right) THEN Bound(Bind(left, right, rest, m))
    ELSE IF IsVar(right) /\ ~occurCheck(right, left) THEN Bound(Bind(right, left, rest, m))
    ELSE IF IsList(left) /\ IsList(right) /\ Len(left[2]) = Len(right[2])
      THEN Work(rest \o PairUp(left[2], right[2]), m)
    ELSE <<FALSE, rest, m>>

Answer(pair, env, what) == asked' = <<pair, env>> /\ result' = what /\ calls' = calls + 1

\* Mutant: a failure leaves the variables that have terms.
FailKept(pair, env, m) == /\ ws' = <<>> /\ mgu' = m /\ Answer(pair, env, <<"nil">>) /\ UNCHANGED <<bound, stale>>
\* Both stacks are freed.
Fail(pair, env, m) == /\ ws' = <<>> /\ mgu' = <<>> /\ Answer(pair, env, <<"nil">>) /\ UNCHANGED <<bound, stale>>

\* The bindings as a list, the last that was found first.
Associations(pair, env, m) ==
  /\ ws' = <<>> /\ mgu' = <<>> /\ Answer(pair, env, <<"list", Reverse(m)>>) /\ UNCHANGED <<bound, stale>>

\* With a flag the variables are set, from the top of the stack down; one that
\* is protected is an error, and what is below it stays on the stack.
Shown(m) == {i \in DOMAIN m : m[i][1][2] \in Protected}
BindSymbols(pair, env, m) ==
  LET stop == IF Shown(m) = {} THEN 0 ELSE CHOOSE i \in Shown(m) : \A j \in Shown(m) : j <= i
      set == {i \in DOMAIN m : i > stop} IN
  /\ bound' = [x \in Vars |-> IF \E i \in set : m[i][1] = Var(x)
                                THEN m[CHOOSE i \in set : m[i][1] = Var(x) /\ \A j \in set : m[j][1] = Var(x) => i <= j][2]
                                ELSE bound[x]]
  /\ ws' = <<>> /\ mgu' = IF stop = 0 THEN <<>> ELSE SubSeq(m, 1, stop - 1)
  /\ stale' = (stale \/ stop > 1)
  /\ Answer(pair, env, IF stop = 0 THEN <<"list", <<>>>> ELSE <<"error">>)

\* What an error left on the stack has had its variables replaced since, and a cell
\* that is no symbol any more is written to as if it were one.
Overwrite(pair, env) == /\ asked' = <<pair, env>> /\ result' = <<"undefined">> /\ calls' = MaxCalls
                        /\ UNCHANGED <<ws, mgu, bound, stale>>
BindAll(pair, env, m) ==
  IF \E i \in DOMAIN m : ~IsVar(m[i][1]) THEN Overwrite(pair, env) ELSE BindSymbols(pair, env, m)

unify(pair, env, w, bindFlag) ==
  LET done == Work(Append(w, pair), mgu) IN
  IF ~done[1] THEN Fail(pair, env, done[3])
  ELSE IF bindFlag THEN BindAll(pair, env, done[3]) ELSE Associations(pair, env, done[3])

\* The bindings of the environment are pushed one by one; one that is no list is
\* an error, and those before it stay.
Good(env) == {i \in DOMAIN env : \A j \in 1..i : env[j] # NoList}
p_unify(pair, env, bindFlag) ==
  /\ calls < MaxCalls
  /\ LET w == ws \o SubSeq(env, 1, Cardinality(Good(env))) IN
     IF Cardinality(Good(env)) < Len(env)
       THEN /\ ws' = w /\ stale' = (stale \/ w # <<>>) /\ UNCHANGED <<mgu, bound>>
            /\ Answer(pair, env, <<"error">>)
       ELSE unify(pair, env, w, bindFlag)

Next == \E pair \in Pairs, env \in Environments, bindFlag \in BOOLEAN : p_unify(pair, env, bindFlag)
----------------------------------------
(* Properties. *)

\* Ground terms, to try the variables with.
Ground == {Atom("a"), Atom("b"), List(<<>>), List(<<Atom("a")>>), List(<<List(<<Atom("a")>>)>>)}
Assignments == [Vars -> Ground]
RECURSIVE Under(_, _)
Under(s, t) == IF IsVar(t) THEN s[t[2]]
               ELSE IF IsList(t) THEN List([i \in DOMAIN t[2] |-> Under(s, t[2][i])]) ELSE t
Solves(s, pairs) == \A i \in DOMAIN pairs : Under(s, pairs[i][1]) = Under(s, pairs[i][2])
RECURSIVE Has(_, _)
Has(x, t) == t = x \/ (IsList(t) /\ \E i \in DOMAIN t[2] : Has(x, t[2][i]))
Wild == \E p \in ToSet(Append(asked[2], asked[1])) : Has(Wildcard, p[1]) \/ Has(Wildcard, p[2])

\* The bindings that come back have the solutions of what was asked, no more and
\* no fewer, and nil comes back when there are none; no variable is bound twice,
\* or to a term with a variable that is bound.  An earlier error is left aside.
UnifiesExact ==
  calls > 0 /\ ~stale /\ result[1] \in {"nil", "list"} /\ ~Wild =>
    LET pairs == Append(asked[2], asked[1]) IN
    /\ result[1] = "nil" => \A s \in Assignments : ~Solves(s, pairs)
    /\ result[1] = "list" /\ result[2] # <<>> =>
         /\ \A s \in Assignments : Solves(s, pairs) <=> Solves(s, result[2])
         /\ \A i, j \in DOMAIN result[2] : ~Has(result[2][i][1], result[2][j][2]) /\ (i # j => result[2][i][1] # result[2][j][1])

\* A call leaves nothing behind for the next, but for one that ends with an error.
StacksEmpty == ~stale => ws = <<>> /\ mgu = <<>>

UnifyExact == UnifiesExact /\ StacksEmpty
=============================================================================
