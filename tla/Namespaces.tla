------------------------------ MODULE Namespaces ------------------------------
(***************************************************************************)
(* new and def-new (newlisp.c): a context, or one symbol, is copied to     *)
(* another context, and with it whatever it refers to in its own.          *)
(*                                                                         *)
(* A symbol is a pair of names.  A value is a number or the like, a        *)
(* symbol, a dynamic reference, that is a variable that holds a context    *)
(* and the name of a symbol in there, or a list of these.                  *)
(***************************************************************************)
EXTENDS Sequences, FiniteSets, SequencesExt, TLC

CONSTANTS Main, From,          \* names of contexts: new copies From
          Order,               \* the names of symbols, in the order of the trees
          Builtin,             \* symbols of Main that are not copied
          Environments,        \* before the call
          Targets,             \* the symbols of contexts to be
          Sources,             \* the symbols that def-new copies
          Contexts, Names      \* and where to, by which name

VARIABLES ask, answer

Nil == <<"nil">>
Freed == <<"freed">>
Number(n) == <<"number", n>>
Ctx(c) == <<"context", c>>
Sym(s) == <<"symbol", s>>
Dyn(s) == <<"dynamic", s>>
List(cells) == <<"list", cells>>

Exists(env, s) == s \in DOMAIN env.value
In(env, c) == {s \in DOMAIN env.value : s[1] = c}
Set(env, s, v) == [env EXCEPT !.value = (s :> v) @@ @]
Protect(env, s, flag) == [env EXCEPT !.protected = IF flag THEN @ \cup {s} ELSE @ \ {s}]
translateCreateSymbol(env, s) == IF Exists(env, s) THEN env ELSE Set(env, s, Nil)
----------------------------------------
(* Copying a cell, and what it refers to: the environment then, and the copy. *)

RECURSIVE copyContextCell(_, _, _, _), copyContextList(_, _, _, _)

\* Mutant: what is referred to is made, and not copied.
CopyReferredNot(env, from, to, s) == translateCreateSymbol(env, <<to, s[2]>>)
\* "if new, if not done here it might not been seen as new later and left without contents"
CopyReferred(env, from, to, s) ==
  LET twin == <<to, s[2]>>
      copied == copyContextCell(Set(env, twin, Nil), from, to, env.value[s]) IN
  IF Exists(env, twin) THEN env ELSE Set(copied.env, twin, copied.cell)

\* Mutant: the functions of the interpreter are copied too.
BelongsAny(s, from) == s[1] = from
Belongs(s, from) == s[1] = from /\ s \notin Builtin

\* The variable of a dynamic reference is made, but not copied.
copyContextCell(env, from, to, v) ==
  CASE v[1] = "symbol" /\ Belongs(v[2], from) ->
         [env |-> Protect(CopyReferred(env, from, to, v[2]), <<to, v[2][2]>>, v[2] \in env.protected),
          cell |-> Sym(<<to, v[2][2]>>)]
    [] v[1] = "dynamic" /\ v[2][1] = from ->
         [env |-> translateCreateSymbol(env, <<to, v[2][2]>>), cell |-> Dyn(<<to, v[2][2]>>)]
    [] v[1] = "list" -> LET r == copyContextList(env, from, to, v[2]) IN [env |-> r.env, cell |-> List(r.cells)]
    [] OTHER -> [env |-> env, cell |-> v]
copyContextList(env, from, to, cells) ==
  IF cells = <<>> THEN [env |-> env, cells |-> <<>>]
  ELSE LET first == copyContextCell(env, from, to, Head(cells))
           rest == copyContextList(first.env, from, to, Tail(cells)) IN
       [env |-> rest.env, cells |-> <<first.cell>> \o rest.cells]

\* What is there is freed before the copy is made.
Replace(env, from, to, twin, s) ==
  LET freed == Set(env, twin, Freed)
      copied == copyContextCell(freed, from, to, freed.value[s]) IN
  Set(copied.env, twin, copied.cell)
----------------------------------------
(* Copying a context, and a symbol. *)

\* Mutant: the default symbol keeps its name.
TwinSameName(s, from, to) == <<to, s[2]>>
\* "translate default symbol to default symbol"
Twin(s, from, to) == IF s[2] = from THEN <<to, to>> ELSE <<to, s[2]>>

\* Mutant: what is there is always overwritten.
FillsAll(env, twin, overWriteFlag) == TRUE
Fills(env, twin, overWriteFlag) == ~Exists(env, twin) \/ overWriteFlag

CopySymbol(env, from, to, overWriteFlag, s) ==
  LET twin == Twin(s, from, to)
      filled == IF Fills(env, twin, overWriteFlag)
                  THEN Replace(translateCreateSymbol(env, twin), from, to, twin, s) ELSE env IN
  IF s \in filled.protected THEN Protect(filled, twin, TRUE) ELSE filled

iterateCopyCreateSymbols(env, from, to, overWriteFlag) ==
  FoldLeft(LAMBDA e, n : IF Exists(e, <<from, n>>) /\ <<from, n>> \notin Builtin
                           THEN CopySymbol(e, from, to, overWriteFlag, <<from, n>>) ELSE e,
           env, Order)

Failed(env) == [failed |-> TRUE, env |-> env]
Done(env) == [failed |-> FALSE, env |-> env]
IsContext(env, s) == Exists(env, s) /\ env.value[s] = Ctx(s[2])
MakeContext(env, s) == Protect(Set(env, s, Ctx(s[2])), s, TRUE)

\* A symbol of MAIN may be made a context; it is there when it is read.
p_new(env, from, target, overWriteFlag) ==
  IF ~IsContext(env, target) /\ (target \in env.protected \/ target[1] # Main) THEN Failed(env)
  ELSE IF target = <<Main, Main>> THEN Failed(env)
  ELSE Done(iterateCopyCreateSymbols(IF IsContext(env, target) THEN env ELSE MakeContext(env, target),
                                     from, target[2], overWriteFlag))

p_defineNew(env, source, target) ==
  IF target[1] = Main THEN Failed(env)
  ELSE Done(Protect(Replace(translateCreateSymbol(env, target), source[1], target[1], target, source),
                    target, source \in env.protected))
----------------------------------------
(* Calls. *)

Idle == <<"none">>
Init == ask = Idle /\ answer = <<>>
Asked(op, call, result) == ask' = <<op, call>> /\ answer' = result

CallNew ==
  \E env \in Environments, target \in Targets, flag \in BOOLEAN :
    Asked("new", [env |-> env, from |-> From, to |-> target[2], flag |-> flag], p_new(env, From, target, flag))
\* The target is there, since the program names it; so is its context.
CallDefineNew ==
  \E env \in Environments : \E source \in Sources \cap DOMAIN env.value, c \in Contexts, n \in Names :
    LET named == translateCreateSymbol(env, <<c, n>>) IN
    /\ IsContext(env, <<Main, c>>)
    /\ Asked("def-new", [env |-> named, from |-> source[1], to |-> c, source |-> source, target |-> <<c, n>>],
             p_defineNew(named, source, <<c, n>>))
Next == ask = Idle /\ (CallNew \/ CallDefineNew)
----------------------------------------
(* Properties *)

\* A value with the symbols of one context replaced by those of another.
RECURSIVE Renamed(_, _, _)
Renamed(v, from, to) ==
  CASE v[1] \in {"symbol", "dynamic"} -> IF v[2][1] = from /\ v[2] \notin Builtin THEN <<v[1], <<to, v[2][2]>>>> ELSE v
    [] v[1] = "list" -> List([k \in DOMAIN v[2] |-> Renamed(v[2][k], from, to)])
    [] OTHER -> v

\* The variables of the dynamic references in a value.
RECURSIVE Variables(_)
Variables(v) == CASE v[1] = "dynamic" -> {v[2]}
                  [] v[1] = "list" -> UNION {Variables(v[2][k]) : k \in DOMAIN v[2]}
                  [] OTHER -> {}

Asking(op) == ask[1] = op
Call == ask[2]
Before == Call.env
After == answer.env
Originals == In(Before, Call.from) \ Builtin
Copied(s) == Renamed(Before.value[s], Call.from, Call.to)
Original(t) == <<Call.from, t[2]>>
Dynamic == UNION {Variables(Before.value[s]) : s \in Originals}
Succeeded(op) == Asking(op) /\ ~answer.failed

\* The symbol with the target's name is copied to where the default symbol is.
Merged(s) == s[2] \in {Call.from, Call.to} /\ {<<Call.from, Call.from>>, <<Call.from, Call.to>>} \subseteq Originals
CopyOf(s) == IF Asking("def-new") THEN Call.target ELSE <<Call.to, IF s[2] = Call.from THEN Call.to ELSE s[2]>>
Copies == IF Asking("new") THEN {s \in Originals : ~Merged(s)} ELSE {Call.source} \ {Call.target}
Kept(t) == Asking("new") /\ ~Call.flag /\ Exists(Before, t)
Right(s) == /\ Exists(After, CopyOf(s))
            /\ After.value[CopyOf(s)] = IF Kept(CopyOf(s)) THEN Before.value[CopyOf(s)] ELSE Copied(s)
\* A context copied onto itself: with the flag everything is freed before it is copied.
Onto == Call.to = Call.from /\ Asking("new")

\* "The context context-source is copied": every symbol has its copy, in which what
\* belonged to the source belongs to the target (doc/newlisp_manual.html:20287, 20299).
CopiesAll == Succeeded("new") /\ ~Onto => \A s \in Copies : Right(s)

\* It is so but for the variables of dynamic references, which are left without contents
\* when a value that refers to them is copied before (newlisp.c:6496).
CopiesStatic == (Succeeded("new") \/ Succeeded("def-new")) /\ ~Onto =>
  \A s \in Copies : Right(s) \/ (s \in Dynamic /\ After.value[CopyOf(s)] = Nil)

\* Nothing else comes into the target but what the copies refer to, itself copied; what was
\* there, and all of the other contexts, stays as it was.
NothingElse == (Succeeded("new") \/ Succeeded("def-new")) /\ ~Onto =>
  /\ \A t \in DOMAIN After.value \ DOMAIN Before.value :
       \/ t \in {CopyOf(s) : s \in Originals}
       \/ t[1] = Call.to /\ Original(t) \in Originals /\ After.value[t] = Copied(Original(t))
       \/ t[1] = Call.to /\ Original(t) \in Dynamic /\ After.value[t] = Nil
       \/ t = <<Main, Call.to>> /\ IsContext(After, t)
  /\ \A t \in DOMAIN Before.value :
       \/ After.value[t] = Before.value[t]
       \/ t \in {CopyOf(s) : s \in Originals} /\ ~Kept(t)
       \/ t = <<Main, Call.to>> /\ Asking("new") /\ IsContext(After, t)

\* Copies of constants are constants, and a constant of the target remains one unless
\* the source has a symbol of its name that is none (newlisp.c:6519).
Constants == (Succeeded("new") \/ Succeeded("def-new")) =>
  /\ \A s \in Copies : s \in Before.protected => CopyOf(s) \in After.protected
  /\ \A t \in Before.protected \ After.protected :
       t[1] = Call.to /\ ((Asking("def-new") /\ t = Call.target) \/ Original(t) \in Originals \ Before.protected)

\* The copies of a context and of a symbol are exact.
NamespacesExact == CopiesStatic /\ NothingElse /\ Constants
=============================================================================
