------------------------------- MODULE SaveLoad -------------------------------
(***************************************************************************)
(* save writes symbols and contexts as statements, and load reads and       *)
(* evaluates them.  A symbol is written by its name alone, or with that of  *)
(* its context, as where it is written makes it; and which symbol a name is *)
(* depends on the context it is read in, and on the symbols that are there  *)
(* by then.                                                                 *)
(*                                                                          *)
(* A symbol is a pair of names.  Expressions are lists of symbols, since    *)
(* only symbols can come back as others; see Reader for the rest.           *)
(***************************************************************************)
EXTENDS Integers, Sequences, FiniteSets, SequencesExt, TLC

CONSTANTS Order,            \* all names, in the order of the trees
          Primitives,       \* the names of the functions in a file
          Illegal,          \* the names that are not one token
          Environments,     \* what is saved
          Into              \* the contexts a file is loaded into

VARIABLES ask, answer

Main == "MAIN"
Nil == <<"nil">>
Number == <<"number">>
Primitive == <<"primitive">>
Sym(s) == <<"symbol", s>>
Dyn(s, name) == <<"dynamic", s, name>>
Ctx(c) == <<"context", c>>
List(syms) == <<"list", syms>>
Lambda(syms) == <<"lambda", syms>>
Quote(s) == <<"quote", s>>

\* An interpreter that has just started.
Fresh == [value |-> [s \in {<<Main, n>> : n \in Primitives \cup {Main}} |->
                       IF s[2] = Main THEN Ctx(Main) ELSE Primitive],
          protected |-> {<<Main, n>> : n \in Primitives \cup {Main}},
          global |-> {<<Main, n>> : n \in Primitives \cup {Main}}]
Exists(env, s) == s \in DOMAIN env.value
IsContext(env, s) == Exists(env, s) /\ s[1] = Main /\ env.value[s] = Ctx(s[2])
IsGlobal(env, s) == s \in env.global
----------------------------------------
(* Writing. *)

Plain(name) == [context |-> "", name |-> name]
Full(s) == [context |-> s[1], name |-> s[2]]

\* Whether a symbol of the current context is hidden by a global one.
Overwrites(env, cur, s) == cur # Main /\ Exists(env, <<Main, s[2]>>) /\ IsGlobal(env, <<Main, s[2]>>)
\* Mutant: a global symbol of the same name is forgotten.
PrintNameShort(env, cur, s) == IF s[1] # cur \/ s[2] = cur THEN Full(s) ELSE Plain(s[2])
\* As something to set: the symbol with the name of its context is written in full.
printSymbolName(env, cur, s) ==
  IF s[1] # cur \/ s[2] = cur \/ Overwrites(env, cur, s) THEN Full(s) ELSE Plain(s[2])
\* Mutant: a global symbol is written by its name, though there is another here.
PrintCellGlobal(env, cur, s) ==
  IF s[1] # cur /\ ~IsGlobal(env, s) /\ ~IsContext(env, s) THEN Full(s)
  ELSE IF s[1] = cur /\ Overwrites(env, cur, s) THEN Full(s) ELSE Plain(s[2])
\* In an expression: a global symbol only if there is another of the name here.
printCell(env, cur, s) ==
  IF s[1] # cur /\ (~IsGlobal(env, s) \/ Exists(env, <<cur, s[2]>>)) /\ ~IsContext(env, s) THEN Full(s)
  ELSE IF s[1] = cur /\ Overwrites(env, cur, s) THEN Full(s) ELSE Plain(s[2])
Names(env, cur, syms) == [k \in DOMAIN syms |-> printCell(env, cur, syms[k])]

\* What is written of a value; the quote of a quote is lost.
Written(env, cur, v) ==
  CASE v[1] = "symbol" -> [kind |-> "quoted", names |-> <<printCell(env, cur, v[2])>>]
    [] v[1] = "quote" -> [kind |-> "quoted", names |-> <<printCell(env, cur, v[2])>>]
    [] v[1] = "context" -> [kind |-> "evaluated", names |-> <<printCell(env, cur, <<Main, v[2]>>)>>]
    [] v[1] = "list" -> [kind |-> "list", names |-> Names(env, cur, v[2])]
    [] v[1] = "lambda" -> [kind |-> "lambda", names |-> Names(env, cur, v[2])]
    [] v[1] = "number" -> [kind |-> "number", names |-> <<>>]

\* The symbol to set: quoted, made of a string, or made global first.
Target(env, cur, s) ==
  IF IsGlobal(env, s) THEN [form |-> "global", token |-> printSymbolName(env, cur, s)]
  ELSE IF s[2] \in Illegal THEN [form |-> "sym", token |-> Full(<<Main, s[1]>>), name |-> s[2]]
  ELSE [form |-> "quoted", token |-> printSymbolName(env, cur, s)]

printLambda(env, cur, s) ==
  IF s[2] \in Illegal
    THEN [op |-> "set", target |-> [form |-> "sym", token |-> Plain(s[1]), name |-> s[2]], value |-> Written(env, cur, env.value[s])]
  ELSE [op |-> "define", target |-> [form |-> "defined", token |-> printSymbolName(env, cur, s)],
        value |-> Written(env, cur, env.value[s])]

\* A function that may be changed is defined, and made global after that.
printSymbol(env, cur, s) ==
  IF env.value[s][1] = "lambda" /\ s \notin env.protected
    THEN <<printLambda(env, cur, s)>>
         \o (IF IsGlobal(env, s) THEN <<[op |-> "global", target |-> [form |-> "quoted", token |-> printSymbolName(env, cur, s)]]>>
             ELSE <<>>)
  ELSE <<[op |-> IF s \in env.protected THEN "constant" ELSE "set",
          target |-> Target(env, cur, s), value |-> Written(env, cur, env.value[s])]>>

Switch(c) == <<[op |-> "context", target |-> [form |-> "quoted", token |-> Plain(c)]]>>
\* A symbol set of a context is set to nil before, so that the function can be used.
Unset(env, c) == IF c # Main /\ Exists(env, <<c, "set">>) THEN [env EXCEPT !.value[<<c, "set">>] = Nil] ELSE env

Saved(env, text) == [env |-> env, text |-> text]
RECURSIVE saveSymbols(_, _, _)
saveContext(saved, c) ==
  LET r == saveSymbols(Saved(Unset(saved.env, c), saved.text \o (IF c = Main THEN <<>> ELSE Switch(c))), c, Order) IN
  Saved(r.env, r.text \o (IF c = Main THEN <<>> ELSE Switch(Main)))
\* The symbols of the current context, with the contexts among them; nil and functions
\* of the interpreter are left out.
saveSymbol(saved, cur, s) ==
  IF ~Exists(saved.env, s) \/ saved.env.value[s] \in {Nil, Primitive} THEN saved
  ELSE IF IsContext(saved.env, s) THEN IF s[2] = cur THEN saved ELSE saveContext(saved, s[2])
  ELSE Saved(saved.env, saved.text \o printSymbol(saved.env, cur, s))
saveSymbols(saved, cur, names) ==
  IF names = <<>> THEN saved
  ELSE saveSymbols(saveSymbol(saved, cur, <<cur, Head(names)>>), cur, Tail(names))

\* All of it, or one symbol, which may be that of a context.
serializeSymbols(env, what) ==
  IF what = <<>> THEN saveSymbols(Saved(env, <<>>), Main, Order)
  ELSE IF env.value[what][1] = "context" THEN saveContext(Saved(env, <<>>), env.value[what][2])
  ELSE Saved(env, printSymbol(env, Main, what))
----------------------------------------
(* Reading. *)

State(env, cur) == [env |-> env, cur |-> cur, failed |-> FALSE]
Fail(st) == [st EXCEPT !.failed = TRUE]
Found(env, s) == [env |-> env, cell |-> Sym(s)]
Create(env, s, v) == [env EXCEPT !.value = (s :> v) @@ @]
MakeContext(env, c) ==
  [Create(env, <<Main, c>>, Ctx(c)) EXCEPT !.protected = @ \cup {<<Main, c>>}, !.global = @ \cup {<<Main, c>>}]

translateCreateSymbol(env, c, name, force) ==
  IF Exists(env, <<c, name>>) THEN Found(env, <<c, name>>)
  ELSE IF ~force /\ Exists(env, <<Main, name>>) /\ (IsGlobal(env, <<Main, name>>) \/ IsContext(env, <<Main, name>>))
    THEN Found(env, <<Main, name>>)
  ELSE Found(Create(env, <<c, name>>, Nil), <<c, name>>)

\* A name with a context: the symbol of the context's name that is found here first;
\* if it is no context the symbol is looked for when it is evaluated.
InContext(env, ptr, name) ==
  IF IsContext(env, ptr) THEN translateCreateSymbol(env, ptr[2], name, TRUE)
  ELSE [env |-> env, cell |-> Dyn(ptr, name)]
FullName(env, cur, c, name) ==
  IF cur # Main /\ cur # c /\ Exists(env, <<cur, c>>) THEN InContext(env, <<cur, c>>, name)
  ELSE IF Exists(env, <<Main, c>>) THEN InContext(env, <<Main, c>>, name)
  ELSE InContext(MakeContext(env, c), <<Main, c>>, name)
ReadName(env, cur, token) ==
  IF token.context = "" THEN translateCreateSymbol(env, cur, token.name, FALSE)
  ELSE FullName(env, cur, token.context, token.name)

\* The names one after the other.
RECURSIVE ReadNames(_, _, _, _)
ReadMore(cur, tokens, cells, r) == ReadNames(r.env, cur, tokens, Append(cells, r.cell))
ReadNames(env, cur, tokens, cells) ==
  IF tokens = <<>> THEN [env |-> env, cells |-> cells]
  ELSE ReadMore(cur, Tail(tokens), cells, ReadName(env, cur, Head(tokens)))

\* The names of a statement: functions, the target, the value.
Functions(form) == CASE form = "global" -> <<Plain("global")>> [] form = "sym" -> <<Plain("sym")>> [] OTHER -> <<>>
ValueNames(statement) == IF "value" \in DOMAIN statement THEN statement.value.names ELSE <<>>
Tokens(statement) ==
  <<Plain(statement.op)>> \o Functions(statement.target.form) \o <<statement.target.token>> \o ValueNames(statement)
\* A name that is not one token makes something else of the file.
Readable(statement) ==
  \A t \in ToSet(Tokens(statement)) : t.name \notin Illegal

IsFunction(env, cell) == cell[1] = "symbol" /\ env.value[cell[2]] = Primitive
----------------------------------------
(* Evaluating a statement whose names are cells: the function, that of its *)
(* target if it has one, the target, and the value. *)

\* The symbol a cell is for: a dynamic one is made in the context that is found.
SymbolOf(env, cell) ==
  IF cell[1] = "symbol" THEN Found(env, cell[2])
  ELSE IF env.value[cell[2]][1] = "context" THEN translateCreateSymbol(env, env.value[cell[2]][2], cell[3], TRUE)
  ELSE [env |-> env, cell |-> Nil]
\* The context that is given, which is made if it is not there.
getCreateContext(env, cell) ==
  IF cell[1] = "context" THEN [env |-> env, c |-> cell[2]]
  ELSE IF cell[1] # "symbol" THEN [env |-> env, c |-> ""]
  ELSE IF env.value[cell[2]][1] = "context" THEN [env |-> env, c |-> env.value[cell[2]][2]]
  ELSE IF IsContext(env, <<Main, cell[2][2]>>) THEN [env |-> env, c |-> cell[2][2]]
  ELSE IF <<Main, cell[2][2]>> \in env.protected THEN [env |-> env, c |-> ""]
  ELSE [env |-> MakeContext(env, cell[2][2]), c |-> cell[2][2]]

ValueOf(env, kind, cells) ==
  CASE kind = "number" -> Number
    [] kind = "quoted" -> cells[1]
    [] kind = "evaluated" -> IF cells[1][1] = "symbol" THEN env.value[cells[1][2]] ELSE Nil
    [] kind = "list" -> List(cells)
    [] kind = "lambda" -> Lambda(cells)

\* set, constant, define: a constant must be of the current context.
Assign(st, op, s, v) ==
  IF op = "constant"
    THEN IF s[1] # st.cur \/ IsContext(st.env, s) THEN Fail(st)
         ELSE [st EXCEPT !.env = [Create(@, s, v) EXCEPT !.protected = @ \cup {s}]]
  ELSE IF s \in st.env.protected THEN Fail(st)
  ELSE [st EXCEPT !.env = Create(@, s, v)]
global(st, s) ==
  IF s[1] # Main \/ st.cur # Main THEN Fail(st) ELSE [st EXCEPT !.env.global = @ \cup {s}]
context(st, made) == IF made.c = "" THEN Fail(st) ELSE State(made.env, made.c)

AssignTo(st, op, found, statement, cells) ==
  IF found.cell = Nil \/ st.failed THEN Fail(st)
  ELSE Assign([st EXCEPT !.env = found.env], op, found.cell[2], ValueOf(found.env, statement.value.kind, cells))
\* (sym name context), where the context is evaluated.
MadeIn(st, statement, made, cells) ==
  IF made.c = "" THEN Fail(st)
  ELSE AssignTo([st EXCEPT !.env = made.env], statement.op,
                translateCreateSymbol(made.env, made.c, statement.target.name, TRUE), statement, cells)
EvalContext(env, cell) == IF cell[1] = "symbol" THEN env.value[cell[2]] ELSE Nil
AssignGlobal(st, op, cell, statement, cells) == AssignTo(st, op, [env |-> st.env, cell |-> cell], statement, cells)
GlobalTarget(st, op, found, statement, cells) ==
  IF found.cell = Nil THEN Fail(st) ELSE AssignGlobal(global([st EXCEPT !.env = found.env], found.cell[2]), op, found.cell, statement, cells)

Evaluate(st, statement, cells) ==
  LET target == statement.target
      own == IF target.form \in {"global", "sym"} THEN 3 ELSE 2
      rest == SubSeq(cells, own + 1, Len(cells)) IN
  IF ~IsFunction(st.env, cells[1]) \/ (own = 3 /\ ~IsFunction(st.env, cells[2])) THEN Fail(st)
  ELSE IF statement.op = "context" THEN context(st, getCreateContext(st.env, cells[2]))
  ELSE IF statement.op = "global" THEN IF cells[2][1] = "symbol" THEN global(st, cells[2][2]) ELSE Fail(st)
  ELSE IF target.form = "sym" THEN MadeIn(st, statement, getCreateContext(st.env, EvalContext(st.env, cells[3])), rest)
  ELSE IF target.form = "global" THEN GlobalTarget(st, statement.op, SymbolOf(st.env, cells[3]), statement, rest)
  ELSE AssignTo(st, statement.op, SymbolOf(st.env, cells[2]), statement, rest)

EvaluateRead(st, statement, r) == Evaluate([st EXCEPT !.env = r.env], statement, r.cells)
\* The first error ends the file.
loadStatement(st, statement) ==
  IF st.failed THEN st
  ELSE IF ~Readable(statement) THEN Fail(st)
  ELSE EvaluateRead(st, statement, ReadNames(st.env, st.cur, Tokens(statement), <<>>))
p_load(env, text, c) == FoldLeft(loadStatement, State(env, c), text)
----------------------------------------
(* What is asked: to save, and to load into an interpreter that has started *)
(* since then. *)

Idle == <<"none">>
p_save(env, what, into) ==
  LET saved == serializeSymbols(env, what) IN
  [saved |-> saved,
   loaded |-> p_load(IF into = Main THEN Fresh ELSE MakeContext(Fresh, into), saved.text, into)]
CallSave ==
  \E env \in Environments, into \in Into :
    \E what \in {<<>>} \cup {s \in DOMAIN env.value : env.value[s] \notin {Nil, Primitive, Ctx(Main)}} :
      ask' = <<env, what, into>> /\ answer' = p_save(env, what, into)
Init == ask = Idle /\ answer = <<>>
Return == ask # Idle /\ ask' = Idle /\ answer' = <<>>
Next == (ask = Idle /\ CallSave) \/ Return
----------------------------------------
(* Properties. *)

Place(name) == CHOOSE k \in DOMAIN Order : Order[k] = name
Before(name, other) == Place(name) < Place(other)
Symbols(v) == CASE v[1] \in {"symbol", "quote"} -> {v[2]} [] v[1] \in {"list", "lambda"} -> ToSet(v[2]) [] OTHER -> {}

\* What is saved, of all that there is.
Meant(env, what) ==
  {s \in DOMAIN env.value :
     /\ env.value[s] \notin {Nil, Primitive} /\ ~IsContext(env, s)
     /\ \/ what = <<>>
        \/ what = s /\ env.value[s][1] # "context"
        \/ what # <<>> /\ env.value[what] = Ctx(s[1])}

\* Names that hide functions or contexts, inside a context.
Hides(env, s) == s[1] # Main /\ (s[2] \in Primitives \cup {Main} \/ (IsContext(env, <<Main, s[2]>>) /\ s[2] # s[1]))
\* A context is found by its name from another: nothing there hides it, and it was saved before.
ContextSeen(env, what, c, other) ==
  ~Exists(env, <<c, other>>) /\ (other \in {c, Main} \/ (what = <<>> /\ Before(other, c)))
\* A context is there when a symbol with it as its value is read.
ContextThere(env, what, s, other) ==
  IF s[1] = Main THEN what = <<>> /\ Before(other, s[2]) ELSE ContextSeen(env, what, s[1], other)
\* A global symbol is there, and global, when its name is read in a context.
GlobalThere(env, what, s, other) ==
  (IsGlobal(env, other) /\ env.value[other] # Primitive /\ s[1] # Main) =>
    IF IsContext(env, other) THEN ContextSeen(env, what, s[1], other[2])
    ELSE Exists(env, <<s[1], other[2]>>) \/ (what = <<>> /\ env.value[other] # Nil /\ Before(other[2], s[1]))
\* The symbols whose values survive: no quotes; contexts that are there before the
\* variable; names of one token wherever they are not set.
Survives(env, what, s) ==
  LET v == env.value[s] IN
  /\ v[1] # "quote"
  /\ v[1] = "context" => ContextThere(env, what, s, v[2])
  /\ \A other \in Symbols(v) : other[2] \notin Illegal /\ GlobalThere(env, what, s, other)
  /\ s[2] \in Illegal => ~IsGlobal(env, s) /\ (v[1] = "lambda" /\ s \notin env.protected => ~Exists(env, <<s[1], s[1]>>))
  /\ (what = s /\ (s \in env.protected \/ s[2] \in Illegal)) => s[1] = Main

Unhidden(env) == \A s \in DOMAIN env.value : ~Hides(env, s)
\* A list of cells reads as the list of symbols it was.
Cells(v) == CASE v[1] \in {"list", "lambda"} -> <<v[1], [k \in DOMAIN v[2] |-> Sym(v[2][k])]>>
              [] v[1] = "symbol" -> Sym(v[2]) [] OTHER -> v

\* Loading what was saved brings back every value and its flags, and nothing else,
\* from whatever context, if all that is saved is of the kind that survives.
LoadRestores ==
  ask # Idle /\ Unhidden(ask[1]) /\ (ask[3] # Main => ask[2] # <<>> /\ ask[1].value[ask[2]][1] = "context")
    /\ (\A s \in Meant(ask[1], ask[2]) : Survives(ask[1], ask[2], s)) =>
    LET env == ask[1]
        st == answer.loaded
        meant == Meant(env, ask[2]) IN
    /\ ~st.failed
    /\ \A s \in meant : /\ Exists(st.env, s) /\ st.env.value[s] = Cells(env.value[s])
                        /\ (s \in st.env.protected) = (s \in env.protected)
                        /\ (s \in st.env.global) = (s \in env.global)
    /\ \A s \in DOMAIN st.env.value \ meant : st.env.value[s] \in {Nil, Primitive} \/ IsContext(st.env, s)

\* Saving changes no value, but those of symbols named set.
SaveOnlyReads ==
  ask # Idle => \A s \in DOMAIN ask[1].value : s[2] # "set" => answer.saved.env.value[s] = ask[1].value[s]

SaveLoadExact == LoadRestores /\ SaveOnlyReads
=============================================================================
