--------------------------- MODULE CodeGenerator ---------------------------
(***************************************************************************)
(* The binary compiler's C generator: tinycc_integration/                  *)
(* c_code_generator.c.  A program is a sequence of trees <<type, name,     *)
(* number, kids>>; names are sequences of characters and words.  The C text *)
(* is a sequence of lines over C expressions; what such a text means to a  *)
(* C compiler, and what the program means to newLISP, is written below it. *)
(***************************************************************************)
EXTENDS Integers, Sequences, FiniteSets, SequencesExt

CONSTANTS Programs, Fuel

VARIABLES program, generated

cgvars == <<program, generated>>

NULL == <<"NULL">>
Number(n) == <<"INTEGER", <<>>, n, <<>>>>
Truth(n) == <<"BOOLEAN", <<>>, n, <<>>>>
Sym(name) == <<"SYMBOL", name, 0, <<>>>>
Op(name, kids) == <<"FUNCTION_CALL", name, 0, kids>>
If(kids) == <<"IF", <<>>, 0, kids>>
While(kids) == <<"WHILE", <<>>, 0, kids>>
Set(name, kid) == <<"VARIABLE_DEF", name, 0, <<kid>>>>
Define(name, parameters, body) == <<"FUNCTION_DEF", name, 0, <<body>> \o parameters>>

Comparisons == {<<"=">>, <<"!=">>, <<"<">>, <<"<=">>, <<">">>, <<">=">>}
Logicals == {<<"and">>, <<"or">>, <<"not">>}
is_arithmetic_operator == {<<"+">>, <<"-">>, <<"*">>, <<"/">>, <<"mod">>, <<"abs">>, <<"max">>, <<"min">>}
                            \cup Comparisons \cup Logicals
is_list_operator == {<<"list">>, <<"first">>, <<"rest">>, <<"length">>, <<"cons">>}
is_boolean_operator == Comparisons \cup Logicals
Signs == {"-", "?"}

\* codegen_generate_c_function_name: hyphens become underscores, other signs go.
codegen_generate_c_function_name(name) ==
  LET kept == SelectSeq(name, LAMBDA c : c # "?") IN
  IF kept = <<>> THEN <<"user_func">> ELSE [i \in DOMAIN kept |-> IF kept[i] = "-" THEN "_" ELSE kept[i]]

\* codegen_generate_c_name: all signs become underscores.
codegen_generate_c_name(name) == <<"var_">> \o [i \in DOMAIN name |-> IF name[i] \in Signs THEN "_" ELSE name[i]]

\* symboltable_add and symboltable_find: the last entry with a name counts.
symboltable_add(g, name, type, c) == [g EXCEPT !.symbols = <<[name |-> name, type |-> type, c |-> c]>> \o @]
symboltable_find(g, name) == SelectInSeq(g.symbols, LAMBDA e : e.name = name)

RECURSIVE codegen_generate_expression(_, _)
Codes(g, nodes) == [i \in DOMAIN nodes |-> codegen_generate_expression(g, nodes[i])]
Missing(codes) == \E i \in DOMAIN codes : codes[i] = NULL

\* Several arguments: from the left, two at a time, comparisons too.
Chained(name, codes) ==
  IF Missing(codes) THEN NULL
  ELSE FoldLeft(LAMBDA left, right : <<"op", name, left, right>>, codes[1], Tail(codes))

\* codegen_generate_max_min: arguments after the second are left out.
codegen_generate_max_min(name, codes) ==
  IF codes[1] = NULL \/ codes[2] = NULL THEN NULL
  ELSE <<"?", <<"op", IF name = <<"max">> THEN <<">">> ELSE <<"<">>, codes[1], codes[2]>>, codes[1], codes[2]>>

\* codegen_generate_list_operation: lists of no or one element only.
codegen_generate_list_operation(name, codes) ==
  CASE name = <<"list">> /\ codes = <<>> -> <<"list", <<>>>>
    [] name \in {<<"list">>, <<"first">>, <<"length">>} /\ Len(codes) = 1 /\ codes[1] # NULL ->
         <<name[1], <<codes[1]>>>>
    [] OTHER -> NULL

\* Mutant: the argument's form is not looked at.
PrintlnInt(node, code) == IF code = NULL THEN NULL ELSE <<"print", "i", code>>

\* println of one argument: how it prints goes by the form of the argument.
Println(node, code) ==
  IF code = NULL THEN NULL
  ELSE <<"print", IF node[1] = "FUNCTION_CALL" /\ node[2] \in is_boolean_operator THEN "b" ELSE "i", code>>

\* Mutant: arguments are chained from the right.
ArithmeticRight(name, codes) ==
  IF Len(codes) < 2 \/ Missing(codes) \/ name \in {<<"max">>, <<"min">>} THEN codes[1]
  ELSE LET n == Len(codes) IN
       FoldRight(LAMBDA left, right : <<"op", name, left, right>>, SubSeq(codes, 1, n - 1), codes[n])

\* Arithmetic: one argument is its own value, except for abs and not.
Arithmetic(name, codes) ==
  CASE name = <<"abs">> /\ Len(codes) = 1 ->
         IF Missing(codes) THEN NULL
         ELSE <<"?", <<"op", <<"<">>, codes[1], <<"int", 0>>>>, <<"neg", codes[1]>>, codes[1]>>
    [] name = <<"not">> /\ Len(codes) = 1 -> IF Missing(codes) THEN NULL ELSE <<"not", codes[1]>>
    [] name \in {<<"max">>, <<"min">>} /\ Len(codes) >= 2 -> codegen_generate_max_min(name, codes)
    [] name \notin {<<"abs">>, <<"not">>, <<"max">>, <<"min">>} /\ Len(codes) = 1 -> codes[1]
    [] name \in {<<"max">>, <<"min">>} /\ Len(codes) = 1 -> codes[1]
    [] name \notin {<<"abs">>, <<"not">>, <<"max">>, <<"min">>} /\ Len(codes) > 1 -> Chained(name, codes)
    [] OTHER -> <<"call", codegen_generate_c_function_name(name), codes>>

\* A call of a user's function: an argument without code is left out.
Call(g, name, codes) ==
  LET n == symboltable_find(g, name)
      c == IF n # 0 /\ g.symbols[n].type = "FUNCTION" THEN g.symbols[n].c
           ELSE codegen_generate_c_function_name(name) IN
  <<"call", c, SelectSeq(codes, LAMBDA e : e # NULL)>>

\* codegen_generate_expression
codegen_generate_expression(g, node) ==
  LET name == node[2]
      codes == Codes(g, node[4]) IN
  CASE node[1] \in {"INTEGER", "BOOLEAN"} -> <<"int", node[3]>>
    [] node[1] = "SYMBOL" ->
         LET n == symboltable_find(g, name) IN
         <<"var", IF n # 0 THEN g.symbols[n].c ELSE codegen_generate_c_name(name)>>
    [] node[1] = "UNARY_OP" -> IF Missing(codes) THEN NULL ELSE <<"not", codes[1]>>
    [] node[1] = "FUNCTION_CALL" ->
         IF name = <<"println">> /\ Len(codes) = 1 THEN Println(node[4][1], codes[1])
         ELSE IF name \in is_arithmetic_operator /\ codes # <<>> THEN Arithmetic(name, codes)
         ELSE IF name \in is_list_operator THEN codegen_generate_list_operation(name, codes)
         ELSE Call(g, name, codes)
    [] OTHER -> NULL       \* "Unsupported expression type": lists, if, while, set, define

Line(op, name, code, parameters) == [op |-> op, name |-> name, code |-> code, parameters |-> parameters]
Emit(g, lines) == [g EXCEPT !.buffer = @ \o lines]
Fail(g) == [g EXCEPT !.ok = FALSE]

RECURSIVE codegen_generate_statement(_, _)

\* Mutant: a body that fails is closed all the same.
BracedAlways(g, open, kid) ==
  Emit([codegen_generate_statement(Emit(g, <<open>>), kid) EXCEPT !.ok = TRUE], <<Line("}", <<>>, NULL, <<>>)>>)

\* A branch or body between braces.  When it fails the closing brace is missing.
Braced(g, open, kid) ==
  LET inside == codegen_generate_statement(Emit(g, <<open>>), kid) IN
  IF inside.ok THEN Emit(inside, <<Line("}", <<>>, NULL, <<>>)>>) ELSE inside

StatementIf(g, node) ==
  LET condition == codegen_generate_expression(g, node[4][1])
      then == Braced(g, Line("if", <<>>, condition, <<>>), node[4][2]) IN
  IF condition = NULL THEN Fail(g)
  ELSE IF ~then.ok \/ Len(node[4]) = 2 THEN then
  ELSE Braced(then, Line("else", <<>>, NULL, <<>>), node[4][3])

StatementWhile(g, node) ==
  LET condition == codegen_generate_expression(g, node[4][1]) IN
  IF condition = NULL THEN Fail(g) ELSE Braced(g, Line("while", <<>>, condition, <<>>), node[4][2])

\* A set is a declaration in the block it is in.
StatementSet(g, node) ==
  LET value == codegen_generate_expression(g, node[4][1])
      c == codegen_generate_c_name(node[2]) IN
  IF value = NULL THEN Fail(g)
  ELSE Emit(symboltable_add(g, node[2], "INTEGER", c), <<Line("nl_int", c, value, <<>>)>>)

StatementDefine(g, node) ==
  LET c == codegen_generate_c_function_name(node[2])
      parameters == Tail(node[4])
      cs == [i \in DOMAIN parameters |-> codegen_generate_c_name(parameters[i][2])]
      named == FoldLeft(LAMBDA h, p : symboltable_add(h, p[2], "INTEGER", codegen_generate_c_name(p[2])),
                        symboltable_add(g, node[2], "FUNCTION", c), parameters)
      body == codegen_generate_expression(named, node[4][1]) IN
  IF body = NULL THEN Fail(named)
  ELSE Emit(named, <<Line("function", c, body, cs)>>)

StatementExpression(g, node) ==
  LET code == codegen_generate_expression(g, node) IN
  IF code = NULL THEN Fail(g)
  ELSE IF node[1] = "INTEGER" THEN Emit(g, <<Line("eval", <<>>, <<"show", code>>, <<>>)>>)
  ELSE Emit(g, <<Line("eval", <<>>, code, <<>>)>>)

codegen_generate_statement(g, node) ==
  CASE node[1] = "IF" -> StatementIf(g, node)
    [] node[1] = "WHILE" -> StatementWhile(g, node)
    [] node[1] = "VARIABLE_DEF" -> StatementSet(g, node)
    [] node[1] = "FUNCTION_DEF" -> StatementDefine(g, node)
    [] OTHER -> StatementExpression(g, node)

\* codegen_generate_user_functions: all functions come first.
codegen_generate_user_functions(g, ast) ==
  FoldLeft(LAMBDA h, node : IF h.ok /\ node[1] = "FUNCTION_DEF" THEN codegen_generate_statement(h, node) ELSE h,
           g, ast)

\* codegen_generate_main: whether a statement could be generated is not asked.
codegen_generate_main(g, ast) ==
  FoldLeft(LAMBDA h, node : IF node[1] = "FUNCTION_DEF" THEN h
                            ELSE [codegen_generate_statement(h, node) EXCEPT !.ok = TRUE],
           Emit(g, <<Line("main", <<>>, NULL, <<>>)>>), ast)

\* codegen_generate; the answer is NULL only when a function fails.
codegen_create == [buffer |-> <<>>, symbols |-> <<>>, ok |-> TRUE]
codegen_generate(ast) ==
  LET functions == codegen_generate_user_functions(codegen_create, ast) IN
  IF functions.ok THEN codegen_generate_main(functions, ast) ELSE functions

Init == program \in Programs /\ generated = codegen_create
Generate == generated = codegen_create /\ generated' = codegen_generate(program) /\ UNCHANGED program
Next == Generate
----------------------------------------
\* What the C compiler makes of the text.

Functions == SelectSeq(generated.buffer, LAMBDA l : l.op = "function")
Body == LET n == SelectInSeq(generated.buffer, LAMBDA l : l.op = "main") IN
        SubSeq(generated.buffer, n + 1, Len(generated.buffer))
Level(lines, n) == Cardinality({i \in 1..n : lines[i].op \in {"if", "else", "while"}})
                     - Cardinality({i \in 1..n : lines[i].op = "}"})
Balanced(lines) == Level(lines, Len(lines)) = 0
Close(lines, n) == CHOOSE m \in (n + 1)..Len(lines) :
  /\ lines[m].op = "}" /\ Level(lines, m) = Level(lines, n - 1)
  /\ \A k \in n..(m - 1) : Level(lines, k) >= Level(lines, n)

RECURSIVE Variables(_)
Variables(code) ==
  CASE code[1] = "var" -> {code[2]}
    [] code[1] \in {"int", "NULL"} -> {}
    [] code[1] \in {"call", "list", "first", "length"} ->
         LET es == code[Len(code)] IN UNION {Variables(es[i]) : i \in DOMAIN es}
    [] code[1] = "op" -> Variables(code[3]) \cup Variables(code[4])
    [] code[1] = "?" -> UNION {Variables(code[i]) : i \in 2..4}
    [] OTHER -> Variables(code[Len(code)])

RECURSIVE Calls(_)
Calls(code) ==
  CASE code[1] = "call" -> {<<code[2], Len(code[3])>>} \cup UNION {Calls(code[3][i]) : i \in DOMAIN code[3]}
    [] code[1] \in {"int", "NULL", "var"} -> {}
    [] code[1] \in {"list", "first", "length"} -> UNION {Calls(code[2][i]) : i \in DOMAIN code[2]}
    [] code[1] = "op" -> Calls(code[3]) \cup Calls(code[4])
    [] code[1] = "?" -> UNION {Calls(code[i]) : i \in 2..4}
    [] OTHER -> Calls(code[Len(code)])

\* The variables line n of main may use: declared before it in its block or in
\* a block around it.
InScope(lines, n) == {lines[m].name : m \in {m \in 1..n :
  lines[m].op = "nl_int" /\ \A k \in m..n : Level(lines, k) >= Level(lines, m)}}

Compiles ==
  LET known == {<<Functions[i].name, Len(Functions[i].parameters)>> : i \in DOMAIN Functions} IN
  /\ generated.ok /\ Balanced(Body)
  /\ \A n \in DOMAIN Body : Variables(Body[n].code) \subseteq InScope(Body, n) /\ Calls(Body[n].code) \subseteq known
  /\ \A i \in DOMAIN Functions : /\ Variables(Functions[i].code) \subseteq ToSet(Functions[i].parameters)
                                 /\ Calls(Functions[i].code) \subseteq known
  /\ \A i, j \in DOMAIN Functions : i # j => Functions[i].name # Functions[j].name
  /\ \A m, n \in DOMAIN Body : m < n /\ Body[m].op = "nl_int" /\ Body[n].op = "nl_int" =>
       Body[m].name # Body[n].name \/ \E k \in m..n : Level(Body, k) < Level(Body, m) \/ Level(Body, n) > Level(Body, m)

One(b) == IF b THEN 1 ELSE 0
Quotient(m, n) == LET Abs(k) == IF k < 0 THEN -k ELSE k IN
                  IF (m < 0) = (n < 0) THEN Abs(m) \div Abs(n) ELSE -(Abs(m) \div Abs(n))
Compute(name, m, n) ==
  CASE name = <<"+">> -> m + n [] name = <<"-">> -> m - n [] name = <<"*">> -> m * n
    [] name = <<"/">> -> Quotient(m, n) [] name = <<"mod">> -> m - n * Quotient(m, n)
    [] name = <<"=">> -> One(m = n) [] name = <<"!=">> -> One(m # n) [] name = <<"<">> -> One(m < n)
    [] name = <<"<=">> -> One(m <= n) [] name = <<">">> -> One(m > n) [] name = <<">=">> -> One(m >= n)
    [] name = <<"and">> -> One(m # 0 /\ n # 0) [] name = <<"or">> -> One(m # 0 \/ n # 0)

\* A C expression: its value and what it prints.
RECURSIVE CEval(_, _)
CArguments(codes, env) == [i \in DOMAIN codes |-> CEval(codes[i], env)]
CEval(code, env) ==
  CASE code[1] = "int" -> [v |-> code[2], out |-> <<>>]
    [] code[1] = "var" -> [v |-> env[code[2]], out |-> <<>>]
    [] code[1] = "not" -> LET e == CEval(code[2], env) IN [e EXCEPT !.v = One(e.v = 0)]
    [] code[1] = "neg" -> LET e == CEval(code[2], env) IN [e EXCEPT !.v = -e.v]
    [] code[1] = "?" -> LET c == CEval(code[2], env)
                            e == CEval(IF c.v # 0 THEN code[3] ELSE code[4], env) IN
                        [v |-> e.v, out |-> c.out \o e.out]
    [] code[1] = "op" ->
         LET l == CEval(code[3], env) r == CEval(code[4], env) IN
         IF (code[2] = <<"and">> /\ l.v = 0) \/ (code[2] = <<"or">> /\ l.v # 0) THEN [l EXCEPT !.v = One(l.v # 0)]
         ELSE [v |-> Compute(code[2], l.v, r.v), out |-> l.out \o r.out]
    [] code[1] = "print" -> LET e == CEval(code[3], env) IN [v |-> 1, out |-> Append(e.out, <<code[2], e.v>>)]
    [] code[1] = "show" -> LET e == CEval(code[2], env) IN [v |-> 0, out |-> Append(e.out, <<"no newline", e.v>>)]
    [] code[1] = "call" ->
         LET f == Functions[SelectInSeq(Functions, LAMBDA l : l.name = code[2])]
             as == CArguments(code[3], env)
             locals == [p \in ToSet(f.parameters) |-> as[CHOOSE i \in DOMAIN f.parameters : f.parameters[i] = p].v]
             e == CEval(f.code, locals) IN
         [v |-> e.v, out |-> FlattenSeq([i \in DOMAIN as |-> as[i].out]) \o e.out]
    [] OTHER -> [v |-> 0, out |-> <<>>]

\* main from line n to line m: the variables of a block end with it.
With(env, name, v) == [x \in DOMAIN env \cup {name} |-> IF x = name THEN v ELSE env[x]]
RECURSIVE CRun(_, _, _, _, _)
CRun(n, m, env, out, fuel) ==
  IF n > m \/ fuel = 0 THEN out
  ELSE LET l == Body[n]
           e == CEval(l.code, env)
           end == Close(Body, n)
           else == end < m /\ Body[end + 1].op = "else"
           after == IF else THEN Close(Body, end + 1) + 1 ELSE end + 1 IN
       CASE l.op = "eval" -> CRun(n + 1, m, env, out \o e.out, fuel)
         [] l.op = "nl_int" -> CRun(n + 1, m, With(env, l.name, e.v), out \o e.out, fuel)
         [] l.op = "if" ->
              CRun(after, m, env,
                   IF e.v # 0 THEN CRun(n + 1, end - 1, env, out \o e.out, fuel)
                   ELSE IF else THEN CRun(end + 2, after - 2, env, out \o e.out, fuel) ELSE out \o e.out, fuel)
         [] l.op = "while" ->
              IF e.v = 0 THEN CRun(end + 1, m, env, out \o e.out, fuel)
              ELSE CRun(n, m, env, CRun(n + 1, end - 1, env, out \o e.out, fuel), fuel - 1)

COutput == CRun(1, Len(Body), <<>>, <<>>, Fuel)
----------------------------------------
\* What newLISP makes of the program, where the two languages can agree: whole
\* numbers, comparisons of two, truth values only where they are tested or
\* printed, and each variable set once, outside if and while.

UserFunctions == SelectSeq(program, LAMBDA n : n[1] = "FUNCTION_DEF")
Known(name, arity) == \E i \in DOMAIN UserFunctions :
                        UserFunctions[i][2] = name /\ Len(UserFunctions[i][4]) = arity + 1

RECURSIVE TypeOf(_, _)
AllOf(type, nodes, names) == \A i \in DOMAIN nodes : TypeOf(nodes[i], names) = type
TypeOf(node, names) ==
  LET kids == node[4]  name == node[2]  n == Len(kids) IN
  CASE node[1] = "INTEGER" -> "int"
    [] node[1] = "SYMBOL" /\ name \in names -> "int"
    [] node[1] = "UNARY_OP" /\ AllOf("bool", kids, names) -> "bool"
    [] node[1] = "FUNCTION_CALL" ->
         IF name \in {<<"+">>, <<"*">>} /\ n >= 1 /\ AllOf("int", kids, names) THEN "int"
         ELSE IF name = <<"-">> /\ n >= 2 /\ AllOf("int", kids, names) THEN "int"
         ELSE IF name \in {<<"/">>, <<"mod">>} /\ n = 2 /\ AllOf("int", kids, names)
                   /\ kids[2][1] = "INTEGER" /\ kids[2][3] # 0 THEN "int"
         ELSE IF name = <<"abs">> /\ n = 1 /\ AllOf("int", kids, names) THEN "int"
         ELSE IF name \in {<<"max">>, <<"min">>} /\ n = 2 /\ AllOf("int", kids, names) THEN "int"
         ELSE IF name \in Comparisons /\ n = 2 /\ AllOf("int", kids, names) THEN "bool"
         ELSE IF name \in {<<"and">>, <<"or">>} /\ n >= 2 /\ AllOf("bool", kids, names) THEN "bool"
         ELSE IF name = <<"not">> /\ n = 1 /\ AllOf("bool", kids, names) THEN "bool"
         ELSE IF Known(name, n) /\ AllOf("int", kids, names) THEN "int"
         ELSE "no"
    [] OTHER -> "no"

RECURSIVE Plain(_, _)
Plain(node, names) ==
  LET kids == node[4] IN
  CASE node[1] = "FUNCTION_CALL" /\ node[2] = <<"println">> ->
         Len(kids) = 1 /\ TypeOf(kids[1], names) \in {"int", "bool"}
           /\ (TypeOf(kids[1], names) = "bool" => kids[1][1] = "FUNCTION_CALL")
    [] node[1] \in {"IF", "WHILE"} ->
         TypeOf(kids[1], names) = "bool" /\ \A i \in 2..Len(kids) : Plain(kids[i], names)
    [] OTHER -> FALSE

SetBefore(i) == {program[j][2] : j \in {j \in 1..(i - 1) : program[j][1] = "VARIABLE_DEF"}}
CNames(names) == {codegen_generate_c_name(x) : x \in names}
Agreeable ==
  /\ \A i \in DOMAIN program :
       CASE program[i][1] = "VARIABLE_DEF" ->
              /\ TypeOf(program[i][4][1], SetBefore(i)) = "int"
              /\ codegen_generate_c_name(program[i][2]) \notin CNames(SetBefore(i))
         [] program[i][1] = "FUNCTION_DEF" ->
              LET names == {program[i][4][j][2] : j \in 2..Len(program[i][4])} IN
              /\ TypeOf(program[i][4][1], names) = "int"
              /\ Cardinality(CNames(names)) = Len(program[i][4]) - 1
              /\ \A j \in DOMAIN program : j # i /\ program[j][1] = "FUNCTION_DEF" =>
                   codegen_generate_c_function_name(program[j][2]) # codegen_generate_c_function_name(program[i][2])
         [] OTHER -> Plain(program[i], SetBefore(i))

RECURSIVE Eval(_, _)
Eval(node, env) ==
  LET kids == node[4]  name == node[2]
      vs == [i \in DOMAIN kids |-> Eval(kids[i], env)]
      Fold == FoldLeft(LAMBDA l, r : Compute(name, l, r), vs[1], Tail(vs)) IN
  CASE node[1] = "INTEGER" -> node[3]
    [] node[1] = "SYMBOL" -> env[name]
    [] node[1] = "UNARY_OP" -> One(vs[1] = 0)
    [] node[1] = "FUNCTION_CALL" ->
         CASE name = <<"not">> -> One(vs[1] = 0)
           [] name = <<"abs">> -> IF vs[1] < 0 THEN -vs[1] ELSE vs[1]
           [] name = <<"max">> -> IF vs[1] > vs[2] THEN vs[1] ELSE vs[2]
           [] name = <<"min">> -> IF vs[1] < vs[2] THEN vs[1] ELSE vs[2]
           [] name \in is_arithmetic_operator \ {<<"not">>, <<"abs">>, <<"max">>, <<"min">>} -> Fold
           [] OTHER -> LET f == UserFunctions[SelectInSeq(UserFunctions, LAMBDA u : u[2] = name)]
                           bound == {f[4][j][2] : j \in 2..Len(f[4])} IN
                       Eval(f[4][1], [p \in bound |-> vs[CHOOSE j \in DOMAIN vs : f[4][j + 1][2] = p]])

\* Statements; env is what has been set.
RECURSIVE Run(_, _, _)
Run(node, env, fuel) ==
  LET kids == node[4] IN
  CASE node[1] = "FUNCTION_CALL" -> <<<<IF TypeOf(kids[1], DOMAIN env) = "bool" THEN "b" ELSE "i", Eval(kids[1], env)>>>>
    [] node[1] = "IF" -> IF Eval(kids[1], env) # 0 THEN Run(kids[2], env, fuel)
                         ELSE IF Len(kids) = 3 THEN Run(kids[3], env, fuel) ELSE <<>>
    [] node[1] = "WHILE" -> IF fuel = 0 \/ Eval(kids[1], env) = 0 THEN <<>>
                            ELSE Run(kids[2], env, fuel) \o Run(node, env, fuel - 1)

RECURSIVE RunFrom(_, _)
RunFrom(i, env) ==
  IF i > Len(program) THEN <<>>
  ELSE CASE program[i][1] = "VARIABLE_DEF" -> RunFrom(i + 1, With(env, program[i][2], Eval(program[i][4][1], env)))
         [] program[i][1] = "FUNCTION_DEF" -> RunFrom(i + 1, env)
         [] OTHER -> Run(program[i], env, Fuel) \o RunFrom(i + 1, env)

Generated == generated # codegen_create

\* In that part of the language the C program compiles and prints what newLISP
\* does, except that it writes false where newLISP writes nil.
OutputAgrees == Generated /\ Agreeable => Compiles /\ COutput = RunFrom(1, <<>>)

\* Of a program outside it a statement may be left out without an error, but
\* only a whole one: of an if or while that cannot be generated to its end the
\* open brace remains, and the C compiler refuses the text.

RECURSIVE Whole(_)
Whole(node) ==
  IF node[1] \in {"IF", "WHILE"}
  THEN codegen_generate_expression(generated, node[4][1]) # NULL /\ \A i \in 2..Len(node[4]) : Whole(node[4][i])
  ELSE codegen_generate_expression(generated, IF node[1] = "VARIABLE_DEF" THEN node[4][1] ELSE node) # NULL
BracesTell == Generated /\ generated.ok =>
  LET Begun(node) == node[1] \in {"IF", "WHILE"} /\ codegen_generate_expression(generated, node[4][1]) # NULL IN
  Balanced(Body) <=> \A i \in DOMAIN program : Begun(program[i]) => Whole(program[i])
=============================================================================
