--------------------------- MODULE CompilerParser ---------------------------
(***************************************************************************)
(* The binary compiler's tokenizer, its parser and their trees.            *)
(*                                                                         *)
(* The tokenizer is the lexer_ functions of ast_converter/simple_parser.c, *)
(* over characters that stand for their classes.  A token says which       *)
(* characters it took.  The parser is the rest of that file, over tokens,  *)
(* and ast_converter/ast_nodes.c, with every block the two allocate.  One  *)
(* allocation of a run may fail.                                           *)
(***************************************************************************)
EXTENDS Integers, Sequences, FiniteSets, FiniteSetsExt, SequencesExt

CONSTANTS Chars, MaxText,   \* characters, and the length of texts, for the tokenizer
          Texts,            \* texts to parse, as sequences of tokens
          Failures          \* which allocation fails; 0 for none

VARIABLES input, lexer, tokens

lxvars == <<input, lexer, tokens>>

End == "end of input"

is_digit(c) == c = "7"
is_symbol_char(c) == c \in {"7", "a", "-", "."}
is_whitespace(c) == c \in {" ", "\n"}

lexer_create == [position |-> 1, line |-> 1, column |-> 1]

current_char(l) == IF l.position <= Len(input) THEN input[l.position] ELSE End
lexer_peek(l) == IF l.position + 1 <= Len(input) THEN input[l.position + 1] ELSE End

lexer_advance(l) ==
  IF l.position > Len(input) THEN l
  ELSE IF current_char(l) = "\n" THEN [position |-> l.position + 1, line |-> l.line + 1, column |-> 1]
  ELSE [l EXCEPT !.position = @ + 1, !.column = @ + 1]

RECURSIVE While(_, _)
While(Test(_), l) == IF current_char(l) # End /\ Test(current_char(l)) THEN While(Test, lexer_advance(l)) ELSE l

\* Blanks, and comments up to the end of their line.
RECURSIVE Skip(_)
Skip(l) ==
  IF is_whitespace(current_char(l)) THEN Skip(While(is_whitespace, l))
  ELSE IF current_char(l) = ";" THEN Skip(While(LAMBDA c : c # "\n", l))
  ELSE l

Token(type, from, to, at, value) ==
  [type |-> type, from |-> from.position, to |-> to.position, line |-> at.line, column |-> at.column,
   value |-> value]

\* The first pass of lexer_read_string: where the string ends and how many
\* characters it has; the length is -1 when it does not end.
RECURSIVE Measure(_, _)
Measure(l, length) ==
  IF current_char(l) = End THEN [l |-> l, length |-> -1]
  ELSE IF current_char(l) = "\"" THEN [l |-> l, length |-> length]
  ELSE LET e == IF current_char(l) = "\\" THEN lexer_advance(l) ELSE l IN
       IF current_char(e) = End THEN [l |-> e, length |-> -1]
       ELSE Measure(lexer_advance(e), length + 1)

RECURSIVE Copy(_, _)
\* Mutant: an escaped quote ends the second pass.
CopyPlain(l, result) ==
  IF current_char(l) \in {"\"", End} THEN [l |-> l, result |-> result]
  ELSE Copy(lexer_advance(l), Append(result, current_char(l)))

\* The second pass copies the characters into the buffer.
Copy(l, result) ==
  IF current_char(l) \in {"\"", End} THEN [l |-> l, result |-> result]
  ELSE LET e == IF current_char(l) = "\\" THEN lexer_advance(l) ELSE l IN
       Copy(lexer_advance(e), Append(result, current_char(e)))

\* lexer_read_string.  The second pass starts at the first character again but
\* not at its line and column.
lexer_read_string(l) ==
  LET first == lexer_advance(l)
      m == Measure(first, 0)
      c == Copy([m.l EXCEPT !.position = first.position], <<>>) IN
  IF m.length < 0 THEN [l |-> m.l, token |-> Token("ERROR", l, m.l, l, <<>>)]
  ELSE [l |-> lexer_advance(c.l),
        token |-> [Token("STRING", l, lexer_advance(c.l), l, c.result) EXCEPT !.value = <<m.length, c.result>>]]

\* lexer_read_number
lexer_read_number(l) ==
  LET sign == IF current_char(l) = "-" THEN lexer_advance(l) ELSE l
      whole == While(is_digit, sign)
      float == current_char(whole) = "." /\ is_digit(lexer_peek(whole))
      e == IF float THEN While(is_digit, lexer_advance(whole)) ELSE whole IN
  [l |-> e, token |-> Token(IF float THEN "FLOAT" ELSE "INTEGER", l, e,
                            [line |-> e.line, column |-> e.column - (e.position - l.position)], <<>>)]

\* lexer_next_token.  An unknown character is not passed: the next call meets
\* it again.
lexer_next_token(lx) ==
  LET l == Skip(lx)
      c == current_char(l)
      One(type) == [l |-> lexer_advance(l), token |-> Token(type, l, lexer_advance(l), l, <<>>)]
      symbol == While(is_symbol_char, l) IN
  CASE c = End -> [l |-> l, token |-> Token("EOF", l, l, l, <<>>)]
    [] c = "(" -> One("LPAREN")
    [] c = "'" -> One("QUOTE")
    [] c = "\"" -> lexer_read_string(l)
    [] is_digit(c) \/ (c = "-" /\ is_digit(lexer_peek(l))) -> lexer_read_number(l)
    [] is_symbol_char(c) /\ ~is_digit(c) /\ ~(c = "-" /\ is_digit(lexer_peek(l))) ->
         [l |-> symbol, token |-> Token("SYMBOL", l, symbol, l, <<>>)]
    [] OTHER -> [l |-> l, token |-> Token("ERROR", l, l, l, <<>>)]

LexerInit == input \in UNION {[1..n -> Chars] : n \in 0..MaxText} /\ lexer = lexer_create /\ tokens = <<>>

\* The parser asks for tokens until the text ends or one is wrong.
Scan ==
  /\ tokens # <<>> => tokens[Len(tokens)].type \notin {"EOF", "ERROR"}
  /\ LET n == lexer_next_token(lexer) IN lexer' = n.l /\ tokens' = Append(tokens, n.token)
  /\ UNCHANGED input

----------------------------------------
Spans == {<<tokens[i].from, tokens[i].to>> : i \in DOMAIN tokens}
Within(p) == \E s \in Spans : s[1] <= p /\ p < s[2]

\* Every character of the text that has been passed is in one token, or is a
\* blank, or is in a comment; tokens follow each other, are as long as they can
\* be and all of one kind.
TokensCover ==
  /\ \A i \in 1..(Len(tokens) - 1) : tokens[i].to <= tokens[i + 1].from
  /\ \A p \in 1..(lexer.position - 1) :
       \/ Within(p) \/ is_whitespace(input[p])
       \/ \E q \in 1..p : /\ input[q] = ";" /\ ~Within(q)
                          /\ \A r \in q..p : input[r] # "\n" /\ ~Within(r)
  /\ \A i \in DOMAIN tokens :
       LET t == tokens[i]  text == SubSeq(input, t.from, t.to - 1) IN
       /\ t.type = "SYMBOL" => /\ \A j \in DOMAIN text : is_symbol_char(text[j])
                               /\ t.to > Len(input) \/ ~is_symbol_char(input[t.to])
       /\ t.type \in {"INTEGER", "FLOAT"} =>
            /\ \A j \in DOMAIN text : text[j] \in {"7", "."} \/ (j = 1 /\ text[j] = "-")
            /\ (t.type = "FLOAT") = (\E j \in DOMAIN text : text[j] = ".")
            /\ is_digit(text[Len(text)])
       /\ t.type = "EOF" => t.from > Len(input)
       /\ t.type = "ERROR" => t.to <= Len(input) \/ \E p \in t.from..Len(input) : input[p] = "\""

\* A string's characters fill the buffer its first pass measured, an escaped
\* quote among them, and its token ends after the closing quote.
StringsWhole == \A i \in DOMAIN tokens : tokens[i].type = "STRING" =>
  LET t == tokens[i] IN
  /\ Len(t.value[2]) = t.value[1]
  /\ t.to - t.from - 2 = t.value[1] + Cardinality({j \in 1..Len(t.value[2]) : t.value[2][j] \in {"\"", "\\"}})
                           + Cardinality({p \in (t.from + 1)..(t.to - 3) :
                                 input[p] = "\\" /\ input[p + 1] \notin {"\"", "\\"}
                                   /\ Cardinality({q \in t.from..p : \A r \in q..p : input[r] = "\\"}) % 2 = 1})

\* The line and column a message names are where the token is, as long as no
\* string came before it in the text.
PlaceRight ==
  \A i \in DOMAIN tokens :
    LET f == tokens[i].from
        lines == {p \in 1..(f - 1) : input[p] = "\n"}
        last == IF lines = {} THEN 0 ELSE CHOOSE p \in lines : \A q \in lines : q <= p IN
    (\A j \in 1..(i - 1) : tokens[j].type # "STRING") =>
      tokens[i].line = Cardinality(lines) + 1 /\ tokens[i].column = f - last
----------------------------------------
(* The parser. *)

VARIABLES text, answer

psvars == <<text, answer>>

EOF == "end of text"
Unnamed == "no name"      \* what a failed copy of a parameter leaves in its array
Names == {"x", "if", "while", "when", "unless", "set", "define"}

(* The parser's state: at, the current token; next, the number of the next *)
(* block allocated; fail, the number malloc answers NULL to; freed; twice *)
(* and wild, whether a block was freed again or a pointer never assigned *)
(* was; lists, the blocks of parameter lists. *)
Start(fail) == [at |-> 1, next |-> 1, fail |-> fail, freed |-> {}, twice |-> FALSE, wild |-> FALSE,
                lists |-> {}, errors |-> 0]

NULL == [id |-> 0, type |-> "NULL", name |-> "", own |-> {}, kids |-> <<>>]

memory_alloc(s) == [s EXCEPT !.next = @ + 1]
Fails(s) == s.next = s.fail
memory_free(s, blocks) ==
  [s EXCEPT !.freed = @ \cup blocks, !.twice = @ \/ blocks \cap s.freed # {}]

RECURSIVE Blocks(_)
Blocks(node) == IF node.id = 0 THEN {}
                ELSE {node.id} \cup node.own \cup UNION {Blocks(node.kids[i]) : i \in DOMAIN node.kids}

ast_destroy_node(s, node) == memory_free(s, Blocks(node))
Destroy(s, nodes) == FoldLeft(ast_destroy_node, s, nodes)

Found(s, node) == [s |-> s, node |-> node]
Nothing(s) == Found(s, NULL)
\* What follows when a node was made; without it, the nodes that are lost are destroyed.
Then(r, lost, Do(_, _)) == IF r.node.id = 0 THEN Nothing(Destroy(r.s, lost)) ELSE Do(r.s, r.node)

\* ast_create_node and its callers for nodes that are one block.
ast_create_node(s, type, name, kids) ==
  Found(memory_alloc(s), IF Fails(s) THEN NULL
                         ELSE [id |-> s.next, type |-> type, name |-> name, own |-> {}, kids |-> kids])

\* ast_create_symbol and ast_create_string: the node, then a copy of the text.
\* Without the copy the node is destroyed, and what hangs on it with it.
Copied(s, node) == IF Fails(s) THEN Nothing(ast_destroy_node(memory_alloc(s), node))
                   ELSE Found(memory_alloc(s), [node EXCEPT !.own = {s.next}])
Named(s, type, name, kids) == Then(ast_create_node(s, type, name, kids), <<>>, Copied)
ast_create_symbol(s, name) == Named(s, "SYMBOL", name, <<>>)
ast_create_variable_def(s, name, value) == Named(s, "VARIABLE_DEF", name, <<value>>)

\* ast_list_add_element: the array of elements grows to 4, 8 and so on.
ast_list_add_element(s, list, element) ==
  LET full == Len(list.kids) \in {0, 4, 8}
      with == [list EXCEPT !.kids = Append(@, element)] IN
  IF ~full THEN Found(s, with)
  ELSE IF Fails(s) THEN Nothing(memory_alloc(s))
  ELSE Found(memory_free(memory_alloc(s), list.own), [with EXCEPT !.own = {s.next}])

\* ast_create_function_call: the node, and a copy of the arguments' array.
ast_create_function_call(s, function, arguments) ==
  Then(ast_create_node(s, "FUNCTION_CALL", "", <<function>>), <<>>,
       LAMBDA t, node : IF arguments = <<>> THEN Found(t, node)
                        ELSE Copied(t, [node EXCEPT !.kids = @ \o arguments]))

\* The copies of the parameters' names.  When one fails the ones before it are
\* freed, and freed again with the node; the ones after it were never assigned.
RECURSIVE CopyParameters(_, _, _, _)
CopyParameters(s, node, copies, names) ==
  IF names = <<>> THEN Found(s, [node EXCEPT !.own = @ \cup copies])
  ELSE IF Fails(s) \/ Head(names) = Unnamed
  THEN LET cleared == memory_free(IF Head(names) = Unnamed THEN s ELSE memory_alloc(s), copies)
           destroyed == ast_destroy_node(cleared, [node EXCEPT !.own = @ \cup copies]) IN
       Nothing([destroyed EXCEPT !.wild = Len(names) > 1])
  ELSE CopyParameters(memory_alloc(s), node, copies \cup {s.next}, Tail(names))

\* ast_create_function_def
ast_create_function_def(s, name, parameters, body) ==
  Then(Named(s, "FUNCTION_DEF", name, <<body>>), <<>>,
       LAMBDA t, node :
         IF parameters = <<>> THEN Found(t, node)
         ELSE IF Fails(t) THEN Nothing(ast_destroy_node(memory_alloc(t), node))
         ELSE CopyParameters(memory_alloc(t), [node EXCEPT !.own = @ \cup {t.next}], {}, parameters))

----------------------------------------
\* The parser proper.

Look(s) == IF s.at <= Len(text) THEN text[s.at] ELSE EOF
\* A token that is an error is met again: the tokenizer does not pass it.
parser_advance(s) == IF s.at <= Len(text) /\ text[s.at] # "#" THEN [s EXCEPT !.at = @ + 1] ELSE s
parser_error(s) == [s EXCEPT !.errors = @ + 1]
Reject(s, nodes) == Nothing(parser_error(Destroy(s, nodes)))

Advanced(r) == Found(parser_advance(r.s), r.node)
parser_parse_atom(s) ==
  IF Look(s) = "1" THEN ast_create_node(parser_advance(s), "INTEGER", "1", <<>>)
  ELSE Advanced(ast_create_symbol(s, Look(s)))

\* The functions that parse a part take the one that parses an expression.

\* The parts of a form: what has been read is destroyed when one is missing.
Read(s, nodes) == [s |-> s, nodes |-> nodes, ok |-> TRUE]
Missing(s, nodes) == [s |-> Destroy(s, nodes), nodes |-> <<>>, ok |-> FALSE]
RECURSIVE Parts(_, _, _)
Part(parse, e, read, n) ==
  IF e.node.id = 0 THEN Missing(e.s, read) ELSE Parts(parse, Read(e.s, Append(read, e.node)), n - 1)
Parts(parse, p, n) == IF ~p.ok \/ n = 0 THEN p ELSE Part(parse, parse[p.s], p.nodes, n)

\* The end of a form: its closing parenthesis, then what is made of its parts.
Closed(p, Do(_, _)) == IF ~p.ok THEN Nothing(p.s)
                       ELSE IF Look(p.s) # ")" THEN Reject(p.s, p.nodes)
                       ELSE Do(parser_advance(p.s), p.nodes)
Headless(s, first, type, nodes) == ast_create_node(ast_destroy_node(s, first), type, "", Tail(nodes))

\* (if condition then [else])
Else(parse, p) == IF Look(p.s) = ")" THEN p ELSE Parts(parse, p, 1)
ParseIf(parse, s, first) ==
  Closed(Else(parse, Parts(parse, Read(s, <<first>>), 2)), LAMBDA t, nodes : Headless(t, first, "IF", nodes))

\* (while condition body) and (when condition body), which is an if
ParseTwo(parse, s, first, type) ==
  Closed(Parts(parse, Read(s, <<first>>), 2), LAMBDA t, nodes : Headless(t, first, type, nodes))

\* (unless condition body): an if of the condition's not
ParseUnless(parse, s, first) ==
  Closed(Parts(parse, Read(s, <<first>>), 2), LAMBDA t, nodes :
         Then(ast_create_node(t, "UNARY_OP", "not", <<nodes[2]>>), nodes, LAMBDA u, not :
              Headless(u, first, "IF", <<first, not, nodes[3]>>)))

\* (set name value) and (define name value)
Symbolic(p) == IF p.ok /\ p.nodes[2].type # "SYMBOL" THEN Missing(parser_error(p.s), p.nodes) ELSE p
Without(r, nodes) == Found(Destroy(r.s, nodes), r.node)
ParseSet(parse, s, first) ==
  Closed(Parts(parse, Symbolic(Parts(parse, Read(s, <<first>>), 1)), 1), LAMBDA t, nodes :
         Without(ast_create_variable_def(t, nodes[2].name, nodes[3]), <<first, nodes[2]>>))

\* The parameter list of a function: each name is one more block, and the
\* array is allocated anew for each.
RECURSIVE ParseParameters(_, _, _, _)
ParseParameters(s, names, copies, array) ==
  IF Look(s) = ")" THEN [s |-> s, names |-> names, blocks |-> copies \cup array, ok |-> TRUE]
  ELSE IF Look(s) \notin Names
  THEN [s |-> IF Look(s) = EOF THEN s ELSE parser_error(s), names |-> names, blocks |-> copies \cup array,
        ok |-> FALSE]
  ELSE IF Fails(s)
  THEN [s |-> memory_alloc(s), names |-> names, blocks |-> copies \cup array, ok |-> FALSE]
  ELSE LET grown == memory_free(memory_alloc(s), array) IN
       ParseParameters(parser_advance(memory_alloc(grown)),
                       Append(names, IF Fails(grown) THEN Unnamed ELSE Look(s)),
                       (copies \cup {grown.next}) \ {s.fail}, {s.next})

Freed(r, blocks) == Found(memory_free(r.s, blocks), r.node)
Forgotten(r, blocks, freed) ==
  Found([memory_free(r.s, freed) EXCEPT !.lists = @ \cup blocks], r.node)

\* (define (name parameter ...) body).  The array of parameters and the names
\* in it are copied into the node and not freed; held is the function's name.
\* Mutant: the function's name is not freed.
FunctionEndKeep(body, p, first, held) ==
  IF body.node.id = 0 \/ Look(body.s) # ")" THEN Nothing(body.s)
  ELSE Without(ast_create_function_def(parser_advance(body.s), "f", p.names, body.node), <<first>>)

FunctionEnd(body, p, first, held) ==
  IF body.node.id = 0 THEN Nothing(memory_free(ast_destroy_node(body.s, first), held \cup p.blocks))
  ELSE IF Look(body.s) # ")"
  THEN Nothing(parser_error(memory_free(Destroy(body.s, <<first, body.node>>), held \cup p.blocks)))
  ELSE Forgotten(Without(ast_create_function_def(parser_advance(body.s), "f", p.names, body.node), <<first>>),
                 p.blocks, held)
FunctionBody(parse, p, first, held) ==
  IF p.ok THEN FunctionEnd(parse[parser_advance(p.s)], p, first, held)
  ELSE Nothing(IF Look(p.s) = EOF
               THEN parser_error(memory_free(ast_destroy_node(p.s, first), held \cup p.blocks))
               ELSE memory_free(ast_destroy_node(p.s, first), held \cup p.blocks))
FunctionName(parse, s, first) ==
  IF Look(s) \notin Names THEN Reject(s, <<first>>)
  ELSE IF Fails(s) THEN Reject(memory_alloc(s), <<first>>)
  ELSE FunctionBody(parse, ParseParameters(parser_advance(memory_alloc(s)), <<>>, {}, {}), first, {s.next})
ParseFunction(parse, s, first) == FunctionName(parse, parser_advance(s), first)

\* The arguments of a call: their array grows to 4, 8 and so on.
RECURSIVE ParseArguments(_, _, _, _, _)
Argument(parse, e, first, arguments, array) ==
  IF e.node.id = 0 THEN Nothing(memory_free(Destroy(e.s, Append(arguments, first)), array))
  ELSE ParseArguments(parse, e.s, first, Append(arguments, e.node), array)
ParseArguments(parse, s, first, arguments, array) ==
  LET full == Len(arguments) \in {0, 4, 8} IN
  IF Look(s) = ")" THEN Freed(ast_create_function_call(parser_advance(s), first, arguments), array)
  ELSE IF Look(s) = EOF THEN Reject(memory_free(s, array), Append(arguments, first))
  ELSE IF ~full THEN Argument(parse, parse[s], first, arguments, array)
  ELSE IF Fails(s) THEN Reject(memory_free(memory_alloc(s), array), Append(arguments, first))
  ELSE Argument(parse, parse[memory_free(memory_alloc(s), array)], first, arguments, {s.next})

\* A list that starts with something else than a name.
RECURSIVE ParseElements(_, _, _)
Element(parse, e, list) ==
  Then(e, <<list>>, LAMBDA s, node :
       Then(ast_list_add_element(s, list, node), <<node, list>>, LAMBDA t, longer : ParseElements(parse, t, longer)))
ParseElements(parse, s, list) ==
  IF Look(s) = ")" THEN Found(parser_advance(s), list)
  ELSE IF Look(s) = EOF THEN Reject(s, <<list>>)
  ELSE Element(parse, parse[s], list)

ParseRegular(parse, s, first) ==
  Then(ast_create_node(s, "LIST", "", <<>>), <<first>>, LAMBDA t, list :
       Then(ast_list_add_element(t, list, first), <<first, list>>, LAMBDA u, longer : ParseElements(parse, u, longer)))

\* parser_parse_list
Form(parse, first) ==
  LET Is(name) == first.node.type = "SYMBOL" /\ first.node.name = name IN
  CASE first.node.id = 0 -> first
    [] Is("if") -> ParseIf(parse, first.s, first.node)
    [] Is("while") -> ParseTwo(parse, first.s, first.node, "WHILE")
    [] Is("when") -> ParseTwo(parse, first.s, first.node, "IF")
    [] Is("unless") -> ParseUnless(parse, first.s, first.node)
    [] Is("define") /\ Look(first.s) = "(" -> ParseFunction(parse, first.s, first.node)
    [] Is("set") \/ (Is("define") /\ Look(first.s) # "(") -> ParseSet(parse, first.s, first.node)
    [] Is("x") -> ParseArguments(parse, first.s, first.node, <<>>, {})
    [] OTHER -> ParseRegular(parse, first.s, first.node)
parser_parse_list(parse, s) ==
  IF Look(s) = ")" THEN ast_create_node(parser_advance(s), "LIST", "", <<>>) ELSE Form(parse, parse[s])

\* A quote is passed over.
States == [at : Nat, next : Nat, fail : Nat, freed : SUBSET Nat, twice : BOOLEAN, wild : BOOLEAN,
           lists : SUBSET Nat, errors : Nat]
parser_parse_expression[s \in States] ==
  CASE Look(s) = "(" -> parser_parse_list(parser_parse_expression, parser_advance(s))
    [] Look(s) = "'" -> parser_parse_expression[parser_advance(s)]
    [] Look(s) \in Names \cup {"1"} -> parser_parse_atom(s)
    [] Look(s) = EOF -> Nothing(s)
    [] OTHER -> Nothing(parser_error(s))

\* parser_parse_program: no expression, and no error either, is the end.
RECURSIVE Program(_, _)
Expression(e, program) ==
  IF e.node.id = 0
  THEN IF e.s.errors > 0 THEN Nothing(ast_destroy_node(e.s, program)) ELSE Found(e.s, program)
  ELSE Then(ast_list_add_element(e.s, program, e.node), <<e.node, program>>, Program)
Program(s, program) ==
  IF Look(s) = EOF THEN Found(s, program) ELSE Expression(parser_parse_expression[s], program)

\* parse_string
Checked(r) == IF r.s.errors > 0 THEN Nothing(ast_destroy_node(r.s, r.node)) ELSE r
parse_string(fail) == Checked(Then(ast_create_node(Start(fail), "LIST", "", <<>>), <<>>, Program))

Init == text \in Texts /\ answer = Nothing(Start(0))

Parse(fail) == /\ answer = Nothing(Start(0))
               /\ answer' = parse_string(fail)
               /\ UNCHANGED text

Next == \E f \in Failures : Parse(f)
----------------------------------------
Done == answer.s.next > 1
Failed == answer.s.fail \in 1..(answer.s.next - 1)
Live == (1..(answer.s.next - 1)) \ (answer.s.freed \cup {answer.s.fail})

\* Whatever the text, when memory suffices the parser leaves exactly the blocks
\* of the tree it returns and the parameter lists it forgets: no error path of
\* any form keeps a node or frees one twice.
NodesOwned == Done /\ ~Failed =>
  /\ Live = Blocks(answer.node) \cup answer.s.lists
  /\ Blocks(answer.node) \cap answer.s.freed = {}
  /\ ~answer.s.twice

\* When an allocation fails, no node of the answer has been freed, and a block
\* is freed twice only when the copy of a second or later parameter failed.
FailureContained == Done =>
  /\ Blocks(answer.node) \subseteq Live
  /\ answer.s.twice => \E i \in DOMAIN text : text[i] = "define" /\ text[i + 1] = "("
  /\ Failed /\ answer.s.wild => \E i \in DOMAIN text : text[i] = "define" /\ text[i + 1] = "("

\* A reading of the text of its own: the tree between matching parentheses.
Opens(p) == text[p] = "("
Depths == [p \in 0..Len(text) |-> Cardinality({q \in 1..p : text[q] = "("})
                                   - Cardinality({q \in 1..p : text[q] = ")"})]
Closing(p) == CHOOSE q \in (p + 1)..Len(text) :
                text[q] = ")" /\ Depths[q] = Depths[p - 1] /\ \A r \in p..(q - 1) : Depths[r] >= Depths[p]
Balanced == /\ \A p \in 0..Len(text) : Depths[p] >= 0
            /\ Depths[Len(text)] = 0
            /\ \A p \in DOMAIN text : text[p] # "#"
            /\ \A p \in DOMAIN text : text[p] = "'" => p < Len(text) /\ text[p + 1] # ")"

RECURSIVE Items(_, _)
Item(p) == IF Opens(p) THEN <<"(", Items(p + 1, Closing(p))>> ELSE <<text[p], <<>>>>
Items(p, q) == IF p >= q THEN <<>>
               ELSE IF text[p] = "'" THEN Items(p + 1, q)
               ELSE <<Item(p)>> \o Items(IF Opens(p) THEN Closing(p) + 1 ELSE p + 1, q)

\* What a tree means to the parser, or that it is no form.
Wrong == <<"wrong">>
RECURSIVE Meaning(_)
Meaning(item) ==
  LET parts == item[2]
      n == Len(parts)
      all == [i \in DOMAIN parts |-> Meaning(parts[i])]
      bad == \E i \in DOMAIN all : all[i] = Wrong
      head == IF n = 0 THEN "" ELSE parts[1][1]
      Name(i) == parts[i][1] \in Names IN
  CASE item[1] = "1" -> <<"INTEGER", "1", <<>>>>
    [] item[1] \in Names -> <<"SYMBOL", item[1], <<>>>>
    [] OTHER ->
      IF head = "define" /\ n > 1 /\ parts[2][1] = "("
      THEN IF n = 3 /\ all[3] # Wrong /\ parts[2][2] # <<>> /\ \A i \in DOMAIN parts[2][2] : parts[2][2][i][1] \in Names
           THEN <<"FUNCTION_DEF", "f", <<all[3]>>>> ELSE Wrong
      ELSE IF bad THEN Wrong
      ELSE CASE head = "if" -> IF n \in {3, 4} THEN <<"IF", "", Tail(all)>> ELSE Wrong
             [] head = "while" -> IF n = 3 THEN <<"WHILE", "", Tail(all)>> ELSE Wrong
             [] head = "when" -> IF n = 3 THEN <<"IF", "", Tail(all)>> ELSE Wrong
             [] head = "unless" ->
                  IF n = 3 THEN <<"IF", "", <<<<"UNARY_OP", "not", <<all[2]>>>>, all[3]>>>> ELSE Wrong
             [] head \in {"set", "define"} ->
                  IF n = 3 /\ Name(2) THEN <<"VARIABLE_DEF", parts[2][1], <<all[3]>>>> ELSE Wrong
             [] head = "x" -> <<"FUNCTION_CALL", "", all>>
             [] OTHER -> <<"LIST", "", all>>

RECURSIVE Plain(_)
Plain(node) == <<node.type, node.name, [i \in DOMAIN node.kids |-> Plain(node.kids[i])]>>

\* A text whose parentheses match gives the tree of each of its expressions, or
\* an error when one is no form; one whose parentheses do not match gives an
\* error, except that a text ending inside a form or a definition is accepted
\* without its last expression.
ReadsWhole == Done /\ ~Failed =>
  LET trees == [i \in DOMAIN Items(1, Len(text) + 1) |-> Meaning(Items(1, Len(text) + 1)[i])] IN
  IF Balanced
  THEN IF \E i \in DOMAIN trees : trees[i] = Wrong THEN answer.node.id = 0
       ELSE Plain(answer.node) = <<"LIST", "", trees>>
  ELSE answer.node.id = 0 \/ (answer.s.at > Len(text) /\ Len(text) > 0)
=============================================================================
