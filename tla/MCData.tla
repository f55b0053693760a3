------------------------------- MODULE MCData -------------------------------
(***************************************************************************)
(* One run for the data structures of the interpreter, the functions on    *)
(* them, and the connections that carry them, which are checked one by     *)
(* one: part says which a behaviour is about.  A function is asked once    *)
(* and answers; trees of symbols, sessions and servers have a life of      *)
(* their own.                                                              *)
(***************************************************************************)
EXTENDS Objects, Integers, TLC

CONSTANTS aVariable, aConstant

VARIABLES part, ask, answer,
          left, right, parent, color, aux, live, global, cell, found,
          kernel, kind, sessions, netErrorIdx, held, lost, stale,
          daemonMode, httpMode, connectionTimeout, connection, IOchannel, block, running, lines, evaluated,
          ws, mgu, bound, asked, result, calls, leftover, xmlCallback

treeVars == <<left, right, parent, color, aux, live, global, cell, found>>
socketVars == <<kernel, kind, sessions, netErrorIdx, held, lost, stale>>
daemonVars == <<daemonMode, httpMode, connectionTimeout, connection, IOchannel, block, running, lines, evaluated>>
termVars == <<ws, mgu, bound, asked, result, calls, leftover>>
vars == <<part, ask, answer, treeVars, socketVars, daemonVars, termVars, xmlCallback, objectVars>>

V == INSTANCE ListFunctions
         WITH Flats <- {}, Nested <- {}, Pairs <- {}, Patterns <- {}, Some <- {}, Compared <- {}, Indices <- {},
              Counts <- {}, NestLimit <- 2

a == V!Num(1)
b == V!Num(2)
x == V!Sym(1, 1)

Flats == UNION {[1..n -> {a, b, V!Nil}] : n \in 0..3}
           \cup {<<b, a, b, a, b>>, <<a, x, b, V!Str(<<1>>), V!List(<<a>>), x, a>>}
Nested == {<<>>, <<a, b>>, <<b, V!List(<<a>>)>>, <<V!List(<<>>)>>, <<a, V!List(<<>>)>>,
           <<V!List(<<a, V!List(<<a, b>>)>>), a>>, <<V!List(<<b, V!List(<<b, V!List(<<a>>)>>)>>), b, a>>,
           <<a, V!Nil, b>>, <<a, b, a, b, a>>, <<V!List(<<a, b>>), V!List(<<b, b>>), V!List(<<a>>)>>}
Pair(k, v) == V!List(<<k, v>>)
Pairs == {<<Pair(a, b), Pair(a, a), Pair(b, x)>>, <<Pair(b, a), Pair(a, Pair(b, x)), Pair(a, b)>>,
          <<Pair(b, x), Pair(b, a), Pair(a, x), Pair(b, b), Pair(a, a)>>,
          <<Pair(a, Pair(a, x))>>, <<Pair(V!List(<<a>>), Pair(a, b))>>, <<>>}
Wilds == {V!Sym(0, 1), V!Sym(0, 2), V!Sym(0, 3)}
Patterns == UNION {[1..n -> Wilds \cup {a, V!List(<<V!Sym(0, 2)>>), V!List(<<a, V!Sym(0, 1)>>)}] : n \in 1..3}
              \cup {<<V!Nil>>, <<>>}
Some == {a, b, V!Nil, V!List(<<a>>), V!List(<<>>)}
Compared == {b, V!Nil, V!True, V!NaN, V!Half(3), V!Str(<<1>>), V!Str(<<1, 2>>), x, V!Ctx(1, 9),
             V!Arr(<<a, b>>), V!Arr(<<b>>), V!List(<<a, b>>), V!List(<<b>>)}
Indices == UNION {[1..n -> {-3, -2, -1, 0, 1, 2}] : n \in 1..2}

Fun == INSTANCE ListFunctions WITH Counts <- {-6, -3, -1, 0, 1, 2, 3}, NestLimit <- 2

\* One tree of up to five symbols; and two contexts with a cell that refers to symbols.
Tree == INSTANCE SymbolTree
          WITH Contexts <- {"MAIN"}, Main <- "MAIN", NamesOf <- "MAIN" :> 1..5,
               Cells <- {}, Modes <- {"replace"}, Protected <- {}, answer <- found
Ctx == INSTANCE SymbolTree
         WITH Contexts <- {"MAIN", "C"}, Main <- "MAIN",
              NamesOf <- "MAIN" :> {1, 2} @@ "C" :> {1, 2},
              Cells <- {"x"}, Modes <- {"replace", "ifUnused"},
              Protected <- {<<"C", 2>>}, answer <- found

\* Two descriptors, which four files, pipes and sockets are given in turn.
Soc == INSTANCE NetSessions WITH Fds <- {1, 2}, MaxObjects <- 4

\* Two connections with four lines between them.
Srv == INSTANCE Daemon
         WITH Lines <- {"expr", "error", "exit", "http", "cmd", "endcmd"},
              MaxConnections <- 2, MaxLines <- 4, received <- lines

Web == INSTANCE HttpExchange
         WITH Bodies <- {<<>>, <<"a">>, <<"a", "b">>, <<"a", "b", "c">>}, Names <- {"", "a", "cgi", "lost"},
              Codes <- {200, 204, 404}, MaxRedirects <- 3

\* Integers of 8 bits, and big integers of up to four digits in groups of three bits.
SeqsUpTo(S, n) == UNION {[1..k -> S] : k \in 0..n}
BigOf(s, digits) == [type |-> "big", sign |-> s, digits |-> digits]
Math == INSTANCE Numbers
          WITH Radix <- 2, Group <- 3, Width <- 8, Precision <- 5,
               Ints <- {-128, -127, -65, -2, -1, 0, 1, 3, 7, 8, 9, 64, 65, 72, 73, 100, 127},
               Bigs <- {BigOf(1, <<d>> \o r) : d \in {1, 7}, r \in SeqsUpTo({0, 3, 7}, 3)},
               Divisors <- {BigOf(s, <<d>> \o r) : s \in {-1, 1}, d \in {1, 4, 7}, r \in SeqsUpTo({0, 4, 7}, 2)}
                             \cup {BigOf(1, <<0>>), BigOf(-1, <<0>>)},
               Texts <- {s \o t \o l : s \in {<<>>, <<"-">>, <<"+">>}, t \in SeqsUpTo({"0", "1"}, 7) \ {<<>>}, l \in {<<>>, <<"L">>}}

\* Many pairs of terms, once; and a few, in up to three calls one after another.
Atom(n) == <<"atom", n>>
Var(n) == <<"var", n>>
Terms(s) == <<"list", s>>
Leaves == {Atom("a"), Var("X"), Var("Y"), Var("Z"), <<"any">>}
NoList == <<"no list">>
Once == INSTANCE Unification
          WITH Vars <- {"X", "Y", "Z"}, Protected <- {"Z"}, MaxCalls <- 1, stale <- leftover,
               Pairs <- {<<Terms(<<s, t>>), Terms(<<u, v>>)>> : s, t, u \in Leaves,
                           v \in Leaves \cup {Terms(<<>>), Terms(<<Var("X")>>), Terms(<<Var("Y"), Atom("a")>>)}}
                        \cup {<<Var("X"), Terms(<<Terms(<<Var("X")>>)>>)>>, <<Atom("a"), Terms(<<>>)>>,
                               <<Terms(<<Var("X"), Var("Y"), Var("Z")>>),
                                 Terms(<<Terms(<<Var("Y")>>), Terms(<<Var("Z")>>), Atom("a")>>)>>},
               Environments <- {<<>>, <<<<Var("X"), Atom("a")>>>>, <<<<Var("Y"), Var("X")>>, <<Var("X"), Atom("b")>>>>}
Often == INSTANCE Unification
           WITH Vars <- {"X", "Y", "Z"}, Protected <- {"Z"}, MaxCalls <- 3, stale <- leftover,
                Pairs <- {<<Terms(<<Var("X"), Var("Y")>>), Terms(<<Atom("a"), Var("X")>>)>>,
                          <<Terms(<<Var("X"), Var("Z"), Var("Y")>>), Terms(<<Atom("a"), Atom("b"), Terms(<<Var("X")>>)>>)>>,
                          <<Var("X"), Terms(<<Var("X")>>)>>},
                Environments <- {<<>>, <<<<Var("Y"), Var("X")>>, <<Var("X"), Atom("b")>>>>, <<<<Var("X"), Atom("a")>>, NoList>>}

\* A text, a keyword, and tags of a few characters; strings of four are long, and a
\* file is read through a buffer of 20.
Row(n, c) == [i \in 1..n |-> c]
Read == INSTANCE Reader
          WITH Keyword <- <<"f">>, OpenTag <- <<"[", "t", "]">>, CloseTag <- <<"[", "/", "]">>,
               MaxString <- 4, Slack <- 16, Size <- 20,
               Names <- SeqsUpTo({"a", "f", "1", ":", "[", "]", "'", "-", ".", ";"}, 2)
                          \cup {<<"[", "a", "]">>, <<"[", "t", "]">>},
               Strings <- SeqsUpTo({"a", "\"", "\\", "\n", "bell", "\\0", "0"}, 3)
                            \cup {<<"a", "\"", "[", "/", "a">>, <<"[", "/", "[", "/">>,
                                  <<"a", "[", "/", "]", "a">>, <<"\\0", "a", "a", "a">>},
               Numbers <- {-110, -15, -10, -1, 0, 1, 5, 10, 15, 100, 105},
               Texts <- SeqsUpTo({"a", "(", ")", "'", "f", " "}, 5)
                          \cup SeqsUpTo({"a", ":", "[", "]", "{", "}", ";", "0", "8", "1", "b", "-", "."}, 3),
               Gaps <- {Row(n, " ") : n \in {1, 5, 9, 15, 20, 30}}
                         \cup {<<";">> \o Row(n, "c") \o <<"\n">> : n \in {0, 3, 8, 10, 13, 16, 24}}
                         \cup {Row(n, " ") \o <<";">> \o Row(6, "c") \o <<"\n">> : n \in 1..8}

\* Documents of up to three nodes in two levels, and values of two.
Name == <<"a">>
XmlLeaf == {<<"text", <<"t">>>>, <<"text", <<" ">>>>, <<"comment", <<"c">>>>, <<"cdata", <<"<", "/", "a", ">">>>>,
            <<"instruction", Name>>, <<"type", <<"[", "<", "a", ">", "]">>>>, <<"empty", <<"a", ":", "b">>, <<>>>>,
            <<"empty", Name, <<<<<<"x">>, <<"1">>>>, <<<<"y">>, <<>>>>>>>>, <<"element", Name, <<>>, <<>>>>}
XmlNodes == {s \in SeqsUpTo(XmlLeaf, 2) : \A k \in 1..Len(s) - 1 : ~(s[k][1] = "text" /\ s[k + 1][1] = "text")}
Open == <<"<", "a", ">">>
Close == <<"<", "/", "a", ">">>
Xml == INSTANCE XmlParser
         WITH Options <- {{}, {"no white space"}, {"no empty attributes"}, {"no comments"}, {"symbols"}, {"sxml"},
                          {"sxml", "no empty attributes"},
                          {"no white space", "no empty attributes", "no comments", "symbols", "sxml"}},
              Documents <- {<<<<"element", Name, attributes, s>>>> :
                              attributes \in {<<>>, <<<<<<"x">>, <<"=">>>>>>}, s \in XmlNodes}
                           \cup {<<<<"element", Name, <<>>, <<l, <<"element", Name, <<>>, <<m>>>>>>>>,
                                   <<"text", <<" ">>>>, <<"empty", Name, <<>>>>>> : l, m \in XmlLeaf},
              Pieces <- SeqsUpTo({Open, Close, <<"<", "a", "b", ">">>, <<"<", "/", "a", "b", ">">>,
                                  <<"<", "a", "/", ">">>, <<"t">>}, 4)
                        \cup {<<s, t, u>> : s, t \in {Open, Close, <<"t">>, <<"/", " ">>},
                                            u \in {<<"<", "a">>, <<"<", "/", "a">>}}

JsonLeaf == {<<"int", <<"1">>>>, <<"float", <<"-", "0", ".", "1", "e", "-", "1">>>>, <<"string", <<>>>>,
             <<"string", <<"a", "\n", "\"", "A">>>>, <<"symbol", "true">>, <<"symbol", "null">>,
             <<"list", <<>>>>, <<"object", <<>>>>}
Keyed(k, v) == <<<<"string", k>>, v>>
JsonNodes == {<<"list", s>> : s \in SeqsUpTo(JsonLeaf, 2)} \cup {<<"object", <<Keyed(<<"a">>, v)>>>> : v \in JsonLeaf}
               \cup {<<"object", <<Keyed(<<"a">>, v), Keyed(<<>>, w)>>>> : v, w \in JsonLeaf}
Json == INSTANCE JsonParser
          WITH Values <- JsonLeaf \cup JsonNodes
                           \cup {<<"list", <<v, <<"object", <<Keyed(<<>>, w)>>>>>>>> : v \in JsonNodes, w \in JsonLeaf},
               Texts <- SeqsUpTo({"[", "]", "{", "}", ",", ":", "\"", "1", "true", " ", "a"}, 4)
                          \cup SeqsUpTo({"1", "-", ".", "e", "+", " ", "cr"}, 4)
                          \cup {<<"{">> \o s \o <<"}">> : s \in SeqsUpTo({"\"", ":", ",", "1", "a", " "}, 4)}
                          \cup {<<"{", "\"", "a", "\"">> \o s : s \in SeqsUpTo({":", "}", ",", "1", "\"", "cr"}, 5)}
                          \cup {<<"[">> \o s : s \in SeqsUpTo({"[", "]", ",", "1", "cr", " "}, 5)}
                          \cup {<<"\"">> \o s : s \in SeqsUpTo({"a", "\\n", "\\uBAD", "\\\"", "\""}, 3)}

\* Two contexts and up to four symbols, of which two have values.
Built == {"set", "constant", "define", "global", "sym", "context"}
Kept == {<<"MAIN", "A">>, <<"MAIN", "z">>, <<"B", "A">>, <<"B", "B">>, <<"D", "z">>, <<"D", "a b">>}
KeptValues == {<<"number">>, <<"context", "B">>, <<"context", "D">>, <<"quote", <<"B", "A">>>>, <<"symbol", <<"MAIN", "B">>>>,
               <<"list", <<<<"MAIN", "D">>>>>>} \cup {<<kd, <<r>>>> : kd \in {"list", "lambda"}, r \in Kept} \cup {<<"symbol", r>> : r \in Kept}
NamesIn(v) == CASE v[1] \in {"list", "lambda"} -> {v[2][1]} [] v[1] \in {"symbol", "quote"} -> {v[2]} [] OTHER -> {}
Started == [s \in {<<"MAIN", n>> : n \in Built \cup {"MAIN", "B", "D"}} |-> IF s[2] \in Built THEN <<"primitive">> ELSE <<"context", s[2]>>]
EnvOf(s, v, t, constants, globals) ==
  [value |-> (s :> v) @@ (t :> <<"number">>) @@ Started @@ [r \in NamesIn(v) |-> <<"nil">>],
   protected |-> DOMAIN Started \cup constants,
   global |-> DOMAIN Started \cup {g \in globals : g[1] = "MAIN"}]
Save == INSTANCE SaveLoad
          WITH Order <- <<"A", "B", "D", "MAIN", "a b", "constant", "context", "define", "global", "set", "sym", "z">>,
               Primitives <- Built, Illegal <- {"a b"}, Into <- {"MAIN", "D"},
               Environments <- {EnvOf(s, v, t, IF constant THEN {s} ELSE {}, globals) :
                                  s \in Kept, v \in KeptValues, constant \in BOOLEAN, globals \in {{}, Kept},
                                  t \in {<<"MAIN", "A">>, <<"B", "A">>, <<"B", "D">>, <<"B", "set">>, <<"D", "define">>}}

\* Short texts of two letters, files that are searched three characters at a time, and
\* integers of 8 bits.
Str == INSTANCE Strings
         WITH Texts <- SeqsUpTo({"a", "b"}, 5) \cup SeqsUpTo({"a", " "}, 3),
              Patterns <- {<<"key", k>> : k \in {<<>>, <<"a">>, <<"a", "a">>, <<"a", "b">>, <<"b", "a", "b">>}}
                            \cup {<<"run", "a">>, <<"any", "a">>},
              Replacements <- {<<>>, <<"x">>, <<"x", "y">>, <<"it">>}, SearchSize <- 3, Width <- 8,
              Numerals <- SeqsUpTo({"0", "1", "x", "b", "-", " ", "f"}, 4),
              Whole <- {-300, -256, -255, -129, -128, -127, -1, 0, 1, 9, 10, 99, 127, 128, 255, 256, 300, 1000}

\* Bytes of two bits.
IntOf(n) == <<"int", n>>
Bytes(s) == <<"string", s>>
Pac == INSTANCE Pack
         WITH Base <- 4,
              Formats <- SeqsUpTo({"<", ">", "b", "c", "d", "u", "s", "n", "l", "f", "q", " "}, 3)
                           \cup {s \o t : s \in {<<">">>, <<"<">>, <<>>},
                                          t \in {<<"l", "u">>, <<"L", "d">>, <<"l", "f">>, <<"s", "1", "0">>, <<"s", "0">>,
                                                 <<"n", "2", "u">>, <<"s", "3", "L", "u">>, <<"d", ">", "u", "<", "l", "d">>}},
              Rows <- {<<>>, <<<<"list", <<>>>>, IntOf(1)>>, <<IntOf(5)>>, <<IntOf(27), IntOf(-1), IntOf(6)>>,
                       <<<<"list", <<IntOf(1), IntOf(3)>>>>, IntOf(2)>>, <<Bytes(<<1, 2>>), Bytes(<<1, 2, 3, 0>>)>>,
                       <<<<"float", 256>>, <<"float", 40704>>>>, <<IntOf(1000), Bytes(<<>>), IntOf(-70)>>,
                       <<<<"float", 512>>, IntOf(-32768)>>}

\* Formats of up to three whole pieces, and of any four characters.
Form(type, chars) == [type |-> type, chars |-> chars]
OfType(type) == [type |-> type, n |-> 1]
Fmt == INSTANCE Format
         WITH Pieces <- SeqsUpTo({Form("char", <<"a">>), Form("char", <<"d">>), Form("percent", <<"%", "%">>),
                                  Form("int", <<"%", "d">>), Form("int", <<"%", "-", "+", "1", "l", "l", "x">>),
                                  Form("float", <<"%", "+", "1", ".", "1", "f">>), Form("string", <<"%", "'", "1", "s">>)}, 3),
              Texts <- SeqsUpTo({"%", "d", "s", "l", "1", ".", "-"}, 4),
              Rows <- {[k \in DOMAIN types |-> OfType(types[k])] :
                         types \in {<<>>, <<"int">>, <<"float", "string">>, <<"big", "int">>, <<"string">>, <<"int", "big">>,
                                    <<"int", "nil", "int">>, <<"int", "string", "float">>}}
                        \cup {<<[type |-> "list", values |-> <<OfType("int"), OfType("float")>>], OfType("int")>>,
                              <<[type |-> "list", values |-> <<>>]>>}

\* Characters of every number of bytes, and bytes that begin, continue and end them.
Uni == INSTANCE Utf8
         WITH Codes <- SeqsUpTo({1, 127, 128, 2047, 2048, 65535, 65536, 2097151, 2097152, 67108863, 67108864, 2147483647}, 3)
                         \cup {[i \in 1..n |-> c] : n \in 4..16, c \in {127, 65535, 65536, 2097151, 2097152, 67108864}},
              Texts <- SeqsUpTo({0, 65, 191, 192, 224, 240}, 4) \cup {<<65, 122, 97>>, <<122, 195, 164, 90>>}
                         \cup {<<c>> \o [i \in 1..n |-> 128 + i] : c \in {224, 239, 240, 247, 248, 252, 254, 255}, n \in 0..6},
              Counts <- {-2, 0, 1, 2}

\* A context of three symbols that refer to each other, copied to a new context or to one
\* with symbols of the same names.
Fs(n) == <<"F", n>>
Ts(n) == <<"T", n>>
ToSymbol(s) == <<"symbol", s>>
CellsOf(S) == {<<"number", 1>>} \cup {ToSymbol(Fs(n)) : n \in S} \cup {<<"list", <<ToSymbol(Fs("F")), ToSymbol(<<"MAIN", "x">>)>>>>}
                \cup {<<"list", <<<<"dynamic", Fs(n)>>, ToSymbol(Fs("a"))>>>> : n \in S}
NameSpace(values, before, constants) ==
  LET contexts == {<<"MAIN", c>> : c \in {"F", "MAIN"} \cup (IF before = {} THEN {} ELSE {"T"})} IN
  [value |-> [s \in {Fs(n) : n \in DOMAIN values} |-> values[s[2]]] @@ [s \in {Ts(n) : n \in before} |-> <<"number", 7>>]
             @@ [s \in contexts |-> <<"context", s[2]>>] @@ <<"MAIN", "+">> :> <<"number", 0>>
             @@ <<"MAIN", "x">> :> <<"list", <<ToSymbol(<<"MAIN", "+">>), ToSymbol(<<"MAIN", "x">>)>>>>,
   protected |-> contexts \cup (({Fs(n) : n \in DOMAIN values} \cup {Ts(n) : n \in before}) \cap constants)]
Nam == INSTANCE Namespaces
         WITH Main <- "MAIN", From <- "F", Order <- <<"F", "T", "a", "q", "z">>, Builtin <- {<<"MAIN", "+">>},
              Targets <- {<<"MAIN", "T">>, <<"MAIN", "F">>, <<"MAIN", "x">>},
              Sources <- {Fs("F"), Fs("a"), Fs("z"), <<"MAIN", "x">>}, Contexts <- {"F", "T"}, Names <- {"a", "q"},
              Environments <- {NameSpace(values, before, constants) :
                                 values \in [{"F", "a", "z"} -> CellsOf({"a", "z"})] \cup [{"F", "T", "a"} -> CellsOf({"T"})],
                                 before \in {{}, {"T"}, {"a"}, {"F", "z"}}, constants \in {{}, {Fs("a"), Fs("F"), Ts("z")}, {Ts("a"), Ts("T")}}}

\* A constant and a variable; two methods deep, and one throw or error.
ASSUME ObjectsAssumption

Init == /\ part \in {"lists", "tree", "contexts", "sockets", "daemon", "http", "numbers", "text", "xml", "json",
                     "save", "strings", "pack", "format", "utf8", "unify once", "unify often", "objects", "namespaces"}
        /\ CASE part = "http" -> Web!Init
             [] part = "numbers" -> Math!Init
             [] part = "text" -> Read!Init
             [] part = "json" -> Json!Init
             [] part = "save" -> Save!Init
             [] part = "strings" -> Str!Init
             [] part = "pack" -> Pac!Init
             [] part = "format" -> Fmt!Init
             [] part = "utf8" -> Uni!Init
             [] part = "namespaces" -> Nam!Init
             [] OTHER -> Fun!Init
        /\ Xml!Init /\ Once!Init /\ ObjectsInit
        /\ IF part = "contexts" THEN Ctx!Init ELSE Tree!Init
        /\ Soc!Init /\ Srv!Init /\ (part # "daemon" => ~daemonMode /\ ~httpMode /\ ~connectionTimeout)
Next == /\ UNCHANGED part
        /\ part # "xml" => UNCHANGED xmlCallback
        /\ part # "objects" => UNCHANGED objectVars
        /\ \/ /\ UNCHANGED <<treeVars, socketVars, daemonVars, termVars>>
              /\ \/ part = "lists" /\ Fun!Next
                 \/ part = "objects" /\ ObjectsNext /\ UNCHANGED <<ask, answer>>
                 \/ part = "http" /\ Web!Next
                 \/ part = "numbers" /\ Math!Next
                 \/ part = "text" /\ Read!Next
                 \/ part = "json" /\ Json!Next
                 \/ part = "save" /\ Save!Next
                 \/ part = "strings" /\ Str!Next
                 \/ part = "pack" /\ Pac!Next
                 \/ part = "format" /\ Fmt!Next
                 \/ part = "utf8" /\ Uni!Next
                 \/ part = "namespaces" /\ Nam!Next
                 \/ part = "xml" /\ Xml!Next
           \/ /\ UNCHANGED <<ask, answer, socketVars, daemonVars, termVars>>
              /\ \/ part = "tree" /\ Tree!Next
                 \/ part = "contexts" /\ Ctx!Next
           \/ part = "sockets" /\ Soc!Next /\ UNCHANGED <<ask, answer, treeVars, daemonVars, termVars>>
           \/ part = "daemon" /\ Srv!Next /\ UNCHANGED <<ask, answer, treeVars, socketVars, termVars>>
           \/ /\ UNCHANGED <<ask, answer, treeVars, socketVars, daemonVars>>
              /\ \/ part = "unify once" /\ Once!Next
                 \/ part = "unify often" /\ Often!Next
Spec == Init /\ [][Next]_vars

\* compareCells orders the values of all types, and sort sorts by it; the set
\* functions and count agree with the sets and bags: see ListFunctions.
OrdersExact == part = "lists" => Fun!OrderTotal /\ Fun!SortsStable /\ Fun!SetFunctionsAgree /\ Fun!CountsAgree

\* What match, find-all, ref, assoc and filter find is all there is: see
\* ListFunctions.
SearchesExact == part = "lists" => Fun!MatchAgrees /\ Fun!FindsAll /\ Fun!RefsExact /\ Fun!AssocExact /\ Fun!FiltersAgree

\* push, pop, set-ref, replace, rotate, flat and the functions that take lists
\* apart change what they should and nothing else, and arrays are filled by rows
\* and answer as lists do: see ListFunctions.
ChangesExact ==
  part = "lists" =>
    /\ Fun!PopUndoesPush /\ Fun!SetRefExact /\ Fun!ReplaceAgrees /\ Fun!RotateAgrees
    /\ Fun!FlatAgrees /\ Fun!ChunksRebuild /\ Fun!SlicesAgree /\ Fun!SelectAgrees /\ Fun!MapRows
    /\ Fun!ArrayRowMajor /\ Fun!ArraysLikeLists

\* The trees are red-black trees of the live symbols, and no cell keeps a freed
\* symbol; and contexts are copied exactly: see SymbolTree and Namespaces.
TreesExact == /\ part = "tree" => Tree!RedBlack
              /\ part = "contexts" => Ctx!RedBlack /\ Ctx!NoDanglingSymbol
              /\ part = "namespaces" => Nam!NamespacesExact

\* The sessions are those of the open descriptors, a server does what each
\* connection asks for, and HTTP carries whole bodies: see NetSessions, Daemon
\* and HttpExchange.
NetworkExact ==
  /\ part = "sockets" => Soc!SessionsExact /\ Soc!ListedExact
  /\ part = "daemon" => Srv!ConnectionsExact
  /\ part = "http" => Web!HttpExact

\* Arithmetic on integers and big integers, and unification, compute what they
\* should wherever the code does not say otherwise: see Numbers and Unification.
NumbersExact == /\ part = "numbers" => Math!NumbersExact
                /\ part = "unify once" => Once!UnifyExact
                /\ part = "unify often" => Often!UnifyExact

\* new copies every symbol, and what it refers to: see Namespaces.
CopiesAll == part = "namespaces" => Nam!CopiesAll

\* Source text, XML and JSON are read as what they say, what is saved is loaded as it
\* was, and searching, splitting, packing, formatting and converting strings loses
\* nothing: see Reader, XmlParser, JsonParser, SaveLoad, Strings, Pack, Format and Utf8.
TextsExact == /\ part = "text" => Read!ReaderExact
              /\ part = "xml" => Xml!XmlExact
              /\ part = "json" => Json!JsonExact
              /\ part = "save" => Save!SaveLoadExact
              /\ part = "strings" => Str!StringsExact
              /\ part = "pack" => Pac!PackExact
              /\ part = "format" => Fmt!FormatExact
              /\ part = "utf8" => Uni!Utf8Exact

\* The trees implement the table of symbols: see SymbolTree.
ImplementsTable == [][part = "contexts" => Ctx!TableStep]_vars
=============================================================================
