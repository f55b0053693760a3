------------------------------ MODULE MCCompiler ------------------------------
(***************************************************************************)
(* One run for the components of the binary compiler, which are checked    *)
(* one by one: part says which a behaviour is about.                       *)
(***************************************************************************)
EXTENDS Integers, Sequences, FiniteSets, TLC

CONSTANT None     \* NULL, and what is not there

VARIABLES
  part,
  manager, block_list, block, stats, memory, intact, held,
  handlers, error_history, history_count, running, reported, called,
  initialized, min_level, log_file, log, backups, clock, accepted, overwritten, misused,
  items, copies, leaked, settings, sets,
  input, lexer, tokens,
  text, answer,
  program, generated,
  pc, taken, name, source, executable, code, read, second

Off == 0     \* a variable of a part that is not run

Mem == INSTANCE MemoryManager
         WITH Pointers <- {"p1", "p2", "p3"}, Sizes <- {0, 1, 2}, Types <- {"ast", "temp"}, NULL <- None, MaxUsage <- 6,
              Configs <- {[max_memory_limit |-> 4, enable_tracking |-> TRUE, enable_bounds_checking |-> TRUE],
                          [max_memory_limit |-> 0, enable_tracking |-> TRUE, enable_bounds_checking |-> FALSE]}
Run == INSTANCE CompilerRuntime
         WITH Handlers <- {1, 2}, Histories <- {1, 2}, MaxReports <- 4,
              MaxFileSize <- 2, MaxLines <- 7, MaxClock <- 2,
              Keys <- {"k1", "k2"}, Numbers <- {1}, Texts <- {2}, MaxSets <- 3, None <- None

Small == {"(", ")", "x", "1"}
Forms == {"if", "while", "when", "unless", "set", "define"}
Texts == UNION {[1..n -> Small \cup {"'", "#"}] : n \in 0..3}
           \cup {<<"(", f>> \o s : f \in Forms, s \in UNION {[1..n -> Small] : n \in 0..4}}
           \cup {<<"(", "define", "(">> \o s \o t : s \in UNION {[1..n -> Small] : n \in 0..3},
                                                   t \in {<<>>, <<")">>, <<")", "1", ")">>, <<")", "#">>}}
           \cup {<<"(", "x", "1", "x", "1", "1", "1", ")", "x">>, <<"(", "1", "(", "x", "1", ")", "x", ")">>,
                 <<"(", "if", "(", "x", ")", "(", "unless", "x", "1", ")", "'", "x", ")", "1">>,
                 <<"1", "x", "1", "x", "(", "set", "x", "(", "x", "1", ")", ")">>}
Par == INSTANCE CompilerParser
         WITH Chars <- {"a", "7", "-", ".", "\"", "\\", ";", "\n", "#"}, MaxText <- 4,
              Texts <- Texts, Failures <- 0..9

Gen == INSTANCE CodeGenerator WITH Fuel <- 2, Programs <- {}
X == Gen!Sym(<<"x">>)
Leaves == {Gen!Number(2), Gen!Number(-3), X}
Pairs == Leaves \X Leaves
Sums == {Gen!Op(<<o>>, p) : o \in {"+", "-", "*", "max", "min"}, p \in Pairs}
          \cup {Gen!Op(<<o>>, <<e, Gen!Number(2)>>) : o \in {"/", "mod"}, e \in Leaves}
          \cup {Gen!Op(<<o>>, <<e>>) : o \in {"abs", "+"}, e \in Leaves}
Deep == {Gen!Op(<<"-">>, <<X, Gen!Op(<<"+">>, <<X, Gen!Number(2)>>), Gen!Number(2)>>),
         Gen!Op(<<"*">>, <<Gen!Op(<<"-">>, <<X, Gen!Number(2)>>), Gen!Op(<<"abs">>, <<Gen!Op(<<"-">>, <<X, Gen!Number(2)>>)>>)>>),
         Gen!Op(<<"f">>, <<X, Gen!Op(<<"f">>, <<Gen!Number(2), X>>)>>)}
Tests == {Gen!Op(<<o>>, p) : o \in {"=", "!=", "<", "<=", ">", ">="}, p \in Pairs}
Test(o) == Gen!Op(<<o>>, <<X, Gen!Number(2)>>)
Logic == {Gen!Op(<<o>>, <<Test("<"), Test("=")>>) : o \in {"and", "or"}}
           \cup {Gen!Op(<<"not">>, <<Test(">")>>),
                 Gen!Op(<<"or">>, <<Test("="), Gen!Op(<<"not">>, <<Test("<")>>), Test(">")>>)}
Shown(e) == Gen!Op(<<"println">>, <<e>>)
Lost == Shown(Gen!Op(<<"list">>, <<X, X>>))
Sized == Shown(Gen!Op(<<"length">>, <<Gen!Op(<<"list">>, <<X>>)>>))
Statements ==
  {Shown(e) : e \in Leaves \cup Sums \cup Deep \cup Tests \cup Logic} \cup {Lost, Sized, Gen!Number(2)}
    \cup {Gen!If(<<t, Shown(X), s>>) : t \in Tests \cup Logic, s \in {Shown(Gen!Number(2)), Lost}}
    \cup {Gen!If(<<Test("<"), s>>) : s \in {Lost, Gen!Set(<<"x">>, Gen!Number(2)), Gen!If(<<Test("="), Lost>>)}}
    \cup {Gen!While(<<t, s>>) : t \in {Test("<"), Test("!=")}, s \in {Shown(X), Lost, Gen!Set(<<"x">>, Gen!Number(2))}}
    \cup {Gen!If(<<<<"UNARY_OP", <<>>, 0, <<Test("<")>>>>, Shown(X)>>), Gen!Set(<<"y">>, Lost)}
f == Gen!Define(<<"f">>, <<Gen!Sym(<<"a">>), X>>, Gen!Op(<<"-">>, <<Gen!Sym(<<"a">>), X>>))
Programs == {<<Gen!Set(<<"x">>, Gen!Number(n)), s, f>> : n \in {2, 3}, s \in Statements}
              \cup {<<Gen!Set(<<"a", "-", "b">>, Gen!Number(2)), Gen!Set(<<"a", "?", "b">>, Gen!Number(3)), Sized>>,
                    <<Gen!Define(<<"f">>, <<>>, Gen!Op(<<"list">>, <<X, X>>)), Shown(X)>>,
                    <<Gen!Define(<<"?">>, <<>>, Gen!Number(3)), Shown(Gen!Op(<<"?">>, <<>>))>>,
                    <<Shown(X), Gen!Truth(1)>>}
Cgen == INSTANCE CodeGenerator WITH Fuel <- 2, Programs <- Programs

Dri == INSTANCE CompilerDriver
         WITH held <- taken, Procs <- {"p1", "p2"}, Jobs <- [p1 |-> "compile", p2 |-> "quick"],
              MaxSecond <- 1, None <- None

runtimeVars == <<manager, block_list, block, stats, memory, intact, held>>
errorVars == <<handlers, error_history, history_count, running, reported, called>>
logVars == <<initialized, min_level, log_file, log, backups, clock, accepted, overwritten, misused>>
configVars == <<items, copies, leaked, settings, sets>>
driverVars == <<pc, taken, name, source, executable, code, read, second>>
textVars == <<input, lexer, tokens, text, answer, program, generated>>
vars == <<part, runtimeVars, errorVars, logVars, configVars, textVars, driverVars>>

NoText == input = Off /\ lexer = Off /\ tokens = Off
NoParse == text = Off /\ answer = Off
NoCode == program = Off /\ generated = Off
Init ==
  /\ Mem!Init /\ Run!ErrorInit /\ Run!LogInit /\ Run!ConfigInit /\ Dri!Init
  /\ \/ part \in {"memory", "errors", "log", "config", "driver"} /\ NoText /\ NoParse /\ NoCode
     \/ part = "lexer" /\ Par!LexerInit /\ NoParse /\ NoCode
     \/ part = "parser" /\ NoText /\ Par!Init /\ NoCode
     \/ part = "generator" /\ NoText /\ NoParse /\ Cgen!Init

Next ==
  /\ UNCHANGED part
  /\ \/ part = "memory" /\ Mem!Next /\ UNCHANGED <<errorVars, logVars, configVars, textVars, driverVars>>
     \/ part = "errors" /\ Run!ErrorNext /\ UNCHANGED <<runtimeVars, logVars, configVars, textVars, driverVars>>
     \/ part = "log" /\ Run!LogNext /\ UNCHANGED <<runtimeVars, errorVars, configVars, textVars, driverVars>>
     \/ part = "config" /\ Run!ConfigNext /\ UNCHANGED <<runtimeVars, errorVars, logVars, textVars, driverVars>>
     \/ part = "driver" /\ Dri!Next /\ UNCHANGED <<runtimeVars, errorVars, logVars, configVars, textVars>>
     \/ /\ UNCHANGED <<runtimeVars, errorVars, logVars, configVars, driverVars>>
        /\ \/ part = "lexer" /\ Par!Scan /\ UNCHANGED <<text, answer, program, generated>>
           \/ part = "parser" /\ Par!Next /\ UNCHANGED <<input, lexer, tokens, program, generated>>
           \/ part = "generator" /\ Cgen!Next /\ UNCHANGED <<input, lexer, tokens, text, answer>>

Spec == Init /\ [][Next]_vars

\* The list of tracked blocks and its sums, the error history, the log through
\* rotations, and the settings are what their calls have made them: see
\* MemoryManager and CompilerRuntime.
RuntimeExact ==
  /\ part = "memory" => Mem!ListLinked /\ Mem!UsageExact
  /\ part = "errors" => Run!HistoryExact
  /\ part = "log" => Run!LinesKept /\ Run!FilesBounded
  /\ part = "config" => Run!TableExact /\ Run!CopiesOwned

\* Tokens cover the text, trees are what it says, and no block of a tree is lost
\* or freed twice: see CompilerParser.
FrontEndExact ==
  /\ part = "lexer" => Par!TokensCover /\ Par!StringsWhole /\ Par!PlaceRight
  /\ part = "parser" => Par!NodesOwned /\ Par!FailureContained /\ Par!ReadsWhole

\* The C program prints what newLISP would, and a run of the compiler leaves an
\* executable of its own program and nothing else: see CodeGenerator and
\* CompilerDriver.
BackEndExact ==
  /\ part = "generator" => Cgen!OutputAgrees /\ Cgen!BracesTell
  /\ part = "driver" => Dri!OwnProgram /\ Dri!Released
=============================================================================
