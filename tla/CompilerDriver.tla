--------------------------- MODULE CompilerDriver ---------------------------
(***************************************************************************)
(* The binary compiler's run: compiler/main.c and tinycc_integration/      *)
(* tinycc_wrapper.c, for processes that share the file system.  Each       *)
(* allocation, file and program a step needs may be missing.               *)
(***************************************************************************)
EXTENDS Integers, FiniteSets

CONSTANTS Procs,
          Jobs,        \* Jobs[p]: "compile", the program; "quick" and "validate", the wrapper's own entries
          MaxSecond,   \* bound on time()
          None

VARIABLES
  pc,          \* pc[p]: where the process is
  held,        \* held[p]: what it has allocated or initialized and not released
  name,        \* name[p]: the second in its temporary file's name
  source,      \* source[n]: whose C code the file named after second n holds
  executable,  \* executable[p]: whose code the output file of p runs, or None
  code,        \* code[p]: its exit code or result, or None
  read,        \* read[p]: whose code tcc read for p
  second

cdvars == <<pc, held, name, source, executable, code, read, second>>

Seconds == 0..MaxSecond
Systems == {"memory", "errors", "logger", "config"}

Init == /\ pc = [p \in Procs |-> "start"] /\ held = [p \in Procs |-> {}]
        /\ name = [p \in Procs |-> None] /\ source = [n \in Seconds |-> None]
        /\ executable = [p \in Procs |-> None] /\ code = [p \in Procs |-> None]
        /\ read = [p \in Procs |-> None] /\ second = 0

Goto(p, place) == pc' = [pc EXCEPT ![p] = place]
Take(p, things) == held' = [held EXCEPT ![p] = @ \cup things]
Drop(p, things) == held' = [held EXCEPT ![p] = @ \ things]
Exit(p, c) == code' = [code EXCEPT ![p] = c]
NoFiles == UNCHANGED <<name, source, executable, read, second>>
Result == {"result", "output_message", "error_message", "executable_path"}
After == [q \in {"compile", "quick", "validate"} |-> IF q = "compile" THEN "report" ELSE "answer"]

\* parse_arguments: help and version end the run, wrong options too.
parse_arguments(p) ==
  /\ pc[p] = "start" /\ Jobs[p] = "compile"
  /\ \/ Goto(p, "done") /\ \E c \in {0, 1} : Exit(p, c)
     \/ Goto(p, "memory") /\ UNCHANGED code
  /\ UNCHANGED held /\ NoFiles

\* initialize_infrastructure: what is initialized stays when the next fails.
initialize(p, system, next) ==
  /\ pc[p] = system
  /\ \/ Take(p, {system}) /\ Goto(p, next) /\ UNCHANGED code
     \/ Goto(p, "done") /\ Exit(p, 1) /\ UNCHANGED held
  /\ NoFiles
initialize_infrastructure(p) == \/ initialize(p, "memory", "errors") \/ initialize(p, "errors", "logger")
                                \/ initialize(p, "logger", "config") \/ initialize(p, "config", "parse")

Fail(p) == Goto(p, "leaks") /\ Exit(p, 1)

\* compile_file up to the wrapper: the tree, the wrapper, the generator, the code.
ParseFile(p) ==
  /\ pc[p] = "parse"
  /\ \/ Take(p, {"ast"}) /\ Goto(p, "tinycc") /\ UNCHANGED code
     \/ Fail(p) /\ UNCHANGED held
  /\ NoFiles

\* tinycc_init asks for tcc; its error text is kept.
tinycc_init(p) ==
  /\ pc[p] = "tinycc" \/ (pc[p] = "start" /\ Jobs[p] # "compile")
  /\ \/ Goto(p, IF Jobs[p] = "compile" THEN "codegen" ELSE "result") /\ UNCHANGED <<held, code>>
     \/ /\ held' = [held EXCEPT ![p] = (@ \ {"ast"}) \cup {"last_error"}]
        /\ IF Jobs[p] = "compile" THEN Fail(p) ELSE Goto(p, "done") /\ Exit(p, 1)
  /\ NoFiles

codegen_create(p) ==
  /\ pc[p] = "codegen"
  /\ \/ Take(p, {"codegen"}) /\ Goto(p, "generate") /\ UNCHANGED code
     \/ Drop(p, {"ast"}) /\ Fail(p)
  /\ NoFiles

codegen_generate(p) ==
  /\ pc[p] = "generate"
  /\ \/ Take(p, {"c_code"}) /\ Goto(p, "result") /\ UNCHANGED code
     \/ Drop(p, {"ast", "codegen"}) /\ Fail(p)
  /\ NoFiles

\* tinycc_compile_to_executable gives up: what it has allocated is freed and the
\* source file removed.  An error message replaces the one before.
Remove(p) == source' = [source EXCEPT ![name[p]] = None]
GiveUp(p, message, more) ==
  /\ Goto(p, After[Jobs[p]])
  /\ held' = [held EXCEPT ![p] = (@ \ (Result \cup {"temp_c_file", "output_file", "cmd"} \cup more))
                                   \cup (IF message THEN {"last_error"} ELSE {})]
  /\ UNCHANGED <<code, name, executable, read, second>>

AllocateResult(p) ==
  /\ pc[p] = "result"
  /\ \/ Take(p, {"result"}) /\ Goto(p, "name") /\ UNCHANGED <<code, source>> /\ UNCHANGED <<name, executable, read, second>>
     \/ GiveUp(p, TRUE, {}) /\ UNCHANGED source

\* generate_temp_filename: a counter of the process and the second, no more.
generate_temp_filename(p) ==
  /\ pc[p] = "name"
  /\ \/ /\ Take(p, {"temp_c_file"}) /\ Goto(p, "save") /\ name' = [name EXCEPT ![p] = second]
        /\ UNCHANGED <<code, source, executable, read, second>>
     \/ GiveUp(p, TRUE, {}) /\ UNCHANGED source

\* Mutant: a file that could not be written whole is left.
tinycc_save_partly(p) ==
  /\ pc[p] = "save"
  /\ source' = [source EXCEPT ![name[p]] = p]
  /\ \/ Goto(p, "output") /\ UNCHANGED <<held, code, name, executable, read, second>>
     \/ GiveUp(p, TRUE, {})

\* tinycc_save_to_temp_file: opened, written, and removed again when the disk
\* is full.
tinycc_save_to_temp_file(p) ==
  /\ pc[p] = "save"
  /\ \/ /\ source' = [source EXCEPT ![name[p]] = p] /\ Goto(p, "output")
        /\ UNCHANGED <<held, code, name, executable, read, second>>
     \/ GiveUp(p, TRUE, {}) /\ UNCHANGED source
     \/ GiveUp(p, TRUE, {}) /\ Remove(p)

AllocateCommand(p) ==
  /\ pc[p] \in {"output", "cmd"}
  /\ LET thing == IF pc[p] = "output" THEN "output_file" ELSE "cmd" IN
     \/ /\ Take(p, {thing}) /\ Goto(p, IF pc[p] = "output" THEN "cmd" ELSE "popen")
        /\ UNCHANGED <<code, source, name, executable, read, second>>
     \/ GiveUp(p, FALSE, {}) /\ Remove(p)

\* popen: the shell starts tcc, which reads the source file.
Popen(p) ==
  /\ pc[p] = "popen"
  /\ \/ /\ Goto(p, "tcc") /\ Take(p, {"pipe"}) /\ UNCHANGED <<code, source, name, executable, read, second>>
     \/ GiveUp(p, TRUE, {}) /\ Remove(p)

TccReads(p) ==
  /\ pc[p] = "tcc"
  /\ read' = [read EXCEPT ![p] = source[name[p]]]
  /\ Goto(p, "fill") /\ UNCHANGED <<held, code, source, name, executable, second>>

\* tcc ends, pclose gives its exit code, the result is filled in and the source
\* file removed.  There may be output or none.
FillResult(p) ==
  /\ pc[p] = "fill"
  /\ \E success \in BOOLEAN, output \in BOOLEAN :
       /\ success => read[p] # None
       /\ executable' = [executable EXCEPT ![p] = IF success THEN read[p] ELSE @]
       /\ held' = [held EXCEPT ![p] = (@ \ {"pipe", "temp_c_file", "output_file", "cmd"})
            \cup (IF output THEN {IF success THEN "output_message" ELSE "error_message"} ELSE {})
            \cup (IF success THEN {"executable_path"} ELSE {})]
       /\ Exit(p, IF success THEN 0 ELSE 1)
  /\ Remove(p)
  /\ Goto(p, After[Jobs[p]]) /\ UNCHANGED <<name, read, second>>

\* Mutant: the result itself is kept.
ReportKeeps(p) ==
  /\ pc[p] = "report"
  /\ Drop(p, {"c_code", "codegen", "ast"})
  /\ Goto(p, "leaks") /\ Exit(p, IF "result" \in held[p] /\ code[p] = 0 THEN 0 ELSE 1)
  /\ NoFiles

\* The end of compile_file: only the result itself is freed, not its texts.
Report(p) ==
  /\ pc[p] = "report"
  /\ Drop(p, {"result", "c_code", "codegen", "ast"})
  /\ Goto(p, "leaks") /\ Exit(p, IF "result" \in held[p] /\ code[p] = 0 THEN 0 ELSE 1)
  /\ NoFiles

\* tinycc_quick_compile_and_run, whose program is run, and removed unless its file was
\* named, and tinycc_validate_syntax; the result is freed with tinycc_free_result.
Answer(p) ==
  /\ pc[p] = "answer"
  /\ Drop(p, Result)
  /\ \/ executable' = [executable EXCEPT ![p] = None]
     \/ Jobs[p] = "quick" /\ UNCHANGED executable
  /\ Exit(p, IF "result" \in held[p] /\ code[p] = 0 THEN 0 ELSE 1)
  /\ Goto(p, "done") /\ UNCHANGED <<name, source, read, second>>

\* memory_check_leaks, then cleanup_infrastructure.
cleanup_infrastructure(p) ==
  /\ pc[p] = "leaks"
  /\ Drop(p, Systems)
  /\ Goto(p, "done") /\ UNCHANGED code /\ NoFiles

\* The process is killed.
Kill(p) ==
  /\ pc[p] \notin {"start", "done", "killed"}
  /\ Goto(p, "killed")
  /\ held' = [held EXCEPT ![p] = {}]
  /\ UNCHANGED code /\ NoFiles

Tick == second < MaxSecond /\ second' = second + 1
          /\ UNCHANGED <<pc, held, name, source, executable, code, read>>

Run(p) ==
  \/ parse_arguments(p) \/ initialize_infrastructure(p) \/ ParseFile(p) \/ tinycc_init(p)
  \/ codegen_create(p) \/ codegen_generate(p) \/ AllocateResult(p) \/ generate_temp_filename(p)
  \/ tinycc_save_to_temp_file(p) \/ AllocateCommand(p) \/ Popen(p) \/ TccReads(p) \/ FillResult(p)
  \/ Report(p) \/ Answer(p) \/ cleanup_infrastructure(p)

Next == Tick \/ \E p \in Procs : Run(p) \/ Kill(p)
----------------------------------------
Shares(p) == \E q \in Procs \ {p} : name[q] # None /\ name[q] = name[p]

\* Whatever is missing on the way, a run that ends removes its source file, and
\* one that reports success has made an executable of its own program: unless
\* another one named its file in the same second.
OwnProgram == \A p \in Procs : pc[p] = "done" /\ ~Shares(p) =>
  /\ name[p] # None => source[name[p]] = None
  /\ Jobs[p] = "compile" /\ code[p] = 0 /\ name[p] # None => executable[p] = p
  /\ executable[p] \in {p, None}

\* A run that ends has released what it allocated, except the texts of the
\* result it frees and the last error's; the systems it initialized stay only
\* when the next one could not be.
Released == \A p \in Procs : pc[p] = "done" =>
  /\ held[p] \subseteq {"output_message", "error_message", "executable_path", "last_error"} \cup Systems
  /\ held[p] \cap Systems # {} => code[p] = 1
  /\ Jobs[p] # "compile" => held[p] \subseteq {"last_error"}
=============================================================================
