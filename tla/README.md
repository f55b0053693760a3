# newLISP in TLA+

TLA+ models of newLISP 10.7.5 (C), checked with TLC and, for the central invariants, proved with
TLAPS. Every definition is translated from the C source; `PROJECT.json` gives the lines.

- [The system](#the-system): its parts, what they keep, what makes them correct
- [What is modelled](#what-is-modelled): modules against code
- [What the runs check](#what-the-runs-check): bounds, fairness, results
- [What is proved](#what-is-proved)
- [Disagreements with the manual](#disagreements-with-the-manual)
- [What is not modelled, and why](#what-is-not-modelled-and-why)
- [Plan](#plan)

## The system

newLISP is an interpreter in one process and one thread. What makes it hard is that control moves in
ways the C call stack does not show (longjmp, signal handlers, callbacks), that it forks children that
share memory, sockets and signals with it, and that memory is managed without a garbage collector, by
the rule that every cell has one owner.

| Part | State | Operations | Interacts through | Correct when |
|---|---|---|---|---|
| Evaluator, `newlisp.c` | `recursionCount`, `currentContext`, result stack | `evaluateExpression`, `evaluateLambda`, `evaluateLambdaMacro` | everything | registers are put back on every way out |
| Variable environment, `newlisp.c` | symbol contents, `envStack`, `lambdaStack`, `errorJump`, `evalCatchFlag` | `let`, `letn`, `local`, loops, `catch`, `throw`, `sysEvalString`, `loadFile`, `reset` | longjmp | exactly the bindings of functions that were left are undone; a throw finds its catch |
| Objects, `newlisp.c` | `objCell`, `objSymbol` with its flags | `p_colon`, `p_self` | longjmp | `(self)` is the object of the method that runs; constants stay |
| Cell memory, `newlisp.c` | free list, blocks, result stack | `getCell`, `copyCell`, `deleteList`, `allocBlock`, `freeCellBlocks` | every value | a cell is free or has one owner |
| Symbol table, `nl-symbol.c` | a red-black tree per context | `findInsertSymbol`, `deleteSymbol`; `p_new`, `p_defineNew` | reader, evaluator | it is a dictionary, in order, balanced; a copied context is the same but for its name |
| Signals and timers, `newlisp.c`, `nl-debug.c` | `symHandler`, `currentSignal`, `traceFlag` | `signal_handler`, `p_signal`, `p_timer`, `traceEntry` | handlers run between evaluations, or at once when idle | no signal lost, no evaluation inside an allocation |
| Cilk API, `nl-filesys.c` | `mySpawnList`, result pages, sockets | `p_spawn`, `p_sync`, `p_abort` | fork, SIGCHLD, waitpid | every job's result reaches its symbol, once |
| Messages, `nl-filesys.c` | a socket pair per child | `p_send`, `p_receive` | the child list | messages arrive whole and in order; nobody waits for ever |
| Shares and semaphores, `nl-filesys.c` | mapped pages, `semop` | `p_share`, `p_semaphore` | processes | a reader sees a value that was written |
| Lists, `nl-list.c`, `nl-liststr.c` | `list->aux`, the cached last cell | `push`, `pop`, `extend`, `rotate`, `sort`, ... | cells | the cache is the last cell or empty |
| Reader, `newlisp.c` | stream position, token | `getToken`, `compileExpression` | symbol table | reading a printed value gives the value back |
| Strings, `nl-string.c`, `nl-utf8.c` | none; `format`'s string while it runs | `find`, `search`, `parse`, `replace`, `pack`, `format`, `utf8` | files | each agrees with its definition and leaves its arguments alone |
| Saving, XML, JSON, `newlisp.c`, `nl-xml-json.c` | `xmlCallback`, tag stack | `save`, `xml-parse`, `json-parse` | reader, symbol table | what is read is what was written |
| Sockets, `nl-sock.c` | `ioSessions` | `net-connect`, `net-listen`, `net-accept`, `close`, ... | kernel, peers | the sessions are the open descriptors |
| net-eval, server, HTTP, `nl-sock.c`, `nl-web.c`, `newlisp.c` | sessions of a call, the connection | `p_netEval`, `executeCommandLine`, `executeHTTPrequest`, `get-url`, ... | peers | every peer is answered or timed out; bodies arrive whole |
| Arithmetic, `nl-math.c` | `ws`, `mgu` of unify | big integers, 64-bit arithmetic, `unify` | | results equal the mathematical ones |
| Compiler, `binary_compiler_project/` | memory list, trees, error history, log, settings | parse, generate C, compile | files, C compiler | every block is freed once; the program prints what newLISP would |

The other parts (floating point, matrices, files, imports, Windows, scripts) are listed in `PROJECT.json` with
why they are left out. The hazards - the lines where something can go wrong that a test would hardly
reach - are listed there too, each with the properties that would catch it.

## What is modelled

### The Cilk API: `Futures`, `Spawn`, `MCSpawn`, `SpawnProofs`

`Futures` is the promise: a spawned expression is a task that another process computes; its future is
settled at most once, with what that task did, and only then its symbol is assigned. One case is weaker because the code is: a job
whose process was waited for elsewhere and whose pid a child of `process` or `fork` has then taken (`astray`) may be settled by the end of
that child, with what its own page holds. `Spawn` is the
code: `p_spawn` in the steps between its system calls (`SpawnPrepare`, `SpawnSignal`, `SpawnFork`,
`SpawnAdd`, and what ends it: `SpawnArgumentFails`, `SpawnSocketFails`, `SpawnForkFails`), `p_sync` as a loop around `waitpid(-1)` (`SyncStart`, `SyncReap`, `SyncInletReturns`,
`SyncDone`, `SyncTimeout`, `SyncNoChild`, `SyncNothing`), `p_abort`, and what may happen between any two
of them: children that write their page, exit or crash, the SIGCHLD handler with its own `waitpid`,
`wait-pid`, `signal`, children of `process` and `fork` whose pids mix with those of the list, a fork
or socketpair that fails, a result the reader rejects, and an uncaught error, which makes `main` install
the handlers again. `mySpawnList` is the set `listed`; since records are pushed at its front and jobs
are numbered in spawn order, the first record with a pid (`getSpawnedChild`) is the youngest (`Front`).
Pids are reused by the kernel once the child has been waited for. `orphans` counts the pages that no record leads to: `p_spawn`
maps the page before it looks at its arguments, and an error there (`refused`) leaves it. `task`, `future` and `refused` are history
variables.

### The variable environment: `DeepBinding`, `DynamicScope`, `MCDynamicScope`, `ScopeProofs`

newLISP keeps the current value of a variable in its symbol and saves the hidden value on `envStack`.
`DeepBinding` is what this is to mean: a stack of bindings on which a variable is its topmost binding,
and leaving a function removes the bindings made since it was entered. `DynamicScope` is the code. The C
stack is `activations`, one record per C function that binds (`evaluateLambda`, `let`, `loop`,
`dolist`), or saves registers and sets `errorJump` (`p_catch`, `sysEvalString`, `loadFile`); each record
has the registers the C function has in its locals. Which program runs is left open: any expression
may be evaluated where the C code calls `evaluateExpression` (`Evaluating`). Binding goes symbol by symbol,
so that an error can come between two of them. `throw` and errors set `jump`, the longjmp under way; each
`LandAt...` is what the code after a `setjmp` does, `recoverEnvironment` being `UndoTo`. `load` hands a jump on.
`catch` without a symbol hands errors on but not throws. In trace mode `errorProc` returns, so
that the function that failed returns too (`Abandon`), without popping; but loops do not look at what `getPushSymbolParam`
returns, go on with a symbol they have not pushed (`GoOn`, `goneOn`) and pop what is not theirs, at last what is not there (`Underflow`,
which ends the behaviour). `LoadFails` is a file that cannot be opened. `Features` selects the parts of the
language a run's programs use. `\* Mutant:` definitions in the modules are not part of the models: each is a
plausible bug in the definition after it, and shows that the property it is paired with can fail.

### Objects: `Objects` (in `MCData`), `ObjectProofs`

The colon operator puts the object of a method call in `objCell`, and `evaluateLambda` copies that to `objSymbol.contents` when a
body begins; `objSymbol.flags` are those of the variable that the object was found in, so that a constant is not changed through
`(self)`. `Objects` has a frame for every C function that saves the registers or is crossed by a jump: `p_colon` saves three, `p_catch`
two, `sysEvalString` none, the reset none. Objects are variables, constants and results of expressions, which are numbered;
programs may call methods, functions and macros, in arguments and bodies, and leave them by `throw` and errors. `base` and `left`
remember the object that an error has left in `objCell`, and `exposed` that a jump has left a method: what `(self)` means is
then what the code leaves, which the properties name.

### Messages: `Mailboxes`, `Messages` (in `MCSystem`), `SystemProofs`

`Mailboxes` is the promise: a queue per direction, from which whole messages are taken, once and in order;
what is on its way may be lost when a process ends. `Messages` is `readWriteSocket` on both ends of the
socket pair that `p_spawn` makes for a child. A port is one end; `stream[q]` is what can be read there, as
pieces: a length word (part 0) and then the text, in the order `send()` wrote them. `op[p]` is where process
`p` stands: evaluating the message it is to send (after `select` has said that the socket is ready), writing
the text, or reading it. So all of this is interleaved piece by piece, with children that end, crash or are
aborted, and `sync` closing the parent's socket. When the length cannot be written, the code falls
through into its receiving half, and so does `SendFails`. `fdSet` is `myFdSet`, `ReadyList` what
`getSelectReadyList` makes of it. The kernel's part (`Shut`, `Writable`, `Space`, `Readable`, `Put`) is marked
external.

### Cell memory: `CellMemory`, `CellHeapProofs`, `CellStepProofs`, `CellProofs`

The first part of `CellMemory` is the free list over blocks of cells: `GetCell`, `Copy`, `DeleteList`, `AllocBlock`, `FreeCellBlocks`, as
operators from a memory to a memory, with the links a C pointer would follow. The second is the rule of
one reference: which C function holds which value, what is on `results` (the result stack), and what
`evaluateExpression` deletes when a function is left (`Push`) or not (`Refer`, `pushResultFlag` FALSE). Its
functions stand for the kinds there are: `list` builds a new value, `set`, `push`, `pop` change a variable and
return a part of it or a reference, `first` returns a part of its argument, `begin` its argument, `catch`, `throw`
and errors leave functions behind. Expressions are evaluated in any order that C allows (`frames` are
the C functions that wait for a value). A program on the result stack is its quote cell and one literal, all that
an evaluation can get hold of. Cells have a type and links; numbers, strings and arrays are "atom". A free cell's
`aux` and `contents`, which nobody reads, are nil. `lost` remembers the lists that `longjmp` leaves in C variables:
their cells stay in use without an owner, and the property `OneReference` excepts them and nothing else.

### Signals and the debugger: `Signals` (in `MCSystem`), `SystemProofs`

The kernel runs `signal_handler` between any two steps of the one thread. It runs a newLISP handler at once when nothing
is evaluated, and otherwise notes the signal in `currentSignal` and a bit of `traceFlag`, which `traceEntry`
takes up at the next expression. `stack` is the C stack: evaluations, catches, C handlers, `traceEntry`.
`traceFlag` is a plain `int` that compiled code may keep in a register, so that loading it and storing it
back are two steps, between which a signal's bit can be lost. Errors print and return while a bit is
set, and jump otherwise; `throw` and `(reset)` jump in any case, over whatever frames are there; Ctrl-C asks and
gets one of three answers. The debugger's own stack (`debugStack`, `currentLevel`) is pushed by `traceEntry` and
popped by `traceExit`, which jumps skip. Three instances give programs different means: signals with handlers,
Ctrl-C over a program that is printed as it runs and fails, and the debugger six calls deep, which Ctrl-C may enter too.

### Shared pages: `Share` (in `MCSystem`), `SystemProofs`

A page has a type word, a size word and bytes, each written and read by itself; what does not fit goes to a temporary file,
whose name the page holds. `Write...` and `Read...` are the stores and loads in the code's order, `checkDeleteShareFile`
the unlink before a new value. Two processes put a semaphore around it (`Wait`, `Signal`, `RemoveSemaphore`), with values on both
sides of what the page holds. `stored` is the last value shared, for the property that a reader gets it.

### Connections: `NetSessions`, `NetEval`, `NetEvalProofs`, `Daemon`, `HttpExchange`

`NetSessions` (in `MCData`) is the list `ioSessions` against the kernel's descriptors, whose numbers are given away again: every
function that opens, closes or fails, with its failures. `held` is what the program has under a number; `lost` and
`stale` count what the failing functions leave behind. `NetEval` (in `MCSystem`) is the loop of `p_netEval` over nodes
that answer, print an error, die, reset, stay silent or cannot be reached, in the raw, handler and plain modes; `Visit`
is one turn of the loop, what `recv` brings is the kernel's choice. `Daemon` is `executeCommandLine` over
successive connections, with blocks of lines, HTTP requests, time limits and `exit`. `HttpExchange` has the client
(`getPutPostDeleteUrl`: status, headers, redirects, lengths, chunks) against the server (`executeHTTPrequest`: files, CGI
programs, PUT and DELETE) as functions on sequences of lines and bytes, and connections that break off anywhere.

### The symbol table: `SymbolTable`, `SymbolTree` (in `MCData`)

`SymbolTable` is the promise: a set of names per context, with MAIN's global names seen from the others. `SymbolTree` is
`nl-symbol.c`: `insertFixup`, `deleteFixup`, the rotations, the sentinel that all trees share and whose parent and colour
are written like others', the swap of `deleteSymbol`, and `p_delete` with its checks of references (`references`,
`p_deleteSymbol`), where protected symbols are refused. One instance has one tree of five symbols, the other two contexts with a cell that refers to symbols.

### Copying contexts: `Namespaces` (in `MCData`)

`new` and `def-new`. A context is a function from names to values, which refer to symbols, in lists too, or are dynamic references (a
variable that holds a context, with a name in it). `iterateCopyCreateSymbols` goes through the tree in order; `copyContextCell`
copies what a value refers to in its own context at once, if it is not there yet, and only makes the variable of a dynamic reference.
Freed cells have the value `Freed`, since what was in the target is freed before the copy is made. The property is that every symbol has
its copy, and that nothing else changes: what `CopiesStatic` excepts is the finding of the run `data_new`.

### Values and lists: `ListFunctions` (in `MCData`)

`ListFunctions` has newLISP's values as tuples and their total order (`compareCells`), and translates the algorithms: the
merge sort of `sortList`, set functions on two sorted vectors, `match` with backtracking, `find-all`, `ref-all`, `assoc`, `set-ref`, `replace`,
`push` and `pop` at index vectors, `rotate`, `flat`, `explode`, `slice`, `select`, `map`, arrays. Each call is one action: it asks
(`ask`) and the answer is there (`answer`).

### Numbers: `Numbers`, `Unification` (in `MCData`)

`Numbers` has the machine's integers modulo 2^8 and big integers as digits to the base 2^3, which relate to
each other as 64 bits and 10^9 do: the largest integer has three digits, a double (used in the division) is too short for
two. Schoolbook multiplication, the division with its estimated digits, gcd, comparison, conversions both ways, factors, bits.
`Unification` is `unify` with its stacks `ws` and `mgu`, which are global: an error leaves them for the next call.

### Texts: `Reader`, `SaveLoad`, `XmlParser`, `JsonParser` (in `MCData`)

`Reader` is `getToken` and `compileExpression` over characters of each class, with the strings in quotes, braces and
tags, the buffer that is filled again before a token, and the printer (`printCell`, `printSymbol`) whose text it reads back.
`SaveLoad` writes symbols and contexts in the tree's order and reads them again; what a name becomes depends on
the context it is read in, and on what is there by then. `XmlParser` and `JsonParser` are the two parsers, with the options
and the callback of the first and the number scanner and error places of the second; documents are rendered from values,
and arbitrary short texts are given too.

### Strings: `Strings`, `Format`, `Pack`, `Utf8` (in `MCData`)

`Strings` is searching (in texts, and in files part by part), splitting, replacing, slicing, trimming and `int`; patterns are a
key or one of two regular expressions, one that can match nothing and one that cannot, since the engine (`pcre.c`)
is vendored. `Format` takes a format apart, cutting the program's own string at each directive for a while. `Pack` is `pack` and
`unpack` with alignment-free formats, both byte orders and every directive. `Utf8` is the conversions of one character and
of strings, with cut-off characters and stray bytes; what is behind a string's final zero is `Unknown`.

### The binary compiler: `MCCompiler`, `NetEvalProofs`

`MemoryManager` (the tracked heap) and `CompilerRuntime` (error history and handlers, log rotation, settings)
have one action per call. `CompilerParser` has the tokenizer and the parser, which read every short text, the parser with any one allocation failing
and all blocks of its trees counted. `CodeGenerator` turns trees into lines of C; the module also says what those lines mean in C and what
the program means in newLISP, which are compared. `CompilerDriver` runs two compilations side by side, each step of which may find
its file, program or memory missing.

Signals, Share, Messages and NetEval, and the modules of `MCData` and `MCCompiler`, share no state with each other in the
code that they model. Each group has one MC module, in which a behaviour is about one component (`part`): the run asks the same of all.
`MCSystem` extends the modules whose properties it checks, and has the instances `Brk` and `Dbg` of `Signals` for the other two
kinds of programs; a component that a behaviour is not about stays in its initial state.

## What the runs check

| Run | Question |
|---|---|
| `spawn_safety` | With crashes, failing forks, sockets and arguments, and foreign children: are listed children always collectable (`ListedCollectable`), pages and sockets accounted for (`NoLeak`: all but one page for each argument that failed), the list exactly the unsettled jobs (`OpenAreListed`)? Does the list implement `Futures`, and does a program that calls `sync` until nothing is pending get every job settled (`SyncSettles`)? |
| `spawn_reset` | Does it still implement `Futures` when resets, `wait-pid` and `signal` take children away and their pids go to other jobs and to foreign children? |
| `spawn_lost` | `SyncSettles` with an uncaught error between `spawn` and `sync`: no (violation) |
| `scope_safety` | Is `lambdaStack` the chain of running lambdas (`HistoryIsCallChain`), and has every admitted throw its catch (`ThrowHasCatcher`), in programs that switch contexts and trace mode? |
| `scope_handlers` | Does every function put back every register (`Balanced`) and every longjmp come to rest (`JumpsLand`), with catch, eval-string, load, loops, local and errors in any nesting? |
| `scope_deep` | Does it implement `DeepBinding`? |
| `memory_safety` | Is each cell free once (`FreeListExact`) or owned once (`OneReference`), is `list->aux` right (`LastCellRight`), and do variables behave as if each held its own copy (`VariablesHoldValues`)? |
| `memory_push` | No value contains a free cell: no, `(push x x)` (violation) |
| `system_safety` | Do handlers run one at a time, with no flag or mask left over (`HandlersExact`), and is the debug stack sound (`DebugStackExact`)? Is one process at a time behind the semaphore, and are a page's texts and files right (`PageExact`) and its readers given the last value (`ReadsWhole`)? Do the sockets implement `Mailboxes`, with no transfer on a closed one (`ChannelsTyped`), and are net-eval's results and sockets right (`ChannelsExact`)? Does everyone who waits get on (`EveryCallEnds`, `TransfersEnd`)? |
| `data_functions` | Does each function of the data modules answer what its definition says (`OrdersExact`, `SearchesExact`, `ChangesExact`, `NumbersExact`, `TextsExact`)? Are the symbol trees red-black and exact (`TreesExact`), implementing the table (`ImplementsTable`), and copied contexts exact? Is `(self)` always the right object, and does it leave constants alone (`ObjectsExact`)? Do sessions, server and HTTP keep theirs (`NetworkExact`)? |
| `data_new` | `new` gives every symbol of the context its contents (`CopiesAll`): not the variables of dynamic references (violation) |
| `compiler_parts` | The compiler's heap, log, errors and settings (`RuntimeExact`), its tokens and trees (`FrontEndExact`), the C it writes and the files it leaves (`BackEndExact`) |

The long properties of the last runs are conjunctions; each conjunct is named, with a comment, in the module it
is about. A conjunct says what the code promises where it keeps the promise, and excepts by name the cases in which the
code does something else (`Converts` in `Numbers`, `QuotesParen` in `Reader`, `Survives` in `SaveLoad`, and so on), each of
which is listed below.

Bounds. Two jobs and two pids are enough for the hazards of the child list: a pid needs one job
to be lost and another, or a foreign child, to reuse it. Three activations (`scope_handlers`, `scope_deep`) let a handler
be crossed by a jump from a function it called, with a handler or a binder between, and leave one outside to
see the damage. `MaxEnv` and `MaxHistory` bound the environment
and the lambda stack, which in trace mode or after eval-string's error branch would grow without
limit; three entries are enough for a loop to pop one of another function's, or one too many. `MaxDepth` is only looked at when a function is entered. One variable suffices for binding since entries of
different variables are independent in `Undone`; `scope_deep` binds it twice in one parameter list.
`Val` has two values where values matter. `memory_safety` has two blocks of five cells: a list of two elements, its copy and a
program fill them, so that a block is allocated, given back and exhausted; four function calls build a list, assign it, and
change both copies. `MaxFrames` also bounds the results that `begin` lets pile up.

In `MCSystem`: channels of different children share nothing but `fdSet`, so that there is one child, with two messages from each end
to show their order; a `Capacity` of 8 holds two short messages (size 1), but no long one (size 8) together with its length word, so that sending one blocks
until the other end reads, and both ends can be blocked at once. Two arrivals of signals are enough to lose one; five and six frames
let a handler interrupt an expression inside a catch inside a handler. The page of 28 bytes has texts just below, at and above
each of its limits. Two nodes let one of net-eval's answers be late or wrong while the other's is read, one of them by a
local socket.

In `MCData`: a tree of five symbols reaches every case of insertion and deletion, which coverage confirms; two
descriptors with four objects let a number be given away again after every failure; two connections with four lines have a block, a
request and a line between. Numbers of 8 bits and three groups of three bits have every carry, borrow and corrected
quotient digit, and all boundary values are among the operands. Unification has all pairs of lists of two terms over three variables,
and short sequences of calls for what an error leaves. The buffer of the reader is 20 characters with a slack of 16, which gaps of up to 30
cross at every place; strings of four are "long". Documents and JSON values have two levels. `search` reads parts of three characters with
keys up to three. Bytes have two bits in `Pack`, so that the words of 2, 4 and 8 bytes are all in reach; `Utf8` has the real
boundaries of each length. `Objects` has a constant, a variable and any number of results, four frames, that is two methods one in the other, and
one jump; a second jump only repeats what the first shows, as the properties after it speak of what it left. Contexts have three symbols
with each kind of reference to each other, and the target has none, one or two of the same names, with constants on both sides. In `MCCompiler` texts have up to seven tokens, and each of the first ten allocations fails once.

Deadlock is checked in the runs of `Spawn`, in `scope_handlers` and in `scope_deep`, whose program can always evaluate something; in the others it is
not, since an underflow ends the behaviour (`scope_safety`), messages end, memory may be exhausted, and a function that has answered is done.

Fairness. `Spawn!FairSpec` assumes that the program keeps calling `sync`, that its loop runs on, and that
children that compute do end. `DynamicScope!FairSpec` only assumes that a longjmp is performed. In
`MCSystem` a process that can take a step of `share`, of a transfer or of net-eval's loop takes it (weak: the kernel schedules it);
a process that waits for the semaphore is woken if it is signalled again and again (strong: the kernel's queue is in order);
and net-eval's clock goes on (weak on `TimePasses`). The data and compiler runs have no liveness property and no fairness.

## What is proved

The runs check small instances; these theorems hold for every value of the constants. Each proof has an inductive
invariant (`IInv` unless another name is given), which TLC has checked first where it can evaluate it, one lemma per action that shows that the action keeps it, and a
last step from `IInv` to the property. What each invariant adds to the property is said here.

`SpawnProofs`, for all sets of pids and symbols and any number of jobs:
`TypeCorrect` holds for all events. `Collectable`, `LeakFree`, `NothingForgotten` and `Implementation` (every step
of the list is a step of `Futures`) assume `KeepsChildren`: no
event that can lose a child (the run `spawn_lost` shows why). `LeakFree` counts the pages that failing arguments leave, and under `KeepsChildren` no job goes astray. `IInv` says how
jobs are numbered (`Numbering`), that no handler can reap while a child is listed or about to be
(`NoReaper`), that unsettled jobs and processes correspond one to one (`OwnProcess`) - without which a
pid could lead `processSpawnList` to another job's record -, what the kernel's status says of the task
(`Status`) and what is in the page (`Pages`).

`ScopeProofs`, for all variables, values, functions, parameter lists and depths. `TypesKept` (with it, that the environment stack is popped below its bottom only
after a loop has gone on with a symbol it could not bind) and `ThrowsAreCaught` hold for every program, `ReturnsBalanced` (the action property `Balanced`) for programs that do not
switch on trace mode (`NoTrace`), `HistoriesMatch` for programs without eval-string's error expression (`NoEvalString`). That
a function pops what it pushed is not inductive by itself: a handler far out has to
restore a depth that must still lie below every entry of the functions between. `IInv` therefore has
`Partition` (envStack is the activations' own entries, one after the other), `Registers` (saved recursion
counts and contexts follow the nesting), `Setjmps` (`errorJump` and every saved one is the innermost
setjmp below it), `Nested` (marks grow with the nesting), `Counted` (`evalCatchFlag` is the number of catches
running), `Caught` and, until a loop has gone on, `Room` (every function's entries are there). The proof goes through five kinds of steps, which are lemmas (`PlainStep`, `CallStep`,
`ChangeStep`, `ReturnStep`, `LandStep`), and each action is shown to be of one kind. In trace
mode a function that fails while it binds its parameters returns with those already bound (`Abandon`), so that `Partition` is
only kept under `NoTrace`. For the history `Chain` relates `lambdaStackIdx`, and every value of it that a setjmp has saved, to the lambdas
below; the error branch of `sysEvalString` does not put the index back, which is what `NoEvalString` excludes.

`ScopeProofs!Implementation` shows under `NoTrace` that shallow binding implements `DeepBinding`. The refinement mapping reads
the value of each variable in a scope from the symbol cells and the entries above it; the lemmas say what `Undone` does
when an entry is pushed, a variable assigned and the stack cut, and that undoing entries one by one, as `recoverEnvironment`
does, ends in the bindings below the cut.

`SystemProofs` has three parts, for components that share nothing.

Messages, for any children, sizes, capacity and number of messages: `ChannelsKept`, and
`MailboxesImplemented`, that the sockets are queues of whole messages. Pieces of the two ends interleave, so that `MessageInv` has to say for each port (`Flow`) that
the stream is `Sound` (each piece follows the one before), that the writer's last piece is its end (`WriterAt`), and that what the
reader has, what is in the stream and what the writer still holds make up one message (`ReaderAt`).

Shares, for any processes, values, names of files and sizes of word and page: `PageKept` and `ReadersSeeWholeValues`.
`Token` says who holds the semaphore, `Page` what the page holds at rest (`Stable`) and after each store of a writer
(`PageWritten`), and what a reader has seen of it (`Seen`).

Signals: `HandlersKept`, for any signals, depth of the C stack and arrivals, under `HandlersReturn`: handlers do not fail,
throw, reset or trace, and no debugger is on; the rest of the program may do the first three. The hypothesis is what the
code needs: a jump out of a handler that runs at idle passes by the code that unblocks its signal, and one out of a handler
called from `traceEntry` leaves `TRACE_IN_ENTRY` set. `SignalInv` relates three things that are kept in different places, the frames on the C
stack, `traceFlag` and the kernel's mask: one call of `traceEntry` at most, with nothing above it but the handler it runs
(`Entries`), one C handler per masked signal (`Masked`), no error exit above a handler (`Errors`).
`DebugStackKept`, for any program that calls, traces, fails and catches, with Ctrl-C at any moment and any depth, is under
`Undisturbed`: no newLISP handler, no throw, `(reset)` or `(trace 1)`, and Ctrl-C is answered by going on or by entering the
debugger; and once `traceExit` has popped an empty stack nothing is said. `openTrace` does nothing when any flag is set, so a trace switched on while a signal is noted or printing is on gets no
memory for its stack; and a throw leaves on the stack the levels of functions that are gone. `DebugInv` says which of the debugger's flags
can be on together, and that the C variable in which a call of `traceEntry` keeps them agrees with them (`FlagsFit`), that
an evaluation is pushed once, when `traceEntry` leaves it (`Levels`), and that no signal but a first Ctrl-C is under way (`Calm`).

`NetEvalProofs`: `AnswersKept`, for any number of nodes, which do what they like, any timeout, mode and cutting of texts into pieces.
`IInv` says of each node that it is refused, awaited (what has come and what is coming make up what it prints) or answered,
with the sessions that are open for it (`Creating`, `Collecting`); in the two errors that jump before the `setjmp` is made, those of the nodes before
stay open (`LeftOpen`), and `AnswersKept` says that sockets are released in every other case. Two more parts are about components that TLC checks
within `NetworkExact` and `RuntimeExact`:

`SessionsKept` is `NetSessions!SessionsExact`, for any set of descriptors and any number of sockets. `SessionsInv` says it with
`FirstIs` (an entry is the first with its handle) instead of a CHOOSE, and adds what closing needs: the
stream of an entry is 0 or on the handle itself, so `fclose` closes what the entry names. Every function adds an entry at the head of the
list or removes the first of a handle, and the lemmas (`Headed`, `Removed`) say which entries are first then: after a
number is given away again the old entry, which `net-receive-udp` may leave, is behind the new one.

`BlocksLinked` is `MemoryManager!ListLinked`, for any pointers, sizes, limits and any malloc. `MemInv` says that some sequence without
repetition lists the recorded blocks (`Chained`): `next` follows it and `prev` leads back. The recorded blocks are held by the
program and what it holds is not free, so `malloc` returns no listed pointer. `WalkIs` is that the walk along
`next` reads that sequence to its end.

`ObjectProofs`: `SelfKept`, for any variables, constants among them, depth of calls and number of jumps. What `objCell` and `self`
should be depends on the frames below, and on what errors have left in them; `Means` and `SelfFits` say it of any prefix of
the stack, so that `Saved` can say it of the registers in each frame too. `Kept` follows the flags of a constant's object through all
the places where they are saved.

Cell memory, for any number and size of blocks, symbols, depth of evaluation and number of calls: `TypesKept`, `FreeListKept`,
`OwnersKept` and `LastCellsKept` follow from one invariant, `IndInv`, which is `MemoryKept`. The four properties hold each
other up. That `deleteList` frees no cell twice needs every cell below its argument to be owned by nobody else; that `getCell` gives no cell in
use needs the free list to be exact; and a push at the end, which trusts `aux`, leaves a list without a cycle only if `aux` is right. So `IndInv` says them
together, in a form that a step can be shown to keep:

- `Shape`: there is a set R of roots, each with no cell after it; every other cell in use is after or below one other cell (`OneOwner`), and
  following links ends (`Ranked`: a number per cell that falls along links). `Lasts`: `aux` is the last cell or `nilCell`.
- `Tidy`: moreover, some sequence is the free list and lists the free cells, and the mapped cells are those of the blocks.
- `Owns(Held(...), R)`: the roots and those who hold one - symbols, places of the result stack, lists under construction,
  cells of startup, lost lists - correspond one to one.
- `Framed` and `Stacked`: what functions that wait rely on. Each list under construction is in use, and its last cell is; below a
  `throw` is a catch; the marks at which functions cut the result stack grow with the nesting. `Valued`: what an evaluation
  has returned is in use, and if it is the top of the result stack, it came there after the waiting function was entered.

`CellHeapProofs` is about heaps alone. An induction over `rank` gives that the recursive walks `Chain`, `Value` and
`DeleteList` visit exactly a list, the first elements and a tree, each cell once (`CellInduction`; recursive functions over a finite set of cells are in the
prover's reach, unlike recursive operators). Then: what `getCell`, the loops of `copyCell`, `deleteList`, `cleanupResults`
and `freeCellBlocks` make of a sound memory, and what adding or removing one link does (`HangBelow`, `HangAfter`, `TakeFirst`). `CellStepProofs`
adds who owns the roots, and has a lemma for each kind of step, about any heap and stacks; `CellProofs` has the remaining steps, the
lemma per action and the theorems. All are under `"selfpush" \notin Events`: no program evaluates `(push x x)` while x is nil, for which the run `memory_push`
shows that the list then contains a free cell. Errors, `throw`, `(reset nil)` and memory that is exhausted are all included. When the process
has ended (`exited`, `crashed`), only the types are kept.

`ValuesKept` is the action property: values are passed by reference, yet what a symbol prints changes only when a function of that symbol
ends, and to what that function is for. It follows from `IndInv` before the step and the shape of the heap after it. What a cell prints
(`Prints`) is a recursion over its tree, defined because `rank` falls; so it depends on the tree only (`AlikePrints`,
`SparedPrints`), and a step spares each symbol whose tree it does not touch, as trees of two roots are apart. For the symbol that does change,
a copy prints what its original does (`Copies`), a value taken from the results prints what it did (`TookPrints`), and
hanging a cell at the front or the end of a list, or taking one from there, adds or removes one item (`Hung`, `Unlinked`).
A function that ends takes its value off the result stack or copies it (`Taking`), frees what the symbol held and cuts the
stack, each function in an order of its own; the lemma of the action (`SetHolds`, `PushFrontHolds`, `PopLastHolds`, ...) shows
that none of this reaches what another symbol prints.

The assumptions are those on the constants (`SpawnAssumption`, `ScopeAssumption`, `MessagesAssumption`, `ShareAssumption`,
`NetEvalAssumption`, `ObjectsAssumption`, `HeapAssumption`, `MemoryAssumption`; `Signals` needs none), which TLC evaluates in the runs,
and the hypotheses of `SessionsKept` (descriptors are positive numbers) and `BlocksLinked` (`NetEvalProofs!MemoryAssumption`: finitely
many pointers, sizes are numbers, NULL is none of the pointers and blocks).

Only model-checked:

- Liveness, which is out of the prover's reach.
- Everything that is defined by recursion over data: `ListFunctions`, `CodeGenerator` and the other modules of functions,
  with the invariants of `MCData` and `MCCompiler` that compare them to their definitions; what they compute for every input
  needs an induction over data.
- `ImplementsTable`, whose red-black tree needs paths for "is in the tree".
- `MemoryManager!UsageExact`, whose totals are sums over sets of blocks.
- `HandlersExact` where the debugger or Ctrl-C leave handlers, and `DebugStackExact` where Ctrl-C resets or prints.

## Disagreements with the manual

Three have a run:

- `spawn_lost`: an uncaught error between `spawn` and `sync` lets the SIGCHLD handler reap a listed
  child; `sync` waits for it until its timeout, for ever without one.
- `data_new`: `new` leaves the variable of a dynamic reference nil when a value with the reference is copied before it.
- `memory_push`: on a nil variable `p_push` frees the variable's cell before it copies the value; in `(push x x)` they are
  the same cell, and the list then contains a free cell.

The models contain more, as the code has it, each at the definition that a reader of the list can look up:

- *Processes.* `p_spawn` leaves a page mapped for ever whenever its symbol is refused or its flag's evaluation fails
  (`SpawnArgumentFails`). A listed job that has lost its process and whose pid goes to a child of `process` or `fork` is settled when that
  child ends: with the ABEND string when a signal ended it, though the job may have computed its value (`SettleAstray`). `(sync timeout)` with nothing pending answers `()`, not `true` (`SyncNothing`). A page whose text does not read leaves the
  record unlinked and the page mapped. `processSpawnList` clears a child's bit in `myFdSet` only when it aborts the child: after `sync` has
  collected one, `select` fails on the closed descriptor and `(receive)` lists nobody. A `send` larger than the free space does
  not return nil but blocks, and parent and child that both do so wait for ever (`LeftFull`). A reader
  of a message whose sender has ended in the middle of it loops (`Abandoned`). `TransfersEnd` says that nothing else hangs.
- *Environment.* After an error caught by eval-string, `history` lists functions that were left, since that branch does not put
  `lambdaStackIdx` back (`HistoryIsCallChain` says so). In trace mode an error in the middle of binding leaves variables bound (`Abandon`), a loop over a protected symbol goes on
  and at its end pops entries of others, makes what it pops unprotected and may read below the stack (`GoOn`, `Underflow`), and a
  `load` that finds no file leaves the context switched (`LoadFails`). `(reset nil)` and the reset after
  an error write through NULL when no cell is free or the first block with a free cell is wholly free (`FreeCellBlocks`).
- *Signals.* An error or reset in a handler that runs at idle leaves its signal blocked. A `throw` out of a handler called from
  `traceEntry` leaves `TRACE_IN_ENTRY` set. `(trace 1)` and then `(trace true)` has no memory for the debug stack.
  `traceExit` reads the top of the stack when it is empty too, as after `(define (f) (trace true) 1) (f)`, and pops it if the word there happens to
  be the level (`DebugUnderrun`). A signal is
  lost when two arrive before the next expression, or one while `traceFlag` is in a register. `setupAllSignals` after an error
  undoes `(signal n "ignore")`.
- *Objects.* `(self)` in the arguments of a method call is the caller's object until a function is called among them, and then that of
  the method. Errors caught by eval-string or at the top level leave `objCell`, which may mean an object that is freed; after a
  `throw` out of a constant's method, `(self)` of other objects cannot be changed, and a method of a constant in which a jump has left another
  object's method can change the constant (`exposed`; the manual, 10683: a constant "can only be modified using the constant function again").
- *Sockets.* `net-connect` keeps the descriptor when the name is unknown, `net-listen` when the interface is, without an
  error; `net-receive-udp` leaves the entry of a socket it closed at a timeout; `pipe` asks for the stream of its second end with the
  number of the first; net-eval enters a local socket twice (`NetSessions`, `NetEval`)
  and leaves its sockets open when a node is no list or the timeout is no number (`BadParameters`). An error mark that is cut in two, or stands behind
  other output, is not found, and the node times out; a value that is cut off ends all of net-eval with an error.
- *HTTP.* Asking for headers only leaves the socket open; redirects are not counted; length and coding from before a
  `Location` stay; a body shorter than its length is accepted, and a chunked one that breaks off after a chunk. A PUT that breaks off leaves a
  part of the file. An error answer that comes chunked without chunks is the text of the error, in list mode too. A server serves requests in every mode.
- *Symbols.* `(delete s nil)` deletes without looking for references.
- *Contexts.* `(new F F true)` and `(def-new 'F:a 'F:a)` free what they then copy (`Freed`, `Onto`). `new` without overwriting takes the
  protection of a constant in the target when a copied value refers to the variable of that name in the source (`Constants`). What refers to the
  default symbol F:F refers in the copy to T:F, another copy of it, while F:F itself is copied to T:T.
- *Lists.* `rotate` by a negative multiple of the length beyond it keeps the first element only; `match` with nil in the pattern answers
  `()`; `(replace nil '() 1)` gives `(1)`; contexts compare with each other by address and with symbols by name; NaN compares as 9
  (`OrderTotal`, `RotateAgrees`, `MatchAgrees`, `ReplaceAgrees`).
- *Numbers.* `intToBigint` drops or spoils digits of some integers, the smallest is 0L (`Converts`); the smallest divided by -1 traps; shifts
  take the count modulo 64; `factor` squares its divisor with overflow; an integer compared with a big one that does not fit is an
  error on one side only; `unify` after an error goes on with what that left (`leftover`).
- *Reader.* Blanks and comments longer than the buffer's rest end the file; a quote before `)` takes it (`QuotesParen`); `((x) lambda y)` reads as
  a lambda; `08` reads as 0 and 8; "1.0" prints "1"; strings of 2048 and more lose NULs and must not contain `[/text]`; a symbol named
  `[text]` is legal.
- *Saving.* Saving everything writes contexts before MAIN's lower-case globals, so that one used in a context loads as a new nil symbol of it.
  Constants outside MAIN and illegal names do not load alone; references to contexts saved later, or with a default functor, load as
  nil; quoted symbols lose their quote; a nil global is not saved; saving a context sets its symbol `set` (`Survives`).
- *XML and JSON.* A tag not closed at the end of the text with a `/` two before recurses without end; a closing tag need only begin with the open
  name; a callback that fails leaves `xml-parse` refusing ("not reentrant"); with
  `sxml` a wrong attribute puts `@` into the cell of nil (`TagWith`). `json-parse` refuses a carriage return after a number,
  and accepts a comma before `]`, `+1`, `01` and any text after the value (`Accepts`).
- *Strings.* `find-all` with an expression evaluates it twice for an empty match; `parse` with a regex that matches nothing drops the rest;
  `(int "-0b11")` is 0 and `(int "99999999999999999999")` is -1; `search` does not advance with a key as long as the part;
  `format` leaves the program's format cut when an integer is out of range; a float packed as an integer is 0; an empty list packs an address;
  a cut-off character is read past the final zero.
- *Compiler.* Freeing at exit frees the pointer behind the guard bytes; a full error history overwrites its first entry and `error_get_last` returns another; two
  rotations in a second overwrite the backup; a config value of another type leaks the string; a text that ends inside a form is accepted
  without it; `(- 5)` is 5; `max` takes two; comparisons with three operands group to the left; `set` in a loop declares a second C variable; two names may become
  one in C; temporary files are named for the second only.

## What is not modelled, and why

Left out of `Spawn`: a `sync` inside an inlet function, `spawn` inside a spawned child (children start with an
empty list) or in an argument of `spawn`, and trace mode, in which errors go on. Left out of `DynamicScope`: callbacks from imported libraries (an error in one
resets the stacks under running functions, which then pop what is not theirs: nl-import.c:472 never goes right, so that there is nothing to
check but that), net-eval's safe evaluation, `dotimes` without a symbol in trace mode (which reads through NULL), `load` from a URL (which saves no
registers), and cells as such. Left out of `Messages`: messages sent or received by the
expression whose value is to be sent, and system calls interrupted by signals (a blocked send then answers nil although part of
the text is sent, nl-filesys.c:1896). Left out of `CellMemory`: arrays,
strings and big integers with their own memory, references to places in nested lists, user-defined functions (whose
arguments are copied like `set`'s), and `push` and `pop` with other indices; a handler that runs inside `getCell` (newlisp.c:415) can break
the free list at any store, which no order of steps prevents.

Stacks of the C code that are not checked when they are pushed - only a lambda's call tests `envStackTop` (newlisp.c:1815), before
it binds any number of parameters - are sequences here, and their overflow is not modelled; nor are buffers that are
too short for a text (nl-liststr.c:589, the generated C).

Floating point (statistics, financial functions, matrices, random numbers) is outside what TLC evaluates. Files and directories are
direct system calls. The regular expression engine and the file `nl-import.c` call foreign code. The Windows and
Emscripten ports are variants of what is modelled. The scripts under `modules/` and `util/` are written in newLISP.

## Plan

1. Theorem: **MemoryManager** (`UsageExact`), with lemmas about sums over finite sets.
2. A frame of a foreign library in `DynamicScope`, between the evaluator and a callback.
3. Arrays and strings as cells with memory of their own in `CellMemory`.
