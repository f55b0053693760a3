------------------------------- MODULE Signals -------------------------------
(***************************************************************************)
(* Signals, the one-shot timer, the debugger and the trace flag: the       *)
(* handlers of newlisp.c, traceEntry and traceExit of nl-debug.c, and what *)
(* the evaluator, catch, throw and the error exit do to them.              *)
(*                                                                         *)
(* The process has one thread.  The kernel runs the C function             *)
(* signal_handler between any two of its steps; a handler written in       *)
(* newLISP runs there and then when nothing is evaluated, and from         *)
(* traceEntry, at the next expression, when something is.  traceFlag is a  *)
(* plain int: a step that loads it and one that stores it back are two     *)
(* steps here where the compiled code keeps it in a register in between.   *)
(***************************************************************************)
EXTENDS Naturals, Sequences, FiniteSets

CONSTANTS UserSigs,     \* signals whose handler the program sets with (signal n f)
          ProgramOps,   \* what the expressions of the program may do
          HandlerOps,   \* what the expressions of its handlers may do
          Answers,      \* what the user answers to Ctrl-C
          MaxDepth,     \* bound on the frames of the C stack
          MaxArrivals,  \* bound on the signals that arrive
          MaxDebug      \* bound on the entries of the debug stack

Sigs == UserSigs \cup {"INT", "ALRM"}

VARIABLES
  traceFlag,   \* set of the flags TRACE_... that are on
  currentSignal,
  symHandler,  \* signal -> is a newLISP handler set for it
  timerEvent,  \* is a timer handler set
  armed,       \* the timer has been started and has not fired
  disposition, \* signal -> what the kernel does with it
  pending,     \* signals raised and not delivered
  blocked,     \* signals masked, as their C handler runs
  stack,       \* frames of the C stack, the innermost last
  loop,        \* the command loop: at the prompt, waiting for a line, reading it, or dead,
               \* also when its memory is spoilt
  debugStack,  \* recursion levels of the functions being debugged
  allocated,   \* is there memory behind debugStack
  currentLevel,
  called,      \* the last handler called: whose it is, the number it is given
  arrivals     \* signals that have arrived

signalVars == <<traceFlag, currentSignal, symHandler, timerEvent, armed, disposition,
          pending, blocked, stack, loop, debugStack, allocated, currentLevel, called, arrivals>>
osVars == <<symHandler, timerEvent, armed, disposition, pending, blocked, arrivals>>
debugVars == <<debugStack, allocated, currentLevel>>

(* Frames: "eval" an expression being evaluated, "entry" traceEntry for *)
(* the frame below it, "catch" a catch with its error exit, "os" the C *)
(* handler of the signal in arg, run by the kernel while nothing was *)
(* evaluated. *)
Frame(fn, pc, arg) == [fn |-> fn, pc |-> pc, arg |-> arg]
Eval == Frame("eval", "entry", {})
Top == stack[Len(stack)]
Below(n) == SubSeq(stack, 1, Len(stack) - n)
Goto(pc) == [stack EXCEPT ![Len(stack)].pc = pc]
At(fn, pc) == /\ stack # <<>>
              /\ Top.fn = fn
              /\ Top.pc = pc
Frames(fn) == {i \in DOMAIN stack : stack[i].fn = fn}
recursionCount == Cardinality(Frames("eval"))
InHandler == Frames("os") \cup Frames("entry") # {}
May(op) == /\ At("eval", "body")
           /\ op \in IF InHandler THEN HandlerOps ELSE ProgramOps
Busy == {"IN_ENTRY", "IN_EXIT", "DEBUG_NEXT"}
Asynchronous == {"SIGNAL", "SIGINT", "TIMER"}

SignalsInit ==
  /\ traceFlag = {} /\ currentSignal = "none"
  /\ symHandler = [s \in Sigs |-> s \in UserSigs]
  /\ timerEvent = FALSE /\ armed = FALSE
  /\ disposition = [s \in Sigs |-> "handler"]
  /\ pending = {} /\ blocked = {}
  /\ stack = <<>> /\ loop = "prompt"
  /\ debugStack = <<>> /\ allocated = FALSE /\ currentLevel = 0
  /\ called = [handler |-> "none", number |-> "none"]
  /\ arrivals = 0

----------------------------------------
(* The kernel *)

\* A signal is raised; one that is pending already is not raised twice.
Arrive(s) ==
  /\ loop # "dead"
  /\ arrivals < MaxArrivals
  /\ disposition[s] # "ignore"
  /\ s \notin pending
  /\ s = "ALRM" => armed
  /\ armed' = (armed /\ s # "ALRM")
  /\ pending' = pending \cup {s}
  /\ arrivals' = arrivals + 1
  /\ UNCHANGED <<traceFlag, currentSignal, symHandler, timerEvent, disposition, blocked,
                 stack, loop, called, debugVars>>

\* The default action of each of these signals ends the process.
Kill(s) ==
  /\ s \in pending \ blocked
  /\ disposition[s] = "default"
  /\ loop' = "dead"
  /\ stack' = <<>>
  /\ pending' = {} /\ blocked' = {}
  /\ UNCHANGED <<traceFlag, currentSignal, symHandler, timerEvent, armed, disposition,
                 called, arrivals, debugVars>>

(* signal_handler: what it does at once, with s taken from the pending set *)

Delivered(s) == /\ s \in pending \ blocked
                /\ disposition[s] = "handler"
                /\ pending' = pending \ {s}
                /\ Len(stack) < MaxDepth
                /\ UNCHANGED <<symHandler, timerEvent, armed, disposition, arrivals, loop>>

\* A newLISP handler, or the timer's, is due and something is being evaluated: note it.
Defer(s) ==
  /\ Delivered(s)
  /\ recursionCount > 0
  /\ \/ /\ symHandler[s]
        /\ currentSignal' = s
        /\ traceFlag' = traceFlag \cup {"SIGNAL"}
     \/ /\ ~symHandler[s] /\ s = "ALRM"
        /\ traceFlag' = traceFlag \cup {"TIMER"}
        /\ UNCHANGED currentSignal
  /\ UNCHANGED <<blocked, stack, called, debugVars>>

\* Nothing is evaluated: executeSymbol runs the handler inside the C handler, its signal masked.
RunIdle(s) ==
  /\ Delivered(s)
  /\ recursionCount = 0
  /\ symHandler[s] \/ (s = "ALRM" /\ timerEvent)
  /\ called' = [handler |-> s, number |-> s]
  /\ blocked' = blocked \cup {s}
  /\ stack' = stack \o <<Frame("os", "running", s), Eval>>
  /\ UNCHANGED <<traceFlag, currentSignal, debugVars>>

\* No newLISP handler: most signals do nothing, nor does a timer at rest; Ctrl-C asks the user.
Unhandled(s) ==
  /\ Delivered(s)
  /\ ~symHandler[s]
  /\ \/ /\ s # "INT"
        /\ s = "ALRM" => recursionCount = 0 /\ ~timerEvent
        /\ UNCHANGED <<traceFlag, debugVars>>
     \/ /\ s = "INT"
        /\ \/ /\ "continue" \in Answers
              /\ UNCHANGED <<traceFlag, debugVars>>
           \/ /\ "reset" \in Answers
              /\ traceFlag' = traceFlag \cup {"SIGINT"}
              /\ UNCHANGED debugVars
           \/ /\ "debug" \in Answers
              /\ IF traceFlag \subseteq {"SIGINT"}
                 THEN /\ traceFlag' = {"TRUE"}
                      /\ debugStack' = <<>> /\ allocated' = TRUE
                      /\ UNCHANGED currentLevel
                 ELSE /\ traceFlag' = traceFlag \ {"SIGINT"}
                      /\ UNCHANGED debugVars
  /\ UNCHANGED <<currentSignal, blocked, stack, called>>

\* Mutant: the signal stays masked.
HandlerReturnsMasked ==
  /\ At("os", "running")
  /\ stack' = Below(1)
  /\ UNCHANGED <<traceFlag, currentSignal, symHandler, timerEvent, armed, disposition,
                 pending, blocked, loop, called, arrivals, debugVars>>

\* The C handler returns to what the kernel interrupted, and its signal is unmasked.
HandlerReturns ==
  /\ At("os", "running")
  /\ stack' = Below(1)
  /\ blocked' = blocked \ {Top.arg}
  /\ UNCHANGED <<traceFlag, currentSignal, symHandler, timerEvent, armed, disposition,
                 pending, loop, called, arrivals, debugVars>>

----------------------------------------
(* The error exits.  longjmp drops frames and restores no flag and no mask. *)

\* Mutant: the end of a trace leaves one of its two flags on.
closeTraceKept == /\ traceFlag' = traceFlag \cap {"IN_DEBUG"}
                  /\ allocated' = FALSE
                  /\ UNCHANGED <<debugStack, currentLevel>>

closeTrace == /\ traceFlag' = {}
              /\ allocated' = FALSE
              /\ UNCHANGED <<debugStack, currentLevel>>

\* To the innermost catch; what it saved is the frames below it.
ToCatch == \E i \in Frames("catch") :
             /\ \A j \in Frames("catch") : j <= i
             /\ stack' = [SubSeq(stack, 1, i - 1) EXCEPT ![i - 1].pc = "exit"]
             /\ UNCHANGED <<disposition, loop>>

\* To the top: setupAllSignals and reset.
ToTop == /\ Frames("catch") = {}
         /\ stack' = <<>>
         /\ loop' = "prompt"
         /\ disposition' = [s \in Sigs |-> IF s \in {"INT", "ALRM"} THEN "handler"
                                                                   ELSE disposition[s]]

----------------------------------------
(* The command loop and the evaluator *)

Prompt ==
  /\ stack = <<>> /\ loop = "prompt"
  /\ "SIGINT" \notin traceFlag
  /\ loop' = "waiting"
  /\ UNCHANGED <<traceFlag, currentSignal, stack, called, osVars, debugVars>>

\* A reset that no expression took: back to the top, with reset().
PromptReset ==
  /\ stack = <<>> /\ loop = "prompt"
  /\ "SIGINT" \in traceFlag
  /\ ToTop
  /\ traceFlag' = {}
  /\ UNCHANGED <<currentSignal, symHandler, timerEvent, armed, pending, blocked, called,
                 arrivals, debugVars>>

ReadLine ==
  /\ stack = <<>> /\ loop = "waiting"
  /\ loop' = "reading"
  /\ UNCHANGED <<traceFlag, currentSignal, stack, called, osVars, debugVars>>

\* The line has been compiled: its expression is evaluated.
EvaluateLine ==
  /\ stack = <<>> /\ loop = "reading"
  /\ stack' = <<Eval>>
  /\ loop' = "prompt"
  /\ UNCHANGED <<traceFlag, currentSignal, called, osVars, debugVars>>

\* evaluateExpression tests traceFlag; traceEntry tests it again and keeps its value.
EvalEntry ==
  /\ At("eval", "entry")
  /\ stack' = IF traceFlag = {} \/ traceFlag \cap Busy # {}
              THEN Goto("body")
              ELSE Append(Goto("body"), Frame("entry", "loaded", traceFlag))
  /\ UNCHANGED <<traceFlag, currentSignal, loop, called, osVars, debugVars>>

\* Mutant: the handler of a signal runs without TRACE_IN_ENTRY.
EntrySignalUnmarked ==
  /\ At("entry", "loaded") /\ "SIGNAL" \in Top.arg
  /\ traceFlag' = Top.arg \ {"SIGNAL"}
  /\ stack' = Goto("number")
  /\ UNCHANGED <<currentSignal, loop, called, osVars, debugVars>>

\* A signal is noted: take the note.  The stored value is the one loaded before.
EntrySignal ==
  /\ At("entry", "loaded") /\ "SIGNAL" \in Top.arg
  /\ traceFlag' = (Top.arg \cup {"IN_ENTRY"}) \ {"SIGNAL"}
  /\ stack' = Goto("number")
  /\ UNCHANGED <<currentSignal, loop, called, osVars, debugVars>>

\* The arguments of executeSymbol, the last first: the number, then the handler.
EntryNumber ==
  /\ At("entry", "number")
  /\ stack' = [Goto("handler") EXCEPT ![Len(stack)].arg = {currentSignal}]
  /\ UNCHANGED <<traceFlag, currentSignal, loop, called, osVars, debugVars>>

EntryHandler ==
  /\ At("entry", "handler")
  /\ Len(stack) < MaxDepth
  /\ IF symHandler[currentSignal]
     THEN /\ stack' = Append(Goto("clear"), Eval)
          /\ \E n \in Top.arg : called' = [handler |-> currentSignal, number |-> n]
     ELSE stack' = Goto("clear") /\ UNCHANGED called
  /\ UNCHANGED <<traceFlag, currentSignal, loop, osVars, debugVars>>

\* A reset is noted: to the nearest error exit, TRACE_IN_ENTRY left on.
EntrySigint ==
  /\ At("entry", "loaded") /\ "SIGNAL" \notin Top.arg /\ "SIGINT" \in Top.arg
  /\ \/ ToCatch /\ traceFlag' = (Top.arg \cup {"IN_ENTRY"}) \ {"SIGINT"}
     \/ ToTop /\ traceFlag' = {}
  /\ UNCHANGED <<currentSignal, symHandler, timerEvent, armed, pending, blocked, called,
                 arrivals, debugVars>>

EntryTimer ==
  /\ At("entry", "loaded") /\ Top.arg \cap Asynchronous = {"TIMER"}
  /\ Len(stack) < MaxDepth
  /\ traceFlag' = (Top.arg \cup {"IN_ENTRY"}) \ {"TIMER"}
  /\ stack' = IF timerEvent THEN Append(Goto("clear"), Eval) ELSE Goto("clear")
  /\ UNCHANGED <<currentSignal, loop, called, osVars, debugVars>>

\* Mutant: TRACE_IN_ENTRY stays on after the handler.
EntryClearKept ==
  /\ At("entry", "clear")
  /\ stack' = Below(1)
  /\ UNCHANGED <<traceFlag, currentSignal, loop, called, osVars, debugVars>>

\* The handler is done: one instruction clears the bit.
EntryClear ==
  /\ At("entry", "clear")
  /\ traceFlag' = traceFlag \ {"IN_ENTRY"}
  /\ stack' = Below(1)
  /\ UNCHANGED <<currentSignal, loop, called, osVars, debugVars>>

\* Nothing asynchronous: printing, or the debugger (its entry for the called function).
EntryTrace ==
  /\ At("entry", "loaded") /\ Top.arg \cap Asynchronous = {}
  /\ traceFlag' = Top.arg \cup {"IN_ENTRY"}
  /\ stack' = Goto(IF "PRINT" \in Top.arg THEN "leave" ELSE "debug")
  /\ UNCHANGED <<currentSignal, loop, called, osVars, debugVars>>

\* The user steps into, goes to the next, continues, or quits; at depth 0 no question is asked.
\* The flag is loaded again after the question, and kept to the end.
Debugger ==
  /\ At("entry", "debug")
  /\ \/ /\ Len(debugStack) = 0
        /\ stack' = [Goto("push") EXCEPT ![Len(stack)].arg = traceFlag]
        /\ UNCHANGED <<traceFlag, debugVars, disposition, loop>>
     \/ /\ Len(debugStack) > 0
        /\ UNCHANGED <<disposition, loop, debugStack, allocated>>
        /\ \/ /\ traceFlag' = traceFlag \cup {"DEBUG_NEXT"}
              /\ currentLevel' = recursionCount
              /\ stack' = [Goto("leave") EXCEPT ![Len(stack)].arg = traceFlag']
           \/ /\ traceFlag' = traceFlag \ {"DEBUG_NEXT"}
              /\ stack' = [Goto("push") EXCEPT ![Len(stack)].arg = traceFlag']
              /\ UNCHANGED currentLevel
     \/ /\ Len(debugStack) > 0
        /\ closeTrace
        /\ stack' = Below(1)
        /\ UNCHANGED <<disposition, loop>>
     \/ /\ Len(debugStack) > 0
        /\ closeTrace
        /\ ToCatch \/ ToTop
  /\ UNCHANGED <<currentSignal, symHandler, timerEvent, armed, pending, blocked, called,
                 arrivals>>

\* A call of a user function is pushed, other expressions are not.
DebugPush ==
  /\ At("entry", "push")
  /\ \/ UNCHANGED debugStack
     \/ /\ Len(debugStack) < MaxDebug
        /\ debugStack' = Append(debugStack, recursionCount)
  /\ stack' = Goto("leave")
  /\ UNCHANGED <<traceFlag, currentSignal, loop, called, allocated, currentLevel, osVars>>

\* The end of traceEntry stores the value it kept.
EntryLeave ==
  /\ At("entry", "leave")
  /\ traceFlag' = Top.arg \ {"IN_ENTRY"}
  /\ stack' = Below(1)
  /\ UNCHANGED <<currentSignal, loop, called, osVars, debugVars>>

----------------------------------------
(* What an expression may do *)

Call ==
  /\ May("call")
  /\ Len(stack) < MaxDepth
  /\ stack' = Append(stack, Eval)
  /\ UNCHANGED <<traceFlag, currentSignal, loop, called, osVars, debugVars>>

Catch ==
  /\ May("catch")
  /\ Len(stack) + 1 < MaxDepth
  /\ stack' = stack \o <<Frame("catch", "running", {}), Eval>>
  /\ UNCHANGED <<traceFlag, currentSignal, loop, called, osVars, debugVars>>

Finish ==
  /\ At("eval", "body")
  /\ stack' = Goto("exit")
  /\ UNCHANGED <<traceFlag, currentSignal, loop, called, osVars, debugVars>>

\* errorProc with no flag set is fatalError: it prints, and only then clears and jumps.
RaiseFatal ==
  /\ May("error")
  /\ traceFlag = {}
  /\ stack' = Goto("fatal")
  /\ UNCHANGED <<traceFlag, currentSignal, loop, called, osVars, debugVars>>

\* errorProc with any flag set prints the message and returns nil to its caller.
RaiseIgnored ==
  /\ May("error")
  /\ traceFlag # {}
  /\ stack' = Goto("exit")
  /\ UNCHANGED <<traceFlag, currentSignal, loop, called, osVars, debugVars>>

FatalError ==
  /\ At("eval", "fatal")
  /\ closeTrace
  /\ ToCatch \/ ToTop
  /\ UNCHANGED <<currentSignal, symHandler, timerEvent, armed, pending, blocked, called,
                 arrivals>>

\* throw jumps whatever the flags are.
Throw ==
  /\ May("throw")
  /\ ToCatch
  /\ UNCHANGED <<traceFlag, currentSignal, called, osVars, debugVars>>

\* (reset): to the top, with the flags cleared there.
Reset ==
  /\ May("reset")
  /\ \/ ToCatch /\ UNCHANGED traceFlag
     \/ ToTop /\ traceFlag' = {}
  /\ UNCHANGED <<currentSignal, symHandler, timerEvent, armed, pending, blocked, called,
                 arrivals, debugVars>>

\* (signal s "ignore" | "default" | "reset") and (signal s handler).
SetSignal(s) ==
  /\ May("signal")
  /\ \E mode \in {"ignore", "default", "reset", "handler"} :
       /\ symHandler' = [symHandler EXCEPT ![s] = mode = "handler"]
       /\ disposition' = [disposition EXCEPT ![s] = IF mode \in {"ignore", "default"}
                                                    THEN mode ELSE "handler"]
       /\ pending' = IF mode = "ignore" THEN pending \ {s} ELSE pending
  /\ stack' = Goto("exit")
  /\ UNCHANGED <<traceFlag, currentSignal, timerEvent, armed, blocked, loop, called,
                 arrivals, debugVars>>

\* (timer f seconds)
StartTimer ==
  /\ May("timer")
  /\ timerEvent' = TRUE
  /\ armed' = TRUE
  /\ stack' = Goto("exit")
  /\ UNCHANGED <<traceFlag, currentSignal, symHandler, disposition, pending, blocked, loop,
                 called, arrivals, debugVars>>

\* Mutant: the trace is switched on without memory for its stack.
TraceOnUnallocated ==
  /\ May("trace")
  /\ traceFlag' = traceFlag \cup {"TRUE", "IN_DEBUG"}
  /\ stack' = Goto("exit")
  /\ UNCHANGED <<currentSignal, loop, called, debugVars, osVars>>

\* (trace true) and the entry of (debug expr); openTrace does nothing when a flag is set.
TraceOn ==
  /\ May("trace")
  /\ IF traceFlag = {}
     THEN traceFlag' = {"TRUE", "IN_DEBUG"} /\ debugStack' = <<>> /\ allocated' = TRUE
     ELSE traceFlag' = traceFlag \cup {"IN_DEBUG"} /\ UNCHANGED <<debugStack, allocated>>
  /\ stack' = Goto("exit")
  /\ UNCHANGED <<currentSignal, loop, called, currentLevel, osVars>>

TracePrint ==
  /\ May("print")
  /\ traceFlag' = traceFlag \cup {"PRINT"}
  /\ stack' = Goto("exit")
  /\ UNCHANGED <<currentSignal, loop, called, osVars, debugVars>>

TraceOff ==
  /\ May("trace")
  /\ closeTrace
  /\ stack' = Goto("exit")
  /\ UNCHANGED <<currentSignal, loop, called, osVars>>

----------------------------------------
(* The end of an evaluation *)

\* What is below an evaluation that ends: a catch ends with it.
Returned == IF Len(stack) > 1 /\ stack[Len(stack) - 1].fn = "catch"
            THEN [Below(2) EXCEPT ![Len(stack) - 2].pc = "exit"]
            ELSE Below(1)

\* traceExit does nothing without a flag, inside itself or traceEntry, or with a note to take.
Untraced == \/ traceFlag \in {{}, {"PRINT"}}
            \/ traceFlag \cap ({"IN_ENTRY", "IN_EXIT"} \cup Asynchronous) # {}

EvalExit ==
  /\ At("eval", "exit")
  /\ Untraced
  /\ stack' = Returned
  /\ UNCHANGED <<traceFlag, currentSignal, loop, called, osVars, debugVars>>

\* The exit of a function that was pushed pops it; the user may be asked as on entry.
\* With nothing pushed the word before the stack's memory is read, mostly in vain.
DebugExit ==
  /\ At("eval", "exit")
  /\ ~Untraced
  /\ \E next \in {"DEBUG_NEXT" \in traceFlag /\ currentLevel < recursionCount} :
     \E popped \in {~next /\ debugStack # <<>> /\ debugStack[Len(debugStack)] = recursionCount} :
       /\ debugStack' = IF popped THEN SubSeq(debugStack, 1, Len(debugStack) - 1)
                                  ELSE debugStack
       /\ \/ /\ traceFlag' = IF next THEN traceFlag ELSE traceFlag \ {"DEBUG_NEXT"}
             /\ stack' = Returned
             /\ UNCHANGED <<allocated, currentLevel, disposition, loop>>
          \/ /\ ~next /\ debugStack' # <<>>
             /\ traceFlag' = traceFlag \cup {"DEBUG_NEXT"}
             /\ currentLevel' = recursionCount
             /\ stack' = Returned
             /\ UNCHANGED <<allocated, disposition, loop>>
          \/ /\ ~next /\ debugStack' # <<>>
             /\ traceFlag' = {} /\ allocated' = FALSE
             /\ UNCHANGED currentLevel
             /\ \/ stack' = Returned /\ UNCHANGED <<disposition, loop>>
                \/ ToCatch
                \/ ToTop
  /\ UNCHANGED <<currentSignal, symHandler, timerEvent, armed, pending, blocked, called,
                 arrivals>>

\* That word is the level by chance: the index goes below the bottom, and what is pushed
\* next overwrites malloc's own data.  The model says nothing of what follows.
DebugUnderrun ==
  /\ At("eval", "exit")
  /\ ~Untraced
  /\ "DEBUG_NEXT" \in traceFlag => currentLevel >= recursionCount
  /\ debugStack = <<>>
  /\ loop' = "dead"
  /\ stack' = <<>>
  /\ pending' = {} /\ blocked' = {}
  /\ UNCHANGED <<traceFlag, currentSignal, symHandler, timerEvent, armed, disposition,
                 called, arrivals, debugVars>>

----------------------------------------
Kernel == \E s \in Sigs : Arrive(s) \/ Kill(s) \/ Defer(s) \/ RunIdle(s) \/ Unhandled(s)

TraceEntry == \/ EvalEntry \/ EntrySignal \/ EntryNumber \/ EntryHandler \/ EntrySigint
              \/ EntryTimer \/ EntryClear \/ EntryTrace \/ Debugger \/ DebugPush \/ EntryLeave

Operation == \/ Call \/ Catch \/ RaiseFatal \/ RaiseIgnored \/ Throw \/ Reset
             \/ StartTimer \/ TraceOn \/ TracePrint \/ TraceOff
             \/ \E s \in UserSigs : SetSignal(s)

Evaluate == \/ HandlerReturns \/ Prompt \/ PromptReset \/ EvaluateLine \/ TraceEntry
            \/ Finish \/ FatalError \/ EvalExit \/ DebugExit \/ DebugUnderrun

SignalsNext == Kernel \/ ReadLine \/ Operation \/ Evaluate

\* The process is scheduled, lines keep coming, and no expression runs for ever.
SignalsFairness == /\ WF_signalVars(Evaluate) /\ WF_signalVars(ReadLine)
            /\ \A depth \in 1..MaxDepth : SF_signalVars(Finish /\ Len(stack) = depth)

SignalsSpec == SignalsInit /\ [][SignalsNext]_signalVars /\ SignalsFairness

----------------------------------------
(* Properties *)

(* Newlisp handlers run one at a time: of all the calls of traceEntry on *)
(* the stack at most one has taken a note (TRACE_IN_ENTRY, nl-debug.c:161).*)
OneHandler == Cardinality({i \in Frames("entry") :
                             stack[i].pc \in {"handler", "number", "clear"}}) <= 1

(* While handlers neither throw nor fail, TRACE_IN_ENTRY never outlives *)
(* the call of traceEntry that set it, whatever else throws, resets or *)
(* fails: left behind, it would switch all later handlers off. *)
EntryFlagExact == (loop # "dead" /\ "IN_ENTRY" \in traceFlag) => Frames("entry") # {}

(* A signal is masked exactly while its handler runs inside the C handler: *)
(* no sequence of nested signals, timers and errors of the program leaves *)
(* one masked for good (signal_handler, newlisp.c:381). *)
MaskExact == blocked = {stack[i].arg : i \in Frames("os")}

HandlersExact == OneHandler /\ MaskExact /\ EntryFlagExact

(* The debug stack has its memory, and is not NULL, whenever traceExit *)
(* reads it, after any nesting of traced calls, errors and ends of the *)
(* trace.  That something is on it is not promised: see DebugUnderrun. *)
DebugStackAllocated == (At("eval", "exit") /\ ~Untraced) => allocated

(* The debug stack names functions that are still running, each one deeper *)
(* than the one before: an error inside a traced function does not leave *)
(* its entry to be taken for another's (nl-debug.c:231, :276).  A reset *)
(* that Ctrl-C has noted keeps traceExit from popping, but ends the trace. *)
DebugStackLive ==
  traceFlag \cap {"TRUE", "IN_DEBUG"} # {} /\ "SIGINT" \notin traceFlag =>
    \A i \in DOMAIN debugStack : /\ debugStack[i] <= recursionCount
                                 /\ i > 1 => debugStack[i - 1] < debugStack[i]

DebugStackExact == DebugStackAllocated /\ DebugStackLive

(* A signal noted while a program runs is accepted: the note is taken by a *)
(* later expression, or the process ends. *)
NoteAccepted == "SIGNAL" \in traceFlag ~> ("SIGNAL" \notin traceFlag \/ loop = "dead")

=============================================================================
