---------------------------- MODULE DynamicScope ----------------------------
(***************************************************************************)
(* newLISP's variable environment (newlisp.c): the current value of every  *)
(* variable is in its symbol, envStack holds the values it hides, and the  *)
(* C functions that bind variables - lambdas, let, letn, local, loops -    *)
(* pop what they pushed when they return.  throw and errors skip them with *)
(* longjmp to errorJump; catch, eval-string and reset then pop what was    *)
(* left.  The C stack is the sequence activations, one record per function *)
(* that binds, catches or saves registers; which program runs is left open.*)
(***************************************************************************)
EXTENDS Integers, Sequences, FiniteSets

CONSTANTS
  Sym,        \* the variables
  Val,        \* the values they take
  Nil,        \* the value nil
  Protected,  \* the variables that may not be bound or set by a program
  Args, Idx,  \* $args and $idx, bound by lambdas and loops
  Fun,        \* the user's functions
  Ctx, Main,  \* the contexts, and the one a program starts in
  Home,       \* the context of every function
  Params,     \* the parameter lists programs use
  MaxDepth,   \* bound: activations at one time
  MaxHistory, \* bound: entries of lambdaStack
  MaxEnv,     \* bound: entries of envStack with those of the function called
  Features,   \* the parts of the language programs use
  Null        \* no symbol, no pending jump, no function

AllFeatures == {"catch", "eval-string", "load", "trace", "local", "loop", "context"}

ASSUME ScopeAssumption ==
  /\ Nil \in Val /\ Args \in Sym /\ Idx \in Sym
  /\ Protected \subseteq Sym
  /\ Main \in Ctx /\ Home \in [Fun -> Ctx]
  /\ Params \subseteq Seq(Sym)
  /\ MaxDepth \in Nat /\ MaxHistory \in Nat /\ MaxEnv \in Nat
  /\ Features \subseteq AllFeatures
  /\ Null \notin Sym \cup Fun \cup {"throw", "error", "underflow"}

VARIABLES
  contents,       \* symbol->contents: the current value of every variable
  envStack,       \* the hidden values, each with its symbol
  activations,    \* the C functions running, innermost last
  lambdaStack,    \* the functions of the lambda expressions being called
  currentContext,
  recursionCount, \* calls of evaluateExpression
  evalCatchFlag,  \* how many catches could receive a throw
  errorJump,      \* the activation whose setjmp is in force, 0 for main's
  traceFlag,      \* trace or debug mode is on
  goneOn,         \* a loop has gone on with a variable it could not bind
  jump            \* the longjmp under way: "throw", "error" or Null; or
                  \* "underflow", after which the program's behaviour is undefined

vars == <<contents, envStack, activations, lambdaStack, currentContext,
          recursionCount, evalCatchFlag, errorJump, traceFlag, goneOn, jump>>

Binders == {"lambda", "let", "letn", "local", "loop", "plain"}  \* plain binds nothing
Kinds == Binders \cup {"catch", "eval-string", "load"}

\* params is what is to be bound and n how many of it are; args holds values
\* evaluated for it.  env, rec, lam, ctx and jmp are the registers when the
\* function was entered; each kind restores those its code has saved.
Activation ==
  [kind : Kinds, phase : {"args", "bind", "body", "store"}, fn : Fun \cup {Null},
   params : Seq(Sym), n : Nat, args : Seq(Val), sym : Sym \cup {Null},
   env : Nat, rec : Nat, lam : Nat, ctx : Ctx, jmp : Nat]

Depth == Len(activations)
Top == activations[Depth]
WithTop(a) == [activations EXCEPT ![Depth] = a]
Callers == SubSeq(activations, 1, Depth - 1)

TypeOK ==
  /\ contents \in [Sym -> Val]
  /\ envStack \in Seq([sym : Sym, saved : Val])
  /\ activations \in Seq(Activation)
  /\ lambdaStack \in Seq(Fun)
  /\ currentContext \in Ctx
  /\ recursionCount \in Nat /\ evalCatchFlag \in Nat
  /\ errorJump \in 0..Depth
  /\ traceFlag \in BOOLEAN /\ goneOn \in BOOLEAN
  /\ jump \in {"throw", "error", "underflow", Null}
  /\ jump = "underflow" => goneOn

Init ==
  /\ contents = [s \in Sym |-> Nil]
  /\ envStack = <<>> /\ activations = <<>> /\ lambdaStack = <<>>
  /\ currentContext = Main
  /\ recursionCount = 0 /\ evalCatchFlag = 0 /\ errorJump = 0
  /\ traceFlag = FALSE /\ goneOn = FALSE /\ jump = Null
----------------------------------------
(* Undoing.  Popping an entry puts its saved value back, so after popping *)
(* down to depth d a variable has the value saved by its lowest entry *)
(* above d. *)
Above(d, s) == {j \in d + 1 .. Len(envStack) : envStack[j].sym = s}
\* Mutant: the entries are popped from the wrong end.
Lowest_Highest(S) == CHOOSE j \in S : \A i \in S : i <= j
Lowest(S) == CHOOSE j \in S : \A i \in S : j <= i
Undone(d, s) == IF Above(d, s) = {} THEN contents[s] ELSE envStack[Lowest(Above(d, s))].saved

\* recoverEnvironment does nothing when the stack is below the depth it is given.
Lower(d) == IF d <= Len(envStack) THEN d ELSE Len(envStack)

UndoTo(d) ==
  /\ contents' = [s \in Sym |-> Undone(d, s)]
  /\ envStack' = SubSeq(envStack, 1, Lower(d))
----------------------------------------
(* Evaluating.  A subexpression can be evaluated at top level, in a body, *)
(* and while arguments, letn's initialisers and default values are. *)
Evaluating ==
  /\ jump = Null
  /\ Depth > 0 => \/ Top.phase \in {"args", "body"}
                  \/ Top.phase = "bind" /\ Top.kind = "letn"
                  \/ Top.phase = "bind" /\ Top.kind = "lambda" /\ Top.args = <<>>

Running(k, ph) == jump = Null /\ Depth > 0 /\ Top.kind \in k /\ Top.phase = ph

Entered(k, ph, f, ps, s) ==
  [kind |-> k, phase |-> ph, fn |-> f, params |-> ps, n |-> 0, args |-> <<>>, sym |-> s,
   env |-> Len(envStack), rec |-> recursionCount, lam |-> Len(lambdaStack),
   ctx |-> currentContext, jmp |-> errorJump]

BindPhase(n, ps) == IF n = Len(ps) THEN "body" ELSE "bind"

Enter(a) ==
  /\ Evaluating /\ Depth < MaxDepth /\ Len(envStack) + Len(a.params) <= MaxEnv
  /\ activations' = Append(activations, a)
  /\ recursionCount' = recursionCount + 1
  /\ UNCHANGED <<contents, envStack, traceFlag, goneOn, jump>>

\* A loop that has gone on without binding pops entries of others: it takes
\* SYMBOL_PROTECTED off the symbol it pops, and one with $idx makes the popped
\* symbol listIdxSymbol.  From then on any symbol may be set or bound.
Settable == {s \in Sym : s \notin Protected \/ goneOn}

\* Every lambda binds $args last.  (A lambda-macro binds its arguments
\* unevaluated, a special case of evaluating them.)
CallLambda(f, ps) ==
  /\ Len(lambdaStack) < MaxHistory
  /\ Enter(Entered("lambda", "args", f, Append(ps, Args), Null))
  /\ lambdaStack' = Append(lambdaStack, f)
  /\ UNCHANGED <<currentContext, evalCatchFlag, errorJump>>

\* let evaluates all initialisers first; letn and local bind one by one.
CallLet(k, ps) ==
  /\ k = "local" => "local" \in Features
  /\ Enter(Entered(k, IF k = "let" THEN "args" ELSE BindPhase(0, ps), Null, ps, Null))
  /\ UNCHANGED <<lambdaStack, currentContext, evalCatchFlag, errorJump>>

\* while binds $idx, dotimes and for their variable, dolist both.
CallLoop(ps) ==
  /\ "loop" \in Features
  /\ Enter(Entered("loop", "bind", Null, ps, Null))
  /\ UNCHANGED <<lambdaStack, currentContext, evalCatchFlag, errorJump>>

CallCatch(s) ==
  /\ "catch" \in Features
  /\ Enter(Entered("catch", "body", Null, <<>>, s))
  /\ evalCatchFlag' = evalCatchFlag + 1
  /\ errorJump' = Depth + 1
  /\ UNCHANGED <<lambdaStack, currentContext>>

\* eval-string with an error expression
CallEvalString(c) ==
  /\ "eval-string" \in Features
  /\ Enter(Entered("eval-string", "body", Null, <<>>, Null))
  /\ currentContext' = c
  /\ evalCatchFlag' = evalCatchFlag + 1
  /\ errorJump' = Depth + 1
  /\ UNCHANGED lambdaStack

\* load: its setjmp closes the file and jumps on.
CallLoad(c) ==
  /\ "load" \in Features
  /\ Enter(Entered("load", "body", Null, <<>>, Null))
  /\ currentContext' = c
  /\ errorJump' = Depth + 1
  /\ UNCHANGED <<lambdaStack, evalCatchFlag>>

\* $idx as a loop's own variable is like any other protected symbol.
Call ==
  \/ \E f \in Fun, ps \in Params : CallLambda(f, ps)
  \/ \E k \in {"let", "letn", "local"}, ps \in Params : CallLet(k, ps)
  \/ \E s \in Sym \ {Idx} : \E ps \in {<<s>>, <<Idx>>, <<s, Idx>>} : CallLoop(ps)
  \/ \E s \in {Null} \cup Settable : CallCatch(s)
  \/ \E c \in Ctx : CallEvalString(c) \/ CallLoad(c)
----------------------------------------
(* Binding. *)
Parameters(a) == IF a.kind = "lambda" THEN Len(a.params) - 1 ELSE Len(a.params)

\* An argument of a lambda or an initialiser of let has been evaluated.
EvalArg(v) ==
  /\ Running({"lambda", "let"}, "args") /\ Len(Top.args) < Parameters(Top)
  /\ activations' = WithTop([Top EXCEPT !.args = Append(@, v)])
  /\ UNCHANGED <<contents, envStack, lambdaStack, currentContext, recursionCount,
                 evalCatchFlag, errorJump, traceFlag, goneOn, jump>>

\* A lambda may get fewer arguments than it has parameters.  Only now, after
\* their evaluation, does it save the context it will put back.
BeginBinding ==
  /\ Running({"lambda", "let"}, "args")
  /\ Top.kind = "let" => Len(Top.args) = Len(Top.params)
  /\ activations' = WithTop([Top EXCEPT !.phase = BindPhase(0, Top.params),
                              !.ctx = IF Top.kind = "lambda" THEN currentContext ELSE @])
  /\ currentContext' = IF Top.kind = "lambda" THEN Home[Top.fn] ELSE currentContext
  /\ UNCHANGED <<contents, envStack, lambdaStack, recursionCount, evalCatchFlag,
                 errorJump, traceFlag, goneOn, jump>>

\* $args, the last of a lambda, and a loop's $idx are bound although protected.
Blocked == /\ Top.params[Top.n + 1] \in Protected
           /\ ~(Top.kind = "lambda" /\ Top.n + 1 = Len(Top.params))
           /\ ~(Top.kind = "loop" /\ Top.params[Top.n + 1] = Idx)

Bindable == {Top.params[Top.n + 1]} \cup (IF goneOn /\ Top.kind = "loop" THEN Sym ELSE {})

\* v is the value the next symbol gets: the next argument, a default or
\* initialiser evaluated just now, nil for local and for a loop variable.
Given(v) ==
  /\ Top.args # <<>> => v = Head(Top.args)
  /\ Top.kind = "local" => v = Nil
  /\ Top.kind = "loop" /\ Top.params[Top.n + 1] # Idx => v = Nil

BindNext(v) ==
  /\ Running(Binders, "bind") /\ (~Blocked \/ goneOn) /\ Given(v)
  /\ \E s \in Bindable :
       /\ envStack' = Append(envStack, [sym |-> s, saved |-> contents[s]])
       /\ contents' = [contents EXCEPT ![s] = v]
  /\ activations' = WithTop([Top EXCEPT !.n = @ + 1, !.phase = BindPhase(Top.n + 1, Top.params),
                                        !.args = IF @ = <<>> THEN <<>> ELSE Tail(@)])
  /\ UNCHANGED <<lambdaStack, currentContext, recursionCount, evalCatchFlag,
                 errorJump, traceFlag, goneOn, jump>>

\* In trace or debug mode errorProc returns, and so does the C function,
\* without popping what it has pushed.
Abandon ==
  /\ traceFlag
  /\ activations' = Callers
  /\ recursionCount' = recursionCount - 1
  /\ lambdaStack' = IF Top.kind = "lambda"
                      THEN SubSeq(lambdaStack, 1, Len(lambdaStack) - 1) ELSE lambdaStack
  /\ UNCHANGED <<contents, envStack, currentContext, evalCatchFlag, errorJump, traceFlag, goneOn, jump>>

\* loop() and dolist() do not look at what getPushSymbolParam returns: they go
\* on with the symbol they have not pushed, and pop as if they had.
GoOn ==
  /\ traceFlag /\ goneOn' = TRUE
  /\ activations' = WithTop([Top EXCEPT !.n = @ + 1, !.phase = BindPhase(Top.n + 1, Top.params)])
  /\ UNCHANGED <<contents, envStack, lambdaStack, currentContext, recursionCount,
                 evalCatchFlag, errorJump, traceFlag, jump>>

\* The next symbol is protected.
BindFails ==
  /\ Running(Binders, "bind") /\ Blocked
  /\ \/ IF Top.kind = "loop" THEN GoOn ELSE Abandon
     \/ ~traceFlag /\ jump' = "error"
        /\ UNCHANGED <<contents, envStack, activations, lambdaStack, currentContext,
                       recursionCount, evalCatchFlag, errorJump, traceFlag, goneOn>>

\* dolist has bound its variable, if it could, and $idx when it finds that it
\* has no list.  (Without trace this is one of the errors of RaiseError.)
NoList == Running({"loop"}, "body") /\ Len(Top.params) = 2 /\ Abandon
----------------------------------------
(* Assignments, errors and the modes. *)
SetVar(s, v) ==
  /\ Evaluating /\ s \in Settable
  /\ contents' = [contents EXCEPT ![s] = v]
  /\ UNCHANGED <<envStack, activations, lambdaStack, currentContext, recursionCount,
                 evalCatchFlag, errorJump, traceFlag, goneOn, jump>>

\* A loop sets its variable before every round, while its $idx.
LoopStep(v) ==
  /\ Running({"loop"}, "body")
  /\ contents' = [contents EXCEPT ![Top.params[1]] = v]
  /\ UNCHANGED <<envStack, activations, lambdaStack, currentContext, recursionCount,
                 evalCatchFlag, errorJump, traceFlag, goneOn, jump>>

Jump(what) ==
  /\ Evaluating
  /\ jump' = what
  /\ UNCHANGED <<contents, envStack, activations, lambdaStack, currentContext,
                 recursionCount, evalCatchFlag, errorJump, goneOn>>

\* An error without trace; reset, and a full call stack (which closes the
\* trace), in either mode.
RaiseError == Jump("error") /\ traceFlag' \in {traceFlag, FALSE}

Throw == evalCatchFlag > 0 /\ Jump("throw") /\ UNCHANGED traceFlag

\* (context 'c): in force until the next function that puts its own back.
SwitchContext(c) ==
  /\ "context" \in Features /\ Evaluating
  /\ currentContext' = c
  /\ UNCHANGED <<contents, envStack, activations, lambdaStack, recursionCount,
                 evalCatchFlag, errorJump, traceFlag, goneOn, jump>>

\* load cannot open its file: loadFile returns NULL with the file's context in
\* force, and p_load raises the error, after which trace mode goes on.
LoadFails(c) ==
  /\ "load" \in Features /\ Evaluating
  /\ currentContext' = c
  /\ jump' = IF traceFlag THEN Null ELSE "error"
  /\ UNCHANGED <<contents, envStack, activations, lambdaStack, recursionCount,
                 evalCatchFlag, errorJump, traceFlag, goneOn>>

Trace(on) ==
  /\ "trace" \in Features /\ Evaluating
  /\ traceFlag' = on
  /\ UNCHANGED <<contents, envStack, activations, lambdaStack, currentContext,
                 recursionCount, evalCatchFlag, errorJump, goneOn, jump>>
----------------------------------------
(* Returning. *)
\* The functions that bind pop as many entries as they have counted.
ReturnBinder ==
  /\ Running(Binders, "body") /\ Top.n <= Len(envStack)
  /\ UndoTo(Len(envStack) - Top.n)
  /\ activations' = Callers
  /\ recursionCount' = recursionCount - 1
  /\ IF Top.kind = "lambda"
     THEN /\ lambdaStack' = SubSeq(lambdaStack, 1, Len(lambdaStack) - 1)
          /\ currentContext' = Top.ctx
     ELSE UNCHANGED <<lambdaStack, currentContext>>
  /\ UNCHANGED <<evalCatchFlag, errorJump, traceFlag, goneOn, jump>>

\* They do not look whether there are as many: popEnvironment reads the words
\* in front of the stack and takes them for a symbol.
Underflow ==
  /\ Running(Binders, "body") /\ Top.n > Len(envStack)
  /\ jump' = "underflow"
  /\ UNCHANGED <<contents, envStack, activations, lambdaStack, currentContext,
                 recursionCount, evalCatchFlag, errorJump, traceFlag, goneOn>>

ReturnEvalString ==
  /\ Running({"eval-string"}, "body")
  /\ activations' = Callers
  /\ recursionCount' = recursionCount - 1
  /\ currentContext' = Top.ctx
  /\ errorJump' = Top.jmp
  /\ evalCatchFlag' = evalCatchFlag - 1
  /\ UNCHANGED <<contents, envStack, lambdaStack, traceFlag, goneOn, jump>>

\* Mutant: load returns without putting the outer errorJump back.
ReturnLoad_KeepsJump ==
  /\ Running({"load"}, "body")
  /\ activations' = Callers
  /\ recursionCount' = recursionCount - 1
  /\ currentContext' = Top.ctx
  /\ UNCHANGED <<contents, envStack, lambdaStack, evalCatchFlag, errorJump, traceFlag, goneOn, jump>>

ReturnLoad ==
  /\ Running({"load"}, "body")
  /\ activations' = Callers
  /\ recursionCount' = recursionCount - 1
  /\ currentContext' = Top.ctx
  /\ errorJump' = Top.jmp
  /\ UNCHANGED <<contents, envStack, lambdaStack, evalCatchFlag, traceFlag, goneOn, jump>>

\* Mutant: catch returns without counting itself out.
ReturnCatch_KeepsFlag ==
  /\ Running({"catch"}, "body")
  /\ activations' = WithTop([Top EXCEPT !.phase = "store"])
  /\ errorJump' = Top.jmp
  /\ UNCHANGED <<contents, envStack, lambdaStack, currentContext, recursionCount,
                 evalCatchFlag, traceFlag, goneOn, jump>>

\* The expression of catch has a value: its result is to be stored.
ReturnCatch ==
  /\ Running({"catch"}, "body")
  /\ activations' = WithTop([Top EXCEPT !.phase = "store"])
  /\ evalCatchFlag' = evalCatchFlag - 1
  /\ errorJump' = Top.jmp
  /\ UNCHANGED <<contents, envStack, lambdaStack, currentContext, recursionCount,
                 traceFlag, goneOn, jump>>

\* p_catch ends by assigning what it got - value, thrown value or error text -
\* to its symbol; nothing can be evaluated before it does.
CatchStores(v) ==
  /\ Running({"catch"}, "store")
  /\ contents' = IF Top.sym = Null THEN contents ELSE [contents EXCEPT ![Top.sym] = v]
  /\ activations' = Callers
  /\ recursionCount' = recursionCount - 1
  /\ UNCHANGED <<envStack, lambdaStack, currentContext, evalCatchFlag, errorJump,
                 traceFlag, goneOn, jump>>
----------------------------------------
(* Landing: longjmp has come back to the setjmp in force.  The activations *)
(* above it are kept until their bindings are undone. *)
Jumping == jump \in {"throw", "error"}
Land(k) == Jumping /\ errorJump > 0 /\ activations[errorJump].kind = k
Target == activations[errorJump]

\* Mutant: load jumps on with its own setjmp still in force.
LandAtLoad_KeepsJump ==
  /\ Land("load")
  /\ currentContext' = Target.ctx
  /\ UNCHANGED <<contents, envStack, activations, lambdaStack, recursionCount,
                 evalCatchFlag, errorJump, traceFlag, goneOn, jump>>

\* load jumps on to the handler it found.
LandAtLoad ==
  /\ Land("load")
  /\ currentContext' = Target.ctx
  /\ errorJump' = Target.jmp
  /\ UNCHANGED <<contents, envStack, activations, lambdaStack, recursionCount,
                 evalCatchFlag, traceFlag, goneOn, jump>>

\* Mutant: catch forgets the lambda stack.
LandAtCatch_KeepsLambdas ==
  /\ Land("catch")
  /\ UndoTo(Target.env)
  /\ recursionCount' = Target.rec + 1
  /\ lambdaStack' = lambdaStack
  /\ currentContext' = Target.ctx
  /\ evalCatchFlag' = evalCatchFlag - 1
  /\ errorJump' = Target.jmp
  /\ IF jump = "error" /\ Target.sym = Null
     THEN activations' = SubSeq(activations, 1, errorJump - 1) /\ UNCHANGED jump
     ELSE /\ activations' = Append(SubSeq(activations, 1, errorJump - 1),
                                   [Target EXCEPT !.phase = "store"])
          /\ jump' = Null
  /\ UNCHANGED <<traceFlag, goneOn>>

\* catch restores its registers; without a symbol it lets errors pass.
LandAtCatch ==
  /\ Land("catch")
  /\ UndoTo(Target.env)
  /\ recursionCount' = Target.rec + 1
  /\ lambdaStack' = SubSeq(lambdaStack, 1, Target.lam)
  /\ currentContext' = Target.ctx
  /\ evalCatchFlag' = evalCatchFlag - 1
  /\ errorJump' = Target.jmp
  /\ IF jump = "error" /\ Target.sym = Null
     THEN activations' = SubSeq(activations, 1, errorJump - 1) /\ UNCHANGED jump
     ELSE /\ activations' = Append(SubSeq(activations, 1, errorJump - 1),
                                   [Target EXCEPT !.phase = "store"])
          /\ jump' = Null
  /\ UNCHANGED <<traceFlag, goneOn>>

\* Mutant: eval-string leaves the context of its source in force.
LandAtEvalString_KeepsContext ==
  /\ Land("eval-string")
  /\ UndoTo(Target.env)
  /\ recursionCount' = Target.rec + 1
  /\ evalCatchFlag' = evalCatchFlag - 1
  /\ errorJump' = Target.jmp
  /\ activations' = Append(SubSeq(activations, 1, errorJump - 1), [Target EXCEPT !.kind = "plain"])
  /\ jump' = Null
  /\ UNCHANGED <<currentContext, lambdaStack, traceFlag, goneOn>>

\* eval-string does not restore lambdaStackIdx; it goes on to evaluate its
\* error expression, with the outer handler in force.
LandAtEvalString ==
  /\ Land("eval-string")
  /\ UndoTo(Target.env)
  /\ recursionCount' = Target.rec + 1
  /\ currentContext' = Target.ctx
  /\ evalCatchFlag' = evalCatchFlag - 1
  /\ errorJump' = Target.jmp
  /\ activations' = Append(SubSeq(activations, 1, errorJump - 1), [Target EXCEPT !.kind = "plain"])
  /\ jump' = Null
  /\ UNCHANGED <<lambdaStack, traceFlag, goneOn>>

\* reset() at top level; evalCatchFlag is not among what it clears.
LandAtMain ==
  /\ Jumping /\ errorJump = 0
  /\ UndoTo(0)
  /\ activations' = <<>> /\ lambdaStack' = <<>>
  /\ currentContext' = Main
  /\ recursionCount' = 0
  /\ traceFlag' = FALSE
  /\ jump' = Null
  /\ UNCHANGED <<evalCatchFlag, errorJump, goneOn>>

Landing == LandAtLoad \/ LandAtCatch \/ LandAtEvalString \/ LandAtMain

Return == ReturnBinder \/ Underflow \/ ReturnEvalString \/ ReturnLoad \/ ReturnCatch

Next ==
  \/ Call \/ BeginBinding \/ BindFails \/ NoList \/ Return \/ Landing
  \/ \E v \in Val : EvalArg(v) \/ BindNext(v) \/ LoopStep(v) \/ CatchStores(v)
  \/ \E s \in Sym, v \in Val : SetVar(s, v)
  \/ RaiseError \/ Throw
  \/ \E on \in BOOLEAN : Trace(on)
  \/ \E c \in Ctx : SwitchContext(c) \/ LoadFails(c)

Spec == Init /\ [][Next]_vars

\* longjmp is never delayed.
FairSpec == Spec /\ WF_vars(Landing)
----------------------------------------
(* Properties. *)
\* The value binding k of envStack has now, and the values under everything:
\* what the symbols hold, seen as a stack of bindings.
DeepBindings == [k \in DOMAIN envStack |->
                  [sym |-> envStack[k].sym, val |-> Undone(k, envStack[k].sym)]]
GlobalValues == [s \in Sym |-> Undone(0, s)]
Marks == [i \in DOMAIN activations |-> activations[i].env]

Deep == INSTANCE DeepBinding WITH
  base <- GlobalValues, bindings <- DeepBindings, marks <- Marks

\* Dynamic scoping works: however functions end - by returning, by a throw
\* through several of them, by an error caught or not - exactly their own
\* bindings are undone, and assignments made under them to outer variables
\* survive (evaluateLambda, let, loop, recoverEnvironment).
ImplementsDeepBinding == Deep!Spec

\* A function that returns leaves the registers as it found them, whatever
\* was thrown and caught below it; the context too, if it is one that saves it
\* or the program never switches it (p_catch, sysEvalString, loadFile).
SavesContext(a) == a.kind \in {"lambda", "eval-string", "load"}
Balanced == [][jump = Null /\ Depth > 0 /\ activations' = Callers
  => /\ Len(envStack') = Top.env
     /\ recursionCount' = Top.rec
     /\ SavesContext(Top) \/ "context" \notin Features => currentContext' = Top.ctx
     /\ errorJump' = Top.jmp]_vars

\* A throw always has a catch or eval-string to land at, so it never ends the
\* program's evaluation (evalCatchFlag against the setjmps in force).
ThrowHasCatcher == jump = "throw" =>
  \E i \in 1..errorJump : activations[i].kind \in {"catch", "eval-string"}

\* doc/newlisp_manual.html:15821: history returns the call history of the
\* enclosing function; it reads lambdaStack: the n-th entry is the n-th lambda
\* of those running now, and there are no others.
LambdaCalls == {i \in DOMAIN activations : activations[i].kind = "lambda"}
CallNumber(i) == Cardinality({k \in LambdaCalls : k <= i})
HistoryIsCallChain == jump = Null =>
  /\ Len(lambdaStack) = Cardinality(LambdaCalls)
  /\ \A i \in LambdaCalls : lambdaStack[CallNumber(i)] = activations[i].fn

\* Every longjmp comes to rest: no handler jumps back to itself.
JumpsLand == Jumping ~> ~Jumping
=============================================================================
