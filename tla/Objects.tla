-------------------------------- MODULE Objects --------------------------------
(***************************************************************************)
(* Objects and methods (newlisp.c: p_colon, p_self): which object (self)   *)
(* means, through nested calls, catch, throw, eval-string and errors.      *)
(*                                                                         *)
(* Two registers say so.  The colon operator puts the object it is given   *)
(* in objCell; a function that is called copies that to objSymbol.contents *)
(* when its body begins, and (self) returns it.  The flags of objSymbol    *)
(* are those of the variable the object was found in, so that a constant   *)
(* is not changed through self.                                            *)
(*                                                                         *)
(* An object is named by the variable that holds it, or, when it is an     *)
(* expression's result, by a number.  The registers are C pointers: while  *)
(* they mean the object of a method that runs, it is there, unless the     *)
(* method itself deletes it.                                               *)
(***************************************************************************)
EXTENDS Naturals, Sequences, FiniteSets, FiniteSetsExt

CONSTANTS Vars,        \* variables that hold objects
          Protected,   \* those that are constants
          None,        \* nilCell
          Deepest,     \* bound on the frames on the C stack
          MostJumps    \* bound on the throws and errors of a behaviour

\* Variables, results and nilCell are told apart.
ObjectsAssumption ==
  /\ Protected \subseteq Vars
  /\ Vars \cap (Nat \cup {"new", "self"}) = {}
  /\ None \notin Vars \cup Nat
  /\ Deepest \in Nat /\ MostJumps \in Nat

VARIABLES
  stack,      \* frames of the C functions that are evaluating, the innermost last
  self,       \* objSymbol.contents
  objCell,
  guarded,    \* is objSymbol.flags that of a constant
  jump,       \* the longjmp under way
  jumps,      \* how many there have been
  changed,    \* history: constants changed through self
  base,       \* history: what an error has left in objCell at the top level
  exposed     \* history: has a jump left a method, or self been changed outside its body

objectVars == <<stack, self, objCell, guarded, jump, jumps, changed, base, exposed>>
Registers == <<self, objCell, guarded>>
Others == <<jump, jumps, changed, exposed>>

Same == 0     \* no error has left anything
Top == stack[Len(stack)]
Below == SubSeq(stack, 1, Len(stack) - 1)
Kind(kinds) == {i \in DOMAIN stack : stack[i].kind \in kinds}

\* An expression is evaluated by the innermost function, but for the colon operator,
\* which evaluates its call and nothing else.
Evaluating == jump = "none" /\ (stack # <<>> => Top.kind # "colon")
Push(frame) == /\ Evaluating /\ Len(stack) < Deepest
               /\ stack' = Append(stack, frame)

Raise(value) == Evaluating /\ jumps < MostJumps /\ jump' = value /\ jumps' = jumps + 1

ObjectsInit == /\ stack = <<>> /\ jump = "none" /\ jumps = 0
               /\ self = None /\ objCell = None /\ guarded = FALSE
               /\ changed = {} /\ base = Same /\ exposed = FALSE

----------------------------------------
(* Calls *)

\* The object's expression is a variable, (self), or another, whose result is on
\* the result stack.
New == Cardinality({i \in DOMAIN stack : stack[i].kind = "colon" /\ stack[i].obj \notin Vars}) + 1
Target(from) == CASE from = "self" -> self [] from = "new" -> New [] OTHER -> from
\* symbolCheck is the variable; else the flags stay as they are.
Flags(from) == IF from \in Vars THEN from \in Protected ELSE guarded

\* The registers are set before the object is looked at: what is no object, or has
\* no such method, is an error that leaves them so.
p_colon(from) ==
  /\ objCell' = Target(from) /\ guarded' = Flags(from)
  /\ \/ Raise("error") /\ UNCHANGED stack
     \/ /\ Target(from) # None
        /\ Push([kind |-> "colon", at |-> "call", obj |-> Target(from), left |-> Same,
                 self |-> self, objCell |-> objCell, guarded |-> guarded])
        /\ UNCHANGED <<jump, jumps>>
  /\ exposed' = (exposed \/ jump' # "none" \/ (from = "self" /\ self # objCell))
  /\ UNCHANGED <<self, changed, base>>

\* A function's arguments are evaluated, then its body; a macro has its body only.
Function(kind) == [kind |-> kind, at |-> IF kind = "lambda" THEN "args" ELSE "body", left |-> Same]

CallMethod(kind) ==
  /\ jump = "none" /\ stack # <<>> /\ Top.kind = "colon" /\ Top.at = "call"
  /\ stack' = Append([stack EXCEPT ![Len(stack)].at = "called"], Function(kind))
  /\ UNCHANGED <<Registers, Others, base>>

\* A macro that is not a method touches none of this: its body is like more of the
\* expression that called it.
Call == Push(Function("lambda")) /\ UNCHANGED <<Registers, Others, base>>

\* Mutant: the body begins with the object of the caller.
BodySelfCaller == self
\* "get contents for (self), is nil if no ancestor caller is colon"
BodySelf == objCell
evaluateLambda ==
  /\ jump = "none" /\ stack # <<>> /\ Top.kind = "lambda" /\ Top.at = "args"
  /\ stack' = [stack EXCEPT ![Len(stack)].at = "body"]
  /\ self' = BodySelf
  /\ UNCHANGED <<objCell, guarded, Others, base>>

\* What an error has left in the registers stays there when a function returns.
PopFrame == IF Top.left = Same THEN stack' = Below /\ UNCHANGED base
            ELSE IF Below = <<>> THEN stack' = Below /\ base' = Top.left
            ELSE stack' = [Below EXCEPT ![Len(Below)].left = Top.left] /\ UNCHANGED base
Return == /\ jump = "none" /\ stack # <<>> /\ Top.kind # "colon" /\ Top.at = "body"
          /\ PopFrame
          /\ UNCHANGED <<Registers, Others>>

\* Mutants: the flags, or objCell, are not put back.
PutBackFlagsNot(f) == self' = f.self /\ objCell' = f.objCell /\ UNCHANGED guarded
PutBackCellNot(f) == self' = f.self /\ guarded' = f.guarded /\ UNCHANGED objCell
PutBack(f) == self' = f.self /\ objCell' = f.objCell /\ guarded' = f.guarded
ColonReturns ==
  /\ jump = "none" /\ stack # <<>> /\ Top.kind = "colon" /\ Top.at = "called"
  /\ stack' = Below
  /\ PutBack(Top)
  /\ UNCHANGED <<Others, base>>

\* (inc (self 1)) and the like: symbolCheck is objSymbol.
p_self ==
  /\ Evaluating /\ self # None
  /\ IF guarded THEN Raise("error") /\ UNCHANGED changed
     ELSE changed' = changed \cup ({self} \cap Protected) /\ UNCHANGED <<jump, jumps>>
  /\ exposed' = (exposed \/ self # objCell)
  /\ UNCHANGED <<stack, Registers, base>>

----------------------------------------
(* catch, throw, errors *)

\* catch saves both registers, but not the flags; eval-string, which has an
\* expression for errors, saves neither.
p_catch == /\ Push([kind |-> "catch", at |-> "body", left |-> Same, self |-> self, objCell |-> objCell])
           /\ UNCHANGED <<Registers, Others, base>>
sysEvalString == /\ Push([kind |-> "eval", at |-> "body", left |-> Same])
                 /\ UNCHANGED <<Registers, Others, base>>

Handlers == Kind({"catch", "eval"})
Jump(value) == Raise(value) /\ UNCHANGED <<stack, Registers, changed, base, exposed>>
p_throw == Handlers # {} /\ Jump("throw")
Error == Jump("error")

Leave(i) == exposed' = (exposed \/ \E k \in Kind({"colon"}) : k > i)

\* Mutant: catch does not put (self) back.
PutBackCaughtNot(f) == objCell' = f.objCell /\ UNCHANGED <<self, guarded>>
PutBackCaught(f) == self' = f.self /\ objCell' = f.objCell /\ UNCHANGED guarded
\* An error is handed on by a catch that was given no symbol to put it in.
LandAtCatch ==
  /\ jump # "none" /\ Handlers # {}
  /\ LET i == Max(Handlers) IN
     /\ stack[i].kind = "catch"
     /\ Leave(i)
     /\ stack' = SubSeq(stack, 1, i - 1)
     /\ PutBackCaught(stack[i])
     /\ jump' \in (IF jump = "error" THEN {"error", "none"} ELSE {"none"})
  /\ UNCHANGED <<jumps, changed, base>>

\* The registers stay as they are.
LandAtEval ==
  /\ jump # "none" /\ Handlers # {}
  /\ LET i == Max(Handlers) IN
     /\ stack[i].kind = "eval"
     /\ Leave(i)
     /\ IF i = 1 THEN stack' = <<>> /\ base' = objCell
        ELSE stack' = [SubSeq(stack, 1, i - 1) EXCEPT ![i - 1].left = objCell] /\ UNCHANGED base
  /\ jump' = "none"
  /\ UNCHANGED <<Registers, jumps, changed>>

\* The reset after an uncaught error does not touch them either.
LandAtTop ==
  /\ jump = "error" /\ Handlers = {}
  /\ Leave(0)
  /\ stack' = <<>> /\ base' = objCell /\ jump' = "none"
  /\ UNCHANGED <<Registers, jumps, changed>>

ObjectsNext == \/ \E from \in Vars \cup {"new", "self"} : p_colon(from)
        \/ \E kind \in {"lambda", "macro"} : CallMethod(kind)
        \/ Call \/ evaluateLambda \/ Return \/ ColonReturns
        \/ p_self
        \/ p_catch \/ sysEvalString
        \/ p_throw \/ Error
        \/ LandAtCatch \/ LandAtEval \/ LandAtTop

ObjectsSpec == ObjectsInit /\ [][ObjectsNext]_objectVars

----------------------------------------
(* Properties *)

\* The object of the innermost method call, or what an error has left since.
Marked == {i \in DOMAIN stack : stack[i].kind = "colon" \/ stack[i].left # Same}
Meant == IF Marked # {} THEN LET f == stack[Max(Marked)] IN IF f.left # Same THEN f.left ELSE f.obj
         ELSE IF base # Same THEN base ELSE None

\* In the body of a function (self) is the object of the innermost method call,
\* whatever calls, throws and errors have come and gone; while the arguments of a
\* method are evaluated it is that of the caller, until a function has been called
\* among them, and then that of the method (newlisp.c:1890, 7391).  Errors that land
\* at eval-string or at the top level leave their object behind.
SelfExact ==
  jump = "none" =>
    /\ objCell = Meant
    /\ stack # <<>> /\ Top.kind = "lambda" /\ Top.left = Same =>
         IF Top.at = "body" THEN self = objCell
         ELSE Len(stack) > 1 /\ Below[Len(Below)].kind = "colon" => self \in {Below[Len(Below)].self, objCell}
    /\ stack = <<>> /\ base = Same => self = None

\* A constant is not changed through (self).
ConstantsKept == changed = {}

\* Nor is it as far as methods end without a jump, and self is changed only while
\* it is the object of the innermost method call.
ConstantsKeptWithin == exposed \/ ConstantsKept

ObjectsExact == SelfExact /\ ConstantsKeptWithin
=============================================================================
