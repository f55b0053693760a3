----------------------------- MODULE SymbolTable -----------------------------
(***************************************************************************)
(* What the symbols of contexts promise: in each context a name is one     *)
(* symbol, from the step that makes it to the step that deletes it, and a  *)
(* name that a context lacks is MAIN's symbol if that is global.           *)
(***************************************************************************)
CONSTANTS Contexts, Main, NamesOf

VARIABLES symbols,   \* context -> names that are symbols of it
          global,    \* names of MAIN whose symbol is global
          answer     \* the symbol the last operation returned, or No

No == <<"nil", 0>>
Yes == <<"true", 0>>

Known(c, n) == n \in symbols[c]

\* The symbol a name stands for when the reader meets it in context c.
Meant(c, n) == IF ~Known(c, n) /\ Known(Main, n) /\ n \in global THEN <<Main, n>> ELSE <<c, n>>

Init == /\ symbols = [c \in Contexts |-> {}]
        /\ global = {}
        /\ answer = No

With(s) == symbols' = [symbols EXCEPT ![s[1]] = @ \cup {s[2]}]

Create(c, n) == With(<<c, n>>) /\ answer' = <<c, n>> /\ UNCHANGED global
Translate(c, n) == With(Meant(c, n)) /\ answer' = Meant(c, n) /\ UNCHANGED global
Lookup(c, n) == /\ answer' = IF Known(c, n) THEN <<c, n>> ELSE No
                /\ UNCHANGED <<symbols, global>>
Global(n) == Known(Main, n) /\ global' = global \cup {n} /\ UNCHANGED <<symbols, answer>>

Delete(c, n) == /\ Known(c, n)
                /\ symbols' = [symbols EXCEPT ![c] = @ \ {n}]
                /\ global' = IF c = Main THEN global \ {n} ELSE global
                /\ answer' = Yes
DeleteContext(c) == /\ c # Main
                    /\ symbols' = [symbols EXCEPT ![c] = {}]
                    /\ answer' = Yes /\ UNCHANGED global
Refuse == answer' = No /\ UNCHANGED <<symbols, global>>

Next == \/ \E c \in Contexts : \/ DeleteContext(c)
                               \/ \E n \in NamesOf[c] : \/ Create(c, n) \/ Translate(c, n)
                                                        \/ Lookup(c, n) \/ Delete(c, n)
        \/ \E n \in NamesOf[Main] : Global(n)
        \/ Refuse

Spec == Init /\ [][Next]_<<symbols, global, answer>>

=============================================================================
