------------------------------- MODULE MCSystem -------------------------------
(***************************************************************************)
(* One run for components that share nothing: signals and handlers, the    *)
(* debugger, shared memory under a semaphore, messages between parent and  *)
(* child, and net-eval.  part says which of them a behaviour is about.     *)
(***************************************************************************)
EXTENDS Signals, Share, Messages, NetEval, TLC

VARIABLE part

vars == <<part, signalVars, shareVars, messageVars, netEvalVars>>

\* The constants of Signals, as the cfg gives them, are one signal with a newLISP
\* handler, Ctrl-C, and the timer.  Ctrl-C with every answer, over a program that is
\* printed as it runs and fails:
Brk == INSTANCE Signals
         WITH UserSigs <- {}, ProgramOps <- {"call", "print", "error"},
              HandlerOps <- {}, Answers <- {"continue", "reset", "debug"},
              MaxDepth <- 4, MaxArrivals <- 2, MaxDebug <- 2

\* The debugger, with calls six deep, entered by the program and from Ctrl-C.
Dbg == INSTANCE Signals
         WITH UserSigs <- {}, ProgramOps <- {"call", "trace", "error", "catch"}, HandlerOps <- {},
              Answers <- {"continue", "debug"}, MaxDepth <- 6, MaxArrivals <- 1, MaxDebug <- 3

\* Strings and expressions on both sides of what a page of 28 bytes can hold.
PageTexts == [s1 |-> 16, s2 |-> 20, e1 |-> 15, e2 |-> 16]
ASSUME ShareAssumption

\* Two messages each way: of the short ones two fit a socket, a long one does not.
ASSUME MessagesAssumption

\* Two nodes, the second reached by a local socket, and every way to answer.
ASSUME NetEvalAssumption

Init == /\ part \in {"signals", "interrupt", "debugger", "share", "messages", "net-eval"}
        /\ IF part = "signals" THEN SignalsInit ELSE Dbg!SignalsInit
        /\ ShareInit /\ MessagesInit
        /\ NetEvalInit /\ (part # "net-eval" => mode = "raw" /\ nodes = <<"bad", "bad">>)

\* A step of one part leaves the others alone.
InSignals == UNCHANGED <<part, shareVars, messageVars, netEvalVars>>
InShare(A) == part = "share" /\ A /\ UNCHANGED <<part, signalVars, messageVars, netEvalVars>>
InMessages(A) == part = "messages" /\ A /\ UNCHANGED <<part, signalVars, shareVars, netEvalVars>>
InEval(A) == part = "net-eval" /\ A /\ UNCHANGED <<part, signalVars, shareVars, messageVars>>

Next == \/ part = "signals" /\ SignalsNext /\ InSignals
        \/ part = "interrupt" /\ Brk!SignalsNext /\ InSignals
        \/ part = "debugger" /\ Dbg!SignalsNext /\ InSignals
        \/ InShare(ShareNext)
        \/ InMessages(MessagesNext)
        \/ InEval(NetEvalNext)

\* The fairness of Share, Messages and NetEval, for the behaviours about them.
SystemFairness ==
  /\ \A p \in Procs : /\ WF_vars(InShare(ShareStep(p))) /\ SF_vars(InShare(Wait(p)))
                      /\ WF_vars(InShare(pc[p] = "holding" /\ ShareNext))
  /\ \A p \in Processes : WF_vars(InMessages(Transfer(p)))
  /\ WF_vars(InEval(NetEvalStep)) /\ WF_vars(InEval(TimePasses))

Spec == Init /\ [][Next]_vars /\ SystemFairness

----------------------------------------
(* The properties of the components that only matter in one part; the *)
(* others are checked as their modules state them. *)

\* Nobody waits for the semaphore for ever, and net-eval returns whatever its
\* nodes do: see Share and NetEval.
EveryCallEnds == EveryWaitEnds /\ (part = "net-eval" ~> at \in {"done", "error", "left"})
===============================================================================
