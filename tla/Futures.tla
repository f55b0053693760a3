------------------------------ MODULE Futures ------------------------------
(***************************************************************************)
(* What the Cilk interface (spawn, sync, abort) promises to a program:     *)
(* every spawned expression is a task that some other process computes,    *)
(* and its future is settled at most once, with what that task really did. *)
(* No process ids, no child list, no signals.                              *)
(***************************************************************************)
EXTENDS Naturals

CONSTANTS Jobs,   \* one element per evaluation of (spawn ...)
          Syms    \* the symbols results are assigned to

VARIABLES task,     \* task[j]: what the process of job j has done so far
          future,   \* future[j]: how job j has been settled, if it has been
          target,   \* target[j]: the symbol named when j was spawned
          value,    \* value[s]: contents of symbol s
          astray    \* jobs whose ended process was waited for elsewhere and whose
                    \* place another process has taken, one of no job

program == <<task, future, target, value>>
fvars == <<program, astray>>

Tasks    == {"none", "running", "computed", "exited", "quit", "killed"}
Outcomes == {"open", "result", "abend", "abort"}
Values   == [kind : {"unset", "nil", "result", "abend"}, job : Jobs \cup {0}]
Blank(k) == [kind |-> k, job |-> 0]

\* The value a settled job leaves in its symbol: what the task computed, nil
\* when the child called (exit) first, the ABEND string when a signal ended it.
ResultOf(j, t) == CASE t = "exited" -> [kind |-> "result", job |-> j]
                    [] t = "quit"   -> Blank("nil")
                    [] t = "killed" -> [kind |-> "abend", job |-> j]

Init == /\ task = [j \in Jobs |-> "none"]
        /\ future = [j \in Jobs |-> "open"]
        /\ value = [s \in Syms |-> Blank("unset")]
        /\ astray = {}

\* spawn clears the symbol before it forks; the fork may still fail, and the
\* next attempt may name another symbol.
Clear(s) == /\ value' = [value EXCEPT ![s] = Blank("nil")]
            /\ \A j \in Jobs : target'[j] = target[j] \/ task[j] = "none"
            /\ UNCHANGED <<task, future>>

Start(j) == /\ task[j] = "none"
            /\ task' = [task EXCEPT ![j] = "running"]
            /\ UNCHANGED <<future, target, value>>

\* The child computes the value and exits, calls (exit) early, or is killed.
After(t) == CASE t = "running"  -> {"computed", "quit", "killed"}
              [] t = "computed" -> {"exited", "killed"}
              [] OTHER          -> {}

Advance(j) == \E t \in After(task[j]) :
                 /\ task' = [task EXCEPT ![j] = t]
                 /\ UNCHANGED <<future, target, value>>

Ended == {"exited", "quit", "killed"}

Settle(j) == /\ future[j] = "open" /\ task[j] \in Ended
             /\ future' = [future EXCEPT ![j] =
                             IF task[j] = "killed" THEN "abend" ELSE "result"]
             /\ value' = [value EXCEPT ![target[j]] = ResultOf(j, task[j])]
             /\ UNCHANGED <<task, target>>

\* A job gone astray is settled by how the other process ended: the symbol gets
\* what this job computed, nil, or the ABEND string.
SettleAstray(j) ==
  /\ future[j] = "open" /\ task[j] \in Ended /\ j \in astray
  /\ \E t \in Ended :
       /\ t = "exited" => task[j] # "quit"
       /\ future' = [future EXCEPT ![j] = IF t = "killed" THEN "abend" ELSE "result"]
       /\ value' = [value EXCEPT ![target[j]] = ResultOf(j, t)]
  /\ UNCHANGED <<task, target>>

\* Aborting settles a future without a value and ends the task if it still runs.
Abort(J) == /\ \A j \in J : future[j] = "open" /\ task[j] # "none"
            /\ future' = [j \in Jobs |-> IF j \in J THEN "abort" ELSE future[j]]
            /\ task' = [j \in Jobs |->
                          IF j \in J /\ task[j] \in {"running", "computed"}
                          THEN "killed" ELSE task[j]]
            /\ UNCHANGED <<target, value>>

\* Only a job whose process has ended can go astray.
Next == /\ \/ \E s \in Syms : Clear(s)
           \/ \E j \in Jobs : Start(j) \/ Advance(j) \/ Settle(j) \/ SettleAstray(j)
           \/ \E J \in SUBSET Jobs : Abort(J)
           \/ UNCHANGED program
        /\ astray' \subseteq astray \cup {j \in Jobs : task[j] \in Ended}

Spec == Init /\ [][Next]_fvars
=============================================================================
