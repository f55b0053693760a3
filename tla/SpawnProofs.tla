---------------------------- MODULE SpawnProofs ----------------------------
(***************************************************************************)
(* Proofs about Spawn for every set of pids and symbols and every number   *)
(* of jobs.  TypeOK holds whatever the program does; the child list stays  *)
(* exact as long as nothing but p_sync and p_abort can reap a listed child *)
(* (KeepsChildren excludes the events that can).                           *)
(***************************************************************************)
EXTENDS Spawn, WellFoundedInduction, TLAPS

\* No error, wait-pid or signal call gives SIGCHLD back to the reaping handler
\* while children are listed.
KeepsChildren == Events \cap {"garbled", "reset", "signal", "waitpid"} = {}

Forked(j) == j < nextJob \/ (step = "add" /\ j = nextJob)
Live == listed \cup (IF step = "none" THEN {} ELSE {nextJob})

\* Jobs are numbered in the order of their forks.
Numbering ==
  /\ listed = {j \in Jobs : j < nextJob /\ future[j] = "open"}
  /\ \A j \in Jobs : j >= nextJob => future[j] = "open"
  /\ \A j \in Jobs : task[j] = "none" <=> ~Forked(j)

\* While a child may be waited for, no handler can reap it.
NoReaper ==
  /\ listed # {} \/ step \in {"fork", "add"} => sigchld = "default"
  /\ sigchld = "default" => pending = FALSE

\* Every unsettled job has a process of its own, and the reverse.
OwnProcess ==
  /\ \A j \in Jobs : Forked(j) /\ future[j] = "open" =>
        /\ entry[j].pid \in Pids
        /\ runs[entry[j].pid] = j
        /\ proc[entry[j].pid] # "none"
  /\ \A p \in Pids : proc[p] # "none" /\ runs[p] # NoJob =>
        /\ Forked(runs[p]) /\ future[runs[p]] = "open"
        /\ entry[runs[p]].pid = p

\* The kernel's status of a child says what its job has done.
Status ==
  \A p \in Pids : runs[p] # NoJob =>
    /\ proc[p] = "run"    => task[runs[p]] \in {"running", "computed"}
    /\ proc[p] = "exited" => task[runs[p]] \in {"exited", "quit"}
    /\ proc[p] = "killed" => task[runs[p]] = "killed"

\* A page holds a result exactly when its child got as far as writing it.
Pages ==
  /\ \A j \in Jobs : page[j] # "unmapped" <=> j \in Live
  /\ socks \subseteq Live
  /\ \A j \in Live : /\ page[j] # "garbled"
                     /\ task[j] \in {"none", "running", "quit"} => page[j] = "nil"
                     /\ task[j] \in {"computed", "exited"} => page[j] = "result"

\* One page without a job for every p_spawn that an argument ended.
Orphans == orphans = refused

IInv == TypeOK /\ Numbering /\ NoReaper /\ OwnProcess /\ Status /\ Pages /\ Orphans
----------------------------------------
(* getSpawnedChild and processSpawnList find the first entry with a pid. *)

LEMMA Youngest == ASSUME NEW J \in SUBSET Jobs, J # {}
                  PROVE  \E j \in J : \A k \in J : k <= j
<1> DEFINE T == {MaxJobs - j : j \in J}
<1>1. T \subseteq Nat /\ T # {} BY SpawnAssumption DEF Jobs
<1>2. PICK t \in T : \A u \in T : <<u, t>> \notin OpToRel(<, Nat)
  <2> HIDE DEF T
  <2> QED BY <1>1, WFMin, NatLessThanWellFounded, Zenon
<1>3. \A u \in T : ~(u < t) BY <1>1, <1>2 DEF OpToRel
<1>4. PICK j \in J : t = MaxJobs - j OBVIOUS
<1>5. ASSUME NEW k \in J PROVE k <= j
  <2>1. ~(MaxJobs - k < t) BY <1>3
  <2> QED BY <1>4, <2>1, SpawnAssumption DEF Jobs
<1> QED BY <1>5

\* The first record with a pid is in the list, when there is one.
LEMMA FrontInList == ASSUME TypeOK, NEW p \in Pids, EntriesOf(p) # {}
                     PROVE  Front(p) \in EntriesOf(p)
<1>1. EntriesOf(p) \in SUBSET Jobs BY DEF TypeOK, EntriesOf
<1>2. \E j \in EntriesOf(p) : \A k \in EntriesOf(p) : k <= j BY <1>1, Youngest
<1> QED BY <1>2, Zenon DEF Front
----------------------------------------
\* The types hold at the start.
LEMMA TypeInit == Init => TypeOK
<1> SUFFICES ASSUME Init PROVE TypeOK OBVIOUS
<1>1. step = "none" /\ nextJob \in 1 .. MaxJobs + 1 BY SpawnAssumption DEF Init
<1>2. entry \in [Jobs -> [pid : Pids \cup {NoJob}, sym : Syms \cup {NoJob}]] BY DEF Init, NoEntry
<1>3. contents \in [Syms -> [kind : {"unset", "nil", "result", "abend"},
                             job : Jobs \cup {NoJob}]] BY DEF Init, Value
<1>4. orphans \in Nat /\ refused \in 0 .. MaxJobs BY SpawnAssumption DEF Init
<1> QED BY <1>1, <1>2, <1>3, <1>4 DEF Init, TypeOK

\* Every step keeps the types.
LEMMA TypeStep == ASSUME TypeOK, [Next]_vars PROVE TypeOK'
<1> USE SpawnAssumption DEF NoJob, leak
<1>1. ASSUME NEW p \in Pids, ChildWrites(p) PROVE TypeOK'
  BY <1>1 DEF TypeOK, ChildWrites, kernel, control, caller
<1>2. ASSUME NEW p \in Pids, NEW how \in {"exited", "killed"},
             NEW t \in {"exited", "quit", "killed"}, Ends(p, how, t)
      PROVE  TypeOK' BY <1>2 DEF TypeOK, Ends, Raise, records, control, caller
<1>3. ASSUME NEW p \in Pids, ChildExits(p) \/ ChildCrashes(p) PROVE TypeOK'
  <2>1. (IF task[runs[p]] = "computed" THEN "exited" ELSE "quit") \in {"exited", "quit"} OBVIOUS
  <2> QED BY <1>2, <1>3, <2>1 DEF ChildExits, ChildCrashes
<1>4. CASE HandleSigchld BY <1>4 DEF TypeOK, HandleSigchld, records, control, caller, history
<1>5. ASSUME NEW s \in Syms, NEW sock \in BOOLEAN, SpawnPrepare(s, sock)
      PROVE  TypeOK'
  <2>1. [pid |-> NoJob, sym |-> s] \in [pid : Pids \cup {NoJob}, sym : Syms \cup {NoJob}] OBVIOUS
  <2>2. Value("nil", NoJob) \in [kind : {"unset", "nil", "result", "abend"},
                                 job : Jobs \cup {NoJob}] BY DEF Value
  <2> QED
    BY <1>5, <2>1, <2>2 DEF TypeOK, SpawnPrepare, Clears, Evaluating, kernel, caller, history
<1>6. ASSUME NEW s \in Syms, SpawnArgumentFails(s) \/ SpawnSocketFails(s)
      PROVE  TypeOK'
  <2>1. Value("nil", NoJob) \in [kind : {"unset", "nil", "result", "abend"},
                                 job : Jobs \cup {NoJob}] BY DEF Value
  <2>2. contents' \in [Syms -> [kind : {"unset", "nil", "result", "abend"},
                                job : Jobs \cup {NoJob}]]
    BY <1>6, <2>1 DEF TypeOK, SpawnArgumentFails, SpawnSocketFails, Clears
  <2>3. /\ sigchld' \in {"handler", "default"} /\ pending' \in BOOLEAN
        /\ pc' \in {"idle", "sync", "inlet"} /\ inlet' \in BOOLEAN
        /\ syncRet' \in {"none", "true", "nil", "()"}
    BY <1>6 DEF TypeOK, SpawnArgumentFails, SpawnSocketFails, Thrown, SetHandler, Leave, caller
  <2>4. orphans' \in Nat /\ refused' \in 0 .. MaxJobs
    BY <1>6 DEF TypeOK, SpawnArgumentFails, SpawnSocketFails
  <2> QED BY <1>6, <2>2, <2>3, <2>4
       DEF TypeOK, SpawnArgumentFails, SpawnSocketFails, Evaluating, records, history
<1>7. CASE SpawnSignal BY <1>7 DEF TypeOK, SpawnSignal, SetDefault, records, caller, history
<1>8. ASSUME NEW p \in Pids, SpawnFork(p) PROVE TypeOK'
  <2>1. nextJob \in Jobs BY <1>8 DEF TypeOK, SpawnFork
  <2>2. entry' \in [Jobs -> [pid : Pids \cup {NoJob}, sym : Syms \cup {NoJob}]]
    <3> DEFINE R == [pid : Pids \cup {NoJob}, sym : Syms \cup {NoJob}]
               r == [pid |-> p, sym |-> entry[nextJob].sym]
    <3>0. entry[nextJob] \in R BY <2>1 DEF TypeOK
    <3>1. entry[nextJob].sym \in Syms \cup {NoJob} BY <3>0
    <3>2. r \in R BY <3>1
    <3>3. entry \in [Jobs -> R] /\ entry' = [entry EXCEPT ![nextJob] = r]
      BY <1>8 DEF TypeOK, SpawnFork
    <3>4. entry' \in [Jobs -> R]
      <4> HIDE DEF r, R
      <4> QED BY <2>1, <3>2, <3>3
    <3> QED BY <3>4
  <2> QED BY <1>8, <2>1, <2>2 DEF TypeOK, SpawnFork, caller
<1>9. CASE SpawnForkFails
  <2>1. nextJob' \in 1 .. MaxJobs + 1 BY <1>9 DEF TypeOK, SpawnForkFails, Jobs
  <2> QED BY <1>9, <2>1 DEF TypeOK, SpawnForkFails, kernel, caller, history
<1>10. CASE SpawnAdd
  <2>1. nextJob \in Jobs /\ nextJob + 1 \in 1 .. MaxJobs + 1 BY <1>10 DEF TypeOK, SpawnAdd, Jobs
  <2> QED BY <1>10, <2>1 DEF TypeOK, SpawnAdd, kernel, caller, history
<1>11. CASE SyncNothing BY <1>11 DEF TypeOK, SyncNothing, Leave, kernel, records, history
<1>12. ASSUME NEW w \in BOOLEAN, SyncStart(w) PROVE TypeOK'
  BY <1>12 DEF TypeOK, SyncStart, Evaluating, SetDefault, records, history
<1>13. CASE SyncTimeout BY <1>13 DEF TypeOK, SyncTimeout, Leave, kernel, records, history
<1>14. ASSUME NEW p \in Pids, SyncReap(p) PROVE TypeOK'
  <2> DEFINE F == Front(p)
             V == [kind : {"unset", "nil", "result", "abend"}, job : Jobs \cup {NoJob}]
  <2>1. CASE EntriesOf(p) = {} BY <1>14, <2>1 DEF TypeOK, SyncReap
  <2>2. CASE EntriesOf(p) # {}
    <3>1. F \in Jobs BY <2>2, FrontInList DEF TypeOK, EntriesOf
    <3>2. Value("abend", F) \in V /\ ReadPage(F) \in V BY <3>1 DEF Value, ReadPage
    <3>3. Collect(F, proc[p]) BY <1>14, <2>2 DEF SyncReap
    <3>4. contents' \in [Syms -> V]
      <4> HIDE DEF F
      <4> QED BY <3>2, <3>3 DEF TypeOK, Collect, Assign
    <3>5. future' \in [Jobs -> {"open", "result", "abend", "abort"}]
      <4> HIDE DEF F
      <4> QED BY <3>3 DEF TypeOK, Collect, Outcome
    <3>6. /\ listed' \subseteq Jobs /\ socks' \subseteq Jobs
          /\ page' \in [Jobs -> {"unmapped", "nil", "result", "garbled"}]
      <4> HIDE DEF F
      <4> QED BY <3>3 DEF TypeOK, Collect, Unlink
    <3> QED BY <1>14, <3>4, <3>5, <3>6 DEF TypeOK, SyncReap
  <2> QED BY <2>1, <2>2
<1>15. ASSUME NEW p \in Pids, SyncReapGarbled(p) PROVE TypeOK'
  BY <1>15 DEF TypeOK, SyncReapGarbled, SetHandler, Leave, history
<1>16. CASE SyncNoChild BY <1>16 DEF TypeOK, SyncNoChild, kernel, records, history
<1>17. CASE SyncInletReturns
  BY <1>17 DEF TypeOK, SyncInletReturns, Evaluating, kernel, records, history
<1>18. CASE SyncDone BY <1>18 DEF TypeOK, SyncDone, SetHandler, Leave, records, history
<1>19. ASSUME NEW p \in Pids, AbortPid(p) PROVE TypeOK'
  BY <1>19 DEF TypeOK, AbortPid, Kill, Unlink, control, caller
<1>20. CASE AbortAll BY <1>20 DEF TypeOK, AbortAll, Kill, Unlink, control, caller
<1>21. ASSUME NEW p \in Pids, StartForeign(p) PROVE TypeOK'
  BY <1>21 DEF TypeOK, StartForeign, records, control, caller, history
<1>22. CASE WaitPid BY <1>22 DEF TypeOK, WaitPid, SetDefault, records, control, caller, history
<1>23. ASSUME NEW u \in BOOLEAN, SetSignal(u) PROVE TypeOK'
  BY <1>23 DEF TypeOK, SetSignal, SetHandler, records, control, caller, history
<1>24. CASE CaughtError BY <1>24 DEF TypeOK, CaughtError, Leave, kernel, records, history
<1>25. CASE ErrorReset BY <1>25 DEF TypeOK, ErrorReset, SetHandler, Leave, records, history
<1>26. CASE UNCHANGED vars BY <1>26 DEF TypeOK, vars
<1> QED BY <1>1, <1>3, <1>4, <1>5, <1>6, <1>7, <1>8, <1>9, <1>10, <1>11, <1>12, <1>13,
     <1>14, <1>15, <1>16, <1>17, <1>18, <1>19, <1>20, <1>21, <1>22, <1>23, <1>24,
     <1>25, <1>26 DEF Next, Child, SpawnStep, SyncStep, AbortStep, OtherStep

\* Whatever the program and its children do, the state of the child list, of
\* the signal and of every job stays well formed.
THEOREM TypeCorrect == Spec => []TypeOK
BY TypeInit, TypeStep, PTL DEF Spec
----------------------------------------
(* The inductive invariant.  Most steps of p_sync touch no record at all. *)

StateInv == Numbering /\ OwnProcess /\ Status /\ Pages

recordState == <<proc, runs, nextJob, entry, listed, page, socks, step, task, future>>

\* Steps that touch no record keep what is said of records.
LEMMA Frame == ASSUME StateInv, UNCHANGED recordState PROVE StateInv'
BY DEF StateInv, recordState, Numbering, OwnProcess, Status, Pages, Forked, Live

\* At the start no job has been spawned.
LEMMA InitInv == Init => IInv
<1> SUFFICES ASSUME Init PROVE IInv OBVIOUS
<1>1. TypeOK BY TypeInit
<1>2. Numbering /\ NoReaper BY SpawnAssumption DEF Init, Numbering, NoReaper, Forked, Jobs
<1>3. OwnProcess /\ Status /\ Pages /\ Orphans
  BY SpawnAssumption DEF Orphans, Init, OwnProcess, Status, Pages, Forked, Live, Jobs, NoJob
<1> QED BY <1>1, <1>2, <1>3 DEF IInv

\* A job in the list, or forked and not yet added, is an open job with a process.
LEMMA OpenJobs == ASSUME IInv, NEW j \in Jobs
                  PROVE  Forked(j) /\ future[j] = "open" <=>
                           j \in listed \/ (step = "add" /\ j = nextJob)
BY DEF IInv, TypeOK, Numbering, Forked, Jobs

\* Different listed jobs have different processes, so getSpawnedChild and
\* processSpawnList find the one entry of a pid.
LEMMA OneEntry == ASSUME IInv, NEW p \in Pids, NEW j \in EntriesOf(p)
                  PROVE  /\ EntriesOf(p) = {j}
                         /\ Front(p) = j
                         /\ j \in listed /\ runs[p] = j /\ proc[p] # "none"
<1>1. ASSUME NEW k \in EntriesOf(p)
      PROVE  k \in listed /\ runs[p] = k /\ proc[p] # "none"
  BY <1>1, OpenJobs DEF IInv, TypeOK, OwnProcess, EntriesOf
<1>2. EntriesOf(p) = {j} BY <1>1
<1>3. Front(p) \in EntriesOf(p) BY <1>2, FrontInList DEF IInv
<1> QED BY <1>1, <1>2, <1>3

\* A child writes its result.
LEMMA ChildWritesInv == ASSUME IInv, KeepsChildren, NEW p \in Pids, ChildWrites(p)
                        PROVE  StateInv' /\ NoReaper'
<1> DEFINE j == runs[p]
<1>1. /\ j \in Jobs /\ task[j] = "running" /\ proc[p] = "run"
      /\ page' = [page EXCEPT ![j] = "result"]
      /\ task' = [task EXCEPT ![j] = "computed"]
      /\ UNCHANGED <<proc, runs, sigchld, pending, nextJob, entry, listed, socks,
                     step, future>>
  BY DEF IInv, TypeOK, ChildWrites, KeepsChildren, kernel, control, NoJob
<1>2. Forked(j) /\ future[j] = "open" /\ j \in Live
  BY <1>1, OpenJobs DEF IInv, OwnProcess, Live, NoJob, Jobs
<1> HIDE DEF j
<1>3. Numbering' /\ NoReaper' BY <1>1, <1>2 DEF IInv, TypeOK, Numbering, NoReaper, Forked
<1>4. OwnProcess' BY <1>1 DEF IInv, OwnProcess, Forked
<1>5. Status' BY <1>1 DEF IInv, TypeOK, Status, j, OwnProcess
<1>6. Pages' BY <1>1, <1>2 DEF IInv, TypeOK, Pages, Live
<1> QED BY <1>3, <1>4, <1>5, <1>6 DEF StateInv

\* A child ends.
LEMMA ChildEndsInv ==
  ASSUME IInv, NEW p \in Pids, ChildExits(p) \/ ChildCrashes(p)
  PROVE  StateInv' /\ NoReaper'
<1> DEFINE j == runs[p]
<1>1. PICK how \in {"exited", "killed"}, t \in {"exited", "quit", "killed"} :
        /\ Ends(p, how, t)
        /\ how = "killed" <=> t = "killed"
        /\ t = "exited" => task[j] = "computed"
        /\ t = "quit" => task[j] # "computed" BY DEF ChildExits, ChildCrashes
<1>2. /\ proc[p] = "run" /\ proc' = [proc EXCEPT ![p] = how]
      /\ task' = IF j = NoJob THEN task ELSE [task EXCEPT ![j] = t]
      /\ pending' = (pending \/ sigchld = "handler")
      /\ UNCHANGED <<runs, sigchld, nextJob, entry, listed, page, socks, step, future>>
  BY <1>1 DEF Ends, Raise, records, control
<1>3. j # NoJob => /\ j \in Jobs /\ Forked(j) /\ future[j] = "open"
                   /\ task[j] \in {"running", "computed"} /\ j \in Live
  BY <1>2, OpenJobs DEF IInv, TypeOK, OwnProcess, Status, Live
<1> HIDE DEF j
<1>4. Numbering' /\ NoReaper' BY <1>2, <1>3 DEF IInv, TypeOK, Numbering, NoReaper, Forked
<1>5. OwnProcess' BY <1>2 DEF IInv, TypeOK, OwnProcess, Forked
<1>6. Status' BY <1>1, <1>2, <1>3 DEF IInv, TypeOK, Status, OwnProcess, j
<1>7. Pages' BY <1>1, <1>2, <1>3 DEF IInv, TypeOK, Pages, Live
<1> QED BY <1>4, <1>5, <1>6, <1>7 DEF StateInv

\* The reaping handler can only run while no listed child exists.
LEMMA HandlerInv == ASSUME IInv, HandleSigchld PROVE StateInv' /\ NoReaper'
<1>1. /\ sigchld = "handler" /\ pending' = FALSE
      /\ \/ proc' = proc
         \/ \E p \in Pids : proc' = [proc EXCEPT ![p] = "none"]
      /\ UNCHANGED <<runs, sigchld, nextJob, entry, listed, page, socks, step, task,
                     future>> BY DEF HandleSigchld, records, control, history
<1>2. \A j \in Jobs : ~(Forked(j) /\ future[j] = "open") BY <1>1, OpenJobs DEF IInv, NoReaper
<1>3. Numbering' /\ NoReaper' /\ Pages' BY <1>1 DEF IInv, Numbering, NoReaper, Pages, Forked, Live
<1>4. \A p \in Pids : proc'[p] # "none" => proc'[p] = proc[p] BY <1>1 DEF IInv, TypeOK
<1>5. OwnProcess' BY <1>1, <1>2, <1>4 DEF IInv, OwnProcess, Forked
<1>6. Status' BY <1>1, <1>4 DEF IInv, Status
<1> QED BY <1>3, <1>5, <1>6 DEF StateInv

\* p_spawn maps the page and makes the sockets.
LEMMA SpawnPrepareInv ==
  ASSUME IInv, NEW s \in Syms, NEW sock \in BOOLEAN, SpawnPrepare(s, sock)
  PROVE  StateInv' /\ NoReaper'
<1>1. /\ step = "none" /\ step' = "signal" /\ nextJob \in Jobs
      /\ \A j \in Jobs : j # nextJob => entry'[j] = entry[j]
      /\ page' = [page EXCEPT ![nextJob] = "nil"]
      /\ socks' \subseteq socks \cup {nextJob}
      /\ UNCHANGED <<proc, runs, sigchld, pending, nextJob, listed, task, future>>
  BY DEF SpawnPrepare, Evaluating, kernel, history, IInv, TypeOK
<1>2. nextJob \notin listed /\ ~Forked(nextJob) /\ task[nextJob] = "none"
  BY <1>1 DEF IInv, TypeOK, Numbering, Forked, Jobs
<1>3. \A j \in Jobs : Forked(j)' <=> Forked(j) BY <1>1 DEF Forked
<1>4. Numbering' /\ NoReaper' BY <1>1, <1>3 DEF IInv, Numbering, NoReaper
<1>5. OwnProcess'
  <2>1. ASSUME NEW j \in Jobs, Forked(j)
        PROVE  entry'[j] = entry[j] /\ Forked(j)' BY <1>1, <1>2, <1>3, <2>1
  <2>2. ASSUME NEW p \in Pids, proc[p] # "none", runs[p] # NoJob
        PROVE  runs[p] \in Jobs /\ Forked(runs[p]) BY <2>2 DEF IInv, TypeOK, OwnProcess
  <2> QED BY <1>1, <1>3, <2>1, <2>2 DEF IInv, OwnProcess
<1>6. Status' BY <1>1 DEF IInv, Status
<1>7. Pages' BY <1>1, <1>2 DEF IInv, TypeOK, Pages, Live
<1> QED BY <1>4, <1>5, <1>6, <1>7 DEF StateInv

\* p_spawn forks.
LEMMA SpawnForkInv == ASSUME IInv, NEW p \in Pids, SpawnFork(p)
                      PROVE  StateInv' /\ NoReaper'
<1> DEFINE n == nextJob
<1>1. /\ step = "fork" /\ step' = "add" /\ proc[p] = "none" /\ n \in Jobs
      /\ proc' = [proc EXCEPT ![p] = "run"]
      /\ runs' = [runs EXCEPT ![p] = n]
      /\ \A j \in Jobs : j # n => entry'[j] = entry[j]
      /\ entry'[n].pid = p
      /\ task' = [task EXCEPT ![n] = "running"]
      /\ UNCHANGED <<sigchld, pending, nextJob, listed, page, socks, future>>
  BY DEF SpawnFork, IInv, TypeOK
<1>2. /\ n \notin listed /\ ~Forked(n) /\ task[n] = "none" /\ future[n] = "open"
      /\ n \in Live BY <1>1 DEF IInv, TypeOK, Numbering, Forked, Jobs, Live
<1>3. \A j \in Jobs : Forked(j)' <=> Forked(j) \/ j = n BY <1>1 DEF Forked
<1>4. Numbering' /\ NoReaper' BY <1>1, <1>2, <1>3 DEF IInv, TypeOK, Numbering, NoReaper
<1>5. OwnProcess' BY <1>1, <1>2, <1>3 DEF IInv, TypeOK, OwnProcess, NoJob, Jobs
<1>6. Status'
  <2>1. ASSUME NEW q \in Pids, runs'[q] # NoJob, q # p, proc[q] # "none"
        PROVE  runs'[q] = runs[q] /\ runs[q] # n /\ proc'[q] = proc[q]
    BY <1>1, <1>2, <2>1 DEF IInv, TypeOK, OwnProcess
  <2> QED BY <1>1, <2>1 DEF IInv, TypeOK, Status
<1>7. Pages' BY <1>1, <1>2 DEF IInv, TypeOK, Pages, Live
<1> QED BY <1>4, <1>5, <1>6, <1>7 DEF StateInv

\* fork() fails.
LEMMA SpawnForkFailsInv == ASSUME IInv, SpawnForkFails PROVE StateInv' /\ NoReaper'
<1>1. /\ step = "fork" /\ step' = "none" /\ nextJob \in Jobs
      /\ page' = [page EXCEPT ![nextJob] = "unmapped"]
      /\ socks' = socks \ {nextJob}
      /\ UNCHANGED <<proc, runs, sigchld, pending, nextJob, entry, listed, task, future>>
  BY DEF SpawnForkFails, kernel, history, IInv, TypeOK
<1>2. nextJob \notin listed BY <1>1 DEF IInv, TypeOK, Numbering, Jobs
<1>3. Numbering' /\ NoReaper' /\ OwnProcess' /\ Status'
  BY <1>1 DEF IInv, Numbering, NoReaper, OwnProcess, Status, Forked
<1>4. Pages' BY <1>1, <1>2 DEF IInv, TypeOK, Pages, Live
<1> QED BY <1>3, <1>4 DEF StateInv

\* p_spawn adds the record to the list.
LEMMA SpawnAddInv == ASSUME IInv, SpawnAdd PROVE StateInv' /\ NoReaper'
<1>1. /\ step = "add" /\ step' = "none" /\ nextJob \in Jobs
      /\ listed' = listed \cup {nextJob} /\ nextJob' = nextJob + 1
      /\ UNCHANGED <<proc, runs, sigchld, pending, entry, page, socks, task, future>>
  BY DEF SpawnAdd, kernel, history, IInv, TypeOK
<1>2. \A j \in Jobs : Forked(j)' <=> Forked(j) BY <1>1 DEF Forked, Jobs
<1>3. Live' = Live BY <1>1 DEF Live
<1>4. Numbering' /\ NoReaper' BY <1>1, <1>2 DEF IInv, TypeOK, Numbering, NoReaper, Jobs
<1>5. OwnProcess' /\ Status'
  <2>1. \A p \in Pids : runs[p] # NoJob => runs[p] \in Jobs BY DEF IInv, TypeOK
  <2> QED BY <1>1, <1>2, <2>1 DEF IInv, OwnProcess, Status
<1>6. Pages' BY <1>1, <1>3 DEF IInv, Pages
<1> QED BY <1>4, <1>5, <1>6 DEF StateInv

\* Unlinking a set of listed jobs whose processes are gone.
LEMMA RemoveInv ==
  ASSUME IInv, step = "none", NEW J \in SUBSET listed,
         Unlink(J),
         \A p \in Pids : proc'[p] = "none" \/ (proc'[p] = proc[p] /\ runs[p] \notin J),
         \A p \in Pids : proc[p] # "none" /\ runs[p] \in listed \ J => proc'[p] # "none",
         future' \in [Jobs -> {"open", "result", "abend", "abort"}],
         \A j \in Jobs : future'[j] = "open" <=> future[j] = "open" /\ j \notin J,
         task' \in [Jobs -> {"none", "running", "computed", "exited", "quit", "killed"}],
         \A j \in Jobs : task'[j] = task[j] \/ (j \in J /\ task'[j] = "killed"),
         UNCHANGED <<runs, nextJob, entry, step>>
  PROVE  StateInv'
<1>1. J \subseteq Jobs /\ \A j \in J : j < nextJob /\ task[j] # "none"
  BY DEF IInv, TypeOK, Numbering, Forked
<1>2. \A j \in Jobs : Forked(j)' <=> Forked(j) BY DEF Forked
<1>3. Numbering' BY <1>1, <1>2 DEF IInv, TypeOK, Numbering, Unlink, Jobs
<1>4. OwnProcess'
  <2>1. ASSUME NEW j \in Jobs, Forked(j), future'[j] = "open"
        PROVE  /\ entry[j].pid \in Pids
               /\ runs[entry[j].pid] = j
               /\ proc'[entry[j].pid] # "none"
    <3>1. j \in listed \ J BY <2>1, OpenJobs
    <3> QED BY <2>1, <3>1 DEF IInv, OwnProcess
  <2>2. ASSUME NEW p \in Pids, proc'[p] # "none", runs[p] # NoJob
        PROVE  Forked(runs[p]) /\ future'[runs[p]] = "open" /\ entry[runs[p]].pid = p
    <3>1. proc[p] # "none" /\ runs[p] \notin J BY <2>2
    <3>2. runs[p] \in Jobs BY <2>2 DEF IInv, TypeOK
    <3> QED BY <2>2, <3>1, <3>2 DEF IInv, OwnProcess
  <2>3. \A p \in Pids : runs[p] # NoJob => runs[p] \in Jobs BY DEF IInv, TypeOK
  <2> QED BY <1>2, <2>1, <2>2, <2>3 DEF OwnProcess
<1>5. Status' BY <1>1 DEF IInv, TypeOK, Status
<1>6. Pages' BY <1>1 DEF IInv, TypeOK, Pages, Live, Unlink
<1> QED BY <1>3, <1>4, <1>5, <1>6 DEF StateInv

\* p_sync reaps a child, listed or not.
LEMMA SyncReapInv == ASSUME IInv, NEW p \in Pids, SyncReap(p)
                     PROVE  StateInv' /\ NoReaper'
<1>1. /\ pc = "sync" /\ step = "none" /\ Zombie(p)
      /\ proc' = [proc EXCEPT ![p] = "none"]
      /\ UNCHANGED <<runs, sigchld, pending, nextJob, entry, step, task>>
  BY DEF SyncReap, IInv, TypeOK
<1>2. CASE EntriesOf(p) = {}
  <2>1. UNCHANGED <<listed, socks, page, future>> BY <1>2 DEF SyncReap
  <2>2. runs[p] = NoJob
    <3> SUFFICES ASSUME runs[p] # NoJob PROVE FALSE OBVIOUS
    <3>1. /\ runs[p] \in Jobs /\ Forked(runs[p]) /\ future[runs[p]] = "open"
          /\ entry[runs[p]].pid = p BY <1>1 DEF IInv, TypeOK, OwnProcess, Zombie
    <3>2. runs[p] \in listed BY <1>1, <3>1, OpenJobs
    <3> QED BY <1>2, <3>1, <3>2 DEF EntriesOf
  <2>3. Numbering' /\ NoReaper' /\ Pages'
    BY <1>1, <2>1 DEF IInv, Numbering, NoReaper, Pages, Forked, Live
  <2>4. OwnProcess' /\ Status'
    BY <1>1, <2>1, <2>2 DEF IInv, TypeOK, OwnProcess, Status, Forked, NoJob, Jobs
  <2> QED BY <2>3, <2>4 DEF StateInv
<1>3. CASE EntriesOf(p) # {}
  <2>1. PICK j \in EntriesOf(p) : TRUE BY <1>3
  <2>2. Front(p) = j /\ j \in listed /\ runs[p] = j /\ entry[j].pid = p
    BY <2>1, OneEntry DEF EntriesOf
  <2>3. Collect(j, proc[p]) BY <1>3, <2>2 DEF SyncReap
  <2>4. /\ Unlink({j})
        /\ \/ future' = [future EXCEPT ![j] = "abend"]
           \/ future' = [future EXCEPT ![j] = "result"] BY <2>3 DEF Collect, Outcome
  <2>5. j \in Jobs BY <2>2 DEF IInv, TypeOK
  <2>6. \A q \in Pids : proc[q] # "none" /\ runs[q] = j => q = p
    BY <2>2, <2>5 DEF IInv, OwnProcess, NoJob, Jobs
  <2>7. StateInv'
    <3>1. \A q \in Pids : proc'[q] = "none" \/ (proc'[q] = proc[q] /\ runs[q] \notin {j})
      BY <1>1, <2>6 DEF IInv, TypeOK
    <3>2. \A q \in Pids : proc[q] # "none" /\ runs[q] \in listed \ {j} => proc'[q] # "none"
      BY <1>1, <2>2 DEF IInv, TypeOK
    <3>3. future' \in [Jobs -> {"open", "result", "abend", "abort"}] BY <2>4 DEF IInv, TypeOK
    <3>4. \A k \in Jobs : future'[k] = "open" <=> future[k] = "open" /\ k \notin {j}
      BY <2>4, <2>5 DEF IInv, TypeOK
    <3>5. /\ task' \in [Jobs -> {"none", "running", "computed", "exited", "quit", "killed"}]
          /\ \A k \in Jobs : task'[k] = task[k] BY <1>1 DEF IInv, TypeOK
    <3> QED BY <1>1, <2>2, <2>4, <3>1, <3>2, <3>3, <3>4, <3>5, RemoveInv
  <2>8. NoReaper' BY <1>1, <2>2, <2>4 DEF IInv, NoReaper, Unlink
  <2> QED BY <2>7, <2>8
<1> QED BY <1>2, <1>3

\* Records are taken off the list and their processes killed.
LEMMA KillInv == ASSUME IInv, step = "none", NEW J \in SUBSET listed, Kill(J),
                        UNCHANGED <<runs, nextJob, entry, step>>
                 PROVE  StateInv'
<1> DEFINE P == {entry[j].pid : j \in J}
<1>1. /\ Unlink(J)
      /\ proc' = [p \in Pids |-> IF p \in P THEN "none" ELSE proc[p]]
      /\ task' = [j \in Jobs |-> IF \E p \in P : proc[p] = "run" /\ runs[p] = j
                                 THEN "killed" ELSE task[j]]
      /\ future' = [j \in Jobs |-> IF j \in J THEN "abort" ELSE future[j]] BY DEF Kill
<1>2. J \subseteq Jobs BY DEF IInv, TypeOK
<1>3. \A j \in listed : /\ entry[j].pid \in Pids /\ runs[entry[j].pid] = j
                        /\ proc[entry[j].pid] # "none" BY OpenJobs DEF IInv, TypeOK, OwnProcess
<1>4. \A p \in Pids : p \in P => runs[p] \in J BY <1>3
<1>5. ASSUME NEW p \in Pids, proc[p] # "none", runs[p] \in J PROVE p \in P
  <2>1. runs[p] # NoJob BY <1>2, <1>5 DEF NoJob, Jobs
  <2>2. entry[runs[p]].pid = p BY <1>5, <2>1 DEF IInv, OwnProcess
  <2> QED BY <1>5, <2>2
<1>6. \A p \in Pids : proc'[p] = "none" \/ (proc'[p] = proc[p] /\ runs[p] \notin J) BY <1>1, <1>5
<1>7. \A p \in Pids : proc[p] # "none" /\ runs[p] \in listed \ J => proc'[p] # "none"
  BY <1>1, <1>4
<1>8. /\ future' \in [Jobs -> {"open", "result", "abend", "abort"}]
      /\ \A j \in Jobs : future'[j] = "open" <=> future[j] = "open" /\ j \notin J
  BY <1>1 DEF IInv, TypeOK
<1>9. /\ task' \in [Jobs -> {"none", "running", "computed", "exited", "quit", "killed"}]
      /\ \A j \in Jobs : task'[j] = task[j] \/ (j \in J /\ task'[j] = "killed")
  BY <1>1, <1>3, <1>4 DEF IInv, TypeOK
<1> HIDE DEF P
<1> QED BY <1>1, <1>6, <1>7, <1>8, <1>9, RemoveInv

\* p_abort, of one child or of all.
LEMMA AbortInv == ASSUME IInv, (\E p \in Pids : AbortPid(p)) \/ AbortAll
                  PROVE  StateInv' /\ NoReaper'
<1>1. ASSUME NEW p \in Pids, AbortPid(p) PROVE StateInv' /\ NoReaper'
  <2>1. PICK j \in EntriesOf(p) : Front(p) = j /\ j \in listed BY <1>1, OneEntry DEF AbortPid
  <2>2. Kill({j}) /\ step = "none" /\ UNCHANGED <<runs, nextJob, entry, step, sigchld>>
    BY <1>1, <2>1 DEF AbortPid, Evaluating, control
  <2>3. StateInv' BY <2>1, <2>2, KillInv
  <2>4. NoReaper' BY <2>1, <2>2 DEF IInv, NoReaper, Kill, Unlink
  <2> QED BY <2>3, <2>4
<1>2. CASE AbortAll
  <2>1. /\ Kill(listed) /\ step = "none" /\ sigchld' = "handler"
        /\ UNCHANGED <<runs, nextJob, entry, step>> BY <1>2 DEF AbortAll, Evaluating, control
  <2>2. StateInv' BY <2>1, KillInv
  <2>3. NoReaper' BY <2>1 DEF NoReaper, Kill, Unlink
  <2> QED BY <2>2, <2>3
<1> QED BY <1>1, <1>2

\* process or fork starts a child that is not listed.
LEMMA StartForeignInv == ASSUME IInv, NEW p \in Pids, StartForeign(p)
                         PROVE  StateInv' /\ NoReaper'
<1>1. /\ proc[p] = "none" /\ proc' = [proc EXCEPT ![p] = "run"]
      /\ runs' = [runs EXCEPT ![p] = NoJob]
      /\ UNCHANGED <<sigchld, pending, nextJob, entry, listed, page, socks, step, task,
                     future>> BY DEF StartForeign, records, control, history
<1>2. Numbering' /\ NoReaper' /\ Pages' BY <1>1 DEF IInv, Numbering, NoReaper, Pages, Forked, Live
<1>3. OwnProcess' BY <1>1 DEF IInv, TypeOK, OwnProcess, Forked
<1>4. Status' BY <1>1 DEF IInv, TypeOK, Status
<1> QED BY <1>2, <1>3, <1>4 DEF StateInv

\* Steps that leave every record alone can only hurt NoReaper: p_sync installs
\* the handler again, but only when the list is empty.
LEMMA CallerInv ==
  ASSUME IInv, KeepsChildren,
         (\E s \in Syms : SpawnArgumentFails(s) \/ SpawnSocketFails(s)) \/ SyncNothing \/ (\E w \in BOOLEAN : SyncStart(w)) \/ SyncTimeout \/ SyncNoChild
           \/ SyncInletReturns \/ SyncDone \/ CaughtError \/ UNCHANGED vars
  PROVE  StateInv' /\ NoReaper'
<1>1. UNCHANGED recordState
  BY DEF recordState, SpawnArgumentFails, SpawnSocketFails, SyncNothing, SyncStart, SyncTimeout, SyncNoChild, Evaluating,
         SyncInletReturns, SyncDone, CaughtError, vars, kernel, records, history
<1>2. StateInv' BY <1>1, Frame DEF IInv, StateInv
<1>3. \/ UNCHANGED <<sigchld, pending>>
      \/ SetDefault
      \/ SyncDone /\ SetHandler
  BY DEF SyncNothing, SyncStart, SyncTimeout, SyncNoChild, SyncInletReturns, SyncDone,
         CaughtError, vars, kernel, SpawnArgumentFails, SpawnSocketFails, Thrown,
         KeepsChildren
<1>4. NoReaper'
  <2>1. CASE UNCHANGED <<sigchld, pending>> BY <1>1, <2>1 DEF IInv, NoReaper, recordState
  <2>2. CASE SetDefault BY <2>2 DEF NoReaper, SetDefault
  <2>3. CASE SyncDone /\ SetHandler
    BY <1>1, <2>3 DEF IInv, TypeOK, NoReaper, SyncDone, SetHandler, recordState
  <2> QED BY <1>3, <2>1, <2>2, <2>3
<1> QED BY <1>2, <1>4

\* p_spawn sets SIGCHLD to its default.
LEMMA SpawnSignalInv == ASSUME IInv, SpawnSignal PROVE StateInv' /\ NoReaper'
<1>1. /\ step = "signal" /\ step' = "fork" /\ sigchld' = "default" /\ pending' = FALSE
      /\ UNCHANGED <<proc, runs, nextJob, entry, listed, page, socks, task, future>>
  BY DEF SpawnSignal, SetDefault, records, history
<1>2. (\A j \in Jobs : Forked(j)' <=> Forked(j)) /\ Live' = Live BY <1>1 DEF Forked, Live
<1>3. Numbering' /\ NoReaper' /\ Status' BY <1>1, <1>2 DEF IInv, Numbering, NoReaper, Status
<1>4. OwnProcess'
  <2>1. \A p \in Pids : runs[p] # NoJob => runs[p] \in Jobs BY DEF IInv, TypeOK
  <2> QED BY <1>1, <1>2, <2>1 DEF IInv, OwnProcess
<1>5. Pages' BY <1>1, <1>2 DEF IInv, Pages
<1> QED BY <1>3, <1>4, <1>5 DEF StateInv

\* The events KeepsChildren excludes cannot happen, and no page is garbled.
LEMMA Excluded ==
  ASSUME IInv, KeepsChildren
  PROVE  /\ \A p \in Pids : ~SyncReapGarbled(p)
         /\ ~WaitPid /\ ~ErrorReset /\ \A user \in BOOLEAN : ~SetSignal(user)
<1>1. \A p \in Pids : \A j \in EntriesOf(p) : page[j] # "garbled"
  BY DEF IInv, Pages, Live, EntriesOf
<1> QED BY <1>1 DEF KeepsChildren, SyncReapGarbled, GarbledResult, WaitPid, ErrorReset, SetSignal

\* Only an argument's error changes the number of pages without a job.
LEMMA OrphansStep == ASSUME Orphans, [Next]_vars PROVE Orphans'
<1> SUFFICES UNCHANGED leak \/ \E s \in Syms : SpawnArgumentFails(s)
  <2>1. CASE UNCHANGED leak BY <2>1 DEF Orphans, leak
  <2>2. ASSUME NEW s \in Syms, SpawnArgumentFails(s) PROVE Orphans'
    BY <2>2 DEF Orphans, SpawnArgumentFails
  <2> QED BY <2>1, <2>2
<1>1. CASE (\E p \in Pids : Child(p)) \/ HandleSigchld \/ UNCHANGED vars
  BY <1>1 DEF Child, ChildWrites, ChildExits, ChildCrashes, Ends, HandleSigchld, vars, leak
<1>2. CASE SpawnStep
  BY <1>2 DEF SpawnStep, SpawnPrepare, SpawnSocketFails, SpawnSignal, SpawnFork,
              SpawnForkFails, SpawnAdd
<1>3. CASE SyncStep
  BY <1>3 DEF SyncStep, SyncNothing, SyncStart, SyncTimeout, SyncReap, SyncReapGarbled,
              SyncNoChild, SyncInletReturns, SyncDone
<1>4. CASE AbortStep \/ OtherStep
  BY <1>4 DEF AbortStep, AbortPid, AbortAll, OtherStep, StartForeign, WaitPid, SetSignal,
              CaughtError, ErrorReset
<1> QED BY <1>1, <1>2, <1>3, <1>4 DEF Next

\* Every step keeps the invariant.
LEMMA StepInv == ASSUME IInv, KeepsChildren, [Next]_vars PROVE IInv'
<1>1. TypeOK' BY TypeStep DEF IInv
<1>2. StateInv' /\ NoReaper'
  <2>1. CASE \E p \in Pids : Child(p) BY <2>1, ChildWritesInv, ChildEndsInv DEF Child
  <2>2. CASE HandleSigchld BY <2>2, HandlerInv
  <2>3. CASE SpawnStep BY <2>3, SpawnPrepareInv, SpawnSignalInv, SpawnForkInv, SpawnForkFailsInv,
       SpawnAddInv, CallerInv DEF SpawnStep
  <2>4. CASE SyncStep BY <2>4, CallerInv, SyncReapInv, Excluded DEF SyncStep
  <2>5. CASE AbortStep BY <2>5, AbortInv DEF AbortStep
  <2>6. CASE OtherStep BY <2>6, StartForeignInv, CallerInv, Excluded DEF OtherStep
  <2>7. CASE UNCHANGED vars BY <2>7, CallerInv
  <2> QED BY <2>1, <2>2, <2>3, <2>4, <2>5, <2>6, <2>7 DEF Next
<1>3. Orphans' BY OrphansStep DEF IInv
<1> QED BY <1>1, <1>2, <1>3 DEF IInv, StateInv

\* The inductive invariant holds in every state.
LEMMA Inductive == ASSUME KeepsChildren PROVE Spec => []IInv
<1>1. IInv /\ [Next]_vars => IInv' BY StepInv
<1> QED BY InitInv, <1>1, PTL DEF Spec
----------------------------------------
(* Spawn implements Futures.  A job's target is the symbol in its record, *)
(* a symbol's value is its contents. *)
\* Steps that touch no task, no future, no record and no symbol.
LEMMA Stutters ==
  ASSUME UNCHANGED <<task, future, entry, contents>>
  PROVE  UNCHANGED Promised!program
BY DEF Promised!program

\* A listed job has a process of its own, so none goes astray.
LEMMA NoneAstray == ASSUME IInv PROVE Astray = {}
<1>1. ASSUME NEW j \in listed PROVE runs[entry[j].pid] = j /\ j # NoJob
  <2>1. j \in Jobs BY DEF IInv, TypeOK
  <2>2. Forked(j) /\ future[j] = "open" BY <2>1, OpenJobs
  <2> QED BY <2>1, <2>2 DEF IInv, OwnProcess, NoJob, Jobs
<1> QED BY <1>1 DEF Astray

\* What a step of the abstract program is, when no job has gone astray.
Moves == \/ \E s \in Syms : Promised!Clear(s)
         \/ \E j \in Jobs : \/ Promised!Start(j) \/ Promised!Advance(j)
                           \/ Promised!Settle(j)
         \/ \E J \in SUBSET Jobs : Promised!Abort(J)
         \/ UNCHANGED Promised!program

\* At the start all futures are open.
LEMMA FuturesInit == ASSUME Init PROVE Promised!Init
BY DEF Init, Promised!Init, Promised!Blank, Value, NoJob, Astray

\* p_spawn clears the symbol and may still change the record of the next job.
LEMMA PrepareClears ==
  ASSUME IInv, NEW s \in Syms, NEW sock \in BOOLEAN, SpawnPrepare(s, sock)
  PROVE  Moves
<1>1. /\ step = "none" /\ nextJob \in Jobs
      /\ contents' = [contents EXCEPT ![s] = Value("nil", NoJob)]
      /\ entry' = [entry EXCEPT ![nextJob] = [pid |-> NoJob, sym |-> s]]
      /\ UNCHANGED <<task, future>> BY DEF SpawnPrepare, Clears, Evaluating, history
<1>2. task[nextJob] = "none" BY <1>1 DEF IInv, Numbering, Forked, Jobs
<1>3. \A j \in Jobs : j # nextJob => entry'[j] = entry[j] BY <1>1 DEF IInv, TypeOK
<1>4. \A j \in Jobs : entry'[j].sym = entry[j].sym \/ task[j] = "none" BY <1>2, <1>3
<1>5. Promised!Clear(s) BY <1>1, <1>4 DEF Promised!Clear, Promised!Blank, Value, NoJob
<1> QED BY <1>5 DEF Moves

\* fork() starts the task.
LEMMA ForkStarts == ASSUME IInv, NEW p \in Pids, SpawnFork(p) PROVE Moves
<1>1. /\ step = "fork" /\ nextJob \in Jobs
      /\ entry' = [entry EXCEPT ![nextJob] = [pid |-> p, sym |-> entry[nextJob].sym]]
      /\ task' = [task EXCEPT ![nextJob] = "running"]
      /\ UNCHANGED <<future, contents>> BY DEF SpawnFork, IInv, TypeOK
<1>2. task[nextJob] = "none" BY <1>1 DEF IInv, Numbering, Forked, Jobs
<1>3. \A j \in Jobs : entry'[j].sym = entry[j].sym BY <1>1 DEF IInv, TypeOK
<1>4. Promised!Start(nextJob) BY <1>1, <1>2, <1>3 DEF Promised!Start
<1> QED BY <1>1, <1>4 DEF Moves

\* A child that writes or ends advances its task; others are no tasks.
LEMMA ChildAdvances ==
  ASSUME IInv, KeepsChildren, NEW p \in Pids, Child(p)
  PROVE  Moves
<1>1. UNCHANGED <<future, entry, contents>>
  BY DEF Child, ChildWrites, ChildExits, ChildCrashes, Ends, records
<1>2. CASE ChildWrites(p)
  <2>1. runs[p] \in Jobs /\ task[runs[p]] = "running" /\ task' = [task EXCEPT ![runs[p]] = "computed"]
    BY <1>2 DEF ChildWrites, IInv, TypeOK
  <2>2. "computed" \in Promised!After(task[runs[p]]) BY <2>1 DEF Promised!After
  <2>3. Promised!Advance(runs[p]) BY <1>1, <2>1, <2>2 DEF Promised!Advance
  <2> QED BY <2>1, <2>3 DEF Moves
<1>3. CASE ChildExits(p) \/ ChildCrashes(p)
  <2>1. CASE runs[p] = NoJob
    <3>1. UNCHANGED task BY <1>3, <2>1 DEF ChildExits, ChildCrashes, Ends
    <3> QED BY <1>1, <3>1, Stutters DEF Moves
  <2>2. CASE runs[p] # NoJob
    <3>1. runs[p] \in Jobs /\ task[runs[p]] \in {"running", "computed"}
      <4>1. proc[p] = "run" BY <1>3 DEF ChildExits, ChildCrashes, Ends
      <4> QED BY <2>2, <4>1 DEF IInv, TypeOK, Status
    <3>2. PICK t : /\ task' = [task EXCEPT ![runs[p]] = t]
                   /\ t = "killed" \/ t = IF task[runs[p]] = "computed" THEN "exited" ELSE "quit"
      BY <1>3, <2>2 DEF ChildExits, ChildCrashes, Ends
    <3>3. t \in Promised!After(task[runs[p]]) BY <3>1, <3>2 DEF Promised!After
    <3>4. Promised!Advance(runs[p]) BY <1>1, <3>2, <3>3 DEF Promised!Advance
    <3> QED BY <3>1, <3>4 DEF Moves
  <2> QED BY <2>1, <2>2
<1> QED BY <1>2, <1>3 DEF Child

\* What p_sync assigns is what the reaped child's task has come to.
LEMMA ReapSettles ==
  ASSUME IInv, NEW p \in Pids, SyncReap(p)
  PROVE  Moves
<1>1. Zombie(p) /\ UNCHANGED <<entry, task>> BY DEF SyncReap
<1>2. CASE EntriesOf(p) = {} BY <1>1, <1>2, Stutters DEF SyncReap, Moves
<1>3. CASE EntriesOf(p) # {}
  <2>1. PICK j \in EntriesOf(p) : TRUE BY <1>3
  <2>2. Front(p) = j /\ j \in listed /\ runs[p] = j BY <2>1, OneEntry
  <2>3. Collect(j, proc[p]) BY <1>3, <2>2 DEF SyncReap
  <2>4. j \in Jobs /\ j # NoJob /\ j \in Live /\ future[j] = "open"
    BY <2>2 DEF IInv, TypeOK, Numbering, Live, NoJob, Jobs
  <2>5. CASE proc[p] = "killed"
    <3>1. task[j] = "killed" BY <2>2, <2>4, <2>5 DEF IInv, Status
    <3>2. /\ contents' = [contents EXCEPT ![entry[j].sym] = Value("abend", j)]
          /\ future' = [future EXCEPT ![j] = "abend"] BY <2>3, <2>5 DEF Collect, Assign, Outcome
    <3>3. Promised!ResultOf(j, task[j]) = Value("abend", j) BY <3>1 DEF Promised!ResultOf, Value
    <3> QED BY <1>1, <2>4, <3>1, <3>2, <3>3 DEF Moves, Promised!Settle, Promised!Ended
  <2>6. CASE proc[p] = "exited"
    <3>1. task[j] \in {"exited", "quit"} BY <2>2, <2>4, <2>6 DEF IInv, Status
    <3>2. /\ contents' = [contents EXCEPT ![entry[j].sym] = ReadPage(j)]
          /\ future' = [future EXCEPT ![j] = "result"] BY <2>3, <2>6 DEF Collect, Assign, Outcome
    <3>3. Promised!ResultOf(j, task[j]) = ReadPage(j)
      <4>1. page[j] = IF task[j] = "exited" THEN "result" ELSE "nil" BY <2>4, <3>1 DEF IInv, Pages
      <4> QED BY <3>1, <4>1 DEF Promised!ResultOf, ReadPage, Value, Promised!Blank, NoJob
    <3> QED BY <1>1, <2>4, <3>1, <3>2, <3>3 DEF Moves, Promised!Settle, Promised!Ended
  <2> QED BY <1>1, <2>5, <2>6 DEF Zombie
<1> QED BY <1>2, <1>3

\* kill ends exactly the tasks of the aborted jobs that still run.
LEMMA KillAborts ==
  ASSUME IInv, NEW J \in SUBSET listed, Kill(J), step = "none", UNCHANGED <<entry, contents>>
  PROVE  Moves
<1> DEFINE P == {entry[j].pid : j \in J}
<1>1. /\ task' = [j \in Jobs |-> IF \E p \in P : proc[p] = "run" /\ runs[p] = j
                                 THEN "killed" ELSE task[j]]
      /\ future' = [j \in Jobs |-> IF j \in J THEN "abort" ELSE future[j]] BY DEF Kill
<1>2. J \subseteq Jobs BY DEF IInv, TypeOK
<1>3. \A j \in J : /\ entry[j].pid \in Pids /\ runs[entry[j].pid] = j
                   /\ proc[entry[j].pid] # "none" /\ future[j] = "open" /\ task[j] # "none"
                   /\ Forked(j) BY <1>2, OpenJobs DEF IInv, TypeOK, OwnProcess, Numbering
<1>4. ASSUME NEW j \in Jobs
      PROVE  (\E p \in P : proc[p] = "run" /\ runs[p] = j)
               <=> j \in J /\ task[j] \in {"running", "computed"}
  <2>1. ASSUME NEW p \in P, proc[p] = "run", runs[p] = j
        PROVE  j \in J /\ task[j] \in {"running", "computed"}
    <3>1. PICK k \in J : entry[k].pid = p BY <2>1
    <3>2. k = j /\ p \in Pids BY <1>3, <2>1, <3>1
    <3> QED BY <2>1, <3>2 DEF IInv, Status, NoJob, Jobs
  <2>2. ASSUME j \in J, task[j] \in {"running", "computed"}
        PROVE  \E p \in P : proc[p] = "run" /\ runs[p] = j
    <3>1. entry[j].pid \in P /\ entry[j].pid \in Pids /\ runs[entry[j].pid] = j BY <1>3, <2>2
    <3>2. proc[entry[j].pid] = "run" BY <1>3, <2>2, <3>1 DEF IInv, TypeOK, Status, NoJob, Jobs
    <3> QED BY <3>1, <3>2
  <2> QED BY <2>1, <2>2
<1>5. task' = [j \in Jobs |-> IF j \in J /\ task[j] \in {"running", "computed"}
                              THEN "killed" ELSE task[j]] BY <1>1, <1>4
<1>6. Promised!Abort(J) BY <1>1, <1>3, <1>5 DEF Promised!Abort
<1> QED BY <1>2, <1>6 DEF Moves

\* Every step is a step of Futures or one it does not see.
LEMMA FuturesStep ==
  ASSUME IInv, KeepsChildren, [Next]_vars
  PROVE  Moves
<1>1. CASE \E p \in Pids : Child(p) BY <1>1, ChildAdvances
<1>2. CASE HandleSigchld \/ SpawnSignal \/ SpawnForkFails \/ SpawnAdd \/ UNCHANGED vars
  BY <1>2, Stutters DEF Moves, HandleSigchld, SpawnSignal, SpawnForkFails, SpawnAdd, vars, records, history
<1>3. CASE SpawnStep
  <2>1. ASSUME NEW s \in Syms, SpawnArgumentFails(s) \/ SpawnSocketFails(s) PROVE Moves
    <3>1. UNCHANGED <<task, future, entry>> /\ (contents' = contents \/ Clears(s))
      BY <2>1 DEF SpawnArgumentFails, SpawnSocketFails, records, history
    <3>2. CASE Clears(s)
      <4>1. Promised!Clear(s)
        BY <3>1, <3>2 DEF Promised!Clear, Promised!Blank, Clears, Value, NoJob
      <4> QED BY <4>1 DEF Moves
    <3> QED BY <3>1, <3>2, Stutters DEF Moves
  <2> QED BY <1>2, <1>3, <2>1, PrepareClears, ForkStarts DEF SpawnStep
<1>4. CASE SyncStep
  <2>1. CASE SyncNothing \/ (\E w \in BOOLEAN : SyncStart(w)) \/ SyncTimeout \/ SyncNoChild
               \/ SyncInletReturns \/ SyncDone
    BY <2>1, Stutters DEF Moves, SyncNothing, SyncStart, SyncTimeout, SyncNoChild,
       SyncInletReturns, SyncDone, records, history
  <2> QED BY <1>4, <2>1, ReapSettles, Excluded DEF SyncStep
<1>5. CASE AbortStep
  <2>1. ASSUME NEW p \in Pids, AbortPid(p) PROVE Moves
    <3>1. PICK j \in EntriesOf(p) : Front(p) = j /\ j \in listed BY <2>1, OneEntry DEF AbortPid
    <3> QED BY <2>1, <3>1, KillAborts DEF AbortPid, Evaluating
  <2>2. ASSUME AbortAll PROVE Moves BY <2>2, KillAborts DEF AbortAll, Evaluating
  <2> QED BY <1>5, <2>1, <2>2 DEF AbortStep
<1>6. CASE OtherStep
  BY <1>6, Stutters, Excluded DEF Moves, OtherStep, StartForeign, CaughtError, records, history
<1> QED BY <1>1, <1>2, <1>3, <1>4, <1>5, <1>6 DEF Next
----------------------------------------
(* Theorems *)

\* As long as nothing else waits for children, every child in mySpawnList can
\* be collected by p_sync: no other step of the program, of the handler or of
\* the kernel reaps it or gives its pid away.
THEOREM Collectable == ASSUME KeepsChildren PROVE Spec => []ListedCollectable
<1>1. IInv => ListedCollectable BY OpenJobs DEF IInv, TypeOK, OwnProcess, ListedCollectable
<1>2. Spec => []IInv BY Inductive
<1> QED BY <1>1, <1>2, PTL

\* p_spawn, p_sync and p_abort release every page and socket they opened, but
\* for the one page of each p_spawn that an error in an argument ended.
THEOREM LeakFree == ASSUME KeepsChildren PROVE Spec => []NoLeak
<1>1. IInv => NoLeak BY DEF Orphans, IInv, TypeOK, Pages, Live, NoLeak
<1>2. Spec => []IInv BY Inductive
<1> QED BY <1>1, <1>2, PTL

\* p_sync finds the list empty only when every spawned job has been settled.
THEOREM NothingForgotten == ASSUME KeepsChildren PROVE Spec => []OpenAreListed
<1>1. IInv => OpenAreListed BY DEF IInv, Numbering, OpenAreListed
<1>2. Spec => []IInv BY Inductive
<1> QED BY <1>1, <1>2, PTL

\* The child list, the signals and the pages implement futures: a symbol only
\* ever gets what the process of a job spawned for it did, once, after its end
\* (no job goes astray).
THEOREM Implementation == ASSUME KeepsChildren PROVE Spec => ImplementsFutures
<1>1. ASSUME IInv, IInv', [Next]_vars PROVE Promised!Next
  <2>1. Moves BY <1>1, FuturesStep
  <2>2. Astray' = {}
    <3>1. (IInv => Astray = {})' BY NoneAstray, PTL
    <3> QED BY <1>1, <3>1
  <2> QED BY <2>1, <2>2 DEF Moves, Promised!Next
<1>2. Init => Promised!Init BY FuturesInit
<1>3. Spec => []IInv BY Inductive
<1> QED BY <1>1, <1>2, <1>3, PTL DEF Spec, ImplementsFutures, Promised!Spec
=============================================================================
