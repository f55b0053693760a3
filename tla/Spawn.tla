------------------------------- MODULE Spawn -------------------------------
(***************************************************************************)
(* The Cilk interface of nl-filesys.c in one newLISP process: p_spawn,     *)
(* p_sync, p_abort and the child list mySpawnList, against what may run    *)
(* between any two of their system calls: the children, the SIGCHLD        *)
(* handler of newlisp.c, and the operations that share waitpid() with them *)
(* (wait-pid, process, fork, signal, an error that resets the interpreter).*)
(*                                                                         *)
(* A job is one evaluation of (spawn ...) that got as far as fork().  Jobs *)
(* are numbered in spawn order and entries are pushed on the front of      *)
(* mySpawnList, so the list is the set listed in descending order and the  *)
(* first entry with a given pid is the youngest one.                       *)
(***************************************************************************)
EXTENDS Naturals, FiniteSets

CONSTANTS Pids,     \* process ids the kernel may give to children
          Syms,     \* symbols spawn may name
          MaxJobs,  \* bound on the spawns of a behaviour
          Events    \* what the program and the environment do besides
                    \* spawn, sync and abort

AllEvents == {"argument",   \* an argument of spawn is wrong, or its evaluation fails
              "crash",      \* a child is ended by a signal
              "forkfail",   \* fork() returns -1
              "foreign",    \* children of (process) and (fork)
              "garbled",    \* a result whose printed form the reader rejects
              "reset",      \* an uncaught error: longjmp to the top level
              "socket",     \* spawns with a socket pair for send and receive
              "socketfail", \* socketpair() returns -1
              "signal",     \* (signal 17 handler) and (signal 17 "reset")
              "waitpid"}    \* (wait-pid ...)

ASSUME SpawnAssumption == MaxJobs \in Nat /\ Events \subseteq AllEvents

Jobs == 1 .. MaxJobs
NoJob == 0

VARIABLES
  proc,        \* proc[p]: the kernel's view of child p of this process
  runs,        \* runs[p]: the job whose expression p evaluates, or NoJob
  sigchld,     \* disposition of SIGCHLD: signal_handler or SIG_DFL
  pending,     \* a SIGCHLD is pending for this process
  userHandler, \* symHandler[SIGCHLD-1] is not nil
  nextJob,     \* number of the next job
  entry,       \* entry[j]: the fields of job j's SPAWN_LIST record
  listed,      \* the jobs whose record is linked in mySpawnList
  page,        \* page[j]: the shared result page of job j
  socks,       \* jobs whose parent socket is open
  orphans,     \* mapped pages that belong to no job
  contents,    \* contents[s]: value of symbol s
  step,        \* where p_spawn stands between its system calls
  pc,          \* what the parent evaluates outside p_spawn
  inlet,       \* the p_sync under way has an inlet function
  syncRet,     \* value the last (sync timeout) returned
  task,        \* history: what the process of job j has done (Futures)
  future,      \* history: how job j was settled (Futures)
  refused      \* history: evaluations of p_spawn that an argument ended

kernel  == <<proc, runs, sigchld, pending>>
records == <<nextJob, entry, listed, page, socks>>
caller  == <<pc, inlet, syncRet>>
control == <<step, caller>>
leak    == <<orphans, refused>>
history == <<task, future>>
vars == <<proc, runs, sigchld, pending, userHandler, nextJob, entry, listed,
          page, socks, orphans, contents, step, pc, inlet, syncRet, task, future,
          refused>>

Zombie(p) == proc[p] \in {"exited", "killed"}
NoEntry == [pid |-> NoJob, sym |-> NoJob]
Value(k, j) == [kind |-> k, job |-> j]

TypeOK ==
  /\ proc \in [Pids -> {"none", "run", "exited", "killed"}]
  /\ runs \in [Pids -> Jobs \cup {NoJob}]
  /\ sigchld \in {"handler", "default"}
  /\ pending \in BOOLEAN /\ userHandler \in BOOLEAN
  /\ nextJob \in IF step = "none" THEN 1 .. MaxJobs + 1 ELSE Jobs
  /\ entry \in [Jobs -> [pid : Pids \cup {NoJob}, sym : Syms \cup {NoJob}]]
  /\ listed \subseteq Jobs /\ socks \subseteq Jobs
  /\ orphans \in Nat /\ refused \in 0 .. MaxJobs
  /\ page \in [Jobs -> {"unmapped", "nil", "result", "garbled"}]
  /\ contents \in [Syms -> [kind : {"unset", "nil", "result", "abend"},
                            job : Jobs \cup {NoJob}]]
  /\ step \in {"none", "signal", "fork", "add"}
  /\ pc \in IF step = "none" THEN {"idle", "sync", "inlet"} ELSE {"idle", "inlet"}
  /\ inlet \in BOOLEAN
  /\ syncRet \in {"none", "true", "nil", "()"}
  /\ task \in [Jobs -> {"none", "running", "computed", "exited", "quit", "killed"}]
  /\ future \in [Jobs -> {"open", "result", "abend", "abort"}]

Init ==
  /\ proc = [p \in Pids |-> "none"] /\ runs = [p \in Pids |-> NoJob]
  /\ sigchld = "handler" /\ pending = FALSE /\ userHandler = FALSE
  /\ nextJob = 1 /\ entry = [j \in Jobs |-> NoEntry]
  /\ listed = {} /\ socks = {} /\ orphans = 0 /\ refused = 0
  /\ page = [j \in Jobs |-> "unmapped"]
  /\ contents = [s \in Syms |-> Value("unset", NoJob)]
  /\ step = "none" /\ pc = "idle" /\ inlet = FALSE /\ syncRet = "none"
  /\ task = [j \in Jobs |-> "none"] /\ future = [j \in Jobs |-> "open"]
----------------------------------------
(* The kernel. *)

\* A child that ends leaves SIGCHLD pending unless the signal is ignored.
Raise == pending' = (pending \/ sigchld = "handler")

\* Mutant: p_spawn and p_sync forget signal(SIGCHLD, SIG_DFL).
SetDefault_Forgotten == UNCHANGED <<sigchld, pending>>

\* Setting SIG_DFL, which ignores SIGCHLD, drops a pending one.
SetDefault == sigchld' = "default" /\ pending' = FALSE
SetHandler == sigchld' = "handler" /\ pending' = pending
----------------------------------------
(* The children. *)

\* readWriteShared(address, params, TRUE): the child puts the value in the
\* page, the tag word last; an error message is a value as well.
ChildWrites(p) ==
  /\ proc[p] = "run" /\ runs[p] # NoJob /\ task[runs[p]] = "running"
  /\ \E r \in {"result"} \cup (Events \cap {"garbled"}) :
        page' = [page EXCEPT ![runs[p]] = r]
  /\ task' = [task EXCEPT ![runs[p]] = "computed"]
  /\ UNCHANGED <<kernel, userHandler, leak, nextJob, entry, listed, socks, contents,
                 control, future>>

Ends(p, how, t) ==
  /\ proc[p] = "run"
  /\ proc' = [proc EXCEPT ![p] = how]
  /\ task' = IF runs[p] = NoJob THEN task ELSE [task EXCEPT ![runs[p]] = t]
  /\ Raise
  /\ UNCHANGED <<runs, sigchld, userHandler, leak, records, contents, control,
                 future>>

\* exit(0) after the page is written, or (exit) inside the expression before.
ChildExits(p) ==
  Ends(p, "exited", IF task[runs[p]] = "computed" THEN "exited" ELSE "quit")

ChildCrashes(p) == "crash" \in Events /\ Ends(p, "killed", "killed")
----------------------------------------
(* signal_handler: one waitpid(-1, 0, WNOHANG) for SIGCHLD, unless the *)
(* program has a handler of its own, which does not reap. *)

HandleSigchld ==
  /\ pending /\ sigchld = "handler"
  /\ pending' = FALSE
  /\ IF userHandler \/ \A p \in Pids : ~Zombie(p)
     THEN proc' = proc
     ELSE \E p \in Pids : Zombie(p) /\ proc' = [proc EXCEPT ![p] = "none"]
  /\ UNCHANGED <<runs, sigchld, userHandler, leak, records, contents, control,
                 history>>
----------------------------------------
(* p_spawn, split where other processes and signals can intervene. *)

\* Mutant: p_spawn can be entered again while it is at work.
Evaluating_Reentrant == pc \in {"idle", "inlet"}

Evaluating == step = "none" /\ pc \in {"idle", "inlet"}

\* p_sync returns v, or is left by an error, which returns nothing.
Leave(v) == pc' = "idle" /\ inlet' = FALSE /\ syncRet' = v

\* An error of the evaluation under way: a catch around it ends it, or one
\* around the p_sync whose inlet this is; or main installs all handlers again.
Thrown ==
  \/ UNCHANGED <<sigchld, pending, caller>>
  \/ pc = "inlet" /\ Leave("none") /\ UNCHANGED <<sigchld, pending>>
  \/ "reset" \in Events /\ SetHandler /\ Leave("none")

Clears(s) == contents' = [contents EXCEPT ![s] = Value("nil", NoJob)]

\* The page is mapped first.  getSymbol or isProtected refuses the symbol, or,
\* with the symbol cleared, the socket flag cannot be evaluated: the error
\* leaves p_spawn and nothing leads to the page any more.
SpawnArgumentFails(s) ==
  /\ "argument" \in Events /\ Evaluating /\ refused < MaxJobs
  /\ orphans' = orphans + 1 /\ refused' = refused + 1
  /\ contents' = contents \/ Clears(s)
  /\ Thrown
  /\ UNCHANGED <<proc, runs, userHandler, records, step, history>>

\* Map and clear the page, clear the symbol, open the socket pair.  (When mmap
\* fails p_spawn returns nil before it has changed anything.)
SpawnPrepare(s, sock) ==
  /\ Evaluating /\ nextJob \in Jobs /\ (sock => "socket" \in Events)
  /\ step' = "signal"
  /\ entry' = [entry EXCEPT ![nextJob] = [pid |-> NoJob, sym |-> s]]
  /\ page' = [page EXCEPT ![nextJob] = "nil"]
  /\ socks' = IF sock THEN socks \cup {nextJob} ELSE socks
  /\ Clears(s)
  /\ UNCHANGED <<kernel, userHandler, leak, nextJob, listed, caller, history>>

\* socketpair() fails: ERR_CANNOT_OPEN_SOCKETPAIR, with the symbol cleared and
\* the page unmapped again.
SpawnSocketFails(s) ==
  /\ "socketfail" \in Events /\ Evaluating
  /\ Clears(s)
  /\ Thrown
  /\ UNCHANGED <<proc, runs, userHandler, leak, records, step, history>>

SpawnSignal ==
  /\ step = "signal" /\ step' = "fork"
  /\ SetDefault
  /\ UNCHANGED <<proc, runs, userHandler, leak, records, contents, caller, history>>

SpawnFork(p) ==
  /\ step = "fork" /\ step' = "add"
  /\ proc[p] = "none"
  /\ proc' = [proc EXCEPT ![p] = "run"]
  /\ runs' = [runs EXCEPT ![p] = nextJob]
  /\ entry' = [entry EXCEPT ![nextJob] = [pid |-> p, sym |-> entry[nextJob].sym]]
  /\ task' = [task EXCEPT ![nextJob] = "running"]
  /\ UNCHANGED <<sigchld, pending, userHandler, leak, nextJob, listed, page, socks,
                 contents, caller, future>>

SpawnForkFails ==
  /\ "forkfail" \in Events \/ \A p \in Pids : proc[p] # "none"
  /\ step = "fork" /\ step' = "none"
  /\ page' = [page EXCEPT ![nextJob] = "unmapped"]
  /\ socks' = socks \ {nextJob}
  /\ UNCHANGED <<kernel, userHandler, leak, nextJob, entry, listed, contents,
                 caller,
                 history>>

\* Mutant: the new record is not linked to the ones before it.
SpawnAdd_Unlinked ==
  /\ step = "add" /\ step' = "none"
  /\ listed' = {nextJob}
  /\ nextJob' = nextJob + 1
  /\ UNCHANGED <<kernel, userHandler, leak, entry, page, socks, contents, caller,
                 history>>

\* addSpawnedChild
SpawnAdd ==
  /\ step = "add" /\ step' = "none"
  /\ listed' = listed \cup {nextJob}
  /\ nextJob' = nextJob + 1
  /\ UNCHANGED <<kernel, userHandler, leak, entry, page, socks, contents, caller,
                 history>>
----------------------------------------
(* processSpawnList(pid, mode, result) *)

EntriesOf(p) == {j \in listed : entry[j].pid = p}

\* Mutant: new records go to the end of the list.
Front_Oldest(p) == CHOOSE j \in EntriesOf(p) : \A k \in EntriesOf(p) : j <= k

Front(p) == CHOOSE j \in EntriesOf(p) : \A k \in EntriesOf(p) : k <= j

\* Mutant: the socket of an unlinked record stays open.
Unlink_KeepsSocket(J) ==
  /\ listed' = listed \ J
  /\ socks' = socks
  /\ page' = [j \in Jobs |-> IF j \in J THEN "unmapped" ELSE page[j]]

\* Unlink the records of J, close their sockets and unmap their pages.
Unlink(J) == /\ listed' = listed \ J
             /\ socks' = socks \ J
             /\ page' = [j \in Jobs |-> IF j \in J THEN "unmapped" ELSE page[j]]

Assign(j, v) == contents' = [contents EXCEPT ![entry[j].sym] = v]
Outcome(j, o) == future' = [future EXCEPT ![j] = o]

ReadPage(j) == IF page[j] = "result" THEN Value("result", j) ELSE Value("nil", NoJob)

\* Mutant: the page is read without looking at how the child ended.
Collect_AnyStatus(j, how) ==
  Unlink({j}) /\ Assign(j, ReadPage(j)) /\ Outcome(j, "result")

\* PROCESS_SPAWN_RESULT and PROCESS_SPAWN_ABNORMAL_END for a reaped child.
Collect(j, how) ==
  /\ Unlink({j})
  /\ IF how = "killed"
     THEN Assign(j, Value("abend", j)) /\ Outcome(j, "abend")
     ELSE Assign(j, ReadPage(j)) /\ Outcome(j, "result")
----------------------------------------
(* p_sync *)

SyncNothing ==
  /\ Evaluating /\ pc = "idle" /\ listed = {}
  /\ Leave("()")
  /\ UNCHANGED <<kernel, userHandler, leak, records, contents, step, history>>

SyncStart(withInlet) ==
  /\ Evaluating /\ pc = "idle" /\ listed # {}
  /\ pc' = "sync" /\ inlet' = withInlet /\ syncRet' = "none"
  /\ IF withInlet THEN UNCHANGED <<sigchld, pending>> ELSE SetDefault
  /\ UNCHANGED <<proc, runs, userHandler, leak, records, contents, step, history>>

SyncTimeout ==
  /\ pc = "sync" /\ listed # {}
  /\ Leave("nil")
  /\ UNCHANGED <<kernel, userHandler, leak, records, contents, step, history>>

GarbledResult(p) == /\ proc[p] = "exited"
                    /\ \E j \in EntriesOf(p) : j = Front(p) /\ page[j] = "garbled"

\* waitpid() found zombie p: settle its record, if it has one.
SyncReap(p) ==
  /\ pc = "sync" /\ listed # {} /\ Zombie(p)
  /\ ~GarbledResult(p)
  /\ proc' = [proc EXCEPT ![p] = "none"]
  /\ IF EntriesOf(p) = {}
     THEN UNCHANGED <<listed, socks, page, contents, future>>
     ELSE Collect(Front(p), proc[p])
  /\ pc' = IF inlet THEN "inlet" ELSE pc
  /\ UNCHANGED <<runs, sigchld, pending, userHandler, leak, nextJob, entry, step,
                 inlet,
                 syncRet, task>>

\* The reader rejects the text in the page: the error leaves for the top level
\* with the record unlinked, the page mapped and the socket open.
SyncReapGarbled(p) ==
  /\ pc = "sync" /\ GarbledResult(p)
  /\ proc' = [proc EXCEPT ![p] = "none"]
  /\ listed' = listed \ {Front(p)}
  /\ SetHandler /\ Leave("none")
  /\ UNCHANGED <<runs, userHandler, leak, nextJob, entry, page, socks, contents,
                 step,
                 history>>

\* waitpid() returns -1: there is no child at all.  The inlet is called with -1.
SyncNoChild ==
  /\ pc = "sync" /\ listed # {} /\ \A p \in Pids : proc[p] = "none"
  /\ inlet /\ pc' = "inlet"
  /\ UNCHANGED <<kernel, userHandler, leak, records, contents, step, inlet, syncRet,
                 history>>

SyncInletReturns ==
  /\ Evaluating /\ pc = "inlet" /\ pc' = "sync"
  /\ UNCHANGED <<kernel, userHandler, leak, records, contents, step, inlet, syncRet,
                 history>>

SyncDone ==
  /\ pc = "sync" /\ listed = {}
  /\ SetHandler /\ Leave("true")
  /\ UNCHANGED <<proc, runs, userHandler, leak, records, contents, step, history>>
----------------------------------------
(* p_abort: unlink, then kill(pid, 9) and waitpid(pid). *)

Kill(J) ==
  LET P == {entry[j].pid : j \in J} IN
  /\ proc' = [p \in Pids |-> IF p \in P THEN "none" ELSE proc[p]]
  /\ task' = [j \in Jobs |-> IF \E p \in P : proc[p] = "run" /\ runs[p] = j
                             THEN "killed" ELSE task[j]]
  /\ future' = [j \in Jobs |-> IF j \in J THEN "abort" ELSE future[j]]
  /\ pending' = (pending \/ (sigchld = "handler" /\ \E p \in P : proc[p] = "run"))
  /\ Unlink(J)

\* Mutant: aborting one child puts the handler back as aborting all does.
AbortPid_RestoresHandler(p) ==
  /\ Evaluating /\ EntriesOf(p) # {}
  /\ Kill({Front(p)})
  /\ sigchld' = "handler"
  /\ UNCHANGED <<runs, userHandler, leak, nextJob, entry, contents, control>>

AbortPid(p) ==
  /\ Evaluating /\ EntriesOf(p) # {}
  /\ Kill({Front(p)})
  /\ UNCHANGED <<runs, sigchld, userHandler, leak, nextJob, entry, contents,
                 control>>

AbortAll ==
  /\ Evaluating
  /\ Kill(listed)
  /\ sigchld' = "handler"
  /\ UNCHANGED <<runs, userHandler, leak, nextJob, entry, contents, control>>
----------------------------------------
(* What else changes the state p_sync depends on. *)

\* (process ...) and (fork ...): a child that is not in mySpawnList.
StartForeign(p) ==
  /\ "foreign" \in Events /\ Evaluating /\ proc[p] = "none"
  /\ proc' = [proc EXCEPT ![p] = "run"]
  /\ runs' = [runs EXCEPT ![p] = NoJob]
  /\ UNCHANGED <<sigchld, pending, userHandler, leak, records, contents, control,
                 history>>

\* p_waitpid for pid p or for -1; it gives SIGCHLD back to the system.
WaitPid ==
  /\ "waitpid" \in Events /\ Evaluating
  /\ userHandler' = FALSE /\ SetDefault
  /\ \/ \E p \in Pids : Zombie(p) /\ proc' = [proc EXCEPT ![p] = "none"]
     \/ proc' = proc
  /\ UNCHANGED <<runs, leak, records, contents, control, history>>

\* p_signal for SIGCHLD with a function, or with "reset".
SetSignal(user) ==
  /\ "signal" \in Events /\ Evaluating
  /\ userHandler' = user /\ SetHandler
  /\ UNCHANGED <<proc, runs, leak, records, contents, control, history>>

\* An error in an evaluation, or in the inlet function.  Caught by (catch ...)
\* it only leaves p_sync; uncaught, main installs all signal handlers again and
\* resets the stacks.  mySpawnList is kept either way.
CaughtError ==
  /\ pc = "inlet" /\ Evaluating /\ Leave("none")
  /\ UNCHANGED <<kernel, userHandler, leak, records, contents, step, history>>

ErrorReset ==
  /\ "reset" \in Events /\ Evaluating
  /\ SetHandler /\ Leave("none")
  /\ UNCHANGED <<proc, runs, userHandler, leak, records, contents, step, history>>
----------------------------------------
Child(p) == ChildWrites(p) \/ ChildExits(p) \/ ChildCrashes(p)

SpawnStep == \/ \E s \in Syms, sock \in BOOLEAN : SpawnPrepare(s, sock)
             \/ \E s \in Syms : SpawnArgumentFails(s) \/ SpawnSocketFails(s)
             \/ SpawnSignal
             \/ \E p \in Pids : SpawnFork(p)
             \/ SpawnForkFails
             \/ SpawnAdd

SyncStep == \/ SyncNothing
            \/ \E withInlet \in BOOLEAN : SyncStart(withInlet)
            \/ SyncTimeout
            \/ \E p \in Pids : SyncReap(p) \/ SyncReapGarbled(p)
            \/ SyncNoChild
            \/ SyncInletReturns
            \/ SyncDone

AbortStep == (\E p \in Pids : AbortPid(p)) \/ AbortAll

OtherStep == \/ \E p \in Pids : StartForeign(p)
             \/ WaitPid
             \/ \E user \in BOOLEAN : SetSignal(user)
             \/ CaughtError
             \/ ErrorReset

Next == \/ \E p \in Pids : Child(p)
        \/ HandleSigchld
        \/ SpawnStep
        \/ SyncStep
        \/ AbortStep
        \/ OtherStep

Spec == Init /\ [][Next]_vars

(* The scheduler runs the children and delivers signals; inlet functions *)
(* return; the program calls (sync t) again until nothing is pending, as *)
(* the manual's loop does, and not every one of its calls runs out of time *)
(* before the waitpid() that finds a given zombie. *)
Fairness ==
  /\ \A p \in Pids : WF_vars(ChildWrites(p)) /\ WF_vars(ChildExits(p))
  /\ WF_vars(HandleSigchld)
  /\ WF_vars(SpawnSignal \/ SpawnForkFails \/ SpawnAdd)
  /\ WF_vars(\E p \in Pids : SpawnFork(p))
  /\ SF_vars(SyncStart(FALSE)) /\ SF_vars(SyncInletReturns) /\ WF_vars(SyncDone)
  /\ \A p \in Pids : SF_vars(SyncReap(p))

FairSpec == Spec /\ Fairness
----------------------------------------
(* Properties *)

\* Every child in mySpawnList can still be waited for: it runs or is a zombie,
\* and its pid has not gone to another job.  Nothing but p_sync and p_abort may
\* reap it; a SIGCHLD handler active between fork() and p_sync would.
ListedCollectable ==
  \A j \in listed : /\ proc[entry[j].pid] # "none"
                    /\ runs[entry[j].pid] = j

\* The records account for every resource: a result page is mapped and a parent
\* socket open only for a listed job or the one p_spawn is working on, and for
\* every p_spawn that an argument ended one page more stays mapped, never two,
\* whatever else fails on the way.
NoLeak ==
  LET live == listed \cup (IF step = "none" THEN {} ELSE {nextJob}) IN
  /\ {j \in Jobs : page[j] # "unmapped"} = live
  /\ socks \subseteq live
  /\ orphans = refused

\* A job whose future is open is in the list: when p_sync finds the list empty
\* and returns true, every job has been settled.
OpenAreListed ==
  \A j \in Jobs : j < nextJob => (future[j] = "open" <=> j \in listed)

\* Listed jobs that something else than p_sync has waited for and whose pid has
\* then gone to a child of process or fork.
Astray == {j \in listed : runs[entry[j].pid] = NoJob}

\* What a program sees is what Futures allows: a symbol only ever gets what the
\* process of a job spawned for it did, once, and after that process ended.  Only
\* a job gone astray may be settled by the status of a process not its own, with
\* what its own page holds: no symbol ever gets another job's result.
Promised == INSTANCE Futures WITH target <- [j \in Jobs |-> entry[j].sym],
                                  value <- contents,
                                  astray <- Astray
ImplementsFutures == Promised!Spec

\* "Whenever a child process finishes, sync assigns the evaluation result."
SyncSettles == \A j \in Jobs : (j \in listed) ~> (future[j] # "open")
=============================================================================
