-------------------------------- MODULE Share --------------------------------
(***************************************************************************)
(* Shared memory and semaphores of nl-filesys.c.  Several processes map    *)
(* one page.  Its first word is the type of the value, the second its      *)
(* size, the rest its bytes; a value that does not fit goes to a file in   *)
(* the temporary directory and the page holds the name.  Every word is     *)
(* written and read by itself, and nothing in share takes a lock: programs *)
(* put a semaphore around it.                                              *)
(***************************************************************************)
EXTENDS Integers, Sequences, FiniteSets

CONSTANTS Procs,      \* processes that map the page
          Maker,        \* the one that made the page and the semaphore
          Atoms,      \* values the type word alone tells: nil, true
          Numbers,    \* values of one word
          Texts,      \* function: string or expression -> the length of its text
          Strings,    \* the members of DOMAIN Texts that are strings
          Word,       \* bytes of a word
          Room,       \* pagesize - 3 words: the longest text kept in the page
          Names       \* names of temporary files: a new one for each that is made

None == "none"
Removed == -1

\* The forms of a value can be told apart by the type word and by what it is.
ShareAssumption ==
  /\ Maker \in Procs
  /\ "nil" \in Atoms /\ {None, "number", "string", "eval"} \cap Atoms = {}
  /\ Texts \in [DOMAIN Texts -> Nat] /\ Strings \subseteq DOMAIN Texts
  /\ Atoms \cap (Numbers \cup DOMAIN Texts) = {} /\ Numbers \cap DOMAIN Texts = {}
  /\ Names \cap DOMAIN Texts = {}
  /\ Word \in Nat \ {0} /\ Room \in Nat

VARIABLES
  type, size, data,   \* the page
  mapped,             \* processes that have not released the page
  files,              \* temporary files on disk: name -> the value written to it
  made,               \* names used so far
  semaphore,          \* value of the semaphore, or Removed
  pc, arg, tmp,       \* of each process: step, the value it writes, what it has read
  result,             \* what its last share or semaphore returned
  stored              \* history: the value whose writing was completed last

shareVars == <<type, size, data, mapped, files, made, semaphore, pc, arg, tmp, result, stored>>
page == <<type, size, data>>

Values == Atoms \cup Numbers \cup DOMAIN Texts

\* A string is printed between quotes when it is written as an expression.
Printed(v) == Texts[v] + (IF v \in Strings THEN 2 ELSE 0)

\* Mutant: a string is kept in the page whatever its length.
AsTextAlways(v) == v \in Strings

\* The form in which readWriteShared writes a value.
AsText(v) == v \in Strings /\ ~(Texts[v] > Room)
AsExpression(v) == v \in DOMAIN Texts /\ ~AsText(v)
InFile(v) == AsExpression(v) /\ ~(Printed(v) < Room)
Length(v) == IF AsExpression(v) THEN Printed(v)
             ELSE IF AsText(v) THEN Texts[v] ELSE Word
TypeOf(v) == IF v \in Atoms THEN v
             ELSE IF v \in Numbers THEN "number"
             ELSE IF AsText(v) THEN "string" ELSE "eval"

ShareInit ==
  /\ type = "nil" /\ size = 0 /\ data = None
  /\ mapped = Procs
  /\ files = <<>> /\ made = {}
  /\ semaphore = 0
  /\ pc = [p \in Procs |-> IF p = Maker THEN "signal" ELSE "run"]
  /\ arg = [p \in Procs |-> None]
  /\ tmp = [p \in Procs |-> <<>>]
  /\ result = [p \in Procs |-> None]
  /\ stored = "nil"

MoveTo(p, l) == pc' = [pc EXCEPT ![p] = l]
Return(p, r) == MoveTo(p, "done") /\ result' = [result EXCEPT ![p] = r]

----------------------------------------
(* Semaphores.  One is made with the value 0: its maker signals it first. *)

\* Mutant: a signal that is lost.
SignalLost(p) ==
  /\ pc[p] = "signal"
  /\ MoveTo(p, "run")
  /\ semaphore' = semaphore
  /\ result' = [result EXCEPT ![p] = IF semaphore = Removed THEN "nil" ELSE "true"]
  /\ UNCHANGED <<page, mapped, files, made, arg, tmp, stored>>

Signal(p) ==
  /\ pc[p] = "signal"
  /\ MoveTo(p, "run")
  /\ semaphore' = IF semaphore = Removed THEN semaphore ELSE semaphore + 1
  /\ result' = [result EXCEPT ![p] = IF semaphore = Removed THEN "nil" ELSE "true"]
  /\ UNCHANGED <<page, mapped, files, made, arg, tmp, stored>>

Begin(p) ==
  /\ pc[p] = "run"
  /\ p \in mapped
  /\ MoveTo(p, "wait")
  /\ UNCHANGED <<page, mapped, files, made, semaphore, arg, tmp, result, stored>>

\* Mutant: a wait that does not wait.
WaitPasses(p) ==
  /\ pc[p] = "wait"
  /\ semaphore' = semaphore - 1
  /\ MoveTo(p, "holding")
  /\ UNCHANGED <<page, mapped, files, made, arg, tmp, result, stored>>

\* (semaphore id -1) waits for a positive value and takes one.
Wait(p) ==
  /\ pc[p] = "wait"
  /\ semaphore \in Nat \ {0}
  /\ semaphore' = semaphore - 1
  /\ MoveTo(p, "holding")
  /\ UNCHANGED <<page, mapped, files, made, arg, tmp, result, stored>>

\* (semaphore id 0) removes it: waits return nil, and the program stops there.
RemoveSemaphore(p) ==
  /\ pc[p] = "holding"
  /\ semaphore' = Removed
  /\ Return(p, "true")
  /\ UNCHANGED <<page, mapped, files, made, arg, tmp, stored>>

WaitFails(p) ==
  /\ pc[p] = "wait"
  /\ semaphore = Removed
  /\ MoveTo(p, "ended")
  /\ result' = [result EXCEPT ![p] = "nil"]
  /\ UNCHANGED <<page, mapped, files, made, semaphore, arg, tmp, stored>>

----------------------------------------
(* (share address value) *)

\* checkDeleteShareFile: an unlink when the page holds a file's name.
checkDeleteShareFile(fs) ==
  IF type = "eval" /\ data \in DOMAIN fs THEN [f \in DOMAIN fs \ {data} |-> fs[f]] ELSE fs

\* Mutant: a new value leaves the file of the old one on disk.
WriteBeginKeep(p, v) ==
  /\ pc[p] = "holding"
  /\ InFile(v) => made # Names
  /\ arg' = [arg EXCEPT ![p] = v]
  /\ MoveTo(p, IF v \in Atoms THEN "type" ELSE "size")
  /\ UNCHANGED <<page, mapped, files, made, semaphore, tmp, result, stored>>

WriteBegin(p, v) ==
  /\ pc[p] = "holding"
  /\ InFile(v) => made # Names
  /\ arg' = [arg EXCEPT ![p] = v]
  /\ files' = checkDeleteShareFile(files)
  /\ MoveTo(p, IF v \in Atoms THEN "type" ELSE "size")
  /\ UNCHANGED <<page, mapped, made, semaphore, tmp, result, stored>>

WriteSize(p) ==
  /\ pc[p] = "size"
  /\ size' = Length(arg[p])
  /\ MoveTo(p, "data")
  /\ UNCHANGED <<type, data, mapped, files, made, semaphore, arg, tmp, result, stored>>

\* The bytes, or the name of a new file.
WriteData(p) ==
  /\ pc[p] = "data"
  /\ IF InFile(arg[p])
     THEN /\ files' = checkDeleteShareFile(files)
          /\ data' \in Names \ made
          /\ made' = made \cup {data'}
          /\ MoveTo(p, "file")
     ELSE /\ data' = arg[p]
          /\ MoveTo(p, "type")
          /\ UNCHANGED <<files, made>>
  /\ UNCHANGED <<type, size, mapped, semaphore, arg, tmp, result, stored>>

\* writeFile opens what name the page now holds.
WriteFile(p) ==
  /\ pc[p] = "file"
  /\ files' = [f \in DOMAIN files \cup {data} |-> IF f = data THEN arg[p] ELSE files[f]]
  /\ MoveTo(p, "type")
  /\ UNCHANGED <<page, mapped, made, semaphore, arg, tmp, result, stored>>

WriteType(p) ==
  /\ pc[p] = "type"
  /\ type' = TypeOf(arg[p])
  /\ stored' = arg[p]
  /\ Return(p, arg[p])
  /\ UNCHANGED <<size, data, mapped, files, made, semaphore, arg, tmp>>

----------------------------------------
(* (share address) *)

ReadType(p) ==
  /\ pc[p] = "holding"
  /\ IF type \in Atoms
     THEN Return(p, type) /\ UNCHANGED tmp
     ELSE /\ tmp' = [tmp EXCEPT ![p] = <<type>>]
          /\ MoveTo(p, "readSize")
          /\ UNCHANGED result
  /\ UNCHANGED <<page, mapped, files, made, semaphore, arg, stored>>

\* A number has its one word; a text as many bytes as the size word says.
ReadSize(p) ==
  /\ pc[p] = "readSize"
  /\ tmp' = [tmp EXCEPT ![p] = Append(@, size)]
  /\ MoveTo(p, "readData")
  /\ UNCHANGED <<page, mapped, files, made, semaphore, arg, result, stored>>

\* What the bytes give under the type and size read before.
Decode(t, n, d) ==
  IF t = "number" THEN (IF d \in Numbers THEN d ELSE "torn")
  ELSE IF d \in DOMAIN Texts /\ n = Length(d) /\ TypeOf(d) = t THEN d
  ELSE "torn"

\* Mutant: a text of just the size that went to a file is looked for in the page.
ReadDataShort(p) ==
  /\ pc[p] = "readData"
  /\ IF tmp[p][1] = "eval" /\ ~(tmp[p][2] <= Room)
     THEN Return(p, IF data \in DOMAIN files THEN files[data] ELSE "nil")
     ELSE Return(p, Decode(tmp[p][1], tmp[p][2], data))
  /\ tmp' = [tmp EXCEPT ![p] = <<>>]
  /\ UNCHANGED <<page, mapped, files, made, semaphore, arg, stored>>

ReadData(p) ==
  /\ pc[p] = "readData"
  /\ IF tmp[p][1] = "eval" /\ ~(tmp[p][2] < Room)
     THEN Return(p, IF data \in DOMAIN files THEN files[data] ELSE "nil")
     ELSE Return(p, Decode(tmp[p][1], tmp[p][2], data))
  /\ tmp' = [tmp EXCEPT ![p] = <<>>]
  /\ UNCHANGED <<page, mapped, files, made, semaphore, arg, stored>>

\* (share nil address): the file goes, and the page is unmapped in this process.
Release(p) ==
  /\ pc[p] = "holding"
  /\ files' = checkDeleteShareFile(files)
  /\ mapped' = mapped \ {p}
  /\ stored' = IF files' = files THEN stored ELSE "nil"
  /\ Return(p, "true")
  /\ UNCHANGED <<page, made, semaphore, arg, tmp>>

\* The program signals the semaphore when its share has returned.
Done(p) ==
  /\ pc[p] = "done"
  /\ MoveTo(p, "signal")
  /\ UNCHANGED <<page, mapped, files, made, semaphore, arg, tmp, result, stored>>

Write(p) == \/ \E v \in Values : WriteBegin(p, v)
            \/ WriteSize(p) \/ WriteData(p) \/ WriteFile(p) \/ WriteType(p)
Read(p) == ReadType(p) \/ ReadSize(p) \/ ReadData(p)

ShareNext == \E p \in Procs : \/ Signal(p) \/ Begin(p) \/ Wait(p) \/ WaitFails(p) \/ RemoveSemaphore(p)
                          \/ Write(p) \/ Read(p) \/ Release(p) \/ Done(p)

\* Processes are scheduled, and a waiting one is woken in turn.
ShareStep(p) == \/ Signal(p) \/ WaitFails(p) \/ WriteSize(p) \/ WriteData(p) \/ WriteFile(p)
           \/ WriteType(p) \/ ReadSize(p) \/ ReadData(p) \/ Done(p)
ShareFairness == \A p \in Procs : /\ WF_shareVars(ShareStep(p)) /\ SF_shareVars(Wait(p))
                             /\ WF_shareVars(pc[p] = "holding" /\ ShareNext)

ShareSpec == ShareInit /\ [][ShareNext]_shareVars /\ ShareFairness

----------------------------------------
(* Properties *)

Inside == {p \in Procs : /\ pc[p] \notin {"run", "wait", "ended"}
                         /\ ~(pc[p] = "signal" /\ result[p] = None)}

(* The semaphore lets one process in at a time, through any sequence of *)
(* waits, signals and removals (semaphore, nl-filesys.c:2073). *)
OneInside == Cardinality(Inside) <= 1

(* When nobody is inside, the only temporary file on disk is the one the *)
(* page names: overwriting a value or releasing the page leaves none *)
(* behind (checkDeleteShareFile, nl-filesys.c:2425). *)
FilesExact ==
  Inside = {} => DOMAIN files = IF type = "eval" /\ data \in Names /\ stored # "nil"
                                THEN {data} ELSE {}

(* A text kept in the page ends, with its zero byte, before the page does *)
(* (readWriteShared, nl-filesys.c:2229). *)
TextFits == (Inside = {} /\ data \in DOMAIN Texts /\ type \in {"string", "eval"})
              => 2 * Word + size + 1 <= Room + 3 * Word

PageExact == OneInside /\ TextFits /\ FilesExact

(* Under the semaphore a reader never sees a torn value: it gets the value *)
(* written last, whichever form, page or file, that was written in. *)
ReadsWhole ==
  [][\A p \in Procs : (ReadType(p) \/ ReadData(p)) /\ pc'[p] = "done"
                        => result'[p] = stored]_shareVars

(* Every process that waits goes on: no order of signals and waits loses a *)
(* wake-up. *)
EveryWaitEnds == \A p \in Procs : pc[p] = "wait" ~> pc[p] # "wait"

=============================================================================
