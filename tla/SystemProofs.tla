---------------------------- MODULE SystemProofs ----------------------------
(***************************************************************************)
(* Proofs about three components that share nothing: Share, whose page is  *)
(* behind a semaphore; Messages, which implements Mailboxes; and Signals,  *)
(* with handlers and the debugger. Each has an inductive invariant of its  *)
(* own (ShareInv, MessageInv, SignalInv and DebugInv).                     *)
(***************************************************************************)
EXTENDS Share, Messages, Signals, FiniteSetTheorems, SequenceTheorems, TLAPS

----------------------------------------
(* Shared memory, for any processes, values, file names and sizes of word *)
(* and page. One part of the invariant says who holds the semaphore; the *)
(* other says what the page holds, at rest and at each step of a writer. *)

Steps == {"signal", "run", "wait", "holding", "ended", "done",
          "size", "data", "file", "type", "readSize", "readData"}
Writing == {"size", "data", "file", "type"}

ShareTypes ==
  /\ pc \in [Procs -> Steps] /\ DOMAIN arg = Procs /\ DOMAIN tmp = Procs /\ DOMAIN result = Procs
  /\ semaphore \in {Removed, 0, 1}
  /\ arg = [p \in Procs |-> arg[p]] /\ tmp = [p \in Procs |-> tmp[p]]
  /\ result = [p \in Procs |-> result[p]]
  /\ size \in Nat

\* The semaphore's token is with the process that has taken it, or has still
\* to give the first one; it is lost when the semaphore is removed.
Holders == {p \in Procs : pc[p] \notin {"run", "wait", "ended"}}
Token ==
  /\ \A p, q \in Holders : p = q
  /\ semaphore = 1 => Holders = {}

\* The value v in the page, in each of its forms.
InPage(v) == /\ DOMAIN files = {}
             /\ v \in Atoms \/ (data = v /\ size = Length(v))
InTempFile(v) == data \in Names /\ size = Length(v) /\ DOMAIN files = {data} /\ files[data] = v
Laid(v) == IF InFile(v) THEN InTempFile(v) ELSE InPage(v)

\* A page whose file has been deleted reads as nil.
Released == /\ type = "eval" /\ data \in Names /\ ~(size < Room)
            /\ DOMAIN files = {} /\ stored = "nil"
Stable == \/ stored \in Values /\ type = TypeOf(stored) /\ Laid(stored)
          \/ Released

\* How far a process has got with the page.
PageWritten(p) ==
  /\ pc[p] \in Writing => arg[p] \in Values
  /\ pc[p] \in {"size", "data", "file"} => arg[p] \notin Atoms /\ DOMAIN files = {}
  /\ pc[p] \in {"data", "file"} => size = Length(arg[p])
  /\ pc[p] = "file" => InFile(arg[p]) /\ data \in Names
  /\ pc[p] = "type" => Laid(arg[p])
Seen(p) ==
  /\ pc[p] \in {"readSize", "readData"} => type \notin Atoms
  /\ pc[p] = "readSize" => tmp[p] = <<type>>
  /\ pc[p] = "readData" => tmp[p] = <<type, size>>

Page == /\ (\A p \in Procs : pc[p] \notin Writing) => Stable
        /\ \A p \in Procs : PageWritten(p) /\ Seen(p)

\* Appending to a sequence of one element makes the pair.
LEMMA Pair == \A a, b : Append(<<a>>, b) = <<a, b>>
<1>. SUFFICES ASSUME NEW a, NEW b PROVE Append(<<a>>, b) = <<a, b>> OBVIOUS
<1>1. /\ Append(<<a>>, b) \in Seq({a, b}) /\ Len(Append(<<a>>, b)) = 2
      /\ <<a, b>> \in Seq({a, b}) /\ Len(<<a, b>>) = 2 OBVIOUS
<1>2. Append(<<a>>, b)[1] = a /\ Append(<<a>>, b)[2] = b OBVIOUS
<1>3. \A i \in 1..Len(Append(<<a>>, b)) : Append(<<a>>, b)[i] = <<a, b>>[i] BY <1>1, <1>2
<1> QED BY <1>1, <1>3, SeqEqual

ShareInv == ShareTypes /\ Token /\ Page
----------------------------------------
(* The forms of a value. *)
\* The type word tells the form, and a text in a file is one that is too long.
LEMMA Forms ==
  ASSUME ShareAssumption, NEW v \in Values
  PROVE  /\ Length(v) \in Nat
         /\ v \in Atoms => TypeOf(v) = v /\ ~InFile(v)
         /\ v \in Numbers => TypeOf(v) = "number" /\ ~InFile(v)
         /\ v \in DOMAIN Texts => v \notin Atoms \cup Numbers
         /\ AsText(v) => TypeOf(v) = "string" /\ Length(v) <= Room /\ ~InFile(v)
         /\ InFile(v) => v \in DOMAIN Texts /\ TypeOf(v) = "eval" /\ ~(Length(v) < Room)
         /\ AsExpression(v) /\ ~InFile(v) => TypeOf(v) = "eval" /\ Length(v) < Room
         /\ v \in Atoms \/ v \in Numbers \/ AsText(v) \/ AsExpression(v)
<1>1. v \in DOMAIN Texts => Texts[v] \in Nat BY DEF ShareAssumption
<1>2. v \in DOMAIN Texts => Printed(v) \in Nat BY <1>1 DEF Printed
<1>3. Length(v) \in Nat BY <1>1, <1>2 DEF Length, AsText, AsExpression, ShareAssumption
<1>4. v \in DOMAIN Texts => v \notin Atoms \cup Numbers BY DEF ShareAssumption
<1>5. v \in Atoms \cup Numbers => ~AsText(v) /\ ~AsExpression(v) /\ ~InFile(v)
  BY <1>4 DEF AsText, AsExpression, InFile, ShareAssumption
<1>6. v \in Atoms => TypeOf(v) = v BY DEF TypeOf
<1>7. v \in Numbers => TypeOf(v) = "number" BY DEF TypeOf, ShareAssumption
<1>8. AsText(v) => v \in DOMAIN Texts /\ TypeOf(v) = "string" /\ Length(v) <= Room /\ ~InFile(v)
  BY <1>1, <1>4 DEF AsText, AsExpression, InFile, TypeOf, Length, ShareAssumption
<1>9. AsExpression(v) => TypeOf(v) = "eval" /\ Length(v) = Printed(v)
  BY <1>4 DEF AsExpression, TypeOf, Length
<1>10. v \in Atoms \/ v \in Numbers \/ AsText(v) \/ AsExpression(v) BY DEF AsExpression, Values
<1>11. InFile(v) => v \in DOMAIN Texts /\ AsExpression(v) /\ ~(Printed(v) < Room)
  BY DEF InFile, AsExpression
<1>12. AsExpression(v) /\ ~InFile(v) => Printed(v) < Room BY DEF InFile
<1> QED BY <1>3, <1>4, <1>5, <1>6, <1>7, <1>8, <1>9, <1>10, <1>11, <1>12

\* Where the page is at rest, deleting the file of the value leaves no file.
LEMMA Cleared ==
  ASSUME ShareAssumption, Stable
  PROVE  DOMAIN checkDeleteShareFile(files) = {}
<1>1. CASE DOMAIN files = {} BY <1>1 DEF checkDeleteShareFile
<1>2. CASE stored \in Values /\ InFile(stored) /\ type = TypeOf(stored) /\ Laid(stored)
  <2>1. type = "eval" /\ DOMAIN files = {data} BY <1>2, Forms DEF Laid, InTempFile
  <2>2. DOMAIN checkDeleteShareFile(files) = DOMAIN files \ {data}
    BY <2>1 DEF checkDeleteShareFile
  <2> QED BY <2>1, <2>2
<1> QED BY <1>1, <1>2 DEF Stable, Released, Laid, InPage

\* There is nothing to delete when there is no file.
LEMMA NothingToDelete ==
  ASSUME DOMAIN files = {}
  PROVE  checkDeleteShareFile(files) = files
BY DEF checkDeleteShareFile
----------------------------------------
(* Steps. *)
\* All the other processes are outside, where they have nothing to do with the page.
LEMMA Alone ==
  ASSUME ShareInv, NEW p \in Holders, NEW q \in Procs, q # p
  PROVE  pc[q] \in {"run", "wait", "ended"}
BY DEF ShareInv, ShareTypes, Token, Holders

\* A step of the process inside.
LEMMA InsideStep ==
  ASSUME ShareInv, NEW p \in Holders, NEW l \in Steps \ {"run", "wait", "ended"},
         pc' = [pc EXCEPT ![p] = l], semaphore' \in {semaphore, Removed},
         ShareTypes', l \notin Writing => Stable', PageWritten(p)', Seen(p)'
  PROVE  ShareInv'
<1>1. /\ p \in Procs /\ pc'[p] = l
      /\ \A q \in Procs : q # p => pc'[q] = pc[q] /\ pc[q] \in {"run", "wait", "ended"}
  BY Alone DEF ShareInv, ShareTypes, Holders
<1>2. Holders' = Holders BY <1>1 DEF Holders
<1>3. Token' BY <1>2 DEF ShareInv, Token, Removed
<1>4. \A q \in Procs : q # p => PageWritten(q)' /\ Seen(q)' BY <1>1 DEF PageWritten, Seen, Writing
<1>5. Page' BY <1>1, <1>4 DEF Page
<1> QED BY <1>3, <1>5 DEF ShareInv

\* A process comes in, goes out or stays outside: the page is at rest.
LEMMA OutsideStep ==
  ASSUME ShareInv, NEW p \in Procs, NEW l \in {"run", "wait", "holding", "ended"},
         pc' = [pc EXCEPT ![p] = l], ShareTypes', Token',
         pc[p] \in {"signal", "run", "wait"},
         UNCHANGED <<page, mapped, files, made, arg, tmp, stored>>
  PROVE  ShareInv'
<1>1. pc'[p] = l /\ \A q \in Procs : q # p => pc'[q] = pc[q] BY DEF ShareInv, ShareTypes
<1>2. \A q \in Procs : PageWritten(q)' /\ Seen(q)'
  <2>1. ASSUME NEW q \in Procs, q # p PROVE PageWritten(q)' /\ Seen(q)'
    <3>1. PageWritten(q) /\ Seen(q) BY DEF ShareInv, Page
    <3> QED BY <1>1, <2>1, <3>1 DEF PageWritten, Seen, page, Laid, InPage, InTempFile
  <2>2. PageWritten(p)' /\ Seen(p)' BY <1>1 DEF PageWritten, Seen, Writing
  <2> QED BY <2>1, <2>2
<1>3. (\A q \in Procs : pc'[q] \notin Writing) => Stable'
  <2>1. (\A q \in Procs : pc'[q] \notin Writing) => \A q \in Procs : pc[q] \notin Writing
    BY <1>1 DEF Writing
  <2>2. Stable => Stable' BY DEF Stable, Released, Laid, InPage, InTempFile, page
  <2> QED BY <2>1, <2>2 DEF ShareInv, Page
<1> QED BY <1>2, <1>3 DEF ShareInv, Page

\* One process waits, signals or takes the token.
LEMMA SemaphoreInv ==
  ASSUME ShareInv, NEW p \in Procs, Signal(p) \/ Begin(p) \/ Wait(p) \/ WaitFails(p)
  PROVE  ShareInv'
<1>1. ShareTypes BY DEF ShareInv
<1>2. CASE Signal(p)
  <2>1. pc[p] = "signal" /\ p \in Holders /\ Holders = {p}
    BY <1>2 DEF Signal, Holders, ShareInv, Token
  <2>2. Holders' = {} BY <1>1, <1>2, <2>1 DEF Signal, MoveTo, Holders, ShareTypes
  <2>3. semaphore \in {Removed, 0} BY <1>1, <2>1 DEF ShareInv, Token, ShareTypes
  <2>4. ShareTypes' BY <1>1, <1>2, <2>3 DEF Signal, MoveTo, ShareTypes, Steps, Removed, page
  <2>5. Token' BY <2>2 DEF Token
  <2>6. pc' = [pc EXCEPT ![p] = "run"] /\ UNCHANGED <<page, mapped, files, made, arg, tmp, stored>>
    BY <1>2 DEF Signal, MoveTo
  <2> QED BY <2>1, <2>4, <2>5, <2>6, OutsideStep
<1>3. CASE Begin(p)
  <2>1. /\ pc[p] = "run" /\ pc' = [pc EXCEPT ![p] = "wait"]
        /\ UNCHANGED <<page, mapped, files, made, arg, tmp, stored, semaphore, result>>
    BY <1>3 DEF Begin, MoveTo
  <2>2. ShareTypes' BY <1>1, <2>1 DEF ShareTypes, Steps, page
  <2>3. Holders' = Holders BY <1>1, <2>1 DEF ShareTypes, Holders
  <2>4. Token' BY <2>1, <2>3 DEF ShareInv, Token
  <2> QED BY <2>1, <2>2, <2>4, OutsideStep
<1>4. CASE Wait(p)
  <2>1. /\ pc[p] = "wait" /\ pc' = [pc EXCEPT ![p] = "holding"]
        /\ UNCHANGED <<page, mapped, files, made, arg, tmp, stored, result>>
    BY <1>4 DEF Wait, MoveTo
  <2>2. semaphore = 1 /\ semaphore' = 0 BY <1>1, <1>4 DEF Wait, ShareTypes, Removed
  <2>3. ShareTypes' BY <1>1, <2>1, <2>2 DEF ShareTypes, Steps, page
  <2>4. Holders = {} /\ Holders' = {p}
    BY <1>1, <2>1, <2>2 DEF ShareInv, Token, ShareTypes, Holders
  <2>5. Token' BY <2>2, <2>4 DEF Token
  <2> QED BY <2>1, <2>3, <2>5, OutsideStep
<1>5. CASE WaitFails(p)
  <2>1. /\ pc[p] = "wait" /\ pc' = [pc EXCEPT ![p] = "ended"]
        /\ result' = [result EXCEPT ![p] = "nil"]
        /\ UNCHANGED <<page, mapped, files, made, arg, tmp, stored, semaphore>>
    BY <1>5 DEF WaitFails, MoveTo
  <2>2. ShareTypes' BY <1>1, <2>1 DEF ShareTypes, Steps, page
  <2>3. Holders' = Holders BY <1>1, <2>1 DEF ShareTypes, Holders
  <2>4. Token' BY <2>1, <2>3 DEF ShareInv, Token
  <2> QED BY <2>1, <2>2, <2>4, OutsideStep
<1> QED BY <1>2, <1>3, <1>4, <1>5

\* The process inside removes the semaphore, returns from share or goes on to
\* signal: it leaves the page as it is.
LEMMA RestInv ==
  ASSUME ShareInv, NEW p \in Procs, RemoveSemaphore(p) \/ Done(p)
  PROVE  ShareInv'
<1>. DEFINE l == IF pc[p] = "holding" THEN "done" ELSE "signal"
<1>1. /\ pc[p] \in {"holding", "done"} /\ pc' = [pc EXCEPT ![p] = l]
      /\ semaphore' \in {semaphore, Removed}
      /\ result' = result \/ result' = [result EXCEPT ![p] = "true"]
      /\ UNCHANGED <<page, mapped, files, made, arg, tmp, stored>>
  BY DEF RemoveSemaphore, Done, Return, MoveTo
<1>2. p \in Holders /\ l \in Steps \ {"run", "wait", "ended"} /\ l \notin Writing \cup {"readSize", "readData"}
  BY <1>1 DEF Holders, Steps, Writing
<1>. HIDE DEF l
<1>3. ShareTypes' BY <1>1, <1>2 DEF ShareInv, ShareTypes, Removed, page
<1>4. Stable
  <2>1. \A q \in Procs : pc[q] \notin Writing BY <1>1, <1>2, Alone DEF Writing
  <2> QED BY <2>1 DEF ShareInv, Page
<1>5. Stable' BY <1>1, <1>4 DEF Stable, Released, Laid, InPage, InTempFile, page
<1>6. pc'[p] = l BY <1>1 DEF ShareInv, ShareTypes
<1>7. PageWritten(p)' /\ Seen(p)' BY <1>2, <1>6 DEF PageWritten, Seen, Writing
<1> QED BY <1>1, <1>2, <1>3, <1>5, <1>7, InsideStep

\* Where the process inside is not writing, the page is at rest.
LEMMA AtRest ==
  ASSUME ShareInv, NEW p \in Holders, pc[p] \notin Writing
  PROVE  Stable
<1>1. \A q \in Procs : pc[q] \notin Writing BY Alone DEF Writing
<1> QED BY <1>1 DEF ShareInv, Page

\* A writer: the old value's file goes, then size, data, file and, last, type.
LEMMA WriteInv ==
  ASSUME ShareAssumption, ShareInv, NEW p \in Procs, Write(p)
  PROVE  ShareInv'
<1>1. ShareTypes /\ PageWritten(p) /\ Seen(p) BY DEF ShareInv, Page
<1>2. ASSUME NEW v \in Values, WriteBegin(p, v) PROVE ShareInv'
  <2>. DEFINE l == IF v \in Atoms THEN "type" ELSE "size"
  <2>1. /\ pc[p] = "holding" /\ p \in Holders /\ pc' = [pc EXCEPT ![p] = l]
        /\ arg' = [arg EXCEPT ![p] = v] /\ files' = checkDeleteShareFile(files)
        /\ UNCHANGED <<type, size, data, semaphore, tmp, result, stored>>
    BY <1>2 DEF WriteBegin, MoveTo, Holders, page
  <2>2. l \in Steps \ {"run", "wait", "ended"} /\ l \in Writing \ {"data", "file"}
        /\ (l = "type" <=> v \in Atoms) BY DEF Steps, Writing
  <2>. HIDE DEF l
  <2>3. DOMAIN files' = {}
    <3>1. Stable BY <2>1, AtRest DEF Writing
    <3> QED BY <2>1, <3>1, Cleared
  <2>4. pc'[p] = l /\ arg'[p] = v BY <1>1, <2>1 DEF ShareTypes
  <2>5. ShareTypes' BY <1>1, <2>1, <2>2 DEF ShareTypes
  <2>6. l = "type" => Laid(v)'
    <3>1. l = "type" => v \in Atoms /\ ~InFile(v) BY <2>2, Forms
    <3>2. InFile(v)' = InFile(v) BY DEF InFile, AsExpression, AsText, Printed
    <3> QED BY <2>3, <3>1, <3>2 DEF Laid, InPage
  <2>7. PageWritten(p)'
    <3>1. Laid(arg[p])' = Laid(v)'
      BY <2>4 DEF Laid, InPage, InTempFile, InFile, AsExpression, AsText, Printed, Length
    <3> QED BY <2>2, <2>3, <2>4, <2>6, <3>1 DEF PageWritten, Writing
  <2>8. Seen(p)' BY <2>2, <2>4 DEF Seen, Writing
  <2> QED BY <2>1, <2>2, <2>5, <2>7, <2>8, InsideStep
<1>3. CASE WriteSize(p)
  <2>1. /\ pc[p] = "size" /\ p \in Holders /\ pc' = [pc EXCEPT ![p] = "data"]
        /\ size' = Length(arg[p])
        /\ UNCHANGED <<type, data, files, semaphore, arg, tmp, result, stored>>
    BY <1>3 DEF WriteSize, MoveTo, Holders
  <2>2. /\ arg[p] \in Values /\ arg[p] \notin Atoms /\ DOMAIN files = {} /\ Length(arg[p]) \in Nat
    BY <1>1, <2>1, Forms DEF PageWritten, Writing
  <2>3. pc'[p] = "data" BY <1>1, <2>1 DEF ShareTypes
  <2>4. ShareTypes' BY <1>1, <2>1, <2>2 DEF ShareTypes, Steps
  <2>5. PageWritten(p)' /\ Seen(p)'
    BY <2>1, <2>2, <2>3 DEF PageWritten, Seen, Length, AsExpression, AsText, Printed
  <2>6. "data" \in Steps \ {"run", "wait", "ended"} /\ "data" \in Writing BY DEF Steps, Writing
  <2> QED BY <2>1, <2>4, <2>5, <2>6, InsideStep
<1>4. CASE WriteData(p)
  <2>1. /\ pc[p] = "data" /\ p \in Holders
        /\ UNCHANGED <<type, size, semaphore, arg, tmp, result, stored>>
    BY <1>4 DEF WriteData, Holders
  <2>2. /\ arg[p] \in Values /\ arg[p] \notin Atoms /\ DOMAIN files = {} /\ size = Length(arg[p])
    BY <1>1, <2>1 DEF PageWritten, Writing
  <2>3. CASE InFile(arg[p])
    <3>1. pc' = [pc EXCEPT ![p] = "file"] /\ data' \in Names /\ files' = files
      BY <1>4, <2>2, <2>3, NothingToDelete DEF WriteData, MoveTo
    <3>2. pc'[p] = "file" BY <1>1, <3>1 DEF ShareTypes
    <3>3. ShareTypes' BY <1>1, <2>1, <3>1 DEF ShareTypes, Steps
    <3>4. PageWritten(p)' /\ Seen(p)'
      BY <2>1, <2>2, <2>3, <3>1, <3>2 DEF PageWritten, Seen, InFile, Length, AsExpression, AsText, Printed
    <3>5. "file" \in Steps \ {"run", "wait", "ended"} /\ "file" \in Writing BY DEF Steps, Writing
    <3> QED BY <2>1, <3>1, <3>3, <3>4, <3>5, InsideStep
  <2>4. CASE ~InFile(arg[p])
    <3>1. pc' = [pc EXCEPT ![p] = "type"] /\ data' = arg[p] /\ files' = files
      BY <1>4, <2>4 DEF WriteData, MoveTo
    <3>2. pc'[p] = "type" BY <1>1, <3>1 DEF ShareTypes
    <3>3. ShareTypes' BY <1>1, <2>1, <3>1 DEF ShareTypes, Steps
    <3>4. Laid(arg[p])'
      BY <2>1, <2>2, <2>4, <3>1 DEF Laid, InPage, InFile, Length, AsExpression, AsText, Printed
    <3>5. PageWritten(p)' /\ Seen(p)' BY <2>1, <2>2, <3>2, <3>4 DEF PageWritten, Seen
    <3>6. "type" \in Steps \ {"run", "wait", "ended"} /\ "type" \in Writing BY DEF Steps, Writing
    <3> QED BY <2>1, <3>1, <3>3, <3>5, <3>6, InsideStep
  <2> QED BY <2>3, <2>4
<1>5. CASE WriteFile(p)
  <2>1. /\ pc[p] = "file" /\ p \in Holders /\ pc' = [pc EXCEPT ![p] = "type"]
        /\ files' = [f \in DOMAIN files \cup {data} |-> IF f = data THEN arg[p] ELSE files[f]]
        /\ UNCHANGED <<type, size, data, semaphore, arg, tmp, result, stored>>
    BY <1>5 DEF WriteFile, MoveTo, Holders, page
  <2>2. /\ arg[p] \in Values /\ DOMAIN files = {} /\ size = Length(arg[p])
        /\ InFile(arg[p]) /\ data \in Names BY <1>1, <2>1 DEF PageWritten, Writing
  <2>3. pc'[p] = "type" BY <1>1, <2>1 DEF ShareTypes
  <2>4. ShareTypes' BY <1>1, <2>1 DEF ShareTypes, Steps
  <2>5. DOMAIN files' = {data} /\ files'[data] = arg[p] BY <2>1, <2>2
  <2>6. Laid(arg[p])'
    BY <2>1, <2>2, <2>5 DEF Laid, InTempFile, InFile, Length, AsExpression, AsText, Printed
  <2>7. PageWritten(p)' /\ Seen(p)' BY <2>1, <2>2, <2>3, <2>6 DEF PageWritten, Seen
  <2>8. "type" \in Steps \ {"run", "wait", "ended"} /\ "type" \in Writing BY DEF Steps, Writing
  <2> QED BY <2>1, <2>4, <2>7, <2>8, InsideStep
<1>6. CASE WriteType(p)
  <2>1. /\ pc[p] = "type" /\ p \in Holders /\ pc' = [pc EXCEPT ![p] = "done"]
        /\ type' = TypeOf(arg[p]) /\ stored' = arg[p] /\ result' = [result EXCEPT ![p] = arg[p]]
        /\ UNCHANGED <<size, data, files, semaphore, arg, tmp>>
    BY <1>6 DEF WriteType, Return, MoveTo, Holders
  <2>2. arg[p] \in Values /\ Laid(arg[p]) BY <1>1, <2>1 DEF PageWritten, Writing
  <2>3. pc'[p] = "done" BY <1>1, <2>1 DEF ShareTypes
  <2>4. ShareTypes' BY <1>1, <2>1 DEF ShareTypes, Steps
  <2>5. Stable'
    BY <2>1, <2>2 DEF Stable, Laid, InPage, InTempFile, TypeOf, InFile, Length, AsExpression, AsText, Printed
  <2>6. PageWritten(p)' /\ Seen(p)' BY <2>3 DEF PageWritten, Seen, Writing
  <2>7. "done" \in Steps \ {"run", "wait", "ended"} /\ "done" \notin Writing BY DEF Steps, Writing
  <2> QED BY <2>1, <2>4, <2>5, <2>6, <2>7, InsideStep
<1> QED BY <1>2, <1>3, <1>4, <1>5, <1>6 DEF Write

\* A reader keeps the words it has read, and nobody changes them meanwhile.
LEMMA ReadInv ==
  ASSUME ShareInv, NEW p \in Procs, Read(p)
  PROVE  ShareInv'
<1>. DEFINE l == IF pc[p] = "readSize" THEN "readData"
                 ELSE IF pc[p] = "holding" /\ type \notin Atoms THEN "readSize" ELSE "done"
<1>1. ShareTypes /\ PageWritten(p) /\ Seen(p) BY DEF ShareInv, Page
<1>2. /\ pc[p] \in {"holding", "readSize", "readData"} /\ pc' = [pc EXCEPT ![p] = l]
      /\ result' = result \/ \E r : result' = [result EXCEPT ![p] = r]
      /\ tmp' = tmp \/ \E r : tmp' = [tmp EXCEPT ![p] = r]
      /\ l = "readSize" => tmp' = [tmp EXCEPT ![p] = <<type>>]
      /\ l = "readData" => tmp' = [tmp EXCEPT ![p] = Append(@, size)]
      /\ UNCHANGED <<page, mapped, files, made, semaphore, arg, stored>>
  BY DEF Read, ReadType, ReadSize, ReadData, Return, MoveTo
<1>3. p \in Holders /\ l \in Steps \ {"run", "wait", "ended"} /\ l \notin Writing
  BY <1>2 DEF Holders, Steps, Writing
<1>4. l \in {"readSize", "readData"} => type \notin Atoms BY <1>1, <1>2 DEF Seen
<1>5. l = "readData" => tmp[p] = <<type>> BY <1>1, <1>2 DEF Seen
<1>. HIDE DEF l
<1>6. ShareTypes' BY <1>1, <1>2, <1>3 DEF ShareTypes, page
<1>7. Stable BY <1>2, <1>3, AtRest DEF Writing
<1>8. Stable' BY <1>2, <1>7 DEF Stable, Released, Laid, InPage, InTempFile, page
<1>9. pc'[p] = l /\ (l = "readSize" => tmp'[p] = <<type>>)
      /\ (l = "readData" => tmp'[p] = <<type, size>>)
  <2>1. pc'[p] = l BY <1>1, <1>2 DEF ShareTypes
  <2>2. DOMAIN tmp = Procs BY <1>1 DEF ShareTypes
  <2>3. l = "readSize" => tmp'[p] = <<type>> BY <1>2, <2>2
  <2>4. Append(<<type>>, size) = <<type, size>> BY Pair
  <2>5. l = "readData" => tmp'[p] = Append(tmp[p], size) BY <1>2, <2>2
  <2> QED BY <1>5, <2>1, <2>3, <2>4, <2>5
<1>10. PageWritten(p)' /\ Seen(p)' BY <1>2, <1>3, <1>4, <1>9 DEF PageWritten, Seen, Writing, page
<1> QED BY <1>2, <1>3, <1>6, <1>8, <1>10, InsideStep

\* Releasing deletes the file; the page that still names it reads as nil.
LEMMA ReleaseInv ==
  ASSUME ShareAssumption, ShareInv, NEW p \in Procs, Release(p)
  PROVE  ShareInv'
<1>1. /\ pc[p] = "holding" /\ p \in Holders /\ pc' = [pc EXCEPT ![p] = "done"]
      /\ files' = checkDeleteShareFile(files)
      /\ stored' = IF files' = files THEN stored ELSE "nil"
      /\ result' = [result EXCEPT ![p] = "true"]
      /\ UNCHANGED <<type, size, data, semaphore, arg, tmp>>
  BY DEF Release, Return, MoveTo, Holders, page
<1>2. "done" \in Steps \ {"run", "wait", "ended"} /\ "done" \notin Writing BY DEF Steps, Writing
<1>3. ShareTypes BY DEF ShareInv
<1>4. ShareTypes' BY <1>1, <1>2, <1>3 DEF ShareTypes
<1>5. Stable BY <1>1, AtRest DEF Writing
<1>6. Stable'
  <2>1. CASE DOMAIN files = {}
    <3>1. files' = files /\ stored' = stored BY <1>1, <2>1, NothingToDelete
    <3> QED BY <1>1, <1>5, <3>1 DEF Stable, Released, Laid, InPage, InTempFile
  <2>2. CASE DOMAIN files # {}
    <3>1. stored \in Values /\ InFile(stored) /\ type = TypeOf(stored) /\ InTempFile(stored)
      BY <1>5, <2>2 DEF Stable, Released, Laid, InPage
    <3>2. type = "eval" /\ data \in Names /\ ~(size < Room) BY <3>1, Forms DEF InTempFile
    <3>3. DOMAIN files' = {} /\ files' # files BY <1>1, <1>5, <2>2, Cleared
    <3>4. stored' = "nil" BY <1>1, <3>3
    <3> QED BY <1>1, <3>2, <3>3, <3>4 DEF Stable, Released
  <2> QED BY <2>1, <2>2
<1>7. pc'[p] = "done" BY <1>1, <1>3 DEF ShareTypes
<1>8. PageWritten(p)' /\ Seen(p)' BY <1>7 DEF PageWritten, Seen, Writing
<1> QED BY <1>1, <1>2, <1>4, <1>6, <1>8, InsideStep

\* A process that maps a page of zeroes reads nil.
LEMMA ShareInitInv == ASSUME ShareAssumption, ShareInit PROVE ShareInv
<1>1. ShareTypes BY DEF ShareInit, ShareTypes, Steps, Removed
<1>2. Token BY DEF ShareInit, Token, Holders
<1>3. Stable
  <2>1. "nil" \in Values /\ "nil" \in Atoms BY DEF ShareAssumption, Values
  <2>2. TypeOf("nil") = "nil" /\ ~InFile("nil") BY <2>1, Forms
  <2> QED BY <2>1, <2>2 DEF ShareInit, Stable, Laid, InPage
<1>4. \A p \in Procs : PageWritten(p) /\ Seen(p) BY DEF ShareInit, PageWritten, Seen, Writing
<1> QED BY <1>1, <1>2, <1>3, <1>4 DEF ShareInv, Page

\* Every step keeps the invariant.
LEMMA ShareStepInv == ASSUME ShareAssumption, ShareInv, [ShareNext]_shareVars PROVE ShareInv'
<1>1. CASE UNCHANGED shareVars
  <2>1. ShareTypes' /\ Token' BY <1>1 DEF ShareInv, ShareTypes, Token, Holders, shareVars, page
  <2>2. Stable => Stable' BY <1>1 DEF Stable, Released, Laid, InPage, InTempFile, shareVars, page
  <2>3. \A p \in Procs : PageWritten(p) /\ Seen(p) => PageWritten(p)' /\ Seen(p)'
    BY <1>1 DEF PageWritten, Seen, Laid, InPage, InTempFile, shareVars, page
  <2>4. pc' = pc BY <1>1 DEF shareVars
  <2> QED BY <2>1, <2>2, <2>3, <2>4 DEF ShareInv, Page
<1> QED BY <1>1, SemaphoreInv, RestInv, WriteInv, ReadInv, ReleaseInv DEF ShareNext

\* The invariant holds in every state.
LEMMA ShareInductive == ASSUME ShareAssumption PROVE ShareSpec => []ShareInv
<1>1. ShareInit => ShareInv BY ShareInitInv
<1>2. ShareInv /\ [ShareNext]_shareVars => ShareInv' BY ShareStepInv
<1> QED BY <1>1, <1>2, PTL DEF ShareSpec
----------------------------------------
(* Theorems. *)
\* One process at a time is between its wait and its signal; texts in the page
\* end before it does; and a temporary file is on disk exactly while the page
\* names it (p_semaphore, readWriteShared, checkDeleteShareFile).
THEOREM PageKept == ASSUME ShareAssumption PROVE ShareSpec => []PageExact
<1>1. ASSUME ShareInv PROVE OneInside
  <2>1. Inside \subseteq Holders BY DEF Inside, Holders
  <2>2. CASE Inside = {} BY <2>2, FS_EmptySet DEF OneInside
  <2>3. CASE Inside # {}
    <3>1. PICK p \in Inside : TRUE BY <2>3
    <3>2. Inside = {p} BY <1>1, <2>1, <3>1 DEF ShareInv, Token
    <3>3. Cardinality(Inside) = 1 BY <3>2, FS_Singleton
    <3> QED BY <3>3 DEF OneInside
  <2> QED BY <2>2, <2>3
<1>2. ASSUME ShareInv, Inside = {} PROVE Stable
  <2>1. \A p \in Procs : pc[p] \notin Writing BY <1>2 DEF Inside, Writing
  <2> QED BY <1>2, <2>1 DEF ShareInv, Page
<1>3. ASSUME ShareInv PROVE TextFits
  <2>. SUFFICES ASSUME Inside = {}, data \in DOMAIN Texts, type \in {"string", "eval"}
                PROVE  2 * Word + size + 1 <= Room + 3 * Word BY DEF TextFits
  <2>1. Stable /\ data \notin Names /\ size \in Nat /\ Word \in Nat \ {0} /\ Room \in Nat
    BY <1>2, <1>3 DEF ShareAssumption, ShareInv, ShareTypes
  <2>2. stored \in Values /\ type = TypeOf(stored) /\ ~InFile(stored) /\ InPage(stored)
    BY <2>1 DEF Stable, Released, Laid, InTempFile
  <2>3. stored \notin Atoms /\ stored \notin Numbers BY <2>2, Forms DEF ShareAssumption
  <2>4. size = Length(stored) /\ Length(stored) <= Room BY <2>1, <2>2, <2>3, Forms DEF InPage
  <2> QED BY <2>1, <2>4
<1>4. ASSUME ShareInv PROVE FilesExact
  <2>. SUFFICES ASSUME Inside = {}
                PROVE  DOMAIN files = IF type = "eval" /\ data \in Names /\ stored # "nil"
                                        THEN {data} ELSE {} BY DEF FilesExact
  <2>1. Stable /\ "nil" \in Atoms /\ Names \cap DOMAIN Texts = {}
    BY <1>2, <1>4 DEF ShareAssumption
  <2>2. CASE Released BY <2>2 DEF Released
  <2>3. CASE stored \in Values /\ type = TypeOf(stored) /\ Laid(stored)
    <3>1. CASE InFile(stored)
      <4>1. stored # "nil" /\ type = "eval" BY <2>1, <2>3, <3>1, Forms
      <4> QED BY <2>3, <3>1, <4>1 DEF Laid, InTempFile
    <3>2. CASE ~InFile(stored)
      <4>1. DOMAIN files = {} /\ (stored \in Atoms \/ data = stored)
        BY <2>3, <3>2 DEF Laid, InPage
      <4>2. type = "eval" => stored \in DOMAIN Texts
        BY <2>3, Forms DEF ShareAssumption, AsExpression, AsText
      <4> QED BY <2>1, <2>3, <4>1, <4>2, Forms
    <3> QED BY <3>1, <3>2
  <2> QED BY <2>1, <2>2, <2>3 DEF Stable
<1>5. ShareInv => PageExact BY <1>1, <1>3, <1>4 DEF PageExact
<1>6. ShareSpec => []ShareInv BY ShareInductive
<1> QED BY <1>5, <1>6, PTL

\* A reader gets the value written last, in whichever form it was written, and
\* never parts of two (readWriteShared, readWriteSharedExpression).
THEOREM ReadersSeeWholeValues == ASSUME ShareAssumption PROVE ShareSpec => ReadsWhole
<1>1. ASSUME ShareInv, NEW p \in Procs, ReadType(p) \/ ReadData(p), pc'[p] = "done"
      PROVE  result'[p] = stored
  <2>1. p \in Holders /\ pc[p] \notin Writing /\ ShareTypes /\ Seen(p)
    BY <1>1 DEF ReadType, ReadData, Holders, Writing, ShareInv, Page
  <2>2. Stable BY <1>1, <2>1, AtRest
  <2>3. CASE ReadType(p)
    <3>1. type \in Atoms /\ result'[p] = type
      BY <1>1, <2>1, <2>3 DEF ReadType, Return, MoveTo, ShareTypes
    <3>2. stored \in Values /\ type = TypeOf(stored)
      BY <2>2, <3>1 DEF Stable, Released, ShareAssumption
    <3>3. stored \in Atoms BY <3>1, <3>2, Forms DEF ShareAssumption
    <3> QED BY <3>1, <3>2, <3>3, Forms
  <2>4. CASE ReadData(p)
    <3>1. /\ pc[p] = "readData" /\ tmp[p] = <<type, size>> /\ type \notin Atoms
      BY <2>1, <2>4 DEF ReadData, Seen
    <3>2. tmp[p][1] = type /\ tmp[p][2] = size BY <3>1
    <3>3. result'[p] = IF type = "eval" /\ ~(size < Room)
                         THEN (IF data \in DOMAIN files THEN files[data] ELSE "nil")
                         ELSE Decode(type, size, data)
      BY <2>1, <2>4, <3>2 DEF ReadData, Return, MoveTo, ShareTypes
    <3>4. CASE Released BY <3>3, <3>4 DEF Released
    <3>5. CASE stored \in Values /\ type = TypeOf(stored) /\ Laid(stored)
      <4>1. stored \notin Atoms BY <3>1, <3>5, Forms
      <4>2. CASE InFile(stored) BY <3>3, <3>5, <4>2, Forms DEF Laid, InTempFile
      <4>3. CASE ~InFile(stored)
        <5>1. data = stored /\ size = Length(stored) BY <3>5, <4>1, <4>3 DEF Laid, InPage
        <5>2. ~(type = "eval" /\ ~(size < Room))
          BY <3>5, <4>1, <4>3, <5>1, Forms DEF ShareAssumption
        <5>3. Decode(type, size, data) = stored
          <6>1. CASE stored \in Numbers BY <3>5, <5>1, <6>1, Forms DEF Decode
          <6>2. CASE stored \notin Numbers
            <7>1. stored \in DOMAIN Texts /\ type # "number"
              BY <3>5, <4>1, <4>3, <6>2, Forms DEF Values
            <7> QED BY <3>5, <5>1, <7>1 DEF Decode
          <6> QED BY <6>1, <6>2
        <5> QED BY <3>3, <5>2, <5>3
      <4> QED BY <4>2, <4>3
    <3> QED BY <2>2, <3>4, <3>5 DEF Stable
  <2> QED BY <1>1, <2>3, <2>4
<1>2. ShareInv /\ [ShareNext]_shareVars =>
        [\A p \in Procs : (ReadType(p) \/ ReadData(p)) /\ pc'[p] = "done" => result'[p] = stored]_shareVars
  BY <1>1
<1>3. ShareSpec => []ShareInv BY ShareInductive
<1> QED BY <1>2, <1>3, PTL DEF ShareSpec, ReadsWhole

----------------------------------------
(* Messages between parent and child: channels keep their types, and sends *)
(* and receives that interleave piece by piece, with processes that end in *)
(* the middle, implement queues of whole messages. *)

(* A stream is sound when each piece follows the one before it.  Three *)
(* facts that follow by induction are part of it, as invariants: messages *)
(* stand in the order of their numbers, one message has one size, and of *)
(* every message before a piece's own the end is in the stream. *)
Follows(a, b) == IF a.part < a.size THEN b = Piece(a.msg, a.part + 1, a.size)
                                    ELSE b.msg = a.msg + 1 /\ b.part = 0
Sound(s) ==
  /\ s \in Seq(Pieces)
  /\ \A i \in DOMAIN s : s[i].part <= s[i].size
  /\ \A i \in DOMAIN s : i + 1 \in DOMAIN s => Follows(s[i], s[i + 1])
  /\ \A i, j \in DOMAIN s : i < j => s[i].msg <= s[j].msg
  /\ \A i, j \in DOMAIN s : s[i].msg = s[j].msg => s[i].size = s[j].size
  /\ \A i \in DOMAIN s : (s[1].msg)..(s[i].msg - 1) \subseteq Whole(s)

\* What the user of port q reads at it, or writes to its other end.
Reader(q) == IF op[User(q)].at = "read" /\ op[User(q)].port = q THEN op[User(q)] ELSE Idle
Writer(q) == IF op[User(q)].at = "write" /\ op[User(q)].port = q THEN op[User(q)] ELSE Idle

(* What passes to a reader r at an open or closed port with stream s, from *)
(* a writer w that has begun n messages; up says that both ends are open. *)
\* The writer's last piece is the last of the stream, an end if it is at rest.
WriterAt(s, w, n, up) ==
  up /\ s # <<>> => LET last == s[Len(s)] IN
    /\ last.msg = n
    /\ IF w.at = "write" THEN last = Piece(n, Len(w.text), w.size) ELSE last.part = last.size
\* The reader has the first pieces of a message; the next one is at the head
\* of the stream, or the writer has it still.
ReaderAt(s, r, w, n, up) ==
  IF r.at = "read"
  THEN \E m \in 1..MaxSent :
         /\ r.text = [k \in 1..Len(r.text) |-> Piece(m, k, r.size)]
         /\ s # <<>> => s[1] = Piece(m, Len(r.text) + 1, r.size)
         /\ up /\ s = <<>> => /\ m = n /\ w.at = "write"
                              /\ Len(w.text) = Len(r.text) /\ w.size = r.size
  ELSE s # <<>> => s[1].part = 0
Flows(s, r, w, n, up) ==
  /\ Sound(s) /\ WriterAt(s, w, n, up) /\ ReaderAt(s, r, w, n, up)
  /\ up /\ s = <<>> /\ w.at = "write" => r.at = "read"

Flow(q) == Flows(stream[q], Reader(q), Writer(Peer(q)), sent[Peer(q)],
                 isOpen[q] /\ isOpen[Peer(q)])

\* What process p is doing, it does at a port of its own that was opened.
Doable(p) ==
  op[p] # Idle =>
    /\ op[p].port \in Ports /\ User(op[p].port) = p /\ op[p].size \in Sizes
    /\ state[op[p].port[1]] # "none"
    /\ Len(op[p].text) < op[p].size
    /\ op[p].at = "evaluate" => op[p].text = <<>> /\ sent[op[p].port] < MaxSent
    /\ op[p].at # "idle"

\* A port is opened once, and what is listed has been spawned.
Unborn == /\ \A q \in Ports : state[q[1]] = "none" => ~isOpen[q] /\ ~isOpen[Peer(q)]
          /\ \A c \in listed : state[c] # "none"

\* ChannelsTyped with what makes it inductive, and the flow at every port.
Shape == ChannelsTyped /\ Unborn /\ \A p \in Processes : Doable(p)
MessageInv == Shape /\ \A q \in Ports : Flow(q)
----------------------------------------
(* Sound streams. *)
\* The fields of a piece.
LEMMA Fields ==
  \A n, k, s : Piece(n, k, s).msg = n /\ Piece(n, k, s).part = k /\ Piece(n, k, s).size = s
  BY DEF Piece

\* The numbers among the constants.
LEMMA Positive ==
  ASSUME MessagesAssumption
  PROVE  MaxSent \in Nat /\ \A k \in Sizes : k \in Nat /\ k > 0
<1>1. \A k \in Sizes : k \in Nat /\ k > 0 BY DEF MessagesAssumption
<1> QED BY <1>1 DEF MessagesAssumption

\* The fields of a piece.
LEMMA PieceFields ==
  ASSUME MessagesAssumption, NEW b \in Pieces
  PROVE  /\ b.msg \in Nat /\ b.msg \in 1..MaxSent /\ b.part \in Nat
         /\ b.size \in Nat /\ b.size > 0 /\ b.size \in Sizes
         /\ b = Piece(b.msg, b.part, b.size)
<1>1. \A k \in Sizes : k \in Nat /\ k > 0 BY DEF MessagesAssumption
<1>2. MaxSent \in Nat BY DEF MessagesAssumption
<1>3. \A k \in 1..MaxSent : k \in Nat BY <1>2
<1>4. b.msg \in 1..MaxSent /\ b.part \in Nat /\ b.size \in Sizes BY DEF Pieces
<1>5. b = Piece(b.msg, b.part, b.size) BY DEF Pieces, Piece
<1> QED BY <1>1, <1>3, <1>4, <1>5

\* The numbers in a stream are numbers.
LEMMA MessageNumbers ==
  ASSUME MessagesAssumption, NEW s \in Seq(Pieces)
  PROVE  /\ DOMAIN s = 1..Len(s) /\ Len(s) \in Nat /\ (s = <<>> <=> Len(s) = 0)
         /\ \A i \in DOMAIN s : /\ s[i] \in Pieces /\ s[i].msg \in Nat /\ s[i].msg \in 1..MaxSent
                                /\ s[i].part \in Nat /\ s[i].size \in Nat /\ s[i].size > 0
                                /\ s[i].size \in Sizes
<1>1. \A i \in DOMAIN s : s[i] \in Pieces OBVIOUS
<1>3. \A b \in Pieces : /\ b.msg \in Nat /\ b.msg \in 1..MaxSent /\ b.part \in Nat
                        /\ b.size \in Nat /\ b.size > 0 /\ b.size \in Sizes BY PieceFields
<1>4. DOMAIN s = 1..Len(s) /\ Len(s) \in Nat /\ (s = <<>> <=> Len(s) = 0) OBVIOUS
<1> QED BY <1>1, <1>3, <1>4

\* What is left of a sound stream is sound, and begins with the next piece.
LEMMA TailSound ==
  ASSUME MessagesAssumption, NEW s, Sound(s), s # <<>>
  PROVE  /\ Sound(Tail(s)) /\ Len(Tail(s)) = Len(s) - 1
         /\ \A i \in 1..(Len(s) - 1) : Tail(s)[i] = s[i + 1]
         /\ Tail(s) # <<>> => Follows(s[1], Tail(s)[1])
<1>. DEFINE t == Tail(s)
<1>1. s \in Seq(Pieces) BY DEF Sound
<1>2. /\ t \in Seq(Pieces) /\ Len(t) = Len(s) - 1 /\ Len(s) \in Nat /\ Len(s) > 0
      /\ \A i \in 1..(Len(s) - 1) : t[i] = s[i + 1] BY <1>1
<1>3. /\ DOMAIN s = 1..Len(s) /\ DOMAIN t = 1..(Len(s) - 1)
      /\ \A i \in DOMAIN s : s[i].msg \in Nat /\ s[i].part \in Nat /\ s[i].size \in Nat
  BY <1>1, <1>2, MessageNumbers
<1>. HIDE DEF t
<1>4. \A i \in DOMAIN t : i + 1 \in DOMAIN s /\ t[i] = s[i + 1] BY <1>2, <1>3
<1>5. t # <<>> => 1 \in DOMAIN t /\ Follows(s[1], t[1])
  <2>. SUFFICES ASSUME t # <<>> PROVE 1 \in DOMAIN t /\ Follows(s[1], t[1]) OBVIOUS
  <2>1. 1 \in DOMAIN t /\ 1 \in DOMAIN s /\ 1 + 1 \in DOMAIN s /\ t[1] = s[1 + 1]
    BY <1>2, <1>3, <1>4
  <2> QED BY <2>1 DEF Sound
<1>6. \A i \in DOMAIN t : t[i].part <= t[i].size BY <1>4 DEF Sound
<1>7. \A i \in DOMAIN t : i + 1 \in DOMAIN t => Follows(t[i], t[i + 1])
  <2>. SUFFICES ASSUME NEW i \in DOMAIN t, i + 1 \in DOMAIN t PROVE Follows(t[i], t[i + 1])
    OBVIOUS
  <2>1. i + 1 \in DOMAIN s /\ (i + 1) + 1 \in DOMAIN s /\ t[i] = s[i + 1] /\ t[i + 1] = s[(i + 1) + 1]
    BY <1>4
  <2> QED BY <2>1 DEF Sound
<1>8. /\ \A i, j \in DOMAIN t : i < j => t[i].msg <= t[j].msg
      /\ \A i, j \in DOMAIN t : t[i].msg = t[j].msg => t[i].size = t[j].size
  <2>. SUFFICES ASSUME NEW i \in DOMAIN t, NEW j \in DOMAIN t
               PROVE  /\ i < j => t[i].msg <= t[j].msg
                      /\ t[i].msg = t[j].msg => t[i].size = t[j].size OBVIOUS
  <2>1. i + 1 \in DOMAIN s /\ j + 1 \in DOMAIN s /\ t[i] = s[i + 1] /\ t[j] = s[j + 1]
        /\ (i < j => i + 1 < j + 1) BY <1>3, <1>4
  <2> QED BY <2>1 DEF Sound
<1>9. \A i \in DOMAIN t : (t[1].msg)..(t[i].msg - 1) \subseteq Whole(t)
  <2>. SUFFICES ASSUME NEW i \in DOMAIN t, NEW n \in (t[1].msg)..(t[i].msg - 1)
               PROVE  n \in Whole(t) OBVIOUS
  <2>1. 1 \in DOMAIN t /\ Follows(s[1], t[1]) /\ 1 \in DOMAIN s /\ i + 1 \in DOMAIN s
        /\ t[1] = s[1 + 1] /\ 1 + 1 \in DOMAIN s /\ t[i] = s[i + 1] BY <1>2, <1>3, <1>4, <1>5
  <2>2. s[1].msg <= t[1].msg BY <2>1 DEF Sound
  <2>3. n \in (s[1].msg)..(s[i + 1].msg - 1) BY <1>3, <2>1, <2>2
  <2>4. n \in Whole(s) BY <2>1, <2>3 DEF Sound
  <2>5. PICK j \in DOMAIN s : s[j].part = s[j].size /\ s[j].msg = n BY <2>4 DEF Whole, Ends
  <2>6. j # 1 BY <1>3, <2>1, <2>5 DEF Follows
  <2>7. j - 1 \in DOMAIN t /\ (j - 1) + 1 = j BY <1>2, <1>3, <2>6
  <2>8. t[j - 1] = s[j] BY <1>4, <2>7
  <2> QED BY <2>5, <2>7, <2>8 DEF Whole, Ends
<1>10. Sound(t) BY <1>2, <1>6, <1>7, <1>8, <1>9 DEF Sound
<1> QED BY <1>2, <1>5, <1>10 DEF t

\* A stream stays sound when the piece that follows its last one is added.
LEMMA AppendSound ==
  ASSUME MessagesAssumption, NEW s, Sound(s), NEW b \in Pieces, b.part <= b.size,
         s # <<>> => Follows(s[Len(s)], b)
  PROVE  /\ Sound(Append(s, b)) /\ Len(Append(s, b)) = Len(s) + 1
         /\ \A i \in DOMAIN s : Append(s, b)[i] = s[i]
         /\ Append(s, b)[Len(s) + 1] = b
<1>. DEFINE t == Append(s, b)
            l == Len(s)
<1>1. s \in Seq(Pieces) BY DEF Sound
<1>2. /\ t \in Seq(Pieces) /\ Len(t) = l + 1 /\ l \in Nat /\ t[l + 1] = b
      /\ DOMAIN s = 1..l /\ DOMAIN t = 1..(l + 1)
      /\ \A i \in DOMAIN s : t[i] = s[i] BY <1>1
<1>3. \A i \in DOMAIN s : s[i].msg \in Nat /\ s[i].part \in Nat /\ s[i].size \in Nat
  BY <1>1, MessageNumbers
<1>4. b.msg \in Nat /\ b.part \in Nat /\ b.size \in Nat BY PieceFields
<1>5. s = <<>> <=> l = 0 BY <1>1
<1>. HIDE DEF t, l
<1>6. \A i \in DOMAIN t : i \in DOMAIN s \/ i = l + 1 BY <1>2
<1>7. \A i \in DOMAIN s : i \in DOMAIN t /\ i <= l /\ l \in DOMAIN s /\ 1 \in DOMAIN s /\ s # <<>>
  BY <1>2, <1>5
<1>8. ASSUME NEW i \in DOMAIN s
      PROVE  /\ s[i].msg <= s[l].msg /\ s[l].msg <= b.msg
             /\ s[i].msg = b.msg => s[i].size = b.size
  <2>1. Follows(s[l], b) /\ l \in DOMAIN s /\ s[l].msg \in Nat /\ s[l].size \in Nat
    BY <1>3, <1>7 DEF l
  <2>2. s[l].msg <= b.msg /\ (s[l].msg = b.msg => s[l].size = b.size)
    BY <2>1, <1>3, <1>4, Fields DEF Follows
  <2>3. s[i].msg <= s[l].msg
    <3>1. CASE i = l  BY <3>1, <2>1
    <3>2. CASE i # l  BY <3>2, <2>1, <1>2, <1>7 DEF Sound
    <3> QED BY <3>1, <3>2
  <2>4. s[i].msg = s[l].msg => s[i].size = s[l].size BY <2>1 DEF Sound
  <2>5. s[i].msg \in Nat BY <1>3
  <2> QED BY <1>4, <2>1, <2>2, <2>3, <2>4, <2>5
<1>9. \A i \in DOMAIN t : t[i].part <= t[i].size BY <1>2, <1>6 DEF Sound
<1>10. \A i \in DOMAIN t : i + 1 \in DOMAIN t => Follows(t[i], t[i + 1])
  <2>. SUFFICES ASSUME NEW i \in DOMAIN t, i + 1 \in DOMAIN t PROVE Follows(t[i], t[i + 1])
    OBVIOUS
  <2>1. i \in DOMAIN s /\ t[i] = s[i] BY <1>2
  <2>2. CASE i = l
    <3>1. t[i + 1] = b /\ Follows(s[l], b) BY <1>2, <1>7, <2>1, <2>2 DEF l
    <3> QED BY <2>1, <2>2, <3>1
  <2>3. CASE i # l
    <3>1. i + 1 \in DOMAIN s BY <1>2, <2>1, <2>3
    <3> QED BY <1>2, <2>1, <3>1 DEF Sound
  <2> QED BY <2>2, <2>3
<1>11. \A i, j \in DOMAIN t : i < j => t[i].msg <= t[j].msg
  <2>. SUFFICES ASSUME NEW i \in DOMAIN t, NEW j \in DOMAIN t, i < j PROVE t[i].msg <= t[j].msg
    OBVIOUS
  <2>1. i \in DOMAIN s /\ t[i] = s[i] /\ s[i].msg \in Nat BY <1>2, <1>3
  <2>2. CASE j = l + 1
    <3>1. l \in DOMAIN s /\ s[l].msg \in Nat BY <1>3, <1>7, <2>1
    <3> QED BY <1>2, <1>4, <1>8, <2>1, <2>2, <3>1
  <2>3. CASE j # l + 1
    <3>1. j \in DOMAIN s /\ t[j] = s[j] BY <1>2, <1>6, <2>3
    <3> QED BY <2>1, <3>1 DEF Sound
  <2> QED BY <2>2, <2>3
<1>12. \A i, j \in DOMAIN t : t[i].msg = t[j].msg => t[i].size = t[j].size
  <2>. SUFFICES ASSUME NEW i \in DOMAIN t, NEW j \in DOMAIN t, t[i].msg = t[j].msg
               PROVE  t[i].size = t[j].size OBVIOUS
  <2>1. CASE i \in DOMAIN s /\ j \in DOMAIN s BY <1>2, <2>1 DEF Sound
  <2>2. CASE i \in DOMAIN s /\ j = l + 1 BY <1>2, <1>8, <2>2
  <2>3. CASE i = l + 1 /\ j \in DOMAIN s BY <1>2, <1>8, <2>3
  <2>4. CASE i = l + 1 /\ j = l + 1 BY <2>4
  <2> QED BY <1>6, <2>1, <2>2, <2>3, <2>4
<1>13. Whole(s) \subseteq Whole(t) BY <1>2, <1>7 DEF Whole, Ends
<1>14. \A i \in DOMAIN t : (t[1].msg)..(t[i].msg - 1) \subseteq Whole(t)
  <2>. SUFFICES ASSUME NEW i \in DOMAIN t, NEW n \in (t[1].msg)..(t[i].msg - 1)
               PROVE  n \in Whole(t) OBVIOUS
  <2>1. CASE i \in DOMAIN s
    <3>1. t[1] = s[1] /\ t[i] = s[i] BY <1>2, <1>7, <2>1
    <3> QED BY <1>13, <2>1, <3>1 DEF Sound
  <2>2. CASE i = l + 1 /\ l = 0 BY <1>2, <1>4, <2>2
  <2>3. CASE i = l + 1 /\ l # 0
    <3>1. l \in DOMAIN s /\ 1 \in DOMAIN s /\ Follows(s[l], b) /\ t[l] = s[l] /\ l \in DOMAIN t
      <4>1. l \in DOMAIN s BY <1>2, <2>3
      <4>2. s # <<>> /\ 1 \in DOMAIN s /\ l \in DOMAIN t /\ t[l] = s[l] BY <1>2, <1>7, <4>1
      <4> QED BY <4>1, <4>2 DEF l
    <3>2. t[1] = s[1] /\ t[i] = b BY <1>2, <2>3, <3>1
    <3>3. s[l].msg \in Nat /\ s[1].msg \in Nat /\ s[l].part \in Nat /\ s[l].size \in Nat
          /\ s[l].part <= s[l].size BY <1>3, <3>1 DEF Sound
    <3>4. CASE n <= s[l].msg - 1
      <4>1. n \in (s[1].msg)..(s[l].msg - 1) BY <3>2, <3>3, <3>4
      <4> QED BY <1>13, <3>1, <4>1 DEF Sound
    <3>5. CASE n > s[l].msg - 1
      <4>1. s[l].part = s[l].size /\ n = s[l].msg
        BY <1>4, <3>1, <3>2, <3>3, <3>5, Fields DEF Follows
      <4> QED BY <3>1, <4>1 DEF Whole, Ends
    <3> QED BY <3>2, <3>3, <3>4, <3>5
  <2> QED BY <1>2, <1>6, <2>1, <2>2, <2>3
<1>15. Sound(t) BY <1>2, <1>9, <1>10, <1>11, <1>12, <1>14 DEF Sound
<1> QED BY <1>2, <1>15 DEF t, l

(* The whole texts of a sound stream, and what a piece more or less does *)
(* to them. *)
\* The size of an interval that may be empty.
LEMMA IntervalSize ==
  ASSUME NEW a \in Nat, NEW b \in Int, b >= a - 1
  PROVE  Cardinality(a..b) = b - a + 1
<1>1. a \in Int OBVIOUS
<1>2. Cardinality(a..b) = IF a > b THEN 0 ELSE b - a + 1 BY <1>1, FS_Interval
<1>3. a > b => b - a + 1 = 0 OBVIOUS
<1> QED BY <1>2, <1>3

\* The number of the last message that is whole.
LastWhole(s) == IF s[Len(s)].part = s[Len(s)].size THEN s[Len(s)].msg ELSE s[Len(s)].msg - 1

\* The whole messages are those from the first one's number to the last one's.
LEMMA WholeIs ==
  ASSUME MessagesAssumption, NEW s, Sound(s), s # <<>>
  PROVE  /\ Whole(s) = (s[1].msg)..LastWhole(s)
         /\ s[1].msg \in Nat /\ LastWhole(s) \in Int /\ LastWhole(s) >= s[1].msg - 1
         /\ Cardinality(Whole(s)) = LastWhole(s) - s[1].msg + 1
<1>. DEFINE l == Len(s)
<1>1. s \in Seq(Pieces) BY DEF Sound
<1>2. /\ DOMAIN s = 1..l /\ l \in DOMAIN s /\ 1 \in DOMAIN s /\ l \in Nat
      /\ \A i \in DOMAIN s : s[i].msg \in Nat /\ s[i].part \in Nat /\ s[i].size \in Nat
  BY <1>1, MessageNumbers
<1>3. \A i \in DOMAIN s : s[1].msg <= s[i].msg /\ s[i].msg <= s[l].msg
  <2>. SUFFICES ASSUME NEW i \in DOMAIN s PROVE s[1].msg <= s[i].msg /\ s[i].msg <= s[l].msg
    OBVIOUS
  <2>1. s[1].msg <= s[i].msg
    <3>1. i = 1 \/ 1 < i BY <1>2
    <3> QED BY <1>2, <3>1 DEF Sound
  <2>2. s[i].msg <= s[l].msg
    <3>1. i = l \/ i < l BY <1>2
    <3> QED BY <1>2, <3>1 DEF Sound
  <2> QED BY <2>1, <2>2
<1>4. \A i \in DOMAIN s : s[i].part = s[i].size => s[i].msg <= LastWhole(s)
  <2>. SUFFICES ASSUME NEW i \in DOMAIN s, s[i].part = s[i].size, s[l].part # s[l].size
               PROVE  s[i].msg <= s[l].msg - 1 BY <1>3 DEF LastWhole
  <2>1. i # l /\ i < l /\ i + 1 \in DOMAIN s BY <1>2
  <2>2. Follows(s[i], s[i + 1]) BY <2>1 DEF Sound
  <2>3. s[i + 1].msg = s[i].msg + 1 BY <1>2, <2>2 DEF Follows
  <2> QED BY <1>2, <1>3, <2>1, <2>3
<1>5. LastWhole(s) \in Int /\ LastWhole(s) >= s[1].msg - 1 BY <1>2, <1>3 DEF LastWhole
<1>6. Whole(s) \subseteq (s[1].msg)..LastWhole(s) BY <1>2, <1>3, <1>4, <1>5 DEF Whole, Ends
<1>7. (s[1].msg)..LastWhole(s) \subseteq Whole(s)
  <2>. SUFFICES ASSUME NEW n \in (s[1].msg)..LastWhole(s) PROVE n \in Whole(s) OBVIOUS
  <2>1. CASE n <= s[l].msg - 1
    <3>1. n \in (s[1].msg)..(s[l].msg - 1) BY <1>2, <1>5, <2>1
    <3> QED BY <1>2, <3>1 DEF Sound
  <2>2. CASE ~(n <= s[l].msg - 1)
    <3>1. s[l].part = s[l].size /\ n = s[l].msg BY <1>2, <1>5, <2>2 DEF LastWhole
    <3> QED BY <1>2, <3>1 DEF Whole, Ends
  <2> QED BY <2>1, <2>2
<1>8. Whole(s) = (s[1].msg)..LastWhole(s) BY <1>6, <1>7
<1>9. Cardinality((s[1].msg)..LastWhole(s)) = LastWhole(s) - s[1].msg + 1
  BY <1>2, <1>5, IntervalSize
<1> QED BY <1>2, <1>5, <1>8, <1>9

\* The size of a whole message is that of its last piece.
LEMMA SizeIs ==
  ASSUME NEW s, Sound(s), NEW i \in DOMAIN s, s[i].part = s[i].size
  PROVE  SizeOf(s, s[i].msg) = s[i].size
<1>1. \E j \in Ends(s) : s[j].msg = s[i].msg BY DEF Ends
<1>. DEFINE j == CHOOSE j \in Ends(s) : s[j].msg = s[i].msg
<1>2. j \in Ends(s) /\ s[j].msg = s[i].msg BY <1>1
<1>3. s[j].size = s[i].size BY <1>2 DEF Sound, Ends
<1> QED BY <1>3 DEF SizeOf

\* A stream in which the ends of t are, has the sizes that t has.
LEMMA SameSizes ==
  ASSUME NEW s, Sound(s), NEW t, Sound(t), NEW n \in Whole(t),
         \A i \in Ends(t) : \E j \in Ends(s) : s[j] = t[i]
  PROVE  n \in Whole(s) /\ SizeOf(s, n) = SizeOf(t, n)
<1>1. PICK i \in Ends(t) : t[i].msg = n BY DEF Whole
<1>2. PICK j \in Ends(s) : s[j] = t[i] BY <1>1
<1>3. SizeOf(t, n) = t[i].size BY <1>1, SizeIs DEF Ends
<1>4. SizeOf(s, n) = s[j].size BY <1>1, <1>2, SizeIs DEF Ends
<1> QED BY <1>1, <1>2, <1>3, <1>4 DEF Whole

\* An empty stream has no whole texts.
LEMMA NoTexts == WholeTexts(<<>>) = <<>>
<1>1. Whole(<<>>) = {} BY DEF Whole, Ends
<1>2. 1..Cardinality(Whole(<<>>)) = {} BY <1>1, FS_EmptySet
<1>3. DOMAIN WholeTexts(<<>>) = {} /\ WholeTexts(<<>>) = [k \in {} |-> WholeTexts(<<>>)[k]]
  BY <1>2 DEF WholeTexts
<1> QED BY <1>3

\* A piece of text leaves the stream: the same texts are whole.
LEMMA TailTexts ==
  ASSUME MessagesAssumption, NEW s, Sound(s), s # <<>>, s[1].part # s[1].size
  PROVE  WholeTexts(Tail(s)) = WholeTexts(s)
<1>. DEFINE t == Tail(s)
<1>1. /\ Sound(t) /\ Len(t) = Len(s) - 1
      /\ \A i \in 1..(Len(s) - 1) : t[i] = s[i + 1]
      /\ t # <<>> => Follows(s[1], t[1]) BY TailSound
<1>2. s \in Seq(Pieces) /\ t \in Seq(Pieces) BY <1>1 DEF Sound
<1>. HIDE DEF t
<1>3. /\ DOMAIN s = 1..Len(s) /\ Len(s) \in Nat /\ 1 \in DOMAIN s
      /\ DOMAIN t = 1..(Len(s) - 1) BY <1>1, <1>2, MessageNumbers
<1>4. \A i \in Ends(t) : i + 1 \in Ends(s) /\ s[i + 1] = t[i] BY <1>1, <1>3 DEF Ends
<1>5. \A i \in Ends(s) : i - 1 \in Ends(t) /\ t[i - 1] = s[i]
  <2>. SUFFICES ASSUME NEW i \in Ends(s) PROVE i - 1 \in Ends(t) /\ t[i - 1] = s[i] OBVIOUS
  <2>1. i \in DOMAIN s /\ i # 1 /\ s[i].part = s[i].size BY DEF Ends
  <2>2. i - 1 \in 1..(Len(s) - 1) /\ (i - 1) + 1 = i BY <1>3, <2>1
  <2>3. t[i - 1] = s[i] BY <1>1, <2>2
  <2> QED BY <1>3, <2>1, <2>2, <2>3 DEF Ends
<1>6. Whole(t) = Whole(s) BY <1>4, <1>5 DEF Whole
<1>7. \A n \in Whole(t) : SizeOf(s, n) = SizeOf(t, n) BY <1>1, <1>4, SameSizes
<1>8. ASSUME NEW k \in 1..Cardinality(Whole(t))
      PROVE  Text(s[1].msg + k - 1, SizeOf(s, s[1].msg + k - 1))
               = Text(t[1].msg + k - 1, SizeOf(t, t[1].msg + k - 1))
  <2>1. CASE t = <<>>
    <3>1. Whole(t) = {} BY <1>2, <2>1 DEF Whole, Ends
    <3>2. 1..Cardinality(Whole(t)) = {} BY <3>1, FS_EmptySet
    <3> QED BY <3>2
  <2>2. CASE t # <<>>
    <3>1. s[1].part <= s[1].size /\ s[1].part \in Nat /\ s[1].size \in Nat
      BY <1>2, <1>3, MessageNumbers DEF Sound
    <3>2. t[1].msg = s[1].msg BY <1>1, <2>2, <3>1, Fields DEF Follows
    <3>3. s[1].msg + k - 1 \in Whole(t) BY <1>1, <2>2, <3>2, WholeIs
    <3> QED BY <1>7, <3>2, <3>3
  <2> QED BY <2>1, <2>2
<1> QED BY <1>6, <1>8 DEF WholeTexts, t

\* The last piece of a text leaves the stream, and with it the first whole text.
LEMMA TailTakes ==
  ASSUME MessagesAssumption, NEW s, Sound(s), s # <<>>, s[1].part = s[1].size
  PROVE  /\ WholeTexts(s) # <<>>
         /\ Head(WholeTexts(s)) = Text(s[1].msg, s[1].size)
         /\ WholeTexts(Tail(s)) = Tail(WholeTexts(s))
<1>. DEFINE t == Tail(s)
            c == Cardinality(Whole(s))
<1>1. /\ Sound(t) /\ Len(t) = Len(s) - 1
      /\ \A i \in 1..(Len(s) - 1) : t[i] = s[i + 1]
      /\ t # <<>> => Follows(s[1], t[1]) BY TailSound
<1>2. s \in Seq(Pieces) /\ t \in Seq(Pieces) BY <1>1 DEF Sound
<1>. HIDE DEF t
<1>3. /\ DOMAIN s = 1..Len(s) /\ Len(s) \in Nat /\ 1 \in DOMAIN s
      /\ DOMAIN t = 1..(Len(s) - 1)
      /\ s[1].msg \in Nat /\ s[1].part \in Nat /\ s[1].size \in Nat BY <1>1, <1>2, MessageNumbers
<1>4. \A i \in Ends(t) : i + 1 \in Ends(s) /\ s[i + 1] = t[i] BY <1>1, <1>3 DEF Ends
<1>5. SizeOf(s, s[1].msg) = s[1].size BY <1>3, SizeIs
<1>6. /\ Whole(s) = (s[1].msg)..LastWhole(s) /\ LastWhole(s) \in Int
      /\ LastWhole(s) >= s[1].msg - 1 /\ c = LastWhole(s) - s[1].msg + 1 BY WholeIs
<1>7. s[1].msg \in Whole(s) BY <1>3 DEF Whole, Ends
<1>8. c \in Nat /\ c >= 1 BY <1>3, <1>6, <1>7
<1>. HIDE DEF c
<1>9. \A n \in Whole(t) : SizeOf(s, n) = SizeOf(t, n) BY <1>1, <1>4, SameSizes
<1>. DEFINE F(k) == Text(s[1].msg + k - 1, SizeOf(s, s[1].msg + k - 1))
<1>10. WholeTexts(s) = [k \in 1..c |-> F(k)] BY DEF WholeTexts, c
<1>11. WholeTexts(t) = [k \in 1..(c - 1) |-> F(k + 1)]
  <2>1. CASE t = <<>>
    <3>1. Len(s) = 1 BY <1>1, <1>2, <1>3, <2>1
    <3>2. LastWhole(s) = s[1].msg BY <3>1 DEF LastWhole
    <3>3. c = 1 BY <1>3, <1>6, <3>2
    <3>4. Whole(t) = {} BY <1>2, <2>1 DEF Whole, Ends
    <3>5. Cardinality(Whole(t)) = c - 1 BY <3>3, <3>4, FS_EmptySet
    <3> QED BY <3>3, <3>5 DEF WholeTexts
  <2>2. CASE t # <<>>
    <3>1. t[1].msg = s[1].msg + 1 BY <1>1, <1>3, <2>2 DEF Follows
    <3>2. Len(s) > 1 /\ Len(s) - 1 \in 1..(Len(s) - 1) /\ (Len(s) - 1) + 1 = Len(s)
      BY <1>1, <1>2, <1>3, <2>2
    <3>3. t[Len(t)] = s[Len(s)] BY <1>1, <3>2
    <3>4. LastWhole(t) = LastWhole(s) BY <3>3 DEF LastWhole
    <3>5. /\ Cardinality(Whole(t)) = LastWhole(t) - t[1].msg + 1
          /\ Whole(t) = (t[1].msg)..LastWhole(t) BY <1>1, <2>2, WholeIs
    <3>6. Cardinality(Whole(t)) = c - 1 BY <1>3, <1>6, <3>1, <3>4, <3>5
    <3>7. ASSUME NEW k \in 1..(c - 1)
          PROVE  Text(t[1].msg + k - 1, SizeOf(t, t[1].msg + k - 1)) = F(k + 1)
      <4>1. t[1].msg + k - 1 = s[1].msg + (k + 1) - 1 BY <1>3, <1>8, <3>1
      <4>2. t[1].msg + k - 1 \in (t[1].msg)..LastWhole(s)
        <5>1. k \in Int /\ k >= 1 /\ k <= c - 1 BY <1>8
        <5>2. t[1].msg \in Int /\ t[1].msg + k - 1 <= LastWhole(s) BY <1>3, <1>6, <3>1, <5>1
        <5> QED BY <1>6, <5>1, <5>2
      <4>3. t[1].msg + k - 1 \in Whole(t) BY <3>4, <3>5, <4>2
      <4> QED BY <1>9, <4>1, <4>3
    <3> QED BY <3>6, <3>7 DEF WholeTexts
  <2> QED BY <2>1, <2>2
<1>12. F(1) = Text(s[1].msg, s[1].size) BY <1>3, <1>5
<1>. HIDE DEF F
<1>13. WholeTexts(s) # <<>> /\ Head(WholeTexts(s)) = F(1) BY <1>8, <1>10
<1>14. Tail(WholeTexts(s)) = [k \in 1..(c - 1) |-> F(k + 1)] BY <1>8, <1>10
<1> QED BY <1>11, <1>12, <1>13, <1>14 DEF t

\* A piece that ends no text enters the stream: the same texts are whole.
LEMMA AppendTexts ==
  ASSUME MessagesAssumption, NEW s, Sound(s), NEW b \in Pieces, b.part < b.size,
         s # <<>> => Follows(s[Len(s)], b)
  PROVE  WholeTexts(Append(s, b)) = WholeTexts(s)
<1>. DEFINE t == Append(s, b)
<1>1. b.part <= b.size /\ b.part # b.size /\ b.part \in Nat /\ b.size \in Nat BY PieceFields
<1>2. /\ Sound(t) /\ Len(t) = Len(s) + 1
      /\ \A i \in DOMAIN s : t[i] = s[i]
      /\ t[Len(s) + 1] = b BY <1>1, AppendSound
<1>3. s \in Seq(Pieces) /\ t \in Seq(Pieces) BY <1>2 DEF Sound
<1>. HIDE DEF t
<1>4. DOMAIN s = 1..Len(s) /\ Len(s) \in Nat /\ DOMAIN t = 1..(Len(s) + 1)
  BY <1>2, <1>3, MessageNumbers
<1>5. Ends(t) = Ends(s)
  <2>1. \A i \in DOMAIN t : i \in DOMAIN s \/ i = Len(s) + 1 BY <1>4
  <2>2. \A i \in DOMAIN s : i \in DOMAIN t BY <1>4
  <2>3. Len(s) + 1 \notin Ends(t) BY <1>1, <1>2 DEF Ends
  <2> QED BY <1>2, <2>1, <2>2, <2>3 DEF Ends
<1>6. \A i \in Ends(s) : i \in DOMAIN s /\ t[i] = s[i] BY <1>2 DEF Ends
<1>7. Whole(t) = Whole(s) BY <1>5, <1>6 DEF Whole
<1>8. \A n \in Whole(s) : SizeOf(t, n) = SizeOf(s, n) BY <1>2, <1>5, <1>6, SameSizes
<1>9. ASSUME NEW k \in 1..Cardinality(Whole(s))
      PROVE  Text(s[1].msg + k - 1, SizeOf(s, s[1].msg + k - 1))
               = Text(t[1].msg + k - 1, SizeOf(t, t[1].msg + k - 1))
  <2>1. CASE s = <<>>
    <3>1. Whole(s) = {} BY <1>3, <2>1 DEF Whole, Ends
    <3>2. 1..Cardinality(Whole(s)) = {} BY <3>1, FS_EmptySet
    <3> QED BY <3>2
  <2>2. CASE s # <<>>
    <3>1. t[1] = s[1] BY <1>2, <1>3, <1>4, <2>2
    <3>2. s[1].msg + k - 1 \in Whole(s) BY <2>2, WholeIs
    <3> QED BY <1>8, <3>1, <3>2
  <2> QED BY <2>1, <2>2
<1> QED BY <1>7, <1>9 DEF WholeTexts, t

\* The last piece of a text enters the stream, and with it one more whole text.
LEMMA AppendDeposits ==
  ASSUME MessagesAssumption, NEW s, Sound(s), NEW b \in Pieces, b.part = b.size,
         s # <<>> => Follows(s[Len(s)], b)
  PROVE  WholeTexts(Append(s, b)) = Append(WholeTexts(s), Text(b.msg, b.size))
<1>. DEFINE t == Append(s, b)
            c == Cardinality(Whole(s))
            F(k) == Text(t[1].msg + k - 1, SizeOf(t, t[1].msg + k - 1))
<1>1. b.part <= b.size /\ b.part \in Nat /\ b.size \in Nat /\ b.msg \in Nat BY PieceFields
<1>2. /\ Sound(t) /\ Len(t) = Len(s) + 1
      /\ \A i \in DOMAIN s : t[i] = s[i]
      /\ t[Len(s) + 1] = b BY <1>1, AppendSound
<1>3. s \in Seq(Pieces) /\ t \in Seq(Pieces) BY <1>2 DEF Sound
<1>. HIDE DEF t
<1>4. DOMAIN s = 1..Len(s) /\ Len(s) \in Nat /\ DOMAIN t = 1..(Len(s) + 1) /\ t # <<>>
  BY <1>2, <1>3, MessageNumbers
<1>5. \A i \in Ends(s) : i \in Ends(t) /\ t[i] = s[i] BY <1>2, <1>4 DEF Ends
<1>6. \A n \in Whole(s) : SizeOf(t, n) = SizeOf(s, n) BY <1>2, <1>5, SameSizes
<1>7. SizeOf(t, b.msg) = b.size BY <1>2, <1>4, SizeIs
<1>8. LastWhole(t) = b.msg BY <1>2 DEF LastWhole
<1>9. /\ Cardinality(Whole(t)) = LastWhole(t) - t[1].msg + 1
      /\ t[1].msg \in Nat BY <1>2, <1>4, WholeIs
<1>10. /\ c \in Nat /\ Cardinality(Whole(t)) = c + 1
       /\ \A k \in 1..c : F(k) = Text(s[1].msg + k - 1, SizeOf(s, s[1].msg + k - 1))
       /\ F(c + 1) = Text(b.msg, b.size)
  <2>1. CASE s = <<>>
    <3>1. Whole(s) = {} /\ Len(s) = 0 BY <1>3, <2>1 DEF Whole, Ends
    <3>2. c = 0 BY <3>1, FS_EmptySet
    <3>3. t[1] = b BY <1>2, <3>1
    <3> QED BY <1>1, <1>7, <1>8, <1>9, <3>2, <3>3
  <2>2. CASE s # <<>>
    <3>1. t[1] = s[1] BY <1>2, <1>3, <1>4, <2>2
    <3>2. /\ Whole(s) = (s[1].msg)..LastWhole(s) /\ LastWhole(s) \in Int
          /\ LastWhole(s) >= s[1].msg - 1 /\ c = LastWhole(s) - s[1].msg + 1 BY <2>2, WholeIs
    <3>3. LastWhole(s) = b.msg - 1
      <4>1. Follows(s[Len(s)], b) /\ Len(s) \in DOMAIN s BY <1>3, <1>4, <2>2
      <4>2. s[Len(s)].part \in Nat /\ s[Len(s)].size \in Nat /\ s[Len(s)].msg \in Nat
            /\ s[Len(s)].part <= s[Len(s)].size BY <1>3, <4>1, MessageNumbers DEF Sound
      <4>3. CASE s[Len(s)].part < s[Len(s)].size
        BY <4>1, <4>2, <4>3, Fields DEF Follows, LastWhole
      <4>4. CASE s[Len(s)].part = s[Len(s)].size BY <4>1, <4>2, <4>4 DEF Follows, LastWhole
      <4> QED BY <4>2, <4>3, <4>4
    <3>4. c \in Nat /\ Cardinality(Whole(t)) = c + 1 BY <1>1, <1>8, <1>9, <3>1, <3>2, <3>3
    <3>5. \A k \in 1..c : s[1].msg + k - 1 \in Whole(s) BY <1>9, <3>1, <3>2
    <3>6. \A k \in 1..c : F(k) = Text(s[1].msg + k - 1, SizeOf(s, s[1].msg + k - 1))
      BY <1>6, <3>1, <3>5
    <3>7. t[1].msg + (c + 1) - 1 = b.msg BY <1>1, <1>9, <3>1, <3>2, <3>3
    <3> QED BY <1>7, <3>4, <3>6, <3>7
  <2> QED BY <2>1, <2>2
<1>. HIDE DEF c, F
<1>11. WholeTexts(t) = [k \in 1..(c + 1) |-> F(k)] BY <1>10 DEF WholeTexts, F
<1>12. WholeTexts(s) = [k \in 1..c |-> F(k)] BY <1>10 DEF WholeTexts, c
<1>13. Append(WholeTexts(s), Text(b.msg, b.size)) = [k \in 1..(c + 1) |-> F(k)]
  <2>. DEFINE S == {F(k) : k \in 1..(c + 1)}
  <2>1. WholeTexts(s) \in Seq(S) /\ Len(WholeTexts(s)) = c BY <1>10, <1>12
  <2>2. Text(b.msg, b.size) \in S BY <1>10
  <2>. HIDE DEF S
  <2> QED BY <1>10, <1>12, <2>1, <2>2
<1> QED BY <1>11, <1>13 DEF t

(* What the steps of a writer and a reader do to the flow between them. *)
\* An empty stream is sound; its head and last piece are not there.
LEMMA EmptyFlow ==
  ASSUME NEW r, NEW w, NEW n, NEW up, r.at # "read", up => w.at # "write"
  PROVE  Flows(<<>>, r, w, n, up)
<1>1. Sound(<<>>) BY DEF Sound
<1> QED BY <1>1 DEF Flows, WriterAt, ReaderAt

\* Once an end is closed, the writer does not matter.
LEMMA FlowDown ==
  ASSUME NEW s, NEW r, NEW w, NEW n, NEW up, Flows(s, r, w, n, up), NEW v, NEW m
  PROVE  Flows(s, r, v, m, FALSE)
<1>1. Sound(s) BY DEF Flows
<1>2. WriterAt(s, v, m, FALSE) BY DEF WriterAt
<1>3. ReaderAt(s, r, v, m, FALSE) BY DEF Flows, ReaderAt
<1> QED BY <1>1, <1>2, <1>3 DEF Flows

\* The writer begins a message: its length goes into the stream.
LEMMA FlowBegins ==
  ASSUME MessagesAssumption, NEW s, NEW r, NEW w, NEW n \in Nat, Flows(s, r, w, n, TRUE),
         w.at # "write", n < MaxSent, NEW v, v.at = "write", v.text = <<>>, v.size \in Sizes
  PROVE  LET b == Piece(n + 1, 0, v.size) IN
         /\ b \in Pieces
         /\ Flows(Append(s, b), r, v, n + 1, TRUE)
         /\ WholeTexts(Append(s, b)) = WholeTexts(s)
<1>. DEFINE b == Piece(n + 1, 0, v.size)
            t == Append(s, b)
<1>1. b \in Pieces /\ b.msg = n + 1 /\ b.part = 0 /\ b.size = v.size /\ b.size > 0
  <2>1. v.size \in Nat /\ v.size > 0 /\ MaxSent \in Nat BY Positive
  <2>2. n + 1 \in 1..MaxSent BY <2>1
  <2> QED BY <2>1, <2>2 DEF Piece, Pieces
<1>2. Sound(s) /\ WriterAt(s, w, n, TRUE) /\ ReaderAt(s, r, w, n, TRUE) BY DEF Flows
<1>3. s \in Seq(Pieces) BY <1>2 DEF Sound
<1>4. s # <<>> => Len(s) \in DOMAIN s /\ Follows(s[Len(s)], b)
  <2>. SUFFICES ASSUME s # <<>> PROVE Len(s) \in DOMAIN s /\ Follows(s[Len(s)], b) OBVIOUS
  <2>1. Len(s) \in DOMAIN s BY <1>3
  <2>2. s[Len(s)].part \in Nat /\ s[Len(s)].size \in Nat BY <1>3, <2>1, MessageNumbers
  <2>3. s[Len(s)].part = s[Len(s)].size /\ s[Len(s)].msg = n BY <1>2 DEF WriterAt
  <2> QED BY <1>1, <2>1, <2>2, <2>3 DEF Follows
<1>5. b.part <= b.size /\ b.part < b.size BY <1>1, PieceFields
<1>6. /\ Sound(t) /\ Len(t) = Len(s) + 1
      /\ \A i \in DOMAIN s : t[i] = s[i]
      /\ t[Len(s) + 1] = b BY <1>1, <1>2, <1>4, <1>5, AppendSound
<1>7. WholeTexts(t) = WholeTexts(s) BY <1>1, <1>2, <1>4, <1>5, AppendTexts
<1>8. t \in Seq(Pieces) /\ Len(s) \in Nat /\ DOMAIN s = 1..Len(s) /\ (s = <<>> => Len(s) = 0)
  BY <1>3, <1>6 DEF Sound
<1>. HIDE DEF t, b
<1>9. t # <<>> BY <1>6, <1>8
<1>10. WriterAt(t, v, n + 1, TRUE)
  <2>1. b = Piece(n + 1, Len(v.text), v.size) BY DEF b
  <2> QED BY <1>1, <1>6, <2>1 DEF WriterAt
<1>11. s # <<>> => t[1] = s[1] BY <1>4, <1>6, <1>8
<1>12. s = <<>> => t[1] = b BY <1>6, <1>8
<1>13. ReaderAt(t, r, v, n + 1, TRUE)
  <2>1. CASE s = <<>>
    <3>1. r.at # "read" BY <1>2, <2>1 DEF ReaderAt
    <3> QED BY <1>1, <1>12, <2>1, <3>1 DEF ReaderAt
  <2>2. CASE s # <<>> BY <1>2, <1>9, <1>11, <2>2 DEF ReaderAt
  <2> QED BY <2>1, <2>2
<1> QED BY <1>1, <1>6, <1>7, <1>9, <1>10, <1>13 DEF Flows, t, b

\* The writer goes on with its text.
LEMMA FlowWrites ==
  ASSUME MessagesAssumption, NEW s, NEW r, NEW w, NEW n \in 1..MaxSent, Flows(s, r, w, n, TRUE),
         w.at = "write", w.text \in Seq(Pieces), w.size \in Sizes, Len(w.text) < w.size, NEW v,
         \/ v.at # "write" /\ Len(w.text) + 1 = w.size
         \/ v.at = "write" /\ Len(v.text) = Len(w.text) + 1 /\ v.size = w.size
            /\ Len(w.text) + 1 < w.size
  PROVE  LET b == Piece(n, Len(w.text) + 1, w.size) IN
         /\ b \in Pieces
         /\ Flows(Append(s, b), r, v, n, TRUE)
         /\ v.at = "write" => WholeTexts(Append(s, b)) = WholeTexts(s)
         /\ v.at # "write" => WholeTexts(Append(s, b)) = Append(WholeTexts(s), Text(n, w.size))
<1>. DEFINE b == Piece(n, Len(w.text) + 1, w.size)
            t == Append(s, b)
<1>0. Len(w.text) \in Nat /\ w.size \in Nat BY Positive
<1>1. b \in Pieces /\ b.msg = n /\ b.part = Len(w.text) + 1 /\ b.size = w.size
  BY <1>0 DEF Piece, Pieces
<1>2. Sound(s) /\ WriterAt(s, w, n, TRUE) /\ ReaderAt(s, r, w, n, TRUE)
      /\ (s = <<>> => r.at = "read") BY DEF Flows
<1>3. s \in Seq(Pieces) BY <1>2 DEF Sound
<1>4. s # <<>> => Len(s) \in DOMAIN s /\ Follows(s[Len(s)], b)
  <2>. SUFFICES ASSUME s # <<>> PROVE Len(s) \in DOMAIN s /\ Follows(s[Len(s)], b) OBVIOUS
  <2>1. Len(s) \in DOMAIN s BY <1>3
  <2>2. s[Len(s)] = Piece(n, Len(w.text), w.size) BY <1>2 DEF WriterAt
  <2>3. s[Len(s)].part = Len(w.text) /\ s[Len(s)].size = w.size /\ s[Len(s)].msg = n
    BY <2>2, Fields
  <2> QED BY <1>0, <2>1, <2>3 DEF Follows
<1>5. b.part <= b.size BY <1>0, <1>1
<1>6. /\ Sound(t) /\ Len(t) = Len(s) + 1
      /\ \A i \in DOMAIN s : t[i] = s[i]
      /\ t[Len(s) + 1] = b BY <1>1, <1>2, <1>4, <1>5, AppendSound
<1>7. v.at = "write" => WholeTexts(t) = WholeTexts(s)
  <2>. SUFFICES ASSUME v.at = "write" PROVE WholeTexts(t) = WholeTexts(s) OBVIOUS
  <2>1. b.part < b.size BY <1>1
  <2> QED BY <1>1, <1>2, <1>4, <2>1, AppendTexts
<1>8. v.at # "write" => WholeTexts(t) = Append(WholeTexts(s), Text(n, w.size))
  <2>. SUFFICES ASSUME v.at # "write" PROVE WholeTexts(t) = Append(WholeTexts(s), Text(n, w.size))
    OBVIOUS
  <2>1. b.part = b.size BY <1>1
  <2>2. WholeTexts(t) = Append(WholeTexts(s), Text(b.msg, b.size))
    BY <1>1, <1>2, <1>4, <2>1, AppendDeposits
  <2> QED BY <1>1, <2>2
<1>9. t \in Seq(Pieces) /\ Len(s) \in Nat /\ DOMAIN s = 1..Len(s) /\ (s = <<>> => Len(s) = 0)
  BY <1>3, <1>6 DEF Sound
<1>. HIDE DEF t, b
<1>10. t # <<>> BY <1>6, <1>9
<1>11. WriterAt(t, v, n, TRUE)
  <2>1. v.at = "write" => b = Piece(n, Len(v.text), v.size) BY DEF b
  <2>2. v.at # "write" => b.part = b.size BY <1>1
  <2> QED BY <1>1, <1>6, <2>1, <2>2 DEF WriterAt
<1>12. s # <<>> => t[1] = s[1] BY <1>4, <1>6, <1>9
<1>13. s = <<>> => t[1] = b BY <1>6, <1>9
<1>14. ReaderAt(t, r, v, n, TRUE)
  <2>1. CASE s = <<>>
    <3>1. r.at = "read" BY <1>2, <2>1
    <3>2. PICK m \in 1..MaxSent :
            /\ r.text = [k \in 1..Len(r.text) |-> Piece(m, k, r.size)]
            /\ m = n /\ Len(w.text) = Len(r.text) /\ w.size = r.size
      BY <1>2, <2>1, <3>1 DEF ReaderAt
    <3>3. t[1] = Piece(m, Len(r.text) + 1, r.size) BY <1>13, <2>1, <3>2 DEF b
    <3> QED BY <1>10, <3>1, <3>2, <3>3 DEF ReaderAt
  <2>2. CASE s # <<>> BY <1>2, <1>10, <1>12, <2>2 DEF ReaderAt
  <2> QED BY <2>1, <2>2
<1> QED BY <1>1, <1>6, <1>7, <1>8, <1>10, <1>11, <1>14 DEF Flows, t, b

\* The reader takes the length of a message.
LEMMA FlowTakes ==
  ASSUME MessagesAssumption, NEW s, NEW r, NEW w, NEW n, NEW up, Flows(s, r, w, n, up),
         r.at # "read", s # <<>>, w.at = "write" => w.size \in Sizes /\ w.text \in Seq(Pieces),
         NEW v, v.at = "read", v.text = <<>>, v.size = s[1].size
  PROVE  /\ v.size \in Sizes
         /\ Flows(Tail(s), v, w, n, up)
         /\ WholeTexts(Tail(s)) = WholeTexts(s)
<1>. DEFINE t == Tail(s)
            m == s[1].msg
<1>1. Sound(s) /\ WriterAt(s, w, n, up) /\ s[1].part = 0 BY DEF Flows, ReaderAt
<1>2. s \in Seq(Pieces) BY <1>1 DEF Sound
<1>3. /\ Sound(t) /\ Len(t) = Len(s) - 1
      /\ \A i \in 1..(Len(s) - 1) : t[i] = s[i + 1]
      /\ t # <<>> => Follows(s[1], t[1]) BY <1>1, TailSound
<1>4. /\ Len(s) \in Nat /\ DOMAIN s = 1..Len(s) /\ 1 \in DOMAIN s /\ Len(s) > 0
      /\ s[1].msg \in 1..MaxSent /\ s[1].size \in Sizes /\ s[1].size > 0 /\ s[1].size \in Nat
      /\ s[1] = Piece(s[1].msg, 0, s[1].size)
  <2>1. Len(s) \in Nat /\ DOMAIN s = 1..Len(s) /\ 1 \in DOMAIN s /\ Len(s) > 0 /\ s[1] \in Pieces
    BY <1>2
  <2> QED BY <1>1, <2>1, PieceFields
<1>5. WholeTexts(t) = WholeTexts(s) BY <1>1, <1>4, TailTexts
<1>6. t \in Seq(Pieces) /\ (t = <<>> <=> Len(t) = 0) BY <1>3 DEF Sound
<1>. HIDE DEF t
<1>7. up /\ t = <<>> => s[1].msg = n /\ w.at = "write" /\ s[1] = Piece(n, Len(w.text), w.size)
  <2>. SUFFICES ASSUME up, t = <<>>
               PROVE  s[1].msg = n /\ w.at = "write" /\ s[1] = Piece(n, Len(w.text), w.size)
    OBVIOUS
  <2>1. Len(s) = 1 BY <1>3, <1>4, <1>6
  <2>2. /\ s[1].msg = n
        /\ IF w.at = "write" THEN s[1] = Piece(n, Len(w.text), w.size) ELSE s[1].part = s[1].size
    BY <1>1, <2>1 DEF WriterAt
  <2> QED BY <1>1, <1>4, <2>2
<1>8. t # <<>> => t[1] = Piece(m, 1, v.size) BY <1>1, <1>3, <1>4, Fields DEF Follows
<1>9. WriterAt(t, w, n, up)
  <2>1. t # <<>> => t[Len(t)] = s[Len(s)] BY <1>3, <1>4, <1>6
  <2> QED BY <1>1, <2>1 DEF WriterAt
<1>10. ReaderAt(t, v, w, n, up)
  <2>1. Len(v.text) = 0 /\ v.text = [k \in 1..Len(v.text) |-> Piece(m, k, v.size)] OBVIOUS
  <2>2. t # <<>> => t[1] = Piece(m, Len(v.text) + 1, v.size) BY <1>8, <2>1
  <2>3. up /\ t = <<>> => /\ m = n /\ w.at = "write"
                          /\ Len(w.text) = Len(v.text) /\ w.size = v.size
    BY <1>1, <1>7, <2>1, Fields
  <2> QED BY <1>4, <2>1, <2>2, <2>3 DEF ReaderAt
<1> QED BY <1>3, <1>4, <1>5, <1>9, <1>10 DEF Flows, t

\* The first pieces of a text and the next one are one piece more of it.
LEMMA OneMore ==
  ASSUME MessagesAssumption, NEW m \in 1..MaxSent, NEW z \in Sizes, NEW x \in Seq(Pieces),
         x = [k \in 1..Len(x) |-> Piece(m, k, z)]
  PROVE  LET y == Append(x, Piece(m, Len(x) + 1, z)) IN
         y = [k \in 1..(Len(x) + 1) |-> Piece(m, k, z)] /\ Len(y) = Len(x) + 1 /\ y \in Seq(Pieces)
<1>. DEFINE b == Piece(m, Len(x) + 1, z)
<1>1. b \in Pieces BY DEF Pieces, Piece
<1>2. \A k \in 1..Len(x) : x[k] = Piece(m, k, z) OBVIOUS
<1>3. Append(x, b) = [k \in 1..(Len(x) + 1) |-> IF k <= Len(x) THEN x[k] ELSE b] BY <1>1
<1>4. \A k \in 1..(Len(x) + 1) : (IF k <= Len(x) THEN x[k] ELSE b) = Piece(m, k, z)
  <2>. SUFFICES ASSUME NEW k \in 1..(Len(x) + 1)
               PROVE  (IF k <= Len(x) THEN x[k] ELSE b) = Piece(m, k, z) OBVIOUS
  <2>1. CASE k <= Len(x) BY <1>2, <2>1
  <2>2. CASE ~(k <= Len(x))
    <3>1. k = Len(x) + 1 BY <2>2
    <3> QED BY <2>2, <3>1
  <2> QED BY <2>1, <2>2
<1>5. Append(x, b) = [k \in 1..(Len(x) + 1) |-> Piece(m, k, z)] BY <1>3, <1>4
<1>6. Append(x, b) \in Seq(Pieces) /\ Len(Append(x, b)) = Len(x) + 1 BY <1>1
<1> QED BY <1>5, <1>6

\* The reader goes on with its text, or completes it.
LEMMA FlowReads ==
  ASSUME MessagesAssumption, NEW s, NEW r, NEW w, NEW n, NEW up, Flows(s, r, w, n, up),
         r.at = "read", r.size \in Sizes, r.text \in Seq(Pieces), Len(r.text) < r.size, s # <<>>,
         w.at = "write" => w.size \in Sizes /\ w.text \in Seq(Pieces) /\ Len(w.text) < w.size,
         NEW v,
         \/ v.at # "read" /\ Len(r.text) + 1 = r.size
         \/ v.at = "read" /\ v.text = Append(r.text, s[1]) /\ v.size = r.size
            /\ Len(r.text) + 1 < r.size
  PROVE  /\ Flows(Tail(s), v, w, n, up)
         /\ Append(r.text, s[1]) \in Seq(Pieces) /\ Len(Append(r.text, s[1])) = Len(r.text) + 1
         /\ v.at = "read" => WholeTexts(Tail(s)) = WholeTexts(s)
         /\ v.at # "read" => /\ WholeTexts(s) # <<>> /\ WholeTexts(Tail(s)) = Tail(WholeTexts(s))
                             /\ Head(WholeTexts(s)) = Append(r.text, s[1])
<1>. DEFINE t == Tail(s)
            l == Len(r.text) + 1
<1>1. Sound(s) /\ WriterAt(s, w, n, up) BY DEF Flows
<1>2. PICK m \in 1..MaxSent : /\ r.text = [k \in 1..Len(r.text) |-> Piece(m, k, r.size)]
                              /\ s[1] = Piece(m, l, r.size) BY DEF Flows, ReaderAt
<1>3. /\ Append(r.text, s[1]) = [k \in 1..l |-> Piece(m, k, r.size)]
      /\ Append(r.text, s[1]) \in Seq(Pieces) /\ Len(Append(r.text, s[1])) = l BY <1>2, OneMore
<1>4. s \in Seq(Pieces) BY <1>1 DEF Sound
<1>5. /\ Sound(t) /\ Len(t) = Len(s) - 1
      /\ \A i \in 1..(Len(s) - 1) : t[i] = s[i + 1]
      /\ t # <<>> => Follows(s[1], t[1]) BY <1>1, TailSound
<1>6. /\ Len(s) \in Nat /\ DOMAIN s = 1..Len(s) /\ 1 \in DOMAIN s /\ Len(s) > 0
      /\ s[1].msg = m /\ s[1].part = l /\ s[1].size = r.size /\ r.size \in Nat /\ l \in Nat
  BY <1>2, <1>4, Fields, Positive
<1>7. t \in Seq(Pieces) /\ (t = <<>> <=> Len(t) = 0) BY <1>5 DEF Sound
<1>8. v.at = "read" => WholeTexts(t) = WholeTexts(s)
  <2>. SUFFICES ASSUME v.at = "read" PROVE WholeTexts(t) = WholeTexts(s) OBVIOUS
  <2>1. s[1].part # s[1].size BY <1>6
  <2> QED BY <1>1, <2>1, TailTexts
<1>9. v.at # "read" => /\ WholeTexts(s) # <<>> /\ WholeTexts(t) = Tail(WholeTexts(s))
                       /\ Head(WholeTexts(s)) = Append(r.text, s[1])
  <2>. SUFFICES ASSUME v.at # "read"
               PROVE  /\ WholeTexts(s) # <<>> /\ WholeTexts(t) = Tail(WholeTexts(s))
                      /\ Head(WholeTexts(s)) = Append(r.text, s[1]) OBVIOUS
  <2>1. s[1].part = s[1].size /\ l = r.size BY <1>6
  <2>2. Text(m, r.size) = Append(r.text, s[1]) BY <1>3, <2>1 DEF Text
  <2> QED BY <1>1, <1>6, <2>1, <2>2, TailTakes
<1>. HIDE DEF t
<1>10. up /\ t = <<>> =>
         /\ m = n
         /\ IF w.at = "write" THEN l = Len(w.text) /\ w.size = r.size ELSE l = r.size
  <2>. SUFFICES ASSUME up, t = <<>>
               PROVE  /\ m = n
                      /\ IF w.at = "write" THEN l = Len(w.text) /\ w.size = r.size
                                           ELSE l = r.size OBVIOUS
  <2>1. Len(s) = 1 BY <1>5, <1>6, <1>7
  <2>2. /\ s[1].msg = n
        /\ IF w.at = "write" THEN s[1] = Piece(n, Len(w.text), w.size) ELSE s[1].part = s[1].size
    BY <1>1, <2>1 DEF WriterAt
  <2> QED BY <1>6, <2>2, Fields
<1>11. WriterAt(t, w, n, up)
  <2>1. t # <<>> => t[Len(t)] = s[Len(s)] BY <1>5, <1>6, <1>7
  <2> QED BY <1>1, <2>1 DEF WriterAt
<1>12. CASE v.at = "read"
  <2>1. t # <<>> => t[1] = Piece(m, l + 1, r.size) BY <1>5, <1>6, <1>12 DEF Follows
  <2>2. /\ v.text = [k \in 1..Len(v.text) |-> Piece(m, k, v.size)]
        /\ Len(v.text) = l /\ v.size = r.size BY <1>3, <1>12
  <2>3. up /\ t = <<>> => /\ m = n /\ w.at = "write"
                          /\ Len(w.text) = Len(v.text) /\ w.size = v.size
    BY <1>6, <1>10, <1>12, <2>2
  <2>4. ReaderAt(t, v, w, n, up) BY <1>12, <2>1, <2>2, <2>3 DEF ReaderAt
  <2> QED BY <1>3, <1>5, <1>8, <1>11, <1>12, <2>4 DEF Flows, t
<1>13. CASE v.at # "read"
  <2>1. l = r.size BY <1>13
  <2>2. t # <<>> => t[1].part = 0 BY <1>5, <1>6, <2>1 DEF Follows
  <2>3. ReaderAt(t, v, w, n, up) BY <1>13, <2>2 DEF ReaderAt
  <2>4. up /\ t = <<>> => w.at # "write" BY <1>6, <1>10, <2>1
  <2> QED BY <1>3, <1>5, <1>9, <1>11, <1>13, <2>3, <2>4 DEF Flows, t
<1> QED BY <1>12, <1>13
----------------------------------------
(* The shape of the state. *)
Ops == [at : {"idle", "evaluate", "write", "read"}, port : Ports \cup {<<>>},
        size : Sizes \cup {0}, text : Seq(Pieces)]

\* Each port has a user and another port at the other end.
LEMMA PortFacts ==
  ASSUME MessagesAssumption, NEW q \in Ports
  PROVE  /\ User(q) \in Processes /\ Peer(q) \in Ports /\ Peer(q) # q /\ Peer(Peer(q)) = q
         /\ q[1] \in Children /\ Peer(q)[1] = q[1]
         /\ \A c \in Children : User(q) = c => q = <<c, "child">>
         /\ User(q) = Parent => q[2] = "parent"
         /\ \A c \in Children : q = <<c, "parent">> \/ q = <<c, "child">> \/ q[1] # c
<1>1. PICK d \in Children : q = <<d, "parent">> \/ q = <<d, "child">> BY DEF Ports
<1>2. 0 \notin Children BY DEF MessagesAssumption
<1>3. CASE q = <<d, "parent">> BY <1>1, <1>2, <1>3 DEF Ports, Processes, Parent, User, Peer
<1>4. CASE q = <<d, "child">> BY <1>1, <1>2, <1>4 DEF Ports, Processes, Parent, User, Peer
<1> QED BY <1>1, <1>3, <1>4

\* The operations a process can be at.
LEMMA OpFacts ==
  ASSUME MessagesAssumption
  PROVE  /\ Idle \in Ops /\ Idle.at = "idle" /\ Idle.text = <<>>
         /\ \A what \in {"evaluate", "write", "read"}, q \in Ports, s \in Sizes :
              LET o == Doing(what, q, s) IN
              /\ o \in Ops /\ o # Idle /\ o.at = what /\ o.port = q /\ o.size = s /\ o.text = <<>>
         /\ \A o \in Ops : o.at \in {"idle", "evaluate", "write", "read"} /\ o.text \in Seq(Pieces)
<1>1. <<>> \in Seq(Pieces) OBVIOUS
<1>2. Idle \in Ops /\ Idle.at = "idle" /\ Idle.text = <<>> BY <1>1 DEF Idle, Ops
<1>3. ASSUME NEW what \in {"evaluate", "write", "read"}, NEW q \in Ports, NEW s \in Sizes
      PROVE  LET o == Doing(what, q, s) IN
             /\ o \in Ops /\ o # Idle /\ o.at = what /\ o.port = q /\ o.size = s /\ o.text = <<>>
  <2>1. Doing(what, q, s) \in Ops BY <1>1 DEF Doing, Ops
  <2>2. /\ Doing(what, q, s).at = what /\ Doing(what, q, s).port = q
        /\ Doing(what, q, s).size = s /\ Doing(what, q, s).text = <<>> BY DEF Doing
  <2>3. Doing(what, q, s) # Idle BY <1>2, <2>2
  <2> QED BY <2>1, <2>2, <2>3
<1>4. \A o \in Ops : o.at \in {"idle", "evaluate", "write", "read"} /\ o.text \in Seq(Pieces)
  BY DEF Ops
<1> QED BY <1>2, <1>3, <1>4

\* What the shape says of a process that is doing something.
LEMMA OpBusy ==
  ASSUME MessagesAssumption, Shape, NEW p \in Processes, op[p].at # "idle"
  PROVE  /\ op[p] \in Ops /\ op[p] # Idle
         /\ op[p].port \in Ports /\ User(op[p].port) = p /\ op[p].size \in Sizes
         /\ state[op[p].port[1]] # "none"
         /\ op[p].text \in Seq(Pieces) /\ Len(op[p].text) < op[p].size
         /\ op[p].at = "evaluate" => op[p].text = <<>> /\ sent[op[p].port] < MaxSent
<1>1. op[p] \in Ops BY DEF Shape, ChannelsTyped, Ops
<1>2. op[p] # Idle BY OpFacts
<1>3. Doable(p) BY DEF Shape
<1> QED BY <1>1, <1>2, <1>3, OpFacts DEF Doable

\* The step of one process p, at its port, with the sockets open as they were.
LEMMA StepShape ==
  ASSUME MessagesAssumption, Shape, NEW p \in Processes, NEW o \in Ops,
         op' = [op EXCEPT ![p] = o],
         o # Idle => /\ o.port \in Ports /\ User(o.port) = p /\ o.size \in Sizes
                     /\ isOpen[o.port] /\ o.at # "idle"
                     /\ Len(o.text) < o.size
                     /\ o.at = "evaluate" => o.text = <<>> /\ sent[o.port] < MaxSent,
         NEW q \in Ports, NEW x \in Seq(Pieces), isOpen[q],
         stream' = [stream EXCEPT ![q] = x] \/ UNCHANGED stream,
         UNCHANGED <<isOpen, state, listed, fd, fdSet>>,
         sent' \in [Ports -> 0..MaxSent], received' \in [Ports -> Seq(Seq(Pieces))],
         \/ UNCHANGED sent
         \/ \E t \in Ports : \E n : sent' = [sent EXCEPT ![t] = n] /\ User(t) = p /\ o.at # "evaluate"
  PROVE  Shape'
<1>1. ChannelsTyped /\ Unborn BY DEF Shape
<1>2. op \in [Processes -> Ops] /\ op' \in [Processes -> Ops] BY <1>1 DEF ChannelsTyped, Ops
<1>3. /\ stream \in [Ports -> Seq(Pieces)] /\ stream' \in [Ports -> Seq(Pieces)]
      /\ \A t \in Ports : ~isOpen[t] => stream'[t] = <<>>
  <2>1. stream \in [Ports -> Seq(Pieces)] /\ \A t \in Ports : ~isOpen[t] => stream[t] = <<>>
    BY <1>1 DEF ChannelsTyped
  <2>2. CASE stream' = [stream EXCEPT ![q] = x]
    <3>1. \A t \in Ports : stream'[t] = IF t = q THEN x ELSE stream[t] BY <2>1, <2>2
    <3> QED BY <2>1, <2>2, <3>1
  <2>3. CASE UNCHANGED stream BY <2>1, <2>3
  <2> QED BY <2>1, <2>2, <2>3
<1>4. \A r \in Processes : op'[r].at \in {"write", "read"} => isOpen[op'[r].port]
  <2>. SUFFICES ASSUME NEW r \in Processes, op'[r].at \in {"write", "read"}
               PROVE  isOpen[op'[r].port] OBVIOUS
  <2>1. CASE r = p
    <3>1. op'[r] = o BY <1>2, <2>1
    <3>2. o # Idle BY <3>1, OpFacts
    <3> QED BY <3>1, <3>2
  <2>2. CASE r # p
    <3>1. op'[r] = op[r] BY <1>2, <2>2
    <3> QED BY <1>1, <3>1 DEF ChannelsTyped
  <2> QED BY <2>1, <2>2
<1>5. ChannelsTyped' BY <1>1, <1>2, <1>3, <1>4 DEF ChannelsTyped, Ops
<1>6. Unborn' BY <1>1 DEF Unborn, Peer
<1>7. ASSUME NEW r \in Processes PROVE Doable(r)'
  <2>1. CASE r = p
    <3>1. op'[r] = o BY <1>2, <2>1
    <3>2. o # Idle => state[o.port[1]] # "none" BY <1>1 DEF Unborn
    <3>3. o.at = "evaluate" => UNCHANGED sent OBVIOUS
    <3> QED BY <2>1, <3>1, <3>2, <3>3 DEF Doable
  <2>2. CASE r # p
    <3>1. op'[r] = op[r] /\ Doable(r) BY <1>2, <2>2 DEF Shape
    <3>2. op[r] # Idle => op[r].port \in Ports /\ User(op[r].port) = r BY <3>1 DEF Doable
    <3>3. op[r] # Idle => sent'[op[r].port] = sent[op[r].port]
      <4>1. sent \in [Ports -> 0..MaxSent] BY <1>1 DEF ChannelsTyped
      <4> QED BY <2>2, <3>2, <4>1
    <3> QED BY <3>1, <3>3 DEF Doable
  <2> QED BY <2>1, <2>2
<1> QED BY <1>5, <1>6, <1>7 DEF Shape

----------------------------------------
(* The flow at the ports that a step is not about. *)
Up(q) == isOpen[q] /\ isOpen[Peer(q)]

\* A process's step at port q changes no reader and no writer at another port.
LEMMA OthersStay ==
  ASSUME MessagesAssumption, Shape, NEW q \in Ports, NEW o \in Ops,
         op' = [op EXCEPT ![User(q)] = o],
         op[User(q)] = Idle \/ op[User(q)].port = q, o = Idle \/ o.port = q
  PROVE  /\ \A t \in Ports : t # q => Reader(t)' = Reader(t) /\ Writer(t)' = Writer(t)
         /\ Reader(q)' = IF o.at = "read" THEN o ELSE Idle
         /\ Writer(q)' = IF o.at = "write" THEN o ELSE Idle
         /\ Reader(q) = IF op[User(q)].at = "read" THEN op[User(q)] ELSE Idle
         /\ Writer(q) = IF op[User(q)].at = "write" THEN op[User(q)] ELSE Idle
<1>1. op \in [Processes -> Ops] /\ User(q) \in Processes /\ Idle.at = "idle"
  BY PortFacts, OpFacts DEF Shape, ChannelsTyped, Ops
<1>2. op'[User(q)] = o BY <1>1
<1>3. ASSUME NEW t \in Ports, t # q
      PROVE  Reader(t)' = Reader(t) /\ Writer(t)' = Writer(t)
  <2>1. CASE User(t) # User(q)
    <3>1. op'[User(t)] = op[User(t)] BY <1>1, <2>1, PortFacts
    <3> QED BY <3>1 DEF Reader, Writer, User
  <2>2. CASE User(t) = User(q)
    <3>1. ~(op[User(t)].at \in {"read", "write"} /\ op[User(t)].port = t) BY <1>1, <1>3, <2>2
    <3>2. ~(op'[User(t)].at \in {"read", "write"} /\ op'[User(t)].port = t)
      BY <1>1, <1>2, <1>3, <2>2
    <3> QED BY <3>1, <3>2 DEF Reader, Writer, User
  <2> QED BY <2>1, <2>2
<1>4. Reader(q)' = IF o.at = "read" THEN o ELSE Idle BY <1>1, <1>2 DEF Reader, User
<1>5. Writer(q)' = IF o.at = "write" THEN o ELSE Idle BY <1>1, <1>2 DEF Writer, User
<1>6. /\ Reader(q) = IF op[User(q)].at = "read" THEN op[User(q)] ELSE Idle
      /\ Writer(q) = IF op[User(q)].at = "write" THEN op[User(q)] ELSE Idle
  BY <1>1 DEF Reader, Writer
<1> QED BY <1>3, <1>4, <1>5, <1>6

\* The flow at a port where nothing changes, or only a socket is closed.
LEMMA FlowStays ==
  ASSUME MessagesAssumption, NEW q \in Ports, Flow(q),
         stream'[q] = stream[q], Reader(q)' = Reader(q),
         \/ Up(q)' = FALSE
         \/ Up(q)' = Up(q) /\ Writer(Peer(q))' = Writer(Peer(q)) /\ sent'[Peer(q)] = sent[Peer(q)]
  PROVE  Flow(q)'
<1>1. Flows(stream[q], Reader(q), Writer(Peer(q)), sent[Peer(q)], Up(q)) BY DEF Flow, Up
<1>2. CASE Up(q)' = FALSE
  <2>1. Flows(stream[q], Reader(q), Writer(Peer(q))', sent'[Peer(q)], FALSE) BY <1>1, FlowDown
  <2> QED BY <1>2, <2>1 DEF Flow, Up, Peer
<1>3. CASE Up(q)' = Up(q) /\ Writer(Peer(q))' = Writer(Peer(q)) /\ sent'[Peer(q)] = sent[Peer(q)]
  BY <1>1, <1>3 DEF Flow, Up, Peer
<1> QED BY <1>2, <1>3

----------------------------------------
(* One lemma for each action: it keeps the invariant, and it is a step of *)
(* the queues of whole messages or changes nothing there. *)
\* A change of one stream changes one queue.
LEMMA QueuedChanges ==
  ASSUME stream \in [Ports -> Seq(Pieces)], NEW q \in Ports, NEW x,
         stream' = [stream EXCEPT ![q] = x]
  PROVE  /\ Queued' = [Queued EXCEPT ![q] = WholeTexts(x)] /\ Queued[q] = WholeTexts(stream[q])
         /\ WholeTexts(x) = WholeTexts(stream[q]) => Queued' = Queued
<1>1. stream' = [t \in Ports |-> IF t = q THEN x ELSE stream[t]] OBVIOUS
<1>2. Queued' = [t \in Ports |-> WholeTexts(stream'[t])]
  BY DEF Queued, WholeTexts, Whole, Ends, SizeOf
<1>3. \A t \in Ports : WholeTexts(stream'[t]) = IF t = q THEN WholeTexts(x) ELSE WholeTexts(stream[t])
  BY <1>1
<1>4. Queued = [t \in Ports |-> WholeTexts(stream[t])] BY DEF Queued
<1> QED BY <1>2, <1>3, <1>4

\* Nothing changes in the streams.
LEMMA QueuedStays ==
  ASSUME UNCHANGED <<stream, received>> PROVE Queued' = Queued /\ BoxStep
<1>1. Queued' = Queued BY DEF Queued, WholeTexts, Whole, Ends, SizeOf
<1> QED BY <1>1 DEF BoxStep

\* Beginning to send, and an evaluation that ends in an error, send nothing.
LEMMA SendBeginsInv ==
  ASSUME MessagesAssumption, MessageInv, NEW q \in Ports, NEW s \in Sizes, SendBegins(q, s)
  PROVE  MessageInv' /\ BoxStep
<1>. DEFINE o == Doing("evaluate", q, s)
<1>1. /\ op[User(q)] = Idle /\ isOpen[q] /\ sent[q] < MaxSent
      /\ op' = [op EXCEPT ![User(q)] = o]
      /\ UNCHANGED <<stream, isOpen, state, listed, fd, fdSet, sent, received>>
  BY DEF SendBegins, sockets, children, history
<1>2. Shape /\ ChannelsTyped BY DEF MessageInv, Shape
<1>3. o \in Ops /\ o.at = "evaluate" /\ o.port = q /\ o.size = s /\ o.text = <<>> BY OpFacts
<1>4. s > 0 /\ Len(<<>>) = 0 /\ User(q) \in Processes BY Positive, PortFacts
<1>5. stream[q] \in Seq(Pieces) /\ sent \in [Ports -> 0..MaxSent]
      /\ received \in [Ports -> Seq(Seq(Pieces))] BY <1>2 DEF ChannelsTyped
<1>. HIDE DEF o
<1>6. Shape' BY <1>1, <1>2, <1>3, <1>4, <1>5, StepShape
<1>7. \A t \in Ports : Reader(t)' = Reader(t) /\ Writer(t)' = Writer(t)
  <2>1. /\ \A t \in Ports : t # q => Reader(t)' = Reader(t) /\ Writer(t)' = Writer(t)
        /\ Reader(q)' = Idle /\ Writer(q)' = Idle BY <1>1, <1>2, <1>3, OthersStay
  <2>2. Reader(q) = Idle /\ Writer(q) = Idle BY <1>1 DEF Reader, Writer
  <2> QED BY <2>1, <2>2
<1>8. \A t \in Ports : Flow(t)'
  <2>. SUFFICES ASSUME NEW t \in Ports PROVE Flow(t)' OBVIOUS
  <2>1. Flow(t) /\ Peer(t) \in Ports BY PortFacts DEF MessageInv
  <2>2. Up(t)' = Up(t) BY <1>1 DEF Up, Peer
  <2>3. Writer(Peer(t))' = Writer(Peer(t)) BY <1>7, <2>1
  <2> QED BY <1>1, <1>7, <2>1, <2>2, <2>3, FlowStays
<1> QED BY <1>1, <1>6, <1>8, QueuedStays DEF MessageInv

\* The expression of a send throws or fails: nothing has been written yet.
LEMMA SendThrowsInv ==
  ASSUME MessagesAssumption, MessageInv, NEW p \in Processes, SendThrows(p)
  PROVE  MessageInv' /\ BoxStep
<1>. DEFINE q == op[p].port
<1>1. /\ op[p].at = "evaluate" /\ op' = [op EXCEPT ![p] = Idle]
      /\ UNCHANGED <<stream, isOpen, state, listed, fd, fdSet, sent, received>>
  BY DEF SendThrows, sockets, children, history
<1>2. Shape /\ ChannelsTyped BY DEF MessageInv, Shape
<1>3. q \in Ports /\ User(q) = p BY <1>1, <1>2, OpBusy
<1>. HIDE DEF q
<1>4. Shape'
  <2>1. op \in [Processes -> Ops] /\ op' \in [Processes -> Ops] /\ op'[p] = Idle
        /\ \A r \in Processes : r # p => op'[r] = op[r]
    BY <1>1, <1>2, OpFacts DEF ChannelsTyped, Ops
  <2>2. ChannelsTyped' BY <1>1, <1>2, <2>1, OpFacts DEF ChannelsTyped, Ops
  <2>3. Unborn' BY <1>1, <1>2 DEF Shape, Unborn, Peer
  <2>4. ASSUME NEW r \in Processes PROVE Doable(r)' BY <1>1, <1>2, <2>1 DEF Shape, Doable
  <2> QED BY <2>2, <2>3, <2>4 DEF Shape
<1>5. \A t \in Ports : Reader(t)' = Reader(t) /\ Writer(t)' = Writer(t)
  <2>1. op[User(q)].port = q /\ Idle \in Ops /\ Idle.at = "idle" BY <1>3, OpFacts DEF q
  <2> QED BY <1>1, <1>2, <1>3, <2>1, OthersStay
<1>6. \A t \in Ports : Flow(t)'
  <2>. SUFFICES ASSUME NEW t \in Ports PROVE Flow(t)' OBVIOUS
  <2>1. Flow(t) /\ Peer(t) \in Ports BY PortFacts DEF MessageInv
  <2>2. Up(t)' = Up(t) BY <1>1 DEF Up, Peer
  <2>3. Writer(Peer(t))' = Writer(Peer(t)) BY <1>5, <2>1
  <2> QED BY <1>1, <1>5, <2>1, <2>2, <2>3, FlowStays
<1> QED BY <1>1, <1>4, <1>6, QueuedStays DEF MessageInv

\* A step at port q leaves the flow at other pairs of ports as it is.
LEMMA OtherFlows ==
  ASSUME MessagesAssumption, MessageInv, NEW q \in Ports, NEW o \in Ops,
         op' = [op EXCEPT ![User(q)] = o],
         op[User(q)] = Idle \/ op[User(q)].port = q, o = Idle \/ o.port = q,
         UNCHANGED isOpen,
         NEW t \in Ports, t # q, t # Peer(q), stream'[t] = stream[t],
         sent'[Peer(t)] = sent[Peer(t)]
  PROVE  Flow(t)'
<1>1. Shape /\ Flow(t) BY DEF MessageInv
<1>2. Peer(t) \in Ports /\ Peer(t) # q BY PortFacts
<1>3. Reader(t)' = Reader(t) /\ Writer(Peer(t))' = Writer(Peer(t)) BY <1>1, <1>2, OthersStay
<1>4. Up(t)' = Up(t) BY DEF Up, Peer
<1> QED BY <1>1, <1>3, <1>4, FlowStays

\* The first send().
LEMMA SendLengthInv ==
  ASSUME MessagesAssumption, MessageInv, NEW p \in Processes, SendLength(p)
  PROVE  MessageInv' /\ BoxStep
<1>0. PICK a, q, n, s : a = op[p] /\ q = a.port /\ n = sent[q] /\ s = stream[Peer(q)] OBVIOUS
<1>. DEFINE d == Peer(q)
            b == Piece(n + 1, 0, a.size)
            x == Append(s, b)
            o == [a EXCEPT !.at = "write"]
<1>1. Shape /\ ChannelsTyped BY DEF MessageInv, Shape
<1>2. /\ a.at = "evaluate" /\ isOpen[q] /\ isOpen[d]
      /\ stream' = [stream EXCEPT ![d] = x]
      /\ sent' = [sent EXCEPT ![q] = n + 1]
      /\ UNCHANGED <<isOpen, state, listed, fd, fdSet, received>>
  BY <1>0 DEF SendLength, Space, Put, children
<1>3. op' = [op EXCEPT ![p] = o] BY <1>0 DEF SendLength
<1>4. /\ a \in Ops /\ q \in Ports /\ User(q) = p /\ a.size \in Sizes
      /\ a.text = <<>> /\ n < MaxSent BY <1>0, <1>1, <1>2, OpBusy
<1>5. d \in Ports /\ d # q /\ Peer(d) = q BY <1>4, PortFacts
<1>6. o \in Ops /\ o.at = "write" /\ o.port = q /\ o.size = a.size /\ o.text = <<>> /\ o # Idle
  <2>1. o \in Ops /\ o.at = "write" /\ o.port = q /\ o.size = a.size /\ o.text = <<>>
    BY <1>0, <1>4 DEF Ops
  <2> QED BY <2>1, OpFacts
<1>7. /\ stream \in [Ports -> Seq(Pieces)] /\ sent \in [Ports -> 0..MaxSent]
      /\ received \in [Ports -> Seq(Seq(Pieces))] BY <1>1 DEF ChannelsTyped
<1>8. n \in Nat /\ MaxSent \in Nat BY <1>0, <1>4, <1>7, Positive
<1>9. /\ Reader(d)' = Reader(d) /\ Writer(q)' = o /\ Reader(q)' = Idle
      /\ Reader(q) = Idle /\ Writer(q) = Idle /\ Writer(d)' = Writer(d)
  BY <1>0, <1>1, <1>2, <1>3, <1>4, <1>5, <1>6, OthersStay
<1>10. Flow(d) /\ Flow(q) BY <1>4, <1>5 DEF MessageInv
<1>11. Flows(s, Reader(d), Idle, n, TRUE)
  <2>1. (isOpen[d] /\ isOpen[Peer(d)]) = TRUE BY <1>2, <1>5
  <2> QED BY <1>0, <1>5, <1>9, <1>10, <2>1 DEF Flow
<1>12. /\ b \in Pieces
       /\ Flows(x, Reader(d), o, n + 1, TRUE)
       /\ WholeTexts(x) = WholeTexts(s)
  <2>1. Idle.at # "write" BY OpFacts
  <2>2. o.size = a.size /\ o.at = "write" /\ o.text = <<>> BY <1>6
  <2>. HIDE DEF o
  <2>3. LET e == Piece(n + 1, 0, o.size) IN
        /\ e \in Pieces
        /\ Flows(Append(s, e), Reader(d), o, n + 1, TRUE)
        /\ WholeTexts(Append(s, e)) = WholeTexts(s) BY <1>4, <1>8, <1>11, <2>1, <2>2, FlowBegins
  <2> QED BY <2>2, <2>3
<1>. HIDE DEF d, o, x, b
<1>13. x \in Seq(Pieces) BY <1>12 DEF Flows, Sound
<1>14. Shape'
  <2>1. sent' \in [Ports -> 0..MaxSent]
    <3>1. n + 1 \in 0..MaxSent BY <1>4, <1>8
    <3> QED BY <1>2, <1>7, <3>1
  <2>2. Len(o.text) < o.size
    <3>1. Len(o.text) = 0 /\ a.size > 0 BY <1>4, <1>6, Positive
    <3> QED BY <1>6, <3>1
  <2>3. o.at # "evaluate" /\ o.at # "idle" BY <1>6
  <2>4. \E t \in Ports : \E m : sent' = [sent EXCEPT ![t] = m] /\ User(t) = p /\ o.at # "evaluate"
    BY <1>2, <1>4, <2>3
  <2>5. received' \in [Ports -> Seq(Seq(Pieces))] BY <1>2, <1>7
  <2>6. o # Idle => /\ o.port \in Ports /\ User(o.port) = p /\ o.size \in Sizes
                    /\ isOpen[o.port] /\ o.at # "idle"
                    /\ Len(o.text) < o.size
                    /\ o.at = "evaluate" => o.text = <<>> /\ sent[o.port] < MaxSent
    BY <1>2, <1>4, <1>6, <2>2, <2>3
  <2>7. UNCHANGED <<isOpen, state, listed, fd, fdSet>> /\ isOpen[d]
        /\ stream' = [stream EXCEPT ![d] = x] BY <1>2
  <2> QED BY <1>1, <1>3, <1>5, <1>6, <1>13, <2>1, <2>4, <2>5, <2>6, <2>7, StepShape
<1>15. Flow(d)'
  <2>1. stream'[d] = x /\ sent'[q] = n + 1 BY <1>2, <1>4, <1>5, <1>7
  <2>2. (isOpen'[d] /\ isOpen'[Peer(d)]) = TRUE BY <1>2, <1>5
  <2>3. Flows(stream'[d], Reader(d)', Writer(q)', sent'[q], TRUE) BY <1>9, <1>12, <2>1
  <2>4. Flows(stream'[d], Reader(d)', Writer(Peer(d))', sent'[Peer(d)], isOpen'[d] /\ isOpen'[Peer(d)])
    BY <1>5, <2>2, <2>3
  <2> QED BY <2>4 DEF Flow, Peer
<1>16. Flow(q)'
  <2>1. stream'[q] = stream[q] /\ sent'[d] = sent[d] BY <1>2, <1>4, <1>5, <1>7
  <2>2. Up(q)' = Up(q) BY <1>2 DEF Up, Peer
  <2>3. d = Peer(q) BY DEF d
  <2>4. Writer(Peer(q))' = Writer(Peer(q)) /\ sent'[Peer(q)] = sent[Peer(q)] BY <1>9, <2>1, <2>3
  <2> QED BY <1>4, <1>9, <1>10, <2>1, <2>2, <2>4, FlowStays
<1>17. \A t \in Ports : Flow(t)'
  <2>. SUFFICES ASSUME NEW t \in Ports, t # q, t # d PROVE Flow(t)' BY <1>15, <1>16
  <2>1. Peer(t) \in Ports /\ Peer(t) # q BY <1>5, PortFacts
  <2>2. stream'[t] = stream[t] /\ sent'[Peer(t)] = sent[Peer(t)] BY <1>2, <1>7, <2>1
  <2>3. t # Peer(q) /\ op[User(q)].port = q BY <1>0, <1>4 DEF d
  <2> QED BY <1>2, <1>3, <1>4, <1>6, <2>2, <2>3, OtherFlows
<1>18. BoxStep
  <2>1. Queued' = Queued BY <1>0, <1>2, <1>5, <1>7, <1>12, QueuedChanges DEF d
  <2> QED BY <1>2, <2>1 DEF BoxStep
<1> QED BY <1>14, <1>17, <1>18 DEF MessageInv

\* A message that is being written has a number.
LEMMA FlowNumber ==
  ASSUME MessagesAssumption, NEW s, NEW r, NEW w, NEW n, Flows(s, r, w, n, TRUE), w.at = "write"
  PROVE  n \in 1..MaxSent
<1>1. s \in Seq(Pieces) BY DEF Flows, Sound
<1>2. CASE s = <<>> BY <1>2 DEF Flows, ReaderAt
<1>3. CASE s # <<>>
  <2>1. Len(s) \in DOMAIN s BY <1>1, <1>3
  <2>2. s[Len(s)].msg \in 1..MaxSent BY <1>1, <2>1, MessageNumbers
  <2> QED BY <1>3, <2>2 DEF Flows, WriterAt
<1> QED BY <1>2, <1>3

\* The second send(): one piece more, or the other end is closed.
LEMMA SendTextInv ==
  ASSUME MessagesAssumption, MessageInv, NEW p \in Processes, SendText(p)
  PROVE  MessageInv' /\ BoxStep
<1>0. PICK a, q, n, s : a = op[p] /\ q = a.port /\ n = sent[q] /\ s = stream[Peer(q)] OBVIOUS
<1>. DEFINE d == Peer(q)
            b == Piece(n, Len(a.text) + 1, a.size)
            x == Append(s, b)
            y == Append(a.text, b)
<1>1. Shape /\ ChannelsTyped BY DEF MessageInv, Shape
<1>2. /\ a.at = "write"
      /\ UNCHANGED <<isOpen, state, listed, fd, fdSet, sent, received>>
  BY <1>0 DEF SendText, children, history
<1>3. /\ a \in Ops /\ q \in Ports /\ User(q) = p /\ a.size \in Sizes /\ a # Idle
      /\ a.text \in Seq(Pieces) /\ Len(a.text) < a.size /\ Len(a.text) \in Nat /\ a.size \in Nat
  <2>1. op[p].at # "idle" BY <1>0, <1>2
  <2>2. /\ a \in Ops /\ q \in Ports /\ User(q) = p /\ a.size \in Sizes /\ a # Idle
        /\ a.text \in Seq(Pieces) /\ Len(a.text) < a.size BY <1>0, <1>1, <2>1, OpBusy
  <2> QED BY <2>2, Positive
<1>4. d \in Ports /\ d # q /\ Peer(d) = q BY <1>3, PortFacts
<1>5. /\ stream \in [Ports -> Seq(Pieces)] /\ sent \in [Ports -> 0..MaxSent]
      /\ received \in [Ports -> Seq(Seq(Pieces))]
      /\ isOpen[q] BY <1>0, <1>1, <1>2 DEF ChannelsTyped
<1>6. Flow(d) /\ Flow(q) BY <1>3, <1>4 DEF MessageInv
<1>7. Idle \in Ops /\ Idle.at = "idle" BY OpFacts
<1>8. /\ sent' \in [Ports -> 0..MaxSent] /\ received' \in [Ports -> Seq(Seq(Pieces))]
      /\ UNCHANGED <<isOpen, state, listed, fd, fdSet>> /\ UNCHANGED sent BY <1>2, <1>5
<1>9. op[User(q)].port = q /\ op[User(q)] = a BY <1>0, <1>3
<1>10. CASE Space(q) /\ stream' = [stream EXCEPT ![d] = x]
            /\ op' = [op EXCEPT ![p] = IF Len(y) = a.size THEN Idle ELSE [a EXCEPT !.text = y]]
  <2>. DEFINE o == IF Len(y) = a.size THEN Idle ELSE [a EXCEPT !.text = y]
  <2>1. isOpen[d] BY <1>10 DEF Space
  <2>2. Writer(q) = a /\ Reader(q) = Idle BY <1>2, <1>9 DEF Writer, Reader
  <2>3. (isOpen[d] /\ isOpen[Peer(d)]) = TRUE /\ (isOpen'[d] /\ isOpen'[Peer(d)]) = TRUE
    BY <1>2, <1>4, <1>5, <2>1
  <2>4. Flows(s, Reader(d), a, n, TRUE) BY <1>0, <1>4, <1>6, <2>2, <2>3 DEF Flow
  <2>5. n \in 1..MaxSent BY <1>2, <2>4, FlowNumber
  <2>6. b \in Pieces BY <1>3, <2>5 DEF Pieces, Piece
  <2>7. y \in Seq(Pieces) /\ Len(y) = Len(a.text) + 1 BY <1>3, <2>6
  <2>. HIDE DEF y, b
  <2>8. \/ o.at # "write" /\ Len(a.text) + 1 = a.size /\ o = Idle
        \/ /\ o.at = "write" /\ Len(o.text) = Len(a.text) + 1 /\ o.size = a.size
           /\ Len(a.text) + 1 < a.size
           /\ o.port = q /\ o \in Ops /\ o.text = y
    <3>1. CASE Len(y) = a.size BY <1>7, <2>7, <3>1
    <3>2. CASE Len(y) # a.size
      <4>1. o = [a EXCEPT !.text = y] BY <3>2
      <4>. HIDE DEF o
      <4>2. o.at = "write" /\ o.size = a.size /\ o.port = q /\ o.text = y /\ o \in Ops
        BY <1>0, <1>2, <1>3, <2>7, <4>1 DEF Ops
      <4>3. Len(a.text) + 1 < a.size BY <1>3, <2>7, <3>2
      <4> QED BY <2>7, <4>2, <4>3
    <3> QED BY <3>1, <3>2
  <2>9. op' = [op EXCEPT ![p] = o] BY <1>10
  <2>. HIDE DEF o
  <2>10. /\ Flows(x, Reader(d), o, n, TRUE)
         /\ o.at = "write" => WholeTexts(x) = WholeTexts(s)
         /\ o.at # "write" => WholeTexts(x) = Append(WholeTexts(s), Text(n, a.size))
    <3>0. \/ o.at # "write" /\ Len(a.text) + 1 = a.size
          \/ o.at = "write" /\ Len(o.text) = Len(a.text) + 1 /\ o.size = a.size
             /\ Len(a.text) + 1 < a.size BY <2>8
    <3>. HIDE DEF x, d
    <3>1. LET e == Piece(n, Len(a.text) + 1, a.size) IN
          /\ e \in Pieces
          /\ Flows(Append(s, e), Reader(d), o, n, TRUE)
          /\ o.at = "write" => WholeTexts(Append(s, e)) = WholeTexts(s)
          /\ o.at # "write" => WholeTexts(Append(s, e)) = Append(WholeTexts(s), Text(n, a.size))
      BY <1>2, <1>3, <2>4, <2>5, <3>0, FlowWrites
    <3> QED BY <3>1 DEF b, x
  <2>11. o \in Ops /\ (o = Idle \/ o.port = q) /\ (o.at = "write" \/ o.at = "idle") /\ (o.at = "idle" => o = Idle)
    BY <1>7, <2>8
  <2>12. x \in Seq(Pieces) BY <2>10 DEF Flows, Sound
  <2>. HIDE DEF d, x
  <2>13. /\ Reader(d)' = Reader(d) /\ Reader(q)' = Idle /\ Writer(d)' = Writer(d)
         /\ Writer(q)' = IF o.at = "write" THEN o ELSE Idle
    BY <1>1, <1>3, <1>4, <1>9, <2>9, <2>11, OthersStay
  <2>14. Shape'
    <3>1. o # Idle => /\ o.port \in Ports /\ User(o.port) = p /\ o.size \in Sizes
                      /\ isOpen[o.port] /\ o.at # "idle"
                      /\ Len(o.text) < o.size
                      /\ o.at = "evaluate" => o.text = <<>> /\ sent[o.port] < MaxSent
      BY <1>3, <1>5, <1>7, <2>8
    <3> QED BY <1>1, <1>4, <1>8, <1>10, <2>1, <2>9, <2>11, <2>12, <3>1, StepShape
  <2>15. Flow(d)'
    <3>1. stream'[d] = x /\ sent'[q] = n BY <1>0, <1>2, <1>4, <1>5, <1>10
    <3>2. o.at # "write" => o = Idle BY <1>7, <2>8
    <3>3. Flows(stream'[d], Reader(d)', Writer(q)', sent'[q], TRUE) BY <2>10, <2>13, <3>1, <3>2
    <3>4. Flows(stream'[d], Reader(d)', Writer(Peer(d))', sent'[Peer(d)], isOpen'[d] /\ isOpen'[Peer(d)])
      BY <1>4, <2>3, <3>3
    <3> QED BY <3>4 DEF Flow, Peer
  <2>16. Flow(q)'
    <3>1. stream'[q] = stream[q] /\ sent'[d] = sent[d] /\ d = Peer(q)
      BY <1>2, <1>3, <1>4, <1>5, <1>10 DEF d
    <3>2. Up(q)' = Up(q) BY <1>2 DEF Up, Peer
    <3> QED BY <1>3, <1>6, <2>2, <2>13, <3>1, <3>2, FlowStays
  <2>17. \A t \in Ports : Flow(t)'
    <3>. SUFFICES ASSUME NEW t \in Ports, t # q, t # d PROVE Flow(t)' BY <2>15, <2>16
    <3>1. stream'[t] = stream[t] /\ sent'[Peer(t)] = sent[Peer(t)] BY <1>2, <1>5, <1>10
    <3>2. t # Peer(q) BY DEF d
    <3> QED BY <1>2, <1>3, <1>9, <2>9, <2>11, <3>1, <3>2, OtherFlows
  <2>18. BoxStep
    <3>1. /\ Queued' = [Queued EXCEPT ![d] = WholeTexts(x)] /\ Queued[d] = WholeTexts(s)
          /\ WholeTexts(x) = WholeTexts(s) => Queued' = Queued
      BY <1>0, <1>4, <1>5, <1>10, QueuedChanges DEF d
    <3>2. CASE o.at = "write" BY <1>2, <2>10, <3>1, <3>2 DEF BoxStep
    <3>3. CASE o.at # "write"
      <4>1. Queued' = [Queued EXCEPT ![d] = Append(@, Text(n, a.size))] /\ received' = received
        BY <1>2, <2>10, <3>1, <3>3
      <4>2. Boxes!Deposit(d, Text(n, a.size)) BY <4>1 DEF Boxes!Deposit
      <4>3. Text(n, a.size) \in {Text(k, z) : k \in 1..MaxSent, z \in Sizes} BY <1>3, <2>5
      <4>4. Boxes!Next BY <1>4, <4>2, <4>3 DEF Boxes!Next
      <4> QED BY <4>4 DEF BoxStep
    <3> QED BY <3>2, <3>3
  <2> QED BY <2>14, <2>17, <2>18 DEF MessageInv
<1>11. CASE ~isOpen[d] /\ op' = [op EXCEPT ![p] = Idle] /\ UNCHANGED stream
  <2>1. /\ \A t \in Ports : t # q => Reader(t)' = Reader(t) /\ Writer(t)' = Writer(t)
        /\ Reader(q)' = Idle /\ Reader(q) = Idle
    BY <1>1, <1>2, <1>3, <1>7, <1>9, <1>11, OthersStay
  <2>. HIDE DEF d, x, y, b
  <2>2. Shape' BY <1>1, <1>3, <1>5, <1>7, <1>8, <1>11, StepShape
  <2>3. ASSUME NEW t \in Ports PROVE Flow(t)'
    <3>1. Flow(t) /\ Peer(t) \in Ports /\ (t = d \/ Peer(t) # q)
      BY <1>3, PortFacts DEF MessageInv, d
    <3>2. CASE t = d
      <4>1. Up(t)' = FALSE BY <1>2, <1>11, <3>2 DEF Up
      <4> QED BY <1>4, <1>11, <2>1, <3>1, <3>2, <4>1, FlowStays
    <3>3. CASE t # d
      <4>1. Up(t)' = Up(t) BY <1>2 DEF Up, Peer
      <4>2. Reader(t)' = Reader(t) BY <2>1
      <4>3. Writer(Peer(t))' = Writer(Peer(t)) /\ sent'[Peer(t)] = sent[Peer(t)]
        BY <1>2, <2>1, <3>1, <3>3
      <4> QED BY <1>11, <3>1, <4>1, <4>2, <4>3, FlowStays
    <3> QED BY <3>2, <3>3
  <2> QED BY <1>2, <1>11, <2>2, <2>3, QueuedStays DEF MessageInv
<1>12. \/ Space(q) /\ stream' = [stream EXCEPT ![d] = x]
          /\ op' = [op EXCEPT ![p] = IF Len(y) = a.size THEN Idle ELSE [a EXCEPT !.text = y]]
       \/ ~isOpen[d] /\ op' = [op EXCEPT ![p] = Idle] /\ UNCHANGED stream
  BY <1>0 DEF SendText, Put, Written
<1> QED BY <1>10, <1>11, <1>12

\* What a process is writing into a stream, in the form the flow lemmas want.
LEMMA WriterIs ==
  ASSUME MessagesAssumption, Shape, NEW q \in Ports, Writer(q).at = "write"
  PROVE  /\ Writer(q).size \in Sizes /\ Writer(q).text \in Seq(Pieces)
         /\ Len(Writer(q).text) < Writer(q).size
<1>1. Writer(q) = op[User(q)] /\ op[User(q)].at = "write" BY OpFacts DEF Writer
<1>2. User(q) \in Processes BY PortFacts
<1> QED BY <1>1, <1>2, OpBusy

\* A change of the stream and the reader at one port, the rest as it was.
LEMMA ReaderStep ==
  ASSUME MessagesAssumption, MessageInv, NEW q \in Ports, NEW o \in Ops,
         op' = [op EXCEPT ![User(q)] = o],
         op[User(q)].at # "write", op[User(q)] = Idle \/ op[User(q)].port = q,
         o.at # "write", o = Idle \/ o.port = q,
         UNCHANGED <<isOpen, sent>>,
         NEW x \in Seq(Pieces), stream' = [stream EXCEPT ![q] = x],
         LET r == IF o.at = "read" THEN o ELSE Idle
         IN  Flows(x, r, Writer(Peer(q)), sent[Peer(q)], isOpen[q] /\ isOpen[Peer(q)])
  PROVE  \A t \in Ports : Flow(t)'
<1>. DEFINE d == Peer(q)
            r == IF o.at = "read" THEN o ELSE Idle
<1>1. d \in Ports /\ d # q /\ Peer(d) = q BY PortFacts
<1>2. Shape /\ stream \in [Ports -> Seq(Pieces)] BY DEF MessageInv, Shape, ChannelsTyped
<1>3. /\ \A t \in Ports : t # q => Reader(t)' = Reader(t) /\ Writer(t)' = Writer(t)
      /\ Reader(q)' = r /\ Writer(q)' = Idle /\ Writer(q) = Idle BY <1>2, OthersStay
<1>. HIDE DEF d, r
<1>4. Flow(q)'
  <2>1. stream'[q] = x /\ sent'[d] = sent[d] /\ Writer(d)' = Writer(d) /\ d = Peer(q)
    BY <1>1, <1>2, <1>3 DEF d
  <2>2. Flows(x, r, Writer(d), sent[d], isOpen[q] /\ isOpen[d]) BY DEF d, r
  <2>3. Flows(stream'[q], Reader(q)', Writer(d)', sent'[d], isOpen'[q] /\ isOpen'[d])
    BY <1>3, <2>1, <2>2
  <2> QED BY <2>1, <2>3 DEF Flow, Peer
<1>5. ASSUME NEW t \in Ports, t # q PROVE Flow(t)'
  <2>1. Flow(t) /\ Peer(t) \in Ports BY PortFacts DEF MessageInv
  <2>2. stream'[t] = stream[t] /\ Reader(t)' = Reader(t) /\ sent'[Peer(t)] = sent[Peer(t)]
    BY <1>2, <1>3, <1>5
  <2>3. Up(t)' = Up(t) BY DEF Up, Peer
  <2>4. Writer(Peer(t))' = Writer(Peer(t))
    <3>1. CASE Peer(t) = q BY <1>3, <3>1
    <3>2. CASE Peer(t) # q BY <1>3, <2>1, <3>2
    <3> QED BY <3>1, <3>2
  <2> QED BY <2>1, <2>2, <2>3, <2>4, FlowStays
<1> QED BY <1>4, <1>5

\* A length is read.
LEMMA TakeInv ==
  ASSUME MessagesAssumption, MessageInv, NEW q \in Ports, stream[q] # <<>>, TakeLength(q),
         op[User(q)] = Idle \/ (op[User(q)].at = "evaluate" /\ op[User(q)].port = q),
         UNCHANGED <<isOpen, state, listed, fd, fdSet, sent, received>>
  PROVE  MessageInv' /\ BoxStep
<1>0. PICK s : s = stream[q] OBVIOUS
<1>. DEFINE o == Doing("read", q, s[1].size)
            x == Tail(s)
<1>1. Shape /\ ChannelsTyped /\ Flow(q) BY DEF MessageInv, Shape
<1>2. /\ stream \in [Ports -> Seq(Pieces)] /\ sent \in [Ports -> 0..MaxSent]
      /\ received \in [Ports -> Seq(Seq(Pieces))] /\ isOpen[q] BY <1>1 DEF ChannelsTyped
<1>3. /\ op' = [op EXCEPT ![User(q)] = o] /\ stream' = [stream EXCEPT ![q] = x]
      /\ Head(s) = s[1] BY <1>0 DEF TakeLength
<1>4. Reader(q) = Idle /\ Idle.at = "idle" /\ User(q) \in Processes /\ Peer(q) \in Ports
  BY OpFacts, PortFacts DEF Reader
<1>5. s # <<>> /\ s \in Seq(Pieces) BY <1>0, <1>2
<1>6. s[1].size \in Sizes
  <2>1. 1 \in DOMAIN s BY <1>5
  <2> QED BY <1>5, <2>1, MessageNumbers
<1>7. o \in Ops /\ o # Idle /\ o.at = "read" /\ o.port = q /\ o.size = s[1].size /\ o.text = <<>>
  BY <1>6, OpFacts
<1>. HIDE DEF o
<1>8. Flows(s, Idle, Writer(Peer(q)), sent[Peer(q)], isOpen[q] /\ isOpen[Peer(q)])
  BY <1>0, <1>1, <1>4 DEF Flow
<1>9. /\ Flows(x, o, Writer(Peer(q)), sent[Peer(q)], isOpen[q] /\ isOpen[Peer(q)])
      /\ WholeTexts(x) = WholeTexts(s)
  <2>1. Writer(Peer(q)).at = "write" => /\ Writer(Peer(q)).size \in Sizes
                                        /\ Writer(Peer(q)).text \in Seq(Pieces)
    BY <1>1, <1>4, WriterIs
  <2>2. Idle.at # "read" BY <1>4
  <2> QED BY <1>5, <1>7, <1>8, <2>1, <2>2, FlowTakes
<1>. HIDE DEF x
<1>10. x \in Seq(Pieces) BY <1>9 DEF Flows, Sound
<1>11. Shape'
  <2>1. o # Idle => /\ o.port \in Ports /\ User(o.port) = User(q) /\ o.size \in Sizes
                    /\ isOpen[o.port] /\ o.at # "idle"
                    /\ Len(o.text) < o.size
                    /\ o.at = "evaluate" => o.text = <<>> /\ sent[o.port] < MaxSent
    <3>1. Len(<<>>) = 0 /\ s[1].size > 0 BY <1>6, Positive
    <3> QED BY <1>2, <1>6, <1>7, <3>1
  <2>2. sent' \in [Ports -> 0..MaxSent] /\ received' \in [Ports -> Seq(Seq(Pieces))] BY <1>2
  <2> QED BY <1>1, <1>2, <1>3, <1>4, <1>7, <1>10, <2>1, <2>2, StepShape
<1>12. \A t \in Ports : Flow(t)'
  <2>1. op[User(q)].at # "write" /\ (op[User(q)] = Idle \/ op[User(q)].port = q) BY <1>4
  <2>2. LET r == IF o.at = "read" THEN o ELSE Idle
        IN  Flows(x, r, Writer(Peer(q)), sent[Peer(q)], isOpen[q] /\ isOpen[Peer(q)])
    BY <1>7, <1>9
  <2>3. o.at # "write" /\ o.port = q BY <1>7
  <2> QED BY <1>3, <1>7, <1>10, <2>1, <2>2, <2>3, ReaderStep
<1>13. BoxStep
  <2>1. Queued' = Queued BY <1>0, <1>2, <1>3, <1>9, QueuedChanges
  <2> QED BY <2>1 DEF BoxStep
<1> QED BY <1>11, <1>12, <1>13 DEF MessageInv

\* A receive begins.
LEMMA ReceiveInv ==
  ASSUME MessagesAssumption, MessageInv, NEW q \in Ports, Receive(q)
  PROVE  MessageInv' /\ BoxStep BY TakeInv DEF Receive, children, history

\* The length cannot be written.
LEMMA SendFailsInv ==
  ASSUME MessagesAssumption, MessageInv, NEW p \in Processes, SendFails(p)
  PROVE  MessageInv' /\ BoxStep
<1>0. PICK q : q = op[p].port OBVIOUS
<1>1. /\ op[p].at = "evaluate" /\ UNCHANGED <<isOpen, state, listed, fd, fdSet, sent, received>>
      /\ \/ stream[q] # <<>> /\ TakeLength(q)
         \/ op' = [op EXCEPT ![p] = Idle] /\ UNCHANGED stream
  BY <1>0 DEF SendFails, children, history
<1>2. Shape BY DEF MessageInv
<1>3. q \in Ports /\ User(q) = p BY <1>0, <1>1, <1>2, OpBusy
<1>4. CASE stream[q] # <<>> /\ TakeLength(q) BY <1>0, <1>1, <1>3, <1>4, TakeInv
<1>5. CASE op' = [op EXCEPT ![p] = Idle] /\ UNCHANGED stream
  <2>1. SendThrows(p) BY <1>1, <1>5 DEF SendThrows, sockets, children, history
  <2> QED BY <2>1, SendThrowsInv
<1> QED BY <1>1, <1>4, <1>5

\* A piece of text is read; the last one delivers the text.
LEMMA ReadTextInv ==
  ASSUME MessagesAssumption, MessageInv, NEW p \in Processes, ReadText(p)
  PROVE  MessageInv' /\ BoxStep
<1>0. PICK a, q, s : a = op[p] /\ q = a.port /\ s = stream[q] OBVIOUS
<1>. DEFINE x == Tail(s)
            y == Append(a.text, s[1])
<1>1. Shape /\ ChannelsTyped BY DEF MessageInv, Shape
<1>2. /\ a.at = "read" /\ s # <<>> /\ stream' = [stream EXCEPT ![q] = x]
      /\ UNCHANGED <<isOpen, state, listed, fd, fdSet, sent>>
      /\ Head(s) = s[1] BY <1>0 DEF ReadText, children
<1>3. \/ /\ Len(y) < a.size /\ op' = [op EXCEPT ![p].text = y] /\ UNCHANGED received
      \/ /\ ~(Len(y) < a.size) /\ op' = [op EXCEPT ![p] = Idle]
         /\ received' = [received EXCEPT ![q] = Append(@, y)] BY <1>0, <1>2 DEF ReadText
<1>4. /\ a \in Ops /\ q \in Ports /\ User(q) = p /\ a.size \in Sizes /\ a # Idle
      /\ a.text \in Seq(Pieces) /\ Len(a.text) < a.size /\ Len(a.text) \in Nat /\ a.size \in Nat
  <2>1. op[p].at # "idle" BY <1>0, <1>2
  <2>2. /\ a \in Ops /\ q \in Ports /\ User(q) = p /\ a.size \in Sizes /\ a # Idle
        /\ a.text \in Seq(Pieces) /\ Len(a.text) < a.size BY <1>0, <1>1, <2>1, OpBusy
  <2> QED BY <2>2, Positive
<1>5. /\ stream \in [Ports -> Seq(Pieces)] /\ sent \in [Ports -> 0..MaxSent]
      /\ received \in [Ports -> Seq(Seq(Pieces))]
      /\ isOpen[q] /\ op \in [Processes -> Ops] BY <1>0, <1>1, <1>2 DEF ChannelsTyped, Ops
<1>6. Idle \in Ops /\ Idle.at = "idle" /\ Peer(q) \in Ports BY <1>4, OpFacts, PortFacts
<1>7. op[User(q)].port = q /\ op[User(q)] = a BY <1>0, <1>4
<1>8. Reader(q) = a BY <1>2, <1>7 DEF Reader
<1>9. Flows(s, a, Writer(Peer(q)), sent[Peer(q)], isOpen[q] /\ isOpen[Peer(q)])
  BY <1>0, <1>4, <1>8 DEF MessageInv, Flow
<1>10. s \in Seq(Pieces) /\ s[1] \in Pieces
  <2>1. s \in Seq(Pieces) BY <1>0, <1>4, <1>5
  <2> QED BY <1>2, <2>1
<1>11. y \in Seq(Pieces) /\ Len(y) = Len(a.text) + 1 BY <1>4, <1>10
<1>12. PICK o : o = IF Len(y) < a.size THEN [a EXCEPT !.text = y] ELSE Idle OBVIOUS
<1>. HIDE DEF y
<1>13. op' = [op EXCEPT ![p] = o] BY <1>0, <1>3, <1>12
<1>14. \/ /\ o.at = "idle" /\ o = Idle /\ Len(a.text) + 1 = a.size
          /\ received' = [received EXCEPT ![q] = Append(@, y)]
       \/ /\ o.at = "read" /\ o.text = y /\ o.size = a.size /\ Len(a.text) + 1 < a.size
          /\ o.port = q /\ UNCHANGED received
  <2>1. CASE Len(y) < a.size BY <1>0, <1>2, <1>3, <1>4, <1>11, <1>12, <2>1 DEF Ops
  <2>2. CASE ~(Len(y) < a.size) BY <1>3, <1>4, <1>6, <1>11, <1>12, <2>2
  <2> QED BY <2>1, <2>2
<1>15. o \in Ops
  <2>1. CASE Len(y) < a.size BY <1>4, <1>11, <1>12, <2>1 DEF Ops
  <2> QED BY <1>6, <1>12, <2>1
<1>. HIDE DEF x
<1>16. /\ Flows(x, o, Writer(Peer(q)), sent[Peer(q)], isOpen[q] /\ isOpen[Peer(q)])
       /\ o.at = "read" => WholeTexts(x) = WholeTexts(s)
       /\ o.at # "read" => /\ WholeTexts(s) # <<>> /\ WholeTexts(x) = Tail(WholeTexts(s))
                           /\ Head(WholeTexts(s)) = y
  <2>1. Writer(Peer(q)).at = "write" => /\ Writer(Peer(q)).size \in Sizes
                                        /\ Writer(Peer(q)).text \in Seq(Pieces)
                                        /\ Len(Writer(Peer(q)).text) < Writer(Peer(q)).size
    BY <1>1, <1>6, WriterIs
  <2>2. \/ o.at # "read" /\ Len(a.text) + 1 = a.size
        \/ o.at = "read" /\ o.text = Append(a.text, s[1]) /\ o.size = a.size
           /\ Len(a.text) + 1 < a.size BY <1>14 DEF y
  <2> QED BY <1>2, <1>4, <1>9, <2>1, <2>2, FlowReads DEF x, y
<1>17. x \in Seq(Pieces) BY <1>16 DEF Flows, Sound
<1>18. o.at # "read" => o = Idle BY <1>14
<1>19. received' \in [Ports -> Seq(Seq(Pieces))]
  <2>. DEFINE S == Seq(Pieces)
  <2>1. received \in [Ports -> Seq(S)] /\ y \in S BY <1>5, <1>11
  <2>. HIDE DEF S
  <2>2. received[q] \in Seq(S) BY <1>4, <2>1
  <2>3. Append(received[q], y) \in Seq(S) BY <2>1, <2>2
  <2>4. received' \in [Ports -> Seq(S)] BY <1>14, <2>1, <2>3
  <2> QED BY <2>4 DEF S
<1>20. Shape'
  <2>1. o # Idle => /\ o.port \in Ports /\ User(o.port) = p /\ o.size \in Sizes
                    /\ isOpen[o.port] /\ o.at # "idle"
                    /\ Len(o.text) < o.size
                    /\ o.at = "evaluate" => o.text = <<>> /\ sent[o.port] < MaxSent
    BY <1>4, <1>5, <1>6, <1>11, <1>14
  <2>2. sent' \in [Ports -> 0..MaxSent] /\ UNCHANGED sent BY <1>2, <1>5
  <2> QED BY <1>1, <1>2, <1>4, <1>5, <1>13, <1>15, <1>17, <1>19, <2>1, <2>2, StepShape
<1>21. \A t \in Ports : Flow(t)'
  <2>1. op[User(q)].at # "write" /\ op[User(q)].port = q /\ o.at # "write" /\ (o = Idle \/ o.port = q)
    BY <1>2, <1>7, <1>14
  <2>2. LET r == IF o.at = "read" THEN o ELSE Idle
        IN  Flows(x, r, Writer(Peer(q)), sent[Peer(q)], isOpen[q] /\ isOpen[Peer(q)])
    BY <1>16, <1>18
  <2>3. op' = [op EXCEPT ![User(q)] = o] /\ UNCHANGED <<isOpen, sent>> BY <1>2, <1>4, <1>13
  <2> QED BY <1>2, <1>4, <1>15, <1>17, <2>1, <2>2, <2>3, ReaderStep
<1>22. BoxStep
  <2>1. /\ Queued' = [Queued EXCEPT ![q] = WholeTexts(x)] /\ Queued[q] = WholeTexts(s)
        /\ WholeTexts(x) = WholeTexts(s) => Queued' = Queued
    BY <1>0, <1>2, <1>4, <1>5, QueuedChanges
  <2>2. CASE o.at = "read" BY <1>14, <1>16, <2>1, <2>2 DEF BoxStep
  <2>3. CASE o.at # "read"
    <3>1. /\ Queued[q] # <<>> /\ Queued' = [Queued EXCEPT ![q] = Tail(@)]
          /\ received' = [received EXCEPT ![q] = Append(@, Head(Queued[q]))]
      BY <1>14, <1>16, <2>1, <2>3
    <3>2. Boxes!Take(q) BY <3>1 DEF Boxes!Take
    <3>3. Boxes!Next BY <1>4, <3>2 DEF Boxes!Next
    <3> QED BY <3>3 DEF BoxStep
  <2> QED BY <2>2, <2>3
<1> QED BY <1>20, <1>21, <1>22 DEF MessageInv

\* A child is spawned, with two empty streams that nobody uses.
LEMMA SpawnInv ==
  ASSUME MessagesAssumption, MessageInv, NEW c \in Children, NEW f \in Fds, Spawn(c, f)
  PROVE  MessageInv' /\ BoxStep
<1>1. /\ op[Parent] = Idle /\ state[c] = "none"
      /\ state' = [state EXCEPT ![c] = "running"]
      /\ isOpen' = [q \in Ports |-> isOpen[q] \/ q[1] = c]
      /\ listed' = listed \cup {c} /\ fd' = [fd EXCEPT ![c] = f]
      /\ fdSet' = Watched(f)
      /\ UNCHANGED <<stream, op, sent, received>> BY DEF Spawn, history
<1>2. ChannelsTyped /\ Unborn /\ Shape BY DEF MessageInv, Shape
<1>3. ChannelsTyped'
  <2>1. /\ listed' \subseteq Children /\ fd' \in [Children -> Fds \cup {0}] /\ fdSet' \subseteq Fds
        /\ state' \in [Children -> {"none", "running", "ended"}]
    BY <1>1, <1>2 DEF ChannelsTyped, Watched
  <2>2. isOpen' \in [Ports -> BOOLEAN] BY <1>1, <1>2 DEF ChannelsTyped
  <2>3. \A q \in Ports : ~isOpen'[q] => ~isOpen[q] BY <1>1, <1>2 DEF ChannelsTyped
  <2>4. \A q \in Ports : isOpen[q] => isOpen'[q] BY <1>1, <1>2 DEF ChannelsTyped
  <2>5. \A p \in Processes : op[p].at \in {"write", "read"} => op[p].port \in Ports
    BY <1>2, OpBusy
  <2>6. \A p \in Processes : op[p].at \in {"write", "read"} => isOpen[op[p].port]
    BY <1>2 DEF ChannelsTyped
  <2>7. \A p \in Processes : op[p].at \in {"write", "read"} => isOpen'[op[p].port]
    BY <2>4, <2>5, <2>6
  <2>8. /\ stream \in [Ports -> Seq(Pieces)]
        /\ op \in [Processes -> [at : {"idle", "evaluate", "write", "read"}, port : Ports \cup {<<>>},
                             size : Sizes \cup {0}, text : Seq(Pieces)]]
        /\ sent \in [Ports -> 0..MaxSent] /\ received \in [Ports -> Seq(Seq(Pieces))]
        /\ \A q \in Ports : ~isOpen[q] => stream[q] = <<>> BY <1>2 DEF ChannelsTyped
  <2>9. \A q \in Ports : ~isOpen'[q] => stream'[q] = <<>> BY <1>1, <2>3, <2>8
  <2>10. \A p \in Processes : op'[p].at \in {"write", "read"} => isOpen'[op'[p].port]
    BY <1>1, <2>7
  <2>11. /\ stream' \in [Ports -> Seq(Pieces)]
         /\ op' \in [Processes -> [at : {"idle", "evaluate", "write", "read"}, port : Ports \cup {<<>>},
                              size : Sizes \cup {0}, text : Seq(Pieces)]]
         /\ sent' \in [Ports -> 0..MaxSent] /\ received' \in [Ports -> Seq(Seq(Pieces))]
    BY <1>1, <2>8
  <2> QED BY <2>1, <2>2, <2>9, <2>10, <2>11 DEF ChannelsTyped
<1>4. state \in [Children -> {"none", "running", "ended"}] BY <1>2 DEF ChannelsTyped
<1>5. \A d \in Children : state'[d] = "none" => d # c /\ state[d] = "none" BY <1>1, <1>4
<1>6. Unborn'
  <2>0. \A d \in listed' : state'[d] # "none" BY <1>1, <1>2, <1>4 DEF Unborn, ChannelsTyped
  <2>. SUFFICES ASSUME NEW q \in Ports, state'[q[1]] = "none"
               PROVE  ~isOpen'[q] /\ ~isOpen'[Peer(q)] BY <2>0 DEF Unborn, Peer
  <2>1. q[1] \in Children /\ Peer(q) \in Ports /\ Peer(q)[1] = q[1] BY PortFacts
  <2>2. q[1] # c /\ state[q[1]] = "none" BY <1>5, <2>1
  <2> QED BY <1>1, <1>2, <2>1, <2>2 DEF Unborn
<1>7. \A p \in Processes : Doable(p)'
  <2>. SUFFICES ASSUME NEW p \in Processes PROVE Doable(p)' OBVIOUS
  <2>1. op[p] # Idle => op[p].port \in Ports /\ op[p].port[1] \in Children
    BY <1>2, PortFacts DEF Shape, Doable
  <2> QED BY <1>1, <1>2, <1>5, <2>1 DEF Shape, Doable
<1>8. ASSUME NEW q \in Ports PROVE Flow(q)'
  <2>1. Flow(q) /\ q[1] \in Children /\ Peer(q) \in Ports /\ Peer(q)[1] = q[1]
    BY PortFacts DEF MessageInv
  <2>2. \A t \in Ports : Reader(t)' = Reader(t) /\ Writer(t)' = Writer(t)
    BY <1>1 DEF Reader, Writer, User
  <2>3. CASE q[1] # c
    <3>1. Up(q)' = Up(q) BY <1>1, <1>2, <2>1, <2>3 DEF Up, Peer, ChannelsTyped
    <3>2. stream'[q] = stream[q] /\ sent'[Peer(q)] = sent[Peer(q)] BY <1>1
    <3> QED BY <2>1, <2>2, <3>1, <3>2, FlowStays
  <2>4. CASE q[1] = c
    <3>1. state[q[1]] = "none" /\ state[Peer(q)[1]] = "none" BY <1>1, <2>1, <2>4
    <3>2. ASSUME NEW t \in Ports, state[t[1]] = "none" PROVE Reader(t) = Idle /\ Writer(t) = Idle
      <4>1. User(t) \in Processes BY PortFacts
      <4>2. op[User(t)].at # "idle" => op[User(t)].port # t BY <1>2, <3>2, <4>1, OpBusy
      <4> QED BY <4>2 DEF Reader, Writer
    <3>3. Reader(q) = Idle /\ Writer(Peer(q)) = Idle BY <2>1, <3>1, <3>2
    <3>4. stream[q] = <<>> BY <1>2, <3>1 DEF Unborn, ChannelsTyped
    <3>5. Idle.at # "read" /\ Idle.at # "write" BY OpFacts
    <3>6. Flows(<<>>, Idle, Idle, sent'[Peer(q)], isOpen'[q] /\ isOpen'[Peer(q)])
      BY <3>5, EmptyFlow
    <3>7. Flows(stream'[q], Reader(q)', Writer(Peer(q))', sent'[Peer(q)], isOpen'[q] /\ isOpen'[Peer(q)])
      BY <1>1, <2>1, <2>2, <3>3, <3>4, <3>6
    <3> QED BY <3>7 DEF Flow, Peer
  <2> QED BY <2>3, <2>4
<1> QED BY <1>1, <1>3, <1>6, <1>7, <1>8, QueuedStays DEF MessageInv, Shape

\* Sockets are closed that nobody writes to or reads from any longer.
LEMMA ShutInv ==
  ASSUME MessagesAssumption, MessageInv, NEW Q \in SUBSET Ports, Shut(Q),
         \/ UNCHANGED op
         \/ \E c \in Children : <<c, "child">> \in Q /\ op' = [op EXCEPT ![c] = Idle],
         \A q \in Q : op'[User(q)].at \notin {"write", "read"},
         state' \in [Children -> {"none", "running", "ended"}],
         \A c \in Children : state[c] = "none" <=> state'[c] = "none",
         listed' \subseteq listed, fdSet' \subseteq Fds, UNCHANGED <<fd, sent, received>>
  PROVE  MessageInv' /\ BoxStep
<1>1. ChannelsTyped /\ Unborn /\ Shape BY DEF MessageInv, Shape
<1>2. /\ isOpen' = [q \in Ports |-> isOpen[q] /\ q \notin Q]
      /\ stream' = [q \in Ports |-> IF q \in Q THEN <<>> ELSE stream[q]] BY DEF Shut
<1>3. /\ stream \in [Ports -> Seq(Pieces)] /\ isOpen \in [Ports -> BOOLEAN]
      /\ op \in [Processes -> Ops] /\ fd \in [Children -> Fds \cup {0}]
      /\ sent \in [Ports -> 0..MaxSent] /\ received \in [Ports -> Seq(Seq(Pieces))]
      /\ \A q \in Ports : ~isOpen[q] => stream[q] = <<>>
      /\ \A p \in Processes : op[p].at \in {"write", "read"} => isOpen[op[p].port]
  BY <1>1 DEF ChannelsTyped, Ops
<1>4. op' \in [Processes -> Ops] /\ \A p \in Processes : op'[p] = op[p] \/ op'[p] = Idle
  <2>1. CASE UNCHANGED op BY <1>3, <2>1
  <2>2. ASSUME NEW c \in Children, op' = [op EXCEPT ![c] = Idle]
        PROVE  op' \in [Processes -> Ops] /\ \A p \in Processes : op'[p] = op[p] \/ op'[p] = Idle
    <3>1. Idle \in Ops BY OpFacts
    <3> QED BY <1>3, <2>2, <3>1
  <2> QED BY <2>1, <2>2
<1>5. \A t \in Ports : t \notin Q => op'[User(t)] = op[User(t)]
  <2>. SUFFICES ASSUME NEW t \in Ports, t \notin Q PROVE op'[User(t)] = op[User(t)] OBVIOUS
  <2>1. CASE UNCHANGED op BY <2>1
  <2>2. ASSUME NEW c \in Children, <<c, "child">> \in Q, op' = [op EXCEPT ![c] = Idle]
        PROVE  op'[User(t)] = op[User(t)]
    <3>1. User(t) # c /\ User(t) \in Processes BY <2>2, PortFacts
    <3> QED BY <1>3, <2>2, <3>1
  <2> QED BY <2>1, <2>2
<1>6. ChannelsTyped'
  <2>1. /\ stream' \in [Ports -> Seq(Pieces)] /\ isOpen' \in [Ports -> BOOLEAN]
        /\ \A q \in Ports : ~isOpen'[q] => stream'[q] = <<>> BY <1>2, <1>3
  <2>2. ASSUME NEW p \in Processes, op'[p].at \in {"write", "read"} PROVE isOpen'[op'[p].port]
    <3>1. op'[p] = op[p] BY <1>4, <2>2, OpFacts
    <3>2. op[p].at \in {"write", "read"} BY <2>2, <3>1
    <3>3. op[p].port \in Ports /\ User(op[p].port) = p BY <1>1, <3>2, OpBusy
    <3>4. op[p].port \notin Q BY <2>2, <3>3
    <3> QED BY <1>2, <1>3, <3>1, <3>2, <3>3, <3>4
  <2>3. listed' \subseteq Children BY <1>1 DEF ChannelsTyped
  <2> QED BY <1>3, <1>4, <2>1, <2>2, <2>3 DEF ChannelsTyped, Ops
<1>7. Unborn'
  <2>0. \A d \in listed' : state'[d] # "none" BY <1>1 DEF Unborn, ChannelsTyped
  <2>. SUFFICES ASSUME NEW q \in Ports, state'[q[1]] = "none"
               PROVE  ~isOpen'[q] /\ ~isOpen'[Peer(q)] BY <2>0 DEF Unborn, Peer
  <2>1. q[1] \in Children /\ Peer(q) \in Ports BY PortFacts
  <2> QED BY <1>1, <1>2, <2>1 DEF Unborn
<1>8. ASSUME NEW p \in Processes PROVE Doable(p)'
  <2>1. op[p] # Idle => op[p].port \in Ports /\ op[p].port[1] \in Children
    BY <1>1, PortFacts DEF Shape, Doable
  <2> QED BY <1>1, <1>4, <2>1 DEF Shape, Doable
<1>9. ASSUME NEW q \in Ports PROVE Flow(q)'
  <2>1. Flow(q) /\ Peer(q) \in Ports BY PortFacts DEF MessageInv
  <2>2. CASE q \in Q
    <3>1. Reader(q)' = Idle /\ Idle.at # "read" BY <2>2, OpFacts DEF Reader, User
    <3>2. stream'[q] = <<>> /\ (isOpen'[q] /\ isOpen'[Peer(q)]) = FALSE BY <1>2, <2>2
    <3>3. Flows(<<>>, Idle, Writer(Peer(q))', sent'[Peer(q)], FALSE) BY <3>1, EmptyFlow
    <3>4. Flows(stream'[q], Reader(q)', Writer(Peer(q))', sent'[Peer(q)], isOpen'[q] /\ isOpen'[Peer(q)])
      BY <3>1, <3>2, <3>3
    <3> QED BY <3>4 DEF Flow, Peer
  <2>3. CASE q \notin Q
    <3>1. stream'[q] = stream[q] /\ Reader(q)' = Reader(q) BY <1>2, <1>5, <2>3 DEF Reader, User
    <3>2. CASE Peer(q) \in Q
      <4>1. isOpen'[Peer(q)] = FALSE BY <1>2, <2>1, <3>2
      <4>2. Up(q)' = FALSE BY <4>1 DEF Up, Peer
      <4> QED BY <2>1, <3>1, <4>2, FlowStays
    <3>3. CASE Peer(q) \notin Q
      <4>1. isOpen'[q] = isOpen[q] /\ isOpen'[Peer(q)] = isOpen[Peer(q)]
        BY <1>2, <1>3, <2>1, <2>3, <3>3
      <4>2. Up(q)' = Up(q) BY <4>1 DEF Up, Peer
      <4>3. Writer(Peer(q))' = Writer(Peer(q))
        <5>1. op'[User(Peer(q))] = op[User(Peer(q))] BY <1>5, <2>1, <3>3
        <5> QED BY <5>1 DEF Writer, User, Peer
      <4> QED BY <2>1, <3>1, <4>2, <4>3, FlowStays
    <3> QED BY <3>2, <3>3
  <2> QED BY <2>2, <2>3
<1>10. BoxStep
  <2>1. Queued' = [t \in Ports |-> WholeTexts(stream'[t])]
    BY DEF Queued, WholeTexts, Whole, Ends, SizeOf
  <2>2. WholeTexts(<<>>) = <<>> BY NoTexts
  <2>3. \A t \in Ports : WholeTexts(stream'[t]) = IF t \in Q THEN <<>> ELSE Queued[t]
    BY <1>2, <2>2 DEF Queued
  <2>4. Queued' = [t \in Ports |-> IF t \in Q THEN <<>> ELSE Queued[t]] BY <2>1, <2>3
  <2>5. Boxes!Shut(Q) BY <2>4 DEF Boxes!Shut
  <2>6. Boxes!Next BY <2>5 DEF Boxes!Next
  <2> QED BY <2>6 DEF BoxStep
<1> QED BY <1>6, <1>7, <1>8, <1>9, <1>10 DEF MessageInv, Shape

\* A child ends, is waited for, or is aborted.
LEMMA ChildEndsInv ==
  ASSUME MessagesAssumption, MessageInv, NEW c \in Children, ChildEnds(c)
  PROVE  MessageInv' /\ BoxStep
<1>. DEFINE Q == {<<c, "child">>}
<1>1. /\ state[c] = "running" /\ state' = [state EXCEPT ![c] = "ended"] /\ Shut(Q)
      /\ op' = [op EXCEPT ![c] = Idle] /\ UNCHANGED <<listed, fd, fdSet, sent, received>>
  BY DEF ChildEnds, history
<1>2. /\ state \in [Children -> {"none", "running", "ended"}]
      /\ op \in [Processes -> Ops] /\ listed \subseteq Children /\ fdSet \subseteq Fds
  BY DEF MessageInv, Shape, ChannelsTyped, Ops
<1>3. Q \in SUBSET Ports BY DEF Ports
<1>4. \A q \in Q : op'[User(q)].at \notin {"write", "read"}
  <2>1. User(<<c, "child">>) = c /\ c \in Processes BY DEF User, Processes
  <2> QED BY <1>1, <1>2, <2>1, OpFacts
<1>5. /\ state' \in [Children -> {"none", "running", "ended"}]
      /\ \A d \in Children : state[d] = "none" <=> state'[d] = "none" BY <1>1, <1>2
<1>6. listed' \subseteq listed /\ fdSet' \subseteq Fds BY <1>1, <1>2
<1> QED BY <1>1, <1>3, <1>4, <1>5, <1>6, ShutInv

\* p_sync closes the parent's end.
LEMMA SyncInv ==
  ASSUME MessagesAssumption, MessageInv, NEW c \in Children, Sync(c)
  PROVE  MessageInv' /\ BoxStep
<1>. DEFINE Q == {<<c, "parent">>}
<1>1. /\ op[Parent] = Idle /\ listed' = listed \ {c} /\ Shut(Q)
      /\ UNCHANGED <<op, state, fd, fdSet, sent, received>> BY DEF Sync, history
<1>2. /\ state \in [Children -> {"none", "running", "ended"}]
      /\ listed \subseteq Children /\ fdSet \subseteq Fds BY DEF MessageInv, Shape, ChannelsTyped
<1>3. Q \in SUBSET Ports BY DEF Ports
<1>4. \A q \in Q : op'[User(q)].at \notin {"write", "read"}
  <2>1. User(<<c, "parent">>) = Parent BY DEF User
  <2> QED BY <1>1, <2>1, OpFacts
<1>5. /\ state' \in [Children -> {"none", "running", "ended"}]
      /\ \A d \in Children : state[d] = "none" <=> state'[d] = "none" BY <1>1, <1>2
<1>6. listed' \subseteq listed /\ fdSet' \subseteq Fds BY <1>1, <1>2
<1> QED BY <1>1, <1>3, <1>4, <1>5, <1>6, ShutInv

\* p_abort ends the child and closes the parent's end.
LEMMA AbortInv ==
  ASSUME MessagesAssumption, MessageInv, NEW c \in Children, Abort(c)
  PROVE  MessageInv' /\ BoxStep
<1>. DEFINE Q == {c} \X {"parent", "child"}
<1>1. /\ Resting(Parent) /\ c \in listed /\ listed' = listed \ {c} /\ Shut(Q)
      /\ state' = [state EXCEPT ![c] = "ended"] /\ fdSet' = fdSet \ {fd[c]}
      /\ op' = [op EXCEPT ![c] = Idle] /\ UNCHANGED <<fd, sent, received>> BY DEF Abort, history
<1>2. /\ state \in [Children -> {"none", "running", "ended"}]
      /\ op \in [Processes -> Ops] /\ listed \subseteq Children /\ fdSet \subseteq Fds
      /\ state[c] # "none" BY <1>1 DEF MessageInv, Shape, ChannelsTyped, Unborn, Ops
<1>3. Q \in SUBSET Ports /\ <<c, "child">> \in Q BY DEF Ports
<1>4. \A q \in Q : op'[User(q)].at \notin {"write", "read"}
  <2>1. User(<<c, "child">>) = c /\ User(<<c, "parent">>) = Parent /\ c \in Processes /\ Parent \in Processes
        /\ c # Parent BY DEF User, Processes, MessagesAssumption, Parent
  <2>2. op'[c] = Idle /\ op'[Parent] = op[Parent] BY <1>1, <1>2, <2>1
  <2>3. op[Parent].at \notin {"write", "read"} BY <1>1 DEF Resting
  <2>4. \A q \in Q : q = <<c, "parent">> \/ q = <<c, "child">> OBVIOUS
  <2>5. op'[c].at \notin {"write", "read"} BY <2>2, OpFacts
  <2>. HIDE DEF Q
  <2>6. ASSUME NEW q \in Q PROVE op'[User(q)].at \notin {"write", "read"}
    <3>1. CASE q = <<c, "parent">> BY <2>1, <2>2, <2>3, <3>1
    <3>2. CASE q = <<c, "child">> BY <2>1, <2>5, <3>2
    <3> QED BY <2>4, <3>1, <3>2
  <2> QED BY <2>6
<1>5. /\ state' \in [Children -> {"none", "running", "ended"}]
      /\ \A d \in Children : state[d] = "none" <=> state'[d] = "none" BY <1>1, <1>2
<1>6. listed' \subseteq listed /\ fdSet' \subseteq Fds BY <1>1, <1>2
<1> QED BY <1>1, <1>3, <1>4, <1>5, <1>6, ShutInv

\* A fork that fails leaves its mark in myFdSet only.
LEMMA SpawnFailsInv ==
  ASSUME MessagesAssumption, MessageInv, NEW f \in Fds, SpawnFails(f)
  PROVE  MessageInv' /\ BoxStep
<1>1. UNCHANGED <<stream, isOpen, op, state, listed, fd, sent, received>>
  BY DEF SpawnFails, sockets, history
<1>2. fdSet' \subseteq Fds BY DEF SpawnFails, MessageInv, Shape, ChannelsTyped, Watched
<1>3. Shape' BY <1>1, <1>2 DEF MessageInv, Shape, ChannelsTyped, Unborn, Doable, User, Peer
<1>4. \A q \in Ports : Flow(q)' BY <1>1 DEF MessageInv, Flow, Reader, Writer, User, Peer
<1> QED BY <1>1, <1>3, <1>4, QueuedStays DEF MessageInv
----------------------------------------
(* The theorems. *)
LEMMA MessageInitInv == MessagesAssumption /\ MessagesInit => MessageInv
<1>. SUFFICES ASSUME MessagesAssumption, MessagesInit PROVE MessageInv OBVIOUS
<1>1. Idle \in Ops /\ Idle.at = "idle" BY OpFacts
<1>2. ChannelsTyped
  <2>1. MaxSent \in Nat /\ <<>> \in Seq(Pieces) /\ <<>> \in Seq(Seq(Pieces)) /\ 0 \in 0..MaxSent
    BY Positive
  <2> QED BY <1>1, <2>1 DEF MessagesInit, ChannelsTyped, Ops
<1>3. Unborn /\ \A p \in Processes : Doable(p)
  <2>1. \A q \in Ports : Peer(q) \in Ports BY PortFacts
  <2> QED BY <2>1 DEF MessagesInit, Unborn, Doable
<1>4. ASSUME NEW q \in Ports PROVE Flow(q)
  <2>1. User(q) \in Processes /\ Peer(q) \in Ports /\ User(Peer(q)) \in Processes BY PortFacts
  <2>2. stream[q] = <<>> /\ Reader(q) = Idle /\ Writer(Peer(q)) = Idle
    BY <1>1, <2>1 DEF MessagesInit, Reader, Writer
  <2>3. Flows(<<>>, Idle, Idle, sent[Peer(q)], isOpen[q] /\ isOpen[Peer(q)]) BY <1>1, EmptyFlow
  <2> QED BY <2>2, <2>3 DEF Flow
<1> QED BY <1>2, <1>3, <1>4 DEF MessageInv, Shape

\* A stuttering step.
LEMMA Unchanged == MessageInv /\ UNCHANGED messageVars => MessageInv' /\ BoxStep
<1>. SUFFICES ASSUME MessageInv, UNCHANGED messageVars PROVE MessageInv' /\ BoxStep OBVIOUS
<1>1. UNCHANGED <<stream, isOpen, op, state, listed, fd, fdSet, sent, received>>
  BY DEF messageVars, sockets, children, history
<1>2. Shape' BY <1>1 DEF MessageInv, Shape, ChannelsTyped, Unborn, Doable, User, Peer
<1>3. \A q \in Ports : Flow(q)' BY <1>1 DEF MessageInv, Flow, Reader, Writer, User, Peer
<1> QED BY <1>1, <1>2, <1>3, QueuedStays DEF MessageInv

\* Every step keeps the invariant, and is one of the queues of messages or none.
LEMMA MessageStepInv == MessagesAssumption /\ MessageInv /\ [MessagesNext]_messageVars => MessageInv' /\ BoxStep
<1>. SUFFICES ASSUME MessagesAssumption, MessageInv, [MessagesNext]_messageVars PROVE MessageInv' /\ BoxStep
  OBVIOUS
<1>1. ASSUME NEW c \in Children, NEW f \in Fds, Spawn(c, f) PROVE MessageInv' /\ BoxStep
  BY <1>1, SpawnInv
<1>2. ASSUME NEW f \in Fds, SpawnFails(f) PROVE MessageInv' /\ BoxStep BY <1>2, SpawnFailsInv
<1>3. ASSUME NEW c \in Children, ChildEnds(c) PROVE MessageInv' /\ BoxStep BY <1>3, ChildEndsInv
<1>4. ASSUME NEW c \in Children, Sync(c) PROVE MessageInv' /\ BoxStep BY <1>4, SyncInv
<1>5. ASSUME NEW c \in Children, Abort(c) PROVE MessageInv' /\ BoxStep BY <1>5, AbortInv
<1>6. ASSUME NEW q \in Ports, NEW s \in Sizes, SendBegins(q, s) PROVE MessageInv' /\ BoxStep
  BY <1>6, SendBeginsInv
<1>7. ASSUME NEW q \in Ports, Receive(q) PROVE MessageInv' /\ BoxStep BY <1>7, ReceiveInv
<1>8. ASSUME NEW p \in Processes, SendThrows(p) PROVE MessageInv' /\ BoxStep
  BY <1>8, SendThrowsInv
<1>9. ASSUME NEW p \in Processes, SendLength(p) PROVE MessageInv' /\ BoxStep
  BY <1>9, SendLengthInv
<1>10. ASSUME NEW p \in Processes, SendFails(p) PROVE MessageInv' /\ BoxStep
  BY <1>10, SendFailsInv
<1>11. ASSUME NEW p \in Processes, SendText(p) PROVE MessageInv' /\ BoxStep BY <1>11, SendTextInv
<1>12. ASSUME NEW p \in Processes, ReadText(p) PROVE MessageInv' /\ BoxStep BY <1>12, ReadTextInv
<1>13. CASE UNCHANGED messageVars BY <1>13, Unchanged
<1> QED BY <1>1, <1>2, <1>3, <1>4, <1>5, <1>6, <1>7, <1>8, <1>9, <1>10, <1>11, <1>12, <1>13
     DEF MessagesNext, Transfer

\* The inductive invariant holds in every state.
LEMMA MessageInductive == ASSUME MessagesAssumption PROVE MessagesSpec => []MessageInv
<1>1. MessagesInit => MessageInv BY MessageInitInv
<1>2. MessageInv /\ [MessagesNext]_messageVars => MessageInv' BY MessageStepInv
<1> QED BY <1>1, <1>2, PTL DEF MessagesSpec

\* A send or receive under way has its socket open, and what a closed one held
\* is gone, whatever ends in between (readWriteSocket, p_abort, p_sync).
THEOREM ChannelsKept == ASSUME MessagesAssumption PROVE MessagesSpec => []ChannelsTyped
<1>1. MessageInv => ChannelsTyped BY DEF MessageInv, Shape
<1> QED BY <1>1, MessageInductive, PTL

\* Messages arrive whole, once and in order: every step of the two send and the
\* recv calls, with the processes ending at any of them, is a step of queues of
\* whole messages or changes none (readWriteSocket).
THEOREM MailboxesImplemented == ASSUME MessagesAssumption PROVE MessagesSpec => ImplementsMailboxes
<1>1. MessageInv /\ [MessagesNext]_messageVars => BoxStep BY MessageStepInv
<1>2. MessagesInit => Boxes!Init
  <2>. SUFFICES ASSUME MessagesInit PROVE Boxes!Init OBVIOUS
  <2>1. \A t \in Ports : stream[t] = <<>> BY DEF MessagesInit
  <2>2. \A t \in Ports : WholeTexts(stream[t]) = <<>> BY <2>1, NoTexts
  <2> QED BY <2>2 DEF MessagesInit, Boxes!Init, Queued
<1> QED BY <1>1, <1>2, MessageInductive, PTL DEF MessagesSpec, BoxStep, ImplementsMailboxes, Boxes!Spec

----------------------------------------
(* Signals: while handlers neither throw, fail, reset nor trace, they run *)
(* one at a time, no signal stays masked, and no flag of traceEntry *)
(* outlives it, for any signals, any depth of the C stack and any *)
(* arrivals, whatever the program itself throws, resets or fails. With no *)
(* handler at all, the debugger's stack of levels names calls that are *)
(* running, for any program that calls, traces, fails and catches. *)

\* Handlers return, and there is no debugger to leave them from.
HandlersReturn ==
  /\ HandlerOps \cap {"error", "throw", "reset", "trace"} = {}
  /\ "trace" \notin ProgramOps
  /\ Answers \subseteq {"continue"}

Noted == {"SIGNAL", "TIMER", "PRINT"}

\* A C handler has its signal, a call of traceEntry the flags it loaded or the number it read.
OsFrames == [fn : {"os"}, pc : {"running"}, arg : Sigs]
Others == [fn : {"eval", "entry", "catch"},
           pc : {"entry", "body", "exit", "fatal", "loaded", "number", "handler", "clear",
                 "leave", "running"},
           arg : (SUBSET Noted) \cup {{s} : s \in Sigs \cup {"none"}}]
AllFrames == OsFrames \cup Others

(* What stack s, flags f and mask b are like together. *)
Of(s, fn) == {i \in DOMAIN s : s[i].fn = fn}
Handlers(s) == Of(s, "os") \cup Of(s, "entry")

\* There is one call of traceEntry, and its flag is on when it has loaded the
\* others; only one that runs a handler has something above it.
EntryAt(s, i, f) ==
  /\ Of(s, "entry") = {i}
  /\ i = Len(s) \/ s[i].pc = "clear"
  /\ s[i].pc \in {"loaded", "number", "handler", "clear", "leave"}
  /\ s[i].pc \in {"loaded", "leave"} => s[i].arg \subseteq Noted
  /\ IF s[i].pc = "loaded" THEN "IN_ENTRY" \notin f /\ s[i].arg # {} ELSE "IN_ENTRY" \in f
Entries(s, f) ==
  /\ \A i \in Of(s, "entry") : EntryAt(s, i, f)
  /\ "IN_ENTRY" \in f => Of(s, "entry") # {}

\* The C handlers that run have one signal each, and these are masked.
Masked(s, b) ==
  /\ b = {s[i].arg : i \in Of(s, "os")}
  /\ \A i, j \in Of(s, "os") : s[i].arg = s[j].arg => i = j

\* An error exit is at the top, and no handler is left by it.
Errors(s) == \A i \in DOMAIN s : s[i].pc = "fatal" =>
  i = Len(s) /\ s[i].fn = "eval" /\ Handlers(s) = {}

\* Calls of traceEntry and catches stand on the expression they are about.
Based(s) == \A i \in Of(s, "entry") \cup Of(s, "catch") : i > 1 /\ s[i - 1].fn = "eval"

Good(s, f, b) ==
  /\ s \in Seq(AllFrames) /\ f \subseteq Noted \cup {"IN_ENTRY"}
  /\ Based(s) /\ Entries(s, f) /\ Errors(s) /\ Masked(s, b)

SignalInv ==
  /\ currentSignal \in Sigs \cup {"none"}
  /\ Good(stack, IF loop = "dead" THEN {} ELSE traceFlag, blocked)
  /\ loop = "dead" => stack = <<>> /\ pending = {}

----------------------------------------
(* Sequences of frames. *)

\* What a frame added at the end makes of a stack.
LEMMA Grown ==
  ASSUME NEW s \in Seq(AllFrames), NEW x \in AllFrames
  PROVE  /\ Append(s, x) \in Seq(AllFrames)
         /\ Len(Append(s, x)) = Len(s) + 1 /\ Len(s) \in Nat
         /\ \A i \in 1..Len(s) : Append(s, x)[i] = s[i]
         /\ Append(s, x)[Len(s) + 1] = x OBVIOUS

\* What a frame changed in the middle makes of it.
LEMMA Changed ==
  ASSUME NEW s \in Seq(AllFrames), NEW k \in 1..Len(s), NEW x \in AllFrames
  PROVE  /\ [s EXCEPT ![k] = x] \in Seq(AllFrames)
         /\ Len([s EXCEPT ![k] = x]) = Len(s)
         /\ \A i \in 1..Len(s) : i # k => [s EXCEPT ![k] = x][i] = s[i]
         /\ [s EXCEPT ![k] = x][k] = x OBVIOUS

\* What is left of it when frames are dropped.
LEMMA Shorter ==
  ASSUME NEW s \in Seq(AllFrames), NEW n \in 0..Len(s)
  PROVE  /\ SubSeq(s, 1, n) \in Seq(AllFrames)
         /\ Len(SubSeq(s, 1, n)) = n
         /\ \A i \in 1..n : SubSeq(s, 1, n)[i] = s[i] OBVIOUS

\* Sets with the same elements are equal.
LEMMA SameSet ==
  ASSUME NEW A, NEW B, \A i : i \in A <=> i \in B
  PROVE  A = B OBVIOUS

\* The frames of one function, by their places.
LEMMA Places ==
  ASSUME NEW s \in Seq(AllFrames), NEW fn
  PROVE  \A i : i \in Of(s, fn) <=> i \in 1..Len(s) /\ s[i].fn = fn BY DEF Of

----------------------------------------
(* What keeps a stack good. *)

\* Flags may change, as long as TRACE_IN_ENTRY does not.
LEMMA FlagsChange ==
  ASSUME NEW s, NEW f, NEW b, Good(s, f, b),
         NEW g \in SUBSET (Noted \cup {"IN_ENTRY"}), "IN_ENTRY" \in g <=> "IN_ENTRY" \in f
  PROVE  Good(s, g, b) BY DEF Good, Entries, EntryAt

\* Frames that are no handlers may be dropped, and the one left at the top take
\* another step.
LEMMA Cut ==
  ASSUME NEW s, NEW f, NEW b, Good(s, f, b), NEW n \in 0..Len(s),
         NEW r \in Seq(AllFrames), Len(r) = n,
         \A i \in 1..n : i # n => r[i] = s[i],
         n > 0 => r[n].fn = s[n].fn /\ r[n].arg = s[n].arg,
         n > 0 /\ s[n].fn # "eval" => r[n] = s[n],
         n > 0 /\ r[n].pc = "fatal" => Handlers(r) = {},
         Handlers(s) \subseteq 1..n
  PROVE  Good(r, f, b)
<1>1. s \in Seq(AllFrames) /\ Len(s) \in Nat BY DEF Good
<1>2. \A fn, i : i \in Of(s, fn) <=> i \in 1..Len(s) /\ s[i].fn = fn BY <1>1, Places
<1>3. \A fn, i : i \in Of(r, fn) <=> i \in 1..n /\ r[i].fn = fn BY Places
<1>4. \A i \in 1..n : r[i].fn = s[i].fn /\ r[i].arg = s[i].arg OBVIOUS
<1>5. Of(r, "os") = Of(s, "os") /\ Of(r, "entry") = Of(s, "entry")
  <2>1. Of(s, "os") \subseteq 1..n /\ Of(s, "entry") \subseteq 1..n BY DEF Handlers
  <2>2. n <= Len(s) OBVIOUS
  <2>3. \A i : i \in Of(r, "os") <=> i \in Of(s, "os") BY <1>1, <1>2, <1>3, <1>4, <2>1, <2>2
  <2>4. \A i : i \in Of(r, "entry") <=> i \in Of(s, "entry") BY <1>1, <1>2, <1>3, <1>4, <2>1, <2>2
  <2> QED BY <2>3, <2>4, SameSet
<1>6. \A i \in Handlers(s) : i \in 1..n /\ r[i] = s[i] BY <1>2 DEF Handlers
<1>7. Masked(r, b) BY <1>5, <1>6 DEF Masked, Good, Handlers
<1>8. Entries(r, f)
  <2>1. ASSUME NEW i \in Of(r, "entry") PROVE EntryAt(r, i, f)
    <3>1. EntryAt(s, i, f) /\ r[i] = s[i] /\ i \in 1..n
      BY <2>1, <1>5, <1>6 DEF Good, Entries, Handlers
    <3>2. i = Len(s) => i = n BY <3>1, <1>1
    <3> QED BY <3>1, <3>2, <1>5 DEF EntryAt
  <2> QED BY <2>1, <1>5 DEF Entries, Good
<1>9. Errors(r)
  <2>1. ASSUME NEW i \in 1..n, r[i].pc = "fatal" PROVE i = n BY <1>1, <2>1 DEF Good, Errors
  <2>2. ASSUME n > 0, r[n].pc = "fatal" PROVE r[n].fn = "eval" BY <1>1, <2>2 DEF Good, Errors
  <2> QED BY <2>1, <2>2 DEF Errors
<1>10. Based(r)
  <2>1. ASSUME NEW i \in Of(r, "entry") \cup Of(r, "catch") PROVE i > 1 /\ r[i - 1].fn = "eval"
    <3>1. i \in Of(s, "entry") \cup Of(s, "catch") /\ i \in 1..n BY <1>2, <1>3, <1>4
    <3>2. i > 1 /\ s[i - 1].fn = "eval" BY <3>1 DEF Good, Based
    <3> QED BY <3>1, <3>2, <1>4
  <2> QED BY <2>1 DEF Based
<1> QED BY <1>7, <1>8, <1>9, <1>10 DEF Good

\* A call of traceEntry at the top may change what it holds and the flags.
LEMMA EntryMoves ==
  ASSUME NEW s, NEW f, NEW b, Good(s, f, b), Len(s) > 0, s[Len(s)].fn = "entry",
         NEW g \in SUBSET (Noted \cup {"IN_ENTRY"}),
         NEW x \in Others, x.fn = "entry",
         x.pc \in {"number", "handler", "clear", "leave"},
         x.pc = "leave" => x.arg \subseteq Noted, "IN_ENTRY" \in g
  PROVE  Good([s EXCEPT ![Len(s)] = x], g, b)
<1> DEFINE n == Len(s)
           r == [s EXCEPT ![Len(s)] = x]
<1>1. s \in Seq(AllFrames) /\ n \in Nat /\ n > 0 BY DEF Good
<1>2. r \in Seq(AllFrames) /\ Len(r) = n /\ r[n] = x /\ \A i \in 1..n : i # n => r[i] = s[i]
  BY <1>1, Changed DEF AllFrames
<1> HIDE DEF r
<1>3. \A fn, i : i \in Of(s, fn) <=> i \in 1..n /\ s[i].fn = fn BY <1>1, Places
<1>4. \A fn, i : i \in Of(r, fn) <=> i \in 1..n /\ r[i].fn = fn BY <1>2, Places
<1>5. \A i \in 1..n : r[i].fn = s[i].fn BY <1>2
<1>6. ASSUME NEW fn PROVE Of(r, fn) = Of(s, fn)
  <2>1. \A i : i \in Of(r, fn) <=> i \in Of(s, fn) BY <1>3, <1>4, <1>5
  <2> QED BY <2>1, SameSet
<1>7. n \in Of(s, "entry") BY <1>1, <1>3
<1>8. Of(s, "entry") = {n} BY <1>7 DEF Good, Entries, EntryAt
<1>9. Masked(r, b)
  <2>1. \A i \in Of(s, "os") : r[i] = s[i] BY <1>1, <1>2, <1>3
  <2> QED BY <2>1, <1>6 DEF Good, Masked
<1>10. Entries(r, g)
  <2>1. EntryAt(r, n, g) BY <1>2, <1>6, <1>8 DEF EntryAt
  <2> QED BY <2>1, <1>6, <1>8 DEF Entries
<1>11. Errors(r)
  <2>1. \A i \in 1..n : r[i].pc # "fatal" BY <1>1, <1>2 DEF Good, Errors
  <2> QED BY <2>1, <1>2 DEF Errors
<1>12. Based(r)
  <2>1. ASSUME NEW i \in Of(r, "entry") \cup Of(r, "catch") PROVE i > 1 /\ r[i - 1].fn = "eval"
    <3>1. i \in 1..n /\ i > 1 /\ s[i - 1].fn = "eval" BY <1>3, <1>6, <2>1 DEF Good, Based
    <3> QED BY <3>1, <1>1, <1>5
  <2> QED BY <2>1 DEF Based
<1> QED BY <1>2, <1>9, <1>10, <1>11, <1>12 DEF Good, r

\* A call of traceEntry returns, its flag cleared.
LEMMA EntryReturns ==
  ASSUME NEW s, NEW f, NEW b, Good(s, f, b), Len(s) > 0, s[Len(s)].fn = "entry",
         NEW g \in SUBSET Noted
  PROVE  Good(SubSeq(s, 1, Len(s) - 1), g, b)
<1> DEFINE n == Len(s)
           r == SubSeq(s, 1, n - 1)
<1>1. s \in Seq(AllFrames) /\ n \in Nat /\ n > 0 BY DEF Good
<1>2. r \in Seq(AllFrames) /\ Len(r) = n - 1 /\ \A i \in 1..(n - 1) : r[i] = s[i] BY <1>1, Shorter
<1> HIDE DEF r
<1>3. \A fn, i : i \in Of(s, fn) <=> i \in 1..n /\ s[i].fn = fn BY <1>1, Places
<1>4. \A fn, i : i \in Of(r, fn) <=> i \in 1..(n - 1) /\ r[i].fn = fn BY <1>2, Places
<1>5. n \in Of(s, "entry") BY <1>1, <1>3
<1>6. Of(s, "entry") = {n} BY <1>5 DEF Good, Entries, EntryAt
<1>7. Of(r, "entry") = {} BY <1>1, <1>2, <1>3, <1>4, <1>6
<1>8. Of(r, "os") = Of(s, "os") /\ \A i \in Of(s, "os") : r[i] = s[i]
  <2>1. n \notin Of(s, "os") BY <1>3
  <2>2. \A i \in Of(s, "os") : i \in 1..(n - 1) BY <1>1, <1>3, <2>1
  <2>3. \A i : i \in Of(r, "os") <=> i \in Of(s, "os") BY <1>1, <1>2, <1>3, <1>4, <2>2
  <2>4. \A i \in Of(s, "os") : r[i] = s[i] BY <1>2, <2>2
  <2> QED BY <2>3, <2>4, SameSet
<1>9. Masked(r, b) BY <1>8 DEF Good, Masked
<1>10. Entries(r, g)
  <2>1. "IN_ENTRY" \notin g BY DEF Noted
  <2> QED BY <1>7, <2>1 DEF Entries
<1>11. Errors(r)
  <2>1. \A i \in 1..n : s[i].pc # "fatal" BY <1>1 DEF Good, Errors
  <2> QED BY <2>1, <1>1, <1>2 DEF Errors
<1>12. Based(r)
  <2>1. ASSUME NEW i \in Of(r, "entry") \cup Of(r, "catch") PROVE i > 1 /\ r[i - 1].fn = "eval"
    <3>1. i \in 1..(n - 1) /\ i \in Of(s, "entry") \cup Of(s, "catch")
      BY <1>1, <1>2, <1>3, <1>4, <2>1
    <3>2. i > 1 /\ s[i - 1].fn = "eval" BY <3>1 DEF Good, Based
    <3> QED BY <3>1, <3>2, <1>1, <1>2
  <2> QED BY <2>1 DEF Based
<1> QED BY <1>2, <1>9, <1>10, <1>11, <1>12 DEF Good, r

\* An expression is evaluated where no error exit is under way, and above a call of
\* traceEntry only when it runs a handler; a catch is entered like that too.
LEMMA Pushed ==
  ASSUME NEW s, NEW f, NEW b, Good(s, f, b),
         NEW x \in Others, x.fn \in {"eval", "catch"}, x.pc # "fatal",
         x.fn = "catch" => Len(s) > 0 /\ s[Len(s)].fn = "eval",
         Len(s) > 0 => s[Len(s)].pc # "fatal",
         Len(s) > 0 /\ s[Len(s)].fn = "entry" => s[Len(s)].pc = "clear"
  PROVE  Good(Append(s, x), f, b)
<1> DEFINE n == Len(s)
           r == Append(s, x)
<1>1. s \in Seq(AllFrames) /\ n \in Nat BY DEF Good
<1>2. x \in AllFrames BY DEF AllFrames
<1>3. r \in Seq(AllFrames) /\ Len(r) = n + 1 /\ r[n + 1] = x /\ \A i \in 1..n : r[i] = s[i]
  BY <1>1, <1>2, Grown
<1> HIDE DEF r
<1>4. \A fn, i : i \in Of(s, fn) <=> i \in 1..n /\ s[i].fn = fn BY <1>1, Places
<1>5. \A fn, i : i \in Of(r, fn) <=> i \in 1..(n + 1) /\ r[i].fn = fn BY <1>3, Places
<1>6. \A i \in 1..(n + 1) : i \in 1..n \/ i = n + 1 BY <1>1
<1>7. Of(r, "os") = Of(s, "os") /\ \A i \in Of(s, "os") : r[i] = s[i]
  <2>1. \A i : i \in Of(r, "os") <=> i \in Of(s, "os") BY <1>1, <1>3, <1>4, <1>5, <1>6
  <2>2. \A i \in Of(s, "os") : r[i] = s[i] BY <1>3, <1>4
  <2> QED BY <2>1, <2>2, SameSet
<1>8. Of(r, "entry") = Of(s, "entry")
  <2>1. \A i : i \in Of(r, "entry") <=> i \in Of(s, "entry") BY <1>1, <1>3, <1>4, <1>5, <1>6
  <2> QED BY <2>1, SameSet
<1>9. Masked(r, b) BY <1>7 DEF Good, Masked
<1>10. Entries(r, f)
  <2>1. ASSUME NEW i \in Of(r, "entry") PROVE EntryAt(r, i, f)
    <3>1. i \in 1..n /\ EntryAt(s, i, f) BY <1>4, <1>8, <2>1 DEF Good, Entries
    <3>2. r[i] = s[i] BY <1>3, <3>1
    <3>3. s[i].fn = "entry" BY <1>4, <1>8, <2>1
    <3>4. s[i].pc = "clear" BY <3>1, <3>3, <1>1 DEF EntryAt
    <3> QED BY <3>1, <3>2, <3>4, <1>8 DEF EntryAt
  <2> QED BY <2>1, <1>8 DEF Good, Entries
<1>11. Errors(r)
  <2>1. \A i \in 1..n : s[i].pc # "fatal" BY <1>1 DEF Good, Errors
  <2>2. \A i \in 1..(n + 1) : r[i].pc # "fatal" BY <2>1, <1>3, <1>6
  <2> QED BY <2>2, <1>3 DEF Errors
<1>12. Based(r)
  <2>1. ASSUME NEW i \in Of(r, "entry") \cup Of(r, "catch") PROVE i > 1 /\ r[i - 1].fn = "eval"
    <3>1. CASE i = n + 1
      <4>1. x.fn = "catch" BY <3>1, <2>1, <1>3, <1>5
      <4> QED BY <4>1, <3>1, <1>1, <1>3
    <3>2. CASE i # n + 1
      <4>1. i \in 1..n /\ i \in Of(s, "entry") \cup Of(s, "catch")
        BY <3>2, <2>1, <1>3, <1>4, <1>5, <1>6
      <4>2. i > 1 /\ s[i - 1].fn = "eval" BY <4>1 DEF Good, Based
      <4> QED BY <4>1, <4>2, <1>1, <1>3
    <3> QED BY <3>1, <3>2
  <2> QED BY <2>1 DEF Based
<1> QED BY <1>3, <1>9, <1>10, <1>11, <1>12 DEF Good, r

\* traceEntry is called for an expression when no call of it is marked.
LEMMA EntryCalled ==
  ASSUME NEW s, NEW f, NEW b, Good(s, f, b), Len(s) > 0, s[Len(s)].fn = "eval",
         s[Len(s)].pc # "fatal", "IN_ENTRY" \notin f, f # {}
  PROVE  Good(Append(s, Frame("entry", "loaded", f)), f, b)
<1> DEFINE n == Len(s)
           x == Frame("entry", "loaded", f)
           r == Append(s, x)
<1>1. s \in Seq(AllFrames) /\ n \in Nat BY DEF Good
<1>2. f \subseteq Noted BY DEF Good
<1>3. x \in AllFrames /\ x.fn = "entry" /\ x.pc = "loaded" /\ x.arg = f
  BY <1>2 DEF AllFrames, Others, Frame
<1> HIDE DEF x
<1>4. r \in Seq(AllFrames) /\ Len(r) = n + 1 /\ r[n + 1] = x /\ \A i \in 1..n : r[i] = s[i]
  BY <1>1, <1>3, Grown
<1> HIDE DEF r
<1>5. \A fn, i : i \in Of(s, fn) <=> i \in 1..n /\ s[i].fn = fn BY <1>1, Places
<1>6. \A fn, i : i \in Of(r, fn) <=> i \in 1..(n + 1) /\ r[i].fn = fn BY <1>4, Places
<1>7. \A i \in 1..(n + 1) : i \in 1..n \/ i = n + 1 BY <1>1
<1>8. Of(r, "os") = Of(s, "os") /\ \A i \in Of(s, "os") : r[i] = s[i]
  <2>1. \A i : i \in Of(r, "os") <=> i \in Of(s, "os") BY <1>1, <1>3, <1>4, <1>5, <1>6, <1>7
  <2>2. \A i \in Of(s, "os") : r[i] = s[i] BY <1>4, <1>5
  <2> QED BY <2>1, <2>2, SameSet
<1>9. Of(s, "entry") = {}
  <2>1. ASSUME NEW i \in Of(s, "entry") PROVE FALSE
    <3>1. EntryAt(s, i, f) /\ i \in 1..n /\ s[i].fn = "entry" BY <2>1, <1>5 DEF Good, Entries
    <3> QED BY <3>1 DEF EntryAt
  <2> QED BY <2>1
<1>10. Of(r, "entry") = {n + 1}
  <2>1. \A i : i \in Of(r, "entry") <=> i \in {n + 1}
    <3>1. \A i \in 1..n : r[i].fn # "entry" BY <1>4, <1>5, <1>9
    <3>2. r[n + 1].fn = "entry" /\ n + 1 \in 1..(n + 1) BY <1>1, <1>3, <1>4
    <3> QED BY <3>1, <3>2, <1>6, <1>7
  <2> QED BY <2>1, SameSet
<1>11. Masked(r, b) BY <1>8 DEF Good, Masked
<1>12. Entries(r, f)
  <2>1. EntryAt(r, n + 1, f) BY <1>2, <1>3, <1>4, <1>10 DEF EntryAt
  <2> QED BY <2>1, <1>10 DEF Entries
<1>13. Errors(r)
  <2>1. \A i \in 1..n : s[i].pc # "fatal" BY <1>1 DEF Good, Errors
  <2>2. \A i \in 1..(n + 1) : r[i].pc # "fatal" BY <2>1, <1>3, <1>4, <1>7
  <2> QED BY <2>2, <1>4 DEF Errors
<1>14. Based(r)
  <2>1. ASSUME NEW i \in Of(r, "entry") \cup Of(r, "catch") PROVE i > 1 /\ r[i - 1].fn = "eval"
    <3>1. CASE i = n + 1 BY <3>1, <1>1, <1>4
    <3>2. CASE i # n + 1
      <4>1. i \in 1..n /\ i \in Of(s, "entry") \cup Of(s, "catch")
        BY <3>2, <2>1, <1>4, <1>5, <1>6, <1>7
      <4>2. i > 1 /\ s[i - 1].fn = "eval" BY <4>1 DEF Good, Based
      <4> QED BY <4>1, <4>2, <1>1, <1>4
    <3> QED BY <3>1, <3>2
  <2> QED BY <2>1 DEF Based
<1> QED BY <1>4, <1>11, <1>12, <1>13, <1>14 DEF Good, r, x

\* The kernel calls a C handler while nothing is evaluated, and masks its signal.
LEMMA Interrupted ==
  ASSUME NEW s, NEW f, NEW b, Good(s, f, b), Of(s, "eval") = {}, NEW q \in Sigs, q \notin b
  PROVE  Good(Append(s, Frame("os", "running", q)), f, b \cup {q})
<1> DEFINE n == Len(s)
           x == Frame("os", "running", q)
           r == Append(s, x)
<1>1. s \in Seq(AllFrames) /\ n \in Nat BY DEF Good
<1>2. x \in AllFrames /\ x.fn = "os" /\ x.pc = "running" /\ x.arg = q
  BY DEF AllFrames, OsFrames, Frame
<1> HIDE DEF x
<1>3. r \in Seq(AllFrames) /\ Len(r) = n + 1 /\ r[n + 1] = x /\ \A i \in 1..n : r[i] = s[i]
  BY <1>1, <1>2, Grown
<1> HIDE DEF r
<1>4. \A fn, i : i \in Of(s, fn) <=> i \in 1..n /\ s[i].fn = fn BY <1>1, Places
<1>5. \A fn, i : i \in Of(r, fn) <=> i \in 1..(n + 1) /\ r[i].fn = fn BY <1>3, Places
<1>6. \A i \in 1..(n + 1) : i \in 1..n \/ i = n + 1 BY <1>1
<1>7. Of(s, "entry") = {} /\ Of(s, "catch") = {}
  <2>1. ASSUME NEW i \in Of(s, "entry") \cup Of(s, "catch") PROVE FALSE
    <3>1. i \in 1..n /\ i > 1 /\ s[i - 1].fn = "eval" BY <2>1, <1>4 DEF Good, Based
    <3>2. i - 1 \in Of(s, "eval") BY <3>1, <1>1, <1>4
    <3> QED BY <3>2
  <2> QED BY <2>1
<1>8. Of(r, "entry") = {} /\ Of(r, "catch") = {}
  <2>1. ASSUME NEW i \in 1..(n + 1) PROVE r[i].fn # "entry" /\ r[i].fn # "catch"
    <3>1. CASE i = n + 1 BY <3>1, <1>2, <1>3
    <3>2. CASE i \in 1..n
      <4>1. i \notin Of(s, "entry") /\ i \notin Of(s, "catch") BY <1>7
      <4> QED BY <4>1, <3>2, <1>3, <1>4
    <3> QED BY <3>1, <3>2, <1>6
  <2>2. \A i : i \notin Of(r, "entry") /\ i \notin Of(r, "catch") BY <2>1, <1>5
  <2> QED BY <2>2
<1>9. Of(r, "os") = Of(s, "os") \cup {n + 1} /\ Of(s, "os") \subseteq 1..n
  <2>1. \A i : i \in Of(r, "os") <=> i \in Of(s, "os") \cup {n + 1}
    BY <1>1, <1>2, <1>3, <1>4, <1>5, <1>6
  <2> QED BY <2>1, <1>4, SameSet
<1>10. Masked(r, b \cup {q})
  <2>1. \A i \in Of(s, "os") : r[i].arg = s[i].arg /\ r[i].arg \in b
    BY <1>3, <1>9 DEF Good, Masked
  <2>2. b = {s[i].arg : i \in Of(s, "os")} BY DEF Good, Masked
  <2>3. r[n + 1].arg = q BY <1>2, <1>3
  <2>4. b \cup {q} = {r[i].arg : i \in Of(r, "os")} BY <1>9, <2>1, <2>2, <2>3
  <2>5. ASSUME NEW i \in Of(r, "os"), NEW j \in Of(r, "os"), r[i].arg = r[j].arg PROVE i = j
    <3>1. CASE i \in Of(s, "os") /\ j \in Of(s, "os") BY <3>1, <2>1, <2>5 DEF Good, Masked
    <3>2. CASE i = n + 1 \/ j = n + 1 BY <3>2, <1>9, <2>1, <2>3, <2>5
    <3> QED BY <3>1, <3>2, <1>9
  <2> QED BY <2>4, <2>5 DEF Masked
<1>11. Entries(r, f) BY <1>7, <1>8 DEF Good, Entries
<1>12. Errors(r)
  <2>1. ASSUME NEW i \in 1..n, s[i].pc = "fatal" PROVE FALSE
    <3>1. s[i].fn = "eval" BY <1>1, <2>1 DEF Good, Errors
    <3> QED BY <3>1, <1>4
  <2>2. \A i \in 1..(n + 1) : r[i].pc # "fatal" BY <2>1, <1>2, <1>3, <1>6
  <2> QED BY <2>2, <1>3 DEF Errors
<1>13. Based(r) BY <1>8 DEF Based
<1>14. f \subseteq Noted \cup {"IN_ENTRY"} BY DEF Good
<1> QED BY <1>3, <1>10, <1>11, <1>12, <1>13, <1>14 DEF Good, r, x

\* A C handler returns, and its signal is unmasked.
LEMMA KernelReturns ==
  ASSUME NEW s, NEW f, NEW b, Good(s, f, b), Len(s) > 0, s[Len(s)].fn = "os"
  PROVE  Good(SubSeq(s, 1, Len(s) - 1), f, b \ {s[Len(s)].arg})
<1> DEFINE n == Len(s)
           r == SubSeq(s, 1, n - 1)
           q == s[n].arg
<1>1. s \in Seq(AllFrames) /\ n \in Nat /\ n > 0 /\ n - 1 \in 0..Len(s) BY DEF Good
<1> HIDE DEF q
<1>2. r \in Seq(AllFrames) /\ Len(r) = n - 1 /\ \A i \in 1..(n - 1) : r[i] = s[i] BY <1>1, Shorter
<1> HIDE DEF r
<1>3. \A fn, i : i \in Of(s, fn) <=> i \in 1..n /\ s[i].fn = fn BY <1>1, Places
<1>4. \A fn, i : i \in Of(r, fn) <=> i \in 1..(n - 1) /\ r[i].fn = fn BY <1>2, Places
<1>5. \A i \in 1..n : i \in 1..(n - 1) \/ i = n BY <1>1
<1>6. Of(s, "os") = Of(r, "os") \cup {n} /\ n \notin Of(r, "os")
  <2>1. \A i : i \in Of(s, "os") <=> i \in Of(r, "os") \cup {n} BY <1>1, <1>2, <1>3, <1>4, <1>5
  <2>2. n \notin Of(r, "os") BY <1>1, <1>4
  <2> QED BY <2>1, <2>2, SameSet
<1>7. Of(r, "entry") = Of(s, "entry")
  <2>1. \A i : i \in Of(r, "entry") <=> i \in Of(s, "entry") BY <1>1, <1>2, <1>3, <1>4, <1>5
  <2> QED BY <2>1, SameSet
<1>8. Masked(r, b \ {q})
  <2>1. b = {s[i].arg : i \in Of(s, "os")} /\ \A i, j \in Of(s, "os") : s[i].arg = s[j].arg => i = j
    BY DEF Good, Masked
  <2>2. \A i \in Of(r, "os") : r[i].arg = s[i].arg /\ s[i].arg # q BY <1>2, <1>4, <1>6, <2>1 DEF q
  <2>3. b \ {q} = {r[i].arg : i \in Of(r, "os")} BY <1>6, <2>1, <2>2 DEF q
  <2> QED BY <1>6, <2>1, <2>2, <2>3 DEF Masked
<1>9. Entries(r, f)
  <2>1. ASSUME NEW i \in Of(r, "entry") PROVE EntryAt(r, i, f)
    <3>1. i \in 1..(n - 1) /\ EntryAt(s, i, f) BY <1>4, <1>7, <2>1 DEF Good, Entries
    <3>2. r[i] = s[i] /\ i # Len(s) BY <1>1, <1>2, <3>1
    <3> QED BY <3>1, <3>2, <1>7 DEF EntryAt
  <2> QED BY <2>1, <1>7 DEF Good, Entries
<1>10. Errors(r)
  <2>1. \A i \in 1..n : s[i].pc # "fatal" BY <1>1 DEF Good, Errors
  <2> QED BY <2>1, <1>1, <1>2 DEF Errors
<1>11. Based(r)
  <2>1. ASSUME NEW i \in Of(r, "entry") \cup Of(r, "catch") PROVE i > 1 /\ r[i - 1].fn = "eval"
    <3>1. i \in 1..(n - 1) /\ i \in Of(s, "entry") \cup Of(s, "catch")
      BY <1>1, <1>2, <1>3, <1>4, <1>5, <2>1
    <3>2. i > 1 /\ s[i - 1].fn = "eval" BY <3>1 DEF Good, Based
    <3> QED BY <3>1, <3>2, <1>1, <1>2
  <2> QED BY <2>1 DEF Based
<1>12. f \subseteq Noted \cup {"IN_ENTRY"} BY DEF Good
<1> QED BY <1>2, <1>8, <1>9, <1>10, <1>11, <1>12 DEF Good, r, q

----------------------------------------
(* The moves of the evaluator, from those. *)

\* An expression at the top goes to its next step.
LEMMA EvalGoes ==
  ASSUME NEW s, NEW f, NEW b, Good(s, f, b), Len(s) > 0, s[Len(s)].fn = "eval",
         NEW p \in {"body", "exit", "fatal"}, p = "fatal" => Handlers(s) = {}
  PROVE  /\ Good([s EXCEPT ![Len(s)].pc = p], f, b)
         /\ Len([s EXCEPT ![Len(s)].pc = p]) = Len(s)
         /\ [s EXCEPT ![Len(s)].pc = p][Len(s)] = [s[Len(s)] EXCEPT !.pc = p]
<1> DEFINE n == Len(s)
           x == [s[n] EXCEPT !.pc = p]
           r == [s EXCEPT ![n] = x]
<1>1. s \in Seq(AllFrames) /\ n \in Nat /\ n > 0 /\ n \in 0..Len(s) BY DEF Good
<1>2. s[n] \in Others BY <1>1 DEF AllFrames, OsFrames
<1>3. x \in AllFrames /\ x.fn = "eval" /\ x.pc = p /\ x.arg = s[n].arg
  BY <1>2 DEF AllFrames, Others
<1>4. [s EXCEPT ![Len(s)].pc = p] = r OBVIOUS
<1> HIDE DEF x
<1>5. r \in Seq(AllFrames) /\ Len(r) = n /\ r[n] = x /\ \A i \in 1..n : i # n => r[i] = s[i]
  BY <1>1, <1>3, Changed
<1> HIDE DEF r
<1>6. \A fn, i : i \in Of(s, fn) <=> i \in 1..n /\ s[i].fn = fn BY <1>1, Places
<1>7. \A fn, i : i \in Of(r, fn) <=> i \in 1..n /\ r[i].fn = fn BY <1>5, Places
<1>8. Handlers(s) \subseteq 1..n BY <1>6 DEF Handlers
<1>9. p = "fatal" => Handlers(r) = {} BY <1>3, <1>5, <1>6, <1>7 DEF Handlers
<1>10. Good(r, f, b) BY <1>1, <1>3, <1>5, <1>8, <1>9, Cut
<1> QED BY <1>4, <1>5, <1>10 DEF x

\* The frames above an expression are dropped, no handler with them, and it ends.
LEMMA Landed ==
  ASSUME NEW s, NEW f, NEW b, Good(s, f, b), NEW k \in 1..Len(s), s[k].fn = "eval",
         Handlers(s) \subseteq 1..k
  PROVE  Good([SubSeq(s, 1, k) EXCEPT ![k].pc = "exit"], f, b)
<1> DEFINE q == SubSeq(s, 1, k)
           x == [s[k] EXCEPT !.pc = "exit"]
           r == [q EXCEPT ![k] = x]
<1>1. s \in Seq(AllFrames) /\ Len(s) \in Nat /\ k \in 0..Len(s) BY DEF Good
<1>2. s[k] \in Others BY <1>1 DEF AllFrames, OsFrames
<1>3. x \in AllFrames /\ x.fn = "eval" /\ x.pc = "exit" /\ x.arg = s[k].arg
  BY <1>2 DEF AllFrames, Others
<1>4. q \in Seq(AllFrames) /\ Len(q) = k /\ \A i \in 1..k : q[i] = s[i] BY <1>1, Shorter
<1>5. [q EXCEPT ![k].pc = "exit"] = r
  <2>1. q[k] = s[k] BY <1>4
  <2> HIDE DEF q
  <2>2. [q EXCEPT ![k].pc = "exit"] = [q EXCEPT ![k] = [q[k] EXCEPT !.pc = "exit"]] OBVIOUS
  <2> QED BY <2>1, <2>2
<1> HIDE DEF x, q
<1>6. r \in Seq(AllFrames) /\ Len(r) = k /\ r[k] = x /\ \A i \in 1..k : i # k => r[i] = q[i]
  BY <1>1, <1>3, <1>4, Changed
<1> HIDE DEF r
<1>7. \A i \in 1..k : i # k => r[i] = s[i] BY <1>4, <1>6
<1>8. r[k].pc # "fatal" BY <1>3, <1>6
<1>9. r[k].fn = s[k].fn /\ r[k].arg = s[k].arg BY <1>3, <1>6
<1>10. Good(r, f, b) BY <1>1, <1>6, <1>7, <1>8, <1>9, Cut
<1> QED BY <1>5, <1>10 DEF q

\* An expression at the top returns, with the catch it was evaluated for.
LEMMA EvalReturns ==
  ASSUME NEW s, NEW f, NEW b, Good(s, f, b), Len(s) > 0, s[Len(s)].fn = "eval"
  PROVE  /\ Len(s) > 1 /\ s[Len(s) - 1].fn = "catch" =>
              Good([SubSeq(s, 1, Len(s) - 2) EXCEPT ![Len(s) - 2].pc = "exit"], f, b)
         /\ ~(Len(s) > 1 /\ s[Len(s) - 1].fn = "catch") =>
              Good(SubSeq(s, 1, Len(s) - 1), f, b)
<1> DEFINE n == Len(s)
<1>1. s \in Seq(AllFrames) /\ n \in Nat /\ n > 0 BY DEF Good
<1>2. \A fn, i : i \in Of(s, fn) <=> i \in 1..n /\ s[i].fn = fn BY <1>1, Places
<1>3. CASE n > 1 /\ s[n - 1].fn = "catch"
  <2>1. n - 1 \in Of(s, "catch") BY <1>1, <1>2, <1>3
  <2>2. n - 1 > 1 /\ s[n - 2].fn = "eval"
    <3>1. n - 1 > 1 /\ s[(n - 1) - 1].fn = "eval" BY <2>1 DEF Good, Based
    <3>2. (n - 1) - 1 = n - 2 BY <1>1
    <3> QED BY <3>1, <3>2
  <2>3. n - 2 \in 1..n BY <1>1, <2>2
  <2>4. Handlers(s) \subseteq 1..(n - 2)
    <3>1. ASSUME NEW i \in Handlers(s) PROVE i \in 1..(n - 2)
      <4>1. i \in 1..n /\ s[i].fn \in {"os", "entry"} BY <1>2 DEF Handlers
      <4>2. i # n /\ i # n - 1 BY <4>1, <1>3
      <4> QED BY <4>1, <4>2, <1>1
    <3> QED BY <3>1
  <2> QED BY <1>3, <2>2, <2>3, <2>4, Landed
<1>4. CASE ~(n > 1 /\ s[n - 1].fn = "catch")
  <2> DEFINE r == SubSeq(s, 1, n - 1)
  <2>1. n - 1 \in 0..Len(s) BY <1>1
  <2>2. r \in Seq(AllFrames) /\ Len(r) = n - 1 /\ \A i \in 1..(n - 1) : r[i] = s[i]
    BY <1>1, <2>1, Shorter
  <2> HIDE DEF r
  <2>3. Handlers(s) \subseteq 1..(n - 1)
    <3>1. ASSUME NEW i \in Handlers(s) PROVE i \in 1..(n - 1)
      <4>1. i \in 1..n /\ s[i].fn \in {"os", "entry"} BY <1>2 DEF Handlers
      <4> QED BY <4>1, <1>1
    <3> QED BY <3>1
  <2>4. \A i \in 1..(n - 1) : s[i].pc # "fatal" BY <1>1 DEF Good, Errors
  <2>5. n - 1 > 0 => n - 1 \in 1..(n - 1) BY <1>1
  <2>6. n - 1 > 0 => r[n - 1] = s[n - 1] /\ r[n - 1].pc # "fatal" BY <2>2, <2>4, <2>5
  <2>7. Good(r, f, b) BY <2>1, <2>2, <2>3, <2>6, Cut
  <2> QED BY <1>4, <2>7 DEF r
<1> QED BY <1>3, <1>4

\* Everything is dropped, when no handler runs.
LEMMA Emptied ==
  ASSUME NEW s, NEW f, NEW b, Good(s, f, b), Handlers(s) = {}
  PROVE  Good(<<>>, f, b)
<1>1. s \in Seq(AllFrames) /\ Len(s) \in Nat /\ 0 \in 0..Len(s) BY DEF Good
<1>2. <<>> \in Seq(AllFrames) /\ Len(<<>>) = 0 OBVIOUS
<1>3. Handlers(s) \subseteq 1..0 OBVIOUS
<1>4. ~(0 > 0) OBVIOUS
<1>5. \A i \in 1..0 : i # 0 => <<>>[i] = s[i] OBVIOUS
<1> QED BY <1>1, <1>2, <1>3, <1>4, <1>5, Cut

\* When no handler runs, nothing is masked and TRACE_IN_ENTRY is off.
LEMMA Quiet ==
  ASSUME NEW s, NEW f, NEW b, Good(s, f, b), Handlers(s) = {}
  PROVE  b = {} /\ "IN_ENTRY" \notin f
<1>1. Of(s, "os") = {} /\ Of(s, "entry") = {} BY DEF Handlers
<1> QED BY <1>1 DEF Good, Masked, Entries

----------------------------------------
(* The steps. *)

\* In a process that is not dead, the stack is good.
LEMMA Alive ==
  ASSUME SignalInv, loop # "dead"
  PROVE  /\ Good(stack, traceFlag, blocked) /\ currentSignal \in Sigs \cup {"none"}
         /\ stack \in Seq(AllFrames) /\ Len(stack) \in Nat BY DEF SignalInv, Good

\* One with something on its stack is not dead, and an expression or a call of
\* traceEntry at the top is a frame like others.
LEMMA Running ==
  ASSUME SignalInv, stack # <<>>
  PROVE  /\ loop # "dead" /\ Good(stack, traceFlag, blocked)
         /\ stack \in Seq(AllFrames) /\ Len(stack) \in Nat /\ Len(stack) > 0
         /\ Top.fn \in {"eval", "entry", "catch"} => Top \in Others
<1>1. loop # "dead" BY DEF SignalInv
<1>2. Good(stack, traceFlag, blocked) BY <1>1 DEF SignalInv
<1>3. stack \in Seq(AllFrames) BY <1>2 DEF Good
<1>4. Len(stack) \in Nat /\ Len(stack) > 0 BY <1>3, stack # <<>>
<1>5. Top \in AllFrames BY <1>3, <1>4 DEF Top
<1> QED BY <1>1, <1>2, <1>3, <1>4, <1>5 DEF AllFrames, OsFrames

\* What a step has to show, when the process lives on.
LEMMA SignalKept ==
  ASSUME Good(stack', traceFlag', blocked'), loop' # "dead",
         currentSignal' \in Sigs \cup {"none"}
  PROVE  SignalInv' BY DEF SignalInv

\* An operation a handler may not do is done when none runs.
LEMMA NoneRuns ==
  ASSUME HandlersReturn, NEW what \in {"error", "throw", "reset"}, May(what)
  PROVE  Handlers(stack) = {}
<1>1. what \notin HandlerOps BY DEF HandlersReturn
<1>2. ~InHandler BY <1>1 DEF May
<1> QED BY <1>2 DEF InHandler, Frames, Handlers, Of

\* A jump to a catch or to the top, when no handler runs.
LEMMA Jumps ==
  ASSUME SignalInv, stack # <<>>, Handlers(stack) = {}, ToCatch \/ ToTop
  PROVE  Good(stack', traceFlag, blocked) /\ loop' # "dead"
<1>1. loop # "dead" /\ Good(stack, traceFlag, blocked) BY Running
<1>2. CASE ToCatch
  <2>1. PICK i \in Frames("catch") : stack' = [SubSeq(stack, 1, i - 1) EXCEPT ![i - 1].pc = "exit"]
    BY <1>2 DEF ToCatch
  <2>2. i \in 1..Len(stack) /\ Len(stack) \in Nat BY Running DEF Frames
  <2>3. i > 1 /\ stack[i - 1].fn = "eval" BY <1>1, <2>1 DEF Good, Based, Of, Frames
  <2>4. i - 1 \in 1..Len(stack) BY <2>2, <2>3
  <2>5. Handlers(stack) \subseteq 1..(i - 1) OBVIOUS
  <2>6. Good([SubSeq(stack, 1, i - 1) EXCEPT ![i - 1].pc = "exit"], traceFlag, blocked)
    BY <1>1, <2>3, <2>4, <2>5, Landed
  <2> QED BY <1>1, <1>2, <2>1, <2>6 DEF ToCatch
<1>3. CASE ToTop
  <2>1. Good(<<>>, traceFlag, blocked) BY <1>1, Emptied
  <2> QED BY <1>3, <2>1 DEF ToTop
<1> QED BY <1>2, <1>3

\* The kernel's steps.
LEMMA KernelInv ==
  ASSUME SignalInv, HandlersReturn, NEW s \in Sigs,
         Arrive(s) \/ Kill(s) \/ Defer(s) \/ RunIdle(s) \/ Unhandled(s)
  PROVE  SignalInv'
<1>1. CASE Arrive(s)
  <2> USE <1>1 DEF Arrive
  <2>1. Good(stack', traceFlag', blocked') BY Alive DEF osVars, debugVars
  <2>2. currentSignal' \in Sigs \cup {"none"} /\ loop' # "dead" BY Alive
  <2> QED BY <2>1, <2>2, SignalKept
<1>2. CASE Kill(s)
  <2>1. stack' = <<>> /\ pending' = {} /\ blocked' = {} /\ loop' = "dead" BY <1>2 DEF Kill
  <2>2. <<>> \in Seq(AllFrames) /\ Len(<<>>) = 0 OBVIOUS
  <2>3. \A fn : Of(<<>>, fn) = {} BY <2>2, Places DEF Of
  <2>4. Good(<<>>, {}, {}) BY <2>2, <2>3 DEF Good, Based, Entries, Errors, Masked
  <2>5. currentSignal' \in Sigs \cup {"none"} BY <1>2 DEF Kill, SignalInv
  <2> QED BY <2>1, <2>4, <2>5 DEF SignalInv
<1>3. ASSUME Delivered(s) PROVE loop # "dead" /\ loop' # "dead" BY <1>3 DEF Delivered, SignalInv
<1>4. CASE Defer(s)
  <2>1. loop # "dead" /\ loop' # "dead" BY <1>3, <1>4 DEF Defer
  <2>2. Good(stack, traceFlag, blocked) BY <2>1, Alive
  <2>3. traceFlag' \in SUBSET (Noted \cup {"IN_ENTRY"}) BY <1>4, <2>2 DEF Defer, Good, Noted
  <2>4. "IN_ENTRY" \in traceFlag' <=> "IN_ENTRY" \in traceFlag BY <1>4 DEF Defer
  <2>5. Good(stack, traceFlag', blocked) BY <2>2, <2>3, <2>4, FlagsChange
  <2>6. stack' = stack /\ blocked' = blocked BY <1>4 DEF Defer
  <2>7. currentSignal' \in Sigs \cup {"none"} BY <1>4 DEF Defer, SignalInv
  <2> QED BY <2>1, <2>5, <2>6, <2>7, SignalKept
<1>5. CASE RunIdle(s)
  <2>1. loop # "dead" /\ loop' # "dead" BY <1>3, <1>5 DEF RunIdle
  <2>2. Good(stack, traceFlag, blocked) /\ stack \in Seq(AllFrames) BY <2>1, Alive
  <2>3. Of(stack, "eval") = {}
    <3>1. Cardinality(Frames("eval")) = 0 BY <1>5 DEF RunIdle, recursionCount
    <3>2. Frames("eval") \subseteq 1..Len(stack) /\ Len(stack) \in Nat BY <2>2 DEF Frames
    <3>3. IsFiniteSet(1..Len(stack)) BY <3>2, FS_Interval
    <3>4. IsFiniteSet(Frames("eval")) BY <3>2, <3>3, FS_Subset
    <3>5. Frames("eval") = {} BY <3>1, <3>4, FS_EmptySet
    <3> QED BY <3>5 DEF Frames, Of
  <2>4. s \notin blocked BY <1>5 DEF RunIdle, Delivered
  <2> DEFINE q == Append(stack, Frame("os", "running", s))
  <2>5. Good(q, traceFlag, blocked \cup {s}) BY <2>2, <2>3, <2>4, Interrupted
  <2>6. Frame("os", "running", s) \in AllFrames BY DEF AllFrames, OsFrames, Frame
  <2>7. Len(q) > 0 /\ q[Len(q)] = Frame("os", "running", s) BY <2>2, <2>6, Grown
  <2>8. Eval \in Others /\ Eval.fn = "eval" /\ Eval.pc = "entry" BY DEF Eval, Frame, Others
  <2> HIDE DEF q
  <2>9. Good(Append(q, Eval), traceFlag, blocked \cup {s})
    <3>1. q[Len(q)].fn = "os" /\ q[Len(q)].pc = "running" BY <2>7 DEF Frame
    <3> QED BY <2>5, <2>8, <3>1, Pushed
  <2>10. stack' = Append(q, Eval) BY <1>5, <2>2, <2>6, <2>8 DEF RunIdle, q, AllFrames
  <2>11. traceFlag' = traceFlag /\ blocked' = blocked \cup {s} BY <1>5 DEF RunIdle
  <2>12. currentSignal' \in Sigs \cup {"none"} BY <1>5 DEF RunIdle, SignalInv
  <2> QED BY <2>1, <2>9, <2>10, <2>11, <2>12, SignalKept
<1>6. CASE Unhandled(s)
  <2>1. loop # "dead" /\ loop' # "dead" BY <1>3, <1>6 DEF Unhandled
  <2>2. stack' = stack /\ blocked' = blocked /\ traceFlag' = traceFlag
    BY <1>6 DEF Unhandled, HandlersReturn
  <2>3. currentSignal' \in Sigs \cup {"none"} BY <1>6 DEF Unhandled, SignalInv
  <2> QED BY <2>1, <2>2, <2>3, Alive, SignalKept
<1> QED BY <1>1, <1>2, <1>4, <1>5, <1>6

\* The steps of the command loop, and the return of a C handler.
LEMMA LoopInv ==
  ASSUME SignalInv, HandlerReturns \/ Prompt \/ PromptReset \/ ReadLine \/ EvaluateLine
  PROVE  SignalInv'
<1>1. CASE HandlerReturns
  <2> USE <1>1 DEF HandlerReturns
  <2>1. stack # <<>> /\ stack[Len(stack)].fn = "os" BY DEF At, Top
  <2>2. loop # "dead" /\ Good(stack, traceFlag, blocked) /\ Len(stack) > 0 BY <2>1, Running
  <2>3. Good(SubSeq(stack, 1, Len(stack) - 1), traceFlag, blocked \ {Top.arg})
    BY <2>1, <2>2, KernelReturns DEF Top
  <2>4. Good(stack', traceFlag', blocked') BY <2>3 DEF Below
  <2>5. currentSignal' \in Sigs \cup {"none"} BY DEF SignalInv
  <2> QED BY <2>2, <2>4, <2>5, SignalKept
<1>2. CASE Prompt \/ ReadLine
  <2>1. loop # "dead" /\ loop' # "dead" BY <1>2 DEF Prompt, ReadLine
  <2>2. stack' = stack /\ blocked' = blocked /\ traceFlag' = traceFlag
        /\ currentSignal' = currentSignal BY <1>2 DEF Prompt, ReadLine, osVars
  <2> QED BY <2>1, <2>2, Alive, SignalKept
<1>3. CASE PromptReset
  <2>1. FALSE
    <3>1. loop # "dead" /\ "SIGINT" \in traceFlag BY <1>3 DEF PromptReset
    <3> QED BY <3>1, Alive DEF Good, Noted
  <2> QED BY <2>1
<1>4. CASE EvaluateLine
  <2>1. loop # "dead" BY <1>4 DEF EvaluateLine
  <2>2. Good(stack, traceFlag, blocked) BY <2>1, Alive
  <2>3. Eval \in Others /\ Eval.fn = "eval" /\ Eval.pc = "entry" BY DEF Eval, Frame, Others
  <2>4. Len(stack) = 0 /\ Append(stack, Eval) = <<Eval>> BY <1>4 DEF EvaluateLine
  <2>5. ~(Len(stack) > 0) BY <2>4
  <2>6. Good(Append(stack, Eval), traceFlag, blocked) BY <2>2, <2>3, <2>5, Pushed
  <2>7. stack' = <<Eval>> /\ blocked' = blocked /\ traceFlag' = traceFlag
        /\ currentSignal' = currentSignal /\ loop' # "dead" BY <1>4 DEF EvaluateLine, osVars
  <2>8. currentSignal' \in Sigs \cup {"none"} BY <2>7 DEF SignalInv
  <2> QED BY <2>4, <2>6, <2>7, <2>8, SignalKept
<1> QED BY <1>1, <1>2, <1>3, <1>4

\* A call of traceEntry at the top is the only one, and marked unless it has just begun.
LEMMA AtEntry ==
  ASSUME SignalInv, NEW p, At("entry", p)
  PROVE  /\ stack # <<>> /\ Len(stack) > 0 /\ stack[Len(stack)].fn = "entry"
         /\ stack[Len(stack)].pc = p /\ Top \in Others
         /\ p \in {"loaded", "number", "handler", "clear", "leave"}
         /\ p \in {"loaded", "leave"} => Top.arg \subseteq Noted
         /\ p = "loaded" => Top.arg # {}
         /\ p # "loaded" => "IN_ENTRY" \in traceFlag
<1>1. stack # <<>> /\ Top.fn = "entry" /\ Top.pc = p BY DEF At
<1>2. Good(stack, traceFlag, blocked) /\ stack \in Seq(AllFrames) /\ Len(stack) \in Nat
      /\ Len(stack) > 0 /\ Top \in Others BY <1>1, Running
<1>3. Len(stack) \in Of(stack, "entry") BY <1>1, <1>2 DEF Of, Top
<1>4. EntryAt(stack, Len(stack), traceFlag) BY <1>2, <1>3 DEF Good, Entries
<1> QED BY <1>1, <1>2, <1>4 DEF EntryAt, Top

\* It takes its next step: what the stack becomes.
LEMMA EntryGoes ==
  ASSUME SignalInv, NEW p, At("entry", p), NEW x \in Others, x.fn = "entry",
         x.pc \in {"number", "handler", "clear", "leave"},
         x.pc = "leave" => x.arg \subseteq Noted,
         NEW g \in SUBSET (Noted \cup {"IN_ENTRY"}), "IN_ENTRY" \in g
  PROVE  /\ Good([stack EXCEPT ![Len(stack)] = x], g, blocked)
         /\ Len([stack EXCEPT ![Len(stack)] = x]) = Len(stack)
         /\ [stack EXCEPT ![Len(stack)] = x][Len(stack)] = x
<1>1. Len(stack) > 0 /\ stack[Len(stack)].fn = "entry" /\ Good(stack, traceFlag, blocked)
      /\ stack \in Seq(AllFrames) /\ Len(stack) \in Nat BY AtEntry, Running
<1>2. x \in AllFrames BY DEF AllFrames
<1>3. Good([stack EXCEPT ![Len(stack)] = x], g, blocked) BY <1>1, EntryMoves
<1>4. Len(stack) \in 1..Len(stack) BY <1>1
<1> QED BY <1>1, <1>2, <1>3, <1>4, Changed

\* What Goto makes of a call of traceEntry at the top.
LEMMA EntryGoto ==
  ASSUME SignalInv, NEW p, At("entry", p), NEW q \in {"number", "handler", "clear", "leave"}
  PROVE  /\ Goto(q) = [stack EXCEPT ![Len(stack)] = [Top EXCEPT !.pc = q]]
         /\ [Top EXCEPT !.pc = q] \in Others
         /\ [Top EXCEPT !.pc = q].fn = "entry" /\ [Top EXCEPT !.pc = q].pc = q
         /\ [Top EXCEPT !.pc = q].arg = Top.arg
<1>1. Top \in Others /\ Top.fn = "entry" BY AtEntry DEF Top
<1>2. Goto(q) = [stack EXCEPT ![Len(stack)] = [Top EXCEPT !.pc = q]] BY DEF Goto, Top
<1> QED BY <1>1, <1>2 DEF Others

\* It goes on to run a handler, an expression above it.
LEMMA EntryRuns ==
  ASSUME SignalInv, NEW p, At("entry", p),
         NEW g \in SUBSET (Noted \cup {"IN_ENTRY"}), "IN_ENTRY" \in g
  PROVE  Good(Goto("clear"), g, blocked) /\ Good(Append(Goto("clear"), Eval), g, blocked)
<1> DEFINE x == [Top EXCEPT !.pc = "clear"]
           r == [stack EXCEPT ![Len(stack)] = x]
<1>1. Goto("clear") = r /\ x \in Others /\ x.fn = "entry" /\ x.pc = "clear" BY EntryGoto
<1> HIDE DEF x
<1>2. Good(r, g, blocked) /\ Len(r) = Len(stack) /\ r[Len(stack)] = x BY <1>1, EntryGoes
<1> HIDE DEF r
<1>3. Eval \in Others /\ Eval.fn = "eval" /\ Eval.pc = "entry" BY DEF Eval, Frame, Others
<1>4. r[Len(r)].pc = "clear" BY <1>1, <1>2
<1>5. Good(Append(r, Eval), g, blocked) BY <1>2, <1>3, <1>4, Pushed
<1> QED BY <1>1, <1>2, <1>5

\* traceEntry: its call, what it does about what is noted, and its return.
LEMMA EntryInv ==
  ASSUME SignalInv, TraceEntry
  PROVE  SignalInv'
<1>1. ASSUME NEW p, At("entry", p) PROVE loop # "dead" /\ Good(stack, traceFlag, blocked)
  BY <1>1, AtEntry, Running
<1>2. currentSignal \in Sigs \cup {"none"} BY DEF SignalInv
<1>3. CASE EvalEntry
  <2>1. stack # <<>> /\ stack[Len(stack)].fn = "eval" /\ stack[Len(stack)].pc = "entry"
    BY <1>3 DEF EvalEntry, At, Top
  <2>2. loop # "dead" /\ Good(stack, traceFlag, blocked) /\ Len(stack) > 0 BY <2>1, Running
  <2> DEFINE r == Goto("body")
  <2>3. Good(r, traceFlag, blocked) /\ Len(r) = Len(stack)
        /\ r[Len(r)] = [stack[Len(stack)] EXCEPT !.pc = "body"] BY <2>1, <2>2, EvalGoes DEF Goto
  <2>4. Top \in Others BY <2>1, Running DEF Top
  <2>5. r[Len(r)].fn = "eval" /\ r[Len(r)].pc = "body" BY <2>1, <2>3, <2>4 DEF Others, Top
  <2> HIDE DEF r
  <2>6. CASE traceFlag = {} \/ traceFlag \cap Busy # {}
    <3>1. stack' = r BY <1>3, <2>6 DEF EvalEntry, r
    <3>2. blocked' = blocked /\ traceFlag' = traceFlag /\ currentSignal' = currentSignal /\ loop' = loop
      BY <1>3 DEF EvalEntry, osVars
    <3> QED BY <1>2, <2>2, <2>3, <3>1, <3>2, SignalKept
  <2>7. CASE ~(traceFlag = {} \/ traceFlag \cap Busy # {})
    <3>1. stack' = Append(r, Frame("entry", "loaded", traceFlag)) BY <1>3, <2>7 DEF EvalEntry, r
    <3>2. "IN_ENTRY" \notin traceFlag /\ traceFlag # {} BY <2>7 DEF Busy
    <3>3. Len(r) > 0 BY <2>2, <2>3
    <3>4. Good(stack', traceFlag, blocked) BY <2>3, <2>5, <3>1, <3>2, <3>3, EntryCalled
    <3>5. blocked' = blocked /\ traceFlag' = traceFlag /\ currentSignal' = currentSignal /\ loop' = loop
      BY <1>3 DEF EvalEntry, osVars
    <3> QED BY <1>2, <2>2, <3>4, <3>5, SignalKept
  <2> QED BY <2>6, <2>7
<1>4. CASE EntrySignal
  <2>1. At("entry", "loaded") BY <1>4 DEF EntrySignal
  <2>2. Top.arg \subseteq Noted BY <2>1, AtEntry
  <2>3. traceFlag' = (Top.arg \cup {"IN_ENTRY"}) \ {"SIGNAL"} BY <1>4 DEF EntrySignal
  <2>4. traceFlag' \in SUBSET (Noted \cup {"IN_ENTRY"}) /\ "IN_ENTRY" \in traceFlag' BY <2>2, <2>3
  <2>5. Good(Goto("number"), traceFlag', blocked)
    <3>1. /\ Goto("number") = [stack EXCEPT ![Len(stack)] = [Top EXCEPT !.pc = "number"]]
          /\ [Top EXCEPT !.pc = "number"] \in Others
          /\ [Top EXCEPT !.pc = "number"].fn = "entry" /\ [Top EXCEPT !.pc = "number"].pc = "number"
          /\ [Top EXCEPT !.pc = "number"].arg = Top.arg BY <2>1, EntryGoto
    <3>2. PICK x : x = [Top EXCEPT !.pc = "number"] OBVIOUS
    <3>3. x \in Others /\ x.fn = "entry" /\ x.pc = "number" /\ x.arg \subseteq Noted BY <2>2, <3>1, <3>2
    <3>4. Good([stack EXCEPT ![Len(stack)] = x], traceFlag', blocked)
      BY <2>1, <2>4, <3>3, EntryGoes
    <3> QED BY <3>1, <3>2, <3>4
  <2>6. stack' = Goto("number") /\ blocked' = blocked /\ currentSignal' = currentSignal /\ loop' = loop
    BY <1>4 DEF EntrySignal, osVars
  <2> QED BY <1>1, <1>2, <2>1, <2>5, <2>6, SignalKept
<1>5. CASE EntryNumber
  <2>1. At("entry", "number") BY <1>5 DEF EntryNumber
  <2> DEFINE x == [fn |-> "entry", pc |-> "handler", arg |-> {currentSignal}]
  <2>2. x \in Others BY <1>2 DEF Others
  <2>3. Good(stack, traceFlag, blocked) /\ "IN_ENTRY" \in traceFlag BY <1>1, <2>1, AtEntry
  <2>4. traceFlag \in SUBSET (Noted \cup {"IN_ENTRY"}) BY <2>3 DEF Good
  <2>5. Good([stack EXCEPT ![Len(stack)] = x], traceFlag, blocked)
    BY <2>1, <2>2, <2>3, <2>4, EntryGoes
  <2>6. stack' = [stack EXCEPT ![Len(stack)] = x]
    <3>1. Goto("handler") = [stack EXCEPT ![Len(stack)] = [Top EXCEPT !.pc = "handler"]]
      BY <2>1, EntryGoto
    <3>2. Top \in Others /\ Top.fn = "entry" BY <2>1, AtEntry DEF Top
    <3>3. x = [[Top EXCEPT !.pc = "handler"] EXCEPT !.arg = {currentSignal}]
      <4>1. PICK a : Top = [fn |-> "entry", pc |-> Top.pc, arg |-> a] BY <3>2 DEF Others
      <4>2. [Top EXCEPT !.pc = "handler"] = [fn |-> "entry", pc |-> "handler", arg |-> a] BY <4>1
      <4>3. [[fn |-> "entry", pc |-> "handler", arg |-> a] EXCEPT !.arg = {currentSignal}] = x
        OBVIOUS
      <4> QED BY <4>2, <4>3
    <3>4. stack \in Seq(AllFrames) /\ Len(stack) \in 1..Len(stack) BY <2>1, AtEntry, Running
    <3>5. stack' = [Goto("handler") EXCEPT ![Len(stack)].arg = {currentSignal}]
      BY <1>5 DEF EntryNumber
    <3> HIDE DEF x
    <3> QED BY <3>1, <3>3, <3>4, <3>5
  <2>7. blocked' = blocked /\ traceFlag' = traceFlag /\ currentSignal' = currentSignal /\ loop' = loop
    BY <1>5 DEF EntryNumber, osVars
  <2> HIDE DEF x
  <2> QED BY <1>1, <1>2, <2>1, <2>5, <2>6, <2>7, SignalKept
<1>6. CASE EntryHandler
  <2>1. At("entry", "handler") BY <1>6 DEF EntryHandler
  <2>2. Good(stack, traceFlag, blocked) /\ "IN_ENTRY" \in traceFlag BY <1>1, <2>1, AtEntry
  <2>3. traceFlag \in SUBSET (Noted \cup {"IN_ENTRY"}) BY <2>2 DEF Good
  <2>4. Good(Goto("clear"), traceFlag, blocked) /\ Good(Append(Goto("clear"), Eval), traceFlag, blocked)
    BY <2>1, <2>2, <2>3, EntryRuns
  <2>5. stack' = Goto("clear") \/ stack' = Append(Goto("clear"), Eval) BY <1>6 DEF EntryHandler
  <2>6. blocked' = blocked /\ traceFlag' = traceFlag /\ currentSignal' = currentSignal /\ loop' = loop
    BY <1>6 DEF EntryHandler, osVars
  <2> QED BY <1>1, <1>2, <2>1, <2>4, <2>5, <2>6, SignalKept
<1>7. CASE EntrySigint
  <2>1. At("entry", "loaded") /\ "SIGINT" \in Top.arg BY <1>7 DEF EntrySigint
  <2> QED BY <2>1, AtEntry DEF Noted
<1>8. CASE EntryTimer
  <2>1. At("entry", "loaded") BY <1>8 DEF EntryTimer
  <2>2. Top.arg \subseteq Noted BY <2>1, AtEntry
  <2>3. traceFlag' = (Top.arg \cup {"IN_ENTRY"}) \ {"TIMER"} BY <1>8 DEF EntryTimer
  <2>4. traceFlag' \in SUBSET (Noted \cup {"IN_ENTRY"}) /\ "IN_ENTRY" \in traceFlag' BY <2>2, <2>3
  <2>5. Good(Goto("clear"), traceFlag', blocked) /\ Good(Append(Goto("clear"), Eval), traceFlag', blocked)
    BY <2>1, <2>4, EntryRuns
  <2>6. stack' = Goto("clear") \/ stack' = Append(Goto("clear"), Eval) BY <1>8 DEF EntryTimer
  <2>7. blocked' = blocked /\ currentSignal' = currentSignal /\ loop' = loop
    BY <1>8 DEF EntryTimer, osVars
  <2> QED BY <1>1, <1>2, <2>1, <2>5, <2>6, <2>7, SignalKept
<1>9. CASE EntryClear \/ EntryLeave
  <2>1. PICK p : At("entry", p) BY <1>9 DEF EntryClear, EntryLeave
  <2>2. Good(stack, traceFlag, blocked) BY <1>1, <2>1
  <2>3. traceFlag' \in SUBSET Noted
    <3>1. CASE EntryClear
      <4>1. traceFlag' = traceFlag \ {"IN_ENTRY"} BY <3>1 DEF EntryClear
      <4>2. traceFlag \subseteq Noted \cup {"IN_ENTRY"} BY <2>2 DEF Good
      <4> QED BY <4>1, <4>2
    <3>2. CASE EntryLeave
      <4>1. traceFlag' = Top.arg \ {"IN_ENTRY"} /\ At("entry", "leave") BY <3>2 DEF EntryLeave
      <4>2. Top.arg \subseteq Noted BY <4>1, AtEntry
      <4> QED BY <4>1, <4>2
    <3> QED BY <1>9, <3>1, <3>2
  <2>4. Len(stack) > 0 /\ stack[Len(stack)].fn = "entry" BY <2>1, AtEntry
  <2>5. Good(SubSeq(stack, 1, Len(stack) - 1), traceFlag', blocked)
    BY <2>2, <2>3, <2>4, EntryReturns
  <2>6. stack' = SubSeq(stack, 1, Len(stack) - 1)
        /\ blocked' = blocked /\ currentSignal' = currentSignal /\ loop' = loop
    BY <1>9 DEF EntryClear, EntryLeave, Below, osVars
  <2> QED BY <1>1, <1>2, <2>1, <2>5, <2>6, SignalKept
<1>10. CASE EntryTrace
  <2>1. At("entry", "loaded") /\ Top.arg \cap Asynchronous = {} BY <1>10 DEF EntryTrace
  <2>2. Top.arg \subseteq Noted /\ Top.arg # {} BY <2>1, AtEntry
  <2>3. "PRINT" \in Top.arg BY <2>1, <2>2 DEF Noted, Asynchronous
  <2>4. traceFlag' = Top.arg \cup {"IN_ENTRY"} /\ stack' = Goto("leave")
    BY <1>10, <2>3 DEF EntryTrace
  <2>5. traceFlag' \in SUBSET (Noted \cup {"IN_ENTRY"}) /\ "IN_ENTRY" \in traceFlag' BY <2>2, <2>4
  <2>6. Good(Goto("leave"), traceFlag', blocked)
    <3>1. /\ Goto("leave") = [stack EXCEPT ![Len(stack)] = [Top EXCEPT !.pc = "leave"]]
          /\ [Top EXCEPT !.pc = "leave"] \in Others
          /\ [Top EXCEPT !.pc = "leave"].fn = "entry" /\ [Top EXCEPT !.pc = "leave"].pc = "leave"
          /\ [Top EXCEPT !.pc = "leave"].arg = Top.arg BY <2>1, EntryGoto
    <3>2. PICK x : x = [Top EXCEPT !.pc = "leave"] OBVIOUS
    <3>3. x \in Others /\ x.fn = "entry" /\ x.pc = "leave" /\ x.arg \subseteq Noted BY <2>2, <3>1, <3>2
    <3>4. Good([stack EXCEPT ![Len(stack)] = x], traceFlag', blocked)
      BY <2>1, <2>5, <3>3, EntryGoes
    <3> QED BY <3>1, <3>2, <3>4
  <2>7. blocked' = blocked /\ currentSignal' = currentSignal /\ loop' = loop
    BY <1>10 DEF EntryTrace, osVars
  <2> QED BY <1>1, <1>2, <2>1, <2>4, <2>6, <2>7, SignalKept
<1>11. CASE Debugger \/ DebugPush
  <2>1. PICK p \in {"debug", "push"} : At("entry", p) BY <1>11 DEF Debugger, DebugPush
  <2> QED BY <2>1, AtEntry
<1> QED BY <1>3, <1>4, <1>5, <1>6, <1>7, <1>8, <1>9, <1>10, <1>11 DEF TraceEntry

\* The evaluation of an expression at the top.
LEMMA AtEval ==
  ASSUME SignalInv, NEW p, At("eval", p)
  PROVE  /\ stack # <<>> /\ loop # "dead" /\ Good(stack, traceFlag, blocked)
         /\ Len(stack) > 0 /\ stack[Len(stack)].fn = "eval" /\ stack[Len(stack)].pc = p
  BY Running DEF At, Top

\* An expression at the top goes on, or pushes another.
LEMMA EvalSteps ==
  ASSUME SignalInv, NEW p, At("eval", p), p # "fatal",
         \/ stack' = Goto("exit")
         \/ stack' = Append(stack, Eval)
         \/ stack' = stack \o <<Frame("catch", "running", {}), Eval>>
  PROVE  Good(stack', traceFlag, blocked)
<1>1. Good(stack, traceFlag, blocked) /\ Len(stack) > 0 /\ stack[Len(stack)].fn = "eval"
      /\ stack[Len(stack)].pc # "fatal" BY AtEval
<1>2. stack \in Seq(AllFrames) BY <1>1 DEF Good
<1>3. Eval \in Others /\ Eval.fn = "eval" /\ Eval.pc = "entry" BY DEF Eval, Frame, Others
<1>4. CASE stack' = Goto("exit") BY <1>1, <1>4, EvalGoes DEF Goto
<1>5. CASE stack' = Append(stack, Eval) BY <1>1, <1>3, <1>5, Pushed
<1>6. CASE stack' = stack \o <<Frame("catch", "running", {}), Eval>>
  <2> DEFINE x == Frame("catch", "running", {})
             q == Append(stack, x)
  <2>1. x \in Others /\ x.fn = "catch" /\ x.pc = "running" BY DEF Frame, Others
  <2>2. x \in AllFrames /\ Eval \in AllFrames BY <1>3, <2>1 DEF AllFrames
  <2> HIDE DEF x
  <2>3. Good(q, traceFlag, blocked) BY <1>1, <2>1, Pushed
  <2>4. Len(q) > 0 /\ q[Len(q)] = x BY <1>2, <2>2, Grown
  <2>5. stack' = Append(q, Eval) BY <1>2, <1>6, <2>2 DEF x
  <2> HIDE DEF q
  <2>6. q[Len(q)].fn = "catch" /\ q[Len(q)].pc = "running" BY <2>1, <2>4
  <2>7. Good(Append(q, Eval), traceFlag, blocked) BY <1>3, <2>3, <2>6, Pushed
  <2> QED BY <2>5, <2>7
<1> QED BY <1>4, <1>5, <1>6

\* What an expression may do.
LEMMA OperationInv ==
  ASSUME SignalInv, HandlersReturn, Operation \/ Finish
  PROVE  SignalInv'
<1>1. At("eval", "body")
  BY DEF Operation, Finish, Call, Catch, RaiseFatal, RaiseIgnored, Throw, Reset, StartTimer,
         TraceOn, TracePrint, TraceOff, SetSignal, May
<1>2. loop # "dead" /\ Good(stack, traceFlag, blocked) /\ stack # <<>> BY <1>1, AtEval
<1>3. currentSignal \in Sigs \cup {"none"} BY DEF SignalInv
<1>4. CASE \/ Call \/ Catch \/ RaiseIgnored \/ StartTimer \/ Finish
           \/ \E s \in UserSigs : SetSignal(s)
  <2>1. \/ stack' = Goto("exit") \/ stack' = Append(stack, Eval)
        \/ stack' = stack \o <<Frame("catch", "running", {}), Eval>>
    BY <1>4 DEF Call, Catch, RaiseIgnored, StartTimer, Finish, SetSignal
  <2>2. traceFlag' = traceFlag /\ blocked' = blocked /\ currentSignal' = currentSignal
        /\ loop' = loop
    BY <1>4 DEF Call, Catch, RaiseIgnored, StartTimer, Finish, SetSignal, osVars
  <2>3. Good(stack', traceFlag, blocked) BY <1>1, <2>1, EvalSteps
  <2> QED BY <1>2, <1>3, <2>2, <2>3, SignalKept
<1>5. CASE TracePrint
  <2>1. stack' = Goto("exit") /\ traceFlag' = traceFlag \cup {"PRINT"} /\ blocked' = blocked
        /\ currentSignal' = currentSignal /\ loop' = loop BY <1>5 DEF TracePrint, osVars
  <2>2. Good(stack', traceFlag, blocked) BY <1>1, <2>1, EvalSteps
  <2>3. traceFlag' \in SUBSET (Noted \cup {"IN_ENTRY"})
        /\ ("IN_ENTRY" \in traceFlag' <=> "IN_ENTRY" \in traceFlag) BY <1>2, <2>1 DEF Good, Noted
  <2>4. Good(stack', traceFlag', blocked) BY <2>2, <2>3, FlagsChange
  <2> QED BY <1>2, <1>3, <2>1, <2>4, SignalKept
<1>6. CASE RaiseFatal
  <2>1. Handlers(stack) = {} BY <1>6, NoneRuns DEF RaiseFatal
  <2>2. stack' = Goto("fatal") /\ traceFlag' = traceFlag /\ blocked' = blocked
        /\ currentSignal' = currentSignal /\ loop' = loop BY <1>6 DEF RaiseFatal, osVars
  <2>3. Good(stack', traceFlag, blocked) BY <1>1, <2>1, <2>2, AtEval, EvalGoes DEF Goto
  <2> QED BY <1>2, <1>3, <2>2, <2>3, SignalKept
<1>7. CASE Throw \/ Reset
  <2>1. Handlers(stack) = {} BY <1>7, NoneRuns DEF Throw, Reset
  <2>2. blocked = {} /\ "IN_ENTRY" \notin traceFlag BY <1>2, <2>1, Quiet
  <2>3. ToCatch \/ ToTop BY <1>7 DEF Throw, Reset
  <2>4. Good(stack', traceFlag, blocked) /\ loop' # "dead" BY <1>2, <2>1, <2>3, Jumps
  <2>5. traceFlag' \in {traceFlag, {}} /\ blocked' = blocked /\ currentSignal' = currentSignal
    BY <1>7 DEF Throw, Reset, ToCatch, osVars
  <2>6. Good(stack', {}, blocked) BY <2>2, <2>4, FlagsChange
  <2> QED BY <1>3, <2>4, <2>5, <2>6, SignalKept
<1>8. CASE TraceOn \/ TraceOff BY <1>8 DEF TraceOn, TraceOff, May, HandlersReturn
<1> QED BY <1>4, <1>5, <1>6, <1>7, <1>8 DEF Operation

\* The error exit, and the end of an evaluation.
LEMMA ExitInv ==
  ASSUME SignalInv, FatalError \/ EvalExit \/ DebugExit \/ DebugUnderrun
  PROVE  SignalInv'
<1>1. currentSignal \in Sigs \cup {"none"} BY DEF SignalInv
<1>2. CASE FatalError
  <2>1. At("eval", "fatal") /\ traceFlag' = {} /\ blocked' = blocked
        /\ currentSignal' = currentSignal /\ (ToCatch \/ ToTop) BY <1>2 DEF FatalError, closeTrace
  <2>2. /\ stack # <<>> /\ Good(stack, traceFlag, blocked) /\ Len(stack) > 0
        /\ stack[Len(stack)].pc = "fatal" BY <2>1, AtEval
  <2>3. stack \in Seq(AllFrames) /\ Len(stack) \in DOMAIN stack BY <2>2 DEF Good
  <2>4. Handlers(stack) = {} BY <2>2, <2>3 DEF Good, Errors
  <2>5. Good(stack', traceFlag, blocked) /\ loop' # "dead" BY <2>1, <2>2, <2>4, Jumps
  <2>6. "IN_ENTRY" \notin traceFlag BY <2>2, <2>4, Quiet
  <2>7. Good(stack', {}, blocked) BY <2>5, <2>6, FlagsChange
  <2> QED BY <1>1, <2>1, <2>5, <2>7, SignalKept
<1>3. CASE EvalExit
  <2>1. At("eval", "exit") /\ stack' = Returned /\ traceFlag' = traceFlag /\ blocked' = blocked
        /\ currentSignal' = currentSignal /\ loop' = loop BY <1>3 DEF EvalExit, osVars
  <2>2. /\ loop # "dead" /\ Good(stack, traceFlag, blocked) /\ Len(stack) > 0
        /\ stack[Len(stack)].fn = "eval" BY <2>1, AtEval
  <2>3. Good(Returned, traceFlag, blocked) BY <2>2, EvalReturns DEF Returned, Below
  <2> QED BY <1>1, <2>1, <2>2, <2>3, SignalKept
<1>4. CASE DebugExit \/ DebugUnderrun
  <2>1. At("eval", "exit") /\ ~Untraced BY <1>4 DEF DebugExit, DebugUnderrun
  <2>2. Good(stack, traceFlag, blocked) BY <2>1, AtEval
  <2>3. traceFlag \subseteq {"SIGNAL", "TIMER", "PRINT", "IN_ENTRY"} BY <2>2 DEF Good, Noted
  <2>4. "IN_ENTRY" \notin traceFlag /\ "SIGNAL" \notin traceFlag /\ "TIMER" \notin traceFlag
    BY <2>1 DEF Untraced, Asynchronous
  <2>5. traceFlag \subseteq {"PRINT"} BY <2>3, <2>4
  <2>6. traceFlag = {} \/ traceFlag = {"PRINT"} BY <2>5
  <2> QED BY <2>1, <2>6 DEF Untraced
<1> QED BY <1>2, <1>3, <1>4

----------------------------------------
\* The invariant holds at the start.
LEMMA SignalInitInv ==
  ASSUME SignalsInit
  PROVE  SignalInv
<1>1. stack = <<>> /\ traceFlag = {} /\ blocked = {} /\ currentSignal = "none" /\ loop = "prompt"
  BY DEF SignalsInit
<1>2. <<>> \in Seq(AllFrames) /\ Len(<<>>) = 0 OBVIOUS
<1>3. \A fn : Of(<<>>, fn) = {} BY <1>2, Places DEF Of
<1>4. Good(<<>>, {}, {}) BY <1>2, <1>3 DEF Good, Based, Entries, Errors, Masked
<1> QED BY <1>1, <1>4 DEF SignalInv

\* Every step keeps it.
LEMMA SignalStepInv ==
  ASSUME SignalInv, HandlersReturn, [SignalsNext]_signalVars
  PROVE  SignalInv'
<1>1. CASE SignalsNext
  BY <1>1, KernelInv, LoopInv, EntryInv, OperationInv, ExitInv DEF SignalsNext, Kernel, Evaluate
<1>2. CASE UNCHANGED signalVars
  <2>1. /\ stack' = stack /\ traceFlag' = traceFlag /\ blocked' = blocked /\ loop' = loop
        /\ currentSignal' = currentSignal /\ pending' = pending BY <1>2 DEF signalVars
  <2> QED BY <2>1 DEF SignalInv
<1> QED BY <1>1, <1>2

\* What it says: one handler at a time, the mask and the flag exact.
LEMMA InvExact ==
  ASSUME SignalInv
  PROVE  HandlersExact
<1>1. CASE loop = "dead"
  <2>1. stack = <<>> /\ blocked = {} BY <1>1 DEF SignalInv, Good, Masked, Of
  <2>2. \A fn : Frames(fn) = {} BY <2>1 DEF Frames
  <2>3. {i \in Frames("entry") : stack[i].pc \in {"handler", "number", "clear"}} = {} BY <2>2
  <2>4. OneHandler BY <2>3, FS_EmptySet DEF OneHandler
  <2>5. MaskExact BY <2>1, <2>2 DEF MaskExact
  <2>6. EntryFlagExact BY <1>1 DEF EntryFlagExact
  <2> QED BY <2>4, <2>5, <2>6 DEF HandlersExact
<1>2. CASE loop # "dead"
  <2>1. Good(stack, traceFlag, blocked) BY <1>2, Alive
  <2>2. \A fn : Frames(fn) = Of(stack, fn) BY DEF Frames, Of
  <2> DEFINE E == {i \in Frames("entry") : stack[i].pc \in {"handler", "number", "clear"}}
  <2>3. Cardinality(E) <= 1
    <3>1. CASE Of(stack, "entry") = {}
      <4>1. E = {} BY <2>2, <3>1
      <4> QED BY <4>1, FS_EmptySet
    <3>2. CASE Of(stack, "entry") # {}
      <4>1. PICK i : Of(stack, "entry") = {i} BY <2>1, <3>2 DEF Good, Entries, EntryAt
      <4>2. E \subseteq {i} BY <2>2, <4>1
      <4>3. E = {} \/ E = {i} BY <4>2
      <4> HIDE DEF E
      <4>4. Cardinality({}) = 0 BY FS_EmptySet
      <4>5. Cardinality({i}) = 1 BY FS_Singleton
      <4> QED BY <4>3, <4>4, <4>5
    <3> QED BY <3>1, <3>2
  <2>4. OneHandler BY <2>3 DEF OneHandler
  <2>5. MaskExact BY <2>1, <2>2 DEF MaskExact, Good, Masked
  <2>6. EntryFlagExact BY <2>1, <2>2 DEF EntryFlagExact, Good, Entries
  <2> QED BY <2>4, <2>5, <2>6 DEF HandlersExact
<1> QED BY <1>1, <1>2

(* Newlisp handlers run one at a time, a signal is masked exactly while *)
(* its handler runs inside signal_handler (newlisp.c:381), and *)
(* TRACE_IN_ENTRY is on only during a call of traceEntry (nl-debug.c:161), *)
(* when no handler throws, fails, resets or traces, and nothing is traced; *)
(* the rest of the program may throw, fail and reset. *)
THEOREM HandlersKept ==
  ASSUME HandlersReturn
  PROVE  SignalsSpec => []HandlersExact
<1>1. SignalsInit => SignalInv BY SignalInitInv
<1>2. SignalInv /\ [SignalsNext]_signalVars => SignalInv' BY SignalStepInv
<1>3. SignalInv => HandlersExact BY InvExact
<1> QED BY <1>1, <1>2, <1>3, PTL DEF SignalsSpec

----------------------------------------
(* The debugger. *)

\* What is left of a sequence when its end is dropped.
LEMMA Prefix ==
  ASSUME NEW S, NEW s \in Seq(S), NEW n \in 0..Len(s)
  PROVE  /\ SubSeq(s, 1, n) \in Seq(S)
         /\ Len(SubSeq(s, 1, n)) = n /\ DOMAIN SubSeq(s, 1, n) = 1..n
         /\ \A i \in 1..n : SubSeq(s, 1, n)[i] = s[i] OBVIOUS

(* No newLISP handler, timer, throw, (reset) or (trace 1); Ctrl-C is *)
(* answered by going on or by entering the debugger.  Programs call, trace,*)
(* fail and catch. *)
Undisturbed ==
  /\ UserSigs = {}
  /\ ProgramOps \cap {"throw", "reset", "timer", "print"} = {}
  /\ Answers \subseteq {"continue", "debug"}

Flags == {"TRUE", "IN_DEBUG", "DEBUG_NEXT", "IN_ENTRY"}
Calls == [fn : {"eval"}, pc : {"entry", "body", "exit", "fatal"}, arg : {{}}]
Asks == [fn : {"entry"}, pc : {"loaded", "debug", "push", "leave"}, arg : SUBSET Flags]
Guards == [fn : {"catch"}, pc : {"running"}, arg : {{}}]
Traced == Calls \cup Asks \cup Guards

\* How many evaluations are running: recursionCount.
Level(s) == Cardinality(Of(s, "eval"))

\* Only the frame at the top is at its beginning or end.
Formed(s) ==
  /\ s \in Seq(Traced)
  /\ \A i \in 1..Len(s) : /\ i < Len(s) => s[i].pc \in {"body", "running"}
                          /\ s[i].fn \in {"entry", "catch"} => i > 1 /\ s[i - 1].fn = "eval"

\* A call of traceEntry keeps the flags in a C variable, and marks them.
Asked(e, f) ==
  /\ f # {}
  /\ e.pc # "debug" => e.arg = f
  /\ "IN_ENTRY" \in f <=> e.pc # "loaded"
  /\ "DEBUG_NEXT" \in f => e.pc = "leave"
FlagsFit(s, f) ==
  /\ f \subseteq Flags
  /\ f # {} => "TRUE" \in f
  /\ IF s # <<>> /\ s[Len(s)].fn = "entry" THEN Asked(s[Len(s)], f) ELSE "IN_ENTRY" \notin f

\* The evaluation at the top has not been pushed yet.
Fresh(s) == s # <<>> /\ s[Len(s)].pc \in {"entry", "loaded", "debug", "push"}

\* The levels on the debug stack are those of running evaluations; after "next" none
\* is above the level at which it was asked for.
Levels(n, fresh, f, d, c) ==
  /\ \A k \in 1..Len(d) : d[k] > 0 /\ d[k] <= n /\ (fresh => d[k] < n)
  /\ \A j, k \in 1..Len(d) : j < k => d[j] < d[k]
  /\ "DEBUG_NEXT" \in f => \A k \in 1..Len(d) : d[k] <= c

Tracked(s, f, d, c, a) ==
  /\ Formed(s) /\ FlagsFit(s, f)
  /\ d \in Seq(Nat) /\ c \in Nat
  /\ f # {} => a = TRUE /\ Levels(Level(s), Fresh(s), f, d, c)

Calm == /\ \A s \in Sigs : symHandler[s] = FALSE /\ disposition[s] = "handler"
        /\ pending \subseteq {"INT"} /\ armed = FALSE /\ timerEvent = FALSE

DebugInv == Calm /\ Tracked(stack, traceFlag, debugStack, currentLevel, allocated)

\* The evaluations of a stack are finitely many.
LEMMA LevelNat ==
  ASSUME NEW s, Formed(s)
  PROVE  Level(s) \in Nat /\ IsFiniteSet(Of(s, "eval"))
<1>1. Len(s) \in Nat BY DEF Formed
<1>2. IsFiniteSet(1..Len(s)) BY <1>1, FS_Interval
<1>3. Of(s, "eval") \subseteq 1..Len(s) BY DEF Of, Formed
<1>4. IsFiniteSet(Of(s, "eval")) BY <1>2, <1>3, FS_Subset
<1> QED BY <1>4, FS_CardinalityType DEF Level

\* The frame at the top changes.
LEMMA Retouched ==
  ASSUME NEW s, Formed(s), Len(s) > 0, NEW x \in Traced, x.fn = s[Len(s)].fn
  PROVE  LET r == [s EXCEPT ![Len(s)] = x] IN
         Formed(r) /\ Len(r) = Len(s) /\ r[Len(r)] = x /\ Level(r) = Level(s)
<1> DEFINE n == Len(s)
           r == [s EXCEPT ![n] = x]
<1>1. s \in Seq(Traced) /\ n \in Nat /\ n > 0 BY DEF Formed
<1>2. /\ r \in Seq(Traced) /\ Len(r) = n /\ r[n] = x /\ \A i \in 1..n : i # n => r[i] = s[i]
      /\ DOMAIN r = 1..n /\ DOMAIN s = 1..n BY <1>1
<1>3. \A i \in 1..n : r[i].fn = s[i].fn BY <1>2
<1> HIDE DEF r
<1>4. ASSUME NEW i \in 1..n
      PROVE  /\ i < n => r[i].pc \in {"body", "running"}
             /\ r[i].fn \in {"entry", "catch"} => i > 1 /\ r[i - 1].fn = "eval"
  <2>1. i < n => i # n BY <1>1
  <2>2. i < n => r[i] = s[i] BY <1>2, <2>1
  <2>3. i > 1 => i - 1 \in 1..n BY <1>1
  <2> QED BY <1>1, <1>3, <2>2, <2>3 DEF Formed
<1>5. \A i : i \in Of(r, "eval") <=> i \in Of(s, "eval") BY <1>2, <1>3 DEF Of
<1>6. Of(r, "eval") = Of(s, "eval") BY <1>5, SameSet
<1> QED BY <1>1, <1>2, <1>4, <1>6 DEF Formed, Level, r

\* A frame is added at the top.
LEMMA Added ==
  ASSUME NEW s, Formed(s), NEW x \in Traced,
         Len(s) > 0 => s[Len(s)].pc \in {"body", "running"},
         x.fn \in {"entry", "catch"} => Len(s) > 0 /\ s[Len(s)].fn = "eval"
  PROVE  /\ Formed(Append(s, x)) /\ Len(Append(s, x)) = Len(s) + 1
         /\ Append(s, x)[Len(s) + 1] = x
         /\ Level(Append(s, x)) = IF x.fn = "eval" THEN Level(s) + 1 ELSE Level(s)
<1> DEFINE n == Len(s)
           r == Append(s, x)
<1>1. s \in Seq(Traced) /\ n \in Nat BY DEF Formed
<1>2. /\ r \in Seq(Traced) /\ Len(r) = n + 1 /\ r[n + 1] = x /\ \A i \in 1..n : r[i] = s[i]
      /\ DOMAIN r = 1..(n + 1) /\ DOMAIN s = 1..n BY <1>1
<1> HIDE DEF r
<1>3. ASSUME NEW i \in 1..(n + 1)
      PROVE  /\ i < n + 1 => r[i].pc \in {"body", "running"}
             /\ r[i].fn \in {"entry", "catch"} => i > 1 /\ r[i - 1].fn = "eval"
  <2>1. CASE i = n + 1
    <3>1. n > 0 => r[n] = s[n] BY <1>1, <1>2
    <3> QED BY <1>1, <1>2, <2>1, <3>1
  <2>2. CASE i # n + 1
    <3>1. i \in 1..n /\ r[i] = s[i] BY <1>1, <1>2, <2>2
    <3>2. i < n \/ i = n BY <3>1, <1>1
    <3>3. s[i].pc \in {"body", "running"} BY <3>1, <3>2, <1>1 DEF Formed
    <3>4. i > 1 => i - 1 \in 1..n /\ r[i - 1] = s[i - 1] BY <3>1, <1>1, <1>2
    <3> QED BY <3>1, <3>3, <3>4 DEF Formed
  <2> QED BY <2>1, <2>2
<1>4. Formed(r) BY <1>2, <1>3 DEF Formed
<1>5. IsFiniteSet(Of(s, "eval")) /\ Level(s) \in Nat BY LevelNat
<1>6. CASE x.fn = "eval"
  <2>1. \A i : i \in Of(r, "eval") <=> i \in Of(s, "eval") \cup {n + 1} BY <1>1, <1>2, <1>6 DEF Of
  <2>2. Of(r, "eval") = Of(s, "eval") \cup {n + 1} BY <2>1, SameSet
  <2>3. n + 1 \notin Of(s, "eval") BY <1>1, <1>2 DEF Of
  <2>4. Level(r) = Level(s) + 1 BY <2>2, <2>3, <1>5, FS_AddElement DEF Level
  <2> QED BY <1>2, <1>4, <1>6, <2>4 DEF r
<1>7. CASE x.fn # "eval"
  <2>1. \A i : i \in Of(r, "eval") <=> i \in Of(s, "eval") BY <1>1, <1>2, <1>7 DEF Of
  <2>2. Of(r, "eval") = Of(s, "eval") BY <2>1, SameSet
  <2> QED BY <1>2, <1>4, <1>7, <2>2 DEF r, Level
<1> QED BY <1>6, <1>7

\* The frame at the top is dropped.
LEMMA Dropped ==
  ASSUME NEW s, Formed(s), Len(s) > 0
  PROVE  LET r == SubSeq(s, 1, Len(s) - 1) IN
         /\ Formed(r) /\ Len(r) = Len(s) - 1
         /\ Len(r) > 0 => r[Len(r)] = s[Len(s) - 1] /\ r[Len(r)].pc \in {"body", "running"}
         /\ Level(s) = IF s[Len(s)].fn = "eval" THEN Level(r) + 1 ELSE Level(r)
<1> DEFINE n == Len(s)
           r == SubSeq(s, 1, n - 1)
<1>1. s \in Seq(Traced) /\ n \in Nat /\ n > 0 BY DEF Formed
<1>2. /\ r \in Seq(Traced) /\ Len(r) = n - 1 /\ \A i \in 1..(n - 1) : r[i] = s[i]
      /\ DOMAIN r = 1..(n - 1) /\ DOMAIN s = 1..n
  <2>1. PICK k \in 0..Len(s) : k = n - 1 BY <1>1
  <2>2. /\ SubSeq(s, 1, k) \in Seq(Traced) /\ Len(SubSeq(s, 1, k)) = k
        /\ \A i \in 1..k : SubSeq(s, 1, k)[i] = s[i]
        /\ DOMAIN SubSeq(s, 1, k) = 1..k BY <1>1, Prefix
  <2>3. r = SubSeq(s, 1, k) BY <2>1
  <2>4. DOMAIN s = 1..n BY <1>1
  <2> HIDE DEF r
  <2> QED BY <2>1, <2>2, <2>3, <2>4
<1> HIDE DEF r
<1>3. ASSUME NEW i \in 1..(n - 1)
      PROVE  /\ r[i].pc \in {"body", "running"}
             /\ r[i].fn \in {"entry", "catch"} => i > 1 /\ r[i - 1].fn = "eval"
  <2>1. i \in 1..n /\ i < n /\ r[i] = s[i] BY <1>1, <1>2
  <2>2. i > 1 => i - 1 \in 1..(n - 1) BY <1>1
  <2> QED BY <1>2, <2>1, <2>2 DEF Formed
<1>4. Formed(r) BY <1>2, <1>3 DEF Formed
<1>5. n - 1 > 0 => r[n - 1] = s[n - 1] /\ r[n - 1].pc \in {"body", "running"} BY <1>1, <1>2, <1>3
<1>6. IsFiniteSet(Of(s, "eval")) /\ Level(s) \in Nat /\ IsFiniteSet(Of(r, "eval")) BY <1>4, LevelNat
<1>7. CASE s[n].fn = "eval"
  <2>1. \A i : i \in Of(s, "eval") <=> i \in Of(r, "eval") \cup {n} BY <1>1, <1>2, <1>7 DEF Of
  <2>2. Of(s, "eval") = Of(r, "eval") \cup {n} BY <2>1, SameSet
  <2>3. n \notin Of(r, "eval") BY <1>1, <1>2 DEF Of
  <2>4. Level(s) = Level(r) + 1 BY <2>2, <2>3, <1>6, FS_AddElement DEF Level
  <2> QED BY <1>2, <1>4, <1>5, <1>7, <2>4 DEF r
<1>8. CASE s[n].fn # "eval"
  <2>1. \A i : i \in Of(r, "eval") <=> i \in Of(s, "eval") BY <1>1, <1>2, <1>8 DEF Of
  <2>2. Of(r, "eval") = Of(s, "eval") BY <2>1, SameSet
  <2> QED BY <1>2, <1>4, <1>5, <1>8, <2>2 DEF r, Level
<1> QED BY <1>7, <1>8

\* Any number of frames is dropped.
LEMMA Shortened ==
  ASSUME NEW s, Formed(s), NEW k \in 0..Len(s)
  PROVE  /\ Formed(SubSeq(s, 1, k)) /\ Len(SubSeq(s, 1, k)) = k
         /\ \A i \in 1..k : SubSeq(s, 1, k)[i] = s[i]
<1> DEFINE r == SubSeq(s, 1, k)
<1>1. s \in Seq(Traced) /\ Len(s) \in Nat /\ k \in Nat /\ k <= Len(s) BY DEF Formed
<1>2. r \in Seq(Traced) /\ Len(r) = k /\ \A i \in 1..k : r[i] = s[i] BY <1>1, Prefix
<1> HIDE DEF r
<1>3. ASSUME NEW i \in 1..k
      PROVE  /\ i < k => r[i].pc \in {"body", "running"}
             /\ r[i].fn \in {"entry", "catch"} => i > 1 /\ r[i - 1].fn = "eval"
  <2>1. i \in 1..Len(s) /\ (i < k => i < Len(s)) /\ r[i] = s[i] BY <1>1, <1>2
  <2>2. i > 1 => i - 1 \in 1..k BY <1>1
  <2>3. i > 1 => r[i - 1] = s[i - 1] BY <1>2, <2>2
  <2> QED BY <2>1, <2>3 DEF Formed
<1> QED BY <1>2, <1>3 DEF Formed, r

\* What the frames of each function are like.
LEMMA Points ==
  ASSUME NEW x \in Traced
  PROVE  /\ x.fn = "eval" => x \in Calls /\ x.pc \in {"entry", "body", "exit", "fatal"}
         /\ x.fn = "entry" => x \in Asks /\ x.pc \in {"loaded", "debug", "push", "leave"}
                              /\ x.arg \subseteq Flags
         /\ x.fn = "catch" => x.pc = "running"
         /\ x.fn \in {"eval", "entry", "catch"}
<1>1. CASE x \in Calls BY <1>1 DEF Traced, Calls
<1>2. CASE x \in Asks BY <1>2 DEF Traced, Asks
<1>3. CASE x \in Guards BY <1>3 DEF Traced, Guards
<1> QED BY <1>1, <1>2, <1>3 DEF Traced

\* An evaluation stays one at each of its points.
LEMMA Goes ==
  ASSUME NEW x \in Traced, x.fn = "eval", NEW p \in {"entry", "body", "exit", "fatal"}
  PROVE  [x EXCEPT !.pc = p] \in Traced /\ [x EXCEPT !.pc = p].fn = "eval"
         /\ [x EXCEPT !.pc = p].pc = p
<1>1. x \in Calls BY Points
<1>2. [x EXCEPT !.pc = p] \in Calls BY <1>1 DEF Calls
<1>3. [x EXCEPT !.pc = p].fn = "eval" /\ [x EXCEPT !.pc = p].pc = p BY <1>1 DEF Calls
<1> QED BY <1>2, <1>3 DEF Traced

\* The frame at the top changes, and with it what the debugger keeps.
LEMMA Moves ==
  ASSUME NEW s, Formed(s), Len(s) > 0,
         NEW x \in Traced, x.fn = s[Len(s)].fn,
         NEW g \in SUBSET Flags, g # {} => "TRUE" \in g,
         IF x.fn = "entry" THEN Asked(x, g) ELSE "IN_ENTRY" \notin g,
         NEW e \in Seq(Nat), NEW k \in Nat, NEW b,
         g # {} => b = TRUE
                   /\ Levels(Level(s), x.pc \in {"entry", "loaded", "debug", "push"}, g, e, k)
  PROVE  Tracked([s EXCEPT ![Len(s)] = x], g, e, k, b)
<1> DEFINE r == [s EXCEPT ![Len(s)] = x]
<1>1. Formed(r) /\ Len(r) = Len(s) /\ r[Len(r)] = x /\ Level(r) = Level(s) BY Retouched
<1> HIDE DEF r
<1>2. r # <<>> BY <1>1
<1>3. FlagsFit(r, g) BY <1>1, <1>2 DEF FlagsFit
<1>4. Fresh(r) <=> x.pc \in {"entry", "loaded", "debug", "push"} BY <1>1, <1>2 DEF Fresh
<1>5. g # {} => b = TRUE /\ Levels(Level(r), Fresh(r), g, e, k) BY <1>1, <1>4 DEF Levels
<1> QED BY <1>1, <1>3, <1>5 DEF Tracked, r

\* A frame is added, on an evaluation or a catch that goes on after it.
LEMMA Grows ==
  ASSUME NEW s, Formed(s), NEW x \in Traced,
         Len(s) > 0 => s[Len(s)].pc \in {"body", "running"},
         x.fn \in {"entry", "catch"} => Len(s) > 0 /\ s[Len(s)].fn = "eval",
         NEW g \in SUBSET Flags, g # {} => "TRUE" \in g,
         IF x.fn = "entry" THEN Asked(x, g) ELSE "IN_ENTRY" \notin g,
         NEW e \in Seq(Nat), NEW k \in Nat, NEW b,
         g # {} => b = TRUE
                   /\ Levels(IF x.fn = "eval" THEN Level(s) + 1 ELSE Level(s),
                             x.pc \in {"entry", "loaded", "debug", "push"}, g, e, k)
  PROVE  Tracked(Append(s, x), g, e, k, b)
<1> DEFINE r == Append(s, x)
<1>1. Formed(r) /\ Len(r) = Len(s) + 1 /\ r[Len(s) + 1] = x
      /\ Level(r) = IF x.fn = "eval" THEN Level(s) + 1 ELSE Level(s) BY Added
<1>2. Len(s) \in Nat BY DEF Formed
<1> HIDE DEF r
<1>3. r # <<>> /\ r[Len(r)] = x BY <1>1, <1>2
<1>4. FlagsFit(r, g) BY <1>3 DEF FlagsFit
<1>5. Fresh(r) <=> x.pc \in {"entry", "loaded", "debug", "push"} BY <1>3 DEF Fresh
<1>6. g # {} => b = TRUE /\ Levels(Level(r), Fresh(r), g, e, k) BY <1>1, <1>5 DEF Levels
<1> QED BY <1>1, <1>4, <1>6 DEF Tracked, r

\* The frame at the top is left.
LEMMA Leaves ==
  ASSUME NEW s, Formed(s), Len(s) > 0,
         NEW g \in SUBSET Flags, g # {} => "TRUE" \in g, "IN_ENTRY" \notin g,
         NEW e \in Seq(Nat), NEW k \in Nat, NEW b,
         g # {} => b = TRUE
                   /\ Levels(IF s[Len(s)].fn = "eval" THEN Level(s) - 1 ELSE Level(s),
                             FALSE, g, e, k)
  PROVE  Tracked(SubSeq(s, 1, Len(s) - 1), g, e, k, b)
<1> DEFINE r == SubSeq(s, 1, Len(s) - 1)
<1>1. /\ Formed(r) /\ Len(r) = Len(s) - 1
      /\ Len(r) > 0 => r[Len(r)] = s[Len(s) - 1] /\ r[Len(r)].pc \in {"body", "running"}
      /\ Level(s) = IF s[Len(s)].fn = "eval" THEN Level(r) + 1 ELSE Level(r) BY Dropped
<1> HIDE DEF r
<1>2. Level(r) \in Nat BY <1>1, LevelNat
<1>3. r \in Seq(Traced) BY <1>1 DEF Formed
<1>4. r # <<>> => Len(r) > 0 /\ Len(r) \in 1..Len(r) BY <1>3
<1>5. r # <<>> => r[Len(r)].fn # "entry"
  <2>1. r # <<>> => r[Len(r)] \in Traced BY <1>3, <1>4
  <2> QED BY <1>1, <1>4, <2>1, Points
<1>6. FlagsFit(r, g) BY <1>5 DEF FlagsFit
<1>7. ~Fresh(r) BY <1>1, <1>4 DEF Fresh
<1>8. Level(r) = IF s[Len(s)].fn = "eval" THEN Level(s) - 1 ELSE Level(s) BY <1>1, <1>2
<1>9. g # {} => b = TRUE /\ Levels(Level(r), Fresh(r), g, e, k) BY <1>7, <1>8 DEF Levels
<1> QED BY <1>1, <1>6, <1>9 DEF Tracked, r

\* An evaluation ends, with the catch it stands on if there is one.
LEMMA CallEnds ==
  ASSUME Formed(stack), Len(stack) > 0, Top.fn = "eval",
         NEW g \in SUBSET Flags, g # {} => "TRUE" \in g, "IN_ENTRY" \notin g,
         NEW e \in Seq(Nat), NEW k \in Nat, NEW b,
         g # {} => b = TRUE /\ Levels(Level(stack) - 1, FALSE, g, e, k)
  PROVE  Tracked(Returned, g, e, k, b)
<1> DEFINE n == Len(stack)
<1>1. stack \in Seq(Traced) /\ n \in Nat /\ n > 0 BY DEF Formed
<1>2. CASE ~(n > 1 /\ stack[n - 1].fn = "catch")
  <2>1. Returned = SubSeq(stack, 1, Len(stack) - 1) BY <1>2 DEF Returned, Below
  <2>2. stack[Len(stack)].fn = "eval" BY DEF Top
  <2>3. Tracked(SubSeq(stack, 1, Len(stack) - 1), g, e, k, b) BY <2>2, Leaves
  <2> QED BY <2>1, <2>3
<1>3. CASE n > 1 /\ stack[n - 1].fn = "catch"
  <2>1. n - 1 \in 1..n BY <1>1, <1>3
  <2>2. n - 1 > 1 /\ stack[n - 1 - 1].fn = "eval" BY <1>3, <2>1 DEF Formed
  <2>3. n - 1 - 1 = n - 2 /\ n - 2 \in 0..n /\ n - 2 > 0 /\ n - 1 \in 0..n BY <1>1, <2>2
  <2> DEFINE q == SubSeq(stack, 1, n - 1)
             r == SubSeq(stack, 1, n - 2)
  <2>4. Formed(q) /\ Len(q) = n - 1 /\ Level(stack) = Level(q) + 1
        /\ q[n - 1] = stack[n - 1]
    <3>1. stack[Len(stack)].fn = "eval" BY DEF Top
    <3>2. Formed(q) /\ Len(q) = n - 1 /\ Level(stack) = Level(q) + 1 BY <1>1, <3>1, Dropped
    <3>3. \A i \in 1..(n - 1) : q[i] = stack[i] BY <2>3, Shortened
    <3>4. n - 1 \in 1..(n - 1) BY <1>1, <2>3
    <3> QED BY <3>2, <3>3, <3>4
  <2>5. SubSeq(q, 1, n - 2) = r BY <1>1, <2>3
  <2>6. Formed(r) /\ Len(r) = n - 2 /\ Level(r) = Level(q)
    <3> HIDE DEF q, r
    <3>1. Len(q) - 1 = n - 2 /\ Len(q) > 0 /\ q[Len(q)].fn = "catch" BY <1>1, <1>3, <2>3, <2>4
    <3>2. /\ Formed(SubSeq(q, 1, Len(q) - 1)) /\ Len(SubSeq(q, 1, Len(q) - 1)) = Len(q) - 1
          /\ Level(q) = Level(SubSeq(q, 1, Len(q) - 1)) BY <2>4, <3>1, Dropped
    <3> QED BY <2>5, <3>1, <3>2
  <2>7. r[n - 2] = stack[n - 2]
    <3>1. \A i \in 1..(n - 2) : r[i] = stack[i] BY <2>3, Shortened
    <3>2. n - 2 \in 1..(n - 2) BY <1>1, <2>3
    <3> QED BY <3>1, <3>2
  <2>8. r[n - 2] \in Traced /\ r[n - 2].fn = "eval"
    <3>1. n - 2 \in 1..n BY <1>1, <2>3
    <3> QED BY <1>1, <2>2, <2>3, <2>7, <3>1
  <2> DEFINE x == [r[n - 2] EXCEPT !.pc = "exit"]
  <2>9. Returned = [r EXCEPT ![n - 2] = x] BY <1>3 DEF Returned, Below
  <2> HIDE DEF r, q
  <2>10. x \in Traced /\ x.fn = "eval" /\ x.pc = "exit"
    <3>1. PICK y \in Traced : y = r[n - 2] /\ y.fn = "eval" BY <2>8
    <3>2. [y EXCEPT !.pc = "exit"] \in Traced /\ [y EXCEPT !.pc = "exit"].fn = "eval"
          /\ [y EXCEPT !.pc = "exit"].pc = "exit" BY <3>1, Goes
    <3> QED BY <3>1, <3>2
  <2> HIDE DEF x
  <2>11. g # {} => b = TRUE /\ Levels(Level(r), x.pc \in {"entry", "loaded", "debug", "push"}, g, e, k)
    <3>1. Level(r) = Level(stack) - 1
      <4>1. Level(r) \in Nat BY <2>6, LevelNat
      <4> QED BY <2>4, <2>6, <4>1
    <3>2. x.pc \notin {"entry", "loaded", "debug", "push"} BY <2>10
    <3> QED BY <3>1, <3>2 DEF Levels
  <2>12. Tracked([r EXCEPT ![Len(r)] = x], g, e, k, b) BY <2>3, <2>6, <2>8, <2>10, <2>11, Moves
  <2> QED BY <2>6, <2>9, <2>12
<1> QED BY <1>2, <1>3

\* A jump with the flags cleared.
LEMMA Jumped ==
  ASSUME Formed(stack), ToCatch \/ ToTop, NEW e \in Seq(Nat), NEW k \in Nat, NEW b
  PROVE  Tracked(stack', {}, e, k, b)
<1>1. stack \in Seq(Traced) /\ Len(stack) \in Nat BY DEF Formed
<1>2. CASE ToCatch
  <2>1. PICK i \in Frames("catch") :
          stack' = [SubSeq(stack, 1, i - 1) EXCEPT ![i - 1].pc = "exit"] BY <1>2 DEF ToCatch
  <2>2. i \in 1..Len(stack) /\ stack[i].fn = "catch" BY <1>1 DEF Frames
  <2>3. i > 1 /\ stack[i - 1].fn = "eval" BY <2>2 DEF Formed
  <2>4. PICK j \in 0..Len(stack) : j = i - 1 /\ j > 0 BY <1>1, <2>2, <2>3
  <2> DEFINE r == SubSeq(stack, 1, j)
             x == [r[j] EXCEPT !.pc = "exit"]
  <2>5. Formed(r) /\ Len(r) = j /\ r[j] = stack[j]
    <3>1. Formed(r) /\ Len(r) = j /\ \A m \in 1..j : r[m] = stack[m] BY <2>4, Shortened
    <3>2. j \in 1..j BY <2>4
    <3> QED BY <3>1, <3>2
  <2>6. stack' = [r EXCEPT ![j] = x] BY <2>1, <2>4
  <2> HIDE DEF r
  <2>7. r[j] \in Traced /\ r[j].fn = "eval"
    <3>1. j \in 1..Len(stack) BY <2>4
    <3> QED BY <1>1, <2>3, <2>4, <2>5, <3>1
  <2>8. x \in Traced /\ x.fn = "eval" /\ x.pc = "exit"
    <3>1. PICK y \in Traced : y = r[j] /\ y.fn = "eval" BY <2>7
    <3>2. [y EXCEPT !.pc = "exit"] \in Traced /\ [y EXCEPT !.pc = "exit"].fn = "eval"
          /\ [y EXCEPT !.pc = "exit"].pc = "exit" BY <3>1, Goes
    <3> QED BY <3>1, <3>2
  <2> HIDE DEF x
  <2>9. {} \in SUBSET Flags OBVIOUS
  <2>10. Tracked([r EXCEPT ![Len(r)] = x], {}, e, k, b) BY <2>4, <2>5, <2>7, <2>8, <2>9, Moves
  <2> QED BY <2>5, <2>6, <2>10
<1>3. CASE ToTop
  <2>1. stack' = <<>> BY <1>3 DEF ToTop
  <2>2. Formed(<<>>) BY DEF Formed
  <2>3. FlagsFit(<<>>, {}) BY DEF FlagsFit
  <2> QED BY <2>1, <2>2, <2>3 DEF Tracked
<1> QED BY <1>2, <1>3

----------------------------------------
\* The frame at the top.
LEMMA TopFrame ==
  ASSUME DebugInv, NEW fn, NEW p, At(fn, p)
  PROVE  /\ Len(stack) > 0 /\ stack # <<>> /\ Formed(stack) /\ FlagsFit(stack, traceFlag)
         /\ Top = stack[Len(stack)] /\ Top \in Traced /\ Top.fn = fn /\ Top.pc = p
         /\ debugStack \in Seq(Nat) /\ currentLevel \in Nat
         /\ traceFlag \in SUBSET Flags /\ (traceFlag # {} => "TRUE" \in traceFlag)
         /\ Level(stack) \in Nat /\ Level(stack)' = Level(stack')
<1>1. Formed(stack) /\ stack # <<>> BY DEF DebugInv, Tracked, At
<1>2. stack \in Seq(Traced) BY <1>1 DEF Formed
<1>3. Len(stack) > 0 /\ Top \in Traced BY <1>1, <1>2 DEF Top
<1>4. Level(stack) \in Nat BY <1>1, LevelNat
<1> QED BY <1>1, <1>3, <1>4 DEF DebugInv, Tracked, FlagsFit, At, Top, Level, Of

\* What an evaluation at the top knows.
LEMMA EvalTop ==
  ASSUME DebugInv, NEW p, At("eval", p)
  PROVE  /\ "IN_ENTRY" \notin traceFlag
         /\ traceFlag # {} =>
              /\ allocated = TRUE
              /\ Levels(Level(stack), p = "entry", traceFlag, debugStack, currentLevel)
<1>1. Len(stack) > 0 /\ stack # <<>> /\ FlagsFit(stack, traceFlag) /\ Top = stack[Len(stack)]
      /\ Top \in Traced /\ Top.fn = "eval" /\ Top.pc = p BY TopFrame
<1>2. "IN_ENTRY" \notin traceFlag BY <1>1 DEF FlagsFit
<1>3. p \in {"entry", "body", "exit", "fatal"} BY <1>1, Points
<1>4. Fresh(stack) <=> p = "entry" BY <1>1, <1>3 DEF Fresh
<1> QED BY <1>2, <1>4 DEF DebugInv, Tracked, Levels

\* No handler runs: what an expression does is an operation of the program.
LEMMA NoHandler ==
  ASSUME DebugInv, NEW what, May(what)
  PROVE  what \in ProgramOps /\ At("eval", "body")
<1>1. At("eval", "body") BY DEF May
<1>2. Formed(stack) /\ Top = stack[Len(stack)] /\ Top.fn = "eval" BY <1>1, TopFrame
<1>3. stack \in Seq(Traced) /\ Len(stack) \in Nat /\ DOMAIN stack = 1..Len(stack)
  BY <1>2 DEF Formed
<1>4. Len(stack) \in Nat BY <1>3
<1>5. ASSUME NEW i \in 1..Len(stack) PROVE stack[i].fn # "os" /\ stack[i].fn # "entry"
  <2>1. PICK x \in Traced : x = stack[i] BY <1>3
  <2>2. i = Len(stack) \/ i < Len(stack) BY <1>4
  <2>3. i < Len(stack) => x.pc \in {"body", "running"} BY <1>2, <2>1 DEF Formed
  <2>4. /\ x.fn = "entry" => x.pc \in {"loaded", "debug", "push", "leave"}
        /\ x.fn \in {"eval", "entry", "catch"} BY Points
  <2> QED BY <1>2, <2>1, <2>2, <2>3, <2>4
<1>6. Frames("os") = {} /\ Frames("entry") = {} BY <1>3, <1>5 DEF Frames
<1> QED BY <1>1, <1>6 DEF May, InHandler

\* The kernel's side of it.
LEMMA CalmKept ==
  ASSUME Calm, Undisturbed, symHandler' = symHandler, timerEvent' = timerEvent,
         armed' = armed, pending' = pending, disposition' = disposition \/ ToTop
  PROVE  Calm'
<1>1. Sigs = {"INT", "ALRM"} BY DEF Undisturbed, Sigs
<1>2. \A s \in Sigs : disposition'[s] = "handler" BY <1>1 DEF Calm, ToTop
<1>3. \A s \in Sigs : symHandler'[s] = FALSE BY DEF Calm
<1>4. pending' \subseteq {"INT"} /\ armed' = FALSE /\ timerEvent' = FALSE BY DEF Calm
<1>5. Sigs' = Sigs BY DEF Sigs
<1> QED BY <1>2, <1>3, <1>4, <1>5 DEF Calm

\* Nothing that the debugger looks at changes.
LEMMA StackUntouched ==
  ASSUME DebugInv, Undisturbed, symHandler' = symHandler, timerEvent' = timerEvent,
         armed' = armed, pending' = pending, disposition' = disposition,
         stack' = stack, traceFlag' = traceFlag, debugStack' = debugStack,
         currentLevel' = currentLevel, allocated' = allocated
  PROVE  DebugInv'
<1>1. Calm' BY CalmKept DEF DebugInv
<1> QED BY <1>1 DEF DebugInv, Tracked, Formed, FlagsFit, Levels, Level, Of, Fresh

\* Signals arrive and are answered.
LEMMA KernelDebug ==
  ASSUME DebugInv, Undisturbed, NEW s \in Sigs,
         Arrive(s) \/ Kill(s) \/ Defer(s) \/ RunIdle(s) \/ Unhandled(s)
  PROVE  DebugInv'
<1>1. Sigs = {"INT", "ALRM"} /\ Sigs' = Sigs BY DEF Undisturbed, Sigs
<1>2. Calm /\ Tracked(stack, traceFlag, debugStack, currentLevel, allocated) BY DEF DebugInv
<1>3. CASE Arrive(s)
  <2>1. s = "INT" BY <1>1, <1>2, <1>3 DEF Arrive, Calm
  <2>2. Calm' BY <1>1, <1>2, <1>3, <2>1 DEF Arrive, Calm
  <2>3. stack' = stack /\ traceFlag' = traceFlag /\ debugStack' = debugStack
        /\ currentLevel' = currentLevel /\ allocated' = allocated BY <1>3 DEF Arrive, debugVars
  <2> QED BY <1>2, <2>2, <2>3 DEF DebugInv
<1>4. CASE Kill(s) BY <1>2, <1>4 DEF Kill, Calm
<1>5. CASE Defer(s) \/ RunIdle(s)
  <2>1. s = "INT" /\ symHandler[s] = FALSE BY <1>2, <1>5 DEF Defer, RunIdle, Delivered, Calm
  <2> QED BY <1>5, <2>1 DEF Defer, RunIdle
<1>6. CASE Unhandled(s)
  <2>1. s = "INT" BY <1>2, <1>6 DEF Unhandled, Delivered, Calm
  <2>2. Calm' BY <1>1, <1>2, <1>6 DEF Unhandled, Delivered, Calm
  <2>3. stack' = stack BY <1>6 DEF Unhandled
  <2>4. CASE UNCHANGED <<traceFlag, debugVars>> BY <1>2, <2>2, <2>3, <2>4 DEF DebugInv, debugVars
  <2>5. CASE /\ traceFlag \subseteq {"SIGINT"} /\ traceFlag' = {"TRUE"}
             /\ debugStack' = <<>> /\ allocated' = TRUE /\ UNCHANGED currentLevel
    <3>1. traceFlag = {} BY <1>2, <2>5 DEF Tracked, FlagsFit
    <3>2. FlagsFit(stack, {"TRUE"}) BY <1>2, <3>1 DEF Tracked, FlagsFit, Asked, Flags
    <3>3. <<>> \in Seq(Nat) /\ Len(<<>>) = 0 /\ 1..0 = {} OBVIOUS
    <3>4. Levels(Level(stack), Fresh(stack), {"TRUE"}, <<>>, currentLevel) BY <3>3 DEF Levels
    <3>5. Tracked(stack, {"TRUE"}, <<>>, currentLevel, TRUE) BY <1>2, <3>2, <3>3, <3>4 DEF Tracked
    <3> QED BY <2>2, <2>3, <2>5, <3>5 DEF DebugInv
  <2>6. CASE traceFlag' = traceFlag \ {"SIGINT"} /\ UNCHANGED debugVars
    <3>1. traceFlag' = traceFlag BY <1>2, <2>6 DEF Tracked, FlagsFit, Flags
    <3> QED BY <1>2, <2>2, <2>3, <2>6, <3>1 DEF DebugInv, debugVars
  <2> QED BY <1>6, <2>1, <2>4, <2>5, <2>6 DEF Unhandled, Undisturbed
<1> QED BY <1>3, <1>4, <1>5, <1>6

\* Levels that fit stay so when the evaluation goes on or ends, and as flags go.
LEMMA LevelsStay ==
  ASSUME NEW n \in Nat, NEW fresh, NEW f, NEW d \in Seq(Nat), NEW c,
         Levels(n, fresh, f, d, c),
         NEW g, "DEBUG_NEXT" \in g => "DEBUG_NEXT" \in f
  PROVE  /\ Levels(n, FALSE, g, d, c)
         /\ (fresh => Levels(n, TRUE, g, d, c))
         /\ Levels(n + 1, TRUE, g, d, c)
<1>1. \A k \in 1..Len(d) : d[k] \in Nat OBVIOUS
<1>2. \A k \in 1..Len(d) : d[k] < n + 1 /\ d[k] <= n + 1 BY <1>1 DEF Levels
<1> QED BY <1>2 DEF Levels

\* An evaluation at the top goes on: Goto.
LEMMA Went ==
  ASSUME DebugInv, NEW q, At("eval", q), NEW p \in {"body", "exit", "fatal"}
  PROVE  /\ Formed(Goto(p)) /\ Len(Goto(p)) = Len(stack) /\ Level(Goto(p)) = Level(stack)
         /\ Goto(p)[Len(stack)].fn = "eval" /\ Goto(p)[Len(stack)].pc = p
         /\ \E x \in Traced : x.fn = "eval" /\ x.pc = p /\ Goto(p) = [stack EXCEPT ![Len(stack)] = x]
<1>1. /\ Len(stack) > 0 /\ Formed(stack) /\ Top = stack[Len(stack)]
      /\ Top \in Traced /\ Top.fn = "eval" BY TopFrame
<1>2. PICK t \in Traced : t = stack[Len(stack)] /\ t.fn = "eval" BY <1>1
<1> DEFINE x == [t EXCEPT !.pc = p]
<1>3. x \in Traced /\ x.fn = "eval" /\ x.pc = p
  <2>1. p \in {"entry", "body", "exit", "fatal"} OBVIOUS
  <2>2. [t EXCEPT !.pc = p] \in Traced /\ [t EXCEPT !.pc = p].fn = "eval"
        /\ [t EXCEPT !.pc = p].pc = p BY <1>2, <2>1, Goes
  <2> QED BY <2>2
<1>4. Goto(p) = [stack EXCEPT ![Len(stack)] = x] BY <1>2 DEF Goto
<1> HIDE DEF x
<1> DEFINE r == [stack EXCEPT ![Len(stack)] = x]
<1>5. Formed(r) /\ Len(r) = Len(stack) /\ r[Len(r)] = x /\ Level(r) = Level(stack)
  BY <1>1, <1>2, <1>3, Retouched
<1> QED BY <1>3, <1>4, <1>5

\* An evaluation goes on at another point.
LEMMA GoesTo ==
  ASSUME DebugInv, NEW q, At("eval", q), NEW p \in {"body", "exit", "fatal"},
         NEW g \in SUBSET Flags, g # {} => "TRUE" \in g, "IN_ENTRY" \notin g,
         NEW e \in Seq(Nat), NEW k \in Nat, NEW b,
         g # {} => b = TRUE /\ Levels(Level(stack), FALSE, g, e, k)
  PROVE  Tracked(Goto(p), g, e, k, b)
<1>1. Len(stack) > 0 /\ Formed(stack) /\ Top = stack[Len(stack)] /\ Top.fn = "eval" BY TopFrame
<1>2. PICK x \in Traced :
        x.fn = "eval" /\ x.pc = p /\ Goto(p) = [stack EXCEPT ![Len(stack)] = x] BY Went
<1>3. x.pc \notin {"entry", "loaded", "debug", "push"} BY <1>2
<1>4. g # {} => b = TRUE
               /\ Levels(Level(stack), x.pc \in {"entry", "loaded", "debug", "push"}, g, e, k)
  BY <1>3 DEF Levels
<1>5. Tracked([stack EXCEPT ![Len(stack)] = x], g, e, k, b) BY <1>1, <1>2, <1>4, Moves
<1> QED BY <1>2, <1>5

\* The command loop.
LEMMA LoopDebug ==
  ASSUME DebugInv, Undisturbed, HandlerReturns \/ Prompt \/ PromptReset \/ ReadLine \/ EvaluateLine
  PROVE  DebugInv'
<1>1. Calm /\ Tracked(stack, traceFlag, debugStack, currentLevel, allocated) BY DEF DebugInv
<1>2. CASE HandlerReturns
  <2>1. Top \in Traced /\ Top.fn = "os" BY <1>2, TopFrame DEF HandlerReturns
  <2> QED BY <2>1, Points
<1>3. CASE Prompt \/ ReadLine BY <1>3, StackUntouched DEF Prompt, ReadLine, osVars, debugVars
<1>4. CASE PromptReset BY <1>1, <1>4 DEF PromptReset, Tracked, FlagsFit, Flags
<1>5. CASE EvaluateLine
  <2>1. /\ stack = <<>> /\ stack' = <<Eval>> /\ traceFlag' = traceFlag
        /\ UNCHANGED <<symHandler, timerEvent, armed, disposition, pending>>
        /\ UNCHANGED <<debugStack, allocated, currentLevel>>
    BY <1>5 DEF EvaluateLine, osVars, debugVars
  <2>2. Calm' BY <1>1, <2>1, CalmKept
  <2>3. Formed(<<>>) /\ Len(<<>>) = 0 BY DEF Formed
  <2>4. Eval \in Traced /\ Eval.fn = "eval" /\ Eval.pc = "entry" BY DEF Eval, Frame, Traced, Calls
  <2>5. traceFlag \in SUBSET Flags /\ (traceFlag # {} => "TRUE" \in traceFlag)
        /\ "IN_ENTRY" \notin traceFlag /\ debugStack \in Seq(Nat) /\ currentLevel \in Nat
    BY <1>1, <2>1 DEF Tracked, FlagsFit
  <2>6. Level(<<>>) \in Nat BY <2>3, LevelNat
  <2>7. traceFlag # {} => allocated = TRUE
                          /\ Levels(Level(<<>>) + 1, TRUE, traceFlag, debugStack, currentLevel)
    BY <1>1, <2>1, <2>5, <2>6, LevelsStay DEF Tracked
  <2>8. Tracked(Append(<<>>, Eval), traceFlag, debugStack, currentLevel, allocated)
    <3>1. PICK z : z = <<>> OBVIOUS
    <3>2. Formed(z) /\ ~(Len(z) > 0) /\ Eval.fn \notin {"entry", "catch"} BY <2>3, <2>4, <3>1
    <3>3. traceFlag # {} => allocated = TRUE
                            /\ Levels(Level(z) + 1, TRUE, traceFlag, debugStack, currentLevel)
      BY <2>7, <3>1
    <3>4. Tracked(Append(z, Eval), traceFlag, debugStack, currentLevel, allocated)
      BY <2>4, <2>5, <3>2, <3>3, Grows
    <3> QED BY <3>1, <3>4
  <2>9. Append(<<>>, Eval) = <<Eval>> OBVIOUS
  <2> QED BY <2>1, <2>2, <2>8, <2>9 DEF DebugInv
<1> QED BY <1>2, <1>3, <1>4, <1>5

\* What an expression may do.
LEMMA OperationDebug ==
  ASSUME DebugInv, Undisturbed, Operation \/ Finish
  PROVE  DebugInv'
<1>1. At("eval", "body")
  BY DEF Operation, Finish, Call, Catch, RaiseFatal, RaiseIgnored, Throw, Reset, StartTimer,
         TraceOn, TracePrint, TraceOff, SetSignal, May
<1>2. /\ Len(stack) > 0 /\ Formed(stack) /\ Top = stack[Len(stack)]
      /\ Top \in Traced /\ Top.fn = "eval" /\ Top.pc = "body" /\ Level(stack) \in Nat
      /\ debugStack \in Seq(Nat) /\ currentLevel \in Nat
      /\ traceFlag \in SUBSET Flags /\ (traceFlag # {} => "TRUE" \in traceFlag) BY <1>1, TopFrame
<1>3. "IN_ENTRY" \notin traceFlag BY <1>1, EvalTop
<1>4. traceFlag # {} => /\ allocated = TRUE
                        /\ Levels(Level(stack), FALSE, traceFlag, debugStack, currentLevel)
                        /\ Levels(Level(stack) + 1, TRUE, traceFlag, debugStack, currentLevel)
  BY <1>1, <1>2, EvalTop, LevelsStay
<1>5. Calm BY DEF DebugInv
<1>6. Eval \in Traced /\ Eval.fn = "eval" /\ Eval.pc = "entry" BY DEF Eval, Frame, Traced, Calls
<1>7. CASE \/ Call \/ Catch \/ RaiseFatal \/ RaiseIgnored \/ Finish
  <2>1. UNCHANGED <<traceFlag, debugStack, allocated, currentLevel, symHandler, timerEvent,
                    armed, disposition, pending>>
    BY <1>7 DEF Call, Catch, RaiseFatal, RaiseIgnored, Finish, osVars, debugVars
  <2>2. Calm' BY <1>5, <2>1, CalmKept
  <2>3. CASE stack' \in {Goto("exit"), Goto("fatal")}
    <3>1. Tracked(stack', traceFlag, debugStack, currentLevel, allocated)
      BY <1>1, <1>2, <1>3, <1>4, <2>3, GoesTo
    <3> QED BY <2>1, <2>2, <3>1 DEF DebugInv
  <2>4. CASE stack' = Append(stack, Eval)
    <3>1. Tracked(Append(stack, Eval), traceFlag, debugStack, currentLevel, allocated)
      BY <1>2, <1>3, <1>4, <1>6, Grows
    <3> QED BY <2>1, <2>2, <2>4, <3>1 DEF DebugInv
  <2>5. CASE stack' = stack \o <<Frame("catch", "running", {}), Eval>>
    <3> DEFINE x == Frame("catch", "running", {})
               q == Append(stack, x)
    <3>1. x \in Traced /\ x.fn = "catch" /\ x.pc = "running" BY DEF Frame, Traced, Guards
    <3>2. stack' = Append(q, Eval)
      <4>1. stack \in Seq(Traced) BY <1>2 DEF Formed
      <4> HIDE DEF x
      <4> QED BY <1>6, <2>5, <3>1, <4>1 DEF x
    <3> HIDE DEF x
    <3>3. Formed(q) /\ Len(q) = Len(stack) + 1 /\ q[Len(stack) + 1] = x /\ Level(q) = Level(stack)
      BY <1>2, <3>1, Added
    <3> HIDE DEF q
    <3>4. Tracked(Append(q, Eval), traceFlag, debugStack, currentLevel, allocated)
      BY <1>2, <1>3, <1>4, <1>6, <3>1, <3>3, Grows
    <3> QED BY <2>1, <2>2, <3>2, <3>4 DEF DebugInv
  <2> QED BY <1>7, <2>3, <2>4, <2>5 DEF Call, Catch, RaiseFatal, RaiseIgnored, Finish
<1>8. CASE TraceOn
  <2>1. UNCHANGED <<currentLevel, symHandler, timerEvent, armed, disposition, pending>>
        /\ stack' = Goto("exit") BY <1>8 DEF TraceOn, osVars
  <2>2. Calm' BY <1>5, <2>1, CalmKept
  <2>3. CASE traceFlag = {}
    <3>1. traceFlag' = {"TRUE", "IN_DEBUG"} /\ debugStack' = <<>> /\ allocated' = TRUE
      BY <1>8, <2>3 DEF TraceOn
    <3>2. <<>> \in Seq(Nat) /\ Len(<<>>) = 0 /\ 1..0 = {} OBVIOUS
    <3>3. Levels(Level(stack), FALSE, {"TRUE", "IN_DEBUG"}, <<>>, currentLevel) BY <3>2 DEF Levels
    <3>4. {"TRUE", "IN_DEBUG"} \in SUBSET Flags BY DEF Flags
    <3>5. Tracked(Goto("exit"), {"TRUE", "IN_DEBUG"}, <<>>, currentLevel, TRUE)
      BY <1>1, <1>2, <3>2, <3>3, <3>4, GoesTo
    <3> QED BY <2>1, <2>2, <3>1, <3>5 DEF DebugInv
  <2>4. CASE traceFlag # {}
    <3>1. PICK g : g = traceFlag \cup {"IN_DEBUG"} OBVIOUS
    <3>2. traceFlag' = g /\ debugStack' = debugStack /\ allocated' = allocated
      BY <1>8, <2>4, <3>1 DEF TraceOn
    <3>3. g \in SUBSET Flags /\ "TRUE" \in g /\ "IN_ENTRY" \notin g
          /\ ("DEBUG_NEXT" \in g => "DEBUG_NEXT" \in traceFlag)
      BY <1>2, <1>3, <2>4, <3>1 DEF Flags
    <3>4. allocated = TRUE /\ Levels(Level(stack), FALSE, g, debugStack, currentLevel)
      BY <1>2, <1>4, <2>4, <3>3, LevelsStay
    <3>5. Tracked(Goto("exit"), g, debugStack, currentLevel, allocated)
      BY <1>1, <1>2, <3>3, <3>4, GoesTo
    <3> QED BY <2>1, <2>2, <3>2, <3>5 DEF DebugInv
  <2> QED BY <2>3, <2>4
<1>9. CASE TraceOff
  <2>1. /\ UNCHANGED <<symHandler, timerEvent, armed, disposition, pending>>
        /\ traceFlag' = {} /\ UNCHANGED <<debugStack, currentLevel>> /\ stack' = Goto("exit")
    BY <1>9 DEF TraceOff, closeTrace, osVars
  <2>2. Calm' BY <1>5, <2>1, CalmKept
  <2>3. {} \in SUBSET Flags OBVIOUS
  <2>4. Tracked(Goto("exit"), {}, debugStack, currentLevel, allocated')
    BY <1>1, <1>2, <2>3, GoesTo
  <2> QED BY <2>1, <2>2, <2>4 DEF DebugInv
<1>10. CASE Throw \/ Reset \/ StartTimer \/ TracePrint
  <2>1. \E what \in {"throw", "reset", "timer", "print"} : May(what)
    BY <1>10 DEF Throw, Reset, StartTimer, TracePrint
  <2> QED BY <2>1, NoHandler DEF Undisturbed
<1>11. UserSigs = {} BY DEF Undisturbed
<1> QED BY <1>7, <1>8, <1>9, <1>10, <1>11 DEF Operation

\* The error exit, and the end of an evaluation.
LEMMA ExitDebug ==
  ASSUME DebugInv, Undisturbed, FatalError \/ EvalExit \/ DebugExit \/ DebugUnderrun
  PROVE  DebugInv'
<1>1. Calm BY DEF DebugInv
<1>2. {} \in SUBSET Flags OBVIOUS
<1>3. CASE FatalError
  <2>1. /\ At("eval", "fatal") /\ traceFlag' = {} /\ UNCHANGED <<debugStack, currentLevel>>
        /\ ToCatch \/ ToTop
        /\ UNCHANGED <<symHandler, timerEvent, armed, pending>> BY <1>3 DEF FatalError, closeTrace
  <2>2. Calm' BY <1>1, <2>1, CalmKept DEF ToCatch
  <2>3. Formed(stack) /\ debugStack \in Seq(Nat) /\ currentLevel \in Nat BY <2>1, TopFrame
  <2>4. Tracked(stack', {}, debugStack, currentLevel, allocated') BY <2>1, <2>3, Jumped
  <2> QED BY <2>1, <2>2, <2>4 DEF DebugInv
<1>4. CASE EvalExit \/ DebugExit \/ DebugUnderrun
  <2>1. At("eval", "exit") BY <1>4 DEF EvalExit, DebugExit, DebugUnderrun
  <2>2. /\ Len(stack) > 0 /\ Formed(stack) /\ Top.fn = "eval"
        /\ debugStack \in Seq(Nat) /\ currentLevel \in Nat /\ Level(stack) \in Nat
        /\ traceFlag \in SUBSET Flags /\ (traceFlag # {} => "TRUE" \in traceFlag)
    BY <2>1, TopFrame
  <2>3. "IN_ENTRY" \notin traceFlag BY <2>1, EvalTop
  <2>4. traceFlag # {} => /\ allocated = TRUE
                          /\ Levels(Level(stack), FALSE, traceFlag, debugStack, currentLevel)
    <3>1. ("exit" = "entry") = FALSE OBVIOUS
    <3> QED BY <2>1, <3>1, EvalTop DEF Levels
  <2>5. CASE EvalExit
    <3>1. /\ Untraced /\ stack' = Returned
          /\ UNCHANGED <<traceFlag, symHandler, timerEvent, armed, disposition, pending>>
          /\ UNCHANGED <<debugStack, allocated, currentLevel>>
      BY <2>5 DEF EvalExit, osVars, debugVars
    <3>2. traceFlag = {} BY <2>2, <2>3, <3>1 DEF Untraced, Flags, Asynchronous
    <3>3. Calm' BY <1>1, <3>1, CalmKept
    <3>4. Tracked(Returned, {}, debugStack, currentLevel, allocated) BY <1>2, <2>2, CallEnds
    <3> QED BY <3>1, <3>2, <3>3, <3>4 DEF DebugInv
  <2>6. CASE DebugExit
    <3> DEFINE n == Level(stack)
    <3>1. recursionCount = n BY DEF recursionCount, Frames, Level, Of
    <3>2. traceFlag # {} BY <2>6 DEF DebugExit, Untraced
    <3>3. PICK next \in {"DEBUG_NEXT" \in traceFlag /\ currentLevel < n} :
          \E popped \in {~next /\ debugStack # <<>> /\ debugStack[Len(debugStack)] = n} :
            /\ debugStack' = IF popped THEN SubSeq(debugStack, 1, Len(debugStack) - 1)
                                       ELSE debugStack
            /\ \/ /\ traceFlag' = IF next THEN traceFlag ELSE traceFlag \ {"DEBUG_NEXT"}
                  /\ stack' = Returned
                  /\ UNCHANGED <<allocated, currentLevel, disposition, loop>>
               \/ /\ ~next /\ debugStack' # <<>>
                  /\ traceFlag' = traceFlag \cup {"DEBUG_NEXT"}
                  /\ currentLevel' = n
                  /\ stack' = Returned
                  /\ UNCHANGED <<allocated, disposition, loop>>
               \/ /\ ~next /\ debugStack' # <<>>
                  /\ traceFlag' = {} /\ allocated' = FALSE
                  /\ UNCHANGED currentLevel
                  /\ \/ stack' = Returned /\ UNCHANGED <<disposition, loop>>
                     \/ ToCatch
                     \/ ToTop BY <2>6, <3>1 DEF DebugExit
    <3>4. UNCHANGED <<symHandler, timerEvent, armed, pending>> BY <2>6 DEF DebugExit
    <3>5. disposition' = disposition \/ ToTop BY <3>3 DEF ToCatch
    <3>6. Calm' BY <1>1, <3>4, <3>5, CalmKept
    <3>7. debugStack' \in Seq(Nat) BY <2>2, <3>3
    <3>8. PICK d \in Seq(Nat) : d = debugStack BY <2>2
    <3>9. PICK e \in Seq(Nat) : e = debugStack' BY <3>7
    <3>10. Len(d) \in Nat /\ Len(e) \in Nat /\ \A k \in 1..Len(d) : d[k] \in Nat BY <3>8, <3>9
    <3>11. Levels(n, FALSE, traceFlag, d, currentLevel) BY <2>4, <3>2, <3>8
    <3>12. Len(e) <= Len(d) /\ \A k \in 1..Len(e) : e[k] = d[k]
      <4>1. CASE e = d BY <4>1
      <4>2. CASE e # d
        <5>1. d # <<>> /\ e = SubSeq(d, 1, Len(d) - 1) BY <3>3, <3>8, <3>9, <4>2
        <5> QED BY <5>1, <3>8
      <4> QED BY <4>1, <4>2
    <3>13. \A k \in 1..Len(e) : e[k] > 0 /\ e[k] <= n - 1
      <4>1. SUFFICES ASSUME NEW k \in 1..Len(e) PROVE d[k] > 0 /\ d[k] <= n - 1 BY <3>12
      <4>2. k \in 1..Len(d) /\ d[k] \in Nat /\ d[k] > 0 /\ d[k] <= n
        BY <3>10, <3>11, <3>12 DEF Levels
      <4>3. CASE next
        <5>1. d[k] <= currentLevel /\ currentLevel < n BY <3>3, <3>11, <4>2, <4>3 DEF Levels
        <5> QED BY <2>2, <4>2, <5>1
      <4>4. CASE ~next /\ d[Len(d)] = n
        <5>1. d # <<>> BY <4>2
        <5>2. e = SubSeq(d, 1, Len(d) - 1) BY <3>3, <3>8, <3>9, <4>4, <5>1
        <5>3. Len(e) = Len(d) - 1 BY <5>1, <5>2
        <5>4. k < Len(d) /\ Len(d) \in 1..Len(d) BY <3>10, <4>2, <5>3
        <5>5. d[k] < d[Len(d)] BY <3>11, <4>2, <5>4 DEF Levels
        <5> QED BY <2>2, <4>2, <4>4, <5>5
      <4>5. CASE d[Len(d)] # n
        <5>1. Len(d) \in 1..Len(d) BY <3>10, <4>2
        <5>2. d[Len(d)] <= n /\ d[Len(d)] \in Nat BY <3>10, <3>11, <5>1 DEF Levels
        <5>3. k = Len(d) \/ k < Len(d) BY <3>10, <4>2
        <5>4. k = Len(d) \/ d[k] < d[Len(d)] BY <3>11, <4>2, <5>1, <5>3 DEF Levels
        <5> QED BY <2>2, <4>2, <4>5, <5>2, <5>4
      <4> QED BY <3>3, <4>3, <4>4, <4>5
    <3>14. \A j, k \in 1..Len(e) : j < k => e[j] < e[k]
      <4>1. \A k \in 1..Len(e) : k \in 1..Len(d) BY <3>10, <3>12
      <4> QED BY <3>11, <3>12, <4>1 DEF Levels
    <3>15. "DEBUG_NEXT" \in traceFlag => \A k \in 1..Len(e) : e[k] <= currentLevel
      <4>1. \A k \in 1..Len(e) : k \in 1..Len(d) BY <3>10, <3>12
      <4> QED BY <3>11, <3>12, <4>1 DEF Levels
    <3>16. \A k \in 1..Len(e) : e[k] <= n BY <2>2, <3>9, <3>13
    <3> HIDE DEF n
    <3>17. CASE stack' = Returned /\ traceFlag' # {}
      <4>1. \/ traceFlag' \in {traceFlag, traceFlag \ {"DEBUG_NEXT"}} /\ currentLevel' = currentLevel
            \/ traceFlag' = traceFlag \cup {"DEBUG_NEXT"} /\ currentLevel' = n BY <3>3, <3>17
      <4>2. PICK g : g = traceFlag' OBVIOUS
      <4>3. g \in SUBSET Flags /\ "TRUE" \in g /\ "IN_ENTRY" \notin g
        BY <2>2, <2>3, <3>2, <4>1, <4>2 DEF Flags
      <4>4. allocated' = TRUE /\ currentLevel' \in Nat BY <2>2, <2>4, <3>2, <3>3, <3>17 DEF n
      <4>5. Levels(n - 1, FALSE, g, e, currentLevel')
        <5>1. "DEBUG_NEXT" \in g => \A k \in 1..Len(e) : e[k] <= currentLevel'
          BY <3>15, <3>16, <4>1, <4>2
        <5> QED BY <3>13, <3>14, <5>1 DEF Levels
      <4>6. PICK k \in Nat : k = currentLevel' BY <4>4
      <4>7. Tracked(Returned, g, e, k, TRUE) BY <2>2, <4>3, <4>5, <4>6, CallEnds DEF n
      <4> QED BY <3>6, <3>9, <3>17, <4>2, <4>4, <4>6, <4>7 DEF DebugInv
    <3>18. CASE stack' = Returned /\ traceFlag' = {}
      <4>1. currentLevel' \in Nat BY <2>2, <3>3 DEF n
      <4>2. Tracked(Returned, {}, e, currentLevel', allocated') BY <1>2, <2>2, <4>1, CallEnds
      <4> QED BY <3>6, <3>9, <3>18, <4>2 DEF DebugInv
    <3>19. CASE ToCatch \/ ToTop
      <4>1. CASE stack' = Returned BY <4>1, <3>17, <3>18
      <4>2. CASE stack' # Returned
        <5>1. traceFlag' = {} /\ currentLevel' = currentLevel BY <3>3, <4>2
        <5>2. Tracked(stack', {}, e, currentLevel, allocated') BY <2>2, <3>19, Jumped
        <5> QED BY <3>6, <3>9, <5>1, <5>2 DEF DebugInv
      <4> QED BY <4>1, <4>2
    <3> QED BY <3>3, <3>17, <3>18, <3>19
  <2>7. CASE DebugUnderrun
    <3>1. /\ stack' = <<>> /\ pending' = {} /\ debugStack = <<>>
          /\ UNCHANGED <<traceFlag, symHandler, timerEvent, armed, disposition>>
          /\ UNCHANGED <<debugStack, allocated, currentLevel>>
      BY <2>7 DEF DebugUnderrun, debugVars
    <3>2. Calm' BY <1>1, <3>1 DEF Calm, Sigs
    <3>3. Formed(<<>>) BY DEF Formed
    <3>4. FlagsFit(<<>>, traceFlag) BY <2>2, <2>3 DEF FlagsFit
    <3>5. \A n : Levels(n, FALSE, traceFlag, <<>>, currentLevel) BY DEF Levels
    <3>6. Fresh(<<>>) = FALSE BY DEF Fresh
    <3>7. Tracked(<<>>, traceFlag, <<>>, currentLevel, allocated)
      BY <2>2, <2>4, <3>1, <3>3, <3>4, <3>5, <3>6 DEF Tracked
    <3> QED BY <3>1, <3>2, <3>7 DEF DebugInv
  <2> QED BY <1>4, <2>5, <2>6, <2>7
<1> QED BY <1>3, <1>4

\* What a call of traceEntry knows.
LEMMA EntryTop ==
  ASSUME DebugInv, NEW p, At("entry", p)
  PROVE  /\ p \in {"loaded", "debug", "push", "leave"}
         /\ Top.arg \subseteq Flags /\ Asked(Top, traceFlag) /\ allocated = TRUE
         /\ Levels(Level(stack), p # "leave", traceFlag, debugStack, currentLevel)
<1>1. Len(stack) > 0 /\ stack # <<>> /\ FlagsFit(stack, traceFlag) /\ Top = stack[Len(stack)]
      /\ Top \in Traced /\ Top.fn = "entry" /\ Top.pc = p BY TopFrame
<1>2. Asked(Top, traceFlag) BY <1>1 DEF FlagsFit
<1>3. p \in {"loaded", "debug", "push", "leave"} /\ Top.arg \subseteq Flags BY <1>1, Points
<1>4. Fresh(stack) <=> p # "leave" BY <1>1, <1>3 DEF Fresh
<1>5. traceFlag # {} BY <1>2 DEF Asked
<1> QED BY <1>2, <1>3, <1>4, <1>5 DEF DebugInv, Tracked, Levels

\* How it goes on.
LEMMA AskGoes ==
  ASSUME DebugInv, NEW p, At("entry", p), NEW q \in {"debug", "push", "leave"},
         NEW A \in SUBSET Flags, NEW g \in SUBSET Flags, "TRUE" \in g,
         Asked(Frame("entry", q, A), g),
         NEW e \in Seq(Nat), NEW k \in Nat, Levels(Level(stack), q # "leave", g, e, k)
  PROVE  Tracked([stack EXCEPT ![Len(stack)] = Frame("entry", q, A)], g, e, k, TRUE)
<1> DEFINE x == Frame("entry", q, A)
<1>1. x \in Traced /\ x.fn = "entry" /\ x.pc = q BY DEF Frame, Traced, Asks
<1>2. Len(stack) > 0 /\ Formed(stack) /\ stack[Len(stack)].fn = "entry" BY TopFrame
<1>3. Asked(x, g) OBVIOUS
<1> HIDE DEF x
<1>4. x.pc \in {"entry", "loaded", "debug", "push"} <=> q # "leave" BY <1>1
<1>5. Levels(Level(stack), x.pc \in {"entry", "loaded", "debug", "push"}, g, e, k)
  BY <1>4 DEF Levels
<1>6. Tracked([stack EXCEPT ![Len(stack)] = x], g, e, k, TRUE) BY <1>1, <1>2, <1>3, <1>5, Moves
<1> QED BY <1>6 DEF x

\* The frame that Goto makes of it.
LEMMA AskGoto ==
  ASSUME DebugInv, NEW p, At("entry", p), NEW q, NEW A
  PROVE  /\ Goto(q) = [stack EXCEPT ![Len(stack)] = Frame("entry", q, Top.arg)]
         /\ [Goto(q) EXCEPT ![Len(stack)].arg = A]
              = [stack EXCEPT ![Len(stack)] = Frame("entry", q, A)]
<1>1. PICK t \in Traced : t = stack[Len(stack)] /\ t = Top /\ t.fn = "entry" BY TopFrame
<1>2. t \in Asks BY <1>1, Points
<1>3. [t EXCEPT !.pc = q] = Frame("entry", q, t.arg) BY <1>2 DEF Asks, Frame
<1>4. Goto(q) = [stack EXCEPT ![Len(stack)] = Frame("entry", q, t.arg)] BY <1>1, <1>3 DEF Goto
<1>5. stack \in Seq(Traced) /\ Len(stack) \in 1..Len(stack)
  <2>1. Formed(stack) /\ Len(stack) > 0 BY TopFrame
  <2> QED BY <2>1 DEF Formed
<1>6. PICK y : y = Frame("entry", q, t.arg) OBVIOUS
<1>7. [y EXCEPT !.arg = A] = Frame("entry", q, A) BY <1>6 DEF Frame
<1>8. PICK n : n = Len(stack) OBVIOUS
<1>9. [stack EXCEPT ![n] = y][n] = y BY <1>5, <1>8
<1>10. [[stack EXCEPT ![n] = y] EXCEPT ![n].arg = A] = [[stack EXCEPT ![n] = y] EXCEPT ![n] = [y EXCEPT !.arg = A]]
  BY <1>9
<1>11. [[stack EXCEPT ![n] = y] EXCEPT ![n] = [y EXCEPT !.arg = A]] = [stack EXCEPT ![n] = [y EXCEPT !.arg = A]]
  BY <1>5, <1>8
<1> QED BY <1>1, <1>4, <1>6, <1>7, <1>8, <1>10, <1>11

\* traceEntry and the debugger's questions.
LEMMA EntryDebug ==
  ASSUME DebugInv, Undisturbed, TraceEntry
  PROVE  DebugInv'
<1>1. Calm BY DEF DebugInv
<1>2. {} \in SUBSET Flags OBVIOUS
<1>3. CASE EvalEntry
  <2>1. /\ At("eval", "entry")
        /\ UNCHANGED <<traceFlag, symHandler, timerEvent, armed, disposition, pending>>
        /\ UNCHANGED <<debugStack, allocated, currentLevel>>
    BY <1>3 DEF EvalEntry, osVars, debugVars
  <2>2. Calm' BY <1>1, <2>1, CalmKept
  <2>3. /\ Len(stack) > 0 /\ debugStack \in Seq(Nat) /\ currentLevel \in Nat
        /\ Level(stack) \in Nat
        /\ traceFlag \in SUBSET Flags /\ (traceFlag # {} => "TRUE" \in traceFlag)
    BY <2>1, TopFrame
  <2>4. "IN_ENTRY" \notin traceFlag BY <2>1, EvalTop
  <2>5. traceFlag # {} => /\ allocated = TRUE
                          /\ Levels(Level(stack), FALSE, traceFlag, debugStack, currentLevel)
                          /\ Levels(Level(stack), TRUE, traceFlag, debugStack, currentLevel)
    <3>1. ("entry" = "entry") = TRUE OBVIOUS
    <3> QED BY <2>1, <3>1, EvalTop DEF Levels
  <2>6. CASE traceFlag = {} \/ traceFlag \cap Busy # {}
    <3>1. stack' = Goto("body") BY <1>3, <2>6 DEF EvalEntry
    <3>2. Tracked(Goto("body"), traceFlag, debugStack, currentLevel, allocated)
      BY <2>1, <2>3, <2>4, <2>5, GoesTo
    <3> QED BY <2>1, <2>2, <3>1, <3>2 DEF DebugInv
  <2>7. CASE ~(traceFlag = {} \/ traceFlag \cap Busy # {})
    <3> DEFINE x == Frame("entry", "loaded", traceFlag)
    <3>1. stack' = Append(Goto("body"), x) BY <1>3, <2>7 DEF EvalEntry
    <3>2. x \in Traced /\ x.fn = "entry" /\ x.pc = "loaded" /\ x.arg = traceFlag
      BY <2>3 DEF Frame, Traced, Asks
    <3>3. Asked(x, traceFlag) BY <2>7, <3>2 DEF Asked, Busy
    <3> HIDE DEF x
    <3>4. PICK r : r = Goto("body") OBVIOUS
    <3>5. /\ Formed(r) /\ Len(r) = Len(stack) /\ Level(r) = Level(stack)
          /\ r[Len(r)].fn = "eval" /\ r[Len(r)].pc = "body" BY <2>1, <3>4, Went
    <3>6. traceFlag # {} => allocated = TRUE
            /\ Levels(IF x.fn = "eval" THEN Level(r) + 1 ELSE Level(r),
                      x.pc \in {"entry", "loaded", "debug", "push"},
                      traceFlag, debugStack, currentLevel) BY <2>5, <3>2, <3>5 DEF Levels
    <3>7. Tracked(Append(r, x), traceFlag, debugStack, currentLevel, allocated)
      BY <2>3, <3>2, <3>3, <3>5, <3>6, Grows
    <3> QED BY <2>1, <2>2, <3>1, <3>4, <3>7 DEF DebugInv
  <2> QED BY <2>6, <2>7
<1>4. CASE EntrySignal \/ EntrySigint \/ EntryTimer
  <2>1. At("entry", "loaded") BY <1>4 DEF EntrySignal, EntrySigint, EntryTimer
  <2>2. Top.arg \subseteq Flags BY <2>1, EntryTop
  <2> QED BY <1>4, <2>2 DEF EntrySignal, EntrySigint, EntryTimer, Flags, Asynchronous
<1>5. CASE EntryNumber \/ EntryHandler \/ EntryClear
  <2>1. \E p \in {"number", "handler", "clear"} : At("entry", p)
    BY <1>5 DEF EntryNumber, EntryHandler, EntryClear
  <2> QED BY <2>1, EntryTop
<1>6. CASE EntryTrace
  <2>1. /\ At("entry", "loaded")
        /\ UNCHANGED <<symHandler, timerEvent, armed, disposition, pending>>
        /\ UNCHANGED <<debugStack, allocated, currentLevel>>
    BY <1>6 DEF EntryTrace, osVars, debugVars
  <2>2. Calm' BY <1>1, <2>1, CalmKept
  <2>3. /\ Top.arg \subseteq Flags /\ Asked(Top, traceFlag) /\ allocated = TRUE
        /\ Levels(Level(stack), TRUE, traceFlag, debugStack, currentLevel)
    <3>1. ("loaded" # "leave") = TRUE OBVIOUS
    <3> QED BY <2>1, <3>1, EntryTop DEF Levels
  <2>4. /\ Top.pc = "loaded" /\ debugStack \in Seq(Nat) /\ currentLevel \in Nat
        /\ Level(stack) \in Nat
        /\ traceFlag \in SUBSET Flags /\ (traceFlag # {} => "TRUE" \in traceFlag)
    BY <2>1, TopFrame
  <2>5. Top.arg = traceFlag /\ traceFlag # {} /\ "DEBUG_NEXT" \notin traceFlag
    BY <2>3, <2>4 DEF Asked
  <2>6. PICK g : g = traceFlag \cup {"IN_ENTRY"} OBVIOUS
  <2>7. g \in SUBSET Flags /\ "TRUE" \in g /\ "DEBUG_NEXT" \notin g /\ "IN_ENTRY" \in g
    BY <2>4, <2>5, <2>6 DEF Flags
  <2>8. traceFlag' = g BY <1>6, <2>5, <2>6 DEF EntryTrace
  <2>9. stack' = Goto("debug")
    <3>1. "PRINT" \notin Top.arg BY <2>3 DEF Flags
    <3> QED BY <1>6, <3>1 DEF EntryTrace
  <2>10. stack' = [stack EXCEPT ![Len(stack)] = Frame("entry", "debug", Top.arg)]
    BY <2>1, <2>9, AskGoto
  <2>11. Asked(Frame("entry", "debug", Top.arg), g) BY <2>7 DEF Asked, Frame
  <2>12. Levels(Level(stack), TRUE, g, debugStack, currentLevel) BY <2>3, <2>4, <2>7, LevelsStay
  <2>13. Levels(Level(stack), "debug" # "leave", g, debugStack, currentLevel) BY <2>12 DEF Levels
  <2>14. Tracked(stack', g, debugStack, currentLevel, TRUE)
    BY <2>1, <2>3, <2>4, <2>7, <2>10, <2>11, <2>13, AskGoes
  <2> QED BY <2>1, <2>2, <2>3, <2>8, <2>14 DEF DebugInv
<1>7. CASE Debugger
  <2>1. At("entry", "debug") /\ UNCHANGED <<symHandler, timerEvent, armed, pending>>
    BY <1>7 DEF Debugger
  <2>2. disposition' = disposition \/ ToTop BY <1>7 DEF Debugger, ToCatch
  <2>3. Calm' BY <1>1, <2>1, <2>2, CalmKept
  <2>4. /\ Asked(Top, traceFlag) /\ allocated = TRUE
        /\ Levels(Level(stack), TRUE, traceFlag, debugStack, currentLevel)
        /\ Levels(Level(stack), FALSE, traceFlag, debugStack, currentLevel)
    <3>1. ("debug" # "leave") = TRUE OBVIOUS
    <3>2. /\ Asked(Top, traceFlag) /\ allocated = TRUE
          /\ Levels(Level(stack), TRUE, traceFlag, debugStack, currentLevel)
      BY <2>1, <3>1, EntryTop DEF Levels
    <3>3. Levels(Level(stack), FALSE, traceFlag, debugStack, currentLevel) BY <3>2 DEF Levels
    <3> QED BY <3>2, <3>3
  <2>5. /\ Top.pc = "debug" /\ debugStack \in Seq(Nat) /\ currentLevel \in Nat
        /\ Level(stack) \in Nat /\ Len(stack) > 0 /\ Formed(stack)
        /\ Top = stack[Len(stack)] /\ Top.fn = "entry"
        /\ traceFlag \in SUBSET Flags /\ (traceFlag # {} => "TRUE" \in traceFlag)
    BY <2>1, TopFrame
  <2>6. traceFlag # {} /\ "IN_ENTRY" \in traceFlag /\ "DEBUG_NEXT" \notin traceFlag
    BY <2>4, <2>5 DEF Asked
  <2>7. CASE /\ traceFlag' \in {traceFlag, traceFlag \ {"DEBUG_NEXT"}}
             /\ stack' = [Goto("push") EXCEPT ![Len(stack)].arg = traceFlag']
             /\ UNCHANGED debugVars
    <3>1. traceFlag' = traceFlag BY <2>6, <2>7
    <3>2. stack' = [stack EXCEPT ![Len(stack)] = Frame("entry", "push", traceFlag)]
      BY <2>1, <2>7, <3>1, AskGoto
    <3>3. Asked(Frame("entry", "push", traceFlag), traceFlag) BY <2>6 DEF Asked, Frame
    <3>4. Levels(Level(stack), "push" # "leave", traceFlag, debugStack, currentLevel)
      BY <2>4 DEF Levels
    <3>5. Tracked(stack', traceFlag, debugStack, currentLevel, TRUE)
      BY <2>1, <2>5, <2>6, <3>2, <3>3, <3>4, AskGoes
    <3> QED BY <2>3, <2>4, <2>7, <3>1, <3>5 DEF DebugInv, debugVars
  <2>8. CASE /\ traceFlag' = traceFlag \cup {"DEBUG_NEXT"} /\ currentLevel' = recursionCount
             /\ stack' = [Goto("leave") EXCEPT ![Len(stack)].arg = traceFlag']
             /\ UNCHANGED <<debugStack, allocated>>
    <3>1. PICK g : g = traceFlag' OBVIOUS
    <3>2. g \in SUBSET Flags /\ "TRUE" \in g /\ "IN_ENTRY" \in g /\ g # {}
      BY <2>5, <2>6, <2>8, <3>1 DEF Flags
    <3>3. stack' = [stack EXCEPT ![Len(stack)] = Frame("entry", "leave", g)]
      BY <2>1, <2>8, <3>1, AskGoto
    <3>4. Asked(Frame("entry", "leave", g), g) BY <3>2 DEF Asked, Frame
    <3>5. recursionCount = Level(stack) BY DEF recursionCount, Frames, Level, Of
    <3>6. Levels(Level(stack), "leave" # "leave", g, debugStack, Level(stack)) BY <2>4 DEF Levels
    <3>7. Tracked(stack', g, debugStack, Level(stack), TRUE)
      BY <2>1, <2>5, <3>2, <3>3, <3>4, <3>6, AskGoes
    <3> QED BY <2>3, <2>4, <2>8, <3>1, <3>5, <3>7 DEF DebugInv
  <2>9. CASE closeTrace /\ stack' = Below(1)
    <3>1. Tracked(SubSeq(stack, 1, Len(stack) - 1), {}, debugStack, currentLevel, allocated')
      BY <1>2, <2>5, Leaves
    <3> QED BY <2>3, <2>9, <3>1 DEF DebugInv, closeTrace, Below
  <2>10. CASE closeTrace /\ (ToCatch \/ ToTop)
    <3>1. Tracked(stack', {}, debugStack, currentLevel, allocated') BY <2>5, <2>10, Jumped
    <3> QED BY <2>3, <2>10, <3>1 DEF DebugInv, closeTrace
  <2> QED BY <1>7, <2>7, <2>8, <2>9, <2>10 DEF Debugger, debugVars
<1>8. CASE DebugPush
  <2>1. /\ At("entry", "push") /\ stack' = Goto("leave")
        /\ debugStack' = debugStack \/ debugStack' = Append(debugStack, recursionCount)
        /\ UNCHANGED <<traceFlag, symHandler, timerEvent, armed, disposition, pending>>
        /\ UNCHANGED <<allocated, currentLevel>> BY <1>8 DEF DebugPush, osVars
  <2>2. Calm' BY <1>1, <2>1, CalmKept
  <2>3. /\ Top.arg \subseteq Flags /\ Asked(Top, traceFlag) /\ allocated = TRUE
        /\ Levels(Level(stack), TRUE, traceFlag, debugStack, currentLevel)
    <3>1. ("push" # "leave") = TRUE OBVIOUS
    <3> QED BY <2>1, <3>1, EntryTop DEF Levels
  <2>4. /\ Top.pc = "push" /\ currentLevel \in Nat /\ Level(stack) \in Nat
        /\ traceFlag \in SUBSET Flags /\ (traceFlag # {} => "TRUE" \in traceFlag)
    BY <2>1, TopFrame
  <2>5. PICK d \in Seq(Nat) : d = debugStack BY <2>1, TopFrame
  <2>6. recursionCount = Level(stack) BY DEF recursionCount, Frames, Level, Of
  <2>7. PICK e \in Seq(Nat) : e = debugStack' BY <2>1, <2>4, <2>5, <2>6
  <2>8. Top.arg = traceFlag /\ traceFlag # {} /\ "DEBUG_NEXT" \notin traceFlag
        /\ "IN_ENTRY" \in traceFlag BY <2>3, <2>4 DEF Asked
  <2>9. stack' = [stack EXCEPT ![Len(stack)] = Frame("entry", "leave", traceFlag)]
    BY <2>1, <2>8, AskGoto
  <2>10. Asked(Frame("entry", "leave", traceFlag), traceFlag) BY <2>8 DEF Asked, Frame
  <2>11. Levels(Level(stack), "leave" # "leave", traceFlag, e, currentLevel)
    <3>1. \A k \in 1..Len(d) : d[k] > 0 /\ d[k] < Level(stack) /\ d[k] <= Level(stack)
      BY <2>3, <2>5 DEF Levels
    <3>2. \A j, k \in 1..Len(d) : j < k => d[j] < d[k] BY <2>3, <2>5 DEF Levels
    <3>3. CASE e = d BY <2>8, <3>1, <3>2, <3>3 DEF Levels
    <3>4. CASE e = Append(d, Level(stack))
      <4>1. /\ Len(d) \in Nat /\ Len(e) = Len(d) + 1 /\ e[Len(d) + 1] = Level(stack)
            /\ \A k \in 1..Len(d) : e[k] = d[k] BY <2>4, <2>5, <3>4
      <4>2. \A k \in 1..Len(e) : k \in 1..Len(d) \/ k = Len(d) + 1 BY <4>1
      <4>3. Level(stack) > 0
        <5>1. Formed(stack) /\ Len(stack) > 0 BY <2>1, TopFrame
        <5>2. Len(stack) \in 1..Len(stack) /\ stack[Len(stack)].fn = "entry"
          BY <2>1, <5>1, TopFrame DEF Formed
        <5>3. stack[Len(stack) - 1].fn = "eval" /\ Len(stack) > 1 BY <5>1, <5>2 DEF Formed
        <5>4. Len(stack) - 1 \in DOMAIN stack BY <5>1, <5>3 DEF Formed
        <5>5. Of(stack, "eval") # {} BY <5>3, <5>4 DEF Of
        <5>6. IsFiniteSet(Of(stack, "eval")) BY <5>1, LevelNat
        <5>7. Cardinality(Of(stack, "eval")) # 0 BY <5>5, <5>6, FS_EmptySet
        <5> QED BY <2>4, <5>7 DEF Level
      <4>4. \A k \in 1..Len(e) : e[k] > 0 /\ e[k] <= Level(stack) BY <2>4, <3>1, <4>1, <4>2, <4>3
      <4>5. \A j, k \in 1..Len(e) : j < k => e[j] < e[k]
        <5>1. SUFFICES ASSUME NEW j \in 1..Len(e), NEW k \in 1..Len(e), j < k
              PROVE  e[j] < e[k] OBVIOUS
        <5>2. j \in 1..Len(d) BY <4>1, <4>2, <5>1
        <5>3. CASE k = Len(d) + 1 BY <3>1, <4>1, <5>2, <5>3
        <5>4. CASE k \in 1..Len(d) BY <3>2, <4>1, <5>1, <5>2, <5>4
        <5> QED BY <4>2, <5>3, <5>4
      <4> QED BY <2>8, <4>4, <4>5 DEF Levels
    <3> QED BY <2>1, <2>5, <2>6, <2>7, <3>3, <3>4
  <2>12. "TRUE" \in traceFlag /\ "leave" \in {"debug", "push", "leave"} BY <2>4, <2>8
  <2>13. Tracked([stack EXCEPT ![Len(stack)] = Frame("entry", "leave", traceFlag)],
                 traceFlag, e, currentLevel, TRUE) BY <2>1, <2>4, <2>10, <2>11, <2>12, AskGoes
  <2> QED BY <2>1, <2>2, <2>3, <2>7, <2>9, <2>13 DEF DebugInv
<1>9. CASE EntryLeave
  <2>1. /\ At("entry", "leave") /\ stack' = Below(1) /\ traceFlag' = Top.arg \ {"IN_ENTRY"}
        /\ UNCHANGED <<symHandler, timerEvent, armed, disposition, pending>>
        /\ UNCHANGED <<debugStack, allocated, currentLevel>>
    BY <1>9 DEF EntryLeave, osVars, debugVars
  <2>2. Calm' BY <1>1, <2>1, CalmKept
  <2>3. /\ Asked(Top, traceFlag) /\ allocated = TRUE
        /\ Levels(Level(stack), FALSE, traceFlag, debugStack, currentLevel)
    <3>1. ("leave" # "leave") = FALSE OBVIOUS
    <3> QED BY <2>1, <3>1, EntryTop DEF Levels
  <2>4. /\ Top.pc = "leave" /\ debugStack \in Seq(Nat) /\ currentLevel \in Nat
        /\ Level(stack) \in Nat /\ Len(stack) > 0 /\ Formed(stack)
        /\ stack[Len(stack)].fn = "entry"
        /\ traceFlag \in SUBSET Flags /\ (traceFlag # {} => "TRUE" \in traceFlag)
    BY <2>1, TopFrame
  <2>5. Top.arg = traceFlag BY <2>3, <2>4 DEF Asked
  <2>6. PICK g : g = traceFlag \ {"IN_ENTRY"} OBVIOUS
  <2>7. g \in SUBSET Flags /\ "IN_ENTRY" \notin g /\ (g # {} => "TRUE" \in g)
        /\ ("DEBUG_NEXT" \in g => "DEBUG_NEXT" \in traceFlag) BY <2>4, <2>6 DEF Flags
  <2>8. Levels(Level(stack), FALSE, g, debugStack, currentLevel) BY <2>3, <2>4, <2>7, LevelsStay
  <2>9. Tracked(SubSeq(stack, 1, Len(stack) - 1), g, debugStack, currentLevel, TRUE)
    BY <2>4, <2>7, <2>8, Leaves
  <2> QED BY <2>1, <2>2, <2>3, <2>5, <2>6, <2>9 DEF DebugInv, Below
<1> QED BY <1>3, <1>4, <1>5, <1>6, <1>7, <1>8, <1>9 DEF TraceEntry

----------------------------------------
\* The debugger's invariant holds at the start.
LEMMA InitDebug ==
  ASSUME SignalsInit, Undisturbed
  PROVE  DebugInv
<1>1. Sigs = {"INT", "ALRM"} BY DEF Undisturbed, Sigs
<1>2. Calm
  <2>1. /\ UserSigs = {} /\ symHandler = [s \in Sigs |-> s \in UserSigs]
        /\ disposition = [s \in Sigs |-> "handler"]
        /\ pending = {} /\ armed = FALSE /\ timerEvent = FALSE BY DEF SignalsInit, Undisturbed
  <2>2. ASSUME NEW s \in Sigs PROVE symHandler[s] = FALSE /\ disposition[s] = "handler"
    <3>1. symHandler[s] = (s \in UserSigs) /\ disposition[s] = "handler" BY <2>1
    <3>2. (s \in UserSigs) = FALSE BY <2>1
    <3> QED BY <3>1, <3>2
  <2> QED BY <2>1, <2>2 DEF Calm
<1>3. stack = <<>> /\ traceFlag = {} /\ debugStack = <<>> /\ currentLevel = 0 BY DEF SignalsInit
<1>4. Formed(<<>>) BY DEF Formed
<1>5. FlagsFit(<<>>, {}) BY DEF FlagsFit
<1> QED BY <1>2, <1>3, <1>4, <1>5 DEF DebugInv, Tracked

\* Every step keeps it.
LEMMA StepDebug ==
  ASSUME DebugInv, Undisturbed, [SignalsNext]_signalVars
  PROVE  DebugInv'
<1>1. CASE SignalsNext BY <1>1, KernelDebug, LoopDebug, EntryDebug, OperationDebug, ExitDebug
     DEF SignalsNext, Kernel, Evaluate
<1>2. CASE UNCHANGED signalVars
  <2>1. UNCHANGED <<symHandler, timerEvent, armed, pending, disposition, stack, traceFlag,
                    debugStack, currentLevel, allocated>> BY <1>2 DEF signalVars
  <2> QED BY <2>1, StackUntouched
<1> QED BY <1>1, <1>2

\* What it says: the debug stack has memory when it is read, and names running calls.
LEMMA DebugExact ==
  ASSUME DebugInv
  PROVE  DebugStackExact
<1>1. DebugStackAllocated
  <2>1. SUFFICES ASSUME At("eval", "exit"), ~Untraced PROVE allocated BY DEF DebugStackAllocated
  <2>2. traceFlag # {} BY <2>1 DEF Untraced
  <2> QED BY <2>1, <2>2, EvalTop
<1>2. DebugStackLive
  <2>1. SUFFICES ASSUME traceFlag # {}, NEW i \in DOMAIN debugStack
        PROVE  /\ debugStack[i] <= recursionCount
               /\ i > 1 => debugStack[i - 1] < debugStack[i] BY DEF DebugStackLive
  <2>2. /\ debugStack \in Seq(Nat)
        /\ Levels(Level(stack), Fresh(stack), traceFlag, debugStack, currentLevel)
    BY <2>1 DEF DebugInv, Tracked
  <2>3. recursionCount = Level(stack) BY DEF recursionCount, Frames, Level, Of
  <2>4. i \in 1..Len(debugStack) /\ Len(debugStack) \in Nat BY <2>1, <2>2
  <2>5. i > 1 => i - 1 \in 1..Len(debugStack) /\ i - 1 < i BY <2>4
  <2> QED BY <2>2, <2>3, <2>4, <2>5 DEF Levels
<1> QED BY <1>1, <1>2 DEF DebugStackExact

(* The debug stack has its memory whenever traceExit reads it, and what is *)
(* on it are the levels of calls that still run, each deeper than the one *)
(* before (nl-debug.c:231, :276), whatever is called, caught, fails or is *)
(* traced, for any depth, with Ctrl-C and the debugger's answers at any *)
(* moment, until an empty stack is popped (DebugUnderrun). *)
THEOREM DebugStackKept ==
  ASSUME Undisturbed
  PROVE  SignalsSpec => []DebugStackExact
<1>1. SignalsInit => DebugInv BY InitDebug
<1>2. DebugInv /\ [SignalsNext]_signalVars => DebugInv' BY StepDebug
<1>3. DebugInv => DebugStackExact BY DebugExact
<1> QED BY <1>1, <1>2, <1>3, PTL DEF SignalsSpec
=============================================================================
