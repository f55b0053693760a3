------------------------------- MODULE NetEval -------------------------------
(***************************************************************************)
(* net-eval (nl-sock.c): programs are sent to several nodes, whose answers  *)
(* are collected by one loop as they come in, in pieces and in any order.   *)
(*                                                                          *)
(* A node behaves as it is given: "value" prints the value and closes;      *)
(* "error" prints an error message, which begins with a mark, and keeps the *)
(* connection; "late" prints something before its error message; "dies"     *)
(* closes in the middle of the value; "breaks" resets the connection there; *)
(* "silent" says nothing; "refused" takes no connection, "unsent" takes no  *)
(* program, the parameters of "bad" are wrong, and "atom" is no list.  Time *)
(* is the number of milliseconds that waiting has taken, bounded by the     *)
(* timeout.                                                                 *)
(***************************************************************************)
EXTENDS Integers, Sequences, FiniteSets, SequencesExt

CONSTANTS N, Nodes, TimeOut, Modes,
          Locals    \* the nodes that are reached by a local socket

VARIABLES nodes,    \* what each node does
          mode,     \* raw, a handler, or neither
          at,       \* "create", "poll", "done", "error", or "left": an error that frees nothing
          i,        \* the session that is looked at
          results,   \* session -> its result
          buffer,   \* session -> what has come in
          open,     \* the sessions with a netStream
          entries,  \* session -> how often its socket is in ioSessions
          elapsed,
          coming,   \* node -> what it has still to send
          handled   \* the results the handler was called with

netEvalVars == <<nodes, mode, at, i, results, buffer, open, entries, elapsed, coming, handled>>

Value == <<"v1", "v2">>
Mark == <<"m1", "m2">>
Prints == [value |-> Value, error |-> Mark, late |-> <<"v1">> \o Mark, dies |-> <<"v1">>, breaks |-> <<"v1">>,
           silent |-> <<>>, refused |-> <<>>, unsent |-> <<>>, bad |-> <<>>, atom |-> <<>>]
Closes == {"value", "dies"}

NetEvalAssumption ==
  /\ N \in Nat \ {0} /\ TimeOut \in Nat /\ Locals \subseteq 1..N
  /\ Nodes \subseteq DOMAIN Prints /\ Modes \subseteq {"raw", "handler", "plain"}

NoResult == <<"none">>
Nil == <<"nil">>

NetEvalInit == /\ nodes \in [1..N -> Nodes] /\ mode \in Modes
               /\ at = "create" /\ i = 1
               /\ results = [n \in 1..N |-> NoResult] /\ buffer = [n \in 1..N |-> <<>>]
               /\ open = {} /\ entries = [n \in 1..N |-> 0] /\ elapsed = 0
               /\ coming = [n \in 1..N |-> <<>>] /\ handled = <<>>

count == Cardinality(open)
----------------------------------------
(* Connecting to the nodes, one after the other. *)

\* Mutant: only the session that is looked at is freed.
FreeOne == open' = open \ {i} /\ entries' = [n \in 1..N |-> IF n = i /\ n \in open THEN entries[n] - 1 ELSE entries[n]]
\* freeSessions closes the socket of every session that has a stream.
freeSessions == open' = {} /\ entries' = [n \in 1..N |-> IF n \in open THEN entries[n] - 1 ELSE entries[n]]

Fail == freeSessions /\ at' = "error" /\ UNCHANGED <<nodes, mode, i, results, buffer, elapsed, coming, handled>>

\* After the last node the timeout is looked at: if it is not a number, the error
\* leaves all sessions open.  The loop begins with the first node; without a
\* session to wait for it does not begin.
Created ==
  /\ IF i < N THEN i' = i + 1 /\ UNCHANGED at
     ELSE i' = 1 /\ at' \in {IF open' = {} THEN "done" ELSE "poll", "left"}
  /\ UNCHANGED <<nodes, mode, buffer, elapsed, handled>>

\* A node whose parameters are wrong ends it all; so does one that is not a list, but
\* before the setjmp, so that the sessions of the nodes before it stay open.
BadParameters ==
  /\ at = "create"
  /\ \/ nodes[i] = "bad" /\ Fail
     \/ /\ nodes[i] = "atom" /\ at' = "left"
        /\ UNCHANGED <<nodes, mode, i, results, buffer, open, entries, elapsed, coming, handled>>

\* The error of a node that cannot be reached, or not written to, is its result;
\* a local socket that cannot be written to is closed and stays in ioSessions.
Unreached ==
  /\ at = "create" /\ nodes[i] \in {"refused", "unsent"}
  /\ results' = [results EXCEPT ![i] = <<nodes[i]>>]
  /\ entries' = [entries EXCEPT ![i] = IF nodes[i] = "unsent" /\ i \in Locals THEN 1 ELSE 0]
  /\ UNCHANGED <<open, coming>> /\ Created

\* netConnectLocal enters its socket in ioSessions, and net-eval enters it again.
Connected ==
  /\ at = "create" /\ nodes[i] \in {"value", "error", "late", "dies", "breaks", "silent"}
  /\ open' = open \cup {i} /\ entries' = [entries EXCEPT ![i] = IF i \in Locals THEN 2 ELSE 1]
  /\ coming' = [coming EXCEPT ![i] = Prints[nodes[i]]]
  /\ UNCHANGED results /\ Created
----------------------------------------
(* Collecting the answers. *)

Following == IF i < N THEN i + 1 ELSE 1

\* A session that has its result is passed over.
PassOver == /\ at = "poll" /\ i \notin open /\ i' = Following
            /\ UNCHANGED <<nodes, mode, at, results, buffer, open, entries, elapsed, coming, handled>>

\* A piece that begins with the mark is an error message; a mark that is cut in
\* two, or stands behind something else, is not found.
Marked(piece) == IsPrefix(Mark, piece)

\* What the source that came in reads as: the last of its expressions.
Complete(text) == text # <<"v1">>
ReadAs(text) == IF text = <<>> THEN Nil ELSE text

\* Mutant: the time of the session that is looked at is not asked for first.
OutcomeLate(text, error) == IF mode = "raw" \/ error THEN text ELSE IF elapsed >= TimeOut /\ text = <<>> THEN Nil ELSE ReadAs(text)
\* The result of a session that has ended: nil when the time is over, whatever
\* came in, else the text, or what it reads as.
Outcome(text, error) == IF elapsed >= TimeOut THEN Nil ELSE IF mode = "raw" \/ error THEN text ELSE ReadAs(text)

\* Mutant: the stream is kept.
EndSessionKept(text, error) ==
  /\ entries' = [entries EXCEPT ![i] = @ - 1] /\ results' = [results EXCEPT ![i] = Outcome(text, error)]
  /\ i' = Following /\ UNCHANGED <<nodes, mode, at, open, handled>>
\* The session's socket is closed, and the handler is called with the result.
EndSession(text, error) ==
  /\ open' = open \ {i} /\ entries' = [entries EXCEPT ![i] = @ - 1]
  /\ results' = [results EXCEPT ![i] = Outcome(text, error)]
  /\ handled' = IF mode = "handler" THEN Append(handled, i) ELSE handled
  /\ at' = IF open = {i} THEN "done" ELSE "poll"
  /\ i' = Following /\ UNCHANGED <<nodes, mode>>

\* Source that does not read ends it all, if its time is not over.
Unread(text, error) == mode # "raw" /\ ~error /\ elapsed < TimeOut /\ ~Complete(text)

Ended(text, error) ==
  /\ buffer' = [buffer EXCEPT ![i] = text]
  /\ IF Unread(text, error)
       THEN freeSessions /\ at' = "error" /\ UNCHANGED <<nodes, mode, i, results, handled>>
       ELSE EndSession(text, error)

\* One visit to a session: what recv() brings, if anything.
Visit == at = "poll" /\ i \in open
PieceComes(k) ==
  /\ Visit /\ k \in 1..Len(coming[i])
  /\ coming' = [coming EXCEPT ![i] = SubSeq(@, k + 1, Len(@))]
  /\ LET piece == SubSeq(coming[i], 1, k)
         text == buffer[i] \o piece IN
       IF Marked(piece) \/ elapsed >= TimeOut THEN Ended(text, Marked(piece))
       ELSE /\ buffer' = [buffer EXCEPT ![i] = text] /\ i' = Following
            /\ UNCHANGED <<nodes, mode, at, results, open, entries, handled>>
  /\ UNCHANGED elapsed
\* The connection is closed, or an error is met, which counts as a close.
Closed ==
  /\ Visit /\ coming[i] = <<>> /\ nodes[i] \in Closes \cup {"breaks"}
  /\ Ended(buffer[i], FALSE) /\ UNCHANGED <<elapsed, coming>>
\* Nothing has come within the tenth of a millisecond.
Nothing ==
  /\ Visit /\ IF elapsed >= TimeOut THEN Ended(buffer[i], FALSE)
              ELSE i' = Following /\ UNCHANGED <<nodes, mode, at, results, buffer, open, entries, handled>>
  /\ UNCHANGED <<elapsed, coming>>
\* The clock is read before and after: what a visit took is added for all.
TimePasses ==
  /\ at = "poll" /\ elapsed < TimeOut /\ elapsed' = elapsed + 1
  /\ UNCHANGED <<nodes, mode, at, i, results, buffer, open, entries, coming, handled>>

\* The handler fails, while the loop waits or with a result.
HandlerFails == Visit /\ mode = "handler" /\ Fail

Poll == PassOver \/ Closed \/ Nothing \/ \E k \in 1..3 : PieceComes(k)
Create == BadParameters \/ Unreached \/ Connected
NetEvalNext == Create \/ Poll \/ TimePasses \/ HandlerFails
\* The loop goes on, and time with it.
NetEvalStep == Create \/ Poll
NetEvalSpec == NetEvalInit /\ [][NetEvalNext]_netEvalVars /\ WF_netEvalVars(NetEvalStep) /\ WF_netEvalVars(TimePasses)
----------------------------------------
(* Properties. *)

\* Each node's result is its own and in its place: the whole value, or nil when
\* the time was over, an error message and what was printed before it, or what
\* the connection met.
Expected(n) ==
  CASE nodes[n] \in {"refused", "unsent"} -> {<<nodes[n]>>}
    [] nodes[n] = "value" -> {Value}
    [] nodes[n] \in {"error", "late"} -> {Prints[nodes[n]]}
    [] nodes[n] \in {"dies", "breaks"} -> IF mode = "raw" THEN {<<"v1">>} ELSE {}
    [] OTHER -> {}
ResultsExact ==
  at = "done" => \A n \in 1..N :
    results[n] \in Expected(n) \cup (IF elapsed >= TimeOut /\ nodes[n] \notin {"refused", "unsent"} THEN {Nil} ELSE {})

\* No socket outlives the call, and the loop waits for those that are open.  Of a
\* local socket's two entries one stays.  Two errors leave sockets, those of a node that
\* is not a list (nl-sock.c:1621) and of the timeout (:1697), and no other does.
SocketsReleased ==
  /\ at \in {"done", "error"} => open = {}
  /\ at = "left" => i = 1 \/ nodes[i] = "atom"
  /\ at = "poll" => open # {}
  /\ \A n \in 1..N : IF n \in open THEN entries[n] = (IF n \in Locals THEN 2 ELSE 1)
                     ELSE entries[n] \in {0} \cup {1 : l \in Locals \cap {n}}

\* A handler is called once with the result of every node that was reached.
HandledOnce ==
  at = "done" /\ mode = "handler" =>
    /\ IsInjective(handled)
    /\ ToSet(handled) = {n \in 1..N : nodes[n] \notin {"refused", "unsent"}}

ChannelsExact == ResultsExact /\ SocketsReleased /\ HandledOnce
=============================================================================
