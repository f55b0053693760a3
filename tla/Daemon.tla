-------------------------------- MODULE Daemon --------------------------------
(***************************************************************************)
(* The program's own loop when it serves connections (newlisp.c: main,      *)
(* executeCommandLine, setupServer; nl-sock.c: serverFD).  A line is read   *)
(* from the connection and evaluated, or taken as an HTTP request, or       *)
(* begins a block of lines that is evaluated as a whole when its end comes, *)
(* as net-eval sends it.  In daemon mode the next connection is accepted    *)
(* when one has ended; else the program ends.                               *)
(***************************************************************************)
EXTENDS Integers, Sequences, FiniteSets, SequencesExt

CONSTANTS Lines,          \* what a line may be: "expr", "error", "exit", "http", "cmd", "endcmd", "empty"
          MaxConnections,
          MaxLines        \* of all connections

VARIABLES daemonMode, httpMode, connectionTimeout,
          connection,     \* the number of the connection that is served
          IOchannel,      \* "open" or "NULL"
          block,          \* the lines of a block that has begun, or none
          running,        \* FALSE when the program has ended
          received,       \* connection -> the lines that were read
          evaluated       \* what was evaluated or served, by connection, in order

dmvars == <<daemonMode, httpMode, connectionTimeout, connection, IOchannel, block, running, received, evaluated>>

NoBlock == <<"none">>
Conns == 1..MaxConnections

\* The options -d, -p, -http and -t.  setupServer waits for the first connection
\* before the other arguments are looked at.
Init == /\ daemonMode \in BOOLEAN /\ httpMode \in BOOLEAN /\ connectionTimeout \in BOOLEAN
        /\ connection = 1 /\ IOchannel = "open" /\ block = NoBlock /\ running = TRUE
        /\ received = [c \in Conns |-> <<>>] /\ evaluated = [c \in Conns |-> <<>>]

options == <<daemonMode, httpMode, connectionTimeout>>

\* A connection ends: serverFD deletes its session and accepts the next one, or
\* the program ends, as it does when nothing can be accepted.
setupServer ==
  /\ IF connection < MaxConnections
       THEN connection' = connection + 1 /\ IOchannel' = "open" /\ UNCHANGED running
       ELSE UNCHANGED connection /\ IOchannel' = "NULL" /\ running' = FALSE
  /\ block' = NoBlock
EndConnection ==
  IF daemonMode THEN setupServer
  ELSE running' = FALSE /\ IOchannel' = "NULL" /\ block' = NoBlock /\ UNCHANGED connection

\* The connection was closed by what was evaluated; the loop ends it.
NextConnection ==
  /\ running /\ IOchannel = "NULL" /\ EndConnection /\ UNCHANGED <<options, received, evaluated>>
EndOfInput ==
  /\ running /\ IOchannel = "open" /\ EndConnection /\ UNCHANGED <<options, received, evaluated>>
\* Nothing came in time.  Inside a block the loop reads without a timeout.
TimedOut ==
  /\ running /\ IOchannel = "open" /\ daemonMode /\ connectionTimeout /\ block = NoBlock
  /\ setupServer /\ UNCHANGED <<options, received, evaluated>>

\* What evaluating some lines does: an error leaves the rest, and the connection
\* stays; exit closes it, and the process ends when it is no daemon.
RECURSIVE Upto(_)
Upto(lines) == IF lines = <<>> THEN <<>>
               ELSE IF Head(lines) \in {"error", "exit"} THEN <<Head(lines)>>
               ELSE <<Head(lines)>> \o Upto(Tail(lines))
Evaluate(lines) ==
  /\ evaluated' = [evaluated EXCEPT ![connection] = @ \o Upto(lines)]
  /\ IF lines # <<>> /\ Last(Upto(lines)) = "exit"
       THEN IOchannel' = "NULL" /\ running' = daemonMode
       ELSE UNCHANGED <<IOchannel, running>>
  /\ UNCHANGED connection

Skip == UNCHANGED <<connection, IOchannel, running, evaluated>>

\* Mutant: an HTTP server evaluates what is no request.
ExecuteAnything(line) ==
  /\ line \notin {"http", "cmd"} /\ block = NoBlock
  /\ Evaluate(<<line>>) /\ UNCHANGED block
\* executeCommandLine with a line outside a block.
ExecuteLine(line) ==
  /\ line \notin {"http", "cmd"} /\ block = NoBlock
  /\ IF line = "empty" \/ httpMode THEN Skip ELSE Evaluate(<<line>>)
  /\ UNCHANGED block
\* A request is served in every mode, and its answer closes the connection.
ExecuteRequest(line) ==
  /\ line = "http" /\ block = NoBlock
  /\ evaluated' = [evaluated EXCEPT ![connection] = Append(@, "http")]
  /\ IOchannel' = "NULL" /\ UNCHANGED <<connection, running, block>>
\* A block begins; an HTTP server takes none and ends the connection.
BeginBlock(line) ==
  /\ line = "cmd" /\ block = NoBlock
  /\ IF httpMode THEN EndConnection ELSE block' = <<>> /\ UNCHANGED <<connection, IOchannel, running>>
  /\ UNCHANGED evaluated
\* Mutant: the block is not forgotten when it has been evaluated.
AddToBlockKept(line) ==
  /\ block # NoBlock
  /\ IF line = "endcmd" THEN Evaluate(block) /\ UNCHANGED block
     ELSE block' = Append(block, line) /\ Skip
\* Every line of a block is kept, whatever it is, until the end comes.
AddToBlock(line) ==
  /\ block # NoBlock
  /\ IF line = "endcmd" THEN Evaluate(SelectSeq(block, LAMBDA l : l # "empty")) /\ block' = NoBlock
     ELSE block' = Append(block, line) /\ Skip

ReadLine(line) ==
  /\ running /\ IOchannel = "open" /\ Len(FlattenSeq(received)) < MaxLines
  /\ received' = [received EXCEPT ![connection] = Append(@, line)]
  /\ ExecuteLine(line) \/ ExecuteRequest(line) \/ BeginBlock(line) \/ AddToBlock(line)
  /\ UNCHANGED options

Next == NextConnection \/ EndOfInput \/ TimedOut \/ \E line \in Lines : ReadLine(line)
----------------------------------------
(* Properties. *)

\* What a connection should have caused: scan its lines.  A request ends it; a
\* block counts when it has ended; an HTTP server does nothing but requests.
RECURSIVE Scan(_, _, _)
Scan(lines, inBlock, done) ==
  IF lines = <<>> THEN done
  ELSE LET l == Head(lines) IN
    IF inBlock # NoBlock
      THEN IF l = "endcmd" THEN Scan(Tail(lines), NoBlock, done \o Upto(inBlock))
           ELSE Scan(Tail(lines), IF l = "empty" THEN inBlock ELSE Append(inBlock, l), done)
    ELSE IF l = "cmd" THEN IF httpMode THEN done ELSE Scan(Tail(lines), <<>>, done)
    ELSE IF l = "http" THEN Append(done, l)
    ELSE IF httpMode \/ l = "empty" THEN Scan(Tail(lines), NoBlock, done)
    ELSE Scan(Tail(lines), NoBlock, Append(done, l))

\* Each connection causes what its own lines ask for, once and in order; nothing
\* is read after a connection was closed, and a daemon does not end while there
\* is a connection to accept.
ConnectionsExact ==
  /\ \A c \in Conns : evaluated[c] = Scan(received[c], NoBlock, <<>>)
  /\ \A c \in Conns : c > connection => received[c] = <<>>
  /\ daemonMode /\ connection < MaxConnections => running
=============================================================================
