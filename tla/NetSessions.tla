----------------------------- MODULE NetSessions -----------------------------
(***************************************************************************)
(* Descriptors and the list of sessions.  Every function that opens a file, *)
(* a pipe or a socket enters it in ioSessions, and close, net-close and the *)
(* functions that meet an error take it out again (nl-sock.c, nl-filesys.c).*)
(* The list is keyed by the number alone, and the kernel gives numbers      *)
(* away again.                                                              *)
(*                                                                          *)
(* An object is what a descriptor stands for; objects are numbered in the   *)
(* order they are made, and the numbers are not known to the program.  held *)
(* is what the program was given under a number and has not closed, kept by *)
(* the specification alone; lost and stale count what failing functions     *)
(* leave behind.                                                            *)
(***************************************************************************)
EXTENDS Integers, Sequences, FiniteSets, SequencesExt

CONSTANTS Fds,          \* the numbers of descriptors, smallest first
          MaxObjects    \* how many objects are made in a behaviour

VARIABLES kernel,       \* descriptor -> the object it stands for, 0 if closed
          kind,         \* object -> what it is
          sessions,     \* ioSessions, the newest first
          netErrorIdx,  \* whether the last function left an error number
          held, lost, stale

nsvars == <<kernel, kind, sessions, netErrorIdx, held, lost, stale>>

Free == {f \in Fds : kernel[f] = 0}
\* The kernel gives away the smallest number.
Lowest == CHOOSE f \in Free : \A g \in Free : f <= g
New == Len(kind) + 1
MayOpen == Free # {} /\ Len(kind) < MaxObjects

Entry(f, o, family, stream) == [handle |-> f, object |-> o, family |-> family, stream |-> stream]
\* createIOsession puts the entry at the head.
createIOsession(s, f, o, family, stream) == <<Entry(f, o, family, stream)>> \o s

Entries(s, f) == {i \in DOMAIN s : s[i].handle = f}
First(s, f) == CHOOSE i \in Entries(s, f) : \A j \in Entries(s, f) : i <= j
isSessionSocket(s, f) == Entries(s, f) # {}
getSocketFamily(s, f) == IF isSessionSocket(s, f) THEN s[First(s, f)].family ELSE "none"

\* Mutant: an entry that is not at the head takes those before it along.
CutSession(s, f) == IF isSessionSocket(s, f) THEN SubSeq(s, First(s, f) + 1, Len(s)) ELSE s
\* The list without the first entry of f.
RemoveSession(s, f) == IF isSessionSocket(s, f) THEN RemoveAt(s, First(s, f)) ELSE s

\* Mutant: the descriptor of the stream is not closed.
ShutPlain(k, s, f) == IF isSessionSocket(s, f) /\ s[First(s, f)].stream = 0 THEN [k EXCEPT ![f] = 0] ELSE k
\* The descriptors after the first entry of f is deleted: fclose() closes that
\* of the stream, and close() is called when there is no stream.
Shut(k, s, f) ==
  IF ~isSessionSocket(s, f) THEN k
  ELSE LET stream == s[First(s, f)].stream IN [k EXCEPT ![IF stream # 0 THEN stream ELSE f] = 0]
----------------------------------------
Init == /\ kernel = [f \in Fds |-> 0] /\ kind = <<>> /\ sessions = <<>> /\ netErrorIdx = FALSE
        /\ held = [f \in Fds |-> 0] /\ lost = {} /\ stale = {}

\* How a call ends, for the program: with an error number, or well.
Answer(e) == netErrorIdx' = (e # 0)
Fails(e) == Answer(e) /\ UNCHANGED <<kernel, kind, sessions, held, lost, stale>>

\* A new descriptor that is registered and given to the program.
Opened(what, family, stream) ==
  /\ MayOpen /\ kind' = Append(kind, what)
  /\ kernel' = [kernel EXCEPT ![Lowest] = New]
  /\ held' = [held EXCEPT ![Lowest] = New]
  /\ sessions' = createIOsession(sessions, Lowest, New, family, IF stream THEN Lowest ELSE 0)
  /\ UNCHANGED <<lost, stale>>

\* A socket that is made and closed again in the same call.
Attempt(e) == MayOpen /\ Fails(e)

\* A socket that is made and forgotten: the function returns without close().
Forgotten(what) ==
  /\ MayOpen /\ kind' = Append(kind, what)
  /\ kernel' = [kernel EXCEPT ![Lowest] = New] /\ lost' = lost \cup {New}
  /\ UNCHANGED <<sessions, held, stale>>

\* The entry of f is deleted; what the program had under the number is closed.
deleteIOsession(f) ==
  /\ sessions' = RemoveSession(sessions, f)
  /\ kernel' = Shut(kernel, sessions, f)
  /\ held' = [held EXCEPT ![f] = IF isSessionSocket(sessions, f) THEN 0 ELSE @]
  /\ stale' = IF isSessionSocket(sessions, f) THEN stale \ {sessions[First(sessions, f)].object} ELSE stale
  /\ UNCHANGED <<kind, lost>>

\* The numbers a program uses: those it was given, and of those it has closed.
\* A number under which a failing function has left something is not among them.
Usable(f) == kernel[f] \notin lost /\ (kernel[f] # 0 => held[f] = kernel[f])
What(f) == IF kernel[f] = 0 THEN "none" ELSE kind[kernel[f]]
----------------------------------------
(* Files and pipes (nl-filesys.c).  They leave the network's error alone. *)

Open == Opened("file", "unspec", TRUE) /\ UNCHANGED netErrorIdx

\* Both ends of a pipe are entered.  The stream of the second is asked for with
\* the number of the first, which is open for reading only: fdopen() refuses
\* and the entry has no stream.
Pipe ==
  /\ Cardinality(Free) > 1 /\ Len(kind) + 1 < MaxObjects
  /\ LET f == Lowest
         g == CHOOSE h \in Free \ {f} : \A i \in Free \ {f} : h <= i IN
       /\ kernel' = [kernel EXCEPT ![f] = New, ![g] = New + 1]
       /\ held' = [held EXCEPT ![f] = New, ![g] = New + 1]
       /\ sessions' = createIOsession(createIOsession(sessions, f, New, "unspec", f), g, New + 1, "unspec", 0)
  /\ kind' = kind \o <<"pipe", "pipe">>
  /\ UNCHANGED <<netErrorIdx, lost, stale>>

\* close and net-close differ in what they tell only.
Close(f) == Usable(f) /\ deleteIOsession(f) /\ UNCHANGED netErrorIdx
NetClose(f) ==
  /\ Usable(f) /\ deleteIOsession(f)
  /\ Answer(IF isSessionSocket(sessions, f) THEN 0 ELSE 16)
----------------------------------------
(* Making sockets. *)

Families == {"inet", "unix"}

\* netConnect and netConnectLocal: no descriptor left, the descriptor cannot be
\* set to non-blocking, the name is unknown, the connection is refused or too
\* late.  The second and third return without closing.
NetConnect(family) ==
  \/ Free = {} /\ Fails(1)
  \/ family = "inet" /\ Forgotten("stream") /\ \E e \in {2, 17} : Answer(e)
  \/ \E e \in {4, 18} : Attempt(e)
  \/ Opened("stream", family, FALSE) /\ Answer(0)

\* A datagram socket with no address is not connected.
NetConnectUdp == Opened("dgram", "inet", FALSE) /\ Answer(0)

\* netListenOrDatagram: an interface that is not known leaves the socket and
\* tells no error; bind and listen close it.
\* Mutant: the listening socket is not entered.
NetListenUnlisted(family, what) ==
  /\ MayOpen /\ kind' = Append(kind, what) /\ Answer(0)
  /\ kernel' = [kernel EXCEPT ![Lowest] = New] /\ held' = [held EXCEPT ![Lowest] = New]
  /\ UNCHANGED <<sessions, lost, stale>>
NetListen(family, what) ==
  \/ Free = {} /\ Fails(IF family = "unix" THEN 10 ELSE 1)
  \/ /\ family = "inet" /\ Forgotten(what) /\ UNCHANGED netErrorIdx
  \/ \E e \in {10, 12} : (e = 12 => what = "listen") /\ Attempt(e)
  \/ Opened(what, family, FALSE) /\ Answer(0)

\* netAccept gives the new entry the family of the listening one.
NetAccept(f) ==
  /\ Usable(f)
  /\ \/ Fails(5)
     \/ /\ What(f) = "listen" /\ Opened("stream", getSocketFamily(sessions, f), FALSE)
        /\ Answer(0)
----------------------------------------
(* Using them.  A connection that breaks is closed and forgotten. *)

\* netReceive with no string to wait for: what came, the end, or an error.
NetReceive(f) ==
  /\ Usable(f)
  /\ \/ What(f) = "stream" /\ Fails(0)
     \/ \E e \in {6, 8} : (What(f) # "stream" => e = 8) /\ deleteIOsession(f) /\ Answer(e)

\* With one: an error and the end of the input look alike, and so does an input
\* that is as long as asked for and does not hold the string.
NetReceiveUntil(f) ==
  /\ Usable(f)
  /\ \/ What(f) = "stream" /\ Fails(0)
     \/ deleteIOsession(f) /\ Answer(6)

\* net-receive-from and net-send-to do not ask whether the number is listed.
NetReceiveFrom(f) ==
  /\ Usable(f)
  /\ \/ What(f) \in {"dgram", "stream"} /\ Fails(0)
     \/ What(f) # "dgram" /\ deleteIOsession(f) /\ Answer(8)
NetSend(f) ==
  /\ Usable(f)
  /\ \/ What(f) \in {"stream", "dgram"} /\ Fails(0)
     \/ deleteIOsession(f) /\ Answer(9)
NetSendTo(f) ==
  /\ Usable(f)
  /\ \/ Fails(2)
     \/ What(f) \in {"dgram", "stream"} /\ Fails(0)
     \/ Fails(9)
NetPeek(f) == Usable(f) /\ Fails(IF What(f) \in {"none", "file"} THEN 15 ELSE 0)

\* A socket of its own for one datagram: net-send-udp and net-receive-udp.
NetSendUdp == (Free = {} /\ Fails(1)) \/ \E e \in {0, 2, 9} : (e = 2 \/ MayOpen) /\ Fails(e)

\* net-receive-udp enters its socket and takes it out when a datagram or an
\* error came.  When the time is over it closes the socket and leaves the entry.
NetReceiveUdp ==
  \/ Free = {} /\ Fails(1)
  \/ \E e \in {0, 8, 10} : Attempt(e)
  \/ Forgotten("dgram") /\ UNCHANGED netErrorIdx
  \/ /\ MayOpen /\ kind' = Append(kind, "dgram")
     /\ sessions' = createIOsession(sessions, Lowest, New, "inet", 0)
     /\ stale' = stale \cup {New} /\ Answer(18) /\ UNCHANGED <<kernel, held, lost>>

\* net-select asks the kernel: ready or not, or a number that is not open.
NetSelect(fs) ==
  /\ \A f \in fs : Usable(f)
  /\ Fails(IF \E f \in fs : kernel[f] = 0 THEN 14 ELSE 0)

\* net-sessions lists the sockets, and with a flag the files too.
Listed(all) == SelectSeq(sessions, LAMBDA e : all \/ e.family # "unspec")

Next ==
  \/ Open \/ Pipe \/ NetConnectUdp \/ NetSendUdp \/ NetReceiveUdp
  \/ \E family \in Families : NetConnect(family) \/ NetListen(family, "listen")
  \/ NetListen("inet", "dgram")
  \/ \E f \in Fds :
       \/ Close(f) \/ NetClose(f) \/ NetAccept(f) \/ NetReceive(f) \/ NetReceiveUntil(f)
       \/ NetReceiveFrom(f) \/ NetSend(f) \/ NetSendTo(f) \/ NetPeek(f)
  \/ \E fs \in SUBSET Fds : fs # {} /\ NetSelect(fs)
----------------------------------------
(* Properties. *)

\* What the program was given and has not closed is open, listed, and the first
\* entry of its number, so that close finds it; nothing else is open but what
\* failing functions have forgotten; and an entry for something that is no
\* longer open was left by net-receive-udp.
SessionsExact ==
  /\ \A f \in Fds : held[f] # 0 =>
       /\ kernel[f] = held[f] /\ isSessionSocket(sessions, f)
       /\ sessions[First(sessions, f)].object = held[f]
  /\ \A f \in Fds : kernel[f] \in {0, held[f]} \cup lost
  /\ \A i \in DOMAIN sessions :
       sessions[i].object \in stale \/ held[sessions[i].handle] = sessions[i].object
  /\ \A i, j \in DOMAIN sessions : sessions[i].object = sessions[j].object => i = j

\* The list that net-sessions returns names no closed socket but the stale ones,
\* and every socket the program holds.
ListedExact ==
  {Listed(FALSE)[i].object : i \in DOMAIN Listed(FALSE)} \ stale
    = {held[f] : f \in {g \in Fds : held[g] # 0 /\ kind[held[g]] \notin {"file", "pipe"}}}

=============================================================================
