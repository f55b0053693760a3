------------------------------ MODULE Messages ------------------------------
(***************************************************************************)
(* Messages between a newLISP process and the children it has spawned      *)
(* (p_send, p_receive, readWriteSocket and getSelectReadyList of           *)
(* nl-filesys.c).  Every child has a pair of sockets with the parent.  A   *)
(* message is a length word and then its text, written by two send calls   *)
(* and read by recv calls, in pieces, while the other process does         *)
(* anything it may, ending included.                                       *)
(***************************************************************************)
EXTENDS Integers, Sequences, FiniteSets

CONSTANTS
  Children,  \* the children spawned, as numbers from 1
  Fds,       \* the descriptors the kernel may give to the parent's sockets
  Sizes,     \* lengths of texts, in pieces
  Capacity,  \* of a socket, in pieces
  MaxSent,   \* bound: messages sent from one end
  Events     \* a subset of {"crash", "forkfail"}

MessagesAssumption ==
  /\ Children \subseteq Nat \ {0} /\ Sizes \subseteq Nat \ {0}
  /\ 0 \notin Fds /\ Capacity \in Nat \ {0} /\ MaxSent \in Nat
  /\ Events \subseteq {"crash", "forkfail"}

Parent == 0
Processes == Children \cup {Parent}
Ports == Children \X {"parent", "child"}
User(q) == IF q[2] = "parent" THEN Parent ELSE q[1]
Peer(q) == <<q[1], IF q[2] = "parent" THEN "child" ELSE "parent">>

\* A piece of the n-th message of a port: its length word (part 0) or text.
Piece(n, k, s) == [msg |-> n, part |-> k, size |-> s]
Text(n, s) == [k \in 1..s |-> Piece(n, k, s)]
Pieces == [msg : 1..MaxSent, part : Nat, size : Sizes]

VARIABLES
  stream,   \* stream[q]: what can be read at port q
  isOpen,   \* isOpen[q]: the socket at port q is open
  op,       \* op[p]: what process p is doing in readWriteSocket
  state,    \* state[c]: the life of child c
  listed,   \* the children in mySpawnList
  fd,       \* fd[c]: descriptor of the parent's socket of child c
  fdSet,    \* myFdSet
  sent,     \* sent[q]: how many messages have been begun at port q
  received  \* history: received[q], the texts read at port q

sockets == <<stream, isOpen>>
children == <<state, listed, fd, fdSet>>
history == <<sent, received>>
messageVars == <<sockets, op, children, history>>

Idle == [at |-> "idle", port |-> <<>>, size |-> 0, text |-> <<>>]
Doing(what, q, s) == [at |-> what, port |-> q, size |-> s, text |-> <<>>]

\* Types; a send or receive under way has its socket open (readWriteSocket uses the
\* descriptor it looked up before), and what a closed socket held is gone.
ChannelsTyped ==
  /\ stream \in [Ports -> Seq(Pieces)]
  /\ isOpen \in [Ports -> BOOLEAN]
  /\ op \in [Processes -> [at : {"idle", "evaluate", "write", "read"}, port : Ports \cup {<<>>},
                       size : Sizes \cup {0}, text : Seq(Pieces)]]
  /\ state \in [Children -> {"none", "running", "ended"}]
  /\ listed \subseteq Children /\ fd \in [Children -> Fds \cup {0}] /\ fdSet \subseteq Fds
  /\ sent \in [Ports -> 0..MaxSent] /\ received \in [Ports -> Seq(Seq(Pieces))]
  /\ \A q \in Ports : ~isOpen[q] => stream[q] = <<>>
  /\ \A p \in Processes : op[p].at \in {"write", "read"} => isOpen[op[p].port]

MessagesInit ==
  /\ stream = [q \in Ports |-> <<>>] /\ isOpen = [q \in Ports |-> FALSE]
  /\ op = [p \in Processes |-> Idle]
  /\ state = [c \in Children |-> "none"] /\ listed = {}
  /\ fd = [c \in Children |-> 0] /\ fdSet = {}
  /\ sent = [q \in Ports |-> 0] /\ received = [q \in Ports |-> <<>>]
----------------------------------------
(* The sockets (a stream pair of the kernel). *)
Shut(Q) ==
  /\ isOpen' = [q \in Ports |-> isOpen[q] /\ q \notin Q]
  /\ stream' = [q \in Ports |-> IF q \in Q THEN <<>> ELSE stream[q]]

\* select() finds a socket ready for writing when a quarter at most is used;
\* a socket whose other end is closed is ready for everything.
Writable(q) == isOpen[Peer(q)] => 4 * Len(stream[Peer(q)]) <= Capacity
Space(q) == isOpen[Peer(q)] /\ Len(stream[Peer(q)]) < Capacity
Readable(q) == isOpen[Peer(q)] => stream[q] # <<>>

Put(q, piece) == stream' = [stream EXCEPT ![Peer(q)] = Append(@, piece)]
----------------------------------------
(* Children come and go. *)
InUse == {fd[c] : c \in listed}
Resting(p) == op[p].at \in {"idle", "evaluate"}   \* evaluating an expression

\* p_spawn with its third argument true; the list's first child empties myFdSet.
Watched(f) == (IF listed = {} THEN {} ELSE fdSet) \cup {f}

Spawn(c, f) ==
  /\ op[Parent] = Idle /\ state[c] = "none" /\ f \notin InUse
  /\ state' = [state EXCEPT ![c] = "running"]
  /\ isOpen' = [q \in Ports |-> isOpen[q] \/ q[1] = c]
  /\ listed' = listed \cup {c}
  /\ fd' = [fd EXCEPT ![c] = f]
  /\ fdSet' = Watched(f)
  /\ UNCHANGED <<stream, op, history>>

\* fork() fails: the sockets are closed, the bit stays in myFdSet.
SpawnFails(f) ==
  /\ "forkfail" \in Events
  /\ op[Parent] = Idle /\ f \notin InUse
  /\ fdSet' = Watched(f)
  /\ UNCHANGED <<sockets, op, state, listed, fd, history>>

\* A child ends: its expression has been evaluated, it called exit, or crashed.
ChildEnds(c) ==
  /\ state[c] = "running"
  /\ Resting(c) \/ "crash" \in Events
  /\ state' = [state EXCEPT ![c] = "ended"]
  /\ Shut({<<c, "child">>})
  /\ op' = [op EXCEPT ![c] = Idle]
  /\ UNCHANGED <<listed, fd, fdSet, history>>

\* sync has waited for the child: processSpawnList closes the parent's socket.
Sync(c) ==
  /\ op[Parent] = Idle /\ c \in listed /\ state[c] = "ended"
  /\ listed' = listed \ {c}
  /\ Shut({<<c, "parent">>})
  /\ UNCHANGED <<op, state, fd, fdSet, history>>

\* abort, also from the expression whose value is to be sent.
Abort(c) ==
  /\ Resting(Parent) /\ c \in listed
  /\ state' = [state EXCEPT ![c] = "ended"]
  /\ listed' = listed \ {c}
  /\ fdSet' = fdSet \ {fd[c]}
  /\ Shut({c} \X {"parent", "child"})
  /\ op' = [op EXCEPT ![c] = Idle]
  /\ UNCHANGED <<fd, history>>
----------------------------------------
(* send. *)
\* The socket is ready; the message is evaluated next.  (A send that finds it
\* not ready returns nil and changes nothing.)
SendBegins(q, s) ==
  /\ op[User(q)] = Idle /\ isOpen[q] /\ sent[q] < MaxSent /\ Writable(q)
  /\ op' = [op EXCEPT ![User(q)] = Doing("evaluate", q, s)]
  /\ UNCHANGED <<sockets, children, history>>

\* The evaluation ends in an error or a throw.
SendThrows(p) ==
  /\ op[p].at = "evaluate"
  /\ op' = [op EXCEPT ![p] = Idle]
  /\ UNCHANGED <<sockets, children, history>>

\* The first send() writes the length, which blocks while the socket is full.
SendLength(p) ==
  LET q == op[p].port  n == sent[q] + 1 IN
  /\ op[p].at = "evaluate" /\ isOpen[q] /\ Space(q)
  /\ Put(q, Piece(n, 0, op[p].size))
  /\ sent' = [sent EXCEPT ![q] = n]
  /\ op' = [op EXCEPT ![p].at = "write"]
  /\ UNCHANGED <<isOpen, children, received>>

\* recv() of a length at port q by its process.
TakeLength(q) ==
  /\ op' = [op EXCEPT ![User(q)] = Doing("read", q, Head(stream[q]).size)]
  /\ stream' = [stream EXCEPT ![q] = Tail(@)]

\* Mutant: the result of the first send() is not looked at.
SendFails_Ignored(p) ==
  LET q == op[p].port IN
  /\ op[p].at = "evaluate" /\ ~(isOpen[q] /\ isOpen[Peer(q)])
  /\ op' = [op EXCEPT ![p].at = "write"]
  /\ UNCHANGED <<stream, isOpen, children, history>>

\* The length cannot be written: the code goes on into its receiving half and
\* reads a message if there is one.
SendFails(p) ==
  LET q == op[p].port IN
  /\ op[p].at = "evaluate" /\ ~(isOpen[q] /\ isOpen[Peer(q)])
  /\ IF stream[q] # <<>> THEN TakeLength(q)
     ELSE op' = [op EXCEPT ![p] = Idle] /\ UNCHANGED stream
  /\ UNCHANGED <<isOpen, children, history>>

Written(o) == Append(o.text, Piece(sent[o.port], Len(o.text) + 1, o.size))

\* Mutant: what the first send() call has taken counts as the whole text.
SendText_Short(p) ==
  LET o == op[p] IN
  /\ o.at = "write"
  /\ Space(o.port) /\ Put(o.port, Piece(sent[o.port], 1, o.size))
  /\ op' = [op EXCEPT ![p] = Idle]
  /\ UNCHANGED <<isOpen, children, history>>

\* Mutant: send() is repeated until the whole text is written.
SendText_Persists(p) ==
  LET o == op[p] IN
  /\ o.at = "write"
  /\ Space(o.port) /\ Put(o.port, Piece(sent[o.port], Len(o.text) + 1, o.size))
  /\ op' = [op EXCEPT ![p] = IF Len(Written(o)) = o.size THEN Idle
                             ELSE [o EXCEPT !.text = Written(o)]]
  /\ UNCHANGED <<isOpen, children, history>>

\* The second send() writes the text, piece by piece as there is space, and
\* gives up when the other end is closed.
SendText(p) ==
  LET o == op[p] IN
  /\ o.at = "write"
  /\ \/ /\ Space(o.port) /\ Put(o.port, Piece(sent[o.port], Len(o.text) + 1, o.size))
        /\ op' = [op EXCEPT ![p] = IF Len(Written(o)) = o.size THEN Idle
                                   ELSE [o EXCEPT !.text = Written(o)]]
     \/ ~isOpen[Peer(o.port)] /\ op' = [op EXCEPT ![p] = Idle] /\ UNCHANGED stream
  /\ UNCHANGED <<isOpen, children, history>>
----------------------------------------
(* receive. *)
\* There is something to read.  (Otherwise, and at the end of a closed stream,
\* receive returns nil.)
Receive(q) ==
  /\ op[User(q)] = Idle /\ isOpen[q] /\ stream[q] # <<>>
  /\ TakeLength(q)
  /\ UNCHANGED <<isOpen, children, history>>

\* Mutant: one recv() is taken for the whole text.
ReadText_Once(p) ==
  LET o == op[p]  q == o.port IN
  /\ o.at = "read" /\ stream[q] # <<>>
  /\ stream' = [stream EXCEPT ![q] = Tail(@)]
  /\ op' = [op EXCEPT ![p] = Idle]
  /\ received' = [received EXCEPT ![q] = Append(@, <<Head(stream[q])>>)]
  /\ UNCHANGED <<isOpen, children, sent>>

\* recv() until the text is complete.  When the other end is closed before,
\* recv() returns 0 and the loop goes on for ever.
ReadText(p) ==
  LET o == op[p]  q == o.port  text == Append(o.text, Head(stream[q])) IN
  /\ o.at = "read" /\ stream[q] # <<>>
  /\ stream' = [stream EXCEPT ![q] = Tail(@)]
  /\ IF Len(text) < o.size
     THEN op' = [op EXCEPT ![p].text = text] /\ UNCHANGED received
     ELSE /\ op' = [op EXCEPT ![p] = Idle]
          /\ received' = [received EXCEPT ![q] = Append(@, text)]
  /\ UNCHANGED <<isOpen, children, sent>>

\* (receive) lists the children whose sockets select() finds readable in
\* myFdSet; a closed descriptor among them makes it fail.
ReadyList == IF fdSet \subseteq InUse
             THEN {c \in listed : fd[c] \in fdSet /\ Readable(<<c, "parent">>)} ELSE {}
----------------------------------------
Transfer(p) == SendLength(p) \/ SendFails(p) \/ SendText(p) \/ ReadText(p)

MessagesNext ==
  \/ \E c \in Children, f \in Fds : Spawn(c, f)
  \/ \E f \in Fds : SpawnFails(f)
  \/ \E c \in Children : ChildEnds(c) \/ Sync(c) \/ Abort(c)
  \/ \E q \in Ports, s \in Sizes : SendBegins(q, s)
  \/ \E q \in Ports : Receive(q)
  \/ \E p \in Processes : SendThrows(p) \/ Transfer(p)

MessagesSpec == MessagesInit /\ [][MessagesNext]_messageVars

\* System calls that can go on do.
MessagesFairSpec == MessagesSpec /\ \A p \in Processes : WF_messageVars(Transfer(p))
----------------------------------------
(* Properties. *)
\* The texts of a stream that are complete, in the order they were sent.
Ends(s) == {i \in DOMAIN s : s[i].part = s[i].size}
Whole(s) == {s[i].msg : i \in Ends(s)}
SizeOf(s, n) == s[CHOOSE i \in Ends(s) : s[i].msg = n].size
WholeTexts(s) == [k \in 1..Cardinality(Whole(s)) |->
               Text(s[1].msg + k - 1, SizeOf(s, s[1].msg + k - 1))]
Queued == [q \in Ports |-> WholeTexts(stream[q])]

\* Messages arrive whole, once and in order, through sends and receives that
\* interleave piece by piece and processes that end in the middle
\* (readWriteSocket).
Boxes == INSTANCE Mailboxes WITH
  Messages <- {Text(n, s) : n \in 1..MaxSent, s \in Sizes},
  box <- Queued, taken <- received
BoxStep == [Boxes!Next]_<<Queued, received>>
ImplementsMailboxes == Boxes!Spec

\* The process at the other end, which has its socket open, leaves it full: it does
\* something else for ever, or it writes too.
LeftFull(p) ==
  LET q == op[p].port  o == op[User(Peer(q))] IN
  /\ op[p].at = "write" /\ isOpen[Peer(q)] /\ ~Space(q)
  /\ ~(o.at = "read" /\ o.port = Peer(q))

\* A reader in the middle of a message whose sender has ended.
Abandoned(p) == op[p].at = "read" /\ ~isOpen[Peer(op[p].port)]

\* A write never ends only if the other process does not read, be it that both write
\* into full sockets (nl-filesys.c:1896); a read that has begun never ends only if
\* the sender has ended before it has written all (:1922).  Nothing else hangs.
TransfersEnd == \A p \in Processes :
  /\ <>[](op[p].at = "write") => <>[]LeftFull(p)
  /\ <>[](op[p].at = "read") => <>[]Abandoned(p)
=============================================================================
