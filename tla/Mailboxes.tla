----------------------------- MODULE Mailboxes -----------------------------
(***************************************************************************)
(* What send and receive promise: every port has a queue of whole messages,*)
(* a receive takes the oldest one, and only a port that is closed loses    *)
(* what is queued for it.                                                  *)
(***************************************************************************)
EXTENDS Sequences

CONSTANTS Ports, Messages

VARIABLES box,   \* box[q]: the messages waiting at port q
          taken  \* taken[q]: the messages received at port q

Init == box = [q \in Ports |-> <<>>] /\ taken = [q \in Ports |-> <<>>]

Deposit(q, m) == box' = [box EXCEPT ![q] = Append(@, m)] /\ UNCHANGED taken

Take(q) ==
  /\ box[q] # <<>>
  /\ box' = [box EXCEPT ![q] = Tail(@)]
  /\ taken' = [taken EXCEPT ![q] = Append(@, Head(box[q]))]

Shut(Q) == box' = [q \in Ports |-> IF q \in Q THEN <<>> ELSE box[q]] /\ UNCHANGED taken

Next ==
  \/ \E q \in Ports, m \in Messages : Deposit(q, m)
  \/ \E q \in Ports : Take(q)
  \/ \E Q \in SUBSET Ports : Shut(Q)

Spec == Init /\ [][Next]_<<box, taken>>
=============================================================================
