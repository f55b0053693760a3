---------------------------- MODULE NetEvalProofs ----------------------------
(***************************************************************************)
(* Proofs about three components that share nothing, each with a list of   *)
(* what it has got.  NetEval: whatever its nodes do, for any number of     *)
(* them and any timeout, net-eval returns for each node its own answer or  *)
(* nil, calls the handler once for each that was reached, and leaves no    *)
(* socket open but after two errors of its caller.  NetSessions: the list of sessions stays right for every   *)
(* descriptor that the program uses.  MemoryManager: the list of tracked   *)
(* blocks stays right, for any pointers and sizes.  The constants and      *)
(* variables of the last two are declared here.                            *)
(***************************************************************************)
EXTENDS NetEval, FiniteSetTheorems, SequenceTheorems, WellFoundedInduction, TLAPS

CONSTANTS Fds, MaxObjects                                            \* of NetSessions
VARIABLES kernel, kind, sessions, netErrorIdx, held, lost, stale
Soc == INSTANCE NetSessions

CONSTANTS Pointers, Sizes, Types, Configs, MaxUsage, NULL            \* of MemoryManager
VARIABLES manager, block_list, block, stats, memory, intact, given   \* given is its held
Mem == INSTANCE MemoryManager WITH held <- given

----------------------------------------
Tokens == {"v1", "v2", "m1", "m2", "none", "nil", "refused", "unsent"}
Texts == Seq(Tokens)
Reached == DOMAIN Prints \ {"refused", "unsent", "bad", "atom"}
Both(n) == IF n \in Locals THEN 2 ELSE 1   \* entries of an open socket
Kept(n) == IF n \in Locals THEN 1 ELSE 0   \* those that can stay behind

\* What node d may have answered, in a mode, when the time is not over.
Right(d, m) ==
  CASE d = "value" -> {Value}
    [] d \in {"error", "late"} -> {Prints[d]}
    [] d \in {"dies", "breaks"} -> IF m = "raw" THEN {<<"v1">>} ELSE {}
    [] OTHER -> {}

(* A session: its node d, result r, buffer b, what is coming c, its *)
(* entries e, the open sessions o and the handled ones h. *)
Untouched(n, b, o, e) == b = <<>> /\ n \notin o /\ e = 0

Refused(n, d, r, e, o, h) ==
  /\ d \in {"refused", "unsent"} /\ r = <<d>>
  /\ n \notin o /\ n \notin h /\ e \in {0, Kept(n)}

\* What has come in and what is coming make up what the node prints.
Awaited(n, d, b, c, e, o, h) ==
  /\ d \in Reached /\ b \o c = Prints[d]
  /\ n \in o /\ n \notin h /\ e = Both(n)

Answered(n, d, r, e, o, h, m, t) ==
  /\ d \in Reached /\ r \in Right(d, m) \cup (IF t >= TimeOut THEN {Nil} ELSE {})
  /\ n \notin o /\ (n \in h <=> m = "handler") /\ e = Kept(n)

Shape ==
  /\ nodes \in [1..N -> DOMAIN Prints] /\ mode \in {"raw", "handler", "plain"}
  /\ at \in {"create", "poll", "done", "error", "left"} /\ i \in 1..N
  /\ results \in [1..N -> Texts] /\ buffer \in [1..N -> Texts] /\ coming \in [1..N -> Texts]
  /\ entries \in [1..N -> Int] /\ open \subseteq 1..N /\ elapsed \in Nat
  /\ handled \in Seq(1..N) /\ IsInjective(handled)

\* While the sessions are made, those before i wait and the others are untouched.
Creating ==
  /\ handled = <<>>
  /\ \A n \in 1..N :
       IF n < i THEN \/ Refused(n, nodes[n], results[n], entries[n], open, ToSet(handled))
                     \/ Awaited(n, nodes[n], buffer[n], coming[n], entries[n], open, ToSet(handled))
       ELSE Untouched(n, buffer[n], open, entries[n])

Collecting ==
  \A n \in 1..N :
    \/ Refused(n, nodes[n], results[n], entries[n], open, ToSet(handled))
    \/ Awaited(n, nodes[n], buffer[n], coming[n], entries[n], open, ToSet(handled))
    \/ Answered(n, nodes[n], results[n], entries[n], open, ToSet(handled), mode, elapsed)

\* An error outside the setjmp leaves the sockets, each with its entries.
LeftOpen ==
  /\ i = 1 \/ nodes[i] = "atom"
  /\ \A n \in 1..N : IF n \in open THEN entries[n] = Both(n) ELSE entries[n] \in {0, Kept(n)}

IInv ==
  /\ Shape
  /\ at = "create" => Creating
  /\ at \in {"poll", "done"} => Collecting
  /\ at = "poll" => open # {}
  /\ at \in {"done", "error"} => open = {}
  /\ at = "error" => \A n \in 1..N : entries[n] \in {0, Kept(n)}
  /\ at = "left" => LeftOpen

----------------------------------------
(* What nodes print, and how pieces of it come in. *)

\* The texts that nodes print.
LEMMA Printed ==
  /\ DOMAIN Prints = {"value", "error", "late", "dies", "breaks", "silent", "refused",
                      "unsent", "bad", "atom"}
  /\ Prints["value"] = <<"v1", "v2">> /\ Prints["error"] = <<"m1", "m2">>
  /\ Prints["late"] = <<"v1", "m1", "m2">>
  /\ \A d \in {"dies", "breaks"} : Prints[d] = <<"v1">>
  /\ \A d \in {"silent", "refused", "unsent", "bad", "atom"} : Prints[d] = <<>>
<1>1. <<"v1">> \o <<"m1", "m2">> = <<"v1", "m1", "m2">>
  <2> DEFINE s == <<"v1">>
             u == <<"m1", "m2">>
             w == <<"v1", "m1", "m2">>
  <2>1. s \in Seq(Tokens) /\ u \in Seq(Tokens) /\ w \in Seq(Tokens) BY DEF Tokens
  <2>2. Len(s) = 1 /\ Len(u) = 2 /\ Len(w) = 3 OBVIOUS
  <2>3. s[1] = "v1" /\ u[1] = "m1" /\ u[2] = "m2" /\ w[1] = "v1" /\ w[2] = "m1" /\ w[3] = "m2"
    OBVIOUS
  <2> HIDE DEF s, u, w
  <2>4. /\ s \o u \in Seq(Tokens) /\ Len(s \o u) = Len(s) + Len(u)
        /\ \A j \in 1..(Len(s) + Len(u)) : (s \o u)[j] = IF j <= Len(s) THEN s[j] ELSE u[j - Len(s)]
    BY <2>1, ConcatProperties
  <2>5. Len(s \o u) = 3 /\ \A j \in 1..3 : (s \o u)[j] = IF j <= 1 THEN s[j] ELSE u[j - 1]
    BY <2>2, <2>4
  <2>6. (s \o u)[1] = s[1] /\ (s \o u)[2] = u[1] /\ (s \o u)[3] = u[2]
    <3>1. 1 \in 1..3 /\ 2 \in 1..3 /\ 3 \in 1..3 /\ 2 - 1 = 1 /\ 3 - 1 = 2 OBVIOUS
    <3> QED BY <2>5, <3>1
  <2>7. \A j \in 1..3 : (s \o u)[j] = w[j]
    <3>1. \A j \in 1..3 : j = 1 \/ j = 2 \/ j = 3 OBVIOUS
    <3> QED BY <2>3, <2>6, <3>1
  <2>8. s \o u = w BY <2>1, <2>2, <2>4, <2>5, <2>7, SeqEqual
  <2> QED BY <2>8 DEF s, u, w
<1> QED BY <1>1 DEF Prints, Value, Mark

\* They are texts.
LEMMA PrintedTexts ==
  ASSUME NEW d \in DOMAIN Prints
  PROVE  Prints[d] \in Texts
<1>1. /\ <<"v1", "v2">> \in Texts /\ <<"m1", "m2">> \in Texts
      /\ <<"v1", "m1", "m2">> \in Texts /\ <<"v1">> \in Texts /\ <<>> \in Texts
  BY DEF Texts, Tokens
<1> QED BY <1>1, Printed

\* A piece that comes in leaves the rest to come, and nothing is lost in between.
LEMMA Taken ==
  ASSUME NEW b \in Texts, NEW c \in Texts, NEW k \in 1..Len(c)
  PROVE  /\ SubSeq(c, 1, k) \in Texts /\ SubSeq(c, k + 1, Len(c)) \in Texts
         /\ Len(SubSeq(c, 1, k)) = k /\ \A j \in 1..k : SubSeq(c, 1, k)[j] = c[j]
         /\ b \o SubSeq(c, 1, k) \in Texts
         /\ (b \o SubSeq(c, 1, k)) \o SubSeq(c, k + 1, Len(c)) = b \o c
<1> DEFINE p == SubSeq(c, 1, k)
           r == SubSeq(c, k + 1, Len(c))
<1>1. Len(c) \in Nat /\ k \in Nat BY DEF Texts
<1>2. p \in Texts /\ r \in Texts /\ Len(p) = k /\ \A j \in 1..k : p[j] = c[j] BY <1>1 DEF Texts
<1>3. p \o r = c
  <2>1. 1 \in 1..(Len(c) + 1) /\ k \in (1 - 1)..Len(c) /\ Len(c) \in k..Len(c) BY <1>1
  <2>2. p \o r = SubSeq(c, 1, Len(c)) BY <2>1, ConcatAdjacentSubSeq DEF Texts
  <2> QED BY <2>2, SubSeqFull DEF Texts
<1> HIDE DEF p, r
<1>4. b \o p \in Texts BY <1>2, ConcatProperties DEF Texts
<1>5. (b \o p) \o r = b \o (p \o r)
  <2>1. b \in Seq(Tokens) /\ p \in Seq(Tokens) /\ r \in Seq(Tokens) BY <1>2 DEF Texts
  <2> QED BY <2>1, ConcatAssociative
<1> QED BY <1>2, <1>3, <1>4, <1>5 DEF p, r

\* A piece that begins with the mark is the last, and what came in is the whole
\* error message.
LEMMA MarkIsLast ==
  ASSUME NEW d \in DOMAIN Prints, NEW b \in Texts, NEW c \in Texts, b \o c = Prints[d],
         NEW k \in 1..Len(c), Marked(SubSeq(c, 1, k))
  PROVE  d \in {"error", "late"} /\ b \o SubSeq(c, 1, k) = Prints[d]
<1> DEFINE p == SubSeq(c, 1, k)
           P == Prints[d]
<1>1. Len(b) \in Nat /\ Len(c) \in Nat /\ k \in Nat /\ k <= Len(c) BY DEF Texts
<1>2. p \in Texts /\ Len(p) = k /\ \A j \in 1..k : p[j] = c[j] BY Taken
<1> HIDE DEF p
<1>3. k >= 2 /\ c[1] = "m1" /\ c[2] = "m2"
  <2>1. Len(Mark) = 2 /\ Mark[1] = "m1" /\ Mark[2] = "m2" BY DEF Mark
  <2>2. 2 <= Len(p) /\ SubSeq(Mark, 1, 2) = SubSeq(p, 1, 2) BY <2>1 DEF Marked, IsPrefix, p
  <2>3. SubSeq(Mark, 1, 2)[1] = "m1" /\ SubSeq(Mark, 1, 2)[2] = "m2" BY <2>1 DEF Mark
  <2>4. SubSeq(p, 1, 2)[1] = p[1] /\ SubSeq(p, 1, 2)[2] = p[2] BY <1>2, <2>2 DEF Texts
  <2>5. k >= 2 /\ p[1] = "m1" /\ p[2] = "m2" BY <1>2, <2>2, <2>3, <2>4
  <2> QED BY <1>1, <1>2, <2>5
<1>4. Len(P) = Len(b) + Len(c) /\ P[Len(b) + 1] = "m1" /\ P[Len(b) + 2] = "m2"
  <2>1. Len(b \o c) = Len(b) + Len(c) BY ConcatProperties DEF Texts
  <2>2. \A j \in 1..(Len(b) + Len(c)) : (b \o c)[j] = IF j <= Len(b) THEN b[j] ELSE c[j - Len(b)]
    BY ConcatProperties DEF Texts
  <2>3. (b \o c)[Len(b) + 1] = c[1] /\ (b \o c)[Len(b) + 2] = c[2]
    <3>1. Len(b) + 1 \in 1..(Len(b) + Len(c)) /\ Len(b) + 2 \in 1..(Len(b) + Len(c)) BY <1>1, <1>3
    <3>2. (Len(b) + 1) - Len(b) = 1 /\ (Len(b) + 2) - Len(b) = 2 BY <1>1
    <3>3. ~(Len(b) + 1 <= Len(b)) /\ ~(Len(b) + 2 <= Len(b)) BY <1>1
    <3> QED BY <2>2, <3>1, <3>2, <3>3
  <2> QED BY <1>3, <2>1, <2>3
<1> HIDE DEF P
<1>5. ASSUME Len(c) = k PROVE b \o p = b \o c BY <1>5, SubSeqFull DEF p, Texts
<1>6. CASE d = "error"
  <2>1. P = <<"m1", "m2">> BY <1>6, Printed DEF P
  <2>2. Len(c) = 2 BY <1>1, <1>3, <1>4, <2>1
  <2> QED BY <1>1, <1>3, <1>5, <1>6, <2>2 DEF p
<1>7. CASE d = "late"
  <2>1. P = <<"v1", "m1", "m2">> BY <1>7, Printed DEF P
  <2>2. Len(P) = 3 /\ P[1] = "v1" BY <2>1
  <2>3. Len(b) # 0 BY <1>4, <2>2
  <2>4. Len(c) = 2
    <3>1. Len(b) + Len(c) = 3 BY <1>4, <2>2
    <3>2. Len(c) >= 2 /\ Len(b) >= 1 BY <1>1, <1>3, <2>3
    <3>3. \A x, y \in Nat : x + y = 3 /\ y >= 2 /\ x >= 1 => y = 2 OBVIOUS
    <3>4. Len(b) \in Nat /\ Len(c) \in Nat BY <1>1
    <3> QED BY <3>1, <3>2, <3>3, <3>4
  <2> QED BY <1>1, <1>3, <1>5, <1>7, <2>4 DEF p
<1>8. CASE d \notin {"error", "late"}
  <2>1. Len(P) >= 2 BY <1>1, <1>3, <1>4
  <2>2. P = <<"v1", "v2">>
    <3>1. P \in {<<"v1", "v2">>, <<"v1">>, <<>>} BY <1>8, Printed DEF P
    <3>2. Len(<<"v1">>) = 1 /\ Len(<<>>) = 0 OBVIOUS
    <3>3. ~(1 >= 2) /\ ~(0 >= 2) OBVIOUS
    <3>4. P # <<"v1">> /\ P # <<>> BY <2>1, <3>2, <3>3
    <3> QED BY <3>1, <3>4
  <2>3. Len(b) = 0 BY <1>1, <1>3, <1>4, <2>2
  <2>4. P[1] = "m1" BY <1>4, <2>3
  <2> QED BY <2>2, <2>4
<1> QED BY <1>6, <1>7, <1>8

\* What a node that closes has sent is all it prints.
LEMMA AllCame ==
  ASSUME NEW b \in Texts, NEW d \in DOMAIN Prints, b \o <<>> = Prints[d]
  PROVE  b = Prints[d] BY ConcatEmptySeq DEF Texts

----------------------------------------
(* The parts of the invariant. *)

\* An open socket has its entries in ioSessions, and no other has more than can stay.
LEMMA EntriesExact ==
  ASSUME IInv
  PROVE  \A n \in 1..N : IF n \in open THEN entries[n] = Both(n) ELSE entries[n] \in {0, Kept(n)}
<1>1. CASE at = "create" BY <1>1 DEF IInv, Creating, Shape, Untouched, Refused, Awaited
<1>2. CASE at \in {"poll", "done"} BY <1>2 DEF IInv, Collecting, Refused, Awaited, Answered
<1>3. CASE at = "error" BY <1>3 DEF IInv
<1>4. CASE at = "left" BY <1>4 DEF IInv, LeftOpen
<1> QED BY <1>1, <1>2, <1>3, <1>4 DEF IInv, Shape

\* When net-eval ends with an error it closes what is open.
LEMMA Stopped ==
  ASSUME NetEvalAssumption, IInv, freeSessions, at' = "error",
         nodes' = nodes, mode' = mode, i' = i, results' = results, elapsed' = elapsed,
         handled' = handled, buffer' \in [1..N -> Texts], coming' \in [1..N -> Texts]
  PROVE  IInv'
<1>1. Shape BY DEF IInv
<1>2. \A n \in 1..N : entries'[n] = IF n \in open THEN entries[n] - 1 ELSE entries[n]
  BY DEF freeSessions
<1>3. \A n \in 1..N : entries'[n] \in {0, Kept(n)} BY <1>2, EntriesExact DEF Both, Kept
<1>4. entries' \in [1..N -> Int]
  <2>1. \A n \in 1..N : entries[n] \in Int BY <1>1 DEF Shape
  <2> QED BY <2>1 DEF freeSessions
<1>5. open' = {} BY DEF freeSessions
<1>6. Shape' BY <1>1, <1>4, <1>5 DEF Shape
<1> QED BY <1>3, <1>5, <1>6 DEF IInv

\* A session gets its result: its own answer, or nil when the time is over.
LEMMA Finished ==
  ASSUME NetEvalAssumption, IInv, Visit, NEW r \in Texts,
         r \in Right(nodes[i], mode) \cup (IF elapsed >= TimeOut THEN {Nil} ELSE {}),
         open' = open \ {i}, entries' = [entries EXCEPT ![i] = @ - 1],
         results' = [results EXCEPT ![i] = r],
         handled' = (IF mode = "handler" THEN Append(handled, i) ELSE handled),
         at' = (IF open = {i} THEN "done" ELSE "poll"), i' = Following,
         nodes' = nodes, mode' = mode, elapsed' = elapsed,
         buffer' \in [1..N -> Texts], coming' \in [1..N -> Texts],
         \A n \in (1..N) \ {i} : buffer'[n] = buffer[n] /\ coming'[n] = coming[n]
  PROVE  IInv'
<1>1. Shape /\ Collecting /\ at = "poll" /\ i \in open BY DEF IInv, Visit
<1>2. i \in 1..N /\ i' \in 1..N
  <2>1. N \in Nat /\ i \in 1..N BY <1>1 DEF NetEvalAssumption, Shape
  <2> QED BY <2>1 DEF Following
<1>3. Awaited(i, nodes[i], buffer[i], coming[i], entries[i], open, ToSet(handled))
  BY <1>1, <1>2 DEF Collecting, Refused, Answered
<1>4. handled \in Seq(1..N) /\ IsInjective(handled) /\ Len(handled) \in Nat BY <1>1 DEF Shape
<1>5. i \notin ToSet(handled) BY <1>3 DEF Awaited
<1>6. mode = "handler" =>
        /\ handled' \in Seq(1..N) /\ IsInjective(handled')
        /\ ToSet(handled') = ToSet(handled) \cup {i}
  <2> SUFFICES ASSUME mode = "handler"
               PROVE  /\ handled' \in Seq(1..N) /\ IsInjective(handled')
                      /\ ToSet(handled') = ToSet(handled) \cup {i} OBVIOUS
  <2> DEFINE L == Len(handled)
  <2>1. handled' = Append(handled, i) OBVIOUS
  <2>2. /\ handled' \in Seq(1..N) /\ Len(handled') = L + 1 /\ handled'[L + 1] = i
        /\ \A j \in 1..L : handled'[j] = handled[j] BY <1>2, <1>4, <2>1, AppendProperties
  <2>3. DOMAIN handled = 1..L /\ DOMAIN handled' = 1..(L + 1) BY <1>4, <2>2
  <2>4. \A j \in 1..(L + 1) : j \in 1..L \/ j = L + 1 BY <1>4
  <2>5. \A j \in 1..L : handled[j] # i /\ j \in 1..(L + 1) BY <1>4, <1>5, <2>3 DEF ToSet
  <2>6. IsInjective(handled')
    <3>1. \A a, b \in 1..L : handled[a] = handled[b] => a = b BY <1>4, <2>3 DEF IsInjective
    <3>2. ASSUME NEW a \in 1..(L + 1), NEW b \in 1..(L + 1), handled'[a] = handled'[b] PROVE a = b
      BY <2>2, <2>4, <2>5, <3>1, <3>2
    <3> QED BY <2>3, <3>2 DEF IsInjective
  <2>7. L + 1 \in 1..(L + 1) BY <1>4
  <2>8. \A x : x \in ToSet(handled') <=> x \in ToSet(handled) \cup {i}
    BY <2>2, <2>3, <2>4, <2>5, <2>7 DEF ToSet
  <2> QED BY <2>2, <2>6, <2>8
<1>7. Shape'
  <2>1. handled' \in Seq(1..N) /\ IsInjective(handled') BY <1>4, <1>6
  <2>2. entries' \in [1..N -> Int] /\ results' \in [1..N -> Texts] /\ open' \subseteq 1..N
    BY <1>1, <1>2 DEF Shape
  <2> QED BY <1>1, <1>2, <2>1, <2>2 DEF Shape
<1>8. \A n \in (1..N) \ {i} : n \in ToSet(handled') <=> n \in ToSet(handled) BY <1>6
<1>9. Collecting'
  <2>1. Answered(i, nodes[i], results'[i], entries'[i], open', ToSet(handled'), mode, elapsed)
    <3>1. results'[i] = r /\ entries'[i] = entries[i] - 1 BY <1>1, <1>2 DEF Shape
    <3>2. i \in ToSet(handled') <=> mode = "handler" BY <1>5, <1>6
    <3> QED BY <1>3, <3>1, <3>2 DEF Answered, Awaited, Both, Kept
  <2>2. ASSUME NEW n \in (1..N) \ {i}
        PROVE  /\ results'[n] = results[n] /\ entries'[n] = entries[n]
               /\ n \in open' <=> n \in open BY <1>1, <1>2 DEF Shape
  <2>3. ASSUME NEW n \in (1..N) \ {i}
        PROVE  \/ Refused(n, nodes[n], results'[n], entries'[n], open', ToSet(handled'))
               \/ Awaited(n, nodes[n], buffer'[n], coming'[n], entries'[n], open', ToSet(handled'))
               \/ Answered(n, nodes[n], results'[n], entries'[n], open', ToSet(handled'), mode, elapsed)
    <3>1. \/ Refused(n, nodes[n], results[n], entries[n], open, ToSet(handled))
          \/ Awaited(n, nodes[n], buffer[n], coming[n], entries[n], open, ToSet(handled))
          \/ Answered(n, nodes[n], results[n], entries[n], open, ToSet(handled), mode, elapsed)
      BY <1>1 DEF Collecting
    <3> QED BY <3>1, <2>2, <1>8 DEF Refused, Awaited, Answered
  <2> QED BY <1>2, <2>1, <2>3 DEF Collecting
<1>10. at' = "poll" => open' # {} BY <1>1
<1>11. at' \in {"done", "error"} => open' = {} OBVIOUS
<1> QED BY <1>7, <1>9, <1>10, <1>11 DEF IInv

----------------------------------------
(* The steps. *)

\* The sessions are made: one more is refused or waits.
LEMMA CreateInv ==
  ASSUME NetEvalAssumption, IInv, Unreached \/ Connected
  PROVE  IInv'
<1>1. Shape /\ Creating /\ at = "create" BY DEF IInv, Unreached, Connected
<1>2. N \in Nat /\ i \in 1..N BY <1>1 DEF NetEvalAssumption, Shape
<1>3. Untouched(i, buffer[i], open, entries[i]) BY <1>1, <1>2 DEF Creating
<1>4. /\ nodes' = nodes /\ mode' = mode /\ buffer' = buffer /\ elapsed' = elapsed
      /\ handled' = handled /\ handled = <<>> /\ Created
  BY <1>1 DEF Unreached, Connected, Created, Creating
<1>5. ToSet(handled) = {} BY <1>4 DEF ToSet
<1>6. /\ \/ Refused(i, nodes[i], results'[i], entries'[i], open', {})
         \/ Awaited(i, nodes[i], buffer[i], coming'[i], entries'[i], open', {})
      /\ results' \in [1..N -> Texts] /\ coming' \in [1..N -> Texts]
      /\ entries' \in [1..N -> Int] /\ open' \subseteq 1..N
      /\ \A n \in (1..N) \ {i} : /\ results'[n] = results[n] /\ entries'[n] = entries[n]
                                 /\ coming'[n] = coming[n] /\ (n \in open' <=> n \in open)
  <2>1. CASE Unreached
    <3>1. nodes[i] \in {"refused", "unsent"} /\ <<nodes[i]>> \in Texts
      BY <2>1 DEF Unreached, Texts, Tokens
    <3>2. /\ results' = [results EXCEPT ![i] = <<nodes[i]>>] /\ open' = open /\ coming' = coming
          /\ entries' = [entries EXCEPT ![i] = IF nodes[i] = "unsent" /\ i \in Locals THEN 1 ELSE 0]
      BY <2>1 DEF Unreached
    <3>3. /\ results' \in [1..N -> Texts] /\ entries' \in [1..N -> Int] /\ results'[i] = <<nodes[i]>>
          /\ entries'[i] \in {0, Kept(i)}
          /\ \A n \in (1..N) \ {i} : results'[n] = results[n] /\ entries'[n] = entries[n]
      BY <1>1, <1>2, <3>1, <3>2 DEF Shape, Kept
    <3>4. Refused(i, nodes[i], results'[i], entries'[i], open', {})
      BY <1>3, <3>1, <3>2, <3>3 DEF Refused, Untouched
    <3> QED BY <1>1, <3>2, <3>3, <3>4 DEF Shape
  <2>2. CASE Connected
    <3>1. nodes[i] \in Reached BY <2>2, Printed DEF Connected, Reached
    <3>2. Prints[nodes[i]] \in Texts BY <3>1, PrintedTexts DEF Reached
    <3>3. /\ results' = results /\ open' = open \cup {i}
          /\ coming' = [coming EXCEPT ![i] = Prints[nodes[i]]]
          /\ entries' = [entries EXCEPT ![i] = IF i \in Locals THEN 2 ELSE 1]
      BY <2>2 DEF Connected
    <3>4. /\ coming' \in [1..N -> Texts] /\ entries' \in [1..N -> Int]
          /\ coming'[i] = Prints[nodes[i]] /\ entries'[i] = Both(i)
          /\ \A n \in (1..N) \ {i} : coming'[n] = coming[n] /\ entries'[n] = entries[n]
      BY <1>1, <1>2, <3>2, <3>3 DEF Shape, Both
    <3>5. buffer[i] \o coming'[i] = Prints[nodes[i]]
      <4>1. buffer[i] = <<>> BY <1>3 DEF Untouched
      <4> QED BY <3>2, <3>4, <4>1, ConcatEmptySeq DEF Texts
    <3>6. Awaited(i, nodes[i], buffer[i], coming'[i], entries'[i], open', {})
      BY <3>1, <3>3, <3>4, <3>5 DEF Awaited
    <3> QED BY <1>1, <1>2, <3>3, <3>4, <3>6 DEF Shape
  <2> QED BY <2>1, <2>2
<1>7. i' \in 1..N /\ at' \in {"create", "poll", "done", "left"} BY <1>1, <1>2, <1>4 DEF Created
<1>8. Shape' BY <1>1, <1>4, <1>6, <1>7 DEF Shape
<1>9. ASSUME NEW n \in 1..N, n <= i
      PROVE  \/ Refused(n, nodes[n], results'[n], entries'[n], open', {})
             \/ Awaited(n, nodes[n], buffer[n], coming'[n], entries'[n], open', {})
  <2>1. CASE n = i BY <1>6, <2>1
  <2>2. CASE n # i
    <3>1. n < i BY <1>2, <1>9, <2>2
    <3>2. \/ Refused(n, nodes[n], results[n], entries[n], open, {})
          \/ Awaited(n, nodes[n], buffer[n], coming[n], entries[n], open, {})
      BY <1>1, <1>5, <3>1 DEF Creating
    <3> QED BY <1>6, <2>2, <3>2 DEF Refused, Awaited
  <2> QED BY <2>1, <2>2
<1>10. CASE i < N
  <2>1. i' = i + 1 /\ at' = "create" BY <1>1, <1>4, <1>10 DEF Created
  <2>2. ASSUME NEW n \in 1..N, ~(n < i + 1) PROVE Untouched(n, buffer[n], open', entries'[n])
    <3>1. n # i /\ ~(n < i) BY <1>2, <2>2
    <3>2. Untouched(n, buffer[n], open, entries[n]) BY <1>1, <3>1 DEF Creating
    <3> QED BY <1>6, <3>1, <3>2 DEF Untouched
  <2>3. \A n \in 1..N : n < i + 1 => n <= i BY <1>2
  <2>4. Creating' BY <1>4, <1>5, <1>9, <2>1, <2>2, <2>3 DEF Creating
  <2> QED BY <1>8, <2>1, <2>4 DEF IInv
<1>11. CASE ~(i < N)
  <2>1. i' = 1 /\ at' \in {IF open' = {} THEN "done" ELSE "poll", "left"}
    BY <1>4, <1>11 DEF Created
  <2>2. \A n \in 1..N : n <= i BY <1>2, <1>11
  <2>3. Collecting' BY <1>4, <1>5, <1>9, <2>2 DEF Collecting
  <2>4. LeftOpen' BY <1>9, <2>1, <2>2 DEF LeftOpen, Refused, Awaited
  <2> QED BY <1>8, <2>1, <2>3, <2>4 DEF IInv
<1> QED BY <1>10, <1>11

\* A visit that ends no session leaves all of them as they are.
LEMMA Visited ==
  ASSUME NetEvalAssumption, IInv, at = "poll",
         UNCHANGED <<nodes, mode, at, results, buffer, open, entries, coming, handled>>,
         \/ i' = Following /\ elapsed' = elapsed
         \/ i' = i /\ elapsed' = elapsed + 1
  PROVE  IInv'
<1>1. Shape /\ Collecting /\ open # {} BY DEF IInv
<1>2. N \in Nat /\ i \in 1..N /\ elapsed \in Nat BY <1>1 DEF NetEvalAssumption, Shape
<1>3. i' \in 1..N /\ elapsed' \in Nat /\ elapsed' >= elapsed BY <1>2 DEF Following
<1>4. TimeOut \in Nat BY DEF NetEvalAssumption
<1>5. elapsed >= TimeOut => elapsed' >= TimeOut BY <1>2, <1>3, <1>4
<1>6. Shape' BY <1>1, <1>3 DEF Shape
<1>7. Collecting'
  <2>1. ASSUME NEW n \in 1..N
        PROVE  \/ Refused(n, nodes[n], results[n], entries[n], open, ToSet(handled))
               \/ Awaited(n, nodes[n], buffer[n], coming[n], entries[n], open, ToSet(handled))
               \/ Answered(n, nodes[n], results[n], entries[n], open, ToSet(handled), mode, elapsed')
    <3>1. \/ Refused(n, nodes[n], results[n], entries[n], open, ToSet(handled))
          \/ Awaited(n, nodes[n], buffer[n], coming[n], entries[n], open, ToSet(handled))
          \/ Answered(n, nodes[n], results[n], entries[n], open, ToSet(handled), mode, elapsed)
      BY <1>1 DEF Collecting
    <3> QED BY <1>5, <3>1 DEF Answered
  <2> QED BY <2>1 DEF Collecting
<1> QED BY <1>1, <1>6, <1>7 DEF IInv

\* The session that is looked at waits: what has come in, with what is coming, is
\* what its node prints.
LEMMA Looked ==
  ASSUME IInv, Visit
  PROVE  /\ Shape /\ Collecting /\ i \in 1..N /\ buffer[i] \in Texts /\ coming[i] \in Texts
         /\ nodes[i] \in Reached /\ buffer[i] \o coming[i] = Prints[nodes[i]]
         /\ Awaited(i, nodes[i], buffer[i], coming[i], entries[i], open, ToSet(handled))
<1>1. Shape /\ Collecting /\ i \in open BY DEF IInv, Visit
<1>2. i \in 1..N /\ buffer[i] \in Texts /\ coming[i] \in Texts BY <1>1 DEF Shape
<1>3. Awaited(i, nodes[i], buffer[i], coming[i], entries[i], open, ToSet(handled))
  BY <1>1, <1>2 DEF Collecting, Refused, Answered
<1> QED BY <1>1, <1>2, <1>3 DEF Awaited

\* A session ends, with a text that is its node's answer when the time is not over.
LEMMA EndedInv ==
  ASSUME NetEvalAssumption, IInv, Visit, NEW text \in Texts, NEW error \in BOOLEAN,
         Ended(text, error), elapsed' = elapsed,
         coming' \in [1..N -> Texts], \A n \in (1..N) \ {i} : coming'[n] = coming[n],
         elapsed < TimeOut /\ ~Unread(text, error) =>
           (IF mode = "raw" \/ error THEN text ELSE ReadAs(text)) \in Right(nodes[i], mode)
  PROVE  IInv'
<1>1. Shape /\ i \in 1..N BY Looked
<1>2. buffer' = [buffer EXCEPT ![i] = text] BY DEF Ended
<1>3. buffer' \in [1..N -> Texts] /\ \A n \in (1..N) \ {i} : buffer'[n] = buffer[n]
  BY <1>1, <1>2 DEF Shape
<1>4. CASE Unread(text, error) BY <1>3, <1>4, Stopped DEF Ended
<1>5. CASE ~Unread(text, error)
  <2> DEFINE r == Outcome(text, error)
  <2>1. EndSession(text, error) BY <1>5 DEF Ended
  <2>2. Nil \in Texts /\ r \in Texts
    <3>1. Nil \in Texts BY DEF Nil, Texts, Tokens
    <3> QED BY <3>1 DEF Outcome, ReadAs
  <2>3. r \in Right(nodes[i], mode) \cup (IF elapsed >= TimeOut THEN {Nil} ELSE {})
    <3>1. CASE elapsed >= TimeOut BY <3>1 DEF Outcome
    <3>2. CASE ~(elapsed >= TimeOut)
      <4>1. elapsed < TimeOut BY <1>1, <3>2 DEF Shape, NetEvalAssumption
      <4> QED BY <1>5, <3>2, <4>1 DEF Outcome
    <3> QED BY <3>1, <3>2
  <2>4. /\ open' = open \ {i} /\ entries' = [entries EXCEPT ![i] = @ - 1]
        /\ results' = [results EXCEPT ![i] = r]
        /\ handled' = (IF mode = "handler" THEN Append(handled, i) ELSE handled)
        /\ at' = (IF open = {i} THEN "done" ELSE "poll")
        /\ i' = Following /\ nodes' = nodes /\ mode' = mode BY <2>1 DEF EndSession
  <2> HIDE DEF r
  <2> QED BY <1>3, <2>2, <2>3, <2>4, Finished
<1> QED BY <1>4, <1>5

\* A piece comes in: the last one of an error message ends its session.
LEMMA PieceInv ==
  ASSUME NetEvalAssumption, IInv, NEW k, PieceComes(k)
  PROVE  IInv'
<1> DEFINE piece == SubSeq(coming[i], 1, k)
           rest == SubSeq(coming[i], k + 1, Len(coming[i]))
           text == buffer[i] \o piece
<1>1. Visit /\ k \in 1..Len(coming[i]) /\ elapsed' = elapsed /\ coming' = [coming EXCEPT ![i] = rest]
  BY DEF PieceComes
<1>2. /\ Shape /\ Collecting /\ i \in 1..N /\ buffer[i] \in Texts /\ coming[i] \in Texts
      /\ nodes[i] \in Reached /\ buffer[i] \o coming[i] = Prints[nodes[i]]
      /\ Awaited(i, nodes[i], buffer[i], coming[i], entries[i], open, ToSet(handled))
  BY <1>1, Looked
<1>3. /\ rest \in Texts /\ text \in Texts /\ text \o rest = Prints[nodes[i]] BY <1>1, <1>2, Taken
<1>4. coming' \in [1..N -> Texts] /\ coming'[i] = rest /\ \A n \in (1..N) \ {i} : coming'[n] = coming[n]
  BY <1>1, <1>2, <1>3 DEF Shape
<1>5. CASE Marked(piece) \/ elapsed >= TimeOut
  <2>1. PICK error \in BOOLEAN : error = Marked(piece) BY DEF Marked, IsPrefix
  <2>2. Ended(text, error) BY <1>5, <2>1 DEF PieceComes
  <2>3. elapsed < TimeOut => (IF mode = "raw" \/ error THEN text ELSE ReadAs(text)) \in Right(nodes[i], mode)
    <3> SUFFICES ASSUME elapsed < TimeOut
                 PROVE  (IF mode = "raw" \/ error THEN text ELSE ReadAs(text)) \in Right(nodes[i], mode)
      OBVIOUS
    <3>1. ~(elapsed >= TimeOut) BY <1>2 DEF Shape, NetEvalAssumption
    <3>2. Marked(piece) /\ error BY <1>5, <2>1, <3>1
    <3>3. nodes[i] \in {"error", "late"} /\ text = Prints[nodes[i]]
      BY <1>1, <1>2, <3>2, MarkIsLast DEF Reached
    <3> QED BY <3>2, <3>3 DEF Right
  <2> HIDE DEF piece, rest, text
  <2> QED BY <1>1, <1>3, <1>4, <2>1, <2>2, <2>3, EndedInv
<1>6. CASE ~(Marked(piece) \/ elapsed >= TimeOut)
  <2>1. /\ buffer' = [buffer EXCEPT ![i] = text] /\ i' = Following
        /\ nodes' = nodes /\ mode' = mode /\ at' = at /\ results' = results /\ open' = open
        /\ entries' = entries /\ handled' = handled BY <1>6 DEF PieceComes
  <2> HIDE DEF piece, rest, text
  <2>2. buffer' \in [1..N -> Texts] /\ buffer'[i] = text /\ \A n \in (1..N) \ {i} : buffer'[n] = buffer[n]
    BY <1>2, <1>3, <2>1 DEF Shape
  <2>3. N \in Nat /\ i' \in 1..N BY <1>2, <2>1 DEF NetEvalAssumption, Following
  <2>4. Shape' BY <1>1, <1>2, <1>4, <2>1, <2>2, <2>3 DEF Shape
  <2>5. Awaited(i, nodes[i], buffer'[i], coming'[i], entries[i], open, ToSet(handled))
    BY <1>2, <1>3, <1>4, <2>2 DEF Awaited
  <2>6. Collecting'
    <3>1. ASSUME NEW n \in 1..N
          PROVE  \/ Refused(n, nodes[n], results[n], entries[n], open, ToSet(handled))
                 \/ Awaited(n, nodes[n], buffer'[n], coming'[n], entries[n], open, ToSet(handled))
                 \/ Answered(n, nodes[n], results[n], entries[n], open, ToSet(handled), mode, elapsed)
      <4>1. CASE n = i BY <2>5, <4>1
      <4>2. CASE n # i
        <5>1. buffer'[n] = buffer[n] /\ coming'[n] = coming[n] BY <1>4, <2>2, <4>2
        <5>2. \/ Refused(n, nodes[n], results[n], entries[n], open, ToSet(handled))
              \/ Awaited(n, nodes[n], buffer[n], coming[n], entries[n], open, ToSet(handled))
              \/ Answered(n, nodes[n], results[n], entries[n], open, ToSet(handled), mode, elapsed)
          BY <1>2 DEF Collecting
        <5> QED BY <5>1, <5>2
      <4> QED BY <4>1, <4>2
    <3> QED BY <1>1, <2>1, <3>1 DEF Collecting
  <2> QED BY <1>1, <2>1, <2>4, <2>6 DEF IInv, Visit
<1> QED BY <1>5, <1>6

\* A connection that is closed has brought the whole answer, or half of a value
\* that only raw mode takes.
LEMMA ClosedInv ==
  ASSUME NetEvalAssumption, IInv, Closed
  PROVE  IInv'
<1>1. /\ Visit /\ coming[i] = <<>> /\ nodes[i] \in {"value", "dies", "breaks"}
      /\ Ended(buffer[i], FALSE) /\ elapsed' = elapsed /\ coming' = coming BY DEF Closed, Closes
<1>2. /\ Shape /\ buffer[i] \in Texts /\ nodes[i] \in Reached
      /\ buffer[i] \o coming[i] = Prints[nodes[i]] BY <1>1, Looked
<1>3. buffer[i] = Prints[nodes[i]] BY <1>1, <1>2, AllCame DEF Reached
<1>4. coming' \in [1..N -> Texts] /\ \A n \in (1..N) \ {i} : coming'[n] = coming[n]
  BY <1>1, <1>2 DEF Shape
<1>5. ASSUME elapsed < TimeOut, ~Unread(buffer[i], FALSE)
      PROVE  (IF mode = "raw" \/ FALSE THEN buffer[i] ELSE ReadAs(buffer[i])) \in Right(nodes[i], mode)
  <2>1. CASE nodes[i] = "value"
    <3>1. buffer[i] = Value /\ Value # <<>> BY <1>3, <2>1, Printed DEF Value
    <3>2. ReadAs(buffer[i]) = Value BY <3>1 DEF ReadAs
    <3> QED BY <2>1, <3>1, <3>2 DEF Right
  <2>2. CASE nodes[i] \in {"dies", "breaks"}
    <3>1. buffer[i] = <<"v1">> BY <1>3, <2>2, Printed
    <3>2. mode = "raw" BY <1>5, <3>1 DEF Unread, Complete
    <3> QED BY <2>2, <3>1, <3>2 DEF Right
  <2> QED BY <1>1, <2>1, <2>2
<1>6. FALSE \in BOOLEAN OBVIOUS
<1> QED BY <1>1, <1>2, <1>4, <1>5, <1>6, EndedInv

\* Nothing comes: the session is passed over, or ends when the time is over.
LEMMA NothingInv ==
  ASSUME NetEvalAssumption, IInv, Nothing
  PROVE  IInv'
<1>1. Visit /\ elapsed' = elapsed /\ coming' = coming BY DEF Nothing
<1>2. Shape /\ buffer[i] \in Texts BY <1>1, Looked
<1>3. CASE elapsed >= TimeOut
  <2>1. Ended(buffer[i], FALSE) BY <1>3 DEF Nothing
  <2>2. ~(elapsed < TimeOut) BY <1>2, <1>3 DEF Shape, NetEvalAssumption
  <2>3. coming' \in [1..N -> Texts] /\ \A n \in (1..N) \ {i} : coming'[n] = coming[n]
    BY <1>1, <1>2 DEF Shape
  <2>4. FALSE \in BOOLEAN OBVIOUS
  <2> QED BY <1>1, <1>2, <2>1, <2>2, <2>3, <2>4, EndedInv
<1>4. CASE ~(elapsed >= TimeOut)
  <2>1. /\ i' = Following
        /\ UNCHANGED <<nodes, mode, at, results, buffer, open, entries, coming, handled>>
    BY <1>1, <1>4 DEF Nothing
  <2> QED BY <1>1, <2>1, Visited DEF Visit
<1> QED BY <1>3, <1>4

\* The invariant holds at the start.
LEMMA InitInv ==
  ASSUME NetEvalAssumption, NetEvalInit
  PROVE  IInv
<1>1. /\ nodes \in [1..N -> DOMAIN Prints] /\ mode \in {"raw", "handler", "plain"}
      /\ at = "create" /\ i = 1 /\ open = {} /\ elapsed = 0 /\ handled = <<>>
      /\ results = [n \in 1..N |-> NoResult] /\ buffer = [n \in 1..N |-> <<>>]
      /\ entries = [n \in 1..N |-> 0] /\ coming = [n \in 1..N |-> <<>>]
  BY DEF NetEvalInit, NetEvalAssumption
<1>2. NoResult \in Texts /\ <<>> \in Texts BY DEF NoResult, Texts, Tokens
<1>3. 1 \in 1..N BY DEF NetEvalAssumption
<1>4. <<>> \in Seq(1..N) /\ IsInjective(<<>>) BY DEF IsInjective
<1>5. Shape BY <1>1, <1>2, <1>3, <1>4 DEF Shape
<1>6. \A n \in 1..N : ~(n < i) BY <1>1
<1>7. Creating BY <1>1, <1>6 DEF Creating, Untouched
<1> QED BY <1>1, <1>5, <1>7 DEF IInv

\* Every step keeps it.
LEMMA StepInv ==
  ASSUME NetEvalAssumption, IInv, [NetEvalNext]_netEvalVars
  PROVE  IInv'
<1>1. CASE Unreached \/ Connected BY <1>1, CreateInv
<1>2. CASE BadParameters \/ HandlerFails
  <2>1. CASE Fail
    <3>1. buffer' \in [1..N -> Texts] /\ coming' \in [1..N -> Texts] BY <2>1 DEF Fail, IInv, Shape
    <3> QED BY <2>1, <3>1, Stopped DEF Fail
  <2>2. CASE /\ nodes[i] = "atom" /\ at' = "left"
             /\ UNCHANGED <<nodes, mode, i, results, buffer, open, entries, elapsed, coming, handled>>
    <3>1. Shape' BY <2>2 DEF IInv, Shape
    <3>2. LeftOpen' BY <2>2, EntriesExact DEF LeftOpen
    <3> QED BY <2>2, <3>1, <3>2 DEF IInv
  <2> QED BY <1>2, <2>1, <2>2 DEF BadParameters, HandlerFails
<1>3. CASE PassOver BY <1>3, Visited DEF PassOver
<1>4. CASE Closed BY <1>4, ClosedInv
<1>5. CASE Nothing BY <1>5, NothingInv
<1>6. ASSUME NEW k \in 1..3, PieceComes(k) PROVE IInv' BY <1>6, PieceInv
<1>7. CASE TimePasses BY <1>7, Visited DEF TimePasses
<1>8. CASE UNCHANGED netEvalVars
  <2>1. /\ nodes' = nodes /\ mode' = mode /\ at' = at /\ i' = i /\ results' = results
        /\ buffer' = buffer /\ open' = open /\ entries' = entries /\ elapsed' = elapsed
        /\ coming' = coming /\ handled' = handled BY <1>8 DEF netEvalVars
  <2>2. Shape' <=> Shape BY <2>1 DEF Shape
  <2>3. Creating' <=> Creating BY <2>1 DEF Creating
  <2>4. Collecting' <=> Collecting BY <2>1 DEF Collecting
  <2>5. LeftOpen' <=> LeftOpen BY <2>1 DEF LeftOpen
  <2> QED BY <2>1, <2>2, <2>3, <2>4, <2>5 DEF IInv
<1> QED BY <1>1, <1>2, <1>3, <1>4, <1>5, <1>6, <1>7, <1>8 DEF NetEvalNext, Create, Poll

\* What the invariant says when net-eval returns.
LEMMA InvExact ==
  ASSUME NetEvalAssumption, IInv
  PROVE  ChannelsExact
<1>1. SocketsReleased
  <2>1. \A n \in 1..N : IF n \in open THEN entries[n] = Both(n) ELSE entries[n] \in {0, Kept(n)}
    BY EntriesExact
  <2>2. ASSUME NEW n \in 1..N, entries[n] \in {0, Kept(n)}
        PROVE  entries[n] \in {0} \cup {1 : l \in Locals \cap {n}} BY <2>2 DEF Kept
  <2>3. \A n \in 1..N : IF n \in open THEN entries[n] = (IF n \in Locals THEN 2 ELSE 1)
                        ELSE entries[n] \in {0} \cup {1 : l \in Locals \cap {n}}
    BY <2>1, <2>2 DEF Both
  <2> QED BY <2>3 DEF SocketsReleased, IInv, LeftOpen
<1>2. ASSUME at = "done", NEW n \in 1..N
      PROVE  \/ nodes[n] \in {"refused", "unsent"} /\ results[n] = <<nodes[n]>> /\ n \notin ToSet(handled)
             \/ /\ nodes[n] \in Reached /\ (n \in ToSet(handled) <=> mode = "handler")
                /\ results[n] \in Right(nodes[n], mode) \cup (IF elapsed >= TimeOut THEN {Nil} ELSE {})
  BY <1>2 DEF IInv, Collecting, Refused, Awaited, Answered
<1>3. ResultsExact
  <2> SUFFICES ASSUME at = "done", NEW n \in 1..N
               PROVE  results[n] \in Expected(n) \cup
                        (IF elapsed >= TimeOut /\ nodes[n] \notin {"refused", "unsent"} THEN {Nil} ELSE {})
    BY DEF ResultsExact
  <2>1. CASE nodes[n] \in {"refused", "unsent"} BY <1>2, <2>1 DEF Expected, Reached
  <2>2. CASE nodes[n] \in Reached
    <3>1. Right(nodes[n], mode) = Expected(n) BY <2>2, Printed DEF Right, Expected, Reached
    <3> QED BY <1>2, <2>2, <3>1 DEF Reached
  <2> QED BY <1>2, <2>1, <2>2
<1>4. HandledOnce
  <2> SUFFICES ASSUME at = "done", mode = "handler"
               PROVE  /\ IsInjective(handled)
                      /\ ToSet(handled) = {n \in 1..N : nodes[n] \notin {"refused", "unsent"}}
    BY DEF HandledOnce
  <2>1. IsInjective(handled) /\ ToSet(handled) \subseteq 1..N
    <3>1. handled \in Seq(1..N) /\ IsInjective(handled) BY DEF IInv, Shape
    <3>2. \A S : \A s \in Seq(S) : \A j \in DOMAIN s : s[j] \in S OBVIOUS
    <3>3. \A j \in DOMAIN handled : handled[j] \in 1..N BY <3>1, <3>2
    <3> QED BY <3>1, <3>3 DEF ToSet
  <2>2. \A n \in 1..N : n \in ToSet(handled) <=> nodes[n] \notin {"refused", "unsent"}
    BY <1>2 DEF Reached
  <2> QED BY <2>1, <2>2
<1> QED BY <1>1, <1>3, <1>4 DEF ChannelsExact

(* p_netEval (nl-sock.c), for any number of nodes, any timeout and *)
(* whatever the nodes do: when it returns, each node's result is its own *)
(* and whole, or nil when the time was over; the handler was called once *)
(* with each node that was reached.  No socket is open then, nor when it *)
(* ends with an error, but for those of a node that is no list (:1621) and *)
(* of a timeout that is no number (:1697), which it does not guard. *)
THEOREM AnswersKept ==
  ASSUME NetEvalAssumption
  PROVE  NetEvalSpec => []ChannelsExact
<1>1. NetEvalInit => IInv BY InitInv
<1>2. IInv /\ [NetEvalNext]_netEvalVars => IInv' BY StepInv
<1>3. IInv => ChannelsExact BY InvExact
<1> QED BY <1>1, <1>2, <1>3, PTL DEF NetEvalSpec

----------------------------------------
(* NetSessions: the list of sessions and what is open. *)
Kinds == {"file", "pipe", "stream", "dgram", "listen"}
\* Entries for n objects.
EntryOf(n) == [handle : Fds, object : 1..n, family : {"unspec", "inet", "unix", "none"}, stream : Nat]

\* The first entry of f in s is for o.
FirstIs(s, f, o) == \E c \in 1..Len(s) : /\ s[c].handle = f /\ s[c].object = o
                                         /\ \A j \in 1..(c - 1) : s[j].handle # f

SessionsTyped(k, ks, s, h, l, st) ==
  /\ ks \in Seq(Kinds) /\ s \in Seq(EntryOf(Len(ks)))
  /\ k \in [Fds -> 0..Len(ks)] /\ h \in [Fds -> 0..Len(ks)]
  /\ l \subseteq 1..Len(ks) /\ st \subseteq 1..Len(ks)

\* SessionsExact, without CHOOSE; and a stream is the handle's own, so that
\* closing it closes the handle.
SessionsKnown(k, s, h, l, st) ==
  /\ \A f \in Fds : h[f] # 0 => k[f] = h[f] /\ FirstIs(s, f, h[f])
  /\ \A f \in Fds : k[f] \in {0, h[f]} \cup l
  /\ \A c \in 1..Len(s) : s[c].object \in st \/ h[s[c].handle] = s[c].object
  /\ \A c, j \in 1..Len(s) : s[c].object = s[j].object => c = j
  /\ \A c \in 1..Len(s) : s[c].stream \in {0, s[c].handle}

SessionsInv == /\ SessionsTyped(kernel, kind, sessions, held, lost, stale)
               /\ SessionsKnown(kernel, sessions, held, lost, stale)

\* A set of numbers has a least one.
LEMMA Smallest ==
  ASSUME NEW S \in SUBSET Nat, S # {}
  PROVE  \E n \in S : \A m \in S : n <= m
<1>1. PICK n \in S : \A m \in S : <<m, n>> \notin OpToRel(<, Nat)
  BY WFMin, NatLessThanWellFounded, Zenon
<1>2. \A m \in S : ~(m < n) BY <1>1 DEF OpToRel
<1> QED BY <1>2

\* The kernel gives away a number that is free.
LEMMA LowestFree ==
  ASSUME Fds \subseteq Nat \ {0}, Soc!Free # {}
  PROVE  Soc!Lowest \in Fds /\ kernel[Soc!Lowest] = 0 /\ Soc!Lowest # 0
<1>1. Soc!Free \in SUBSET Nat BY DEF Soc!Free
<1>2. \E f \in Soc!Free : \A g \in Soc!Free : f <= g BY ONLY <1>1, Soc!Free # {}, Smallest
<1>3. Soc!Lowest \in Soc!Free BY ONLY <1>2 DEF Soc!Lowest
<1> QED BY <1>3 DEF Soc!Free

\* What First chooses.
LEMMA FirstFound ==
  ASSUME NEW E, NEW s \in Seq(E), NEW f, Soc!isSessionSocket(s, f)
  PROVE  /\ Soc!First(s, f) \in 1..Len(s) /\ s[Soc!First(s, f)].handle = f
         /\ \A j \in 1..(Soc!First(s, f) - 1) : s[j].handle # f
<1>1. Soc!Entries(s, f) \in SUBSET Nat /\ Soc!Entries(s, f) # {}
  BY DEF Soc!Entries, Soc!isSessionSocket
<1>2. \E c \in Soc!Entries(s, f) : \A j \in Soc!Entries(s, f) : c <= j BY ONLY <1>1, Smallest
<1>3. PICK k : k = Soc!First(s, f) OBVIOUS
<1>4. k \in Soc!Entries(s, f) /\ \A j \in Soc!Entries(s, f) : k <= j BY ONLY <1>2, <1>3 DEF Soc!First
<1>5. k \in 1..Len(s) /\ s[k].handle = f BY ONLY <1>4, s \in Seq(E) DEF Soc!Entries
<1>6. \A j \in 1..(k - 1) : s[j].handle # f BY ONLY <1>4, <1>5, s \in Seq(E) DEF Soc!Entries
<1> QED BY ONLY <1>3, <1>5, <1>6

\* First and FirstIs mean the same.
LEMMA FirstMeans ==
  ASSUME NEW E, NEW s \in Seq(E), NEW f, NEW o
  PROVE  FirstIs(s, f, o) <=> (Soc!isSessionSocket(s, f) /\ s[Soc!First(s, f)].object = o)
<1>1. ASSUME FirstIs(s, f, o) PROVE Soc!isSessionSocket(s, f) /\ s[Soc!First(s, f)].object = o
  <2>1. PICK c \in 1..Len(s) : /\ s[c].handle = f /\ s[c].object = o
                               /\ \A j \in 1..(c - 1) : s[j].handle # f BY <1>1 DEF FirstIs
  <2>2. c \in Soc!Entries(s, f) BY <2>1 DEF Soc!Entries
  <2>3. Soc!isSessionSocket(s, f) BY <2>2 DEF Soc!isSessionSocket
  <2>4. PICK k : k = Soc!First(s, f) OBVIOUS
  <2>5. k \in 1..Len(s) /\ s[k].handle = f /\ \A j \in 1..(k - 1) : s[j].handle # f
    BY ONLY s \in Seq(E), <2>3, <2>4, FirstFound
  <2>6. k = c
    <3>1. ~(k < c) BY ONLY <2>1, <2>5
    <3>2. ~(c < k) BY ONLY <2>1, <2>5
    <3> QED BY ONLY <3>1, <3>2, <2>5, c \in 1..Len(s), s \in Seq(E)
  <2> QED BY ONLY <2>1, <2>3, <2>4, <2>6
<1>2. ASSUME Soc!isSessionSocket(s, f), s[Soc!First(s, f)].object = o PROVE FirstIs(s, f, o)
  BY <1>2, FirstFound DEF FirstIs
<1> QED BY <1>1, <1>2

\* An entry at the head.
HeadedBy(E, s, e, t) ==
  /\ t \in Seq(E) /\ Len(t) = Len(s) + 1 /\ t[1] = e
  /\ \A c \in 1..Len(s) : t[c + 1] = s[c]
  /\ FirstIs(t, e.handle, e.object)
  /\ \A f, o : FirstIs(s, f, o) /\ f # e.handle => FirstIs(t, f, o)
\* <<e>> \o s is headed by e.
LEMMA Headed ==
  ASSUME NEW E, NEW s \in Seq(E), NEW e \in E, NEW t, t = <<e>> \o s
  PROVE  HeadedBy(E, s, e, t)
<1>1. /\ t \in Seq(E) /\ Len(t) = Len(s) + 1 /\ t[1] = e
      /\ \A c \in 1..Len(s) : t[c + 1] = s[c] OBVIOUS
<1>2. FirstIs(t, e.handle, e.object)
  <2>1. 1 \in 1..Len(t) /\ \A j \in 1..(1 - 1) : FALSE BY ONLY <1>1, s \in Seq(E)
  <2> QED BY ONLY <1>1, <2>1 DEF FirstIs
<1>3. ASSUME NEW f, NEW o, FirstIs(s, f, o), f # e.handle PROVE FirstIs(t, f, o)
  <2>1. PICK c \in 1..Len(s) : /\ s[c].handle = f /\ s[c].object = o
                               /\ \A j \in 1..(c - 1) : s[j].handle # f BY <1>3 DEF FirstIs
  <2>2. c + 1 \in 1..Len(t) /\ t[c + 1].handle = f /\ t[c + 1].object = o
    BY ONLY <1>1, <2>1, s \in Seq(E)
  <2>3. ASSUME NEW j \in 1..((c + 1) - 1) PROVE t[j].handle # f
    <3>1. CASE j = 1 BY ONLY <1>1, <1>3, <3>1
    <3>2. CASE j # 1
      <4>1. j - 1 \in 1..(c - 1) /\ j - 1 \in 1..Len(s) /\ (j - 1) + 1 = j
        BY ONLY <3>2, c \in 1..Len(s), s \in Seq(E)
      <4>2. t[j] = s[j - 1] BY ONLY <1>1, <4>1
      <4> QED BY ONLY <2>1, <4>1, <4>2
    <3> QED BY <3>1, <3>2
  <2> QED BY ONLY <2>2, <2>3 DEF FirstIs
<1> QED BY ONLY <1>1, <1>2, <1>3 DEF HeadedBy

\* Where an element was before that at k was taken out.
Place(k, j) == IF j < k THEN j ELSE j + 1
\* Taking out the element at k.
CutAt(E, s, k, t) ==
  /\ t \in Seq(E) /\ Len(t) = Len(s) - 1
  /\ \A j \in 1..Len(t) : Place(k, j) \in (1..Len(s)) \ {k} /\ t[j] = s[Place(k, j)]
\* What cutting leaves.
LEMMA CutFacts ==
  ASSUME NEW E, NEW s \in Seq(E), NEW k \in 1..Len(s),
         NEW t, t = SubSeq(s, 1, k - 1) \o SubSeq(s, k + 1, Len(s))
  PROVE  CutAt(E, s, k, t)
<1>1. PICK n : n = Len(s) /\ n \in Nat /\ k \in 1..n /\ \A c \in 1..n : s[c] \in E
  BY ONLY s \in Seq(E), k \in 1..Len(s)
<1>2. PICK a, b : a = SubSeq(s, 1, k - 1) /\ b = SubSeq(s, k + 1, n) OBVIOUS
<1>3. a \in Seq(E) /\ Len(a) = k - 1 /\ \A c \in 1..(k - 1) : a[c] = s[c]
  BY ONLY <1>1, <1>2, s \in Seq(E)
<1>4. b \in Seq(E) /\ Len(b) = n - k /\ \A c \in 1..(n - k) : b[c] = s[k + c]
  BY ONLY <1>1, <1>2, s \in Seq(E)
<1>5. t = a \o b BY ONLY t = SubSeq(s, 1, k - 1) \o SubSeq(s, k + 1, Len(s)), <1>1, <1>2
<1>6. t \in Seq(E) BY ONLY <1>3, <1>4, <1>5
<1>7. Len(t) = Len(a) + Len(b) BY ONLY <1>3, <1>4, <1>5, ConcatProperties
<1>8. Len(t) = n - 1 BY ONLY <1>1, <1>3, <1>4, <1>7
<1>9. ASSUME NEW j \in 1..Len(t) PROVE Place(k, j) \in (1..n) \ {k} /\ t[j] = s[Place(k, j)]
  <2>1. CASE j < k
    <3>1. j \in 1..Len(a) /\ j \in 1..(k - 1) BY ONLY <1>1, <1>3, <1>8, <2>1
    <3>2. t[j] = a[j] BY ONLY <1>3, <1>4, <1>5, <3>1
    <3> QED BY ONLY <1>1, <1>3, <2>1, <3>1, <3>2 DEF Place
  <2>2. CASE ~(j < k)
    <3>1. j - Len(a) \in 1..Len(b) /\ j - Len(a) \in 1..(n - k) /\ k + (j - Len(a)) = j + 1
      BY ONLY <1>1, <1>3, <1>4, <1>8, <2>2
    <3>2. j \in Nat /\ Len(a) < j /\ j <= Len(a) + Len(b) BY ONLY <1>1, <1>3, <1>7, <1>8, <2>2, <3>1
    <3>3. t[j] = b[j - Len(a)] BY ONLY <1>3, <1>4, <1>5, <3>2
    <3>4. t[j] = s[j + 1] BY ONLY <1>4, <3>1, <3>3
    <3>5. Place(k, j) = j + 1 BY ONLY <2>2 DEF Place
    <3>6. j + 1 \in (1..n) \ {k} BY ONLY <1>1, <1>8, <2>2
    <3> QED BY ONLY <3>4, <3>5, <3>6
  <2> QED BY <2>1, <2>2
<1> QED BY ONLY <1>1, <1>6, <1>8, <1>9 DEF CutAt

\* The first entry of f is removed.
Without(E, s, f, t, k) ==
  /\ t \in Seq(E) /\ Len(t) = Len(s) - 1 /\ k \in 1..Len(s)
  /\ \A j \in 1..Len(t) : Place(k, j) \in (1..Len(s)) \ {k} /\ t[j] = s[Place(k, j)]
  /\ \A g, o : FirstIs(s, g, o) /\ g # f => FirstIs(t, g, o)
\* What RemoveSession leaves.
LEMMA Removed ==
  ASSUME NEW E, NEW s \in Seq(E), NEW f, Soc!isSessionSocket(s, f), NEW t, t = Soc!RemoveSession(s, f),
         NEW k, k = Soc!First(s, f)
  PROVE  Without(E, s, f, t, k)
<1>1. k \in 1..Len(s) /\ s[k].handle = f BY FirstFound
<1>2. t = SubSeq(s, 1, k - 1) \o SubSeq(s, k + 1, Len(s)) BY DEF Soc!RemoveSession, Soc!RemoveAt
<1>3. PICK n : n = Len(s) /\ n \in Nat /\ k \in 1..n BY ONLY <1>1, s \in Seq(E)
<1>4. CutAt(E, s, k, t) BY ONLY <1>1, <1>2, s \in Seq(E), CutFacts
<1>5. t \in Seq(E) BY ONLY <1>4 DEF CutAt
<1>6. Len(t) = n - 1 BY ONLY <1>3, <1>4 DEF CutAt
<1>7. \A j \in 1..Len(t) : Place(k, j) \in (1..n) \ {k} /\ t[j] = s[Place(k, j)]
  BY ONLY <1>3, <1>4 DEF CutAt
<1>8. ASSUME NEW g, NEW o, FirstIs(s, g, o), g # f PROVE FirstIs(t, g, o)
  <2>1. PICK c \in 1..Len(s) : /\ s[c].handle = g /\ s[c].object = o
                               /\ \A j \in 1..(c - 1) : s[j].handle # g BY <1>8 DEF FirstIs
  <2>2. c # k BY ONLY <1>1, <1>8, <2>1
  <2>3. PICK m : m = IF c < k THEN c ELSE c - 1 OBVIOUS
  <2>4. m \in 1..Len(t) /\ Place(k, m) = c BY ONLY <1>3, <1>6, <2>2, <2>3, c \in 1..Len(s), s \in Seq(E) DEF Place
  <2>5. t[m].handle = g /\ t[m].object = o BY ONLY <1>7, <1>3, <2>1, <2>4
  <2>6. ASSUME NEW j \in 1..(m - 1) PROVE t[j].handle # g
    <3>1. j \in 1..Len(t) /\ Place(k, j) \in 1..(c - 1)
      BY ONLY <1>3, <1>6, <2>2, <2>3, <2>4, c \in 1..Len(s), s \in Seq(E) DEF Place
    <3> QED BY ONLY <1>7, <1>3, <2>1, <3>1
  <2> QED BY ONLY <2>4, <2>5, <2>6 DEF FirstIs
<1> QED BY ONLY <1>3, <1>5, <1>6, <1>7, <1>8 DEF Without

Families == {"unspec", "inet", "unix", "none"}

\* A new object, what it is, and the types.
One(k, ks, s, h, l, st, ks2, n) ==
  /\ SessionsTyped(k, ks2, s, h, l, st) /\ Len(ks2) = n /\ n \in Nat \ {0} /\ n \notin 0..Len(ks)
  /\ SessionsTyped(k, ks2, s, h, l \cup {n}, st) /\ SessionsTyped(k, ks2, s, h, l, st \cup {n})
  /\ \A c \in 1..Len(s) : s[c].object # n /\ s[c].handle \in Fds /\ s[c].object # 0
  /\ \A f \in Fds : h[f] # n /\ k[f] # n
\* One more object keeps the types.
LEMMA Another ==
  ASSUME NEW k, NEW ks, NEW s, NEW h, NEW l, NEW st, SessionsTyped(k, ks, s, h, l, st),
         NEW what \in Kinds, NEW n, n = Len(ks) + 1, NEW ks2, ks2 = Append(ks, what)
  PROVE  One(k, ks, s, h, l, st, ks2, n)
<1>1. /\ ks \in Seq(Kinds) /\ s \in Seq(EntryOf(Len(ks)))
      /\ k \in [Fds -> 0..Len(ks)] /\ h \in [Fds -> 0..Len(ks)]
      /\ l \subseteq 1..Len(ks) /\ st \subseteq 1..Len(ks) BY DEF SessionsTyped
<1>2. ks2 \in Seq(Kinds) /\ Len(ks2) = n /\ Len(ks) \in Nat BY <1>1
<1>3. n \in Nat \ {0} /\ n \notin 0..Len(ks) /\ 0..Len(ks) \subseteq 0..n /\ 1..Len(ks) \subseteq 1..n /\ n \in 1..n
  BY <1>2
<1>4. s \in Seq(EntryOf(n))
  <2>1. EntryOf(Len(ks)) \subseteq EntryOf(n) BY ONLY <1>3 DEF EntryOf
  <2>2. PICK E, F : E = EntryOf(Len(ks)) /\ F = EntryOf(n) OBVIOUS
  <2>3. E \subseteq F /\ s \in Seq(E) BY ONLY <1>1, <2>1, <2>2
  <2>4. s \in Seq(F) BY ONLY <2>3
  <2> QED BY ONLY <2>2, <2>4
<1>5. k \in [Fds -> 0..n] /\ h \in [Fds -> 0..n] BY ONLY <1>1, <1>3
<1>6. \A c \in 1..Len(s) : s[c] \in EntryOf(Len(ks)) BY ONLY <1>1
<1>7. \A c \in 1..Len(s) : s[c].object # n /\ s[c].handle \in Fds /\ s[c].object # 0
  BY ONLY <1>3, <1>6, <1>2 DEF EntryOf
<1>8. \A f \in Fds : h[f] # n /\ k[f] # n BY ONLY <1>1, <1>3
<1>9. l \subseteq 1..n /\ st \subseteq 1..n /\ l \cup {n} \subseteq 1..n /\ st \cup {n} \subseteq 1..n
  BY ONLY <1>1, <1>3
<1>10. /\ SessionsTyped(k, ks2, s, h, l, st)
       /\ SessionsTyped(k, ks2, s, h, l \cup {n}, st) /\ SessionsTyped(k, ks2, s, h, l, st \cup {n})
  BY ONLY <1>2, <1>4, <1>5, <1>9 DEF SessionsTyped
<1> QED BY ONLY <1>2, <1>3, <1>7, <1>8, <1>10 DEF One

\* An entry for a new object at the head, which the program holds or which is stale.
Fresh(s, t, f, n, fam, str) == t = <<Soc!Entry(f, n, fam, str)>> \o s
Freshly(s, t, f, n, str) ==
  /\ t \in Seq(EntryOf(n)) /\ Len(t) = Len(s) + 1 /\ Len(s) \in Nat
  /\ t[1].handle = f /\ t[1].object = n /\ t[1].stream = str
  /\ \A c \in 1..Len(s) : t[c + 1] = s[c]
  /\ \A c \in 1..Len(t) : c = 1 \/ (c - 1 \in 1..Len(s) /\ t[c] = s[c - 1])
  /\ FirstIs(t, f, n) /\ \A g, o : FirstIs(s, g, o) /\ g # f => FirstIs(t, g, o)
\* What putting it there keeps.
LEMMA FreshFacts ==
  ASSUME NEW n \in Nat \ {0}, NEW s \in Seq(EntryOf(n)), NEW f \in Fds, NEW fam \in Families, NEW str \in {0, f},
         Fds \subseteq Nat \ {0}, NEW t, Fresh(s, t, f, n, fam, str)
  PROVE  Freshly(s, t, f, n, str)
<1>1. PICK e : e = Soc!Entry(f, n, fam, str) OBVIOUS
<1>2. e \in EntryOf(n) /\ e.handle = f /\ e.object = n /\ e.stream = str
  BY <1>1 DEF Soc!Entry, EntryOf, Families
<1>3. t = <<e>> \o s BY <1>1 DEF Fresh
<1>4. PICK E : E = EntryOf(n) OBVIOUS
<1>5. s \in Seq(E) /\ e \in E BY ONLY <1>2, <1>4, s \in Seq(EntryOf(n))
<1>6. HeadedBy(E, s, e, t) BY ONLY <1>3, <1>5, Headed
<1>7. /\ t \in Seq(E) /\ Len(t) = Len(s) + 1 /\ t[1] = e
      /\ \A c \in 1..Len(s) : t[c + 1] = s[c]
      /\ FirstIs(t, e.handle, e.object)
      /\ \A g, o : FirstIs(s, g, o) /\ g # e.handle => FirstIs(t, g, o) BY ONLY <1>6 DEF HeadedBy
<1>8. Len(s) \in Nat BY ONLY <1>5
<1>9. \A c \in 1..Len(t) : c = 1 \/ (c - 1 \in 1..Len(s) /\ t[c] = s[c - 1])
  <2> SUFFICES ASSUME NEW c \in 1..Len(t), c # 1 PROVE c - 1 \in 1..Len(s) /\ t[c] = s[c - 1] OBVIOUS
  <2>1. c - 1 \in 1..Len(s) /\ (c - 1) + 1 = c BY ONLY <1>7, <1>8, c # 1, c \in 1..Len(t)
  <2> QED BY ONLY <1>7, <2>1
<1> QED BY ONLY <1>2, <1>4, <1>7, <1>8, <1>9 DEF Freshly

\* A table of descriptors is changed; the stream of an entry.
SetTo(k, f, n, k2) == k2 = [k EXCEPT ![f] = n]
StreamOf(str, f) == str \in {0, f}
\* A descriptor is made, listed and given to the program.
LEMMA Added ==
  ASSUME NEW k, NEW ks, NEW s, NEW h, NEW l, NEW st,
         SessionsTyped(k, ks, s, h, l, st), SessionsKnown(k, s, h, l, st), Fds \subseteq Nat \ {0},
         NEW f \in Fds, k[f] = 0, NEW what \in Kinds, NEW n, n = Len(ks) + 1,
         NEW fam \in Families, NEW str, StreamOf(str, f),
         NEW t, Fresh(s, t, f, n, fam, str), NEW k2, SetTo(k, f, n, k2), NEW h2, SetTo(h, f, n, h2),
         NEW ks2, ks2 = Append(ks, what)
  PROVE  SessionsTyped(k2, ks2, t, h2, l, st) /\ SessionsKnown(k2, t, h2, l, st)
<1>0. str \in {0, f} BY DEF StreamOf
<1>1. /\ SessionsTyped(k, ks2, s, h, l, st) /\ Len(ks2) = n /\ n \in Nat \ {0}
      /\ \A c \in 1..Len(s) : s[c].object # n /\ s[c].handle \in Fds /\ s[c].object # 0
      /\ \A g \in Fds : h[g] # n /\ k[g] # n
  <2>1. One(k, ks, s, h, l, st, ks2, n)
    BY ONLY SessionsTyped(k, ks, s, h, l, st), what \in Kinds, n = Len(ks) + 1, ks2 = Append(ks, what), Another
  <2> QED BY ONLY <2>1 DEF One
<1>2. /\ ks2 \in Seq(Kinds) /\ s \in Seq(EntryOf(n)) /\ k \in [Fds -> 0..n] /\ h \in [Fds -> 0..n]
      /\ l \subseteq 1..n /\ st \subseteq 1..n BY ONLY <1>1 DEF SessionsTyped
<1>3. /\ t \in Seq(EntryOf(n)) /\ Len(t) = Len(s) + 1 /\ Len(s) \in Nat
      /\ t[1].handle = f /\ t[1].object = n /\ t[1].stream = str
      /\ \A c \in 1..Len(s) : t[c + 1] = s[c]
      /\ \A c \in 1..Len(t) : c = 1 \/ (c - 1 \in 1..Len(s) /\ t[c] = s[c - 1])
      /\ FirstIs(t, f, n) /\ \A g, o : FirstIs(s, g, o) /\ g # f => FirstIs(t, g, o)
  <2>1. n \in Nat \ {0} /\ s \in Seq(EntryOf(n)) BY ONLY <1>1, <1>2
  <2>2. Freshly(s, t, f, n, str)
    BY ONLY <1>0, <2>1, f \in Fds, fam \in Families, Fds \subseteq Nat \ {0},
            Fresh(s, t, f, n, fam, str), FreshFacts
  <2> QED BY ONLY <2>2 DEF Freshly
<1>4. /\ k2 \in [Fds -> 0..n] /\ h2 \in [Fds -> 0..n] /\ k2[f] = n /\ h2[f] = n
      /\ \A g \in Fds \ {f} : k2[g] = k[g] /\ h2[g] = h[g]
  BY ONLY <1>1, <1>2, f \in Fds, SetTo(k, f, n, k2), SetTo(h, f, n, h2) DEF SetTo
<1>5. SessionsTyped(k2, ks2, t, h2, l, st) BY ONLY <1>1, <1>2, <1>3, <1>4 DEF SessionsTyped
<1>6. /\ \A g \in Fds : h[g] # 0 => k[g] = h[g] /\ FirstIs(s, g, h[g])
      /\ \A g \in Fds : k[g] \in {0, h[g]} \cup l
      /\ \A c \in 1..Len(s) : s[c].object \in st \/ h[s[c].handle] = s[c].object
      /\ \A c, j \in 1..Len(s) : s[c].object = s[j].object => c = j
      /\ \A c \in 1..Len(s) : s[c].stream \in {0, s[c].handle}
  BY ONLY SessionsKnown(k, s, h, l, st) DEF SessionsKnown
<1>7. h[f] = 0 BY ONLY <1>6, f \in Fds, k[f] = 0
<1>8. \A g \in Fds : h2[g] # 0 => k2[g] = h2[g] /\ FirstIs(t, g, h2[g]) BY ONLY <1>3, <1>4, <1>6
<1>9. \A g \in Fds : k2[g] \in {0, h2[g]} \cup l BY ONLY <1>4, <1>6
<1>10. ASSUME NEW c \in 1..Len(t) PROVE t[c].object \in st \/ h2[t[c].handle] = t[c].object
  <2>1. CASE c = 1 BY ONLY <1>3, <1>4, <2>1
  <2>2. CASE c # 1
    <3>1. PICK a : a = c - 1 OBVIOUS
    <3>2. a \in 1..Len(s) /\ t[c] = s[a] BY ONLY <1>3, <2>2, <3>1, c \in 1..Len(t)
    <3>3. s[a].object \in st \/ h[s[a].handle] = s[a].object BY ONLY <1>6, <3>2
    <3>4. s[a].handle \in Fds /\ s[a].object # 0 BY ONLY <1>1, <3>2
    <3>5. h[s[a].handle] = s[a].object => s[a].handle # f BY ONLY <1>7, <3>4
    <3> QED BY ONLY <1>4, <3>2, <3>3, <3>4, <3>5
  <2> QED BY <2>1, <2>2
<1>11. \A c, j \in 1..Len(t) : t[c].object = t[j].object => c = j
  <2> SUFFICES ASSUME NEW c \in 1..Len(t), NEW j \in 1..Len(t), t[c].object = t[j].object PROVE c = j OBVIOUS
  <2>1. CASE c = 1 /\ j = 1 BY ONLY <2>1
  <2>2. CASE c # 1 /\ j # 1
    <3>1. PICK a, b : a = c - 1 /\ b = j - 1 OBVIOUS
    <3>2. /\ a \in 1..Len(s) /\ t[c] = s[a] /\ b \in 1..Len(s) /\ t[j] = s[b]
      BY ONLY <1>3, <2>2, <3>1, c \in 1..Len(t), j \in 1..Len(t)
    <3>3. a = b BY ONLY <1>6, <3>2, t[c].object = t[j].object
    <3> QED BY ONLY <3>1, <3>3, c \in 1..Len(t), j \in 1..Len(t)
  <2>3. CASE c = 1 /\ j # 1
    <3>1. j - 1 \in 1..Len(s) /\ t[j] = s[j - 1] BY ONLY <1>3, <2>3, j \in 1..Len(t)
    <3> QED BY ONLY <1>1, <1>3, <2>3, <3>1, t[c].object = t[j].object
  <2>4. CASE c # 1 /\ j = 1
    <3>1. c - 1 \in 1..Len(s) /\ t[c] = s[c - 1] BY ONLY <1>3, <2>4, c \in 1..Len(t)
    <3> QED BY ONLY <1>1, <1>3, <2>4, <3>1, t[c].object = t[j].object
  <2> QED BY ONLY <2>1, <2>2, <2>3, <2>4
<1>12. \A c \in 1..Len(t) : t[c].stream \in {0, t[c].handle} BY ONLY <1>0, <1>3, <1>6
<1> QED BY ONLY <1>5, <1>8, <1>9, <1>10, <1>11, <1>12 DEF SessionsKnown

\* A descriptor is made and forgotten.
LEMMA Dropped ==
  ASSUME NEW k, NEW ks, NEW s, NEW h, NEW l, NEW st,
         SessionsTyped(k, ks, s, h, l, st), SessionsKnown(k, s, h, l, st),
         NEW f \in Fds, k[f] = 0, NEW what \in Kinds, NEW n, n = Len(ks) + 1,
         NEW k2, k2 = [k EXCEPT ![f] = n], NEW ks2, ks2 = Append(ks, what)
  PROVE  SessionsTyped(k2, ks2, s, h, l \cup {n}, st) /\ SessionsKnown(k2, s, h, l \cup {n}, st)
<1>1. /\ SessionsTyped(k, ks2, s, h, l \cup {n}, st) /\ Len(ks2) = n /\ n \in Nat \ {0}
  <2>1. One(k, ks, s, h, l, st, ks2, n)
    BY ONLY SessionsTyped(k, ks, s, h, l, st), what \in Kinds, n = Len(ks) + 1, ks2 = Append(ks, what), Another
  <2> QED BY ONLY <2>1 DEF One
<1>2. k \in [Fds -> 0..n] BY ONLY <1>1 DEF SessionsTyped
<1>3. k2 \in [Fds -> 0..n] /\ k2[f] = n /\ \A g \in Fds \ {f} : k2[g] = k[g]
  BY ONLY <1>1, <1>2, f \in Fds, k2 = [k EXCEPT ![f] = n]
<1>4. SessionsTyped(k2, ks2, s, h, l \cup {n}, st) BY ONLY <1>1, <1>3 DEF SessionsTyped
<1>5. SessionsKnown(k2, s, h, l \cup {n}, st)
  BY ONLY SessionsKnown(k, s, h, l, st), k[f] = 0, f \in Fds, <1>3 DEF SessionsKnown
<1> QED BY ONLY <1>4, <1>5

\* An entry is left for a descriptor that is closed.
LEMMA LeftStale ==
  ASSUME NEW k, NEW ks, NEW s, NEW h, NEW l, NEW st,
         SessionsTyped(k, ks, s, h, l, st), SessionsKnown(k, s, h, l, st), Fds \subseteq Nat \ {0},
         NEW f \in Fds, k[f] = 0, NEW what \in Kinds, NEW n, n = Len(ks) + 1, NEW fam \in Families,
         NEW t, Fresh(s, t, f, n, fam, 0), NEW ks2, ks2 = Append(ks, what)
  PROVE  SessionsTyped(k, ks2, t, h, l, st \cup {n}) /\ SessionsKnown(k, t, h, l, st \cup {n})
<1>1. /\ SessionsTyped(k, ks2, s, h, l, st \cup {n}) /\ Len(ks2) = n /\ n \in Nat \ {0}
      /\ \A c \in 1..Len(s) : s[c].object # n /\ s[c].handle \in Fds /\ s[c].object # 0
  <2>1. One(k, ks, s, h, l, st, ks2, n)
    BY ONLY SessionsTyped(k, ks, s, h, l, st), what \in Kinds, n = Len(ks) + 1, ks2 = Append(ks, what), Another
  <2> QED BY ONLY <2>1 DEF One
<1>2. s \in Seq(EntryOf(n)) BY ONLY <1>1 DEF SessionsTyped
<1>3. /\ t \in Seq(EntryOf(n)) /\ Len(t) = Len(s) + 1 /\ Len(s) \in Nat
      /\ t[1].handle = f /\ t[1].object = n /\ t[1].stream = 0
      /\ \A c \in 1..Len(s) : t[c + 1] = s[c]
      /\ \A c \in 1..Len(t) : c = 1 \/ (c - 1 \in 1..Len(s) /\ t[c] = s[c - 1])
      /\ FirstIs(t, f, n) /\ \A g, o : FirstIs(s, g, o) /\ g # f => FirstIs(t, g, o)
  <2>1. n \in Nat \ {0} /\ 0 \in {0, f} /\ s \in Seq(EntryOf(n)) BY ONLY <1>1, <1>2
  <2>2. Freshly(s, t, f, n, 0)
    BY ONLY <2>1, f \in Fds, fam \in Families, Fds \subseteq Nat \ {0}, Fresh(s, t, f, n, fam, 0), FreshFacts
  <2> QED BY ONLY <2>2 DEF Freshly
<1>4. SessionsTyped(k, ks2, t, h, l, st \cup {n}) BY ONLY <1>1, <1>3 DEF SessionsTyped
<1>6. /\ \A g \in Fds : h[g] # 0 => k[g] = h[g] /\ FirstIs(s, g, h[g])
      /\ \A g \in Fds : k[g] \in {0, h[g]} \cup l
      /\ \A c \in 1..Len(s) : s[c].object \in st \/ h[s[c].handle] = s[c].object
      /\ \A c, j \in 1..Len(s) : s[c].object = s[j].object => c = j
      /\ \A c \in 1..Len(s) : s[c].stream \in {0, s[c].handle}
  BY ONLY SessionsKnown(k, s, h, l, st) DEF SessionsKnown
<1>7. \A g \in Fds : h[g] # 0 => g # f /\ k[g] = h[g] /\ FirstIs(t, g, h[g]) BY ONLY <1>3, <1>6, k[f] = 0
<1>8. \A c \in 1..Len(t) : t[c].object \in st \cup {n} \/ h[t[c].handle] = t[c].object
  BY ONLY <1>3, <1>6
<1>9. \A c, j \in 1..Len(t) : t[c].object = t[j].object => c = j
  <2> SUFFICES ASSUME NEW c \in 1..Len(t), NEW j \in 1..Len(t), t[c].object = t[j].object PROVE c = j OBVIOUS
  <2>1. CASE c = 1 /\ j = 1 BY ONLY <2>1
  <2>2. CASE c # 1 /\ j # 1
    <3>1. PICK a, b : a = c - 1 /\ b = j - 1 OBVIOUS
    <3>2. /\ a \in 1..Len(s) /\ t[c] = s[a] /\ b \in 1..Len(s) /\ t[j] = s[b]
      BY ONLY <1>3, <2>2, <3>1, c \in 1..Len(t), j \in 1..Len(t)
    <3>3. a = b BY ONLY <1>6, <3>2, t[c].object = t[j].object
    <3> QED BY ONLY <3>1, <3>3, c \in 1..Len(t), j \in 1..Len(t)
  <2>3. CASE c = 1 /\ j # 1
    <3>1. j - 1 \in 1..Len(s) /\ t[j] = s[j - 1] BY ONLY <1>3, <2>3, j \in 1..Len(t)
    <3> QED BY ONLY <1>1, <1>3, <2>3, <3>1, t[c].object = t[j].object
  <2>4. CASE c # 1 /\ j = 1
    <3>1. c - 1 \in 1..Len(s) /\ t[c] = s[c - 1] BY ONLY <1>3, <2>4, c \in 1..Len(t)
    <3> QED BY ONLY <1>1, <1>3, <2>4, <3>1, t[c].object = t[j].object
  <2> QED BY ONLY <2>1, <2>2, <2>3, <2>4
<1>10. \A c \in 1..Len(t) : t[c].stream \in {0, t[c].handle} BY ONLY <1>3, <1>6
<1> QED BY ONLY <1>4, <1>6, <1>7, <1>8, <1>9, <1>10 DEF SessionsKnown

\* The first entry of a number that the program may use is deleted.
LEMMA Deleted ==
  ASSUME SessionsInv, NEW f \in Fds, Soc!Usable(f), Soc!deleteIOsession(f)
  PROVE  SessionsInv'
<1>1. CASE ~Soc!isSessionSocket(sessions, f)
  <2>1. held[f] = 0
    <3>1. held[f] # 0 => FirstIs(sessions, f, held[f]) BY DEF SessionsInv, SessionsKnown
    <3>2. sessions \in Seq(EntryOf(Len(kind))) BY DEF SessionsInv, SessionsTyped
    <3>3. PICK E : E = EntryOf(Len(kind)) OBVIOUS
    <3>4. sessions \in Seq(E) BY ONLY <3>2, <3>3
    <3> QED BY ONLY <1>1, <3>1, <3>4, FirstMeans
  <2>2. held \in [Fds -> 0..Len(kind)] BY DEF SessionsInv, SessionsTyped
  <2>3. held' = held BY ONLY <1>1, <2>1, <2>2, f \in Fds, Soc!deleteIOsession(f) DEF Soc!deleteIOsession
  <2>4. UNCHANGED <<kernel, kind, sessions, lost, stale>>
    BY ONLY <1>1, Soc!deleteIOsession(f) DEF Soc!deleteIOsession, Soc!RemoveSession, Soc!Shut
  <2> QED BY ONLY SessionsInv, <2>3, <2>4 DEF SessionsInv
<1>2. CASE Soc!isSessionSocket(sessions, f)
  <2>1. PICK k, ks, s, h, l, st, E : /\ k = kernel /\ ks = kind /\ s = sessions /\ h = held /\ l = lost
                                     /\ st = stale /\ E = EntryOf(Len(ks)) OBVIOUS
  <2>2. PICK c, t : c = Soc!First(s, f) /\ t = Soc!RemoveSession(s, f) OBVIOUS
  <2>3. /\ ks \in Seq(Kinds) /\ s \in Seq(E) /\ k \in [Fds -> 0..Len(ks)] /\ h \in [Fds -> 0..Len(ks)]
        /\ l \subseteq 1..Len(ks) /\ st \subseteq 1..Len(ks)
    BY ONLY SessionsInv, <2>1 DEF SessionsInv, SessionsTyped
  <2>4. /\ \A g \in Fds : h[g] # 0 => k[g] = h[g] /\ FirstIs(s, g, h[g])
        /\ \A g \in Fds : k[g] \in {0, h[g]} \cup l
        /\ \A j \in 1..Len(s) : s[j].object \in st \/ h[s[j].handle] = s[j].object
        /\ \A j, m \in 1..Len(s) : s[j].object = s[m].object => j = m
        /\ \A j \in 1..Len(s) : s[j].stream \in {0, s[j].handle}
    BY ONLY SessionsInv, <2>1 DEF SessionsInv, SessionsKnown
  <2>5. Soc!isSessionSocket(s, f) BY ONLY <1>2, <2>1
  <2>6. c \in 1..Len(s) /\ s[c].handle = f BY ONLY <2>2, <2>3, <2>5, FirstFound
  <2>7. Without(E, s, f, t, c) BY ONLY <2>2, <2>3, <2>5, Removed
  <2>8. /\ t \in Seq(E) /\ Len(t) = Len(s) - 1
        /\ \A j \in 1..Len(t) : Place(c, j) \in (1..Len(s)) \ {c} /\ t[j] = s[Place(c, j)]
        /\ \A g, o : FirstIs(s, g, o) /\ g # f => FirstIs(t, g, o) BY ONLY <2>7 DEF Without
  <2>9. Soc!Shut(k, s, f) = [k EXCEPT ![f] = 0]
    <3>1. s[c].stream \in {0, f} BY ONLY <2>4, <2>6
    <3> QED BY ONLY <2>2, <2>5, <3>1 DEF Soc!Shut
  <2>10. /\ sessions' = t /\ kernel' = [k EXCEPT ![f] = 0] /\ held' = [h EXCEPT ![f] = 0]
         /\ stale' = st \ {s[c].object} /\ kind' = ks /\ lost' = l
    BY ONLY <2>1, <2>2, <2>5, <2>9, Soc!deleteIOsession(f) DEF Soc!deleteIOsession
  <2>11. /\ kernel' \in [Fds -> 0..Len(ks)] /\ held' \in [Fds -> 0..Len(ks)]
         /\ kernel'[f] = 0 /\ held'[f] = 0
         /\ \A g \in Fds \ {f} : kernel'[g] = k[g] /\ held'[g] = h[g]
    <3>1. 0 \in 0..Len(ks) BY ONLY <2>3
    <3> QED BY ONLY <2>3, <2>10, <3>1, f \in Fds
  <2>12. SessionsTyped(kernel', kind', sessions', held', lost', stale')
    BY ONLY <2>1, <2>3, <2>8, <2>10, <2>11 DEF SessionsTyped
  <2>13. \A g \in Fds : held'[g] # 0 => kernel'[g] = held'[g] /\ FirstIs(t, g, held'[g])
    BY ONLY <2>4, <2>8, <2>11
  <2>14. \A g \in Fds : kernel'[g] \in {0, held'[g]} \cup l BY ONLY <2>4, <2>11
  <2>15. ASSUME NEW j \in 1..Len(t)
         PROVE  t[j].object \in stale' \/ held'[t[j].handle] = t[j].object
    <3>1. PICK m : m = Place(c, j) OBVIOUS
    <3>2. m \in 1..Len(s) /\ m # c /\ t[j] = s[m] BY ONLY <2>8, <3>1
    <3>3. s[m].object # s[c].object BY ONLY <2>4, <2>6, <3>2
    <3>4. CASE s[m].object \in st BY ONLY <2>10, <3>2, <3>3, <3>4
    <3>5. CASE h[s[m].handle] = s[m].object
      <4>1. s[m] \in E BY ONLY <2>3, <3>2
      <4>2. s[m].handle \in Fds /\ s[m].object # 0 BY ONLY <2>1, <4>1 DEF EntryOf
      <4>3. s[m].handle # f
        <5>1. SUFFICES ASSUME s[m].handle = f PROVE FALSE OBVIOUS
        <5>2. h[f] # 0 /\ h[f] = s[m].object BY ONLY <3>5, <4>2, <5>1
        <5>3. FirstIs(s, f, h[f]) BY ONLY <2>4, <5>2, f \in Fds
        <5>4. s[c].object = h[f] BY ONLY <2>2, <2>3, <5>3, FirstMeans
        <5> QED BY ONLY <3>3, <5>2, <5>4
      <4> QED BY ONLY <2>11, <3>2, <3>5, <4>2, <4>3
    <3> QED BY ONLY <2>4, <3>2, <3>4, <3>5
  <2>16. ASSUME NEW j \in 1..Len(t), NEW m \in 1..Len(t), t[j].object = t[m].object PROVE j = m
    <3>1. Place(c, j) = Place(c, m) BY ONLY <2>4, <2>8, <2>16
    <3> QED BY ONLY <3>1, <2>6, <2>8, <2>3, j \in 1..Len(t), m \in 1..Len(t) DEF Place
  <2>17. \A j \in 1..Len(t) : t[j].stream \in {0, t[j].handle} BY ONLY <2>4, <2>8
  <2>18. SessionsKnown(kernel', sessions', held', lost', stale')
    BY ONLY <2>10, <2>13, <2>14, <2>15, <2>16, <2>17 DEF SessionsKnown
  <2> QED BY ONLY <2>12, <2>18 DEF SessionsInv
<1> QED BY <1>1, <1>2

\* A descriptor that the program gets.
LEMMA OpenedKept ==
  ASSUME Fds \subseteq Nat \ {0}, SessionsInv, NEW what \in Kinds, NEW fam \in Families, NEW str \in BOOLEAN,
         Soc!Opened(what, fam, str)
  PROVE  SessionsInv'
<1>1. PICK f, n, d : f = Soc!Lowest /\ n = Soc!New /\ d = IF str THEN Soc!Lowest ELSE 0 OBVIOUS
<1>2. Soc!Free # {} BY DEF Soc!Opened, Soc!MayOpen
<1>3. f \in Fds /\ kernel[f] = 0 BY ONLY <1>1, <1>2, Fds \subseteq Nat \ {0}, LowestFree
<1>4. /\ kind' = Append(kind, what) /\ kernel' = [kernel EXCEPT ![f] = n] /\ held' = [held EXCEPT ![f] = n]
      /\ Fresh(sessions, sessions', f, n, fam, d) /\ n = Len(kind) + 1 /\ lost' = lost /\ stale' = stale
  BY ONLY <1>1, Soc!Opened(what, fam, str) DEF Soc!Opened, Soc!createIOsession, Soc!New, Fresh
<1>5. d \in {0, f} BY ONLY <1>1
<1>6. /\ SessionsTyped(kernel, kind, sessions, held, lost, stale)
      /\ SessionsKnown(kernel, sessions, held, lost, stale) BY DEF SessionsInv
<1>7. /\ SessionsTyped(kernel', kind', sessions', held', lost, stale)
      /\ SessionsKnown(kernel', sessions', held', lost, stale)
  <2>1. PICK k, h, k2, h2, ks2, t : /\ k = kernel /\ h = held /\ k2 = kernel' /\ h2 = held'
                                    /\ ks2 = kind' /\ t = sessions' OBVIOUS
  <2>2. SetTo(k, f, n, k2) BY ONLY <1>4, <2>1 DEF SetTo
  <2>3. SetTo(h, f, n, h2) BY ONLY <1>4, <2>1 DEF SetTo
  <2>4. ks2 = Append(kind, what) BY ONLY <1>4, <2>1
  <2>5. Fresh(sessions, t, f, n, fam, d) BY ONLY <1>4, <2>1
  <2>6. n = Len(kind) + 1 BY ONLY <1>4
  <2>7. f \in Fds /\ k[f] = 0 BY ONLY <1>3, <2>1
  <2>8. SessionsTyped(k, kind, sessions, h, lost, stale) BY ONLY <1>6, <2>1
  <2>9. SessionsKnown(k, sessions, h, lost, stale) BY ONLY <1>6, <2>1
  <2>10. SessionsTyped(k2, ks2, t, h2, lost, stale) /\ SessionsKnown(k2, t, h2, lost, stale)
    <3>1. n = Len(kind) + 1 /\ what \in Kinds /\ fam \in Families /\ StreamOf(d, f) /\ Fds \subseteq Nat \ {0}
      BY ONLY <2>6, <1>5, what \in Kinds, fam \in Families, Fds \subseteq Nat \ {0} DEF StreamOf
    <3>2. f \in Fds /\ k[f] = 0 BY ONLY <2>7
    <3> QED BY ONLY <2>2, <2>3, <2>4, <2>5, <2>8, <2>9, <3>1, <3>2, Added
  <2> QED BY ONLY <2>1, <2>10
<1> QED BY ONLY <1>4, <1>7 DEF SessionsInv

\* A descriptor that a failing function forgets.
LEMMA ForgottenKept ==
  ASSUME Fds \subseteq Nat \ {0}, SessionsInv, NEW what \in Kinds, Soc!Forgotten(what)
  PROVE  SessionsInv'
<1>1. PICK f, n : f = Soc!Lowest /\ n = Soc!New OBVIOUS
<1>2. Soc!Free # {} BY DEF Soc!Forgotten, Soc!MayOpen
<1>3. f \in Fds /\ kernel[f] = 0 BY ONLY <1>1, <1>2, Fds \subseteq Nat \ {0}, LowestFree
<1>4. /\ kind' = Append(kind, what) /\ kernel' = [kernel EXCEPT ![f] = n] /\ lost' = lost \cup {n}
      /\ n = Len(kind) + 1 /\ sessions' = sessions /\ held' = held /\ stale' = stale
  BY ONLY <1>1, Soc!Forgotten(what) DEF Soc!Forgotten, Soc!New
<1>5. /\ SessionsTyped(kernel, kind, sessions, held, lost, stale)
      /\ SessionsKnown(kernel, sessions, held, lost, stale) BY DEF SessionsInv
<1>6. /\ SessionsTyped(kernel', kind', sessions, held, lost \cup {n}, stale)
      /\ SessionsKnown(kernel', sessions, held, lost \cup {n}, stale)
  BY ONLY <1>3, <1>4, <1>5, what \in Kinds, Dropped
<1> QED BY ONLY <1>4, <1>6 DEF SessionsInv

\* net-receive-udp leaves an entry for a socket that it has closed.
LEMMA UdpLate ==
  ASSUME Fds \subseteq Nat \ {0}, SessionsInv, Soc!MayOpen, kind' = Append(kind, "dgram"),
         sessions' = Soc!createIOsession(sessions, Soc!Lowest, Soc!New, "inet", 0),
         stale' = stale \cup {Soc!New}, UNCHANGED <<kernel, held, lost>>
  PROVE  SessionsInv'
<1>1. PICK f, n : f = Soc!Lowest /\ n = Soc!New OBVIOUS
<1>2. Soc!Free # {} BY DEF Soc!MayOpen
<1>3. f \in Fds /\ kernel[f] = 0 BY ONLY <1>1, <1>2, Fds \subseteq Nat \ {0}, LowestFree
<1>4. /\ n = Len(kind) + 1 /\ stale' = stale \cup {n} /\ kernel' = kernel /\ held' = held /\ lost' = lost
      /\ Fresh(sessions, sessions', f, n, "inet", 0)
  BY <1>1 DEF Soc!New, Soc!createIOsession, Fresh
<1>5. /\ SessionsTyped(kernel, kind, sessions, held, lost, stale)
      /\ SessionsKnown(kernel, sessions, held, lost, stale) BY DEF SessionsInv
<1>6. "dgram" \in Kinds /\ "inet" \in Families BY DEF Kinds, Families
<1>7. /\ SessionsTyped(kernel, kind', sessions', held, lost, stale \cup {n})
      /\ SessionsKnown(kernel, sessions', held, lost, stale \cup {n})
  BY ONLY <1>3, <1>4, <1>5, <1>6, Fds \subseteq Nat \ {0}, kind' = Append(kind, "dgram"), LeftStale
<1> QED BY ONLY <1>4, <1>7 DEF SessionsInv

\* What the module's instance of FiniteSets counts.
LEMMA SameCount ==
  ASSUME NEW F
  PROVE  Soc!Cardinality(F) = Cardinality(F)
BY DEF Soc!Cardinality, Cardinality

\* Both ends of a pipe.
LEMMA PipeKept ==
  ASSUME Fds \subseteq Nat \ {0}, SessionsInv, Soc!Pipe
  PROVE  SessionsInv'
<1>1. PICK F : F = Soc!Free OBVIOUS
<1>2. F \in SUBSET Nat /\ F \subseteq Fds /\ Cardinality(F) > 1
  <2>1. F \subseteq Fds BY ONLY <1>1 DEF Soc!Free
  <2>2. Soc!Cardinality(F) > 1 BY ONLY <1>1, Soc!Pipe DEF Soc!Pipe
  <2>3. Cardinality(F) > 1 BY ONLY <2>2, SameCount
  <2> QED BY ONLY <2>1, <2>3, Fds \subseteq Nat \ {0}
<1>3. F # {} BY ONLY <1>2, FS_EmptySet
<1>4. PICK f, n : f = Soc!Lowest /\ n = Len(kind) + 1 OBVIOUS
<1>5. f \in Fds /\ kernel[f] = 0 BY ONLY <1>1, <1>3, <1>4, Fds \subseteq Nat \ {0}, LowestFree
<1>6. F \ {f} # {}
  <2>1. SUFFICES ASSUME F \ {f} = {} PROVE FALSE OBVIOUS
  <2>2. F = {f} BY ONLY <1>3, <2>1
  <2>3. Cardinality(F) = 1 BY ONLY <2>2, FS_Singleton
  <2> QED BY ONLY <1>2, <2>3
<1>7. F \ {f} \in SUBSET Nat BY ONLY <1>2
<1>8. \E h \in F \ {f} : \A c \in F \ {f} : h <= c BY ONLY <1>6, <1>7, Smallest
<1>9. PICK g : g = CHOOSE h \in F \ {f} : \A c \in F \ {f} : h <= c OBVIOUS
<1>10. g \in F \ {f} BY ONLY <1>8, <1>9
<1>11. g \in Fds /\ g # f /\ kernel[g] = 0 BY ONLY <1>1, <1>10 DEF Soc!Free
<1>12. PICK s2 : s2 = <<Soc!Entry(f, n, "unspec", f)>> \o sessions OBVIOUS
<1>13. /\ kernel' = [kernel EXCEPT ![f] = n, ![g] = n + 1]
       /\ held' = [held EXCEPT ![f] = n, ![g] = n + 1]
       /\ sessions' = <<Soc!Entry(g, n + 1, "unspec", 0)>> \o s2
       /\ kind' = kind \o <<"pipe", "pipe">> /\ lost' = lost /\ stale' = stale
  BY ONLY Soc!Pipe, <1>1, <1>4, <1>9, <1>12 DEF Soc!Pipe, Soc!New, Soc!createIOsession
<1>14. PICK k2, h2, ks2 : /\ k2 = [kernel EXCEPT ![f] = n] /\ h2 = [held EXCEPT ![f] = n]
                          /\ ks2 = Append(kind, "pipe") OBVIOUS
<1>15. /\ SessionsTyped(kernel, kind, sessions, held, lost, stale)
       /\ SessionsKnown(kernel, sessions, held, lost, stale) BY DEF SessionsInv
<1>16. /\ kernel \in [Fds -> 0..Len(kind)] /\ held \in [Fds -> 0..Len(kind)] /\ kind \in Seq(Kinds)
  BY ONLY <1>15 DEF SessionsTyped
<1>17. "pipe" \in Kinds /\ "unspec" \in Families /\ StreamOf(f, f) /\ StreamOf(0, g) BY DEF Kinds, Families, StreamOf
<1>18. SessionsTyped(k2, ks2, s2, h2, lost, stale) /\ SessionsKnown(k2, s2, h2, lost, stale)
  <2>1. Fresh(sessions, s2, f, n, "unspec", f) BY ONLY <1>12 DEF Fresh
  <2>2. f \in Fds /\ n = Len(kind) + 1 /\ kernel[f] = 0 BY ONLY <1>4, <1>5
  <2>3. SetTo(kernel, f, n, k2) /\ SetTo(held, f, n, h2) BY ONLY <1>14 DEF SetTo
  <2>4. ks2 = Append(kind, "pipe") BY ONLY <1>14
  <2> QED BY ONLY <1>15, <1>17, <2>1, <2>2, <2>3, <2>4, Fds \subseteq Nat \ {0}, Added
<1>19. /\ k2[g] = 0 /\ n + 1 = Len(ks2) + 1 /\ kind' = Append(ks2, "pipe")
       /\ kernel' = [k2 EXCEPT ![g] = n + 1] /\ held' = [h2 EXCEPT ![g] = n + 1]
  <2>1. k2[g] = 0 BY ONLY <1>5, <1>11, <1>14, <1>16
  <2>2. Len(ks2) = n BY ONLY <1>4, <1>14, <1>16
  <2>3. kind' = Append(ks2, "pipe") BY ONLY <1>13, <1>14, <1>16
  <2>4. kernel' = [k2 EXCEPT ![g] = n + 1] BY ONLY <1>11, <1>13, <1>14, <1>16
  <2>5. held' = [h2 EXCEPT ![g] = n + 1] BY ONLY <1>11, <1>13, <1>14, <1>16
  <2> QED BY ONLY <2>1, <2>2, <2>3, <2>4, <2>5
<1>20. /\ SessionsTyped(kernel', kind', sessions', held', lost, stale)
       /\ SessionsKnown(kernel', sessions', held', lost, stale)
  <2>1. Fresh(s2, sessions', g, n + 1, "unspec", 0) BY ONLY <1>13 DEF Fresh
  <2>2. SetTo(k2, g, n + 1, kernel') /\ SetTo(h2, g, n + 1, held') BY ONLY <1>19 DEF SetTo
  <2>3. k2[g] = 0 /\ n + 1 = Len(ks2) + 1 /\ kind' = Append(ks2, "pipe") BY ONLY <1>19
  <2> QED BY ONLY <1>11, <1>17, <1>18, <2>1, <2>2, <2>3, Fds \subseteq Nat \ {0}, Added
<1> QED BY ONLY <1>13, <1>20 DEF SessionsInv

\* Calls that change nothing of this.
LEMMA QuietKept ==
  ASSUME SessionsInv, UNCHANGED <<kernel, kind, sessions, held, lost, stale>>
  PROVE  SessionsInv'
BY DEF SessionsInv

\* Every call keeps the invariant.
LEMMA SessionsStep ==
  ASSUME Fds \subseteq Nat \ {0}, SessionsInv, [Soc!Next]_Soc!nsvars
  PROVE  SessionsInv'
<1> DEFINE Same == UNCHANGED <<kernel, kind, sessions, held, lost, stale>>
<1>1. CASE Same BY <1>1, QuietKept
<1> HIDE DEF Same
<1>2. CASE \E what \in Kinds, fam \in Families, str \in BOOLEAN : Soc!Opened(what, fam, str)
  BY ONLY <1>2, Fds \subseteq Nat \ {0}, SessionsInv, OpenedKept
<1>3. CASE \E what \in Kinds : Soc!Forgotten(what)
  BY ONLY <1>3, Fds \subseteq Nat \ {0}, SessionsInv, ForgottenKept
<1>4. CASE \E f \in Fds : Soc!Usable(f) /\ Soc!deleteIOsession(f) BY ONLY <1>4, SessionsInv, Deleted
<1>5. CASE Soc!Pipe BY ONLY <1>5, Fds \subseteq Nat \ {0}, SessionsInv, PipeKept
<1>6. CASE Soc!Open
  <2>1. "file" \in Kinds /\ "unspec" \in Families /\ TRUE \in BOOLEAN BY DEF Kinds, Families
  <2> QED BY ONLY <1>2, <1>6, <2>1 DEF Soc!Open
<1>7. CASE Soc!NetConnectUdp
  <2>1. "dgram" \in Kinds /\ "inet" \in Families /\ FALSE \in BOOLEAN BY DEF Kinds, Families
  <2> QED BY ONLY <1>2, <1>7, <2>1 DEF Soc!NetConnectUdp
<1>8. CASE Soc!NetSendUdp BY ONLY <1>1, <1>8 DEF Soc!NetSendUdp, Soc!Fails, Same
<1>9. CASE Soc!NetReceiveUdp
  <2>1. "dgram" \in Kinds BY DEF Kinds
  <2>2. CASE Same BY <1>1, <2>2
  <2>3. CASE Soc!Forgotten("dgram") BY ONLY <1>3, <2>1, <2>3
  <2>4. CASE /\ Soc!MayOpen /\ kind' = Append(kind, "dgram")
             /\ sessions' = Soc!createIOsession(sessions, Soc!Lowest, Soc!New, "inet", 0)
             /\ stale' = stale \cup {Soc!New} /\ UNCHANGED <<kernel, held, lost>>
    BY ONLY <2>4, Fds \subseteq Nat \ {0}, SessionsInv, UdpLate
  <2> QED BY ONLY <1>9, <2>2, <2>3, <2>4 DEF Soc!NetReceiveUdp, Soc!Attempt, Soc!Fails, Same
<1>10. CASE \E fam \in Soc!Families : Soc!NetConnect(fam) \/ Soc!NetListen(fam, "listen")
  <2>1. PICK fam \in Families : Soc!NetConnect(fam) \/ Soc!NetListen(fam, "listen")
    BY <1>10 DEF Soc!Families, Families
  <2>2. "stream" \in Kinds /\ "listen" \in Kinds /\ FALSE \in BOOLEAN BY DEF Kinds
  <2>3. CASE Soc!NetConnect(fam)
    BY ONLY <1>1, <1>2, <1>3, <2>2, <2>3, fam \in Families DEF Soc!NetConnect, Soc!Fails, Soc!Attempt, Same
  <2>4. CASE Soc!NetListen(fam, "listen")
    BY ONLY <1>1, <1>2, <1>3, <2>2, <2>4, fam \in Families DEF Soc!NetListen, Soc!Fails, Soc!Attempt, Same
  <2> QED BY <2>1, <2>3, <2>4
<1>11. CASE Soc!NetListen("inet", "dgram")
  <2>1. "dgram" \in Kinds /\ "inet" \in Families /\ FALSE \in BOOLEAN BY DEF Kinds, Families
  <2> QED BY ONLY <1>1, <1>2, <1>3, <1>11, <2>1 DEF Soc!NetListen, Soc!Fails, Soc!Attempt, Same
<1>12. ASSUME NEW f \in Fds, Soc!Close(f) \/ Soc!NetClose(f) \/ Soc!NetReceive(f) \/ Soc!NetReceiveUntil(f)
                             \/ Soc!NetReceiveFrom(f) \/ Soc!NetSend(f) \/ Soc!NetSendTo(f) \/ Soc!NetPeek(f)
       PROVE  SessionsInv'
  <2>1. Same \/ (Soc!Usable(f) /\ Soc!deleteIOsession(f))
    BY ONLY <1>12 DEF Soc!Close, Soc!NetClose, Soc!NetReceive, Soc!NetReceiveUntil, Soc!NetReceiveFrom,
                      Soc!NetSend, Soc!NetSendTo, Soc!NetPeek, Soc!Fails, Same
  <2> QED BY ONLY <1>1, <1>4, <2>1, f \in Fds
<1>13. ASSUME NEW f \in Fds, Soc!NetAccept(f) PROVE SessionsInv'
  <2>1. PICK fam : fam = Soc!getSocketFamily(sessions, f) OBVIOUS
  <2>2. Same \/ Soc!Opened("stream", fam, FALSE) BY ONLY <1>13, <2>1 DEF Soc!NetAccept, Soc!Fails, Same
  <2>3. fam \in Families
    <3>1. PICK E, s : E = EntryOf(Len(kind)) /\ s = sessions OBVIOUS
    <3>2. s \in Seq(E) BY ONLY SessionsInv, <3>1 DEF SessionsInv, SessionsTyped
    <3>3. CASE Soc!isSessionSocket(s, f)
      <4>1. PICK c : c = Soc!First(s, f) OBVIOUS
      <4>2. c \in 1..Len(s) BY ONLY <3>2, <3>3, <4>1, FirstFound
      <4>3. s[c] \in E BY ONLY <3>2, <4>2
      <4>4. s[c].family \in Families BY ONLY <3>1, <4>3 DEF EntryOf, Families
      <4> QED BY ONLY <2>1, <3>1, <3>3, <4>1, <4>4 DEF Soc!getSocketFamily
    <3>4. CASE ~Soc!isSessionSocket(s, f)
      BY ONLY <2>1, <3>1, <3>4 DEF Soc!getSocketFamily, Families
    <3> QED BY <3>3, <3>4
  <2>4. "stream" \in Kinds /\ FALSE \in BOOLEAN BY DEF Kinds
  <2> QED BY ONLY <1>1, <1>2, <2>2, <2>3, <2>4
<1>14. CASE \E fs \in SUBSET Fds : fs # {} /\ Soc!NetSelect(fs)
  BY ONLY <1>1, <1>14 DEF Soc!NetSelect, Soc!Fails, Same
<1>15. CASE UNCHANGED Soc!nsvars BY ONLY <1>1, <1>15 DEF Soc!nsvars, Same
<1> QED BY ONLY [Soc!Next]_Soc!nsvars, <1>5, <1>6, <1>7, <1>8, <1>9, <1>10, <1>11, <1>12, <1>13, <1>14, <1>15
        DEF Soc!Next

\* What the invariant says, as SessionsExact says it.
LEMMA SessionsRight ==
  ASSUME SessionsInv
  PROVE  Soc!SessionsExact
<1>1. PICK E : E = EntryOf(Len(kind)) OBVIOUS
<1>2. sessions \in Seq(E) BY ONLY <1>1, SessionsInv DEF SessionsInv, SessionsTyped
<1>3. DOMAIN sessions = 1..Len(sessions) BY ONLY <1>2
<1>4. \A f, o : FirstIs(sessions, f, o) =>
                  Soc!isSessionSocket(sessions, f) /\ sessions[Soc!First(sessions, f)].object = o
  BY ONLY <1>2, FirstMeans
<1> QED BY ONLY <1>3, <1>4, SessionsInv DEF SessionsInv, SessionsKnown, Soc!SessionsExact

\* The list of sessions (ioSessions, nl-sock.c): each descriptor the program uses is open and its first entry
\* is its own, whatever was opened, closed or failed before under that number.
THEOREM SessionsKept ==
  ASSUME Fds \subseteq Nat \ {0}
  PROVE  Soc!Init /\ [][Soc!Next]_Soc!nsvars => []Soc!SessionsExact
<1>1. Soc!Init => SessionsInv
  <2> SUFFICES ASSUME Soc!Init PROVE SessionsInv OBVIOUS
  <2>1. /\ kernel = [f \in Fds |-> 0] /\ kind = <<>> /\ sessions = <<>>
        /\ held = [f \in Fds |-> 0] /\ lost = {} /\ stale = {} BY DEF Soc!Init
  <2>2. /\ kind \in Seq(Kinds) /\ Len(kind) = 0 /\ Len(sessions) = 0 /\ sessions \in Seq(EntryOf(Len(kind)))
        /\ kernel \in [Fds -> 0..0] /\ held \in [Fds -> 0..0] BY ONLY <2>1
  <2> QED BY ONLY <2>1, <2>2 DEF SessionsInv, SessionsTyped, SessionsKnown
<1>2. SessionsInv /\ [Soc!Next]_Soc!nsvars => SessionsInv' BY SessionsStep
<1>3. SessionsInv => Soc!SessionsExact BY SessionsRight
<1> QED BY <1>1, <1>2, <1>3, PTL

----------------------------------------
(* MemoryManager: the list of blocks, as a sequence of pointers that next *)
(* follows and prev follows back. *)
Blocks == [size : Nat, type : Types, next : Pointers \cup {NULL}, prev : Pointers \cup {NULL}]
Statistics == [current_usage : Int, peak_usage : Int, active_blocks : Int, type_usage : [Types -> Int],
               unrecorded : Int]
\* NULL is no pointer and no block.
MemoryAssumption == /\ IsFiniteSet(Pointers) /\ Sizes \subseteq Nat
                    /\ NULL \notin Pointers /\ NULL \notin Blocks

\* The list is s, from the head on.
Chained(s, head, b) ==
  /\ s \in Seq(Pointers) /\ \A e, j \in 1..Len(s) : s[e] = s[j] => e = j
  /\ head = IF Len(s) = 0 THEN NULL ELSE s[1]
  /\ \A e \in 1..Len(s) : /\ b[s[e]].prev = (IF e = 1 THEN NULL ELSE s[e - 1])
                          /\ b[s[e]].next = (IF e = Len(s) THEN NULL ELSE s[e + 1])
  /\ \A p \in Pointers : b[p] # NULL <=> \E e \in 1..Len(s) : s[e] = p

\* The invariant of a state that is made of these.
MemInvOf(mg, bl, b, st, me, gv) ==
  /\ b \in [Pointers -> Blocks \cup {NULL}] /\ me \in [Pointers -> {"free", "plain", "guarded"}]
  /\ st \in Statistics /\ gv \subseteq Pointers
  /\ \E s : Chained(s, bl, b) /\ st.active_blocks = Len(s)
  /\ mg = NULL => \A p \in Pointers : b[p] = NULL
  /\ \A p \in Pointers : b[p] # NULL => p \in gv
  /\ \A p \in gv : me[p] # "free"

MemInv == MemInvOf(manager, block_list, block, stats, memory, given)

\* add_memory_block makes b this.
PutFirst(b, head, p, n, ty) ==
  [q \in Pointers |-> IF q = p THEN [size |-> n, type |-> ty, next |-> head, prev |-> NULL]
                      ELSE IF q = head THEN [b[q] EXCEPT !.prev = p] ELSE b[q]]

\* The chain t, one block longer than s, from head on.
Longer(t, s, head, b) ==
  Chained(t, head, b) /\ b \in [Pointers -> Blocks \cup {NULL}] /\ Len(t) = Len(s) + 1

\* A new block becomes the head.
LEMMA ChainAdd ==
  ASSUME MemoryAssumption, NEW s, NEW head, NEW b \in [Pointers -> Blocks \cup {NULL}], Chained(s, head, b),
         NEW p \in Pointers, b[p] = NULL, NEW n \in Nat, NEW ty \in Types,
         NEW b2, b2 = PutFirst(b, head, p, n, ty),
         NEW t, t = <<p>> \o s
  PROVE  Longer(t, s, p, b2)
<1>0. b2 = [q \in Pointers |-> IF q = p THEN [size |-> n, type |-> ty, next |-> head, prev |-> NULL]
                               ELSE IF q = head THEN [b[q] EXCEPT !.prev = p] ELSE b[q]]
  BY ONLY b2 = PutFirst(b, head, p, n, ty) DEF PutFirst
<1>1. /\ s \in Seq(Pointers) /\ \A e, j \in 1..Len(s) : s[e] = s[j] => e = j
      /\ head = IF Len(s) = 0 THEN NULL ELSE s[1]
      /\ \A e \in 1..Len(s) : /\ b[s[e]].prev = (IF e = 1 THEN NULL ELSE s[e - 1])
                              /\ b[s[e]].next = (IF e = Len(s) THEN NULL ELSE s[e + 1])
      /\ \A q \in Pointers : b[q] # NULL <=> \E e \in 1..Len(s) : s[e] = q
  BY ONLY Chained(s, head, b) DEF Chained
<1>2. Len(s) \in Nat /\ \A e \in 1..Len(s) : s[e] \in Pointers /\ s[e] # p /\ b[s[e]] \in Blocks
  BY ONLY <1>1, b[p] = NULL, b \in [Pointers -> Blocks \cup {NULL}], p \in Pointers
<1>3. NULL \notin Pointers /\ NULL \notin Blocks BY DEF MemoryAssumption
<1>4. /\ t \in Seq(Pointers) /\ Len(t) = Len(s) + 1 /\ t[1] = p /\ \A e \in 1..Len(s) : t[e + 1] = s[e]
  BY ONLY <1>1, p \in Pointers, t = <<p>> \o s
<1>5. \A e \in 1..Len(t) : e = 1 \/ (e - 1 \in 1..Len(s) /\ t[e] = s[e - 1])
  <2> SUFFICES ASSUME NEW e \in 1..Len(t), e # 1 PROVE e - 1 \in 1..Len(s) /\ t[e] = s[e - 1] OBVIOUS
  <2>1. e - 1 \in 1..Len(s) /\ (e - 1) + 1 = e BY ONLY <1>2, <1>4, e # 1, e \in 1..Len(t)
  <2> QED BY ONLY <1>4, <2>1
<1>6. head \in Pointers \cup {NULL} /\ (head # NULL => Len(s) # 0 /\ 1 \in 1..Len(s) /\ head = s[1])
  BY ONLY <1>1, <1>2
<1>7. b2[p] = [size |-> n, type |-> ty, next |-> head, prev |-> NULL] /\ b2[p] \in Blocks
  BY ONLY <1>6, p \in Pointers, n \in Nat, ty \in Types,
          <1>0 DEF Blocks
<1>8. \A q \in Pointers : q # p => b2[q] = IF q = head THEN [b[q] EXCEPT !.prev = p] ELSE b[q]
  BY ONLY <1>0
<1>9. head # NULL => /\ b2[head] \in Blocks /\ b2[head].prev = p /\ b2[head].next = b[head].next /\ head # p
  <2> SUFFICES ASSUME head # NULL
               PROVE  b2[head] \in Blocks /\ b2[head].prev = p /\ b2[head].next = b[head].next /\ head # p
    OBVIOUS
  <2>1. head \in Pointers /\ head # p /\ b[head] \in Blocks BY ONLY <1>2, <1>6, head # NULL
  <2>2. b2[head] = [b[head] EXCEPT !.prev = p] BY ONLY <1>8, <2>1
  <2>3. PICK r, r2 : r = b[head] /\ r2 = b2[head] OBVIOUS
  <2>4. r \in Blocks /\ r2 = [r EXCEPT !.prev = p] BY ONLY <2>1, <2>2, <2>3
  <2>5. r2 \in Blocks /\ r2.prev = p /\ r2.next = r.next BY ONLY <2>4, p \in Pointers DEF Blocks
  <2> QED BY ONLY <2>1, <2>3, <2>5
<1>10. \A q \in Pointers : q # p /\ q # head => b2[q] = b[q] BY ONLY <1>8
<1>11. b2 \in [Pointers -> Blocks \cup {NULL}]
  <2>1. \A q \in Pointers : b2[q] \in Blocks \cup {NULL}
    BY ONLY <1>7, <1>9, <1>10, <1>3, b \in [Pointers -> Blocks \cup {NULL}]
  <2> QED BY ONLY <2>1, <1>0
<1>12. \A e, j \in 1..Len(t) : t[e] = t[j] => e = j
  <2> SUFFICES ASSUME NEW e \in 1..Len(t), NEW j \in 1..Len(t), t[e] = t[j] PROVE e = j OBVIOUS
  <2>1. CASE e = 1 \/ j = 1 BY ONLY <1>2, <1>4, <1>5, <2>1, t[e] = t[j]
  <2>2. CASE e # 1 /\ j # 1
    <3>1. e - 1 = j - 1 BY ONLY <1>1, <1>5, <2>2, t[e] = t[j]
    <3> QED BY ONLY <3>1, e \in 1..Len(t), j \in 1..Len(t)
  <2> QED BY ONLY <2>1, <2>2
<1>13. ASSUME NEW e \in 1..Len(t)
       PROVE  /\ b2[t[e]].prev = (IF e = 1 THEN NULL ELSE t[e - 1])
              /\ b2[t[e]].next = (IF e = Len(t) THEN NULL ELSE t[e + 1])
  <2>1. CASE e = 1
    <3>1. b2[t[1]].prev = NULL /\ b2[t[1]].next = head BY ONLY <1>4, <1>7
    <3>2. CASE Len(s) = 0 BY ONLY <1>1, <1>4, <2>1, <3>1, <3>2
    <3>3. CASE Len(s) # 0
      <4>1. Len(t) # 1 /\ 1 \in 1..Len(s) /\ t[1 + 1] = s[1] BY ONLY <1>2, <1>4, <3>3
      <4> QED BY ONLY <1>1, <2>1, <3>1, <3>3, <4>1
    <3> QED BY ONLY <3>2, <3>3
  <2>2. CASE e # 1
    <3>1. PICK a : a = e - 1 OBVIOUS
    <3>2. a \in 1..Len(s) /\ t[e] = s[a] /\ a + 1 = e BY ONLY <1>5, <2>2, <3>1, e \in 1..Len(t)
    <3>3. s[a] \in Pointers /\ s[a] # p BY ONLY <1>2, <3>2
    <3>4. b2[s[a]].next = b[s[a]].next BY ONLY <1>3, <1>9, <1>10, <3>3
    <3>5. b2[t[e]].next = IF a = Len(s) THEN NULL ELSE s[a + 1] BY ONLY <1>1, <3>2, <3>4
    <3>6. b2[t[e]].next = IF e = Len(t) THEN NULL ELSE t[e + 1]
      <4>1. e = Len(t) <=> a = Len(s) BY ONLY <1>2, <1>4, <3>2
      <4>2. a # Len(s) => a + 1 \in 1..Len(s) BY ONLY <1>2, <3>2
      <4>3. a # Len(s) => t[e + 1] = s[a + 1] BY ONLY <1>4, <3>2, <4>2
      <4> QED BY ONLY <3>5, <4>1, <4>3
    <3>7. b2[t[e]].prev = t[e - 1]
      <4>1. CASE a = 1
        <5>1. s[a] = head /\ head # NULL BY ONLY <1>1, <1>2, <1>3, <3>2, <3>3, <4>1
        <5>2. t[e - 1] = p BY ONLY <1>4, <3>1, <4>1
        <5> QED BY ONLY <1>9, <3>2, <5>1, <5>2
      <4>2. CASE a # 1
        <5>1. s[a] # head BY ONLY <1>1, <1>2, <3>2, <4>2
        <5>2. b2[s[a]].prev = s[a - 1] BY ONLY <1>1, <1>10, <3>2, <3>3, <4>2, <5>1
        <5>3. a - 1 \in 1..Len(s) /\ (a - 1) + 1 = a BY ONLY <1>2, <3>2, <4>2
        <5>4. t[a] = s[a - 1] BY ONLY <1>4, <5>3
        <5> QED BY ONLY <3>1, <3>2, <5>2, <5>4
      <4> QED BY ONLY <4>1, <4>2
    <3> QED BY ONLY <2>2, <3>6, <3>7
  <2> QED BY ONLY <2>1, <2>2
<1>14. ASSUME NEW q \in Pointers PROVE b2[q] # NULL <=> \E e \in 1..Len(t) : t[e] = q
  <2>1. (\E e \in 1..Len(t) : t[e] = q) <=> (q = p \/ \E e \in 1..Len(s) : s[e] = q)
    <3>1. 1 \in 1..Len(t) /\ \A e \in 1..Len(s) : e + 1 \in 1..Len(t) BY ONLY <1>2, <1>4
    <3> QED BY ONLY <1>4, <1>5, <3>1
  <2>2. b2[q] # NULL <=> (q = p \/ b[q] # NULL)
    <3>1. CASE q = p BY ONLY <1>3, <1>7, <3>1
    <3>2. CASE q # p /\ q = head
      <4>1. head # NULL BY ONLY <1>3, <3>2, q \in Pointers
      <4> QED BY ONLY <1>2, <1>3, <1>6, <1>9, <3>2, <4>1
    <3>3. CASE q # p /\ q # head BY ONLY <1>10, <3>3, q \in Pointers
    <3> QED BY ONLY <3>1, <3>2, <3>3
  <2> QED BY ONLY <1>1, <2>1, <2>2, q \in Pointers
<1>15. Len(t) # 0 BY ONLY <1>2, <1>4
<1> QED BY ONLY <1>4, <1>11, <1>12, <1>13, <1>14, <1>15 DEF Chained, Longer

\* remove_memory_block makes b this.
CutOut(b, p, r) ==
  [q \in Pointers |-> IF q = p THEN NULL
                      ELSE IF q = r.prev THEN [b[q] EXCEPT !.next = r.next]
                      ELSE IF q = r.next THEN [b[q] EXCEPT !.prev = r.prev] ELSE b[q]]

\* A block is taken out of the list.
LEMMA ChainCut ==
  ASSUME MemoryAssumption, NEW s, NEW head, NEW b \in [Pointers -> Blocks \cup {NULL}], Chained(s, head, b),
         NEW p \in Pointers, b[p] # NULL, NEW r, r = b[p],
         NEW b2, b2 = CutOut(b, p, r),
         NEW h2, h2 = IF r.prev = NULL THEN r.next ELSE head
  PROVE  \E t : Chained(t, h2, b2) /\ b2 \in [Pointers -> Blocks \cup {NULL}] /\ Len(t) = Len(s) - 1
<1>0. b2 = [q \in Pointers |-> IF q = p THEN NULL
                               ELSE IF q = r.prev THEN [b[q] EXCEPT !.next = r.next]
                               ELSE IF q = r.next THEN [b[q] EXCEPT !.prev = r.prev] ELSE b[q]]
  BY ONLY b2 = CutOut(b, p, r) DEF CutOut
<1>1. /\ s \in Seq(Pointers) /\ \A e, j \in 1..Len(s) : s[e] = s[j] => e = j
      /\ head = IF Len(s) = 0 THEN NULL ELSE s[1]
      /\ \A e \in 1..Len(s) : /\ b[s[e]].prev = (IF e = 1 THEN NULL ELSE s[e - 1])
                              /\ b[s[e]].next = (IF e = Len(s) THEN NULL ELSE s[e + 1])
      /\ \A q \in Pointers : b[q] # NULL <=> \E e \in 1..Len(s) : s[e] = q
  BY ONLY Chained(s, head, b) DEF Chained
<1>2. PICK n : n = Len(s) /\ n \in Nat BY ONLY <1>1
<1>3. PICK k \in 1..n : s[k] = p BY ONLY <1>1, <1>2, b[p] # NULL, p \in Pointers
<1>4. NULL \notin Pointers /\ NULL \notin Blocks BY DEF MemoryAssumption
<1>5. \A e \in 1..n : s[e] \in Pointers /\ s[e] # NULL /\ b[s[e]] \in Blocks
  BY ONLY <1>1, <1>2, <1>4, b \in [Pointers -> Blocks \cup {NULL}]
<1>6. PICK t : t = SubSeq(s, 1, k - 1) \o SubSeq(s, k + 1, Len(s)) OBVIOUS
<1>7. CutAt(Pointers, s, k, t)
  <2>1. k \in 1..Len(s) BY ONLY <1>2, <1>3
  <2> QED BY ONLY <1>1, <1>6, <2>1, CutFacts
<1>8. /\ t \in Seq(Pointers) /\ Len(t) = n - 1
      /\ \A j \in 1..Len(t) : Place(k, j) \in (1..n) \ {k} /\ t[j] = s[Place(k, j)]
  BY ONLY <1>2, <1>7 DEF CutAt
<1>9. r \in Blocks /\ r.prev = (IF k = 1 THEN NULL ELSE s[k - 1]) /\ r.next = (IF k = n THEN NULL ELSE s[k + 1])
  BY ONLY <1>1, <1>2, <1>3, <1>5, r = b[p]
<1>10. r.prev \in Pointers \cup {NULL} /\ r.next \in Pointers \cup {NULL} BY ONLY <1>9 DEF Blocks
<1>11. \A m \in 1..n : (s[m] = r.prev <=> m = k - 1) /\ (s[m] = r.next <=> m = k + 1)
  <2> SUFFICES ASSUME NEW m \in 1..n PROVE (s[m] = r.prev <=> m = k - 1) /\ (s[m] = r.next <=> m = k + 1) OBVIOUS
  <2>1. s[m] = r.prev <=> m = k - 1
    <3>1. CASE k = 1 BY ONLY <1>5, <1>9, <3>1, m \in 1..n
    <3>2. CASE k # 1
      <4>1. k - 1 \in 1..n BY ONLY <1>2, <3>2, k \in 1..n
      <4> QED BY ONLY <1>1, <1>2, <1>9, <3>2, <4>1, m \in 1..n
    <3> QED BY ONLY <3>1, <3>2
  <2>2. s[m] = r.next <=> m = k + 1
    <3>1. CASE k = n BY ONLY <1>2, <1>5, <1>9, <3>1, m \in 1..n
    <3>2. CASE k # n
      <4>1. k + 1 \in 1..n BY ONLY <1>2, <3>2, k \in 1..n
      <4> QED BY ONLY <1>1, <1>2, <1>9, <3>2, <4>1, m \in 1..n
    <3> QED BY ONLY <3>1, <3>2
  <2> QED BY ONLY <2>1, <2>2
<1>12. \A q \in Pointers : b2[q] = IF q = p THEN NULL
                                   ELSE IF q = r.prev THEN [b[q] EXCEPT !.next = r.next]
                                   ELSE IF q = r.next THEN [b[q] EXCEPT !.prev = r.prev] ELSE b[q]
  BY ONLY <1>0
<1>13. ASSUME NEW m \in 1..n, m # k
       PROVE  /\ b2[s[m]] \in Blocks
              /\ b2[s[m]].next = IF m = k - 1 THEN r.next ELSE b[s[m]].next
              /\ b2[s[m]].prev = IF m = k + 1 THEN r.prev ELSE b[s[m]].prev
  <2>1. PICK q, x, y : q = s[m] /\ x = b[q] /\ y = b2[q] OBVIOUS
  <2>2. q \in Pointers /\ q # p /\ x \in Blocks BY ONLY <1>1, <1>2, <1>3, <1>5, <1>13, <2>1
  <2>3. (q = r.prev <=> m = k - 1) /\ (q = r.next <=> m = k + 1) BY ONLY <1>11, <2>1, m \in 1..n
  <2>4. y = IF q = r.prev THEN [x EXCEPT !.next = r.next]
            ELSE IF q = r.next THEN [x EXCEPT !.prev = r.prev] ELSE x BY ONLY <1>12, <2>1, <2>2
  <2>5. CASE q = r.prev
    <3>1. y = [x EXCEPT !.next = r.next] BY ONLY <2>4, <2>5
    <3>2. y \in Blocks /\ y.next = r.next /\ y.prev = x.prev BY ONLY <1>10, <2>2, <3>1 DEF Blocks
    <3>3. m = k - 1 /\ m # k + 1 BY ONLY <2>3, <2>5, k \in 1..n
    <3> QED BY ONLY <2>1, <3>2, <3>3
  <2>6. CASE q # r.prev /\ q = r.next
    <3>1. y = [x EXCEPT !.prev = r.prev] BY ONLY <2>4, <2>6
    <3>2. y \in Blocks /\ y.prev = r.prev /\ y.next = x.next BY ONLY <1>10, <2>2, <3>1 DEF Blocks
    <3> QED BY ONLY <2>1, <2>3, <2>6, <3>2
  <2>7. CASE q # r.prev /\ q # r.next BY ONLY <2>1, <2>2, <2>3, <2>4, <2>7
  <2> QED BY ONLY <2>5, <2>6, <2>7
<1>14. ASSUME NEW q \in Pointers, q # p, b[q] = NULL PROVE b2[q] = NULL
  <2>1. \A e \in 1..n : s[e] # q BY ONLY <1>1, <1>2, <1>14
  <2>2. q # r.prev /\ q # r.next
    <3>1. k # 1 => k - 1 \in 1..n BY ONLY <1>2, k \in 1..n
    <3>2. k # n => k + 1 \in 1..n BY ONLY <1>2, k \in 1..n
    <3> QED BY ONLY <1>4, <1>9, <2>1, <3>1, <3>2, q \in Pointers
  <2> QED BY ONLY <1>12, <1>14, <2>2
<1>15. b2[p] = NULL BY ONLY <1>12, p \in Pointers
<1>16. ASSUME NEW q \in Pointers
       PROVE  b2[q] \in Blocks \cup {NULL} /\ (b2[q] # NULL <=> \E m \in 1..n : m # k /\ s[m] = q)
  <2>1. CASE q = p BY ONLY <1>1, <1>2, <1>3, <1>15, <2>1
  <2>2. CASE q # p /\ b[q] = NULL BY ONLY <1>1, <1>2, <1>14, <2>2, q \in Pointers
  <2>3. CASE q # p /\ b[q] # NULL
    <3>1. PICK m \in 1..n : s[m] = q BY ONLY <1>1, <1>2, <2>3, q \in Pointers
    <3>2. m # k BY ONLY <1>3, <2>3, <3>1
    <3>3. b2[q] \in Blocks BY ONLY <1>13, <3>1, <3>2
    <3> QED BY ONLY <1>4, <3>1, <3>2, <3>3
  <2> QED BY ONLY <2>1, <2>2, <2>3
<1>17. b2 \in [Pointers -> Blocks \cup {NULL}] BY ONLY <1>16, <1>0
<1>18. \A e, j \in 1..Len(t) : t[e] = t[j] => e = j
  <2> SUFFICES ASSUME NEW e \in 1..Len(t), NEW j \in 1..Len(t), t[e] = t[j] PROVE e = j OBVIOUS
  <2>1. Place(k, e) = Place(k, j) BY ONLY <1>1, <1>2, <1>8, t[e] = t[j]
  <2> QED BY ONLY <1>2, <1>8, <2>1, k \in 1..n, e \in 1..Len(t), j \in 1..Len(t) DEF Place
<1>19. ASSUME NEW j \in 1..Len(t)
       PROVE  /\ b2[t[j]].prev = (IF j = 1 THEN NULL ELSE t[j - 1])
              /\ b2[t[j]].next = (IF j = Len(t) THEN NULL ELSE t[j + 1])
  <2>1. PICK m : m = Place(k, j) OBVIOUS
  <2>2. m \in 1..n /\ m # k /\ t[j] = s[m] BY ONLY <1>8, <2>1
  <2>3. m = (IF j < k THEN j ELSE j + 1) /\ j \in 1..(n - 1) BY ONLY <1>8, <2>1, j \in 1..Len(t) DEF Place
  <2>4. /\ b2[t[j]].next = IF m = k - 1 THEN r.next ELSE IF m = n THEN NULL ELSE s[m + 1]
        /\ b2[t[j]].prev = IF m = k + 1 THEN r.prev ELSE IF m = 1 THEN NULL ELSE s[m - 1]
    BY ONLY <1>1, <1>2, <1>13, <2>2
  <2>5. b2[t[j]].next = IF j = Len(t) THEN NULL ELSE t[j + 1]
    <3>1. CASE j = Len(t)
      <4>1. (m = k - 1 /\ k = n) \/ (m # k - 1 /\ m = n) BY ONLY <1>2, <1>8, <2>3, <3>1, k \in 1..n
      <4> QED BY ONLY <1>9, <2>4, <3>1, <4>1
    <3>2. CASE j # Len(t)
      <4>1. j + 1 \in 1..Len(t) BY ONLY <1>2, <1>8, <2>3, <3>2
      <4>2. t[j + 1] = s[Place(k, j + 1)] BY ONLY <1>8, <4>1
      <4>3. CASE m = k - 1
        <5>1. k # n /\ Place(k, j + 1) = k + 1 BY ONLY <1>2, <1>8, <2>3, <3>2, <4>3, k \in 1..n DEF Place
        <5> QED BY ONLY <1>9, <2>4, <3>2, <4>2, <4>3, <5>1
      <4>4. CASE m # k - 1
        <5>1. m # n /\ Place(k, j + 1) = m + 1 BY ONLY <1>2, <1>8, <2>3, <3>2, <4>4, k \in 1..n DEF Place
        <5> QED BY ONLY <2>4, <3>2, <4>2, <4>4, <5>1
      <4> QED BY ONLY <4>3, <4>4
    <3> QED BY ONLY <3>1, <3>2
  <2>6. b2[t[j]].prev = IF j = 1 THEN NULL ELSE t[j - 1]
    <3>1. CASE j = 1
      <4>1. (m = k + 1 /\ k = 1) \/ (m # k + 1 /\ m = 1) BY ONLY <1>2, <2>3, <3>1, k \in 1..n
      <4> QED BY ONLY <1>9, <2>4, <3>1, <4>1
    <3>2. CASE j # 1
      <4>1. j - 1 \in 1..Len(t) BY ONLY <1>2, <1>8, <2>3, <3>2
      <4>2. t[j - 1] = s[Place(k, j - 1)] BY ONLY <1>8, <4>1
      <4>3. CASE m = k + 1
        <5>1. k # 1 /\ Place(k, j - 1) = k - 1 BY ONLY <1>2, <2>3, <3>2, <4>3, k \in 1..n DEF Place
        <5> QED BY ONLY <1>9, <2>4, <3>2, <4>2, <4>3, <5>1
      <4>4. CASE m # k + 1
        <5>1. m # 1 /\ Place(k, j - 1) = m - 1 BY ONLY <1>2, <2>3, <3>2, <4>4, k \in 1..n DEF Place
        <5> QED BY ONLY <2>4, <3>2, <4>2, <4>4, <5>1
      <4> QED BY ONLY <4>3, <4>4
    <3> QED BY ONLY <3>1, <3>2
  <2> QED BY ONLY <2>5, <2>6
<1>20. ASSUME NEW q \in Pointers PROVE b2[q] # NULL <=> \E j \in 1..Len(t) : t[j] = q
  <2>1. ASSUME NEW m \in 1..n, m # k PROVE \E j \in 1..Len(t) : t[j] = s[m]
    <3>1. PICK j : j = IF m < k THEN m ELSE m - 1 OBVIOUS
    <3>2. j \in 1..Len(t) /\ Place(k, j) = m BY ONLY <1>2, <1>8, <2>1, <3>1, k \in 1..n DEF Place
    <3> QED BY ONLY <1>8, <3>2
  <2> QED BY ONLY <1>8, <1>16, <2>1, q \in Pointers
<1>21. h2 = IF Len(t) = 0 THEN NULL ELSE t[1]
  <2>1. CASE k = 1
    <3>1. h2 = r.next BY ONLY <1>9, <2>1, h2 = IF r.prev = NULL THEN r.next ELSE head
    <3>2. CASE n = 1 BY ONLY <1>8, <1>9, <2>1, <3>1, <3>2
    <3>3. CASE n # 1
      <4>1. 1 \in 1..Len(t) /\ Place(k, 1) = 2 /\ Len(t) # 0 BY ONLY <1>2, <1>8, <2>1, <3>3, k \in 1..n DEF Place
      <4> QED BY ONLY <1>8, <1>9, <2>1, <3>1, <3>3, <4>1
    <3> QED BY ONLY <3>2, <3>3
  <2>2. CASE k # 1
    <3>1. k - 1 \in 1..n /\ n # 0 BY ONLY <1>2, <2>2, k \in 1..n
    <3>2. h2 = head BY ONLY <1>5, <1>9, <2>2, <3>1, h2 = IF r.prev = NULL THEN r.next ELSE head
    <3>3. 1 \in 1..Len(t) /\ Place(k, 1) = 1 /\ Len(t) # 0 BY ONLY <1>2, <1>8, <2>2, k \in 1..n DEF Place
    <3> QED BY ONLY <1>1, <1>2, <1>8, <3>1, <3>2, <3>3
  <2> QED BY ONLY <2>1, <2>2
<1>22. Chained(t, h2, b2) BY ONLY <1>8, <1>18, <1>19, <1>20, <1>21 DEF Chained
<1> QED BY ONLY <1>2, <1>8, <1>17, <1>22

\* No block is recorded.
LEMMA ChainNone ==
  ASSUME NEW b, b = [p \in Pointers |-> NULL]
  PROVE  Chained(<<>>, NULL, b) /\ b \in [Pointers -> Blocks \cup {NULL}]
<1>1. \A p \in Pointers : b[p] = NULL BY b = [p \in Pointers |-> NULL]
<1>2. <<>> \in Seq(Pointers) /\ Len(<<>>) = 0 OBVIOUS
<1>3. Chained(<<>>, NULL, b) BY ONLY <1>1, <1>2 DEF Chained
<1> QED BY ONLY <1>1, <1>3, b = [p \in Pointers |-> NULL]

\* What the statistics count as recorded.
LEMMA Counted ==
  ASSUME NEW s \in Statistics, NEW n \in Nat, NEW ty \in Types
  PROVE  /\ Mem!update_stats_on_alloc(s, n, ty) \in Statistics
         /\ Mem!update_stats_on_alloc(s, n, ty).active_blocks = s.active_blocks
         /\ Mem!update_stats_on_free(s, n, ty) \in Statistics
         /\ Mem!update_stats_on_free(s, n, ty).active_blocks = s.active_blocks
<1>1. PICK tu, c, pk : /\ tu = [s.type_usage EXCEPT ![ty] = @ + n] /\ c = s.current_usage + n
                       /\ pk = IF s.current_usage + n > s.peak_usage THEN s.current_usage + n ELSE s.peak_usage
  OBVIOUS
<1>2. PICK tw, d : tw = [s.type_usage EXCEPT ![ty] = @ - n] /\ d = s.current_usage - n OBVIOUS
<1>3. s.type_usage \in [Types -> Int] /\ s.current_usage \in Int /\ s.peak_usage \in Int
  BY ONLY s \in Statistics DEF Statistics
<1>4. tu \in [Types -> Int] /\ tw \in [Types -> Int] BY ONLY <1>1, <1>2, <1>3, n \in Nat
<1>5. c \in Int /\ d \in Int /\ pk \in Int BY ONLY <1>1, <1>2, <1>3, n \in Nat
<1>6. Mem!update_stats_on_alloc(s, n, ty) = [s EXCEPT !.current_usage = c, !.type_usage = tu, !.peak_usage = pk]
  BY ONLY <1>1, s \in Statistics DEF Mem!update_stats_on_alloc, Statistics
<1>7. Mem!update_stats_on_free(s, n, ty) = [s EXCEPT !.current_usage = d, !.type_usage = tw]
  BY ONLY <1>2, s \in Statistics DEF Mem!update_stats_on_free, Statistics
<1>8. PICK u, v : u = Mem!update_stats_on_alloc(s, n, ty) /\ v = Mem!update_stats_on_free(s, n, ty) OBVIOUS
<1>9. u \in Statistics /\ u.active_blocks = s.active_blocks
  BY ONLY <1>4, <1>5, <1>6, <1>8, s \in Statistics DEF Statistics
<1>10. v \in Statistics /\ v.active_blocks = s.active_blocks
  BY ONLY <1>4, <1>5, <1>7, <1>8, s \in Statistics DEF Statistics
<1> QED BY ONLY <1>8, <1>9, <1>10

\* The state that Init, memory_manager_init and memory_manager_cleanup make.
LEMMA MemoryEmpty ==
  ASSUME NEW mg, NEW bl, NEW b, NEW st, NEW me, NEW gv,
         b = [p \in Pointers |-> NULL], bl = NULL, st = Mem!NoStats,
         me \in [Pointers -> {"free", "plain", "guarded"}], gv \subseteq Pointers,
         \A p \in gv : me[p] # "free"
  PROVE  MemInvOf(mg, bl, b, st, me, gv)
<1>1. Chained(<<>>, NULL, b) /\ b \in [Pointers -> Blocks \cup {NULL}]
  BY ONLY b = [p \in Pointers |-> NULL], ChainNone
<1>2. st \in Statistics /\ st.active_blocks = Len(<<>>)
  BY ONLY st = Mem!NoStats DEF Mem!NoStats, Mem!NoUse, Statistics
<1>3. \A p \in Pointers : b[p] = NULL BY ONLY b = [p \in Pointers |-> NULL]
<1>4. \E s : Chained(s, bl, b) /\ st.active_blocks = Len(s) BY ONLY <1>1, <1>2, bl = NULL
<1> QED BY ONLY <1>1, <1>2, <1>3, <1>4, me \in [Pointers -> {"free", "plain", "guarded"}],
                gv \subseteq Pointers, \A p \in gv : me[p] # "free" DEF MemInvOf

\* Of the first state.
LEMMA MemoryStarts ==
  ASSUME Mem!Init
  PROVE  MemInv
<1>1. memory \in [Pointers -> {"free", "plain", "guarded"}] /\ given = {} BY DEF Mem!Init
<1>2. MemInvOf(manager, block_list, block, stats, memory, given) BY ONLY Mem!Init, <1>1, MemoryEmpty DEF Mem!Init
<1> QED BY ONLY <1>2 DEF MemInv, MemInvOf

\* Of the next state.
LEMMA MemoryEmptied ==
  ASSUME block' = [p \in Pointers |-> NULL], block_list' = NULL, stats' = Mem!NoStats,
         memory' \in [Pointers -> {"free", "plain", "guarded"}], given' \subseteq Pointers,
         \A p \in given' : memory'[p] # "free"
  PROVE  MemInv'
<1>1. MemInvOf(manager', block_list', block', stats', memory', given')
  <2>1. PICK mg, bl, b, st, me, gv : /\ mg = manager' /\ bl = block_list' /\ b = block'
                                     /\ st = stats' /\ me = memory' /\ gv = given' OBVIOUS
  <2>2. b = [p \in Pointers |-> NULL] /\ bl = NULL /\ st = Mem!NoStats
    BY ONLY <2>1, block' = [p \in Pointers |-> NULL], block_list' = NULL, stats' = Mem!NoStats
  <2>3. me \in [Pointers -> {"free", "plain", "guarded"}] /\ gv \subseteq Pointers /\ \A p \in gv : me[p] # "free"
    BY ONLY <2>1, memory' \in [Pointers -> {"free", "plain", "guarded"}], given' \subseteq Pointers,
            \A p \in given' : memory'[p] # "free"
  <2>4. MemInvOf(mg, bl, b, st, me, gv) BY ONLY <2>2, <2>3, MemoryEmpty
  <2> QED BY ONLY <2>1, <2>4
<1> QED BY ONLY <1>1 DEF MemInv, MemInvOf

\* memory_alloc_debug
LEMMA MemoryAlloc ==
  ASSUME MemoryAssumption, MemInv, NEW n \in Sizes, NEW ty \in Types, NEW p \in Pointers \cup {NULL},
         NEW r \in BOOLEAN, Mem!memory_alloc_debug(n, ty, p, r)
  PROVE  MemInv'
<1>1. PICK s : Chained(s, block_list, block) /\ stats.active_blocks = Len(s) BY ONLY MemInv DEF MemInv, MemInvOf
<1>2. /\ block \in [Pointers -> Blocks \cup {NULL}] /\ memory \in [Pointers -> {"free", "plain", "guarded"}]
      /\ stats \in Statistics /\ given \subseteq Pointers
      /\ manager = NULL => \A q \in Pointers : block[q] = NULL
      /\ \A q \in Pointers : block[q] # NULL => q \in given
      /\ \A q \in given : memory[q] # "free" BY ONLY MemInv DEF MemInv, MemInvOf
<1>3. n \in Nat /\ NULL \notin Pointers BY ONLY MemoryAssumption, n \in Sizes DEF MemoryAssumption
<1>4. manager' = manager /\ (p # NULL => memory[p] = "free")
  BY ONLY Mem!memory_alloc_debug(n, ty, p, r) DEF Mem!memory_alloc_debug
<1>5. CASE UNCHANGED <<memory, given, block, block_list, stats>>
  BY ONLY <1>1, <1>2, <1>4, <1>5 DEF MemInv, MemInvOf
<1>6. ASSUME p # NULL, NEW k \in {"plain", "guarded"}, memory' = [memory EXCEPT ![p] = k], given' = given \cup {p}
      PROVE  /\ p \in Pointers /\ block[p] = NULL /\ given' \subseteq Pointers
             /\ memory' \in [Pointers -> {"free", "plain", "guarded"}]
             /\ \A q \in given' : memory'[q] # "free"
  <2>1. p \in Pointers BY ONLY <1>6, p \in Pointers \cup {NULL}
  <2>2. block[p] = NULL BY ONLY <1>2, <1>4, <1>6, <2>1
  <2>3. \A q \in Pointers : memory'[q] = IF q = p THEN k ELSE memory[q] BY ONLY <1>2, <1>6, <2>1
  <2>4. memory' \in [Pointers -> {"free", "plain", "guarded"}] BY ONLY <1>2, <1>6, <2>1
  <2>5. given' \subseteq Pointers BY ONLY <1>2, <1>6, <2>1
  <2>6. ASSUME NEW q \in given' PROVE memory'[q] # "free"
    <3>1. q \in Pointers /\ (q = p \/ q \in given) BY ONLY <1>6, <2>5, <2>6
    <3> QED BY ONLY <1>2, <1>6, <2>3, <3>1
  <2> QED BY ONLY <2>1, <2>2, <2>4, <2>5, <2>6
<1>7. CASE /\ manager = NULL /\ p # NULL /\ memory' = [memory EXCEPT ![p] = "plain"] /\ given' = given \cup {p}
           /\ UNCHANGED <<block, block_list, stats>>
  <2>1. "plain" \in {"plain", "guarded"} OBVIOUS
  <2>2. /\ given' \subseteq Pointers /\ memory' \in [Pointers -> {"free", "plain", "guarded"}]
        /\ \A q \in given' : memory'[q] # "free" BY ONLY <1>6, <1>7, <2>1
  <2> QED BY ONLY <1>1, <1>2, <1>4, <1>7, <2>2 DEF MemInv, MemInvOf
<1>8. CASE /\ manager # NULL /\ p # NULL /\ given' = given \cup {p}
           /\ memory' = [memory EXCEPT ![p] = IF manager.enable_bounds_checking THEN "guarded" ELSE "plain"]
           /\ IF manager.enable_tracking /\ r
              THEN /\ Mem!add_memory_block(p, n, ty)
                   /\ stats' = [Mem!update_stats_on_alloc(stats, n, ty) EXCEPT !.active_blocks = @ + 1]
              ELSE /\ stats' = [Mem!update_stats_on_alloc(stats, n, ty) EXCEPT !.unrecorded = @ + n]
                   /\ UNCHANGED <<block, block_list>>
  <2>1. PICK k \in {"plain", "guarded"} : memory' = [memory EXCEPT ![p] = k]
    <3>1. CASE manager.enable_bounds_checking BY ONLY <1>8, <3>1
    <3>2. CASE ~manager.enable_bounds_checking BY ONLY <1>8, <3>2
    <3> QED BY ONLY <3>1, <3>2
  <2>2. /\ p \in Pointers /\ block[p] = NULL
        /\ given' \subseteq Pointers /\ memory' \in [Pointers -> {"free", "plain", "guarded"}]
        /\ \A q \in given' : memory'[q] # "free" BY ONLY <1>6, <1>8, <2>1
  <2>3. manager' # NULL /\ \A q \in given : q \in given' BY ONLY <1>4, <1>8
  <2>4. CASE UNCHANGED <<block, block_list>>
             /\ stats' = [Mem!update_stats_on_alloc(stats, n, ty) EXCEPT !.unrecorded = @ + n]
    <3>1. stats' \in Statistics /\ stats'.active_blocks = stats.active_blocks
      <4>1. PICK u : u = Mem!update_stats_on_alloc(stats, n, ty) OBVIOUS
      <4>2. u \in Statistics /\ u.active_blocks = stats.active_blocks
        BY ONLY <1>2, <1>3, <4>1, ty \in Types, Counted
      <4>3. PICK x : x = [u EXCEPT !.unrecorded = @ + n] OBVIOUS
      <4>4. x \in Statistics /\ x.active_blocks = u.active_blocks BY ONLY <1>3, <4>2, <4>3 DEF Statistics
      <4> QED BY ONLY <2>4, <4>1, <4>2, <4>3, <4>4
    <3> QED BY ONLY <1>1, <1>2, <2>2, <2>3, <2>4, <3>1 DEF MemInv, MemInvOf
  <2>5. CASE /\ Mem!add_memory_block(p, n, ty)
             /\ stats' = [Mem!update_stats_on_alloc(stats, n, ty) EXCEPT !.active_blocks = @ + 1]
    <3>1. stats' \in Statistics /\ stats'.active_blocks = stats.active_blocks + 1
      <4>1. PICK u : u = Mem!update_stats_on_alloc(stats, n, ty) OBVIOUS
      <4>2. u \in Statistics /\ u.active_blocks = stats.active_blocks
        BY ONLY <1>2, <1>3, <4>1, ty \in Types, Counted
      <4>3. PICK x : x = [u EXCEPT !.active_blocks = @ + 1] OBVIOUS
      <4>4. x \in Statistics /\ x.active_blocks = u.active_blocks + 1 BY ONLY <4>2, <4>3 DEF Statistics
      <4> QED BY ONLY <2>5, <4>1, <4>2, <4>3, <4>4
    <3>2. PICK b, head, b2, t : /\ b = block /\ head = block_list /\ b2 = block' /\ t = <<p>> \o s OBVIOUS
    <3>3. /\ b2 = [q \in Pointers |-> IF q = p THEN [size |-> n, type |-> ty, next |-> head, prev |-> NULL]
                                      ELSE IF q = head THEN [b[q] EXCEPT !.prev = p] ELSE b[q]]
          /\ block_list' = p BY ONLY <2>5, <3>2 DEF Mem!add_memory_block
    <3>8. b2 = PutFirst(b, head, p, n, ty) BY ONLY <3>3 DEF PutFirst
    <3>4. b \in [Pointers -> Blocks \cup {NULL}] /\ Chained(s, head, b) /\ b[p] = NULL BY ONLY <1>1, <1>2, <2>2, <3>2
    <3>5. Chained(t, p, b2) /\ b2 \in [Pointers -> Blocks \cup {NULL}] /\ Len(t) = Len(s) + 1
      <4>1. n \in Nat /\ p \in Pointers BY ONLY <1>3, <2>2
      <4>2. t = <<p>> \o s BY ONLY <3>2
      <4>3. Longer(t, s, p, b2) BY ONLY MemoryAssumption, <3>4, <3>8, <4>1, <4>2, ty \in Types, ChainAdd
      <4> QED BY ONLY <4>3 DEF Longer
    <3>6. \A q \in Pointers : b2[q] # NULL => q \in given'
      <4>1. \A q \in Pointers \ {p} : b2[q] # NULL => b[q] # NULL
        <5>1. head # NULL => head \in Pointers /\ b[head] # NULL
          <6>1. CASE Len(s) = 0 BY ONLY <3>4, <6>1 DEF Chained
          <6>2. CASE Len(s) # 0
            <7>1. /\ s \in Seq(Pointers) /\ head = s[1]
                  /\ \A q \in Pointers : b[q] # NULL <=> \E e \in 1..Len(s) : s[e] = q
              BY ONLY <3>4, <6>2 DEF Chained
            <7>2. 1 \in 1..Len(s) BY ONLY <6>2, <7>1
            <7> QED BY ONLY <7>1, <7>2
          <6> QED BY ONLY <6>1, <6>2
        <5> QED BY ONLY <1>3, <3>3, <5>1
      <4>2. p \in given' BY ONLY <1>8
      <4> QED BY ONLY <1>2, <2>3, <3>2, <4>1, <4>2
    <3>7. \E w : Chained(w, block_list', block') /\ stats'.active_blocks = Len(w)
      BY ONLY <1>1, <3>1, <3>2, <3>3, <3>5
    <3> QED BY ONLY <2>2, <2>3, <3>1, <3>2, <3>5, <3>6, <3>7 DEF MemInv, MemInvOf
  <2> QED BY ONLY <1>8, <2>4, <2>5
<1> QED BY ONLY Mem!memory_alloc_debug(n, ty, p, r), <1>5, <1>7, <1>8 DEF Mem!memory_alloc_debug

\* memory_free_debug
LEMMA MemoryFree ==
  ASSUME MemoryAssumption, MemInv, NEW p \in Pointers, Mem!memory_free_debug(p)
  PROVE  MemInv'
<1>1. PICK s : Chained(s, block_list, block) /\ stats.active_blocks = Len(s) BY ONLY MemInv DEF MemInv, MemInvOf
<1>2. /\ block \in [Pointers -> Blocks \cup {NULL}] /\ memory \in [Pointers -> {"free", "plain", "guarded"}]
      /\ stats \in Statistics /\ given \subseteq Pointers
      /\ manager = NULL => \A q \in Pointers : block[q] = NULL
      /\ \A q \in Pointers : block[q] # NULL => q \in given
      /\ \A q \in given : memory[q] # "free" BY ONLY MemInv DEF MemInv, MemInvOf
<1>3. NULL \notin Pointers /\ NULL \notin Blocks BY ONLY MemoryAssumption DEF MemoryAssumption
<1>4. /\ manager' = manager /\ given' = given \ {p}
      /\ memory' = [q \in Pointers |-> IF q \in {p} THEN "free" ELSE memory[q]]
  BY ONLY Mem!memory_free_debug(p) DEF Mem!memory_free_debug, Mem!Freed
<1>5. /\ given' \subseteq Pointers /\ memory' \in [Pointers -> {"free", "plain", "guarded"}]
      /\ \A q \in given' : memory'[q] # "free"
  <2>1. \A q \in Pointers : memory'[q] = IF q \in {p} THEN "free" ELSE memory[q] BY ONLY <1>4
  <2>2. memory' \in [Pointers -> {"free", "plain", "guarded"}] BY ONLY <1>2, <1>4
  <2>3. given' \subseteq Pointers BY ONLY <1>2, <1>4
  <2>4. \A q \in given' : memory'[q] # "free" BY ONLY <1>2, <1>4, <2>1, <2>3
  <2> QED BY ONLY <2>2, <2>3, <2>4
<1>6. CASE (manager = NULL \/ block[p] = NULL) /\ UNCHANGED <<block, block_list, stats>>
  <2>1. block[p] = NULL BY ONLY <1>2, <1>6, p \in Pointers
  <2>2. \A q \in Pointers : block'[q] # NULL => q \in given' BY ONLY <1>2, <1>4, <1>6, <2>1
  <2> QED BY ONLY <1>1, <1>2, <1>4, <1>5, <1>6, <2>2 DEF MemInv, MemInvOf
<1>7. CASE /\ manager # NULL /\ block[p] # NULL /\ Mem!remove_memory_block(p)
           /\ stats' = [Mem!update_stats_on_free(stats, block[p].size, block[p].type) EXCEPT !.active_blocks = @ - 1]
  <2>1. PICK b, head, b2, h2, r : b = block /\ head = block_list /\ b2 = block' /\ h2 = block_list' /\ r = block[p]
    OBVIOUS
  <2>2. b2 = CutOut(b, p, r) /\ h2 = IF r.prev = NULL THEN r.next ELSE head
    BY ONLY <1>7, <2>1 DEF Mem!remove_memory_block, CutOut
  <2>3. b \in [Pointers -> Blocks \cup {NULL}] /\ Chained(s, head, b) /\ b[p] # NULL /\ r = b[p]
    BY ONLY <1>1, <1>2, <1>7, <2>1
  <2>4. PICK t : Chained(t, h2, b2) /\ b2 \in [Pointers -> Blocks \cup {NULL}] /\ Len(t) = Len(s) - 1
    BY ONLY MemoryAssumption, <2>2, <2>3, p \in Pointers, ChainCut
  <2>5. r \in Blocks BY ONLY <1>2, <1>7, <2>1, p \in Pointers
  <2>6. r.size \in Nat /\ r.type \in Types BY ONLY <2>5 DEF Blocks
  <2>7. stats' \in Statistics /\ stats'.active_blocks = stats.active_blocks - 1
    <3>1. PICK u : u = Mem!update_stats_on_free(stats, r.size, r.type) OBVIOUS
    <3>2. u \in Statistics /\ u.active_blocks = stats.active_blocks BY ONLY <1>2, <2>6, <3>1, Counted
    <3>3. PICK x : x = [u EXCEPT !.active_blocks = @ - 1] OBVIOUS
    <3>4. x \in Statistics /\ x.active_blocks = u.active_blocks - 1 BY ONLY <3>2, <3>3 DEF Statistics
    <3> QED BY ONLY <1>7, <2>1, <3>1, <3>2, <3>3, <3>4
  <2>8. \A q \in Pointers : b2[q] # NULL => q \in given'
    <3>1. b2[p] = NULL BY ONLY <2>2, p \in Pointers DEF CutOut
    <3>2. ASSUME NEW q \in Pointers, b2[q] # NULL, b[q] = NULL PROVE FALSE
      <4>1. q # p /\ (q = r.prev \/ q = r.next)
        <5>1. b2[q] = IF q = p THEN NULL ELSE IF q = r.prev THEN [b[q] EXCEPT !.next = r.next]
                      ELSE IF q = r.next THEN [b[q] EXCEPT !.prev = r.prev] ELSE b[q]
          BY ONLY <2>2, q \in Pointers DEF CutOut
        <5> QED BY ONLY <3>1, <3>2, <5>1
      <4>2. /\ s \in Seq(Pointers)
            /\ \A e \in 1..Len(s) : /\ b[s[e]].prev = (IF e = 1 THEN NULL ELSE s[e - 1])
                                    /\ b[s[e]].next = (IF e = Len(s) THEN NULL ELSE s[e + 1])
            /\ \A x \in Pointers : b[x] # NULL <=> \E e \in 1..Len(s) : s[e] = x
        BY ONLY <2>3 DEF Chained
      <4>3. PICK n : n = Len(s) /\ n \in Nat BY ONLY <4>2
      <4>4. PICK k \in 1..n : s[k] = p BY ONLY <2>3, <4>2, <4>3, p \in Pointers
      <4>5. r.prev = (IF k = 1 THEN NULL ELSE s[k - 1]) /\ r.next = (IF k = n THEN NULL ELSE s[k + 1])
        BY ONLY <2>3, <4>2, <4>3, <4>4
      <4>6. \A e \in 1..n : s[e] # q BY ONLY <3>2, <4>2, <4>3
      <4>7. (k # 1 => k - 1 \in 1..n) /\ (k # n => k + 1 \in 1..n) BY ONLY <4>3, k \in 1..n
      <4> QED BY ONLY <1>3, <4>1, <4>5, <4>6, <4>7, q \in Pointers
    <3> QED BY ONLY <1>2, <1>4, <2>1, <3>1, <3>2
  <2>9. \E w : Chained(w, block_list', block') /\ stats'.active_blocks = Len(w)
    BY ONLY <1>1, <2>1, <2>4, <2>7
  <2>10. manager' # NULL BY ONLY <1>4, <1>7
  <2> QED BY ONLY <1>5, <2>1, <2>4, <2>7, <2>8, <2>9, <2>10 DEF MemInv, MemInvOf
<1> QED BY ONLY Mem!memory_free_debug(p), <1>6, <1>7 DEF Mem!memory_free_debug

\* Every step keeps the invariant.
LEMMA MemoryStep ==
  ASSUME MemoryAssumption, MemInv, [Mem!Next]_Mem!mvars
  PROVE  MemInv'
<1>1. /\ memory \in [Pointers -> {"free", "plain", "guarded"}] /\ given \subseteq Pointers
      /\ \A q \in Pointers : block[q] # NULL => q \in given
      /\ \A q \in given : memory[q] # "free" BY ONLY MemInv DEF MemInv, MemInvOf
<1>2. ASSUME NEW c \in Configs, Mem!memory_manager_init(c) PROVE MemInv'
  <2>1. /\ block' = [p \in Pointers |-> NULL] /\ block_list' = NULL /\ stats' = Mem!NoStats
        /\ memory' = memory /\ given' = given BY ONLY <1>2 DEF Mem!memory_manager_init
  <2>2. /\ memory' \in [Pointers -> {"free", "plain", "guarded"}] /\ given' \subseteq Pointers
        /\ \A p \in given' : memory'[p] # "free" BY ONLY <1>1, <2>1
  <2> QED BY ONLY <2>1, <2>2, MemoryEmptied
<1>3. CASE Mem!memory_manager_cleanup
  <2>1. /\ block' = [p \in Pointers |-> NULL] /\ block_list' = NULL /\ stats' = Mem!NoStats
        /\ memory' = [p \in Pointers |-> IF p \in Mem!Listed THEN "free" ELSE memory[p]]
        /\ given' = given \ Mem!Listed BY ONLY <1>3 DEF Mem!memory_manager_cleanup, Mem!Freed
  <2>2. memory' \in [Pointers -> {"free", "plain", "guarded"}] BY ONLY <1>1, <2>1
  <2>3. given' \subseteq Pointers /\ \A p \in given' : memory'[p] # "free" BY ONLY <1>1, <2>1
  <2> QED BY ONLY <2>1, <2>2, <2>3, MemoryEmptied
<1>4. ASSUME NEW n \in Sizes, NEW ty \in Types, NEW p \in Pointers \cup {NULL}, NEW r \in BOOLEAN,
             Mem!memory_alloc_debug(n, ty, p, r)
      PROVE  MemInv' BY ONLY MemoryAssumption, MemInv, <1>4, MemoryAlloc
<1>5. ASSUME NEW p \in Pointers, Mem!memory_free_debug(p) PROVE MemInv'
  BY ONLY MemoryAssumption, MemInv, <1>5, MemoryFree
<1>6. ASSUME NEW p \in Pointers, Mem!Overrun(p) PROVE MemInv'
  BY ONLY MemInv, <1>6 DEF Mem!Overrun, MemInv, MemInvOf
<1>7. CASE UNCHANGED Mem!mvars BY ONLY MemInv, <1>7 DEF Mem!mvars, MemInv, MemInvOf
<1> QED BY ONLY [Mem!Next]_Mem!mvars, <1>2, <1>3, <1>4, <1>5, <1>6, <1>7 DEF Mem!Next

\* The pointers of the list, counted.
LEMMA ChainCounts ==
  ASSUME MemoryAssumption, NEW s, NEW head, NEW b, Chained(s, head, b), NEW F, F = {p \in Pointers : b[p] # NULL}
  PROVE  {s[e] : e \in DOMAIN s} = F /\ Len(s) = Cardinality(F) /\ Len(s) <= Cardinality(Pointers)
         /\ Cardinality(Pointers) \in Nat
<1>1. /\ s \in Seq(Pointers) /\ \A e, j \in 1..Len(s) : s[e] = s[j] => e = j
      /\ \A p \in Pointers : b[p] # NULL <=> \E e \in 1..Len(s) : s[e] = p
  BY ONLY Chained(s, head, b) DEF Chained
<1>2. Len(s) \in Nat /\ DOMAIN s = 1..Len(s) /\ \A e \in 1..Len(s) : s[e] \in Pointers BY ONLY <1>1
<1>3. {s[e] : e \in DOMAIN s} = F BY ONLY <1>1, <1>2, F = {p \in Pointers : b[p] # NULL}
<1>4. s \in Bijection(1..Len(s), F)
  <2>1. s \in [1..Len(s) -> F] BY ONLY <1>1, <1>2, <1>3
  <2> QED BY ONLY <1>1, <1>2, <1>3, <2>1 DEF Bijection, Injection, Surjection, IsInjective
<1>5. Cardinality(F) = Len(s) BY ONLY <1>2, <1>4, FS_CountingElements DEF ExistsBijection
<1>6. IsFiniteSet(Pointers) /\ F \in SUBSET Pointers
  BY ONLY MemoryAssumption, F = {p \in Pointers : b[p] # NULL} DEF MemoryAssumption
<1>7. Cardinality(F) <= Cardinality(Pointers) BY ONLY <1>6, FS_Subset
<1>8. Cardinality(Pointers) \in Nat BY ONLY <1>6, FS_CardinalityType
<1> QED BY ONLY <1>3, <1>5, <1>7, <1>8

\* What Walk has read after n steps.
Read(w, n, head, b) == IF n = 0 THEN <<head>>
                       ELSE IF w[n - 1][Len(w[n - 1])] = NULL \/ b[w[n - 1][Len(w[n - 1])]] = NULL THEN w[n - 1]
                       ELSE Append(w[n - 1], b[w[n - 1][Len(w[n - 1])]].next)
\* The list and the NULL at its end, as far as n steps go.
AsFar(s, n) == [e \in 1..(IF n < Len(s) THEN n + 1 ELSE Len(s) + 1) |-> IF e = Len(s) + 1 THEN NULL ELSE s[e]]

\* One step more.
LEMMA ReadFar ==
  ASSUME MemoryAssumption, NEW s, NEW head, NEW b, Chained(s, head, b), NEW n \in Nat,
         NEW w, n # 0 => w[n - 1] = AsFar(s, n - 1)
  PROVE  Read(w, n, head, b) = AsFar(s, n)
<1>1. /\ s \in Seq(Pointers) /\ head = IF Len(s) = 0 THEN NULL ELSE s[1]
      /\ \A e \in 1..Len(s) : b[s[e]].next = (IF e = Len(s) THEN NULL ELSE s[e + 1])
      /\ \A p \in Pointers : b[p] # NULL <=> \E e \in 1..Len(s) : s[e] = p
  BY ONLY Chained(s, head, b) DEF Chained
<1>2. PICK l : l = Len(s) /\ l \in Nat BY ONLY <1>1
<1>3. NULL \notin Pointers /\ \A e \in 1..l : s[e] \in Pointers /\ b[s[e]] # NULL
  BY ONLY MemoryAssumption, <1>1, <1>2 DEF MemoryAssumption
<1>4. PICK a : a = AsFar(s, n) OBVIOUS
<1>5. a = [e \in 1..(IF n < l THEN n + 1 ELSE l + 1) |-> IF e = l + 1 THEN NULL ELSE s[e]]
  BY ONLY <1>2, <1>4 DEF AsFar
<1>6. CASE n = 0
  <2>1. a = [e \in 1..1 |-> IF e = l + 1 THEN NULL ELSE s[e]] BY ONLY <1>2, <1>5, <1>6
  <2>2. head = IF 1 = l + 1 THEN NULL ELSE s[1] BY ONLY <1>1, <1>2
  <2>3. a = [e \in 1..1 |-> head] BY ONLY <2>1, <2>2
  <2>4. a = <<head>> BY ONLY <2>3
  <2> QED BY ONLY <1>4, <1>6, <2>4 DEF Read
<1>7. CASE n # 0
  <2>1. PICK c, m : m = (IF n - 1 < l THEN n ELSE l + 1) /\ c = AsFar(s, n - 1) OBVIOUS
  <2>2. c = [e \in 1..m |-> IF e = l + 1 THEN NULL ELSE s[e]] /\ m \in Nat \ {0} /\ Len(c) = m
    <3>1. c = [e \in 1..m |-> IF e = l + 1 THEN NULL ELSE s[e]]
      <4>1. m = IF n - 1 < Len(s) THEN (n - 1) + 1 ELSE Len(s) + 1 BY ONLY <1>2, <2>1, n \in Nat
      <4> QED BY ONLY <1>2, <2>1, <4>1 DEF AsFar
    <3>2. m \in Nat \ {0} BY ONLY <1>2, <1>7, <2>1, n \in Nat
    <3> QED BY ONLY <3>1, <3>2
  <2>3. PICK x : x = c[m] OBVIOUS
  <2>4. Read(w, n, head, b) = IF x = NULL \/ b[x] = NULL THEN c ELSE Append(c, b[x].next)
    BY ONLY <1>7, <2>1, <2>2, <2>3, n # 0 => w[n - 1] = AsFar(s, n - 1) DEF Read
  <2>5. CASE n - 1 < l
    <3>1. m = n /\ n \in 1..l BY ONLY <1>2, <1>7, <2>1, <2>5, n \in Nat
    <3>2. x = s[n] BY ONLY <1>2, <2>2, <2>3, <3>1
    <3>3. x # NULL /\ b[x] # NULL BY ONLY <1>3, <3>1, <3>2
    <3>4. PICK y : y = b[x].next OBVIOUS
    <3>5. y = IF n = l THEN NULL ELSE s[n + 1] BY ONLY <1>1, <1>2, <3>1, <3>2, <3>4
    <3>6. a = [e \in 1..(n + 1) |-> IF e = l + 1 THEN NULL ELSE s[e]]
      <4>1. (IF n < l THEN n + 1 ELSE l + 1) = n + 1 BY ONLY <1>2, <3>1
      <4> QED BY ONLY <1>5, <4>1
    <3>7. Append(c, y) = a
      <4>1. c \in Seq(Pointers \cup {NULL})
        <5>1. \A e \in 1..m : (IF e = l + 1 THEN NULL ELSE s[e]) \in Pointers \cup {NULL}
          BY ONLY <1>2, <1>3, <3>1
        <5> QED BY ONLY <2>2, <5>1
      <4>2. Append(c, y) = [e \in 1..(m + 1) |-> IF e = m + 1 THEN y ELSE c[e]] BY ONLY <2>2, <4>1
      <4>3. \A e \in 1..(n + 1) : (IF e = m + 1 THEN y ELSE c[e]) = (IF e = l + 1 THEN NULL ELSE s[e])
        BY ONLY <1>2, <2>2, <3>1, <3>5
      <4> QED BY ONLY <3>1, <3>6, <4>2, <4>3
    <3> QED BY ONLY <1>4, <2>4, <3>3, <3>4, <3>7
  <2>6. CASE ~(n - 1 < l)
    <3>1. m = l + 1 /\ ~(n < l) BY ONLY <1>2, <2>1, <2>6, n \in Nat
    <3>2. x = NULL BY ONLY <1>2, <2>2, <2>3, <3>1
    <3>3. a = c BY ONLY <1>5, <2>2, <3>1
    <3> QED BY ONLY <1>4, <2>4, <3>2, <3>3
  <2> QED BY ONLY <2>5, <2>6
<1> QED BY ONLY <1>6, <1>7

\* Walk reads the list to its end.
LEMMA WalkIs ==
  ASSUME MemoryAssumption, NEW s, Chained(s, block_list, block)
  PROVE  Mem!Walk = AsFar(s, Cardinality(Pointers))
<1>1. PICK head, b, L : head = block_list /\ b = block /\ L = Cardinality(Pointers) OBVIOUS
<1>2. L \in Nat BY ONLY MemoryAssumption, <1>1, FS_CardinalityType DEF MemoryAssumption
<1>3. Chained(s, head, b) BY ONLY <1>1, Chained(s, block_list, block)
<1> DEFINE Rec(w) == [n \in 0..L |-> Read(w, n, head, b)]
<1>4. \E w : w = Rec(w)
  <2>1. PICK w : w = [n \in 0..L |-> AsFar(s, n)] OBVIOUS
  <2>2. ASSUME NEW n \in 0..L PROVE Read(w, n, head, b) = AsFar(s, n)
    <3>1. n # 0 => w[n - 1] = AsFar(s, n - 1)
      <4>1. n # 0 => n - 1 \in 0..L BY ONLY <1>2, n \in 0..L
      <4> QED BY ONLY <2>1, <4>1
    <3>2. n \in Nat BY ONLY <1>2, n \in 0..L
    <3> QED BY ONLY MemoryAssumption, <1>3, <3>1, <3>2, ReadFar
  <2>3. w = Rec(w) BY ONLY <2>1, <2>2
  <2> QED BY ONLY <2>3
<1>5. PICK w : w = CHOOSE v : v = Rec(v) OBVIOUS
<1>6. w = Rec(w) BY ONLY <1>4, <1>5
<1>7. \A n \in 0..L : w[n] = AsFar(s, n)
  <2>1. PICK S : S = {n \in 0..L : w[n] # AsFar(s, n)} OBVIOUS
  <2>2. SUFFICES ASSUME S # {} PROVE FALSE BY ONLY <2>1, <2>2
  <2>3. S \in SUBSET Nat BY ONLY <1>2, <2>1
  <2>4. PICK n \in S : \A m \in S : n <= m BY ONLY <2>2, <2>3, Smallest
  <2>5. n \in 0..L /\ w[n] # AsFar(s, n) BY ONLY <2>1, n \in S
  <2>6. n # 0 => w[n - 1] = AsFar(s, n - 1)
    <3>1. n # 0 => n - 1 \in 0..L /\ ~(n <= n - 1) BY ONLY <1>2, <2>5
    <3> QED BY ONLY <2>1, <2>4, <3>1
  <2>7. n \in Nat BY ONLY <1>2, <2>5
  <2>8. Read(w, n, head, b) = AsFar(s, n) BY ONLY MemoryAssumption, <1>3, <2>6, <2>7, ReadFar
  <2>9. w[n] = Read(w, n, head, b) BY ONLY <1>6, <2>5
  <2> QED BY ONLY <2>5, <2>8, <2>9
<1>8. Mem!Cardinality(Pointers) = L BY ONLY <1>1 DEF Mem!Cardinality, Cardinality
<1>9. Mem!Walk = w[L] BY ONLY <1>1, <1>5, <1>8 DEF Mem!Walk, Read
<1>10. L \in 0..L BY ONLY <1>2
<1> QED BY ONLY <1>1, <1>7, <1>9, <1>10

\* What the invariant says, as ListLinked says it.
LEMMA MemoryRight ==
  ASSUME MemoryAssumption, MemInv
  PROVE  Mem!ListLinked
<1>1. PICK s : Chained(s, block_list, block) /\ stats.active_blocks = Len(s) BY ONLY MemInv DEF MemInv, MemInvOf
<1>2. PICK F : F = {p \in Pointers : block[p] # NULL} OBVIOUS
<1>3. /\ {s[e] : e \in DOMAIN s} = F /\ Len(s) = Cardinality(F) /\ Len(s) <= Cardinality(Pointers)
      /\ Cardinality(Pointers) \in Nat BY ONLY MemoryAssumption, <1>1, <1>2, ChainCounts
<1>4. Mem!Walk = AsFar(s, Cardinality(Pointers)) BY ONLY MemoryAssumption, <1>1, WalkIs
<1>5. PICK w, l : w = Mem!Walk /\ l = Len(s) OBVIOUS
<1>6. s \in Seq(Pointers) /\ \A e \in 1..Len(s) : block[s[e]].prev = (IF e = 1 THEN NULL ELSE s[e - 1])
  BY ONLY <1>1 DEF Chained
<1>7. l \in Nat /\ w = [e \in 1..(l + 1) |-> IF e = l + 1 THEN NULL ELSE s[e]]
  <2>1. (IF Cardinality(Pointers) < Len(s) THEN Cardinality(Pointers) + 1 ELSE Len(s) + 1) = l + 1
    BY ONLY <1>3, <1>5, <1>6
  <2>2. w = [e \in 1..(l + 1) |-> IF e = l + 1 THEN NULL ELSE s[e]] BY ONLY <1>4, <1>5, <2>1 DEF AsFar
  <2> QED BY ONLY <1>5, <1>6, <2>2
<1>8. Len(w) = l + 1 /\ w[Len(w)] = NULL BY ONLY <1>7
<1>9. SubSeq(w, 1, Len(w) - 1) = s
  <2>1. \A e \in 1..(l + 1) : w[e] \in Pointers \cup {NULL}
    <3>1. \A e \in 1..l : s[e] \in Pointers BY ONLY <1>5, <1>6
    <3> QED BY ONLY <1>7, <3>1
  <2>2. w \in Seq(Pointers \cup {NULL}) BY ONLY <1>7, <2>1
  <2>3. PICK v : v = SubSeq(w, 1, l) OBVIOUS
  <2>4. v \in Seq(Pointers \cup {NULL}) /\ Len(v) = l /\ \A e \in 1..l : v[e] = w[e]
    BY ONLY <1>7, <1>8, <2>2, <2>3
  <2>5. \A e \in 1..l : v[e] = s[e] BY ONLY <1>7, <2>4
  <2>6. v = s BY ONLY <1>5, <1>6, <2>4, <2>5
  <2>7. Len(w) - 1 = l BY ONLY <1>7, <1>8
  <2> QED BY ONLY <2>3, <2>6, <2>7
<1>10. Mem!Listed = F BY ONLY <1>2 DEF Mem!Listed
<1>11. Mem!Cardinality(F) = Cardinality(F) BY DEF Mem!Cardinality, Cardinality
<1>12. F \subseteq given BY ONLY MemInv, <1>2 DEF MemInv, MemInvOf
<1>13. DOMAIN s = 1..Len(s) BY ONLY <1>6
<1> QED BY ONLY <1>1, <1>3, <1>5, <1>6, <1>8, <1>9, <1>10, <1>11, <1>12, <1>13 DEF Mem!ListLinked

\* The tracked heap (memory_manager.c): the list runs from its head through every recorded block once, backwards
\* too, and all of them are the program's, for any allocations and frees.
THEOREM BlocksLinked ==
  ASSUME MemoryAssumption
  PROVE  Mem!Init /\ [][Mem!Next]_Mem!mvars => []Mem!ListLinked
<1>1. Mem!Init => MemInv BY MemoryStarts
<1>2. MemInv /\ [Mem!Next]_Mem!mvars => MemInv' BY MemoryStep
<1>3. MemInv => Mem!ListLinked BY MemoryRight
<1> QED BY <1>1, <1>2, <1>3, PTL
=============================================================================
