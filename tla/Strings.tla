------------------------------- MODULE Strings -------------------------------
(***************************************************************************)
(* Searching, splitting and replacing in strings and files, cutting them,   *)
(* and reading integers from them.                                          *)
(*                                                                          *)
(* A string is a sequence of characters.  A pattern is a key, searched for  *)
(* as it is, or one of two regular expressions, which stand for those that  *)
(* match at least one character and those that match nothing too.           *)
(***************************************************************************)
EXTENDS Integers, Sequences, FiniteSets, SequencesExt

CONSTANTS Texts,            \* texts to search in, split and cut
          Patterns,         \* keys and regular expressions
          Replacements,     \* what to put for what is found, or It if nothing
          SearchSize,       \* the part of a file that is searched at once
          Numerals,         \* texts of integers
          Whole,            \* integers to print
          Width             \* bits of an integer

VARIABLES ask, answer

Cut(text, from, n) == SubSeq(text, from + 1, from + n)
Least(m, n) == IF m < n THEN m ELSE n
Most(m, n) == IF m > n THEN m ELSE n
LeastOf(S) == CHOOSE n \in S : \A k \in S : n <= k
Missing == -1
It == <<"it">>
IsRegex(p) == p[1] # "key"
----------------------------------------
(* Finding. *)

\* The first place of a key.
searchBuffer(text, key) ==
  LET at == {k \in 0..Len(text) - Len(key) : Cut(text, k, Len(key)) = key} IN
  IF key = <<>> \/ at = {} THEN Missing ELSE LeastOf(at)

\* What the library finds: the characters c from a place on; "run" is one or more of
\* them, "any" none or more.
RunAt(text, c, k) ==
  IF \A j \in k + 1..Len(text) : text[j] = c THEN Len(text) - k
  ELSE LeastOf({j \in k + 1..Len(text) : text[j] # c}) - 1 - k
pcre_exec(p, text, offset) ==
  IF p[1] = "any" THEN IF offset <= Len(text) THEN offset ELSE Missing
  ELSE IF \A k \in offset + 1..Len(text) : text[k] # p[2] THEN Missing
  ELSE LeastOf({k \in offset + 1..Len(text) : text[k] = p[2]}) - 1
\* A match: where, and how long.
Match(at, n) == [at |-> at, len |-> n]
MatchAt(p, text, at) == Match(at, IF at = Missing THEN 0 ELSE RunAt(text, p[2], at))
searchBufferRegex(p, text, offset) == MatchAt(p, text, pcre_exec(p, text, offset))

Shifted(at, offset) == IF at = Missing THEN Missing ELSE at + offset
FindFrom(p, text, offset) ==
  IF IsRegex(p) THEN searchBufferRegex(p, text, offset).at
  ELSE Shifted(searchBuffer(SubSeq(text, offset + 1, Len(text)), p[2]), offset)
p_find(p, text, offset) == FindFrom(p, text, Least(offset, Len(text)))

\* All that is found; what is found twice at one place, because it is nothing, is
\* evaluated twice and left out once.
RECURSIVE FindAllFrom(_, _, _, _, _, _)
FindAllNext(p, text, found, lastPos, evaluated, m) ==
  IF m.at = Missing THEN [found |-> found, evaluated |-> evaluated]
  ELSE IF m.at # lastPos THEN FindAllFrom(p, text, Append(found, Cut(text, m.at, m.len)), m.at, evaluated + 1, m.at + m.len)
  ELSE IF m.at + 1 > Len(text) THEN [found |-> found, evaluated |-> evaluated + 1]
  ELSE FindAllFrom(p, text, found, lastPos, evaluated + 1, m.at + 1 + m.len)
FindAllFrom(p, text, found, lastPos, evaluated, offset) ==
  FindAllNext(p, text, found, lastPos, evaluated, searchBufferRegex(p, text, offset))
findAllString(p, text) == FindAllFrom(p, text, <<>>, Missing, 0, 0)

\* A file is searched in parts; the next one begins as far before the end of the last
\* as the key is long.
LenOf(p) == IF IsRegex(p) THEN 2 ELSE Len(p[2])
InBuffer(p, buffer) == IF IsRegex(p) THEN searchBufferRegex(p, buffer, 0) ELSE Match(searchBuffer(buffer, p[2]), Len(p[2]))
Endless == -2
Position(result, position) == [result |-> result, position |-> position]
RECURSIVE SearchFrom(_, _, _, _)
\* Mutant: the next part begins where the last one ended.
SearchApart(p, file, flag, filePosition, bytesRead, m) ==
  LET found == filePosition + m.at + (IF flag THEN m.len ELSE 0) IN
  IF m.at # Missing THEN Position(found, found)
  ELSE IF bytesRead < SearchSize THEN Position(Missing, filePosition + bytesRead)
  ELSE SearchFrom(p, file, flag, filePosition + bytesRead)
SearchOn(p, file, flag, filePosition, bytesRead, m) ==
  LET found == filePosition + m.at + (IF flag THEN m.len ELSE 0)
      next == filePosition + bytesRead - LenOf(p) IN
  IF m.at # Missing THEN Position(found, found)
  ELSE IF bytesRead < SearchSize THEN Position(Missing, IF next < 0 THEN filePosition + bytesRead ELSE next)
  ELSE IF next <= filePosition THEN Position(Endless, filePosition)
  ELSE SearchFrom(p, file, flag, next)
SearchPart(p, file, flag, filePosition, buffer) ==
  SearchOn(p, file, flag, filePosition, Len(buffer), InBuffer(p, buffer))
SearchFrom(p, file, flag, filePosition) ==
  SearchPart(p, file, flag, filePosition, SubSeq(file, filePosition + 1, Least(filePosition + SearchSize, Len(file))))
p_search(p, file, flag, position) ==
  IF LenOf(p) = 0 THEN Position(Missing, position) ELSE SearchFrom(p, file, flag, position)
----------------------------------------
(* Splitting and replacing. *)

\* The tokens before each separator; one that is nothing ends it, and a text that ends
\* with a separator has an empty token after it.
RECURSIVE TokensFrom(_, _, _, _)
TokenTo(p, text, tokens, from, m) ==
  IF m.at = Missing THEN Append(tokens, SubSeq(text, from + 1, Len(text)))
  ELSE IF m.len = 0 THEN tokens
  ELSE IF m.at + m.len = Len(text) THEN Append(tokens, Cut(text, from, m.at - from)) \o <<<<>>>>
  ELSE TokensFrom(p, text, Append(tokens, Cut(text, from, m.at - from)), m.at + m.len)
cellTokenString(p, text, from) ==
  IF IsRegex(p) THEN searchBufferRegex(p, text, from) ELSE Match(FindFrom(p, text, from), Len(p[2]))
TokensFrom(p, text, tokens, from) ==
  IF from = Len(text) THEN tokens ELSE TokenTo(p, text, tokens, from, cellTokenString(p, text, from))
p_parse(p, text) == TokensFrom(p, text, <<>>, 0)

\* What is found is noted with what is put for it; after a place where nothing was
\* found the search goes on one character later.
Noted(m, rep) == [offset |-> m.at, length |-> m.len, repStr |-> rep]
\* A replacement that is no string leaves what is there.
NewText(text, m, rep) == IF rep = It THEN Cut(text, m.at, m.len) ELSE rep
RECURSIVE NotesFrom(_, _, _, _, _, _)
\* Mutant: the character after an empty match is skipped.
NotesSkipping(p, text, rep, once, notes, m) ==
  IF m.at = Missing THEN [notes |-> notes, rest |-> IF notes = <<>> THEN 0 ELSE Last(notes).offset + Last(notes).length]
  ELSE IF once /\ IsRegex(p) THEN [notes |-> Append(notes, Noted(m, NewText(text, m, rep))), rest |-> m.at + Most(m.len, 1)]
  ELSE NotesFrom(p, text, rep, once, Append(notes, Noted(m, NewText(text, m, rep))), m.at + Most(m.len, 1))
NotesOn(p, text, rep, once, notes, m) ==
  IF m.at = Missing THEN [notes |-> notes, rest |-> IF notes = <<>> THEN 0 ELSE Last(notes).offset + Last(notes).length]
  ELSE IF once /\ IsRegex(p) THEN [notes |-> Append(notes, Noted(m, NewText(text, m, rep))), rest |-> m.at + m.len]
  ELSE NotesFrom(p, text, rep, once, Append(notes, Noted(m, NewText(text, m, rep))), m.at + Most(m.len, 1))
NotesFrom(p, text, rep, once, notes, offset) ==
  IF offset > Len(text) THEN NotesOn(p, text, rep, once, notes, Match(Missing, 0))
  ELSE NotesOn(p, text, rep, once, notes, cellTokenString(p, text, offset))
\* The new text: what was put, and what was there between.
Assembled(text, notes) ==
  FlattenSeq([k \in DOMAIN notes |->
     notes[k].repStr \o (IF k = Len(notes) THEN <<>>
                         ELSE SubSeq(text, notes[k].offset + notes[k].length + 1, notes[k + 1].offset))])
Replaced(text, r) ==
  IF r.notes = <<>> THEN [text |-> text, count |-> 0]
  ELSE [text |-> SubSeq(text, 1, r.notes[1].offset) \o Assembled(text, r.notes) \o SubSeq(text, r.rest + 1, Len(text)),
        count |-> Len(r.notes)]
replaceString(p, text, rep, once) == Replaced(text, NotesFrom(p, text, rep, once, <<>>, 0))
----------------------------------------
(* Cutting. *)

Invalid == <<"invalid index">>
FromTo(text, from, n) ==
  IF n < 0 THEN Cut(text, from, Most(Len(text) - from + n, 0)) ELSE Cut(text, from, Least(n, Len(text) - from))
substring(text, offset, n) ==
  IF offset >= 0 THEN FromTo(text, Least(offset, Len(text)), n)
  ELSE IF Len(text) + offset < 0 THEN Invalid
  ELSE FromTo(text, Len(text) + offset, n)

\* Pieces of n characters; the rest only if it is not to be left out.
RECURSIVE Pieces(_, _, _)
Pieces(text, n, whole) ==
  IF Len(text) = 0 \/ (whole /\ Len(text) < n) THEN <<>>
  ELSE <<SubSeq(text, 1, Least(n, Len(text)))>> \o Pieces(SubSeq(text, n + 1, Len(text)), n, whole)
p_explode(text, n, whole) == IF n <= 0 THEN <<>> ELSE Pieces(text, n, whole)

\* Left of the first character that is not one of left, right of the last that is not
\* one of right.
p_trim(text, left, right) ==
  IF \A k \in DOMAIN text : text[k] \in left THEN <<>>
  ELSE LET from == LeastOf({k \in DOMAIN text : text[k] \notin left})
           to == IF \A k \in DOMAIN text : text[k] \in right THEN 0
                 ELSE Len(text) + 1 - LeastOf({k \in 1..Len(text) : text[Len(text) + 1 - k] \notin right}) IN
       SubSeq(text, from, to)

\* A character in its place, as adjustNegativeIndex makes it, becomes a string.
setNthStr(text, index, new) ==
  IF text = <<>> THEN text
  ELSE SubSeq(text, 1, index) \o new \o SubSeq(text, index + 2, Len(text))
Index(text, index) == IF index < 0 THEN Most(Len(text) + index, -1) ELSE index
implicitIndexString(text, index) ==
  IF text = <<>> THEN IF index \in {0, -1} THEN <<>> ELSE Invalid
  ELSE IF Index(text, index) \in 0..Len(text) - 1 THEN <<text[Index(text, index) + 1]>> ELSE Invalid
----------------------------------------
(* Integers. *)

Digits == <<"0", "1", "2", "3", "4", "5", "6", "7", "8", "9", "a", "b", "c", "d", "e", "f">>
IsDigit(text, k) == k <= Len(text) /\ \E d \in 1..10 : Digits[d] = text[k]
IsXDigit(text, k) == k <= Len(text) /\ \E d \in 1..16 : Digits[d] = text[k]
Value(c) == CHOOSE d \in 0..15 : Digits[d + 1] = c
Begins(text, c) == text # <<>> /\ text[1] \in c
Pow2(n) == 2 ^ n
Signed(n) == IF n >= Pow2(Width - 1) THEN n - Pow2(Width) ELSE n

\* The library: the digits that there are, all bits if there are too many.
RECURSIVE ValueOfDigits(_, _, _)
ValueOfDigits(text, base, n) ==
  IF ~IsXDigit(text, 1) \/ Value(Head(text)) >= base THEN n
  ELSE IF n >= Pow2(Width) THEN n
  ELSE ValueOfDigits(Tail(text), base, n * base + Value(Head(text)))
Hex(text) == Begins(text, {"0"}) /\ Len(text) > 1 /\ text[2] = "x" /\ IsXDigit(text, 3)
Magnitude(text, base) ==
  IF base \in {0, 16} /\ Hex(text) THEN ValueOfDigits(SubSeq(text, 3, Len(text)), 16, 0)
  ELSE ValueOfDigits(text, IF base # 0 THEN base ELSE IF Begins(text, {"0"}) THEN 8 ELSE 10, 0)
Negated(n) == IF n >= Pow2(Width) THEN Pow2(Width) - 1 ELSE (Pow2(Width) - n) % Pow2(Width)
strtoull(text, base) ==
  IF Begins(text, {"-"}) THEN Negated(Magnitude(Tail(text), base))
  ELSE Least(Magnitude(IF Begins(text, {"+"}) THEN Tail(text) ELSE text, base), Pow2(Width) - 1)

\* An integer, or the default if the text does not begin like one.
Default == "default"
ToInteger(text, base) ==
  IF base = 16
    THEN IF IsXDigit(text, 1) \/ (Begins(text, {"-", "+"}) /\ IsXDigit(text, 2)) THEN Signed(strtoull(text, base)) ELSE Default
  ELSE IF ~IsDigit(text, 1) /\ ~(Begins(text, {"-", "+"}) /\ IsDigit(text, 2)) THEN Default
  ELSE IF text[1] = "0" /\ Len(text) > 1 /\ text[2] = "b" THEN Signed(strtoull(SubSeq(text, 3, Len(text)), 2))
  ELSE Signed(strtoull(text, base))
RECURSIVE p_integer(_, _)
p_integer(text, base) == IF Begins(text, {" "}) THEN p_integer(Tail(text), base) ELSE ToInteger(text, base)
----------------------------------------
(* What is asked. *)

\* The numbers that are printed.
RECURSIVE Decimal(_)
Decimal(n) == IF n < 10 THEN <<Digits[n + 1]>> ELSE Append(Decimal(n \div 10), Digits[(n % 10) + 1])
Printed == {(IF n < 0 THEN <<"-">> ELSE <<>>) \o Decimal(IF n < 0 THEN -n ELSE n) : n \in Whole}
Idle == <<"none">>
CallFind == \E text \in Texts, p \in Patterns, offset \in 0..3 :
  /\ ask' = <<"find", p, text, offset>>
  /\ answer' = p_find(p, text, offset)
CallFindAll == \E text \in Texts, p \in {q \in Patterns : IsRegex(q)} :
  /\ ask' = <<"find-all", p, text>>
  /\ answer' = findAllString(p, text)
CallSearch == \E file \in Texts, p \in Patterns, flag \in BOOLEAN : \E position \in 0..Len(file) :
  /\ ask' = <<"search", p, file, flag, position>>
  /\ answer' = p_search(p, file, flag, position)
CallParse == \E text \in Texts, p \in Patterns :
  /\ ask' = <<"parse", p, text>>
  /\ answer' = p_parse(p, text)
CallReplace == \E text \in Texts, p \in Patterns, rep \in Replacements, once \in BOOLEAN :
  /\ ask' = <<"replace", p, text, rep, once>>
  /\ answer' = replaceString(p, text, rep, once)
CallSlice == \E text \in Texts, offset \in -3..4, n \in -3..4 :
  /\ ask' = <<"slice", text, offset, n>>
  /\ answer' = substring(text, offset, n)
CallExplode == \E text \in Texts, n \in 0..4, whole \in BOOLEAN :
  /\ ask' = <<"explode", text, n, whole>>
  /\ answer' = p_explode(text, n, whole)
CallTrim == \E text \in Texts, left, right \in {{"a"}, {"b"}, {}, {" "}} :
  /\ ask' = <<"trim", text, left, right>>
  /\ answer' = p_trim(text, left, right)
CallSetf == \E text \in Texts, index \in -4..4, new \in {<<>>, <<"a">>, <<"b", "b">>} :
  /\ implicitIndexString(text, index) # Invalid
  /\ ask' = <<"setf", text, index, new>>
  /\ answer' = setNthStr(text, Index(text, index), new)
CallInt == \E text \in Numerals \cup Printed, base \in {0, 2, 8, 10, 16} :
  /\ ask' = <<"int", text, base>>
  /\ answer' = p_integer(text, base)
Init == ask = Idle /\ answer = <<>>
Return == ask # Idle /\ ask' = Idle /\ answer' = <<>>
Next ==
  \/ /\ ask = Idle
     /\ (CallFind \/ CallFindAll \/ CallSearch \/ CallParse \/ CallReplace \/ CallSlice \/ CallExplode \/ CallTrim
           \/ CallSetf \/ CallInt)
  \/ Return
----------------------------------------
(* Properties. *)

Occurs(p, text, k) ==
  CASE p[1] = "key" -> p[2] # <<>> /\ k + Len(p[2]) <= Len(text) /\ Cut(text, k, Len(p[2])) = p[2]
    [] p[1] = "run" -> k < Len(text) /\ text[k + 1] = p[2]
    [] p[1] = "any" -> TRUE
First(p, text, from) ==
  LET at == {k \in from..Len(text) : Occurs(p, text, k)} IN IF at = {} THEN Missing ELSE LeastOf(at)
Others(text, c) == SelectSeq(text, LAMBDA d : d # c)
Runs(text, c) == Cardinality({k \in DOMAIN text : text[k] = c /\ (k = 1 \/ text[k - 1] # c)})
RECURSIVE Joined(_, _)
Joined(tokens, with) ==
  IF Len(tokens) <= 1 THEN FlattenSeq(tokens) ELSE Head(tokens) \o with \o Joined(Tail(tokens), with)

\* find finds the first place; find-all all runs of characters and all the places
\* between, where the expression is evaluated twice.
FindExact ==
  /\ ask[1] = "find" => answer = First(ask[2], ask[3], Least(ask[4], Len(ask[3])))
  /\ ask[1] = "find-all" =>
       LET p == ask[2]
           text == ask[3]
           empty == Len(SelectSeq(answer.found, LAMBDA t : t = <<>>)) IN
       /\ FlattenSeq(answer.found) = SelectSeq(text, LAMBDA d : d = p[2])
       /\ Len(answer.found) - empty = Runs(text, p[2])
       /\ empty = IF p[1] = "run" THEN 0 ELSE Len(Others(text, p[2])) + 1
       /\ answer.evaluated = Len(answer.found) + empty

\* A file is searched as its whole text would be, if the key is shorter than the part
\* that is read at once; a match of a regular expression may be cut at the end of one.
SearchExact ==
  ask[1] = "search" =>
    LET p == ask[2]
        at == First(p, ask[3], ask[5]) IN
    /\ LenOf(p) = 0 => answer = Position(Missing, ask[5])
    /\ LenOf(p) \in 1..SearchSize - 1 =>
         /\ answer.result - (IF ask[4] /\ at # Missing /\ ~IsRegex(p) THEN LenOf(p) ELSE 0) = at
              \/ (ask[4] /\ IsRegex(p) /\ answer.result \in at..at + RunAt(ask[3], p[2], at))
         /\ at # Missing => answer.position = answer.result
         /\ at = Missing => answer.position \in {Len(ask[3]), Len(ask[3]) - LenOf(p)}

\* The tokens make up the text, joined by the separator, and have none in them; a
\* separator that may be nothing ends the tokens before any of the text.
ParseExact ==
  ask[1] = "parse" =>
    LET p == ask[2]
        text == ask[3] IN
    /\ p[1] = "key" => /\ Joined(answer, p[2]) = text
                       /\ \A k \in DOMAIN answer : First(p, answer[k], 0) = Missing
    /\ p[1] = "run" => /\ FlattenSeq(answer) = Others(text, p[2])
                       /\ text # <<>> => Len(answer) = Runs(text, p[2]) + 1
                       /\ \A k \in 2..Len(answer) - 1 : answer[k] # <<>>
    /\ p[1] = "any" => FlattenSeq(answer) = <<>>

\* What replace makes is what there is between the tokens of parse, joined by what is
\* put; once, only the first is.
ReplaceExact ==
  ask[1] = "replace" =>
    LET p == ask[2]
        text == ask[3]
        rep == ask[4]
        m == IF IsRegex(p) THEN MatchAt(p, text, First(p, text, 0)) ELSE Match(First(p, text, 0), Len(p[2])) IN
    /\ (rep = It \/ m.at = Missing) => answer.text = text
    /\ rep # It /\ m.at # Missing =>
         IF IsRegex(p) /\ ask[5] THEN answer = [text |-> Cut(text, 0, m.at) \o rep \o SubSeq(text, m.at + m.len + 1, Len(text)), count |-> 1]
         ELSE IF p[1] # "any" THEN answer = [text |-> Joined(p_parse(p, text), rep), count |-> Len(p_parse(p, text)) - 1]
         ELSE /\ answer.count = Len(findAllString(p, text).found)
              /\ Len(answer.text) = Len(Others(text, p[2])) + answer.count * Len(rep)
              /\ rep = <<>> => answer.text = Others(text, p[2])

\* The pieces of explode make up the text, trim takes away what it should and no
\* more, slice and setf change what they say.
CutExact ==
  /\ ask[1] = "explode" /\ ask[3] > 0 =>
       /\ FlattenSeq(answer) = SubSeq(ask[2], 1, IF ask[4] THEN (Len(ask[2]) \div ask[3]) * ask[3] ELSE Len(ask[2]))
       /\ \A k \in DOMAIN answer : Len(answer[k]) = ask[3] \/ (k = Len(answer) /\ Len(answer[k]) \in 1..ask[3])
  /\ ask[1] = "trim" =>
       /\ answer # <<>> => Head(answer) \notin ask[3] /\ Last(answer) \notin ask[4]
       /\ \E l, r \in 0..Len(ask[2]) : /\ l + r <= Len(ask[2]) /\ answer = SubSeq(ask[2], l + 1, Len(ask[2]) - r)
                                       /\ \A k \in 1..l : ask[2][k] \in ask[3]
                                       /\ \A k \in 1..r : ask[2][Len(ask[2]) + 1 - k] \in ask[4]
  /\ (ask[1] = "slice" /\ answer # Invalid) =>
       LET from == IF ask[3] < 0 THEN Len(ask[2]) + ask[3] ELSE ask[3]
           to == IF ask[4] < 0 THEN Len(ask[2]) + ask[4] ELSE from + ask[4] IN
       answer = SubSeq(ask[2], from + 1, Least(to, Len(ask[2])))
  /\ (ask[1] = "setf" /\ ask[2] # <<>>) =>
       LET at == IF ask[3] < 0 THEN Len(ask[2]) + ask[3] ELSE ask[3] IN
       answer = [k \in 1..at |-> ask[2][k]] \o ask[4] \o [k \in 1..Len(ask[2]) - at - 1 |-> ask[2][at + 1 + k]]

\* A number that is printed is read as it was, one more is wrapped around, and one
\* with too many digits has all bits set.
IntExact ==
  ask[1] = "int" =>
    \A n \in Whole : (ask[2] = (IF n < 0 THEN <<"-">> ELSE <<>>) \o Decimal(IF n < 0 THEN -n ELSE n) /\ ask[3] \in {0, 10}) =>
      answer = IF n \in -Pow2(Width) + 1..Pow2(Width) - 1 THEN Signed(n % Pow2(Width)) ELSE -1

StringsExact == FindExact /\ SearchExact /\ ParseExact /\ ReplaceExact /\ CutExact /\ IntExact
=============================================================================
