------------------------------ MODULE JsonParser ------------------------------
(***************************************************************************)
(* json-parse: objects, arrays, strings, numbers and words by recursive     *)
(* descent, the rest of the text after each, and the error that json-error  *)
(* shows.  What follows the value is not looked at.                         *)
(*                                                                          *)
(* A text is a sequence of characters; the words true, false and null are   *)
(* one each, and so is an escape of a string with the backslash before it.  *)
(***************************************************************************)
EXTENDS Integers, Sequences, FiniteSets, SequencesExt

CONSTANTS Values, Texts          \* what is written and parsed, and other texts

VARIABLES ask, answer

Num(digits) == <<"int", digits>>
Float(digits) == <<"float", digits>>
Str(s) == <<"string", s>>
Word(w) == <<"symbol", w>>
List(s) == <<"list", s>>

Words == {"true", "false", "null"}
Digit == {"0", "1"}
Blank == {" ", "cr"}
\* What may come after a number: the carriage return is not among it.
AfterNumber == {" ", ",", "}", "]", "end"}
Escapes == {"\\n", "\\\"", "\\u0041", "\\uBAD"}
----------------------------------------
Chr(text, i) == IF i \in DOMAIN text THEN text[i] ELSE "end"
RECURSIVE Past(_, _, _)
Past(text, i, set) == IF Chr(text, i) \in set THEN Past(text, i + 1, set) ELSE i
Found(cell, rest) == [cell |-> cell, rest |-> rest]
\* The error, and where it is: as many characters from the beginning.
setJSONerror(what, i) == [error |-> what, at |-> i - 1]
IsError(r) == "error" \in DOMAIN r

\* Up to the quote at j.
Character(c) == CASE c = "\\n" -> "\n" [] c = "\\\"" -> "\"" [] c = "\\u0041" -> "A" [] OTHER -> c
StringTo(text, i, j) ==
  IF Chr(text, j) # "\"" THEN setJSONerror("missing closing quote", j + 1)
  ELSE IF \E k \in i..j - 1 : text[k] = "\\uBAD" THEN setJSONerror("invalid unicode", j + 1)
  ELSE Found(Str([k \in 1..j - i |-> Character(text[i + k - 1])]), j + 1)
RECURSIVE QuoteFrom(_, _)
QuoteFrom(text, i) == IF Chr(text, i) \in {"\"", "end"} THEN i ELSE QuoteFrom(text, i + 1)
StringAt(text, i) ==
  IF Chr(text, i) # "\"" THEN setJSONerror("missing key", i) ELSE StringTo(text, i + 1, QuoteFrom(text, i + 1))
getJSONstring(text, i) == StringAt(text, Past(text, i, Blank))

\* A number that begins at i: its digits, a point and more, an exponent.
NumberTo(text, i, j, isFloat) ==
  IF Chr(text, j) \notin AfterNumber THEN setJSONerror("invalid number", j)
  ELSE Found((IF isFloat THEN Float(SubSeq(text, i, j - 1)) ELSE Num(SubSeq(text, i, j - 1))), j)
ExponentFrom(text, i, j) ==
  IF Chr(text, j) \notin Digit THEN setJSONerror("invalid number", j) ELSE NumberTo(text, i, Past(text, j, Digit), TRUE)
SignedFrom(text, i, j) == ExponentFrom(text, i, IF Chr(text, j) \in {"-", "+"} THEN j + 1 ELSE j)
FractionTo(text, i, j, isFloat) ==
  IF Chr(text, j) = "e" THEN SignedFrom(text, i, j + 1) ELSE NumberTo(text, i, j, isFloat)
DigitsTo(text, i, j) ==
  IF Chr(text, j) = "." THEN FractionTo(text, i, Past(text, j + 1, Digit), TRUE) ELSE FractionTo(text, i, j, FALSE)
IsNumber(text, i) == Chr(text, i) \in Digit \/ (Chr(text, i) \in {"-", "+"} /\ Chr(text, i + 1) \in Digit)
Number(text, i) == DigitsTo(text, i, Past(text, i + 1, Digit))

RECURSIVE getJSONvalue(_, _), Elements(_, _, _), Pairs(_, _, _)

\* Mutant: a value ends an array, whatever comes.
AfterElementAny(text, items, i) ==
  IF Chr(text, i) = "," THEN Elements(text, items, i + 1) ELSE Found(List(items), i + 1)
\* After a value of an array.
AfterElement(text, items, i) ==
  IF Chr(text, i) = "," THEN Elements(text, items, i + 1)
  ELSE IF Chr(text, i) = "]" THEN Found(List(items), i + 1)
  ELSE setJSONerror("invalid array", i)
AddElement(text, items, r) ==
  IF IsError(r) THEN r ELSE AfterElement(text, Append(items, r.cell), Past(text, r.rest, Blank))
\* An array may end after a comma.
ElementAt(text, items, i) ==
  IF Chr(text, i) = "]" THEN Found(List(items), i + 1) ELSE AddElement(text, items, getJSONvalue(text, i))
Elements(text, items, i) == ElementAt(text, items, Past(text, i, Blank))

\* After a pair of an object; a key must follow a comma.
AfterPair(text, items, i) ==
  IF Chr(text, i) = "}" THEN Found(List(items), i + 1)
  ELSE IF Chr(text, i) = "," THEN Pairs(text, items, i + 1)
  ELSE setJSONerror("invalid object", i)
AddPair(text, items, key, r) ==
  IF IsError(r) THEN r ELSE AfterPair(text, Append(items, List(<<key, r.cell>>)), Past(text, r.rest, Blank))
PairColon(text, items, key, i) ==
  IF Chr(text, i) # ":" THEN setJSONerror("missing colon", i) ELSE AddPair(text, items, key, getJSONvalue(text, i + 1))
PairWith(text, items, r) == IF IsError(r) THEN r ELSE PairColon(text, items, r.cell, Past(text, r.rest, Blank))
Pairs(text, items, i) == PairWith(text, items, getJSONstring(text, i))
ObjectAt(text, i) == IF Chr(text, i) = "}" THEN Found(List(<<>>), i + 1) ELSE Pairs(text, <<>>, i)
getJSONobject(text, i) == ObjectAt(text, Past(text, i + 1, Blank))

ValueAt(text, i) ==
  IF Chr(text, i) = "\"" THEN getJSONstring(text, i)
  ELSE IF IsNumber(text, i) THEN Number(text, i)
  ELSE IF Chr(text, i) = "{" THEN getJSONobject(text, i)
  ELSE IF Chr(text, i) = "[" THEN Elements(text, <<>>, i + 1)
  ELSE IF Chr(text, i) \in Words THEN Found(Word(text[i]), i + 1)
  ELSE setJSONerror("invalid value", i)
getJSONvalue(text, i) == ValueAt(text, Past(text, i, Blank))

p_JSONparse(text) == getJSONvalue(text, 1)
----------------------------------------
Idle == <<"none">>
RECURSIVE Render(_, _)
\* A value written out, with a blank wherever one may be, or none.
Between(s, sep) == FlattenSeq([k \in DOMAIN s |-> IF k = 1 THEN s[k] ELSE sep \o s[k]])
Escaped(c) == CASE c = "\"" -> "\\\"" [] c = "\n" -> "\\n" [] OTHER -> c
Render(v, blank) ==
  blank \o
  (CASE v[1] \in {"int", "float"} -> v[2]
     [] v[1] = "string" -> <<"\"">> \o [k \in DOMAIN v[2] |-> Escaped(v[2][k])] \o <<"\"">>
     [] v[1] = "symbol" -> <<v[2]>>
     [] v[1] = "list" -> <<"[">> \o Between([k \in DOMAIN v[2] |-> Render(v[2][k], blank)], <<",">>) \o blank \o <<"]">>
     [] v[1] = "object" -> <<"{">> \o Between([k \in DOMAIN v[2] |-> Render(v[2][k][1], blank) \o blank \o <<":">>
                                                                     \o Render(v[2][k][2], blank)], <<",">>)
                            \o blank \o <<"}">>) \o blank

Ask(call, result) == ask' = call /\ answer' = result
CallRender == \E v \in Values, blank \in {<<>>, <<" ">>, <<"cr">>} :
                Ask(<<"value", v, Render(v, blank)>>, p_JSONparse(Render(v, blank)))
CallText == \E text \in Texts : Ask(<<"text", text>>, p_JSONparse(text))

Init == ask = Idle /\ answer = <<>>
Return == ask # Idle /\ ask' = Idle /\ answer' = <<>>
Next == (ask = Idle /\ (CallRender \/ CallText)) \/ Return
----------------------------------------
(* Properties. *)

RECURSIVE Cell(_), HasNumber(_)
\* The list that a value is: an object is one of pairs.
Cell(v) ==
  CASE v[1] = "list" -> List([k \in DOMAIN v[2] |-> Cell(v[2][k])])
    [] v[1] = "object" -> List([k \in DOMAIN v[2] |-> List(<<v[2][k][1], Cell(v[2][k][2])>>)])
    [] OTHER -> v
HasNumber(v) ==
  CASE v[1] = "list" -> \E k \in DOMAIN v[2] : HasNumber(v[2][k])
    [] v[1] = "object" -> \E k \in DOMAIN v[2] : HasNumber(v[2][k][2])
    [] OTHER -> v[1] \in {"int", "float"}

\* A value that is written out parses to what it was, as a whole, except where a
\* carriage return follows a number.
JsonReadsValues ==
  ask # Idle /\ ask[1] = "value" /\ ~("cr" \in ToSet(ask[3]) /\ HasNumber(ask[2])) =>
    ~IsError(answer) /\ answer.cell = Cell(ask[2]) /\ Past(ask[3], answer.rest, Blank) = Len(ask[3]) + 1

\* The sentences of the language, which lets numbers begin with + or 0 and end with
\* a point, and a comma end an array.
Is(s, set) == Len(s) = 1 /\ s[1] \in set
AllIn(s, set) == ToSet(s) \subseteq set
IsDigits(s) == s # <<>> /\ AllIn(s, Digit)
IsUnsigned(s) == \/ IsDigits(s)
                 \/ \E k \in DOMAIN s : s[k] = "." /\ IsDigits(SubSeq(s, 1, k - 1)) /\ AllIn(SubSeq(s, k + 1, Len(s)), Digit)
Unsign(s) == IF s # <<>> /\ s[1] \in {"-", "+"} THEN Tail(s) ELSE s
IsNumeral(s) == \/ IsUnsigned(Unsign(s))
                \/ \E k \in DOMAIN s : /\ s[k] = "e" /\ IsUnsigned(Unsign(SubSeq(s, 1, k - 1)))
                                       /\ IsDigits(Unsign(SubSeq(s, k + 1, Len(s))))
IsString(s) == /\ Len(s) >= 2 /\ s[1] = "\"" /\ s[Len(s)] = "\""
               /\ \A k \in 2..Len(s) - 1 : s[k] \notin {"\"", "\\uBAD"}
RECURSIVE IsValue(_), IsItems(_), IsPairs(_)
Trimmed(s) == SubSeq(s, Past(s, 1, Blank), Len(s))
\* A value, with blanks before it.
IsBare(s) ==
  \/ IsString(s) \/ IsNumeral(s) \/ Is(s, Words)
  \/ Len(s) >= 2 /\ s[1] = "[" /\ s[Len(s)] = "]" /\ IsItems(SubSeq(s, 2, Len(s) - 1))
  \/ Len(s) >= 2 /\ s[1] = "{" /\ s[Len(s)] = "}" /\ (AllIn(SubSeq(s, 2, Len(s) - 1), Blank) \/ IsPairs(SubSeq(s, 2, Len(s) - 1)))
IsValue(s) == IsBare(Trimmed(s))
\* With blanks after it as well, but no carriage return after a number.
IsPadded(s) == \E k \in 0..Len(s) : /\ AllIn(SubSeq(s, k + 1, Len(s)), Blank) /\ IsValue(SubSeq(s, 1, k))
                                    /\ (Chr(s, k + 1) = "cr" => ~IsNumeral(Trimmed(SubSeq(s, 1, k))))
IsItems(s) == \/ AllIn(s, Blank) \/ IsPadded(s)
              \/ \E k \in DOMAIN s : s[k] = "," /\ IsPadded(SubSeq(s, 1, k - 1)) /\ IsItems(SubSeq(s, k + 1, Len(s)))
IsKey(s) == \E k \in 0..Len(s) : AllIn(SubSeq(s, k + 1, Len(s)), Blank) /\ IsString(Trimmed(SubSeq(s, 1, k)))
IsPair(s) == \E k \in DOMAIN s : s[k] = ":" /\ IsKey(SubSeq(s, 1, k - 1)) /\ IsPadded(SubSeq(s, k + 1, Len(s)))
IsPairs(s) == IsPair(s) \/ \E k \in DOMAIN s : s[k] = "," /\ IsPair(SubSeq(s, 1, k - 1)) /\ IsPairs(SubSeq(s, k + 1, Len(s)))

\* A text is accepted if it begins with a sentence, and a number that is not followed
\* by what may follow one; what is left begins after that sentence.  An error is
\* within the text, or one past its end.
Accepts(text, k) ==
  /\ IsValue(SubSeq(text, 1, k))
  /\ IsNumeral(Trimmed(SubSeq(text, 1, k))) => Chr(text, k + 1) \in AfterNumber
JsonAcceptsSentences ==
  ask # Idle /\ ask[1] = "text" =>
    IF IsError(answer)
      THEN answer.at \in 0..Len(ask[2]) + 1 /\ \A k \in 0..Len(ask[2]) : ~Accepts(ask[2], k)
      ELSE answer.rest <= Len(ask[2]) + 1 /\ Accepts(ask[2], answer.rest - 1)

JsonExact == JsonReadsValues /\ JsonAcceptsSentences
=============================================================================
