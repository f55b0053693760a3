--------------------------------- MODULE Utf8 ---------------------------------
(***************************************************************************)
(* Characters written as one to six bytes, and strings of such bytes that   *)
(* are read, measured, indexed and split as characters, in a build with     *)
(* UTF-8.                                                                   *)
(*                                                                          *)
(* A string is a sequence of bytes; a zero follows it in memory, and what   *)
(* is behind that is Unknown.                                               *)
(***************************************************************************)
EXTENDS Integers, Sequences, SequencesExt

CONSTANTS Codes,            \* sequences of characters
          Texts,            \* sequences of bytes, valid or not
          Counts            \* how many characters, and which one

VARIABLES ask, answer

Table1 == <<127, 2047, 65535, 2097151, 67108863, 2147483647>>
Table2 == <<0, 192, 224, 240, 248, 252>>
Table3 == <<256, 32, 16, 8, 4, 2>>
Table4(byte) == LET n == byte % 64 IN
  IF n < 32 THEN 1 ELSE IF n < 48 THEN 2 ELSE IF n < 56 THEN 3 ELSE IF n < 60 THEN 4 ELSE 5
Unknown == -1
----------------------------------------
(* One character. *)

\* The last six bits go to the last byte; a negative number is its last byte.
RECURSIVE Spread(_, _)
Spread(value, n) == IF n = 0 THEN <<value>> ELSE Append(Spread(value \div 64, n - 1), 128 + (value % 64))
Marked(bytes) == [bytes EXCEPT ![1] = (Table2[Len(bytes)] + bytes[1]) % 256]
\* Mutant: the last character of a size is given one byte more.
EncodeEarly(code) ==
  Marked(Spread(code, (CHOOSE i \in 1..6 : (code < Table1[i] \/ i = 6) /\ \A j \in 1..i - 1 : code >= Table1[j]) - 1))
wchar_utf8(code) ==
  Marked(Spread(code, (CHOOSE i \in 1..6 : code <= Table1[i] /\ \A j \in 1..i - 1 : code > Table1[j]) - 1))

Byte(text, k) == IF k < Len(text) THEN text[k + 1] ELSE IF k = Len(text) THEN 0 ELSE Unknown
Starts(byte) == byte >= 192
More(byte) == IF Starts(byte) THEN Table4(byte) ELSE 0
RECURSIVE Joined(_, _, _)
Joined(text, k, n) ==
  IF n = 0 THEN Byte(text, k) % Table3[1 + More(Byte(text, k))] ELSE Joined(text, k, n - 1) * 64 + (Byte(text, k + n) % 64)
\* The character at k, Unknown when it goes on behind the zero.
utf8_wchar(text, k) ==
  IF k + More(Byte(text, k)) > Len(text) THEN Unknown ELSE Joined(text, k, More(Byte(text, k)))
After(text, k) == k + More(Byte(text, k)) + 1
----------------------------------------
(* Strings. *)

\* The characters up to a zero, at most maxwc of them; one that is read behind the
\* zero is the last that is known.
RECURSIVE utf8_wstr(_, _, _)
utf8_wstr(text, k, maxwc) ==
  IF maxwc = 0 \/ Byte(text, k) \in {0, Unknown} THEN <<>>
  ELSE <<utf8_wchar(text, k)>> \o utf8_wstr(text, After(text, k), maxwc - 1)
RECURSIVE wstr_utf8(_, _, _)
wstr_utf8(bytes, codes, maxstr) ==
  IF codes = <<>> \/ Len(bytes) >= maxstr THEN bytes
  ELSE IF Head(codes) = 0 THEN bytes
  ELSE wstr_utf8(bytes \o wchar_utf8(Head(codes)), Tail(codes), maxstr)
RECURSIVE utf8_wlen(_, _)
utf8_wlen(text, k) == IF k >= Len(text) \/ Byte(text, k) = 0 THEN 0 ELSE 1 + utf8_wlen(text, After(text, k))
RECURSIVE utf8_index(_, _, _)
\* Mutant: a character of several bytes counts as so many.
IndexBytes(text, k, idx) ==
  IF idx = 0 \/ Byte(text, k) \in {0, Unknown} THEN k ELSE utf8_index(text, k + 1, idx - 1)
utf8_index(text, k, idx) ==
  IF idx = 0 \/ Byte(text, k) \in {0, Unknown} THEN k ELSE utf8_index(text, After(text, k), idx - 1)

p_unicode(text) == utf8_wstr(text, 0, Len(text))
\* The text is as long as the codes are, four bytes each with the zero after them.
p_utf8(codes) == wstr_utf8(<<>>, codes, 4 * (Len(codes) + 1))
p_utf8len(text) == utf8_wlen(text, 0)

\* Bytes of a file until its end or the first that is cut short; a byte that begins no
\* character is a signed one.
RECURSIVE p_readUTF8(_, _)
p_readUTF8(file, k) ==
  IF After(file, k) > Len(file) THEN <<>>
  ELSE <<IF Byte(file, k) \in 128..191 THEN Byte(file, k) - 256 ELSE utf8_wchar(file, k)>> \o p_readUTF8(file, After(file, k))

\* A negative place counts from the end.
Index(i, len) == IF i < 0 THEN len + i ELSE i
InRange(i, len) == Index(i, len) \in 0..len - 1
p_char(text, i) ==
  IF text = <<>> THEN "nil"
  ELSE IF p_utf8len(text) = 0 THEN "zero"
  ELSE IF ~InRange(i, p_utf8len(text)) THEN "invalid string index"
  ELSE <<utf8_wchar(text, utf8_index(text, 0, Index(i, p_utf8len(text))))>>

Piece(text, from, to) == [j \in 1..to - from |-> Byte(text, from + j - 1)]
RECURSIVE Pieces(_, _, _, _, _)
Pieces(text, from, size, len, whole) ==
  IF size <= 0 \/ (whole /\ size < len) THEN <<>>
  ELSE <<Piece(text, from, utf8_index(text, from, len))>> \o Pieces(text, utf8_index(text, from, len), size - len, len, whole)
Piecewise(text, len, whole) ==
  IF text = <<>> \/ len <= 0 THEN <<>>
  ELSE IF p_utf8len(text) = 0 THEN IF whole THEN <<>> ELSE <<<<>>>>
  ELSE Pieces(text, 0, p_utf8len(text), len, whole)
p_explode(text, len, whole) == Piecewise(text, IF ~whole /\ len > Len(text) THEN Len(text) ELSE len, whole)

Upper(code) == IF code \in 97..122 THEN code - 32 ELSE code
Lower(code) == IF code \in 65..90 THEN code + 32 ELSE code
Changed(codes, type, option) ==
  [k \in DOMAIN codes |-> IF type = "upper" \/ (type = "title" /\ k = 1) THEN Upper(codes[k])
                          ELSE IF type = "lower" \/ option THEN Lower(codes[k]) ELSE codes[k]]
strUpperLower(text, type, option) ==
  wstr_utf8(<<>>, Changed(utf8_wstr(text, 0, p_utf8len(text)), type, option), 6 * p_utf8len(text) + 1)
----------------------------------------
(* What is asked. *)

Idle == <<"none">>
CallUtf8 == \E codes \in Codes : ask' = <<"utf8", codes>> /\ answer' = p_utf8(codes)
CallUnicode == \E t \in Texts : ask' = <<"unicode", t>> /\ answer' = p_unicode(t)
CallLength == \E t \in Texts : ask' = <<"utf8len", t>> /\ answer' = p_utf8len(t)
CallRead == \E t \in Texts : ask' = <<"read-utf8", t>> /\ answer' = p_readUTF8(t, 0)
CallChar == \E t \in Texts, i \in Counts : ask' = <<"char", t, i>> /\ answer' = p_char(t, i)
CallExplode == \E t \in Texts, n \in Counts, whole \in BOOLEAN :
                 ask' = <<"utf8 explode", t, n, whole>> /\ answer' = p_explode(t, n, whole)
CallCase == \E t \in Texts, type \in {"upper", "lower", "title"}, option \in BOOLEAN :
              /\ Unknown \notin Range(p_unicode(t))
              /\ ask' = <<"case", t, type, option>> /\ answer' = strUpperLower(t, type, option)
Init == ask = Idle /\ answer = <<>>
Return == ask # Idle /\ ask' = Idle /\ answer' = <<>>
Calls == CallUtf8 \/ CallUnicode \/ CallLength \/ CallRead \/ CallChar \/ CallExplode \/ CallCase
Next == (ask = Idle /\ Calls) \/ Return
----------------------------------------
(* Properties. *)

Continues(byte) == byte \in 128..191
\* A text of whole characters, none with a zero in it.
IsWhole(text) ==
  /\ 0 \notin Range(text)
  /\ \A k \in DOMAIN text : k + More(text[k]) <= Len(text) /\ \A j \in k + 1..k + More(text[k]) : Continues(text[j])
Plain(codes) == \A k \in DOMAIN codes : codes[k] \in 1..Table1[4]
BytesOf(codes) == FlattenSeq([k \in DOMAIN codes |-> wchar_utf8(codes[k])])

\* Characters of up to four bytes come back from the text that is made of them, however
\* many there are, in no more bytes than they need; longer ones come back until the
\* text is as long as the codes are.
RoundTrips ==
  ask[1] = "utf8" =>
    LET codes == ask[2] IN
    /\ IsWhole(answer) /\ IsPrefix(p_unicode(answer), codes)
    /\ (Plain(codes) \/ Len(BytesOf(codes)) <= 4 * (Len(codes) + 1)) => p_unicode(answer) = codes
    /\ \A k \in DOMAIN codes : \A n \in 1..6 : codes[k] <= Table1[n] => Len(wchar_utf8(codes[k])) <= n

\* The length is the number of characters, of which none but the last is read behind the
\* end, and that only if the text ends within it.
ReadsAll ==
  /\ ask[1] = "unicode" => /\ Len(answer) = p_utf8len(ask[2])
                           /\ Unknown \in Range(answer) => ~IsWhole(ask[2]) /\ Last(answer) = Unknown
                                                             /\ \A k \in 1..Len(answer) - 1 : answer[k] # Unknown
  /\ ask[1] = "utf8len" => \A n \in 0..Len(ask[2]) :
                             n < answer <=> Byte(ask[2], utf8_index(ask[2], 0, n)) \notin {0, Unknown}
  /\ (ask[1] = "read-utf8" /\ IsWhole(ask[2]) /\ \A c \in Range(p_unicode(ask[2])) : c \notin 128..191) =>
       answer = p_unicode(ask[2])
  /\ (ask[1] = "char" /\ IsWhole(ask[2]) /\ InRange(ask[3], p_utf8len(ask[2]))) =>
       answer = <<p_unicode(ask[2])[1 + Index(ask[3], p_utf8len(ask[2]))]>>

\* The pieces are the text again, and each but the last has as many characters as asked
\* for, up to a piece that is too short for a call that wants none such.
SplitsWhole ==
  (ask[1] = "utf8 explode" /\ IsWhole(ask[2]) /\ ask[3] > 0) =>
    /\ IsPrefix(FlattenSeq(answer), ask[2])
    /\ ask[4] => \A k \in DOMAIN answer : p_utf8len(answer[k]) = ask[3]
    /\ ~ask[4] => /\ FlattenSeq(answer) = ask[2]
                  /\ \A k \in 1..Len(answer) - 1 : p_utf8len(answer[k]) = ask[3]
    /\ p_utf8len(ask[2]) - p_utf8len(FlattenSeq(answer)) < ask[3]

\* upper-case, lower-case and title-case change letters and nothing else.
KeepsOthers ==
  (ask[1] = "case" /\ IsWhole(ask[2])) =>
    /\ Len(p_unicode(answer)) = Len(p_unicode(ask[2]))
    /\ \A k \in DOMAIN p_unicode(answer) : Lower(p_unicode(answer)[k]) = Lower(p_unicode(ask[2])[k])

Utf8Exact == RoundTrips /\ ReadsAll /\ SplitsWhole /\ KeepsOthers
=============================================================================
