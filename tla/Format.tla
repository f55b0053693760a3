-------------------------------- MODULE Format --------------------------------
(***************************************************************************)
(* format takes the text of a format apart at its directives and prints one *)
(* value with each.  Meanwhile the text ends at the directive: its next      *)
(* character is put aside, in the string of the program itself.             *)
(*                                                                          *)
(* A format is a sequence of characters, a value has a type, "big" for an    *)
(* integer that is too big, and a number.                                   *)
(***************************************************************************)
EXTENDS Integers, Sequences, SequencesExt

CONSTANTS Pieces,           \* sequences of pieces: characters, "%%" and directives
          Texts,            \* formats of any characters
          Rows              \* values to print

VARIABLES ask, answer

Value(type, n) == [type |-> type, n |-> n]
List(values) == [type |-> "list", values |-> values]
Digits == {"0", "1", "2", "3", "4", "5", "6", "7", "8", "9"}
----------------------------------------
(* Directives. *)

At(fmt, k) == IF k <= Len(fmt) THEN fmt[k] ELSE "end"
Bad == [type |-> "bad", next |-> 0]
Directive(type, next) == [type |-> type, next |-> next]

\* The first "%" from a place on that is not doubled; 0 if there is none.
RECURSIVE Percent(_, _)
Percent(fmt, k) ==
  IF k > Len(fmt) THEN 0
  ELSE IF fmt[k] # "%" THEN Percent(fmt, k + 1)
  ELSE IF At(fmt, k + 1) = "%" THEN Percent(fmt, k + 2)
  ELSE k

RECURSIVE PastDigits(_, _)
PastDigits(fmt, k) == IF At(fmt, k) \in Digits THEN PastDigits(fmt, k + 1) ELSE k
Past(fmt, k, c) == IF At(fmt, k) = c THEN k + 1 ELSE k
\* A quote, a plus, or a minus with a plus after it.
PastFlags(fmt, k) ==
  IF At(fmt, k) = "-" THEN Past(fmt, k + 1, "+") ELSE Past(fmt, k, "+")
PastWidth(fmt, k) == PastDigits(fmt, PastFlags(fmt, Past(fmt, k, "'")))

IsFloat(c) == c \in {"f", "g", "e"}
IsInteger(c) == c \in {"d", "u", "x", "c", "o"}
Precise(fmt, k) ==
  CASE IsFloat(At(fmt, k)) -> Directive("float", k + 1)
    [] At(fmt, k) = "s" -> Directive("string", k + 1)
    [] OTHER -> Bad
Long(fmt, k) ==
  CASE At(fmt, k + 1) \in {"d", "i", "u", "x"} -> Directive("int", k + 2)
    [] At(fmt, k + 1) = "l" /\ At(fmt, k + 2) \in {"d", "u", "x"} -> Directive("int", k + 3)
    [] At(fmt, k + 1) = "s" -> Directive("string", k + 2)
    [] OTHER -> Bad
Typed(fmt, k) ==
  CASE At(fmt, k) = "." -> Precise(fmt, PastDigits(fmt, k + 1))
    [] IsFloat(At(fmt, k)) -> Directive("float", k + 1)
    [] IsInteger(At(fmt, k)) -> Directive("int", k + 1)
    [] At(fmt, k) = "s" -> Directive("string", k + 1)
    [] At(fmt, k) = "l" -> Long(fmt, k)
    [] OTHER -> Bad
TypeAt(fmt, percent) ==
  IF percent = 0 THEN Directive("none", Len(fmt) + 1) ELSE Typed(fmt, PastWidth(fmt, percent + 1))
getFormatType(fmt, k) == TypeAt(fmt, Percent(fmt, k))
----------------------------------------
(* Printing. *)

\* The library prints a part of the format: its text with "%%" as "%", and a value.
RECURSIVE Plain(_)
Plain(part) ==
  IF part = <<>> THEN <<>>
  ELSE IF Head(part) = "%" THEN IF Len(part) > 1 /\ part[2] = "%" THEN <<"%">> \o Plain(SubSeq(part, 3, Len(part))) ELSE <<>>
  ELSE <<Head(part)>> \o Plain(Tail(part))
Printed(part, v) == <<Plain(part), v>>
NoValue == Value("none", 0)

Result(result, fmt) == [result |-> result, fmt |-> fmt]
Error(what, fmt) == Result([error |-> what, printed |-> <<>>], fmt)
Accepts(type, v) ==
  CASE type = "int" -> v.type \in {"int", "float", "big"}
    [] type = "float" -> v.type \in {"int", "float", "big"}
    [] type = "string" -> v.type = "string"

\* The first value may be a list of them all.
Opened(values, first) == IF first /\ Head(values).type = "list" THEN Head(values).values ELSE values
\* The rest of the text is printed; a directive in it has no value, and if it is bad
\* the type is that of the last one, or anything if there was none.
Rest(fmt, k, type, printed) ==
  IF type # "none" THEN Error("number of arguments", fmt)
  ELSE Result([error |-> "none", printed |-> Append(printed, Printed(SubSeq(fmt, k, Len(fmt)), NoValue))], fmt)
RestOf(fmt, k, last, printed) ==
  Rest(fmt, k, IF getFormatType(fmt, k) = Bad THEN last ELSE getFormatType(fmt, k).type, printed)

\* Mutant: the character after a directive is not put back for a wrong value.
CutAtWrong(fmt, k, d, v, printed) ==
  IF ~Accepts(d.type, v) \/ (d.type = "int" /\ v.type = "big")
    THEN Error(IF v.type = "big" THEN "out of range" ELSE "type", SubSeq(fmt, 1, d.next - 1))
  ELSE Result([error |-> "more", printed |-> Append(printed, Printed(SubSeq(fmt, k, d.next - 1), v))], fmt)
\* One value; the text stays cut if its integer is out of range.
PrintValue(fmt, k, d, v, printed) ==
  IF ~Accepts(d.type, v) THEN Error("type", fmt)
  ELSE IF d.type = "int" /\ v.type = "big" THEN Error("out of range", SubSeq(fmt, 1, d.next - 1))
  ELSE Result([error |-> "more", printed |-> Append(printed, Printed(SubSeq(fmt, k, d.next - 1), v))], fmt)

RECURSIVE FormatFrom(_, _, _, _, _)
Continue(fmt, d, values, r) ==
  IF r.result.error # "more" THEN r ELSE FormatFrom(fmt, d.next, values, d.type, r.result.printed)
FormatValues(fmt, k, d, values, printed) ==
  IF d.type = "none" THEN Error("number of arguments", fmt)
  ELSE IF values = <<>> THEN Error("type", fmt)
  ELSE Continue(fmt, d, Tail(values), PrintValue(fmt, k, d, Head(values), printed))
FormatDirective(fmt, k, d, values, printed) ==
  IF d = Bad THEN Error("format", fmt) ELSE FormatValues(fmt, k, d, Opened(values, k = 1), printed)
\* A nil among the values ends them.
FormatFrom(fmt, k, values, last, printed) ==
  IF values = <<>> \/ Head(values).type = "nil" THEN RestOf(fmt, k, last, printed)
  ELSE FormatDirective(fmt, k, getFormatType(fmt, k), values, printed)
\* Before the first directive its type is whatever was there.
p_format(fmt, values, garbage) == FormatFrom(fmt, 1, values, garbage, <<>>)
----------------------------------------
(* What is asked. *)

Idle == <<"none">>
Chars(pieces) == FlattenSeq([k \in DOMAIN pieces |-> pieces[k].chars])
CallFormat ==
  \E pieces \in Pieces, values \in Rows, garbage \in {"none", "int"} :
    /\ ask' = <<"format", pieces, values>>
    /\ answer' = p_format(Chars(pieces), values, garbage)
CallText ==
  \E fmt \in Texts, values \in Rows, garbage \in {"none", "int"} :
    /\ ask' = <<"text", fmt, values>>
    /\ answer' = p_format(fmt, values, garbage)
Init == ask = Idle /\ answer = <<>>
Return == ask # Idle /\ ask' = Idle /\ answer' = <<>>
Next == (ask = Idle /\ (CallFormat \/ CallText)) \/ Return
----------------------------------------
(* Properties. *)

IsDirective(piece) == piece.type \notin {"char", "percent"}
Directives(pieces) == SelectSeq(pieces, IsDirective)
Given(values) == IF values # <<>> THEN Opened(values, TRUE) ELSE values
TooBig(ds, values) ==
  \E k \in DOMAIN ds : k <= Len(values) /\ values[k].type = "big" /\ ds[k].type = "int"
    /\ \A j \in 1..k - 1 : Accepts(ds[j].type, values[j])

\* Each directive prints its value, and the text between is as it is, if there are as
\* many values as directives and of their types.
PrintsAll ==
  ask[1] = "format" =>
    LET ds == Directives(ask[2])
        values == Given(ask[3])
        r == answer.result
        texts == [k \in DOMAIN r.printed |-> r.printed[k][1]] IN
    (\A k \in DOMAIN values : values[k].type \notin {"nil", "list"}) =>
      /\ (r.error = "none") = (/\ Len(ds) = Len(values) /\ ~TooBig(ds, values)
                               /\ \A k \in DOMAIN ds : Accepts(ds[k].type, values[k])
                               /\ ask[3] = values \/ values # <<>>)
      /\ r.error = "none" =>
           /\ Len(r.printed) = Len(ds) + 1
           /\ \A k \in DOMAIN ds : r.printed[k][2] = values[k]
           /\ FlattenSeq(texts) = FlattenSeq([k \in DOMAIN ask[2] |->
                CASE ask[2][k].type = "char" -> ask[2][k].chars [] ask[2][k].type = "percent" -> <<"%">> [] OTHER -> <<>>])

\* The format is as it was, whatever was wrong, but for an integer that was out of
\* range: from then on it ends at the directive of that.
KeepsFormat ==
  ask # Idle =>
    LET fmt == IF ask[1] = "format" THEN Chars(ask[2]) ELSE ask[2] IN
    IF answer.result.error # "out of range" THEN answer.fmt = fmt
    ELSE /\ answer.fmt = SubSeq(fmt, 1, Len(answer.fmt))
         /\ \E k \in DOMAIN Given(ask[3]) : Given(ask[3])[k].type = "big"

FormatExact == PrintsAll /\ KeepsFormat
=============================================================================
