--------------------------------- MODULE Pack ---------------------------------
(***************************************************************************)
(* pack writes values as bytes and unpack reads them, both as a format says, *)
(* directive by directive.                                                  *)
(*                                                                          *)
(* A byte is a number below Base, a character of a format a string.  A      *)
(* float is <<"float", n>>, where n has the digits of its 8 bytes; of the    *)
(* form of 4 bytes it is the upper half, and the float of an integer has     *)
(* the digits of that above four zeros.                                     *)
(***************************************************************************)
EXTENDS Integers, Sequences, SequencesExt

CONSTANTS Base,             \* how many bytes there are
          Formats,          \* sequences of characters
          Rows              \* values to pack

VARIABLES ask, answer

Whole(n) == <<"int", n>>
Float(n) == <<"float", n>>
Str(bytes) == <<"string", bytes>>
ListOf(items) == <<"list", items>>
Nil == <<"nil">>
----------------------------------------
(* Formats. *)

DigitChars == <<"0", "1", "2", "3", "4", "5", "6", "7", "8", "9">>
IsDigit(format) == format # <<>> /\ Contains(DigitChars, Head(format))
RECURSIVE AfterDigits(_)
AfterDigits(format) == IF IsDigit(format) THEN AfterDigits(Tail(format)) ELSE format
RECURSIVE LengthIn(_, _)
LengthIn(format, n) ==
  IF IsDigit(format) THEN LengthIn(Tail(format), 10 * n + SelectInSeq(DigitChars, LAMBDA d : d = Head(format)) - 1) ELSE n

Directive(type, len, rest) == <<[type |-> type, len |-> len, rest |-> rest]>>
OfLetter(format) ==
  CASE Head(format) = "<" -> Directive("little", 0, Tail(format))
    [] Head(format) = ">" -> Directive("big", 0, Tail(format))
    [] Head(format) = "b" -> Directive("unsigned", 1, Tail(format))
    [] Head(format) = "c" -> Directive("signed", 1, Tail(format))
    [] Head(format) = "d" -> Directive("signed", 2, Tail(format))
    [] Head(format) = "u" -> Directive("unsigned", 2, Tail(format))
    [] Head(format) = "f" -> Directive("float", 4, Tail(format))
    [] Head(format) \in {"s", "n"} ->
         Directive(IF Head(format) = "s" THEN "string" ELSE "null",
                   IF IsDigit(Tail(format)) THEN LengthIn(Tail(format), 0) ELSE 1, AfterDigits(Tail(format)))
    [] OTHER -> Directive("none", 0, Tail(format))
TwoLetters(format) ==
  LET rest == SubSeq(format, 3, Len(format)) IN
  CASE format[1] = "l" /\ format[2] = "d" -> Directive("signed", 4, rest)
    [] format[1] = "l" /\ format[2] = "u" -> Directive("unsigned", 4, rest)
    [] format[1] = "l" /\ format[2] = "f" -> Directive("float", 8, rest)
    [] format[1] = "L" /\ format[2] \in {"d", "u"} -> Directive("signed", 8, rest)
    [] OTHER -> OfLetter(format)
RECURSIVE parsePackFormat(_)
parsePackFormat(format) ==
  IF format = <<>> THEN <<>>
  ELSE IF Head(format) = " " THEN parsePackFormat(Tail(format))
  ELSE IF Len(format) > 1 /\ Head(format) \in {"l", "L"} THEN TwoLetters(format)
  ELSE OfLetter(format)
----------------------------------------
(* Bytes. *)

Bytes(n, width) == [k \in 1..width |-> (n \div Base ^ (k - 1)) % Base]
Zeros(n) == [k \in 1..n |-> 0]
RECURSIVE Number(_)
Number(bytes) == IF bytes = <<>> THEN 0 ELSE Head(bytes) + Base * Number(Tail(bytes))
SignedNumber(bytes) ==
  IF 2 * Last(bytes) >= Base THEN Number(bytes) - Base ^ Len(bytes) ELSE Number(bytes)

\* Mutant: the bytes are swapped in pairs.
SwapPairs(bytes) ==
  IF Len(bytes) < 2 THEN bytes ELSE [k \in DOMAIN bytes |-> bytes[IF k % 2 = 0 THEN k - 1 ELSE k + 1]]
swapEndian(bytes) == Reverse(bytes)
Ordered(big, bytes) == IF big THEN swapEndian(bytes) ELSE bytes

\* What is written of a value; the integer of a float is taken from where a 64-bit cell
\* has none, and a string or a list that is not one is an address.
Address == 0
IntegerOf(v) == IF v[1] = "int" THEN v[2] ELSE IF v[1] = "float" THEN 0 ELSE Address
FloatBytes(v, width) ==
  SubSeq(Bytes(IF v[1] = "float" THEN v[2] ELSE IntegerOf(v) * Base ^ 4, 8), 9 - width, 8)
StringBytes(v, len) ==
  IF v[1] # "string" THEN Zeros(len)
  ELSE IF len <= Len(v[2]) THEN SubSeq(v[2], 1, len)
  ELSE v[2] \o Zeros(len - Len(v[2]))
Written(d, big, v) ==
  CASE d.type \in {"signed", "unsigned"} -> Ordered(big, Bytes(IntegerOf(v), d.len))
    [] d.type = "float" -> Ordered(big, FloatBytes(v, d.len))
    [] d.type = "string" -> StringBytes(v, d.len)
    [] d.type = "none" -> <<>>

Read(d, big, bytes) ==
  CASE d.type = "signed" -> Whole(SignedNumber(Ordered(big, bytes)))
    [] d.type = "unsigned" -> Whole(Number(Ordered(big, bytes)))
    [] d.type = "float" -> Float(Number(Zeros(8 - d.len) \o Ordered(big, bytes)))
    [] d.type = "string" -> Str(bytes)
    [] d.type = "none" -> Nil
----------------------------------------
(* Packing.  A list among the values takes the place of what comes after it. *)

Opened(values) ==
  IF Head(values)[1] # "list" THEN values ELSE IF Head(values)[2] = <<>> THEN <<Nil>> ELSE Head(values)[2]
RECURSIVE PackFrom(_, _, _, _)
PackValue(directive, big, values, packed) ==
  PackFrom(parsePackFormat(directive.rest), big, Tail(values), packed \o Written(directive, big, Head(values)))
PackDirective(directive, big, values, packed) ==
  IF directive.type = "null" THEN PackFrom(parsePackFormat(directive.rest), big, values, packed \o Zeros(directive.len))
  ELSE IF directive.type \in {"little", "big"} THEN PackFrom(parsePackFormat(directive.rest), directive.type = "big", values, packed)
  ELSE IF values = <<>> THEN packed
  ELSE PackValue(directive, big, Opened(values), packed)
PackFrom(directive, big, values, packed) ==
  IF directive = <<>> THEN packed ELSE PackDirective(directive[1], big, values, packed)
p_pack(format, values) == PackFrom(parsePackFormat(format), FALSE, values, <<>>)

\* Unpacking ends at the first directive that there are no bytes for.
RECURSIVE UnpackFrom(_, _, _, _)
UnpackDirective(d, big, bytes, values) ==
  IF d.len > Len(bytes) THEN values
  ELSE IF d.type \in {"little", "big"} THEN UnpackFrom(parsePackFormat(d.rest), d.type = "big", bytes, values)
  ELSE UnpackFrom(parsePackFormat(d.rest), big, SubSeq(bytes, d.len + 1, Len(bytes)),
                  IF d.type = "null" THEN values ELSE Append(values, Read(d, big, SubSeq(bytes, 1, d.len))))
UnpackFrom(directive, big, bytes, values) ==
  IF directive = <<>> THEN values ELSE UnpackDirective(directive[1], big, bytes, values)
p_unpack(format, bytes) == UnpackFrom(parsePackFormat(format), FALSE, bytes, <<>>)
----------------------------------------
(* What is asked: to pack, and to unpack what was packed. *)

Idle == <<"none">>
CallPack ==
  \E format \in Formats, values \in Rows :
    /\ ask' = <<"pack", format, values>>
    /\ answer' = [packed |-> p_pack(format, values), unpacked |-> p_unpack(format, p_pack(format, values))]
Init == ask = Idle /\ answer = <<>>
Return == ask # Idle /\ ask' = Idle /\ answer' = <<>>
Next == (ask = Idle /\ CallPack) \/ Return
----------------------------------------
(* Properties. *)

RECURSIVE Directives(_)
Directives(directive) == IF directive = <<>> THEN <<>> ELSE directive \o Directives(parsePackFormat(directive[1].rest))
\* The directives that take a value, with the order of bytes they are under.
RECURSIVE Taking(_, _)
Taking(ds, big) ==
  IF ds = <<>> THEN <<>>
  ELSE IF Head(ds).type \in {"little", "big"} THEN Taking(Tail(ds), Head(ds).type = "big")
  ELSE (IF Head(ds).type = "null" THEN <<>> ELSE <<[type |-> Head(ds).type, len |-> Head(ds).len, big |-> big]>>) \o Taking(Tail(ds), big)
Fits(d, n) == IF d.type = "signed" THEN 2 * n \in -(Base ^ d.len)..Base ^ d.len - 1 ELSE n \in 0..Base ^ d.len - 1
\* What comes back of a value that is written as one of its type.
Same(d, v, w) ==
  CASE d.type \in {"signed", "unsigned"} ->
         v[1] = "int" => w[1] = "int" /\ (w[2] - v[2]) % Base ^ d.len = 0 /\ Fits(d, w[2])
    [] d.type = "float" -> /\ v[1] = "float" => w = v
                           /\ v[1] = "int" => w[1] = "float" /\ (w[2] - v[2] * Base ^ 4) % Base ^ 8 = 0
    [] d.type = "string" ->
         v[1] = "string" => w[1] = "string" /\ Len(w[2]) = d.len
                            /\ \A k \in 1..d.len : w[2][k] = IF k <= Len(v[2]) THEN v[2][k] ELSE 0
    [] d.type = "none" -> w = Nil
Values(row) == IF row # <<>> THEN Opened(row) ELSE row

\* Every value comes back, an integer as its last bytes, a string cut or filled to its
\* length, if it is one of the type the directive says; in the order of bytes that the
\* format says; directives without values are left out.
PackExact ==
  ask[1] = "pack" =>
    LET ds == Taking(Directives(parsePackFormat(ask[2])), FALSE)
        values == Values(ask[3])
        n == IF Len(ds) < Len(values) THEN Len(ds) ELSE Len(values) IN
    /\ Len(answer.unpacked) >= n
    /\ \A k \in 1..n : Same(ds[k], values[k], answer.unpacked[k])
    /\ \A k \in n + 1..Len(answer.unpacked) : ds[k].len = 0
    /\ (Len(ds) = 1 /\ n = 1 /\ ds[1].type = "unsigned" /\ Len(answer.packed) = ds[1].len /\ values[1][1] = "int") =>
         Number(IF ds[1].big THEN Reverse(answer.packed) ELSE answer.packed) = values[1][2] % Base ^ ds[1].len
=============================================================================
