-------------------------------- MODULE Numbers --------------------------------
(***************************************************************************)
(* Integers (nl-math.c): those of the machine, which wrap, and big ones,    *)
(* which are a sign and digits to a base.  The type of the first argument   *)
(* decides how an operation is done.  The base is a power of the radix in   *)
(* which numbers are written, as 10^9 is, and the largest integer of the    *)
(* machine has three digits to the base.                                    *)
(*                                                                          *)
(* Doubles stand in the division only; they have Precision bits and are     *)
(* too short for two digits, as the code's are.                             *)
(***************************************************************************)
EXTENDS Integers, Sequences, FiniteSets, SequencesExt
LOCAL INSTANCE Bitwise

CONSTANTS Radix, Group,    \* the base is Radix^Group
          Width,           \* bits of an integer of the machine
          Precision,       \* bits of a double's mantissa
          Ints, Bigs, Divisors, Texts    \* what the functions are asked with

VARIABLES ask, answer

Base == Radix^Group
MaxInt == 2^(Width - 1) - 1
MinInt == -(2^(Width - 1))
Wrap(v) == ((v - MinInt) % (2^Width)) + MinInt
Unsigned(v) == v % (2^Width)
Abs(v) == IF v < 0 THEN -v ELSE v
\* Division and remainder as C has them, towards zero.
Quotient(v, n) == IF (v < 0) = (n < 0) THEN Abs(v) \div Abs(n) ELSE -(Abs(v) \div Abs(n))
Remainder(v, n) == v - n * Quotient(v, n)

Int64(v) == [type |-> "int", value |-> v]
Big(sign, digits) == [type |-> "big", sign |-> sign, digits |-> digits]
Error(what) == [type |-> "error", what |-> what]
\* The processor stops the program: the quotient does not fit.
Trap == Error("trap")

\* What a number is worth, for the properties.
Worth(digits) == FoldLeft(LAMBDA v, d : v * Base + d, 0, digits)
Value(n) == IF n.type = "int" THEN n.value ELSE n.sign * Worth(n.digits)
----------------------------------------
(* Comparing magnitudes: more digits are more, for leading zeros are gone. *)

cmpAbsBigint(x, y) ==
  IF Len(x) # Len(y) THEN IF Len(x) > Len(y) THEN 1 ELSE -1
  ELSE LET D == {i \in DOMAIN x : x[i] # y[i]} IN
       IF D = {} THEN 0
       ELSE LET i == CHOOSE i \in D : \A j \in D : i <= j IN IF x[i] > y[i] THEN 1 ELSE -1

IsZero(n) == n.digits = <<0>>
\* Mutant: zero has a sign.
cmpBigintSigned(x, y) == IF x.sign # y.sign THEN x.sign ELSE cmpAbsBigint(x.digits, y.digits) * x.sign
\* Zero may have either sign.
cmpBigint(x, y) ==
  IF IsZero(x) /\ IsZero(y) THEN 0
  ELSE IF x.sign # y.sign THEN x.sign ELSE cmpAbsBigint(x.digits, y.digits) * x.sign

\* The digits without leading zeros, one at least.
RECURSIVE Trimmed(_)
Trimmed(d) == IF Len(d) > 1 /\ d[1] = 0 THEN Trimmed(Tail(d)) ELSE d

Low(d) == IF d = <<>> THEN 0 ELSE Last(d)
Higher(d) == IF d = <<>> THEN <<>> ELSE Front(d)
----------------------------------------
(* Adding, subtracting and multiplying, from the last digit to the first. *)

RECURSIVE Sum(_, _, _)
Sum(x, y, carry) ==
  IF x = <<>> /\ y = <<>> THEN IF carry = 0 THEN <<>> ELSE <<carry>>
  ELSE LET digit == Low(x) + Low(y) + carry IN
       Append(Sum(Higher(x), Higher(y), digit \div Base), digit % Base)
\* Mutant: nothing is borrowed.
RECURSIVE DifferenceUnborrowed(_, _, _)
DifferenceUnborrowed(x, y, carry) ==
  IF x = <<>> THEN <<>>
  ELSE LET digit == Low(x) - Low(y) - carry IN Append(DifferenceUnborrowed(Higher(x), Higher(y), 0), digit % Base)
\* x is not smaller than y.
RECURSIVE Difference(_, _, _)
Difference(x, y, carry) ==
  IF x = <<>> THEN <<>>
  ELSE LET digit == Low(x) - Low(y) - carry IN
       Append(Difference(Higher(x), Higher(y), IF digit < 0 THEN 1 ELSE 0), digit % Base)

\* A difference of nothing is zero with the other sign.
RECURSIVE addBigint(_, _), subBigint(_, _)
addBigint(x, y) ==
  IF Len(x.digits) < Len(y.digits) THEN addBigint(y, x)
  ELSE IF x.sign # y.sign THEN subBigint(x, Big(x.sign, y.digits))
  ELSE Big(x.sign, Sum(x.digits, y.digits, 0))
subBigint(x, y) ==
  IF x.sign # y.sign THEN addBigint(x, Big(x.sign, y.digits))
  ELSE IF cmpAbsBigint(x.digits, y.digits) >= 1
    THEN Big(x.sign, Trimmed(Difference(x.digits, y.digits, 0)))
    ELSE Big(-x.sign, Trimmed(Difference(y.digits, x.digits, 0)))

\* A digit times a number.
RECURSIVE Times(_, _, _)
Times(x, digit, carry) ==
  IF x = <<>> THEN IF carry = 0 THEN <<>> ELSE <<carry>>
  ELSE LET d == Low(x) * digit + carry IN Append(Times(Higher(x), digit, d \div Base), d % Base)
RECURSIVE Product(_, _)
Product(x, y) == IF y = <<>> THEN <<>> ELSE Sum(Append(Product(x, Front(y)), 0), Times(x, Last(y), 0), 0)
mulBigint(x, y) == Big(x.sign * y.sign, Trimmed(Product(x.digits, y.digits)))
----------------------------------------
(* Dividing: a digit of the quotient is estimated from doubles. *)

RECURSIVE Bits(_)
Bits(v) == IF v = 0 THEN 0 ELSE 1 + Bits(v \div 2)
Unit(v) == 2^(Bits(v) - Precision)
Rounded(v) == IF Bits(v) <= Precision THEN v ELSE ((v + Unit(v) \div 2) \div Unit(v)) * Unit(v)
\* The first n digits as a double; the first at least.
bigintToAbsFloat(d, n) ==
  FoldLeft(LAMBDA v, digit : Rounded(Rounded(v * Base) + digit), d[1], SubSeq(d, 2, n))

\* A product that is too big takes one off the digit.
RECURSIVE Corrected(_, _, _)
Corrected(digit, r, y) ==
  LET p == Times(y, digit, 0) IN
  IF cmpAbsBigint(r, p) < 0 THEN Corrected(digit - 1, r, y) ELSE <<digit, Trimmed(Difference(r, p, 0))>>

\* Mutant: the estimate is cut, and not made one bigger.
EstimateCut(rFloat, yFloat) == rFloat \div yFloat
\* Like ceil(): the estimate may be too big, but not too small.
Estimate(rFloat, yFloat) == IF yFloat = rFloat THEN 1 ELSE rFloat \div yFloat + 1

\* The next digit of the quotient and what remains of r.
NextDigit(r, y) ==
  LET n == IF Len(y) > 2 THEN Len(r) + 2 - Len(y) ELSE Len(r)
      rFloat == bigintToAbsFloat(r, n)
      yFloat == bigintToAbsFloat(y, IF Len(y) > 2 THEN 2 ELSE Len(y)) IN
  IF yFloat > rFloat THEN <<0, Trimmed(r)>> ELSE Corrected(Estimate(rFloat, yFloat), r, y)

RECURSIVE Divide(_, _, _, _)
Divide(x, y, r, q) ==
  IF x = <<>> THEN <<q, r>>
  ELSE LET next == Append(IF r = <<0>> THEN <<>> ELSE r, Head(x)) IN
    IF q = <<>> /\ cmpAbsBigint(next, y) < 0 THEN Divide(Tail(x), y, next, q)
    ELSE LET step == NextDigit(next, y) IN Divide(Tail(x), y, step[2], Append(q, step[1]))

divModBigint(x, y, rmndr) ==
  IF IsZero(y) THEN Error("division by zero")
  ELSE IF cmpAbsBigint(x.digits, y.digits) < 0 THEN IF rmndr THEN x ELSE Big(1, <<0>>)
  ELSE LET d == Divide(x.digits, y.digits, <<>>, <<>>) IN
       IF rmndr THEN Big(x.sign, d[2]) ELSE Big(x.sign * y.sign, d[1])
----------------------------------------
(* Between the two. *)

\* The digits of an integer.  A digit that is zero after the first of three is
\* left out, and the base itself is taken for a digit.
TwoDigits(v) == IF v > Base THEN <<v \div Base, v % Base>> ELSE <<v>>
intToBigint(num) ==
  LET v == Abs(num)
      digits == IF num = MinInt THEN <<0>>     \* its opposite does not fit
                ELSE IF v > Base^2 THEN <<v \div Base^2>> \o TwoDigits(v % Base^2) ELSE TwoDigits(v) IN
  Big(IF num < 0 THEN -1 ELSE 1, digits)

RECURSIVE DigitsOf(_)
DigitsOf(v) == IF v < Base THEN <<v>> ELSE Append(DigitsOf(v \div Base), v % Base)
bigintToInt64(n) ==
  IF cmpBigint(n, Big(1, DigitsOf(MaxInt))) = 1 \/ cmpBigint(n, Big(-1, DigitsOf(-MinInt))) = -1
    THEN Error("number out of range") ELSE Int64(Wrap(Value(n)))

ToBig(n) == IF n.type = "big" THEN n ELSE intToBigint(n.value)
getInteger64(n) == IF n.type = "big" THEN bigintToInt64(n) ELSE n

\* compareInts: the left one decides.
CompareNumbers(x, y) ==
  IF x.type = "big" THEN Int64(cmpBigint(x, ToBig(y)))
  ELSE LET n == getInteger64(y) IN
       IF n.type = "error" THEN n
       ELSE Int64(IF x.value < n.value THEN -1 ELSE IF x.value > n.value THEN 1 ELSE 0)

\* Text is in the radix, with a sign in front and an L behind if they are there.
DigitOf(c) == IF c = "0" THEN 0 ELSE 1
strToBigint(str) ==
  LET bare == IF Last(str) = "L" THEN Front(str) ELSE str
      unsigned == IF Head(bare) \in {"-", "+"} THEN Tail(bare) ELSE bare
      digits == Trimmed([i \in DOMAIN unsigned |-> DigitOf(unsigned[i])])
      cut == IF Len(digits) % Group = 0 THEN Group ELSE Len(digits) % Group
      n == (Len(digits) + Group - 1) \div Group
      Part(i) == SubSeq(digits, cut + (i - 2) * Group + 1, cut + (i - 1) * Group) IN
  Big(IF Head(bare) = "-" THEN -1 ELSE 1,
      [i \in 1..n |-> FoldLeft(LAMBDA v, d : v * Radix + d, 0, IF i = 1 THEN SubSeq(digits, 1, cut) ELSE Part(i))])

RECURSIVE Written(_, _)
Written(digit, cnt) == IF cnt = 0 THEN <<>> ELSE Append(Written(digit \div Radix, cnt - 1), digit % Radix)
RECURSIVE CountOf(_)
CountOf(digit) == IF digit < Radix THEN 1 ELSE 1 + CountOf(digit \div Radix)
\* Mutant: the digits after the first are written as short as they are.
bigintToDigitsShort(n) == FlattenSeq([i \in DOMAIN n.digits |-> Written(n.digits[i], CountOf(n.digits[i]))])
\* The first digit as long as it is, the others with their zeros.
bigintToDigits(n) ==
  FlattenSeq([i \in DOMAIN n.digits |-> Written(n.digits[i], IF i = 1 THEN CountOf(n.digits[1]) ELSE Group)])
lengthBigint(n) == Group * (Len(n.digits) - 1) + CountOf(n.digits[1])
----------------------------------------
(* Operations on any number of arguments. *)

Shifts == {"<<", ">>"}
BitOps == {"&", "|", "^"}

\* One step between integers of the machine.  A shift by more than the width is
\* undefined in C; the processor takes the count modulo the width.
IntStep(op, x, y) ==
  CASE op = "+" -> Int64(Wrap(x + y))
    [] op = "-" -> Int64(Wrap(x - y))
    [] op = "*" -> Int64(Wrap(x * y))
    [] op \in {"/", "%"} /\ y = 0 -> Error("division by zero")
    [] op \in {"/", "%"} /\ x = MinInt /\ y = -1 -> Trap
    [] op = "/" /\ y # 0 -> Int64(Quotient(x, y))
    [] op = "%" /\ y # 0 -> Int64(Remainder(x, y))
    [] op = "&" -> Int64(Wrap(Unsigned(x) & Unsigned(y)))
    [] op = "|" -> Int64(Wrap(Unsigned(x) | Unsigned(y)))
    [] op = "^" -> Int64(Wrap(Unsigned(x) ^^ Unsigned(y)))
    [] op = "<<" -> Int64(Wrap(x * 2^(y % Width)))
    [] op = ">>" -> Int64(x \div 2^(y % Width))

BigStep(op, x, y) ==
  CASE op = "+" -> addBigint(x, y)
    [] op = "-" -> subBigint(x, y)
    [] op = "*" -> mulBigint(x, y)
    [] op = "/" -> divModBigint(x, y, FALSE)
    [] op = "%" -> divModBigint(x, y, TRUE)
    [] OTHER -> Error("bigint type not applicable")

\* Mutant: the type of the argument decides.
StepLast(op, x, y) ==
  IF y.type = "big" THEN BigStep(op, ToBig(x), y)
  ELSE LET n == getInteger64(x) IN IF n.type = "error" THEN n ELSE IntStep(op, n.value, y.value)
\* The type of what there is decides, not that of the argument.
Step(op, x, y) ==
  IF x.type = "big" THEN BigStep(op, x, ToBig(y))
  ELSE LET n == getInteger64(y) IN IF n.type = "error" THEN n ELSE IntStep(op, x.value, n.value)

RECURSIVE Steps(_, _, _)
Steps(op, x, rest) ==
  IF rest = <<>> \/ x.type = "error" THEN x ELSE Steps(op, Step(op, x, Head(rest)), Tail(rest))

\* What one argument alone gives.
Alone(op, x) ==
  IF x.type = "big"
    THEN CASE op = "-" -> Big(-x.sign, x.digits)
           [] op \in {"+", "*", "/", "%"} -> x
           [] OTHER -> Error("bigint type not applicable")
    ELSE CASE op = "-" -> Int64(Wrap(-x.value))
           [] op = "<<" -> Int64(Wrap(x.value * 2))
           [] op = ">>" -> Int64(x.value \div 2)
           [] OTHER -> x

arithmetikOp(op, args) ==
  IF args = <<>> THEN IF op = "*" THEN Int64(1) ELSE Int64(0)
  ELSE IF Len(args) = 1 THEN Alone(op, args[1]) ELSE Steps(op, args[1], Tail(args))

\* ++ and -- add to what the symbol holds, which keeps its type.
incDecI(x, adjust, type) ==
  IF x.type = "big"
    THEN IF type < 0 THEN subBigint(x, ToBig(adjust)) ELSE addBigint(x, ToBig(adjust))
    ELSE LET n == getInteger64(adjust) IN
         IF n.type = "error" THEN n ELSE Int64(Wrap(x.value + n.value * type))
----------------------------------------
(* Functions of integers. *)

RECURSIVE gcdInt(_, _)
gcdInt(m, n) == IF n = 0 THEN Int64(m)
                ELSE IF m = MinInt /\ n = -1 THEN Trap ELSE gcdInt(n, Remainder(m, n))
RECURSIVE gcdBig(_, _)
gcdBig(a, b) == IF IsZero(b) THEN a ELSE gcdBig(b, divModBigint(a, b, TRUE))
p_gcd(x, y) ==
  IF x.type = "big" THEN Big(1, gcdBig(x, ToBig(y)).digits)
  ELSE LET n == getInteger64(y)
           g == gcdInt(x.value, n.value) IN
       IF n.type = "error" THEN n ELSE IF g.type = "error" THEN g ELSE Int64(Wrap(Abs(g.value)))

\* The factors found and the divisors tried.  The square of a divisor wraps, and
\* then is below the number again.
RECURSIVE Out(_, _)
Out(n, d) == IF n % d = 0 THEN <<d>> \o Out(n \div d, d) ELSE <<>>
Without(n, factors) == n \div FoldLeft(LAMBDA a, b : a * b, 1, factors)
RECURSIVE Factors(_, _, _)
Factors(n, d, tried) ==
  IF d > MaxInt \/ Wrap(d * d) > n THEN <<IF n > 1 THEN <<n>> ELSE <<>>, tried>>
  ELSE LET out == Out(n, d)
           more == Factors(Without(n, out), d + 2, tried + 1) IN
       <<out \o more[1], more[2]>>
p_factor(n) ==
  IF n < 2 THEN <<<<>>, 0>>
  ELSE LET out == Out(n, 2)
           more == Factors(Without(n, out), 3, 1) IN <<out \o more[1], more[2]>>

\* The bits of a number, the highest first.
RECURSIVE p_bits(_, _)
p_bits(num, count) ==
  (IF num \div 2 = 0 \/ count = Width THEN <<>> ELSE p_bits(num \div 2, count + 1)) \o <<num % 2>>
----------------------------------------
(* What is asked. *)

Idle == <<"none">>
Arithmetic == {"+", "-", "*", "/", "%"}

Ask(call, result) == ask' = call /\ answer' = result

CallOp ==
  \/ \E x \in Bigs, y \in Divisors, op \in Arithmetic :
       Ask(<<"op", op, <<x, y>>>>, arithmetikOp(op, <<x, y>>))
  \/ \E x, y \in Ints, op \in Arithmetic \cup BitOps \cup Shifts :
       Ask(<<"op", op, <<Int64(x), Int64(y)>>>>, arithmetikOp(op, <<Int64(x), Int64(y)>>))
  \/ \E x \in Ints, y \in Divisors, op \in {"+", "*", "&", "/"} :
       \/ Ask(<<"op", op, <<y, Int64(x)>>>>, arithmetikOp(op, <<y, Int64(x)>>))
       \/ Ask(<<"op", op, <<Int64(x), y>>>>, arithmetikOp(op, <<Int64(x), y>>))
       \/ Ask(<<"op", op, <<Int64(3), y, Int64(x)>>>>, arithmetikOp(op, <<Int64(3), y, Int64(x)>>))
  \/ \E op \in Arithmetic \cup Shifts, x \in {Int64(v) : v \in Ints} \cup Divisors :
       Ask(<<"op", op, <<x>>>>, arithmetikOp(op, <<x>>))
CallIncDec ==
  \E x, y \in {Int64(v) : v \in Ints} \cup {Big(1, <<Base - 1>>), Big(-1, <<1, 0>>)}, type \in {-1, 1} :
    Ask(<<"++", type, <<x, y>>>>, incDecI(x, y, type))
CallCompare ==
  \E x, y \in {Int64(v) : v \in Ints} \cup Divisors :
    Ask(<<"compare", "", <<x, y>>>>, CompareNumbers(x, y))
CallConvert ==
  \/ \E v \in MinInt..MaxInt : Ask(<<"bigint", v>>, intToBigint(v))
  \/ \E x \in Bigs \cup Divisors : Ask(<<"int", x>>, bigintToInt64(x))
  \/ \E str \in Texts : Ask(<<"text", str>>, strToBigint(str))
CallInts ==
  \/ \E x, y \in {Int64(v) : v \in Ints} \cup Divisors : Ask(<<"gcd", "", <<x, y>>>>, p_gcd(x, y))
  \/ \E n \in 0..MaxInt : Ask(<<"factor", n>>, p_factor(n))
  \/ \E n \in MinInt..MaxInt : Ask(<<"bits", n>>, p_bits(n, 1))

Init == ask = Idle /\ answer = <<>>
Return == ask # Idle /\ ask' = Idle /\ answer' = <<>>
Next == (ask = Idle /\ (CallOp \/ CallIncDec \/ CallCompare \/ CallConvert \/ CallInts)) \/ Return
----------------------------------------
(* Properties. *)

Asked(f) == ask[1] = f

\* No leading zero, and every digit below the base.
Normal(n) == /\ \A i \in DOMAIN n.digits : n.digits[i] \in 0..Base - 1
             /\ Len(n.digits) > 1 => n.digits[1] # 0
\* The integers that intToBigint gets right: not the smallest, nor the base or
\* its square, nor one with three digits whose second and third are no more
\* than the base together.
Converts(v) ==
  /\ v # MinInt /\ Abs(v) \notin {Base, Base^2}
  /\ Abs(v) > Base^2 => Abs(v) % Base^2 > Base
Sound(n) == n.type = "big" \/ Converts(n.value)

Exact(op, v, w) ==
  CASE op = "+" -> v + w [] op = "-" -> v - w [] op = "*" -> v * w
    [] op = "/" -> Quotient(v, w) [] op = "%" -> Remainder(v, w)
InInt(n) == n.type = "int" \/ Value(n) \in MinInt..MaxInt

\* Operations on two numbers give the number they should: exactly, and in
\* normal form, when the first is a big one, and wrapped else; a second number
\* that does not fit is an error, as a zero divisor is, and nothing else but
\* the one quotient that does not fit.
OperationsExact ==
  Asked("op") /\ Len(ask[3]) = 2 /\ ask[2] \in Arithmetic =>
    LET op == ask[2]  x == ask[3][1]  y == ask[3][2] IN
    IF op \in {"/", "%"} /\ Value(y) = 0 THEN answer = Error("division by zero")
    ELSE IF x.type = "big"
      THEN Sound(y) => answer.type = "big" /\ Normal(answer) /\ Value(answer) = Exact(op, Value(x), Value(y))
    ELSE IF ~InInt(y) THEN answer = Error("number out of range")
    ELSE IF op \in {"/", "%"} /\ x.value = MinInt /\ Value(y) = -1 THEN answer = Trap
    ELSE answer = Int64(Wrap(Exact(op, x.value, Value(y))))

\* Adding and subtracting undo each other, as ++ and -- do, whatever wraps.
IncrementUndone ==
  Asked("++") /\ answer.type # "error" /\ Sound(ask[3][2]) =>
    LET back == incDecI(answer, ask[3][2], -ask[2]) IN
    back.type = ask[3][1].type /\ Value(back) = Value(ask[3][1])

\* Comparing tells which is more; zero is zero with either sign.  An integer is
\* not compared with a number on the right that does not fit.
ComparesExact ==
  Asked("compare") /\ Sound(ask[3][1]) /\ Sound(ask[3][2]) =>
    LET v == Value(ask[3][1])  w == Value(ask[3][2]) IN
    IF ask[3][1].type = "int" /\ ~InInt(ask[3][2]) THEN answer = Error("number out of range")
    ELSE answer = Int64(IF v < w THEN -1 ELSE IF v > w THEN 1 ELSE 0)

\* Numbers survive the way from one type to the other and into text, apart from
\* the integers that do not convert.
ConversionsExact ==
  /\ Asked("bigint") => (Converts(ask[2]) <=> Normal(answer) /\ Value(answer) = ask[2])
  /\ Asked("int") => answer = IF Value(ask[2]) \in MinInt..MaxInt THEN Int64(Value(ask[2])) ELSE Error("number out of range")
  /\ Asked("text") =>
       LET text == ask[2]
           ds == SelectSeq(text, LAMBDA c : c \in {"0", "1"}) IN
       /\ Normal(answer)
       /\ Worth(answer.digits) = FoldLeft(LAMBDA v, c : v * Radix + DigitOf(c), 0, ds)
       /\ (text[1] = "-") = (answer.sign = -1)
       /\ Len(bigintToDigits(answer)) = lengthBigint(answer)
       /\ IsSuffix(bigintToDigits(answer), [i \in DOMAIN ds |-> DigitOf(ds[i])])

Divides(d, v) == v = 0 \/ (d # 0 /\ v % d = 0)
\* The greatest common divisor divides both and is a multiple of what divides both.
GcdExact ==
  Asked("gcd") /\ answer.type # "error" /\ Sound(ask[3][2]) =>
    LET v == Abs(Value(ask[3][1]))  w == Abs(Value(ask[3][2]))  g == Abs(Value(answer)) IN
    /\ Divides(g, v) /\ Divides(g, w)
    /\ \A d \in 2..(IF v = 0 THEN w ELSE v) : Divides(d, v) /\ Divides(d, w) => Divides(d, g)

\* The factors are primes, in order, and make up the number; no more divisors
\* are tried than there are up to its root, but for the numbers above the square
\* of the last odd number whose square fits.
FactorsExact ==
  Asked("factor") /\ ask[2] > 1 =>
    LET n == ask[2]
        factors == answer[1]
        Odd(k) == {d \in 3..k : d % 2 = 1}
        last == CHOOSE d \in Odd(MaxInt) : d * d <= MaxInt /\ (d + 2) * (d + 2) > MaxInt IN
    /\ FoldLeft(LAMBDA a, b : a * b, 1, factors) = n
    /\ \A i \in DOMAIN factors : \A d \in 2..factors[i] - 1 : factors[i] % d # 0
    /\ \A i \in 2..Len(factors) : factors[i - 1] <= factors[i]
    /\ n < last * last => answer[2] <= Cardinality({d \in Odd(n) : d * d <= n}) + 1

\* The bits are those of the number as the machine holds it.
BitsExact ==
  Asked("bits") =>
    LET v == FoldLeft(LAMBDA a, b : 2 * a + b, 0, answer) IN
    IF ask[2] >= 0 THEN v = ask[2] /\ (Len(answer) > 1 => answer[1] = 1)
    ELSE v = Unsigned(ask[2]) /\ Len(answer) = Width

NumbersExact == /\ OperationsExact /\ IncrementUndone /\ ComparesExact /\ ConversionsExact
                /\ GcdExact /\ FactorsExact /\ BitsExact
=============================================================================
