--------------------------------- MODULE Reader ---------------------------------
(***************************************************************************)
(* Source text: the tokenizer (getToken), the reader that makes expressions *)
(* of it (compileExpression), and the printer whose text it reads again     *)
(* (printCell).  A file is read through a buffer, which is filled again     *)
(* before a token when less than Slack is left of it.                       *)
(*                                                                          *)
(* A text is a sequence of characters.  Keyword stands for lambda and fn,   *)
(* and their macros; OpenTag and CloseTag for [text] and [/text].           *)
(* Exponents, and macros, which are expanded while they are read, are left  *)
(* out; of the escapes in strings, one stands for those of one letter.      *)
(***************************************************************************)
EXTENDS Integers, Sequences, FiniteSets, SequencesExt

CONSTANTS Keyword, OpenTag, CloseTag,
          MaxString,      \* the longest string between quotes
          Size, Slack,    \* of the buffer of a file
          Names, Strings, Numbers, Texts, Gaps    \* what is printed and read

VARIABLES ask, answer

Num(n) == [type |-> "int", value |-> n]
Float(tenths) == [type |-> "float", value |-> tenths]
Str(s) == [type |-> "string", text |-> s]
Sym(s) == [type |-> "symbol", text |-> s]
List(s) == [type |-> "list", items |-> s]
Lambda(s) == [type |-> "lambda", items |-> s]
Quote(c) == [type |-> "quote", items |-> <<c>>]
QuoteNil == [type |-> "quote", items |-> <<>>]
Nothing == [type |-> "nothing"]

DigitChars == <<"0", "1", "2", "3", "4", "5", "6", "7", "8", "9">>
Digit == ToSet(DigitChars)
DigitValue(c) == CHOOSE d \in 0..9 : DigitChars[d + 1] = c
Blank == {" ", "\n", "\t"}
NUL == "nul"
\* A character the printer writes by its number.
Bell == "bell"
BellCode == <<"0", "0", "7">>
NulCode == <<"0", "0", "0">>
----------------------------------------
(* The stream: a text, where the buffer begins and how long it is, and the *)
(* place in it.  After the buffer there is a NUL. *)

StringStream(text) == [text |-> text, base |-> 0, size |-> Len(text) + Slack, pos |-> 1]
FileStream(text) == [text |-> text, base |-> 0, size |-> Size, pos |-> 1]
At(s, i) == IF i <= Len(s.text) /\ i <= s.base + s.size THEN s.text[i] ELSE NUL
\* The characters from a place on that are in a set.
RECURSIVE SpanFrom(_, _, _)
SpanFrom(s, i, set) == IF At(s, i) \in set THEN SpanFrom(s, i + 1, set) ELSE i
RECURSIVE UntilFrom(_, _, _)
UntilFrom(s, i, set) == IF At(s, i) = NUL \/ At(s, i) \in set THEN i ELSE UntilFrom(s, i + 1, set)
Piece(s, from, to) == SubSeq(s.text, from, to - 1)
Moved(s, i) == [s EXCEPT !.pos = i]

\* Mutant: the buffer is filled when it is empty.
RefillLate(s) == IF s.pos - 1 - s.base >= s.size THEN [s EXCEPT !.base = s.pos - 1] ELSE s
\* The buffer is filled from the place on.
Refill(s) == IF s.pos - 1 - s.base > s.size - Slack THEN [s EXCEPT !.base = s.pos - 1] ELSE s

\* Past blanks and comments.  One that reaches the end of the buffer ends the text.
RECURSIVE StripFrom(_)
PastBlanks(s) == Moved(s, SpanFrom(s, s.pos, Blank))
PastComment(s) == Moved(s, UntilFrom(s, s.pos, {"\n"}))
AfterComment(s) == IF At(s, s.pos) = NUL THEN s ELSE StripFrom(PastBlanks(Refill(Moved(s, s.pos + 1))))
StripFrom(s) == IF At(s, s.pos) \in {";", "#"} THEN AfterComment(PastComment(s)) ELSE s
Strip(s) == StripFrom(PastBlanks(Refill(s)))
----------------------------------------
(* Tokens. *)

Token(kind, what, s) == [kind |-> kind, what |-> what, s |-> s]
ToNumber(digits, base) == FoldLeft(LAMBDA v, c : v * base + DigitValue(c), 0, digits)

\* Digits from i to j, and what they are to a base.
Digits10(s, sign, i, j) == Token("atom", Num(sign * ToNumber(Piece(s, i, j), 10)), Moved(s, j))
Octal(s, sign, i, j) == Token("atom", Num(sign * ToNumber(Piece(s, i, j), 8)), Moved(s, j))
Binary(s, i, j) == Token("atom", Num(ToNumber(Piece(s, i, j), 2)), Moved(s, j))
\* Up to k, with the point at j.
Decimal(s, sign, i, j, k) ==
  Token("atom", Float(sign * (ToNumber(Piece(s, i, j), 10) * 10 + (IF k = j + 1 THEN 0 ELSE DigitValue(At(s, j + 1))))), Moved(s, k))
\* The digits end at j.
NumberTo(s, sign, i, j) ==
  IF At(s, j) = "b" /\ Piece(s, s.pos, j) = <<"0">> THEN Binary(s, j + 1, SpanFrom(s, j + 1, {"0", "1"}))
  ELSE IF At(s, j) = "." THEN Decimal(s, sign, i, j, SpanFrom(s, j + 1, Digit))
  ELSE Digits10(s, sign, i, j)
\* A zero before a digit makes it octal, as far as the digits are.
Number(s, sign, i) ==
  IF At(s, i) = "0" /\ At(s, i + 1) \in Digit THEN Octal(s, sign, i, SpanFrom(s, i, Digit \ {"8", "9"}))
  ELSE NumberTo(s, sign, i, SpanFrom(s, i, Digit))

\* Mutant: the number of a character may have fewer digits.
EscapeShort(s, i) ==
  IF At(s, i) \in Digit /\ At(s, i + 1) \in Digit
    THEN <<IF Piece(s, i, i + 2) = <<"0", "0">> THEN NUL ELSE Bell, i + 2>>
  ELSE <<At(s, i), i + 1>>
\* What a backslash makes of what follows, and where it ends: three digits are a
\* character by its number, others stand for themselves.
Escape(s, i) ==
  IF {At(s, i), At(s, i + 1), At(s, i + 2)} \subseteq Digit
    THEN <<IF Piece(s, i, i + 3) = NulCode THEN "\\0" ELSE Bell, i + 3>>
  ELSE IF At(s, i) = "n" THEN <<"\n", i + 1>>
  ELSE <<At(s, i), i + 1>>

\* Between quotes.
RECURSIVE Quoted(_, _, _)
QuotedAfter(s, escape, found) == Quoted(s, escape[2], Append(found, escape[1]))
Quoted(s, i, found) ==
  IF At(s, i) = "\"" THEN Token("atom", Str(found), Moved(s, i + 1))
  ELSE IF At(s, i) = NUL \/ Len(found) >= MaxString THEN Token("error", "string token too long", s)
  ELSE IF At(s, i) = "\\"
    THEN IF At(s, i + 1) = NUL THEN Token("error", "string token too long", s)
         ELSE QuotedAfter(s, Escape(s, i + 1), found)
  ELSE Quoted(s, i + 1, Append(found, At(s, i)))

\* Between braces, which may be nested.  When the string is as long as it may be,
\* any closing brace ends it.
RECURSIVE BraceEnd(_, _, _, _)
BraceEnd(s, i, balance, n) ==
  IF At(s, i) = NUL \/ n = MaxString \/ (At(s, i) = "}" /\ balance = 1) THEN i
  ELSE BraceEnd(s, i + 1, balance + (IF At(s, i) = "{" THEN 1 ELSE IF At(s, i) = "}" THEN -1 ELSE 0), n + 1)
BracesTo(s, i, j) ==
  IF At(s, j) # "}" THEN Token("error", "string token too long", s)
  ELSE Token("atom", Str(Piece(s, i, j)), Moved(s, j + 1))
InBraces(s, i) == BracesTo(s, i, BraceEnd(s, i, 1, 0))

\* Between tags.  The buffer is filled from the last characters of it, which may
\* be the beginning of a tag.
Tags(s, i) == {j \in i..Len(s.text) : \A k \in DOMAIN CloseTag : At(s, j + k - 1) = CloseTag[k]}
RECURSIVE TextFrom(_, _)
TextTo(s, found, j) == Token("atom", Str(found \o Piece(s, s.pos, j)), Moved(s, j + Len(CloseTag)))
\* The buffer ends at end, without a tag.
TextOn(s, found, end) ==
  IF s.size > Len(s.text) \/ end - s.pos <= Len(CloseTag) THEN Token("error", "end of text [/text] tag", s)
  ELSE TextFrom([s EXCEPT !.base = end - Len(CloseTag) - 1, !.pos = end - Len(CloseTag)],
                found \o Piece(s, s.pos, end - Len(CloseTag)))
TextWith(s, found, tags) ==
  IF tags = {} THEN TextOn(s, found, UntilFrom(s, s.pos, {})) ELSE TextTo(s, found, CHOOSE j \in tags : \A k \in tags : j <= k)
TextFrom(s, found) == TextWith(s, found, Tags(s, s.pos))
readStreamText(s) == TextFrom(s, <<>>)

Delimiters == Blank \cup {"\"", "'", "(", ")", ":", ","}
\* Where a name ends that begins at i, or 0.
InBrackets(s, j) == IF At(s, j) = NUL THEN 0 ELSE j + 1
NameEnd(s, i) ==
  IF At(s, i) \in {",", ":"} THEN i + 1
  ELSE IF At(s, i) = "[" THEN InBrackets(s, UntilFrom(s, i + 1, {"]"}))
  ELSE UntilFrom(s, i + 1, Delimiters)
\* A name, or one and a colon, which is that of a context.
NameTo(s, c, j) ==
  IF j = 0 THEN Token("error", "illegal token or expression", s)
  ELSE IF At(s, j) = ":" /\ c \notin {",", ":", "["} THEN Token("context", Piece(s, s.pos, j), Moved(s, j + 1))
  ELSE Token("symbol", Piece(s, s.pos, j), Moved(s, j))

\* A sign belongs to the digit or point after it.
Signed(s) == At(s, s.pos) \in {"-", "+"} /\ (At(s, s.pos + 1) \in Digit \/ At(s, s.pos + 1) = ".")
TokenFrom(s, c, i) ==
  IF c = NUL THEN Token("empty", "", s)
  ELSE IF At(s, i) \in Digit \/ (At(s, i) = "." /\ At(s, i + 1) \in Digit) THEN Number(s, IF c = "-" THEN -1 ELSE 1, i)
  ELSE IF c \in {"'", "(", ")"} THEN Token(c, "", Moved(s, s.pos + 1))
  ELSE IF c = "\"" THEN Quoted(s, s.pos + 1, <<>>)
  ELSE IF c = "{" THEN InBraces(s, s.pos + 1)
  ELSE NameTo(s, c, NameEnd(s, i))
TokenAt(s) == TokenFrom(s, At(s, s.pos), IF Signed(s) THEN s.pos + 1 ELSE s.pos)
getToken(stream) == TokenAt(Strip(stream))
----------------------------------------
(* Expressions.  par counts the open parentheses of the whole read. *)

Answer(done, cell, s, par) == [done |-> done, cell |-> cell, s |-> s, par |-> par]
Failed(what) == [done |-> FALSE, cell |-> Nothing, s |-> StringStream(<<>>), par |-> 0, error |-> what]
HasFailed(r) == "error" \in DOMAIN r
Envelope(type, items) == [type |-> type, items |-> items]

RECURSIVE Compile(_, _, _, _), Link(_, _, _, _, _)
\* A cell is the next item.  In a quote the first ends it; otherwise the text goes
\* on for as long as any parenthesis is open.
Link(s, par, type, items, cell) ==
  IF type = "quote" THEN Answer(TRUE, Envelope(type, <<cell>>), s, par)
  ELSE IF par = 0 THEN Answer(FALSE, Envelope(type, Append(items, cell)), s, par)
  ELSE IF At(s, s.pos) = NUL THEN Failed("missing parenthesis")
  ELSE Compile(s, par, type, Append(items, cell))

LinkAnswer(r, type, items) == IF HasFailed(r) THEN r ELSE Link(r.s, r.par, type, items, r.cell)

\* The keyword makes a lambda of the list that has just begun, or of the last item.
LambdaHere(s, par, type, items) ==
  IF items = <<>> /\ type = "list" THEN Compile(s, par, "lambda", <<>>)
  ELSE IF items # <<>> /\ Last(items).type = "list"
    THEN Compile(s, par, type, Append(Front(items), Lambda(Last(items).items)))
  ELSE Failed("invalid lambda expression")

LinkText(text, par, type, items) ==
  IF text.kind = "error" THEN Failed(text.what) ELSE Link(text.s, par, type, items, text.what)
TextOrSymbol(t, par, type, items) ==
  IF t.what = Keyword THEN LambdaHere(t.s, par, type, items)
  ELSE IF t.what = OpenTag THEN LinkText(readStreamText(t.s), par, type, items)
  ELSE Link(t.s, par, type, items, Sym(t.what))

\* A name in a context: see SaveLoad for which symbol it is.
Qualified(t, u, par, type, items) ==
  IF u.kind # "symbol" THEN Failed("symbol expected")
  ELSE Link(u.s, par, type, items, Sym(t.what \o <<":">> \o u.what))

\* The next token of an envelope.
CompileToken(t, par, type, items) ==
  CASE t.kind = "error" -> Failed(t.what)
    [] t.kind = "empty" -> IF par # 0 THEN Failed("missing parenthesis") ELSE Answer(FALSE, Envelope(type, items), t.s, par)
    [] t.kind = "atom" -> Link(t.s, par, type, items, t.what)
    [] t.kind = "symbol" -> TextOrSymbol(t, par, type, items)
    [] t.kind = "context" -> Qualified(t, getToken(t.s), par, type, items)
    [] t.kind = "'" -> LinkAnswer(Compile(t.s, par, "quote", <<>>), type, items)
    [] t.kind = "(" -> LinkAnswer(Compile(t.s, par + 1, "list", <<>>), type, items)
    [] t.kind = ")" -> IF par = 0 THEN Failed("missing parenthesis") ELSE Answer(TRUE, Envelope(type, items), t.s, par - 1)
Compile(s, par, type, items) == CompileToken(getToken(s), par, type, items)

\* compileExpression, as it is called: for one expression.
compileExpression(s) == Compile(s, 0, "quote", <<>>)
\* evaluateStream: one after the other until there is no more.
RECURSIVE ReadAll(_)
ReadOn(r) ==
  IF HasFailed(r) THEN <<Sym(<<"ERR">>)>>
  ELSE IF ~r.done THEN <<>> ELSE <<Head(r.cell.items)>> \o ReadAll(r.s)
ReadAll(s) == ReadOn(compileExpression(s))

WholeName(t, name) == t.kind = "symbol" /\ t.what = name
\* Mutant: the name may go on after the token.
isLegalBeginning(name) ==
  /\ name # <<>> /\ name[1] \notin Blank \cup {"\"", "{", ";", "#"}
  /\ getToken(StringStream(name)).kind = "symbol"
\* A name is legal if it is one token, and a symbol.
isLegalSymbol(name) ==
  /\ name # <<>> /\ name[1] \notin Blank \cup {"\"", "{", ";", "#"}
  /\ WholeName(getToken(StringStream(name)), name)
----------------------------------------
(* Printing. *)

RECURSIVE Digits(_)
Digits(n) == IF n < 10 THEN <<DigitChars[n + 1]>> ELSE Append(Digits(n \div 10), DigitChars[(n % 10) + 1])
Minus(n) == IF n < 0 THEN <<"-">> ELSE <<>>
Abs(n) == IF n < 0 THEN -n ELSE n
\* A float that is whole prints as an integer does.
PrintFloat(t) ==
  Minus(t) \o Digits(Abs(t) \div 10) \o (IF t % 10 = 0 THEN <<>> ELSE <<".", DigitChars[(Abs(t) % 10) + 1]>>)

\* Mutant: a quote is written as it is.
PrintCharPlain(c) ==
  CASE c = "\\" -> <<"\\", "\\">> [] c = "\n" -> <<"\\", "n">> [] c = Bell -> <<"\\">> \o BellCode
    [] c = "\\0" -> <<"\\">> \o NulCode [] OTHER -> <<c>>
PrintChar(c) ==
  CASE c = "\"" -> <<"\\", "\"">>
    [] c = "\\" -> <<"\\", "\\">>
    [] c = "\n" -> <<"\\", "n">>
    [] c = Bell -> <<"\\">> \o BellCode
    [] c = "\\0" -> <<"\\">> \o NulCode
    [] OTHER -> <<c>>
\* A long string is written between tags, as it is but for NULs, which %c makes nothing of.
printString(s) ==
  IF Len(s) >= MaxString THEN OpenTag \o SelectSeq(s, LAMBDA c : c # "\\0") \o CloseTag
  ELSE <<"\"">> \o FlattenSeq([i \in DOMAIN s |-> PrintChar(s[i])]) \o <<"\"">>

RECURSIVE printCell(_)
PrintItems(items) == FlattenSeq([i \in DOMAIN items |-> (IF i = 1 THEN <<>> ELSE <<" ">>) \o printCell(items[i])])
printCell(c) ==
  CASE c.type = "int" -> Minus(c.value) \o Digits(Abs(c.value))
    [] c.type = "float" -> PrintFloat(c.value)
    [] c.type = "string" -> printString(c.text)
    [] c.type = "symbol" -> c.text
    [] c.type = "quote" -> <<"'">> \o FlattenSeq([i \in DOMAIN c.items |-> printCell(c.items[i])])
    [] c.type = "list" -> <<"(">> \o PrintItems(c.items) \o <<")">>
    [] c.type = "lambda" -> <<"(">> \o Keyword \o <<" ">> \o PrintItems(c.items) \o <<")">>
----------------------------------------
(* What is asked. *)

Idle == <<"none">>
Atoms == {Num(n) : n \in Numbers} \cup {Float(n) : n \in Numbers} \cup {Str(s) : s \in Strings} \cup {Sym(s) : s \in Names}
Few == {Num(-1), Str(<<"\"">>), Sym(<<"a">>), Sym(<<":">>), List(<<>>), Quote(Sym(<<"a">>)), Quote(Quote(Num(1)))}
Cells == Atoms \cup {Quote(a) : a \in Atoms}
           \cup {List(<<a, b>>) : a \in Atoms, b \in Few} \cup {List(<<a, b>>) : a \in Few, b \in Atoms}
           \cup {Lambda(<<List(<<a>>), b, c>>) : a \in Few, b \in Few, c \in Few}
           \cup {List(<<Lambda(<<a>>), Quote(List(<<b, c>>))>>) : a, b, c \in Few}

Ask(call, result) == ask' = call /\ answer' = result
CallPrint == \E c \in Cells : Ask(<<"print", c>>, printCell(c))
CallRead == \E text \in Texts : Ask(<<"read", text>>, compileExpression(StringStream(text)))
\* A file of two expressions with a gap before each.
CallLoad == \E g, h \in Gaps, c \in {List(<<Num(1), Str(<<"a", "b">>)>>), Str(<<"a", "[", "/", "b", "a", "[">>), Sym(<<"a">>)} :
              LET text == g \o printCell(c) \o <<"\n">> \o h \o printCell(c) \o <<"\n">> IN
              Ask(<<"load", text, <<c, c>>>>, ReadAll(FileStream(text)))
CallLegal == \E name \in Texts : Ask(<<"legal", name>>, isLegalSymbol(name))

Init == ask = Idle /\ answer = <<>>
Return == ask # Idle /\ ask' = Idle /\ answer' = <<>>
Next == (ask = Idle /\ (CallPrint \/ CallRead \/ CallLoad \/ CallLegal)) \/ Return
----------------------------------------
(* Properties. *)

Asked(name) == ask # Idle /\ ask[1] = name

\* The names the reader takes for something else.
Plain(name) == isLegalSymbol(name) /\ name \notin {Keyword, OpenTag}
RECURSIVE Readable(_)
Readable(c) ==
  CASE c.type = "int" -> TRUE
    [] c.type = "float" -> c.value % 10 # 0
    [] c.type = "symbol" -> Plain(c.text)
    [] c.type = "string" -> Len(c.text) < MaxString \/ ("\\0" \notin ToSet(c.text) /\ Tags(StringStream(c.text \o CloseTag), 1) = {Len(c.text) + 1})
    [] OTHER -> \A i \in DOMAIN c.items : Readable(c.items[i])

\* What is printed is read back as what it was, as a whole.
ReadAs(r, cell) == ~HasFailed(r) /\ r.done /\ r.cell.items = <<cell>>
ReadTo(r, cell, end) == ReadAs(r, cell) /\ r.s.pos = end
PrintReads ==
  Asked("print") /\ Readable(ask[2]) => ReadTo(compileExpression(StringStream(answer)), ask[2], Len(answer) + 1)

\* The token at which the first expression ends: that which closes as many
\* parentheses as were opened.
RECURSIVE EndFrom(_, _)
EndAfter(t, depth) == IF t.kind = "'" \/ depth > 0 THEN EndFrom(t.s, depth) ELSE t.s.pos
EndOf(t, depth) ==
  EndAfter(IF t.kind = "context" THEN getToken(t.s) ELSE t,
           depth + (IF t.kind = "(" THEN 1 ELSE IF t.kind = ")" THEN -1 ELSE 0))
EndFrom(s, depth) == EndOf(getToken(s), depth)
RECURSIVE QuotesParen(_)
QuotesParenAt(t) ==
  t.kind \notin {"empty", "error"} /\ ((t.kind = "'" /\ getToken(t.s).kind \in {")", "empty"}) \/ QuotesParen(t.s))
QuotesParen(s) == QuotesParenAt(getToken(s))

\* An expression ends where its parentheses are closed, and none stays open for the
\* next; only a quote before a closing parenthesis takes it for its own.
ReadsWhole ==
  Asked("read") /\ ~HasFailed(answer) /\ answer.done /\ ~QuotesParen(StringStream(ask[2])) =>
    answer.par = 0 /\ answer.s.pos = EndFrom(StringStream(ask[2]), 0)

\* A legal name is one that reads as itself.
LegalExact ==
  Asked("legal") /\ ask[2] \notin {Keyword, OpenTag} /\ (":" \in ToSet(ask[2]) => Len(ask[2]) = 1) =>
    answer = ReadAs(compileExpression(StringStream(ask[2])), Sym(ask[2]))

\* A file reads as its text does, wherever the buffer ends, unless blanks,
\* comments and a token are longer than Slack together.
RECURSIVE Longest(_, _)
Longest(text, n) ==
  IF text = <<>> THEN n ELSE IF Head(text) \in {" ", "\n", ";", "c"} THEN Longest(Tail(text), n + 1) ELSE n
GapsShort(text) == \A i \in DOMAIN text : Longest(SubSeq(text, i, Len(text)), 0) + Len(OpenTag \o CloseTag) < Slack
LoadsAll == Asked("load") /\ GapsShort(ask[2]) => answer = ask[3]

ReaderExact == PrintReads /\ ReadsWhole /\ LegalExact /\ LoadsAll
=============================================================================
