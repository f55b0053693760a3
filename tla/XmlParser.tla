------------------------------- MODULE XmlParser -------------------------------
(***************************************************************************)
(* xml-parse: a parser that goes down into elements and keeps the names of  *)
(* open ones on a stack, the options that shape its result, and the         *)
(* function it may call back with each node and the place of its source.    *)
(* The function is kept in a global while a text is parsed; a second call   *)
(* during that time is refused.                                             *)
(*                                                                          *)
(* A text is a sequence of characters.  A call that runs away, into an      *)
(* endless recursion, ends the interpreter.                                 *)
(***************************************************************************)
EXTENDS Integers, Sequences, FiniteSets, SequencesExt

CONSTANTS Documents,      \* sequences of nodes, which are rendered and parsed
          Pieces,         \* sequences of tags and texts
          Options         \* sets of options

VARIABLES ask, answer, xmlCallback

Str(s) == <<"string", s>>
Sym(s) == <<"symbol", s>>
List(s) == <<"list", s>>
NilCell == <<"nil">>

DocType == <<"<", "!", "D">>
Comment == <<"<", "!", "-", "-">>
EndComment == <<"-", "-", ">">>
Cdata == <<"<", "!", "[", "C">>
EndCdata == <<"]", "]", ">">>
Blank == {" "}
End == "end"
----------------------------------------
(* The state of a parse: the text and the place in it, the error, the stack *)
(* of open tags, the calls made, and of these the one that fails. *)

Start(text, options, typed, callback, fails) ==
  [text |-> text, i |-> 1, error |-> "", nil |-> <<>>, stack |-> <<>>, options |-> options, typed |-> typed,
   callback |-> callback, fails |-> fails, calls |-> <<>>, stopped |-> FALSE]
Chr(p, i) == IF i \in DOMAIN p.text THEN p.text[i] ELSE End
Starts(p, key, i) == \A k \in DOMAIN key : Chr(p, i + k - 1) = key[k]
\* The first place from i on where a key is, or 0.
find(p, key, i) ==
  IF \E j \in i..Len(p.text) : Starts(p, key, j)
    THEN CHOOSE j \in i..Len(p.text) : Starts(p, key, j) /\ \A k \in i..j - 1 : ~Starts(p, key, k)
  ELSE 0
Slice(p, i, j) == SubSeq(p.text, i, j - 1)
Error(p, what) == IF p.error = "" THEN [p EXCEPT !.error = what] ELSE p
Runaway(p) == [p EXCEPT !.stopped = TRUE, !.error = "runs away"]
Out(p, node) == [p |-> p, node |-> node]
To(p, i) == [p EXCEPT !.i = i]
Has(p, option) == option \in p.options

\* The first place from i on, before end, that is not in a set, or end.
RECURSIVE Past(_, _, _, _)
Past(p, i, end, set) == IF i < end /\ Chr(p, i) \in set THEN Past(p, i + 1, end, set) ELSE i
RECURSIVE UpTo(_, _, _, _)
UpTo(p, i, end, set) == IF i < end /\ Chr(p, i) \notin set \cup {End} THEN UpTo(p, i + 1, end, set) ELSE i
----------------------------------------
(* Nodes. *)

makeTextNode(p, type, s) == IF p.typed THEN List(<<Str(type), Str(s)>>) ELSE Str(s)
\* A name as a symbol has a period for its first colon.
Name(p, s) == IF Has(p, "symbols") THEN Sym(ReplaceFirstSubSeq(<<".">>, <<":">>, s)) ELSE Str(s)
Attributes(p, list) ==
  IF Has(p, "sxml") /\ ~(list = <<>> /\ Has(p, "no empty attributes")) THEN <<Sym("@")>> \o list ELSE list
makeElementNode(p, tag, attributes, nodes) ==
  List((IF p.typed THEN <<Str("ELEMENT")>> ELSE <<>>) \o <<tag>>
       \o (IF attributes = <<>> /\ Has(p, "no empty attributes") THEN <<>> ELSE <<List(attributes)>>)
       \o (IF p.typed THEN <<List(nodes)>> ELSE nodes))

\* The function is called with the node, and where its source begins and how long it
\* is.  If it fails, the parse is left at once.
performXmlCallback(r, start) ==
  IF ~r.p.callback \/ r.p.stopped THEN r
  ELSE Out([r.p EXCEPT !.calls = Append(@, [node |-> r.node, start |-> start, length |-> r.p.i - start]),
                       !.stopped = (Len(r.p.calls) + 1 = r.p.fails)], r.node)
----------------------------------------
(* Attributes of a tag that ends at end. *)

RECURSIVE parseAttributes(_, _, _)
\* The value goes from i to j.
AttributeTo(p, end, list, name, i, j) ==
  IF Chr(p, j) # Chr(p, i - 1) THEN Out(Error(p, "incorrect attribute"), <<>>)
  ELSE parseAttributes(To(p, j + 1), end, Append(list, List(<<Name(p, name), Str(Slice(p, i, j))>>)))
AttributeValue(p, end, list, name, i) ==
  IF Chr(p, i) \notin {"\"", "'"} THEN Out(Error(p, "values must be delimited"), <<>>)
  ELSE AttributeTo(p, end, list, name, i + 1, UpTo(p, i + 1, end, {Chr(p, i)}))
AttributeIs(p, end, list, name, i) ==
  IF Chr(p, i) # "=" THEN Out(Error(p, "expected ="), <<>>)
  ELSE AttributeValue(p, end, list, name, Past(p, i + 1, end, Blank))
AttributeNamed(p, end, list, i, j) ==
  IF i = j THEN Out(To(p, i), list)
  ELSE AttributeIs(p, end, list, Slice(p, i, j), Past(p, j, end, Blank))
AttributeAt(p, end, list, i) == AttributeNamed(p, end, list, i, UpTo(p, i, end, Blank \cup {"="}))
parseAttributes(p, end, list) ==
  IF p.i < end THEN AttributeAt(p, end, list, Past(p, p.i, end, Blank)) ELSE Out(p, list)
----------------------------------------
(* Tags. *)

parseProcessingInstruction(p) ==
  IF find(p, <<"?", ">">>, p.i) = 0 THEN Error(p, "expecting closing tag sequence") ELSE To(p, find(p, <<"?", ">">>, p.i) + 2)

\* A document type ends with the first >, or the first ]> if it has a [ before;
\* one that has a ] before it is passed over.
RECURSIVE DtdTo(_, _)
DtdAt(p, key, j) ==
  IF j = 0 THEN Error(p, "expected close of DTD")
  ELSE IF Chr(p, j - 1) = "]" THEN DtdTo(To(p, j + Len(key)), key)
  ELSE To(p, j + Len(key))
DtdTo(p, key) == DtdAt(p, key, find(p, key, p.i))
DtdBy(p, close, square) ==
  IF close = 0 THEN Error(p, "error in DTD")
  ELSE DtdTo(p, IF square # 0 /\ square < close THEN <<"]", ">">> ELSE <<">">>)
parseDTD(p) == DtdBy(p, find(p, <<">">>, p.i), find(p, <<"[">>, p.i))

\* Mutant: any tag closes.
ClosingAny(p) ==
  IF find(p, <<">">>, p.i) = 0 THEN Error(p, "missing closing >")
  ELSE IF p.stack = <<>> THEN Error(p, "closing tag has no opening")
  ELSE [p EXCEPT !.stack = Tail(@), !.i = find(p, <<">">>, @) + 1]
\* A closing tag need only begin with the name of the tag that is open.
parseClosing(p) ==
  IF find(p, <<">">>, p.i) = 0 THEN Error(p, "missing closing >")
  ELSE IF p.stack = <<>> THEN Error(p, "closing tag has no opening")
  ELSE IF ~Starts(p, Head(p.stack), p.i + 2) THEN Error(p, "closing tag doesn't match")
  ELSE [p EXCEPT !.stack = Tail(@), !.i = find(p, <<">">>, @) + 1]

RECURSIVE parseDoc(_, _)
\* The children of a tag are all that comes until it is closed, or the text ends.
ElementOf(p, name, attributes, r) ==
  IF r.p.stopped THEN r
  ELSE Out(r.p, makeElementNode(r.p, Name(p, name), Attributes(p, attributes), IF r.p.error # "" THEN <<>> ELSE r.node))
\* With sxml, what comes before the attributes is put before the nil cell of a wrong one.
TagWith(r, new, name) ==
  IF r.p.error # "" THEN Out([r.p EXCEPT !.nil = Attributes(r.p, <<>>)], NilCell)
  ELSE IF Starts(r.p, <<"/", ">">>, r.p.i)
    THEN Out(To(r.p, new), makeElementNode(r.p, Name(r.p, name), Attributes(r.p, r.node), <<>>))
  ELSE ElementOf(r.p, name, r.node, parseDoc([r.p EXCEPT !.stack = <<name>> \o @, !.i = new], <<>>))
TagNamed(p, end, new, i, j) == TagWith(parseAttributes(To(p, j), end, <<>>), new, Slice(p, i, j))
TagFrom(p, end, new, i) == TagNamed(p, end, new, i, UpTo(p, i, end, Blank))
parseNormalTag(p, end, new) == TagFrom(p, end, new, Past(p, p.i + 1, end, Blank))

\* The tag ends with key, at end.
TagUpTo(p, key, end) ==
  performXmlCallback(
    IF Starts(p, Comment, p.i)
      THEN Out(To(p, end + Len(key)),
               IF Has(p, "no comments") THEN NilCell
               ELSE makeTextNode(p, "COMMENT", Slice(p, p.i + Len(Comment), end)))
    ELSE IF Starts(p, Cdata, p.i)
      THEN Out(To(p, end + Len(key)), makeTextNode(p, "CDATA", Slice(p, p.i + Len(Cdata), end)))
    ELSE parseNormalTag(p, end, end + Len(key)), p.i)
\* A slash before the key makes it the end of an empty tag, in a comment too.  If
\* there is no key, what is looked at is the second character before the tag.
TagAt(p, key, end) ==
  IF end = 0
    THEN IF key # EndCdata /\ Chr(p, p.i - 2) = "/" THEN Out(Runaway(p), NilCell)
         ELSE Out(Error(p, "expected closing tag"), NilCell)
  ELSE IF key # EndCdata /\ Chr(p, end - 1) = "/" THEN TagUpTo(p, <<"/", ">">>, end - 1)
  ELSE TagUpTo(p, key, end)
parseTag(p, key) == TagAt(p, key, find(p, key, p.i))

DocWith(nodes, r, keep) == parseDoc(r.p, IF keep /\ ~r.p.stopped THEN Append(nodes, r.node) ELSE nodes)
\* At a <.
DocTag(p, nodes) ==
  IF Starts(p, DocType, p.i) THEN parseDoc(parseDTD(p), nodes)
  ELSE IF Starts(p, <<"<", "?">>, p.i) THEN parseDoc(parseProcessingInstruction(p), nodes)
  ELSE IF Starts(p, Comment, p.i) THEN DocWith(nodes, parseTag(p, EndComment), ~Has(p, "no comments"))
  ELSE IF Starts(p, Cdata, p.i) THEN DocWith(nodes, parseTag(p, EndCdata), TRUE)
  ELSE IF Starts(p, <<"<", "/">>, p.i) THEN Out(parseClosing(p), nodes)
  ELSE DocWith(nodes, parseTag(p, <<">">>), TRUE)
\* The text before it is a node inside a tag, or after another node.
IsText(p, nodes, j) ==
  /\ j > p.i /\ (p.stack # <<>> \/ nodes # <<>>)
  /\ ~(Has(p, "no white space") /\ ToSet(Slice(p, p.i, j)) \subseteq Blank)
DocAt(p, nodes, j) ==
  IF j = 0 THEN Out(p, nodes)
  ELSE DocTag(To(p, j), IF IsText(p, nodes, j) THEN Append(nodes, makeTextNode(p, "TEXT", Slice(p, p.i, j))) ELSE nodes)
parseDoc(p, nodes) == IF p.error # "" \/ p.stopped THEN Out(p, nodes) ELSE DocAt(p, nodes, find(p, <<"<">>, p.i))
----------------------------------------
(* A call of xml-parse. *)

Idle == <<"none">>
Refused == [what |-> "not reentrant"]
Failed(calls) == [what |-> "callback failed", calls |-> calls]
Lost == [what |-> "runs away"]

Result(p, nodes) ==
  IF p.error # "" THEN [what |-> "error", error |-> p.error, at |-> p.i - 1, calls |-> p.calls, nil |-> p.nil]
  ELSE [what |-> "nodes", nodes |-> nodes, calls |-> p.calls]

\* Mutant: the callback is kept when the text has an error.
ReturnKept(r) ==
  IF r.p.error = "runs away" THEN answer' = Lost /\ UNCHANGED xmlCallback
  ELSE IF r.p.stopped THEN answer' = Failed(r.p.calls) /\ xmlCallback' = TRUE
  ELSE answer' = Result(r.p, r.node) /\ xmlCallback' = (r.p.callback /\ r.p.error # "")
\* A callback that fails leaves xmlCallback set.
Return(r) ==
  IF r.p.error = "runs away" THEN answer' = Lost /\ UNCHANGED xmlCallback
  ELSE IF r.p.stopped THEN answer' = Failed(r.p.calls) /\ xmlCallback' = TRUE
  ELSE answer' = Result(r.p, r.node) /\ xmlCallback' = FALSE

p_XMLparse(text, options, typed, callback, fails) ==
  IF xmlCallback THEN answer' = Refused /\ UNCHANGED xmlCallback
  ELSE Return(parseDoc(Start(text, options, typed, callback, fails), <<>>))
----------------------------------------
(* What is parsed: documents, written out, and texts of pieces. *)

RECURSIVE Render(_)
Rendered(nodes) == FlattenSeq([k \in DOMAIN nodes |-> Render(nodes[k])])
Attribute(attr) == <<" ">> \o attr[1] \o <<"=", "\"">> \o attr[2] \o <<"\"">>
\* A node: a text, a comment, a CDATA section, an instruction, a type or an element.
Render(n) ==
  CASE n[1] = "text" -> n[2]
    [] n[1] = "comment" -> Comment \o n[2] \o EndComment
    [] n[1] = "cdata" -> Cdata \o n[2] \o EndCdata
    [] n[1] = "instruction" -> <<"<", "?">> \o n[2] \o <<"?", ">">>
    [] n[1] = "type" -> DocType \o n[2] \o <<">">>
    [] n[1] = "empty" -> <<"<">> \o n[2] \o FlattenSeq([k \in DOMAIN n[3] |-> Attribute(n[3][k])]) \o <<"/", ">">>
    [] n[1] = "element" -> <<"<">> \o n[2] \o FlattenSeq([k \in DOMAIN n[3] |-> Attribute(n[3][k])]) \o <<">">>
                             \o Rendered(n[4]) \o <<"<", "/">> \o n[2] \o <<">">>

CallRender ==
  \E d \in Documents, o \in Options, typed, callback \in BOOLEAN :
    /\ ask' = <<"document", d, o, typed, Rendered(d)>>
    /\ p_XMLparse(Rendered(d), o, typed, callback, 0)
CallPieces ==
  \E s \in Pieces, fails \in 0..2 :
    /\ ask' = <<"pieces", s, FlattenSeq(s)>>
    /\ p_XMLparse(FlattenSeq(s), {}, TRUE, TRUE, fails)

Init == ask = Idle /\ answer = <<>> /\ xmlCallback = FALSE
Forget == ask # Idle /\ ask' = Idle /\ answer' = <<>> /\ UNCHANGED xmlCallback
Next == (ask = Idle /\ (CallRender \/ CallPieces)) \/ Forget
----------------------------------------
(* Properties. *)

Answered(name, what) == ask # Idle /\ ask[1] = name /\ answer.what = what

\* What a document should parse to.
RECURSIVE Node(_, _), Nodes(_, _)
Kept(p, n) ==
  /\ n[1] \notin {"instruction", "type"} /\ ~(n[1] = "comment" /\ Has(p, "no comments"))
  /\ ~(n[1] = "text" /\ Has(p, "no white space") /\ ToSet(n[2]) \subseteq Blank)
Nodes(p, s) == [k \in DOMAIN SelectSeq(s, LAMBDA n : Kept(p, n)) |-> Node(p, SelectSeq(s, LAMBDA n : Kept(p, n))[k])]
Pairs(p, attributes) == [k \in DOMAIN attributes |-> List(<<Name(p, attributes[k][1]), Str(attributes[k][2])>>)]
Node(p, n) ==
  CASE n[1] = "text" -> makeTextNode(p, "TEXT", n[2])
    [] n[1] = "comment" -> makeTextNode(p, "COMMENT", n[2])
    [] n[1] = "cdata" -> makeTextNode(p, "CDATA", n[2])
    [] n[1] = "empty" -> makeElementNode(p, Name(p, n[2]), Attributes(p, Pairs(p, n[3])), <<>>)
    [] n[1] = "element" -> makeElementNode(p, Name(p, n[2]), Attributes(p, Pairs(p, n[3])), Nodes(p, n[4]))

\* A document that is written out parses to what it was, with every set of options.
XmlReadsDocuments ==
  Answered("document", "nodes") => answer.nodes = Nodes(Start(<<>>, ask[3], ask[4], FALSE, 0), ask[2])
\* No document is an error.
XmlAccepts == ask # Idle /\ ask[1] = "document" => answer.what \in {"nodes", "not reentrant"}

\* Tags must be closed in the order in which they were opened, by one that begins with
\* the name; those that are not closed are, by the end.
RECURSIVE Closes(_, _)
Opens(piece) == piece[1] = "<" /\ piece[2] # "/" /\ piece[Len(piece) - 1] # "/"
ShutBy(piece, stack) == stack # <<>> /\ IsPrefix(Head(stack), SubSeq(piece, 3, Len(piece)))
Closes(s, stack) ==
  IF s = <<>> THEN TRUE
  ELSE IF Head(s)[1] = "<" /\ Last(Head(s)) # ">" THEN FALSE
  ELSE IF Head(s)[1] = "<" /\ Head(s)[2] = "/"
    THEN ShutBy(Head(s), stack) /\ Closes(Tail(s), Tail(stack))
  ELSE IF Head(s)[1] = "<" /\ Opens(Head(s)) THEN Closes(Tail(s), <<SubSeq(Head(s), 2, Len(Head(s)) - 1)>> \o stack)
  ELSE Closes(Tail(s), stack)
TagsBalance ==
  ask # Idle /\ ask[1] = "pieces" /\ answer.what \in {"nodes", "error"} =>
    (answer.what = "nodes" <=> Closes(ask[2], <<>>))

\* The function is told where the source of its node is: parsed alone, it is that
\* node, unless the text has an error.
AskedOptions == IF ask[1] = "document" THEN ask[3] ELSE {}
AskedTyped == IF ask[1] = "document" THEN ask[4] ELSE TRUE
Source(call) == SubSeq(ask[Len(ask)], call.start, call.start + call.length - 1)
IsNode(r, node) == r.p.error = "" /\ (node # NilCell => r.node = <<node>>)
CallbackExact ==
  ask # Idle /\ answer.what \in {"nodes", "callback failed"} /\ (ask[1] = "pieces" => Closes(ask[2], <<>>)) =>
    \A k \in DOMAIN answer.calls :
      IsNode(parseDoc(Start(Source(answer.calls[k]), AskedOptions, AskedTyped, FALSE, 0), <<>>), answer.calls[k].node)

\* Only a callback that failed leaves the parser refusing texts.
CallbackReleased == ask # Idle /\ answer.what \in {"nodes", "error"} => ~xmlCallback

XmlExact == XmlReadsDocuments /\ XmlAccepts /\ CallbackExact /\ TagsBalance /\ CallbackReleased
=============================================================================
