----------------------------- MODULE HttpExchange -----------------------------
(***************************************************************************)
(* Both ends of an HTTP exchange in newLISP: get-url, put-url, post-url and *)
(* delete-url (nl-web.c, getPutPostDeleteUrl), and the server mode that     *)
(* serves files and runs CGI programs (executeHTTPrequest).                 *)
(*                                                                          *)
(* What goes over the connection is a sequence of lines and bytes: a status *)
(* line <<"status", code>>, header lines <<"length", n>>, <<"chunked">>,    *)
(* <<"location", path>>, <<"other">>, an empty line <<"empty">>, the line   *)
(* before a chunk <<"size", n>>, and bytes.  When it ends the connection is *)
(* closed.                                                                  *)
(***************************************************************************)
EXTENDS Integers, Sequences, FiniteSets, SequencesExt

CONSTANTS Bodies, Names, Codes, MaxRedirects

VARIABLES ask, answer

Empty == <<"empty">>
\* Names in a directory that is not there.
Missing == {"lost"}
Bytes(b) == [k \in DOMAIN b |-> <<"byte", b[k]>>]
Text(items) == [k \in DOMAIN items |-> items[k][2]]
Rest(s) == IF s = <<>> THEN <<>> ELSE Tail(s)

\* What a request of the client ends in: an error, or the body and the headers;
\* and whether the socket is closed.
Result(kind, code, body, closed) == [kind |-> kind, code |-> code, body |-> body, closed |-> closed]
webError(e) == Result("error", e, <<>>, TRUE)
----------------------------------------
(* The client. *)

\* The bytes up to a line or the end: what recv() brings before the stream is
\* something else.
RECURSIVE Leading(_)
Leading(s) == IF s = <<>> \/ Head(s)[1] # "byte" THEN <<>> ELSE <<Head(s)>> \o Leading(Tail(s))
\* recvsize_tm: as many bytes as asked for, or fewer when the connection ends.
recvsize_tm(s, size) == LET b == Leading(s) IN SubSeq(b, 1, IF size < Len(b) THEN size ELSE Len(b))

\* Mutant: a chunk that is cut off counts as a whole one.
RECURSIVE ChunksCut(_, _)
ChunksCut(s, body) ==
  IF s = <<>> \/ Head(s)[1] # "size" \/ Head(s)[2] = 0 THEN <<"all", body>>
  ELSE LET b == recvsize_tm(Tail(s), Head(s)[2]) IN ChunksCut(Rest(SubSeq(Tail(s), Len(b) + 1, Len(Tail(s)))), body \o Text(b))
\* The chunks: a line with the size, the bytes, an empty line.  A line that is
\* not a size, or none, ends them as a size of zero does; when the connection
\* ends after a chunk the old size is read again, and its bytes are missing.
RECURSIVE Chunks(_, _)
Chunks(s, body) ==
  IF s = <<>> \/ Head(s)[1] # "size" \/ Head(s)[2] = 0 THEN <<"all", body>>
  ELSE LET b == recvsize_tm(Tail(s), Head(s)[2])
           after == SubSeq(s, Len(b) + 2, Len(s)) IN
       IF Len(b) # Head(s)[2] \/ after = <<>> THEN <<"cut", body>>
       ELSE Chunks(Tail(after), body \o Text(b))

\* What is told of a code of 400 and more stands before the body, unless a list is
\* asked for, which tells it elsewhere.  Without a chunk no memory was taken for the
\* body (resultPtr), and the message is the body, in a list too.
Told(code, body, list, chunked) ==
  IF code >= 400 /\ (list => chunked /\ body = <<>>) THEN <<"ERR", code>> \o body ELSE body
Body(code, body, list, chunked) == Result("text", code, Told(code, body, list, chunked), TRUE)

\* Retrieve the body: in chunks, by its length, or up to the end.  A body that
\* is cut off is taken for the whole, if it has a byte.
Retrieve(s, code, h, list) ==
  IF code = 204 THEN webError("no content")
  ELSE IF h.chunked
    THEN IF s = <<>> THEN webError("no content")
         ELSE LET c == Chunks(s, <<>>) IN
              IF c[1] = "cut" THEN webError("chunked") ELSE Body(code, c[2], list, TRUE)
  ELSE IF h.length > 0
    THEN LET b == recvsize_tm(s, h.length) IN
         IF b = <<>> THEN webError("no content") ELSE Body(code, Text(b), list, FALSE)
  ELSE Body(code, Text(Leading(s)), list, FALSE)

Redirects == {301, 302, 303}

\* Mutant: a redirection is followed with the raw option too.
FollowsAll(item, code, raw) == item[1] = "location" /\ code \in Redirects
Follows(item, code, raw) == item[1] = "location" /\ ~raw /\ code \in Redirects

\* The header lines up to the empty one.  Where a redirection is found the
\* length and the coding that were read before it stay.
RECURSIVE Headers(_, _, _, _)
Headers(s, code, raw, h) ==
  IF s = <<>> THEN [h EXCEPT !.end = "cut"]
  ELSE LET item == Head(s) IN
    IF item = Empty THEN [h EXCEPT !.end = "body", !.rest = Tail(s)]
    ELSE IF Follows(item, code, raw) THEN [h EXCEPT !.end = "moved", !.rest = <<item[2]>>]
    ELSE Headers(Tail(s), code, raw,
                 [h EXCEPT !.length = IF item[1] = "length" THEN item[2] ELSE @,
                           !.chunked = @ \/ item[1] = "chunked"])

\* The status line; after 100, or a line without a number, one line is drained
\* and the next is read, three times at most.
RECURSIVE Status(_, _)
Status(s, loop) ==
  IF loop = 4 THEN <<"invalid">>
  ELSE IF s = <<>> THEN <<"none">>
  ELSE IF Head(s)[1] # "status" \/ Head(s)[2] = 100 THEN Status(Rest(Tail(s)), loop + 1)
  ELSE <<"code", Head(s)[2], Tail(s)>>

NoHeader == [length |-> 0, chunked |-> FALSE, end |-> "none", rest |-> <<>>]

\* Read a response, and that of the page it has moved to; web gives the response
\* of each path.  A request for the headers leaves without closing the socket.
RECURSIVE Response(_, _, _, _, _)
Response(s, web, option, before, moves) ==
  LET status == Status(s, 1) IN
  IF status[1] = "invalid" THEN webError("invalid response")
  ELSE IF status[1] = "none" THEN webError("no response")
  ELSE LET code == status[2]
           h == Headers(status[3], code, option = "raw", before) IN
       IF h.end = "cut" THEN webError("header")
       ELSE IF h.end = "moved"
         THEN IF moves = 0 THEN Result("moving", 0, <<>>, FALSE)
              ELSE Response(web[h.rest[1]], web, option, [h EXCEPT !.end = "none"], moves - 1)
       ELSE IF option = "header" THEN Result("header", code, <<h.length>>, FALSE)
       ELSE Retrieve(h.rest, code, h, option = "list")
getUrl(path, web, option) == Response(web[path], web, option, NoHeader, MaxRedirects)

\* A url that begins with file:// is a file of this machine.
fileUrl(files, type, name, body) ==
  CASE type = "GET" /\ name \in DOMAIN files -> Result("text", 200, files[name], TRUE)
    [] type = "PUT" /\ name \notin Missing -> Result("text", 200, <<"done">>, TRUE)
    [] type = "DELETE" /\ name \in DOMAIN files -> Result("text", 200, <<"done">>, TRUE)
    [] type \in {"POST", "APPEND"} -> webError("bad url")
    [] OTHER -> webError("file")
----------------------------------------
(* The server. *)

\* sendHTTPpage: a page without a media type brings its own headers.
Page(code, body) == <<<<"status", code>>, <<"other">>, <<"length", Len(body)>>, <<"other">>, Empty>> \o Bytes(body)
\* sendHTTPmessage: the number and the text are the page.
Message(code) == Page(code, <<"E", code>>)

isCgi(name) == name = "cgi"

\* readPayLoad: as many bytes as the header has told, which must all come.
readPayLoad(length, payload) == IF Len(payload) < length THEN "missing" ELSE "read"

\* A CGI program gets what was asked or posted, and its output, with the headers
\* it prints, is the page; the status is the program's own if it prints one.  A
\* file that is no program prints nothing, and the headers do not end.
handleHTTPcgi(files, name, query) ==
  IF name \notin DOMAIN files THEN Message(404)
  ELSE <<<<"status", IF files[name] = <<"fails">> THEN 500 ELSE 200>>, <<"other">>>>
         \o (IF isCgi(name) THEN <<Empty>> \o Bytes(query) ELSE <<>>)

Served(files, page) == [files |-> files, page |-> page]

Unlink(files, name) == [n \in DOMAIN files \ {name} |-> files[n]]
With(files, name, body) == [n \in DOMAIN files \cup {name} |-> IF n = name THEN body ELSE files[n]]
Held(files, name) == IF name \in DOMAIN files THEN files[name] ELSE <<>>

\* Mutant: a file is written before the length is known.
PutCleared(files, name, length, payload, append, safe) ==
  IF safe THEN Served(files, Page(200, <<"safe">>))
  ELSE IF length = 0 THEN Served(With(files, name, <<>>), Message(411))
  ELSE Served(With(files, name, payload), Page(200, <<"done">>))
\* PUT: the bytes that came are written as they come, so that a payload that is
\* cut off leaves a part of the file.
Put(files, name, length, payload, append, safe) ==
  IF safe THEN Served(files, Page(200, <<"safe">>))
  ELSE IF length = 0 THEN Served(files, Message(411))
  ELSE LET old == IF append THEN Held(files, name) ELSE <<>>
           new == With(files, name, old \o SubSeq(payload, 1, IF length < Len(payload) THEN length ELSE Len(payload))) IN
       Served(new, IF readPayLoad(length, payload) = "missing" THEN Message(500) ELSE Page(200, <<"done">>))

Delete(files, name, safe) ==
  IF safe THEN Served(files, Page(200, <<"safe">>))
  ELSE IF name \notin DOMAIN files THEN Served(files, Message(500))
  ELSE Served(Unlink(files, name), Page(200, <<"done">>))

Get(files, name, query) ==
  IF isCgi(name) THEN handleHTTPcgi(files, name, query)
  ELSE IF name \notin DOMAIN files THEN Message(404) ELSE Page(200, files[name])
\* HEAD tells the length and sends no body; that of a missing file is nil,
\* which prints as 0.
Headed(files, name, query) ==
  IF isCgi(name) THEN handleHTTPcgi(files, name, query)
  ELSE <<<<"status", 200>>, <<"other">>, <<"length", Len(Held(files, name))>>, <<"other">>, Empty>>
Post(files, name, length, payload) ==
  IF length = 0 THEN Message(411)
  ELSE IF readPayLoad(length, payload) = "missing" THEN Message(500)
  ELSE handleHTTPcgi(files, name, SubSeq(payload, 1, length))

\* executeHTTPrequest: a directory that is missing is told first; no name is index.cgi, or index.html when that is missing.
Named(files, name) == IF name # "" THEN name ELSE IF "cgi" \in DOMAIN files THEN "cgi" ELSE "html"
executeHTTPrequest(files, type, path, length, payload, append, safe) ==
  LET name == Named(files, path) IN
  CASE path \in Missing -> Served(files, Message(404))
    [] type = "GET"    -> Served(files, Get(files, name, payload))
    [] type = "HEAD"   -> Served(files, Headed(files, name, payload))
    [] type = "DELETE" -> Delete(files, name, safe)
    [] type = "POST"   -> Served(files, Post(files, name, length, payload))
    [] type = "PUT"    -> Put(files, name, length, payload, append, safe)
----------------------------------------
(* What is asked.  A foreign server answers in one of three framings, after *)
(* a number of 100s, perhaps from a page that has moved; the server above *)
(* is asked by the client above.  A connection may break after any item. *)

\* The body in chunks of two bytes.
RECURSIVE InChunks(_)
InChunks(b) == IF b = <<>> THEN <<<<"size", 0>>>>
               ELSE LET n == IF Len(b) = 1 THEN 1 ELSE 2 IN
                    <<<<"size", n>>>> \o SubSeq(b, 1, n) \o <<Empty>> \o InChunks(SubSeq(b, n + 1, Len(b)))
Headed2(code, framing, n) ==
  <<<<"status", code>>, <<"other">>>>
    \o (CASE framing = "length" -> <<<<"length", n>>>> [] framing = "chunks" -> <<<<"chunked">>>> [] OTHER -> <<>>)
    \o <<Empty>>
Foreign(code, body, framing) ==
  Headed2(code, framing, Len(body)) \o (IF framing = "chunks" THEN InChunks(Bytes(body)) ELSE Bytes(body))
RECURSIVE Continues(_)
Continues(n) == IF n = 0 THEN <<>> ELSE <<<<"status", 100>>, Empty>> \o Continues(n - 1)
Moved(to) == <<<<"status", 302>>, <<"other">>, <<"location", to>>, <<"length", 1>>, Empty, <<"byte", "x">>>>
Web(page) == [old |-> Moved("older"), older |-> Moved("here"), here |-> page]

Framings == {"length", "chunks", "close"}
Options == {"body", "raw", "list", "header"}

Idle == <<"none">>
CallGet ==
  \E code \in Codes, body \in Bodies, framing \in Framings, n \in 0..3, path \in {"here", "old"}, option \in Options :
    /\ ask' = <<"get", code, body, framing, n, path, option>>
    /\ answer' = getUrl(path, Web(Continues(n) \o Foreign(code, body, framing)), option)
CallCut ==
  \E code \in Codes, body \in Bodies, framing \in Framings :
    LET page == Foreign(code, body, framing) IN
    \E k \in 0..Len(page) - 1 :
      /\ ask' = <<"cut", code, body, framing, k>>
      /\ answer' = getUrl("here", Web(SubSeq(page, 1, k)), "list")

Types == {"GET", "HEAD", "POST", "PUT", "DELETE"}
FileSets == UNION {[S -> Bodies \cup {<<"fails">>}] : S \in {{}, {"a"}, {"cgi"}, {"a", "cgi"}}}
CallServer ==
  \E files \in FileSets, type \in Types, path \in Names, payload \in Bodies, append, safe \in BOOLEAN, more \in 0..1 :
    /\ (append \/ safe \/ more = 1) => type \in {"PUT", "DELETE", "POST"}
    /\ ask' = <<"serve", files, type, path, payload, append, safe, more>>
    /\ LET served == executeHTTPrequest(files, type, path, Len(payload) + more, payload, append, safe) IN
         answer' = <<served.files, getUrl("here", Web(served.page), IF type = "HEAD" THEN "header" ELSE "list")>>
CallFile == \E files \in FileSets, type \in {"GET", "PUT", "DELETE", "POST", "APPEND"}, name \in Names :
              ask' = <<"file", files, type, name>> /\ answer' = fileUrl(files, type, name, <<>>)

Return == ask # Idle /\ ask' = Idle /\ answer' = <<>>
Init == ask = Idle /\ answer = <<>>
Next == (ask = Idle /\ (CallGet \/ CallCut \/ CallServer \/ CallFile)) \/ Return
----------------------------------------
(* Properties. *)

Asked(function) == ask[1] = function

\* A response that arrives is returned: its body, whole, however it is framed,
\* from where the page has moved to, with the status before it when that is an
\* error; its headers when only those are asked for.  In a list the status is apart
\* from the body, but that of an error which comes in no chunk is the body.
WholeBodies ==
  Asked("get") =>
    LET code == ask[2]  body == ask[3]  n == ask[5]  path == ask[6]  option == ask[7]
        apart == option = "list" /\ ~(ask[4] = "chunks" /\ body = <<>>) IN
    CASE path = "old" /\ option = "raw" -> answer.kind = "text" /\ answer.body = <<"x">>
      [] n = 3 -> answer.code = "invalid response"
      [] option = "header" -> answer.kind = "header" /\ answer.code = code
      [] code = 204 -> answer.code = "no content"
      [] OTHER -> answer.kind = "text" /\ answer.body = IF code < 400 \/ apart THEN body ELSE <<"ERR", code>> \o body

\* One that breaks off is an error or a part of the body, never something else,
\* and an error if it came in chunks and a byte of it is missing, but when it
\* breaks off at the empty line after a chunk.
PartsOfBodies ==
  Asked("cut") =>
    \/ answer.kind = "error"
    \/ IsPrefix(answer.body, ask[3]) /\ (ask[4] = "chunks" => answer.body = ask[3] \/ Foreign(ask[2], ask[3], ask[4])[ask[5]] = Empty)

\* The socket is closed in the end, unless only the headers were asked for.
SocketClosed == Asked("get") \/ Asked("cut") => answer.closed \/ answer.kind = "header"

\* What the client is told is what the server has done with its files.
Told200 == answer[2].kind = "text" /\ answer[2].code = 200
ServedExact ==
  Asked("serve") =>
    LET files == ask[2]  type == ask[3]  payload == ask[5]  safe == ask[7]
        name == Named(files, ask[4]) IN
    /\ type \in {"GET", "HEAD", "POST"} \/ safe \/ ask[4] \in Missing => answer[1] = files
    /\ \A other \in (DOMAIN files \cup DOMAIN answer[1]) \ {name} :
         other \in DOMAIN files /\ other \in DOMAIN answer[1] /\ answer[1][other] = files[other]
    /\ type = "GET" /\ ~isCgi(name) /\ Told200 => name \in DOMAIN files /\ answer[2].body = files[name]
    /\ type = "GET" /\ name \in DOMAIN files /\ ~isCgi(name) => Told200
    /\ type = "HEAD" /\ ~isCgi(name) /\ ask[4] \notin Missing =>
         answer[2].body = <<Len(Held(files, name))>>
    /\ type = "PUT" /\ Told200 /\ ~safe =>
         answer[1][name] = (IF ask[6] THEN Held(files, name) ELSE <<>>) \o payload
    /\ type = "PUT" /\ ~Told200 =>
         answer[1] = files \/ ask[8] = 1
    /\ type = "DELETE" /\ ~safe => (Told200 <=> name \in DOMAIN files /\ name \notin DOMAIN answer[1])
    /\ type = "POST" /\ Told200 => isCgi(name) /\ name \in DOMAIN files /\ answer[2].body = payload

HttpExact == WholeBodies /\ PartsOfBodies /\ SocketClosed /\ ServedExact
=============================================================================
