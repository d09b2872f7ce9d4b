----------------------------- MODULE HttpParser -----------------------------
(***************************************************************************)
(* The HTTP message parser of a server connection:                         *)
(* http/detail/parser_base.h and the parts of                              *)
(* http/server/detail/request_parser.h that drive it.  A message arrives   *)
(* cut into fragments at places the network chooses; append() parses what  *)
(* it can and keeps the rest; the application takes the body in pieces,    *)
(* possibly between two fragments; reset() starts the next message on the  *)
(* same connection.                                                        *)
(*                                                                         *)
(* The byte stream is a sequence of units <<kind, value>>: a line end, the *)
(* text of a request line, of a header or of a chunk-size line, or one     *)
(* byte of data; bytes that follow a text make it a long one.  Cutting     *)
(* inside a text or inside "\r\n" is the same as cutting before its line   *)
(* end, since a line is only looked at when m_src_buf holds its "\r\n".    *)
(* Each round of the two parsing loops is an action.                       *)
(*                                                                         *)
(* parse_chunked() loses its place in the content in two cases: when a     *)
(* fragment ends inside a chunk, whose size is a local variable, and when  *)
(* the data of a chunk holds a "\r\n", which is taken for its end.  Both   *)
(* happen in the model, and the properties of the body say so.             *)
(***************************************************************************)
EXTENDS Naturals, Sequences, SequencesExt

CONSTANTS
  Messages,     \* what a client may send: records, see MessageType
  LineLimit,    \* 1024, counted in units
  MaxMessages   \* bound: messages on one connection

VARIABLES
  msg,            \* the message being sent
  todo,           \* its units that have not arrived yet
  served,         \* messages completed on this connection
  state,          \* m_state
  src,            \* m_src_buf
  version,        \* m_version
  headers,        \* m_headers, and the cookies of request_parser
  body,           \* m_partial_body
  contentLength,  \* m_content_length
  keepAlive,      \* m_keep_alive of request_parser
  loop,           \* the parsing loop append() is in
  chunkSize,      \* _size, a local variable of parse_chunked()
  error,          \* the error append() reports
  result,         \* what append() returns
  taken,          \* body the application has taken
  early,          \* it took some before the message was finished
  split           \* a fragment of this message ended inside a chunk

env  == <<msg, todo, served, taken, early, split>>
vars == <<env, state, src, version, headers, body, contentLength, keepAlive,
          loop, chunkSize, error, result>>

State == {"waiting_request", "reading_headers", "reading_length", "chunked_wait_size",
          "chunked_wait_content", "chunked_wait_headers", "finished"}

Error == {"none", "RLTL", "HLTL", "IRL", "IHM", "IHP", "IHL", "IDE", "SFE", "RE"}

\* "header": parse_header(); "chunk": parse_chunked() called by append();
\* "inner": parse_chunked() called at the end of parse_header(), which ignores
\* its result; "return": the rest of request_parser::append().
Loop == {"none", "header", "chunk", "inner", "return"}

Kinds == {"nl", "request", "badline", "badmethod", "badpath", "host", "length", "chunked",
          "close", "keepalive", "cookie", "badcookie", "nocolon", "size", "byte"}

Unit == Kinds \X Nat
NL   == <<"nl", 0>>

\* The header lines that header_insert() stores.
Header == {u \in Unit : u[1] \in {"host", "length", "chunked", "close", "keepalive",
                                    "cookie"}}

\* wire: its units;  body, headers: what it says;  keep: whether the client asks to
\* keep the connection;  wellFormed: HTTP allows it;  lineInData: the data of a chunk
\* holds a line end;  errors: what the parser may say of it, which for a well-formed
\* message is that a line or a chunk of it reaches the limit.
MessageType ==
  [wire : Seq(Unit), body : Seq(Unit), headers : SUBSET Unit, keep : BOOLEAN,
   wellFormed : BOOLEAN, lineInData : BOOLEAN, errors : SUBSET Error]

ASSUME ParserAssumption ==
  /\ \A m \in Messages :
       /\ DOMAIN m = {"wire", "body", "headers", "keep", "wellFormed", "lineInData", "errors"}
       /\ m.wire \in Seq(Unit) /\ m.body \in Seq(Unit)
       /\ m.headers \subseteq Unit /\ m.keep \in BOOLEAN
       /\ m.wellFormed \in BOOLEAN /\ m.lineInData \in BOOLEAN
       /\ m.errors \subseteq Error /\ (m.wellFormed => m.errors \subseteq {"RLTL", "HLTL"})
  /\ LineLimit \in Nat \ {0} /\ MaxMessages \in Nat

Bytes == {u \in Unit : u[1] = "byte"}

TypeOK ==
  /\ msg \in Messages /\ todo \in Seq(Unit) /\ served \in 0 .. MaxMessages
  /\ state \in State
  /\ src \in Seq(Unit)
  /\ version \in {10, 11}
  /\ headers \subseteq Header
  /\ body \in Seq(IF split THEN Unit ELSE Bytes)
  /\ contentLength \in Nat
  /\ keepAlive \in BOOLEAN
  /\ loop \in Loop
  /\ chunkSize \in Nat
  /\ error \in Error
  /\ result \in BOOLEAN
  /\ taken \in Seq(IF split THEN Unit ELSE Bytes)
  /\ early \in BOOLEAN
  /\ split \in BOOLEAN

\* m_version is not initialized.
Init ==
  /\ msg \in Messages /\ todo = msg.wire /\ served = 0
  /\ state = "waiting_request"
  /\ src = << >>
  /\ version \in {10, 11}
  /\ headers = {}
  /\ body = << >>
  /\ contentLength = 0
  /\ keepAlive = TRUE
  /\ loop = "none"
  /\ chunkSize = 0
  /\ error = "none"
  /\ result = FALSE
  /\ taken = << >>
  /\ early = FALSE
  /\ split = FALSE

-----------------------------------------------------------------------------
\* m_src_buf.find("\r\n"), substr and erase.
HasLine == Contains(src, NL)
LineEnd == SelectInSeq(src, LAMBDA u : u = NL)
Line    == SubSeq(src, 1, LineEnd - 1)
Rest    == SubSeq(src, LineEnd + 1, Len(src))

\* The line is a text of kind k.
IsA(k) == Line # << >> /\ Line[1][1] = k

\* do { ... } while( not m_src_buf.empty() ).
Again(l, s) == loop' = IF s = << >> THEN "return" ELSE l

\* Mutation: > became >= in the choice of the next state.
ParseLength_Waits(s, n) ==
  LET size == IF Len(body) + Len(s) > n THEN n - Len(body) ELSE Len(s)
  IN  /\ body' = body \o SubSeq(s, 1, size)
      /\ src' = << >>
      /\ state' = IF n >= Len(body \o SubSeq(s, 1, size)) THEN "reading_length" ELSE "finished"

\* parse_length() with s in the buffer: what goes beyond n is dropped.  What the
\* application has taken is no longer counted.
ParseLength(s, n) ==
  LET size == IF Len(body) + Len(s) > n THEN n - Len(body) ELSE Len(s)
      all  == body \o SubSeq(s, 1, size)
  IN  /\ body' = all
      /\ src' = << >>
      /\ state' = IF n > Len(all) THEN "reading_length" ELSE "finished"

-----------------------------------------------------------------------------
\* n units arrive and are appended.
Arrive(n) ==
  /\ loop = "none" /\ error = "none"
  /\ todo' = SubSeq(todo, n + 1, Len(todo))
  /\ split' = (split \/ state = "chunked_wait_content")
  /\ UNCHANGED <<msg, served, taken, early>>

Arrived(n) == src \o SubSeq(todo, 1, n)

\* Nothing to append.
AppendEmpty ==
  /\ loop = "none" /\ error = "none"
  /\ error' = "IDE" /\ result' = FALSE
  /\ UNCHANGED <<env, state, src, version, headers, body, contentLength, keepAlive,
                 loop, chunkSize>>

\* The message is finished already.
AppendMore(n) ==
  /\ state = "finished"
  /\ Arrive(n)
  /\ error' = "RE" /\ result' = FALSE
  /\ UNCHANGED <<state, src, version, headers, body, contentLength, keepAlive,
                 loop, chunkSize>>

AppendHeader(n) ==
  /\ state \in {"waiting_request", "reading_headers"}
  /\ Arrive(n)
  /\ src' = Arrived(n)
  /\ loop' = "header" /\ result' = FALSE
  /\ UNCHANGED <<state, version, headers, body, contentLength, keepAlive, chunkSize, error>>

AppendLength(n) ==
  /\ state = "reading_length"
  /\ Arrive(n)
  /\ ParseLength(Arrived(n), contentLength)
  /\ loop' = "return" /\ result' = TRUE
  /\ UNCHANGED <<version, headers, contentLength, keepAlive, chunkSize, error>>

AppendChunked(n) ==
  /\ state \in {"chunked_wait_size", "chunked_wait_content", "chunked_wait_headers"}
  /\ Arrive(n)
  /\ src' = Arrived(n)
  /\ loop' = "chunk" /\ chunkSize' = 0 /\ result' = FALSE
  /\ UNCHANGED <<state, version, headers, body, contentLength, keepAlive, error>>

-----------------------------------------------------------------------------
\* parse_header(): no complete line in the buffer.
HeaderNoLine ==
  /\ loop = "header" /\ ~HasLine
  /\ error' = IF Len(src) < LineLimit THEN error
              ELSE IF state = "waiting_request" THEN "RLTL" ELSE "HLTL"
  /\ loop' = "return"
  /\ UNCHANGED <<env, state, src, version, headers, body, contentLength, keepAlive,
                 chunkSize, result>>

\* The request line: m_parse_begin (the path, parameters and method are not kept
\* here).
RequestLine ==
  /\ loop = "header" /\ HasLine /\ state = "waiting_request"
  /\ IsA("request")
  /\ version' = Line[1][2]
  /\ state' = "reading_headers"
  /\ src' = Rest
  /\ Again("header", Rest)
  /\ UNCHANGED <<env, headers, body, contentLength, keepAlive, chunkSize, error, result>>

BadRequestLine ==
  /\ loop = "header" /\ HasLine /\ state = "waiting_request"
  /\ ~IsA("request")
  /\ error' = IF IsA("badmethod") THEN "IHM" ELSE IF IsA("badpath") THEN "IHP" ELSE "IRL"
  /\ version' \in IF IsA("badpath") THEN {10, 11} ELSE {version}
  /\ src' = << >>
  /\ loop' = "return"
  /\ UNCHANGED <<env, state, headers, body, contentLength, keepAlive, chunkSize, result>>

\* header_insert().  A malformed cookie is an error.
HeaderInsert ==
  IF IsA("badcookie")
  THEN error' = "IHL" /\ UNCHANGED headers
  ELSE headers' = headers \cup {Line[1]} /\ UNCHANGED error

\* Mutation: the line stays in the buffer.
HeaderLine_NotErased ==
  /\ loop = "header" /\ HasLine /\ state = "reading_headers"
  /\ Line # << >> /\ Line[1] \in Header \cup {<<"badcookie", 0>>}
  /\ HeaderInsert
  /\ IF IsA("badcookie") THEN loop' = "return" ELSE Again("header", src)
  /\ UNCHANGED <<env, state, src, version, body, contentLength, keepAlive, chunkSize, result>>

\* A line with a colon; an error leaves the loop.
HeaderLine ==
  /\ loop = "header" /\ HasLine /\ state = "reading_headers"
  /\ Line # << >> /\ Line[1] \in Header \cup {<<"badcookie", 0>>}
  /\ HeaderInsert
  /\ src' = Rest
  /\ IF IsA("badcookie") THEN loop' = "return" ELSE Again("header", Rest)
  /\ UNCHANGED <<env, state, version, body, contentLength, keepAlive, chunkSize, result>>

\* A line without a colon: reset().
BadHeaderLine ==
  /\ loop = "header" /\ HasLine /\ state = "reading_headers"
  /\ Line # << >> /\ Line[1] \notin Header \cup {<<"badcookie", 0>>}
  /\ error' = "IHL"
  /\ state' = "waiting_request"
  /\ src' = << >> /\ headers' = {} /\ body' = << >>
  /\ loop' = "return"
  /\ UNCHANGED <<env, version, contentLength, keepAlive, chunkSize, result>>

Lengths == {u[2] : u \in {h \in headers : h[1] = "length"}}
Chunked == \E h \in headers : h[1] = "chunked"

EmptyLine == loop = "header" /\ HasLine /\ state = "reading_headers" /\ Line = << >>

\* set_read_body_state(): Content-Length comes first.
BodyOfLength ==
  /\ EmptyLine /\ Lengths # {}
  /\ \E n \in Lengths : contentLength' = n /\ ParseLength(Rest, n)
  /\ loop' = "return" /\ result' = TRUE
  /\ UNCHANGED <<env, version, headers, keepAlive, chunkSize, error>>

\* Chunked, in HTTP/1.1 only: parse_chunked() goes on with the buffer.
BodyInChunks ==
  /\ EmptyLine /\ Lengths = {} /\ version = 11 /\ Chunked
  /\ state' = "chunked_wait_size" /\ src' = Rest
  /\ loop' = "inner" /\ chunkSize' = 0
  /\ UNCHANGED <<env, version, headers, body, contentLength, keepAlive, error, result>>

NoBody ==
  /\ EmptyLine /\ Lengths = {} /\ ~(version = 11 /\ Chunked)
  /\ state' = "finished" /\ src' = Rest
  /\ loop' = "return" /\ result' = TRUE
  /\ UNCHANGED <<env, version, headers, body, contentLength, keepAlive, chunkSize, error>>

-----------------------------------------------------------------------------
InChunk(s) == loop \in {"chunk", "inner"} /\ HasLine /\ state = s

\* parse_chunked() returns r; parse_header() returns true whatever r is.
LeaveChunk(r) == loop' = "return" /\ result' = (r \/ loop = "inner")

AgainChunk ==
  IF Rest = << >> THEN LeaveChunk(FALSE) ELSE UNCHANGED <<loop, result>>

ChunkNoLine ==
  /\ loop \in {"chunk", "inner"} /\ ~HasLine
  /\ error' = IF Len(src) >= LineLimit THEN "HLTL" ELSE error
  /\ LeaveChunk(FALSE)
  /\ UNCHANGED <<env, state, src, version, headers, body, contentLength, keepAlive, chunkSize>>

\* A chunk-size line, its extension cut off.
ChunkSize ==
  /\ InChunk("chunked_wait_size") /\ IsA("size")
  /\ chunkSize' = Line[1][2]
  /\ state' = IF Line[1][2] = 0 THEN "chunked_wait_headers" ELSE "chunked_wait_content"
  /\ src' = Rest
  /\ AgainChunk
  /\ UNCHANGED <<env, version, headers, body, contentLength, keepAlive, error>>

BadChunkSize ==
  /\ InChunk("chunked_wait_size") /\ ~IsA("size")
  /\ error' = "SFE" /\ src' = Rest
  /\ LeaveChunk(FALSE)
  /\ UNCHANGED <<env, state, version, headers, body, contentLength, keepAlive, chunkSize>>

\* Mutation: the state stays when the line is as long as the chunk.
ChunkContent_Stay ==
  /\ InChunk("chunked_wait_content")
  /\ chunkSize' = Len(Line) /\ UNCHANGED state
  /\ body' = body \o Line
  /\ src' = Rest
  /\ AgainChunk
  /\ UNCHANGED <<env, version, headers, contentLength, keepAlive, error>>

\* A line of content: a line longer than the chunk is taken as part of a larger
\* chunk.  chunkSize is 0 when the size line was parsed by an earlier append(): the line
\* that follows this one is then taken for content too, whatever it is (a text counts
\* as one byte).
ChunkContent ==
  /\ InChunk("chunked_wait_content")
  /\ IF chunkSize < Len(Line)
     THEN chunkSize' = Len(Line) /\ UNCHANGED state
     ELSE state' = "chunked_wait_size" /\ UNCHANGED chunkSize
  /\ body' = body \o Line
  /\ src' = Rest
  /\ AgainChunk
  /\ UNCHANGED <<env, version, headers, contentLength, keepAlive, error>>

\* The header lines after the last chunk; an error does not leave the loop.
ChunkHeader ==
  /\ InChunk("chunked_wait_headers")
  /\ Line # << >> /\ Line[1] \in Header \cup {<<"badcookie", 0>>}
  /\ HeaderInsert
  /\ src' = Rest
  /\ AgainChunk
  /\ UNCHANGED <<env, state, version, body, contentLength, keepAlive, chunkSize>>

BadChunkHeader ==
  /\ InChunk("chunked_wait_headers")
  /\ Line # << >> /\ Line[1] \notin Header \cup {<<"badcookie", 0>>}
  /\ error' = "SFE" /\ src' = Rest
  /\ LeaveChunk(FALSE)
  /\ UNCHANGED <<env, state, version, headers, body, contentLength, keepAlive, chunkSize>>

ChunksEnd ==
  /\ InChunk("chunked_wait_headers") /\ Line = << >>
  /\ state' = "finished" /\ src' = << >>
  /\ LeaveChunk(TRUE)
  /\ UNCHANGED <<env, version, headers, body, contentLength, keepAlive, chunkSize, error>>

-----------------------------------------------------------------------------
\* The connection header decides, else the version.
KeepAlive(hs, v) ==
  LET asked == hs \cap {<<"close", 0>>, <<"keepalive", 0>>}
  IN  IF asked = {} THEN v # 10 ELSE asked = {<<"keepalive", 0>>}

\* The end of request_parser::append(): set_attribute() unless there is an error.
Return ==
  /\ loop = "return"
  /\ loop' = "none"
  /\ chunkSize' = 0
  /\ keepAlive' = IF error = "none" THEN KeepAlive(headers, version) ELSE keepAlive
  /\ UNCHANGED <<env, state, src, version, headers, body, contentLength, error, result>>

\* take_partial_body(n), take_body(): the application reads.
TakeBody(n) ==
  /\ loop = "none" /\ n <= Len(body)
  /\ taken' = taken \o SubSeq(body, 1, n)
  /\ body' = SubSeq(body, n + 1, Len(body))
  /\ early' = (early \/ state # "finished")
  /\ UNCHANGED <<msg, todo, served, split, state, src, version, headers, contentLength,
                 keepAlive, loop, chunkSize, error, result>>

\* Mutation: the headers of the last message stay.
Reset_KeepsHeaders ==
  /\ loop = "none" /\ todo = << >> /\ error = "none" /\ served < MaxMessages
  /\ state' = "waiting_request"
  /\ src' = << >> /\ body' = << >>
  /\ msg' \in Messages /\ todo' = msg'.wire /\ served' = served + 1
  /\ taken' = << >> /\ early' = FALSE /\ split' = FALSE
  /\ UNCHANGED <<version, headers, contentLength, keepAlive, loop, chunkSize, error, result>>

\* reset(): the server goes on to the next message of the connection.  The client
\* sends it when the last one was answered.
Reset ==
  /\ loop = "none" /\ todo = << >> /\ error = "none" /\ served < MaxMessages
  /\ state' = "waiting_request"
  /\ src' = << >> /\ headers' = {} /\ body' = << >>
  /\ msg' \in Messages /\ todo' = msg'.wire /\ served' = served + 1
  /\ taken' = << >> /\ early' = FALSE /\ split' = FALSE
  /\ UNCHANGED <<version, contentLength, keepAlive, loop, chunkSize, error, result>>

AppendUnits(n) == AppendMore(n) \/ AppendHeader(n) \/ AppendLength(n) \/ AppendChunked(n)

HeaderStep ==
  \/ HeaderNoLine \/ RequestLine \/ BadRequestLine \/ HeaderLine \/ BadHeaderLine
  \/ BodyOfLength \/ BodyInChunks \/ NoBody

ChunkStep ==
  \/ ChunkNoLine \/ ChunkSize \/ BadChunkSize \/ ChunkContent \/ ChunkHeader
  \/ BadChunkHeader \/ ChunksEnd

ParseStep == HeaderStep \/ ChunkStep \/ Return

Next ==
  \/ AppendEmpty \/ ParseStep \/ Reset
  \/ \E n \in 1 .. Len(todo) : AppendUnits(n)
  \/ \E n \in 1 .. Len(body) : TakeBody(n)

\* append() is synchronous: once called it runs on.
Spec == Init /\ [][Next]_vars /\ WF_vars(ParseStep)

-----------------------------------------------------------------------------
\* parse_chunked() knows where in the content it is: no fragment has ended inside a chunk
\* (the size at parser_base.h:168 is then forgotten), and no chunk holds a line end in its
\* data (which 202-209 take for the end of the chunk).
InPlace == ~split /\ ~msg.lineInData

\* Whatever the fragments, but for those that end inside a chunk, and whatever the
\* application has taken in between, the body parsed so far is the beginning of the body
\* that was sent, if its chunks have no line end in their data.
BodyIsPrefix ==
  InPlace /\ state # "waiting_request" => IsPrefix(taken \o body, msg.body)

\* What is said of a message is true of it, not of an earlier one, with the same two
\* exceptions.  It is finished only when nothing of its body or its headers is missing;
\* and from the moment is_finished() or can_read_from_device() promises complete headers,
\* keep_alive(), on which the server decides whether the connection goes on, is what its
\* client wants.
FinishedIsWhole ==
  InPlace =>
    /\ state = "finished" => taken \o body = msg.body /\ headers = msg.headers
    /\ loop = "none" /\ state \in State \ {"waiting_request", "reading_headers"}
         => (error \in {"none", "RE"} => keepAlive = msg.keep)

\* The verdict on a message, again with these exceptions.  One that is well-formed and has
\* arrived is finished, if the application did not take a part of the body too early; an
\* error is reported for it only if a line or a chunk of it reaches the limit of 1024 bytes,
\* and this verdict does depend on the fragments: such a line is accepted when its end
\* comes in the same fragment (parser_base.h:78, 173).  For a malformed message the errors
\* are those its defect explains.
VerdictIsReal ==
  InPlace /\ loop = "none" =>
    /\ todo = << >> /\ msg.wellFormed /\ ~early =>
         state = "finished" \/ (error # "none" /\ error \in msg.errors)
    /\ error \in msg.errors \cup {"none", "IDE"}

\* append() returns: each round of its loops consumes a line or leaves.
AppendReturns == loop # "none" ~> loop = "none"
=============================================================================
