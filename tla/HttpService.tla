---------------------------- MODULE HttpService ----------------------------
(***************************************************************************)
(* One connection of the HTTP server: do_tcp_service() of                  *)
(* http/server/detail/server.h with the request and the response it hands  *)
(* to the application (request.h, response.h).                             *)
(*                                                                         *)
(* The service reads, parses, calls the application, fills in a default    *)
(* answer, and goes on with the next request while the connection is kept  *)
(* alive.  The client, the application and the operating system are the    *)
(* environment: fragments arrive cut anywhere, timers expire, the peer     *)
(* closes or resets, handlers write, read the body and throw.              *)
(*                                                                         *)
(* A request comes as the units <<i, "pre">> (a part of its request line), *)
(* <<i, "line">>, <<i, "head">> and, if it has one, <<i, "body">>; what    *)
(* append() makes of them is Parse below, which HttpParser has in detail.  *)
(* Requests are HTTP/1.1.                                                  *)
(***************************************************************************)
EXTENDS HttpResponse, Sequences, SequencesExt

CONSTANTS
  Scripts,            \* the sequences of requests the client may send
  BlankRoutes,        \* where an empty path may lead: a rule "/" or no rule
  DefaultSize,        \* units of the default page
  DefaultHandler,     \* on_default() was called
  KeepTime,           \* the keep-alive time is not zero
  ServerErrorReturns, \* what on_server_error returns; FALSE also if it is not set
  ServiceErrorReturns,\* what on_service_error returns; FALSE also if it is not set
  Timeouts,           \* the application writes with a timeout
  MaxRequests,        \* bound: requests of the client
  MaxRounds,          \* bound: rounds in which the client sends something
  MaxLength,          \* bound: Content-Length the application sets
  MaxWrite,           \* bound: units of one write
  MaxOps              \* bound: operations of the application on the connection

VARIABLES
  alive,    \* forced_termination() has not been called
  pc,       \* where do_tcp_service() is
  todo,     \* units the client has yet to send
  peer,     \* "up", "gone" (closed), "reset" (reset, not yet seen by a read)
  parsed,   \* what the parser holds
  cur,      \* index of the request in the parser, 0 if its line is not parsed
  resp,     \* the response of the context
  ops,      \* operations the application may still do
  taken,    \* the application has taken the body
  phase,    \* the handler that request.read() returns to
  out,      \* answers put on the wire
  body,     \* the body of the one of this round
  script,   \* the requests of the client
  served,   \* rounds of the service loop
  cut,      \* a request was not alone in the parser or not whole when served
  gaveUp,   \* the rounds in which the default handler threw
  failed,   \* a write failed
  threw     \* on_service_error took an exception before the header was written

parser == <<todo, peer, parsed, cur>>
app    == <<ops, taken, phase>>
wire   == <<out, body>>
ghost  == <<script, served, gaveUp, cut, failed, threw>>
vars   == <<alive, pc, parser, resp, app, wire, ghost>>

Phases == {"before", "service", "after", "default"}
PC     == {"read", "route", "answer", "reading", "body", "html", "next", "closed"} \cup Phases
Routes == {"none", "handler", "head", "options", "other"}
Units  == Nat \X {"pre", "line", "head", "body"}
Parsed == {"nothing", "pre", "junk", "line", "head", "whole"}

\* route: what the path and the method lead to: no rule, a handler, or a rule to
\* which the method is not bound (HEAD, OPTIONS or another).
Request == [route : Routes, chunked : BOOLEAN, keep : BOOLEAN, body : BOOLEAN]

\* An answer: the request it was made for, and whether its handler threw.
Answers == [req : Nat, status : Nat, threw : BOOLEAN]

\* The body of the answer of this round: what its header says, and the units that went out,
\* from the application (own) and from the default page (dflt).
Bodies == [chunked : BOOLEAN, length : Nat, own : Nat, dflt : Nat]
NoBody == [chunked |-> FALSE, length |-> 0, own |-> 0, dflt |-> 0]

ASSUME ServiceAssumption ==
  /\ \A s \in Scripts : s \in Seq(Request) /\ Len(s) <= MaxRequests
  /\ MaxRequests \in Nat /\ MaxRounds \in Nat /\ MaxLength \in Nat
  /\ MaxWrite \in Nat /\ MaxOps \in Nat
  /\ BlankRoutes \subseteq {"none", "handler"} /\ BlankRoutes # {}
  /\ DefaultSize \in Nat \ {0}
  /\ DefaultHandler \in BOOLEAN /\ KeepTime \in BOOLEAN /\ Timeouts \in BOOLEAN
  /\ ServerErrorReturns \subseteq BOOLEAN /\ ServerErrorReturns # {}
  /\ ServiceErrorReturns \subseteq BOOLEAN /\ ServiceErrorReturns # {}

UnitsOf(s) ==
  FlattenSeq([i \in 1 .. Len(s) |->
    <<<<i, "pre">>, <<i, "line">>, <<i, "head">>>>
      \o (IF s[i].body THEN <<<<i, "body">>>> ELSE << >>)])

TypeOK ==
  /\ alive \in BOOLEAN
  /\ pc \in PC
  /\ script \in Scripts
  /\ todo \in Seq(Units)
  /\ peer \in {"up", "gone", "reset"}
  /\ parsed \in Parsed
  /\ cur \in 0 .. Len(script)
  /\ resp \in Response
  /\ ops \in 0 .. MaxOps
  /\ phase \in Phases
  /\ out \in Seq(Answers)
  /\ body \in Bodies
  /\ served \in Nat /\ gaveUp \in SUBSET Nat
  /\ {taken, cut, failed, threw} \subseteq BOOLEAN

Init ==
  /\ alive = TRUE
  /\ pc = "read"
  /\ script \in Scripts
  /\ todo = UnitsOf(script)
  /\ peer = "up"
  /\ parsed = "nothing" /\ cur = 0
  /\ resp = NewResponse
  /\ ops = MaxOps /\ taken = FALSE /\ phase = "service"
  /\ out = << >> /\ body = NoBody
  /\ served = 0 /\ gaveUp = {}
  /\ cut = FALSE /\ failed = FALSE /\ threw = FALSE

Goto(p) == pc' = p

\* An exception left the coroutine: the socket is closed and the process killed.
Killed == alive' = FALSE

-----------------------------------------------------------------------------
\* The parser, as the service uses it.

Has == cur > 0 /\ parsed \in {"line", "head", "whole"}
Req == script[cur]

\* What append() makes of one unit; "error" is any error it reports.
Step(p, u) ==
  CASE p = "nothing" /\ u[2] = "pre"  -> "pre"
    [] p = "pre" /\ u[2] = "line"     -> "line"
    [] p = "line" /\ u[2] = "head"    -> IF script[u[1]].body THEN "head" ELSE "whole"
    [] p = "head" /\ u[2] = "body"    -> "whole"
    [] p = "whole"                    -> "whole"
    [] p = "nothing" /\ u[2] = "body" -> "junk"
    [] OTHER                          -> "error"

\* append() of n units.
Parse(n) ==
  LET p[i \in 0 .. n] == IF i = 0 THEN parsed ELSE Step(p[i - 1], todo[i])
  IN  p[n]

\* The request whose line is in the parser, if it has one.
Current(p) ==
  IF p \notin {"line", "head", "whole"} THEN 0
  ELSE IF cur > 0 THEN cur ELSE todo[1][1]

\* Units beyond the end of the request are dropped.
Overrun(n) == \E i \in 1 .. n : todo[i][1] # todo[1][1]

-----------------------------------------------------------------------------
\* do_tcp_service().

\* async_read_some() returned n units, append() accepted them or not; the result of
\* append() is not looked at.
ReadSome(n) ==
  /\ alive /\ pc = "read" /\ served < MaxRounds /\ peer # "reset" /\ n \in 1 .. Len(todo)
  /\ todo' = SubSeq(todo, n + 1, Len(todo))
  /\ LET p == Parse(n)
     IN  IF p = "error"
         THEN /\ Goto("closed")
              /\ UNCHANGED <<parsed, cur, cut>>
         ELSE /\ Goto("route")
              /\ parsed' = p
              /\ cur' = Current(p)
              /\ cut' = (cut \/ Overrun(n))
  /\ UNCHANGED <<alive, peer, resp, app, wire, script, served, gaveUp, failed, threw>>

\* Mutation: no timer runs beside the read.
ReadEnds_NoTimer ==
  /\ alive /\ pc = "read" /\ peer = "gone"
  /\ Goto("closed")
  /\ UNCHANGED <<alive, parser, resp, app, wire, ghost>>

\* End of stream, or the timer (first_reading_time, then keepalive_time) was faster.
ReadEnds ==
  /\ alive /\ pc = "read"
  /\ Goto("closed")
  /\ UNCHANGED <<alive, parser, resp, app, wire, ghost>>

\* Another error: when on_server_error returns true the service goes on as if it had
\* read something.
ReadFails ==
  /\ alive /\ pc = "read" /\ peer = "reset"
  /\ peer' = "gone"
  /\ \E b \in ServerErrorReturns :
       IF b
       THEN Goto("route") /\ UNCHANGED alive
       ELSE Goto("closed") /\ Killed
  /\ cut' = TRUE
  /\ UNCHANGED <<todo, parsed, cur, resp, app, wire, script, served, gaveUp, failed, threw>>

-----------------------------------------------------------------------------
\* Writing.

\* request_chunked(): looks at the headers the parser has so far.
RequestChunked == parsed \in {"head", "whole"} /\ Req.chunked

\* The header h goes out.
NewAnswer(h) == [req |-> cur, status |-> h.status, threw |-> threw]
NewBody(h) == [chunked |-> h.state = "chunk",
               length |-> IF h.state = "chunk" THEN 0 ELSE h.left, own |-> 0, dflt |-> 0]

\* write() of n units by w ("own" or "dflt") when all of it goes out (k = n) or the
\* header only (k = 0).
SendUnits(n, w, k) ==
  LET r == resp
      h == Headed(r, RequestChunked, n)
      b == IF r.state = "header" THEN NewBody(h) ELSE body
  IN  /\ out' = IF r.state = "header" THEN Append(out, NewAnswer(h)) ELSE out
      /\ body' = IF w = "own" THEN [b EXCEPT !.own = @ + BodySize(h, k)]
                 ELSE [b EXCEPT !.dflt = @ + BodySize(h, k)]
      /\ resp' = Written(r, RequestChunked, n)

\* write() that succeeds.
WriteOK(n, w) ==
  /\ SendUnits(n, w, n)
  /\ UNCHANGED failed

\* write() that fails, because the peer is gone or (timed) because its time is over:
\* on the header, and then the body is not tried, or on the body.  The state of the
\* response has moved on before the data was sent, and later writes count on it.
WriteFails(n, w, timed) ==
  /\ peer # "up" \/ timed
  /\ resp.state # "finish"
  /\ \/ /\ resp.state = "header"
        /\ resp' = Headed(resp, RequestChunked, n)
        /\ body' = NewBody(resp')
        /\ UNCHANGED out
     \/ /\ n > 0
        /\ SendUnits(n, w, 0)
  /\ failed' = TRUE

-----------------------------------------------------------------------------
\* call_on_request().

RouteOf == IF Has THEN {Req.route} ELSE BlankRoutes

\* In a new context, with a new response.
Route(r) == alive /\ pc = "route" /\ r \in RouteOf

\* No rule for the path, or one to which the method is not bound.
RouteRefused ==
  /\ \E r \in {"none", "other"} :
       /\ Route(r)
       /\ resp' = SetStatus(resp, IF r = "none" THEN 404 ELSE 405)
  /\ Goto("body")
  /\ UNCHANGED <<alive, parser, app, wire, ghost>>

RouteToHandler ==
  /\ Route("handler")
  /\ Goto("before")
  /\ UNCHANGED <<alive, parser, resp, app, wire, ghost>>

\* HEAD and OPTIONS to a rule they are not bound to: an empty answer or the list of
\* methods.  (After the answer to HEAD the status is set as for any other method,
\* which nobody sees any more.)
RouteAnswered ==
  /\ \E r \in {"head", "options"} : Route(r)
  /\ Goto("answer")
  /\ UNCHANGED <<alive, parser, resp, app, wire, ghost>>

AnswerSize == IF Req.route = "head" THEN 0 ELSE 1

Answer ==
  /\ alive /\ pc = "answer"
  /\ WriteOK(AnswerSize, "own")
  /\ Goto("body")
  /\ UNCHANGED <<alive, parser, app, script, served, gaveUp, cut, threw>>

\* These writes are outside the try block: the exception leaves the coroutine.
AnswerFails ==
  /\ alive /\ pc = "answer"
  /\ WriteFails(AnswerSize, "own", FALSE)
  /\ Goto("closed")
  /\ Killed
  /\ UNCHANGED <<parser, app, script, served, gaveUp, cut, threw>>

-----------------------------------------------------------------------------
\* The application: the aspects' before(), the handler, the aspects' after(), and
\* the default handler.

InApp == alive /\ pc \in Phases
Spend == ops > 0 /\ ops' = ops - 1

\* call_on_service_error(), after the aspects have seen the exception.
ServiceError ==
  \E b \in ServiceErrorReturns :
    /\ resp' = SetStatus(resp, 500)
    /\ threw' = (threw \/ resp.state = "header")
    /\ gaveUp' = IF pc = "default" THEN gaveUp \cup {served + 1} ELSE gaveUp
    /\ IF b
       THEN /\ Goto(IF pc = "default" THEN "next" ELSE "body")
            /\ UNCHANGED alive
       ELSE Goto("closed") /\ Killed

\* The handler throws.  The aspects of a rule may take the exception; those of the
\* default handler do not exist.
Throws ==
  /\ InApp
  /\ \/ ServiceError
     \/ /\ pc # "default"
        /\ Goto("body")
        /\ UNCHANGED <<alive, resp, threw, gaveUp>>
  /\ UNCHANGED <<parser, app, wire, script, served, cut, failed>>

\* The handler returns: before() with false and then the handler and after(), or
\* before() with true and nothing else.
Returns ==
  /\ InApp
  /\ \/ pc = "before" /\ \E p \in {"service", "body"} : Goto(p)
     \/ pc = "service" /\ Goto("after")
     \/ pc = "after" /\ Goto("body")
     \/ pc = "default" /\ Goto(IF resp.state = "finish" THEN "next" ELSE "html")
  /\ UNCHANGED <<alive, parser, resp, app, wire, ghost>>

\* set_header(content_length, n).
SetLength(n) ==
  /\ InApp /\ Spend
  /\ resp' = [resp EXCEPT !.given = TRUE, !.length = n]
  /\ UNCHANGED <<alive, pc, parser, taken, phase, wire, ghost>>

\* write() of n units; send_file() of a file of n > 0 units does the same before
\* anything has been written, and nothing for an empty file or afterwards.
Writes(n) ==
  /\ InApp /\ Spend
  /\ WriteOK(n, "own")
  /\ UNCHANGED <<alive, pc, parser, taken, phase, script, served, gaveUp, cut, threw>>

\* A write that fails: the application sees the error code, or an exception that it
\* may or may not let through (Throws).
WriteError(n) ==
  /\ InApp /\ Spend
  /\ WriteFails(n, "own", Timeouts)
  /\ UNCHANGED <<alive, pc, parser, taken, phase, script, served, gaveUp, cut, threw>>

\* request.read(): the body if it is there, or wait for it.  At the end of the body
\* it fails with eof, and the handler may throw.
Reads ==
  /\ InApp /\ Spend
  /\ parsed = "head" \/ (parsed = "whole" /\ Req.body /\ ~taken)
  /\ taken' = (taken \/ parsed = "whole")
  /\ Goto(IF parsed = "head" THEN "reading" ELSE pc)
  /\ phase' = pc
  /\ UNCHANGED <<alive, parser, resp, wire, ghost>>

\* More of the body arrives.
BodyArrives(n) ==
  /\ alive /\ pc = "reading" /\ peer # "reset" /\ n \in 1 .. Len(todo)
  /\ todo' = SubSeq(todo, n + 1, Len(todo))
  /\ parsed' = Parse(n)
  /\ taken' = TRUE
  /\ cut' = (cut \/ Overrun(n))
  /\ Goto(phase)
  /\ UNCHANGED <<alive, peer, cur, resp, ops, phase, wire, script, served, gaveUp, failed, threw>>

\* It does not: an error of the socket, or 30 seconds are over.
BodyMissing ==
  /\ alive /\ pc = "reading"
  /\ Goto(phase)
  /\ UNCHANGED <<alive, parser, resp, app, wire, ghost>>

-----------------------------------------------------------------------------
\* Mutation: a response the application has begun counts as finished.
Default_Begun ==
  /\ alive /\ pc = "body"
  /\ Goto(IF resp.state # "header" THEN "next" ELSE IF DefaultHandler THEN "default" ELSE "html")
  /\ UNCHANGED <<alive, parser, resp, app, wire, ghost>>

\* Mutation: the default answer is left to the default handler.
Default_NoPage ==
  /\ alive /\ pc = "body"
  /\ Goto("next")
  /\ UNCHANGED <<alive, parser, resp, app, wire, ghost>>

\* call_on_default(): skipped when the response is finished.
Default ==
  /\ alive /\ pc = "body"
  /\ Goto(IF resp.state = "finish" THEN "next" ELSE IF DefaultHandler THEN "default" ELSE "html")
  /\ UNCHANGED <<alive, parser, resp, app, wire, ghost>>

\* The default page.
Html ==
  /\ alive /\ pc = "html"
  /\ WriteOK(DefaultSize, "dflt")
  /\ Goto("next")
  /\ UNCHANGED <<alive, parser, app, script, served, gaveUp, cut, threw>>

\* It cannot be sent: on_service_error.  The status is set on a response that is
\* dropped.
HtmlFails ==
  /\ alive /\ pc = "html"
  /\ WriteFails(DefaultSize, "dflt", FALSE)
  /\ \E b \in ServiceErrorReturns :
       IF b THEN Goto("next") /\ UNCHANGED alive
       ELSE Goto("closed") /\ Killed
  /\ UNCHANGED <<parser, app, script, served, gaveUp, cut, threw>>

KeepAlive == (parsed \in {"head", "whole"} => Req.keep) /\ KeepTime

\* Mutation: the parser is not reset.
EndOfRound_NoReset ==
  /\ alive /\ pc = "next"
  /\ served' = served + 1
  /\ Goto(IF KeepAlive THEN "read" ELSE "closed")
  /\ resp' = NewResponse
  /\ body' = NoBody
  /\ taken' = FALSE
  /\ phase' = "service"
  /\ threw' = FALSE
  /\ cut' = (cut \/ parsed # "whole")
  /\ UNCHANGED <<alive, todo, peer, parsed, cur, ops, out, script, gaveUp, failed>>

\* The end of a round: close, or reset() the parser and read again; the context is
\* gone.
EndOfRound ==
  /\ alive /\ pc = "next"
  /\ served' = served + 1
  /\ IF KeepAlive
     THEN /\ Goto("read")
          /\ parsed' = "nothing"
          /\ cur' = 0
     ELSE Goto("closed") /\ UNCHANGED <<parsed, cur>>
  /\ resp' = NewResponse
  /\ body' = NoBody
  /\ taken' = FALSE
  /\ phase' = "service"
  /\ threw' = FALSE
  /\ cut' = (cut \/ parsed # "whole")
  /\ UNCHANGED <<alive, todo, peer, ops, out, script, gaveUp, failed>>

-----------------------------------------------------------------------------
\* The client closes or resets the connection.
PeerLeaves ==
  /\ alive /\ peer = "up" /\ pc # "closed"
  /\ \E p \in {"gone", "reset"} : peer' = p
  /\ UNCHANGED <<alive, pc, todo, parsed, cur, resp, app, wire, ghost>>

-----------------------------------------------------------------------------
\* The server's steps, its timers and the application.
Service ==
  \/ ReadEnds \/ ReadFails
  \/ RouteRefused \/ RouteToHandler \/ RouteAnswered \/ Answer \/ AnswerFails
  \/ Throws \/ Returns \/ Reads \/ BodyMissing
  \/ Default \/ Html \/ HtmlFails \/ EndOfRound
  \/ \E n \in 0 .. MaxLength : SetLength(n)
  \/ \E n \in 0 .. MaxWrite : Writes(n) \/ WriteError(n)

Client ==
  \/ PeerLeaves
  \/ \E n \in 1 .. Len(todo) : ReadSome(n) \/ BodyArrives(n)

Next == Service \/ Client

\* Queued handlers run, timers expire and the application's handlers return; a client
\* need not send anything.
Spec == Init /\ [][Next]_vars /\ WF_vars(Service)

-----------------------------------------------------------------------------
\* helper_base::body_data(): the application and the default page together never send
\* more than the Content-Length that went out.
BodyFits == ~body.chunked => body.own + body.dflt <= body.length

\* Why a body may be short at the end of a round: it was chunked (nothing ends those),
\* or the application announced more than it and the default page supply.
Complete(b) ==
  \/ b.chunked
  \/ b.own + b.dflt = b.length
  \/ b.own + DefaultSize < b.length

\* The default handler threw in the round that is under way: call_on_service_error() sends
\* nothing, and when on_service_error returns true the connection goes on without the end
\* of this answer.
Abandoned == served + 1 \in gaveUp

\* do_tcp_service(): the connection is read again, for the next answer to follow, only
\* when the last answer has been sent to its end, if no write failed and the default
\* handler did not throw in its round.
AnswerComplete == pc = "next" /\ KeepAlive /\ ~failed /\ ~Abandoned => Complete(body)

Expected(m) ==
  CASE script[m.req].route = "none" -> 404
    [] script[m.req].route = "other" -> 405
    [] OTHER -> IF m.threw THEN 500 ELSE 200

\* do_tcp_service(): a client whose requests each come alone and are taken whole gets
\* one answer for each, in their order, with the status its handler, the missing
\* handler or the exception call for, if no write failed and no default handler threw.
AnswersInOrder ==
  alive /\ ~cut /\ ~failed /\ gaveUp = {} /\ pc \in {"read", "closed"} =>
    /\ Len(out) = served
    /\ \A i \in 1 .. Len(out) : out[i].req = i /\ out[i].status = Expected(out[i])

\* do_tcp_service(): a request that has arrived whole is answered, whatever the handlers
\* of its rule do, unless a write fails, the default handler throws while it is served, or
\* the process is killed.
RequestAnswered ==
  \A i \in 1 .. MaxRequests :
    (pc = "route" /\ parsed = "whole" /\ cur = i)
      ~> \/ \E k \in 1 .. Len(out) : out[k].req = i
         \/ failed \/ ~alive
         \/ Abandoned /\ cur = i

\* do_tcp_service(), request::co_read(): whatever the client sends or leaves out, and
\* whatever the handlers do, the timers end the connection.
ConnectionCloses == <>(pc = "closed" \/ ~alive)
-----------------------------------------------------------------------------
\* Why BodyFits and AnswerComplete hold: what is still owed and what has been sent make
\* up the announced length, exactly so if no write failed; the default page is the last
\* thing that is written.
BodySent == body.own + body.dflt

BodyTypes == resp \in Response /\ body \in Bodies /\ failed \in BOOLEAN /\ phase \in Phases

BodyFollows ==
  /\ resp.state = "header" => body = NoBody
  /\ resp.state # "header" => (body.chunked <=> resp.state = "chunk")
  /\ resp.state = "finish" => resp.left = 0

Counted ==
  resp.state # "header" /\ ~body.chunked =>
    /\ BodySent + resp.left <= body.length
    /\ ~failed => BodySent + resp.left = body.length

PageIsLast == body.dflt > 0 => pc \in {"next", "closed"}

RoundEnds == pc = "next" /\ ~failed /\ ~Abandoned => Complete(body)

BodyInv == BodyTypes /\ BodyFollows /\ Counted /\ PageIsLast /\ RoundEnds
-----------------------------------------------------------------------------
\* Why AnswersInOrder holds: what the client has yet to send continues, unit by unit, where
\* the parser stands; the round that is under way is that of the next request; its answer,
\* if begun, is the last one, and otherwise the status it will get is the right one.
NextUnit(u) ==
  CASE u[2] = "pre" -> <<u[1], "line">>
    [] u[2] = "line" -> <<u[1], "head">>
    [] u[2] = "head" /\ script[u[1]].body -> <<u[1], "body">>
    [] OTHER -> <<u[1] + 1, "pre">>

Continues(t, u) ==
  /\ t # << >> => t[1] = u
  /\ \A i \in 1 .. Len(t) - 1 : t[i + 1] = NextUnit(t[i])

InRound == pc \notin {"read", "closed"}

\* In the handlers of a rule, which set the status by throwing.
Handling == pc \in Phases \ {"default"} \/ (pc = "reading" /\ phase # "default")

\* The answer of this round, sent or as it would be.
ThisAnswer == IF resp.state = "header" THEN NewAnswer(resp) ELSE out[served + 1]

OrderTypes ==
  /\ served \in Nat /\ cur \in Nat /\ threw \in BOOLEAN
  /\ out \in Seq(Answers) /\ todo \in Seq(Units)

StreamFollows ==
  /\ pc = "read" => Continues(todo, <<served + 1, "pre">>)
  /\ InRound /\ parsed = "head" => Continues(todo, <<cur, "body">>)
  /\ InRound /\ parsed = "whole" => Continues(todo, <<cur + 1, "pre">>)

RoundOfNext ==
  /\ pc = "read" => parsed = "nothing" /\ cur = 0
  /\ InRound => parsed \in {"pre", "line", "head", "whole"}
  /\ InRound /\ parsed # "pre" => cur = served + 1
  /\ pc = "reading" => parsed = "head"
  /\ pc \in {"read", "route"} => resp = NewResponse /\ ~threw
  /\ Handling /\ parsed # "pre" => Req.route = "handler"
  /\ pc = "next" => resp.state # "header"
  /\ pc = "closed" => resp.state = "header"

AnswerFollows ==
  /\ Len(out) = IF resp.state = "header" THEN served ELSE served + 1
  /\ \A i \in 1 .. served : out[i].req = i /\ out[i].status = Expected(out[i])
  /\ InRound /\ pc # "route" /\ parsed # "pre" =>
       ThisAnswer.req = cur /\ ThisAnswer.status = Expected(ThisAnswer)

Undisturbed == alive /\ ~cut /\ ~failed /\ gaveUp = {}

OrderInv ==
  /\ OrderTypes
  /\ Undisturbed => StreamFollows /\ RoundOfNext /\ AnswerFollows
=============================================================================
