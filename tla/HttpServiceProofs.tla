------------------------- MODULE HttpServiceProofs --------------------------
(***************************************************************************)
(* Proofs about HttpService for every script of requests and whatever the  *)
(* application does: the body of an answer never goes beyond what its      *)
(* header announced, the connection is not read again before the answer    *)
(* is sent to its end, and the answers are those of the requests, in their *)
(* order, as long as these come alone and no write fails.                  *)
(***************************************************************************)
EXTENDS HttpService, TLAPS, WellFoundedInduction

-----------------------------------------------------------------------------
\* The response.

LEMMA HeaderDataFacts ==
  ASSUME NEW r \in Response, NEW c \in BOOLEAN, NEW n \in Nat
  PROVE  /\ HeaderData(r, c, n) \in Response
         /\ HeaderData(r, c, n).state \in {"content_length", "chunk"}
  BY DEF HeaderData, Response, ProState

\* What body_data() leaves to be sent and what it lets through make up what was owed.
LEMMA BodyDataFacts ==
  ASSUME NEW r \in Response, NEW n \in Nat,
         r.state # "header", r.state = "finish" => r.left = 0
  PROVE  LET g == IF n > 0 THEN BodyData(r, n) ELSE r
         IN  /\ g \in Response
             /\ g.state # "header" /\ (g.state = "chunk" <=> r.state = "chunk")
             /\ g.state = "finish" => g.left = 0
             /\ BodySize(r, n) \in Nat /\ BodySize(r, 0) = 0
             /\ r.state # "chunk" =>
                  /\ g.left + BodySize(r, n) = r.left
                  /\ g.left = 0 \/ BodySize(r, n) = n
<1> USE DEF Response, ProState
<1>1. CASE r.state # "content_length"
  BY <1>1 DEF BodyData, BodySize
<1>2. CASE r.state = "content_length" /\ r.left > n
  <2>1. BodyData(r, n) = [r EXCEPT !.left = r.left - n] /\ BodySize(r, n) = n
        /\ BodySize(r, 0) = 0
    BY <1>2 DEF BodyData, BodySize
  <2>2. r.left - n \in Nat /\ r.left - n + n = r.left /\ (n = 0 => r.left + n = r.left)
    BY <1>2
  <2>3. QED
    BY <1>2, <2>1, <2>2
<1>3. CASE r.state = "content_length" /\ ~(r.left > n)
  <2>1. /\ BodyData(r, n) = [r EXCEPT !.left = 0, !.state = "finish"]
        /\ BodySize(r, n) = r.left /\ BodySize(r, 0) = 0
    BY <1>3 DEF BodyData, BodySize
  <2>2. r.left \in Nat /\ r.left <= n /\ 0 + r.left = r.left /\ (~(n > 0) => r.left = 0)
    BY <1>3
  <2>3. [r EXCEPT !.left = 0, !.state = "finish"] \in Response
    OBVIOUS
  <2>4. CASE n > 0
    BY <1>3, <2>1, <2>2, <2>3, <2>4
  <2>5. CASE ~(n > 0)
    BY <1>3, <2>1, <2>2, <2>5
  <2>6. QED
    BY <2>4, <2>5
<1>4. QED
  BY <1>1, <1>2, <1>3

LEMMA ChunkedType == RequestChunked \in BOOLEAN
  BY DEF RequestChunked

-----------------------------------------------------------------------------
\* Writing.

\* The header of this round's answer, and its body when nothing of it has been sent
\* by the write that is under way.
TheHead(n) == Headed(resp, RequestChunked, n)
Begun(n) == IF resp.state = "header" THEN NewBody(TheHead(n)) ELSE body

LEMMA HeadFacts ==
  ASSUME BodyInv, NEW n \in Nat
  PROVE  /\ TheHead(n) \in Response /\ Begun(n) \in Bodies
         /\ TheHead(n).state # "header" /\ (Begun(n).chunked <=> TheHead(n).state = "chunk")
         /\ TheHead(n).state = "finish" => TheHead(n).left = 0
         /\ Begun(n).dflt = body.dflt
         /\ ~Begun(n).chunked =>
              LET owed == Begun(n).own + Begun(n).dflt + TheHead(n).left
              IN  /\ owed <= Begun(n).length
                  /\ ~failed => owed = Begun(n).length
<1>1. resp \in Response /\ body \in Bodies /\ BodyFollows /\ Counted
  BY DEF BodyInv, BodyTypes
<1>2. CASE resp.state = "header"
  <2> DEFINE h == HeaderData(resp, RequestChunked, n)
  <2>1. h \in Response /\ h.state \in {"content_length", "chunk"}
    BY <1>1, ChunkedType, HeaderDataFacts
  <2>2. TheHead(n) = h /\ Begun(n) = NewBody(h)
    BY <1>2 DEF TheHead, Headed, Begun
  <2> HIDE DEF h
  <2>3. h.left \in Nat
    BY <2>1 DEF Response
  <2>5. /\ NewBody(h).own = 0 /\ NewBody(h).dflt = 0
        /\ NewBody(h).chunked <=> h.state = "chunk"
        /\ h.state # "chunk" => NewBody(h).length = h.left
    BY DEF NewBody
  <2>6. NewBody(h) \in Bodies
    BY <2>3 DEF Bodies, NewBody
  <2>7. body.dflt = 0
    BY <1>1, <1>2 DEF BodyFollows, NoBody
  <2>8. 0 + 0 + h.left = h.left /\ h.left <= h.left
    BY <2>3
  <2>9. QED
    BY <2>1, <2>2, <2>5, <2>6, <2>7, <2>8
<1>3. CASE resp.state # "header"
  <2>1. TheHead(n) = resp /\ Begun(n) = body
    BY <1>3 DEF TheHead, Headed, Begun
  <2>2. QED
    BY <1>1, <1>3, <2>1 DEF BodyFollows, Counted, BodySent
<1>4. QED
  BY <1>2, <1>3

LEMMA Balance ==
  ASSUME NEW own \in Nat, NEW dflt \in Nat, NEW left \in Nat, NEW length \in Nat,
         NEW size \in Nat, NEW own1 \in Nat, NEW dflt1 \in Nat, NEW left1 \in Nat,
         own1 + dflt1 = own + dflt + size
  PROVE  /\ own + dflt + left <= length /\ left1 + size <= left =>
              own1 + dflt1 + left1 <= length
         /\ own + dflt + left = length /\ left1 + size = left =>
              own1 + dflt1 + left1 = length
  OBVIOUS

\* The units that go out: all of them (j = n), or the header only (j = 0).
LEMMA SendUnitsStep ==
  ASSUME BodyInv, NEW n \in Nat, NEW w \in {"own", "dflt"}, NEW j \in {0, n},
         SendUnits(n, w, j)
  PROVE  /\ resp' \in Response /\ body' \in Bodies /\ BodyFollows'
         /\ w = "own" => body'.dflt = body.dflt
         /\ resp'.state # "header" /\ ~body'.chunked =>
              LET owed == body'.own + body'.dflt + resp'.left
              IN  /\ owed <= body'.length
                  /\ ~failed /\ j = n => owed = body'.length
         /\ w = "dflt" /\ body.dflt = 0 /\ ~failed /\ j = n /\ n = DefaultSize => Complete(body')
<1> DEFINE h == TheHead(n)
           b == Begun(n)
           size == BodySize(h, j)
           g == IF n > 0 THEN BodyData(h, n) ELSE h
<1>1. /\ h \in Response /\ b \in Bodies
      /\ h.state # "header" /\ (b.chunked <=> h.state = "chunk")
      /\ h.state = "finish" => h.left = 0
      /\ b.dflt = body.dflt
      /\ ~b.chunked =>
           LET owed == b.own + b.dflt + h.left
           IN  /\ owed <= b.length
               /\ ~failed => owed = b.length
  BY HeadFacts
<1>2. /\ resp' = g
      /\ body' = IF w = "own" THEN [b EXCEPT !.own = @ + size] ELSE [b EXCEPT !.dflt = @ + size]
  BY DEF SendUnits, TheHead, Begun, Written
<1> HIDE DEF h, b
<1>3. /\ g \in Response
      /\ g.state # "header" /\ (g.state = "chunk" <=> h.state = "chunk")
      /\ g.state = "finish" => g.left = 0
      /\ BodySize(h, n) \in Nat /\ BodySize(h, 0) = 0
      /\ h.state # "chunk" =>
           /\ g.left + BodySize(h, n) = h.left
           /\ g.left = 0 \/ BodySize(h, n) = n
  BY <1>1, BodyDataFacts
<1>4. size \in Nat /\ g.left \in Nat /\ h.left \in Nat
  BY <1>1, <1>3 DEF Response
<1>5. ASSUME h.state # "chunk" PROVE g.left + size <= h.left
  BY <1>3, <1>4, <1>5
<1>6. ASSUME h.state # "chunk", j = n
       PROVE  g.left + size = h.left /\ (g.left = 0 \/ size = n)
  BY <1>3, <1>6
<1> HIDE DEF size, g
<1>7. /\ body'.own = IF w = "own" THEN b.own + size ELSE b.own
      /\ body'.dflt = IF w = "own" THEN b.dflt ELSE b.dflt + size
      /\ body'.length = b.length /\ body'.chunked = b.chunked
  BY <1>1, <1>2 DEF Bodies
<1>8. /\ b.own \in Nat /\ b.dflt \in Nat /\ b.length \in Nat /\ b.chunked \in BOOLEAN
      /\ h.left \in Nat /\ g.left \in Nat
  BY <1>1, <1>3 DEF Bodies, Response
<1>9. body' \in Bodies
  <2>1. b.own + size \in Nat /\ b.dflt + size \in Nat
    BY <1>4, <1>8
  <2>2. QED
    BY <1>1, <1>2, <2>1 DEF Bodies
<1>10. BodyFollows'
  BY <1>1, <1>2, <1>3, <1>7 DEF BodyFollows
<1>11. /\ b.own + b.dflt + h.left <= b.length /\ g.left + size <= h.left =>
            body'.own + body'.dflt + g.left <= b.length
       /\ b.own + b.dflt + h.left = b.length /\ g.left + size = h.left =>
            body'.own + body'.dflt + g.left = b.length
  <2>1. body'.own + body'.dflt = b.own + b.dflt + size
    BY <1>4, <1>7, <1>8
  <2>2. body'.own \in Nat /\ body'.dflt \in Nat
    BY <1>4, <1>7, <1>8
  <2>3. QED
    BY <1>4, <1>8, <2>1, <2>2, Balance
<1>12. ASSUME w = "dflt", body.dflt = 0, ~failed, j = n, n = DefaultSize
       PROVE  Complete(body')
  <2>1. CASE b.chunked
    BY <1>7, <2>1 DEF Complete
  <2>2. CASE ~b.chunked
    <3>0. b.own + b.dflt + h.left = b.length
      BY <1>1, <1>12, <2>2, Zenon
    <3>1. /\ g.left + size = h.left /\ (g.left = 0 \/ size = DefaultSize)
          /\ b.own + b.dflt + h.left = b.length /\ b.dflt = 0
          /\ body'.own = b.own /\ body'.dflt = b.dflt + size
      <4>1. g.left + size = h.left /\ (g.left = 0 \/ size = DefaultSize)
        BY <1>1, <1>12, <1>6, <2>2, Zenon
      <4>2. b.dflt = 0
        BY <1>1, <1>12, Zenon
      <4>3. w # "own"
        BY <1>12
      <4>4. QED
        BY <1>7, <3>0, <4>1, <4>2, <4>3, Zenon
    <3>2. CASE g.left = 0
      <4>1. body'.own + body'.dflt = body'.length
        BY <1>4, <1>7, <1>8, <3>1, <3>2
      <4>2. QED
        BY <4>1 DEF Complete
    <3>3. CASE g.left # 0
      <4>1. body'.own + DefaultSize < body'.length
        BY <1>4, <1>7, <1>8, <3>1, <3>3
      <4>2. QED
        BY <4>1 DEF Complete
    <3>4. QED
      BY <3>2, <3>3
  <2>3. QED
    BY <2>1, <2>2
<1>13. ASSUME ~body'.chunked
       PROVE  /\ body'.own + body'.dflt + resp'.left <= body'.length
              /\ ~failed /\ j = n => body'.own + body'.dflt + resp'.left = body'.length
  <2>1. ~b.chunked /\ h.state # "chunk"
    BY <1>1, <1>7, <1>13, Zenon
  <2>2. body'.length = b.length /\ resp'.left = g.left
    BY <1>2, <1>7
  <2>3. body'.own + body'.dflt + g.left <= b.length
    <3>1. b.own + b.dflt + h.left <= b.length /\ g.left + size <= h.left
      BY <1>1, <1>5, <2>1, Zenon
    <3>2. QED
      BY <1>11, <3>1, Zenon
  <2>4. ASSUME ~failed, j = n PROVE body'.own + body'.dflt + g.left = b.length
    <3>1. b.own + b.dflt + h.left = b.length /\ g.left + size = h.left
      BY <1>1, <1>6, <2>1, <2>4, Zenon
    <3>2. QED
      BY <1>11, <3>1, Zenon
  <2>5. QED
    BY <2>2, <2>3, <2>4
<1>14. w = "own" => body'.dflt = body.dflt
  BY <1>1, <1>7
<1>15. QED
  BY <1>2, <1>3, <1>9, <1>10, <1>12, <1>13, <1>14, Zenon

LEMMA WriteOKStep ==
  ASSUME BodyInv, NEW n \in Nat, NEW w \in {"own", "dflt"}, WriteOK(n, w)
  PROVE  /\ resp' \in Response /\ body' \in Bodies /\ failed' = failed /\ BodyFollows' /\ Counted'
         /\ w = "own" => body'.dflt = body.dflt
         /\ w = "dflt" /\ body.dflt = 0 /\ ~failed /\ n = DefaultSize => Complete(body')
<1>1. SendUnits(n, w, n) /\ failed' = failed
  BY DEF WriteOK
<1>2. n \in {0, n}
  OBVIOUS
<1>3. /\ resp' \in Response /\ body' \in Bodies /\ BodyFollows'
      /\ w = "own" => body'.dflt = body.dflt
      /\ resp'.state # "header" /\ ~body'.chunked =>
           LET owed == body'.own + body'.dflt + resp'.left
           IN  /\ owed <= body'.length
               /\ ~failed => owed = body'.length
      /\ w = "dflt" /\ body.dflt = 0 /\ ~failed /\ n = DefaultSize => Complete(body')
  BY <1>1, <1>2, SendUnitsStep
<1>4. Counted'
  BY <1>1, <1>3 DEF Counted, BodySent
<1>5. QED
  BY <1>1, <1>3, <1>4

\* A write that fails has counted the units all the same, and may have sent none.
LEMMA WriteFailsStep ==
  ASSUME BodyInv, NEW n \in Nat, NEW w \in {"own", "dflt"}, NEW timed, WriteFails(n, w, timed)
  PROVE  /\ resp' \in Response /\ body' \in Bodies /\ failed' = TRUE /\ BodyFollows' /\ Counted'
         /\ w = "own" => body'.dflt = body.dflt
<1>1. failed' = TRUE
  BY DEF WriteFails
<1>2. CASE n > 0 /\ SendUnits(n, w, 0)
  <2>1. 0 \in {0, n}
    OBVIOUS
  <2>2. /\ resp' \in Response /\ body' \in Bodies /\ BodyFollows'
        /\ w = "own" => body'.dflt = body.dflt
        /\ resp'.state # "header" /\ ~body'.chunked =>
             body'.own + body'.dflt + resp'.left <= body'.length
    BY <1>2, <2>1, SendUnitsStep
  <2>3. Counted'
    BY <1>1, <2>2 DEF Counted, BodySent
  <2>4. QED
    BY <1>1, <2>2, <2>3
<1>3. CASE /\ resp.state = "header" /\ resp' = Headed(resp, RequestChunked, n)
           /\ body' = NewBody(resp')
  <2>1. resp' = TheHead(n) /\ body' = Begun(n)
    BY <1>3 DEF TheHead, Begun
  <2>2. /\ resp' \in Response /\ body' \in Bodies
        /\ resp'.state # "header" /\ (body'.chunked <=> resp'.state = "chunk")
        /\ resp'.state = "finish" => resp'.left = 0
        /\ body'.dflt = body.dflt
        /\ ~body'.chunked => body'.own + body'.dflt + resp'.left <= body'.length
    BY <2>1, HeadFacts
  <2>3. BodyFollows' /\ Counted'
    BY <1>1, <2>2 DEF BodyFollows, Counted, BodySent
  <2>4. QED
    BY <1>1, <2>2, <2>3
<1>4. QED
  BY <1>2, <1>3 DEF WriteFails

-----------------------------------------------------------------------------
\* Every step keeps the invariant.

LEMMA Basics ==
  ASSUME BodyInv
  PROVE  /\ resp \in Response /\ body \in Bodies /\ failed \in BOOLEAN /\ phase \in Phases
         /\ BodyFollows /\ Counted /\ PageIsLast /\ RoundEnds
  BY DEF BodyInv, BodyTypes

\* A step that writes nothing: the round may end when the response is finished or the
\* default handler has thrown.
LEMMA QuietStep ==
  ASSUME BodyInv, body' = body, phase' \in Phases,
         resp' \in Response, resp'.state = resp.state, resp'.left = resp.left,
         failed' \in BOOLEAN, failed => failed',
         \/ pc' = pc /\ (pc = "next" /\ Abandoned => Abandoned')
         \/ pc' = "closed"
         \/ pc \notin {"next", "closed"} /\ (pc' = "next" => Abandoned' \/ resp.state = "finish")
  PROVE  BodyInv'
<1>1. BodyTypes' /\ BodyFollows'
  BY Basics DEF BodyTypes, BodyFollows
<1>2. Counted'
  BY Basics, Zenon DEF Counted, BodySent
<1>3. body.dflt \in Nat /\ body.own \in Nat /\ body.length \in Nat
  BY Basics DEF Bodies
<1>4. PageIsLast'
  BY Basics DEF PageIsLast
<1>5. RoundEnds'
  <2> SUFFICES ASSUME pc' = "next", ~failed', ~Abandoned' PROVE Complete(body)
    BY DEF RoundEnds
  <2>1. CASE pc = "next"
    BY <2>1, Basics, Zenon DEF RoundEnds
  <2>2. CASE pc # "next"
    <3>1. resp.state = "finish" /\ resp.left = 0 /\ ~failed
      BY <2>2, Basics DEF BodyFollows
    <3>2. ~body.chunked /\ BodySent + resp.left = body.length
      BY <3>1, Basics DEF BodyFollows, Counted
    <3>3. body.own + body.dflt = body.length
      BY <1>3, <3>1, <3>2 DEF BodySent
    <3>4. QED
      BY <3>3 DEF Complete
  <2>3. QED
    BY <2>1, <2>2
<1>6. QED
  BY <1>1, <1>2, <1>4, <1>5 DEF BodyInv

\* The steps that change neither the response nor the body.
LEMMA ReadStep ==
  ASSUME BodyInv, \/ ReadEnds \/ ReadFails \/ \E n \in 1 .. Len(todo) : ReadSome(n)
  PROVE  BodyInv'
<1>1. UNCHANGED <<resp, body, failed, phase>> /\ pc = "read" /\ pc' # "next"
  <2>1. CASE ReadEnds
    BY <2>1 DEF ReadEnds, Goto, wire, app, ghost
  <2>2. CASE ReadFails
    BY <2>2 DEF ReadFails, Goto, wire, app
  <2>3. ASSUME NEW n \in 1 .. Len(todo), ReadSome(n)
        PROVE  UNCHANGED <<resp, body, failed, phase>> /\ pc = "read" /\ pc' # "next"
    <3> DEFINE p == Parse(n)
    <3>1. /\ pc = "read" /\ UNCHANGED <<resp, app, wire, failed>>
          /\ IF p = "error" THEN Goto("closed") ELSE Goto("route")
      BY <2>3, Zenon DEF ReadSome
    <3> HIDE DEF p
    <3>2. QED
      BY <3>1 DEF Goto, wire, app
  <2>4. QED
    BY <2>1, <2>2, <2>3
<1>2. QED
  BY <1>1, Basics, QuietStep

LEMMA RouteStep ==
  ASSUME BodyInv, RouteRefused \/ RouteToHandler \/ RouteAnswered
  PROVE  BodyInv'
<1>1. /\ UNCHANGED <<body, failed, phase>> /\ pc = "route" /\ pc' # "next"
      /\ resp' \in Response /\ resp'.state = resp.state /\ resp'.left = resp.left
  <2>1. CASE RouteRefused
    <3>1. /\ UNCHANGED <<body, failed, phase>> /\ pc = "route" /\ pc' = "body"
          /\ \E s \in {404, 405} : resp' = [resp EXCEPT !.status = s]
      BY <2>1 DEF RouteRefused, Route, SetStatus, Goto, wire, app, ghost
    <3>2. QED
      BY <3>1, Basics DEF Response
  <2>2. CASE RouteToHandler
    BY <2>2, Basics DEF RouteToHandler, Route, Goto, wire, app, ghost
  <2>3. CASE RouteAnswered
    BY <2>3, Basics DEF RouteAnswered, Route, Goto, wire, app, ghost
  <2>4. QED
    BY <2>1, <2>2, <2>3
<1>2. QED
  BY <1>1, Basics, QuietStep

LEMMA ThrowsStep == ASSUME BodyInv, Throws PROVE BodyInv'
<1>1. UNCHANGED <<body, phase, failed, served>> /\ pc \in Phases
  BY DEF Throws, InApp, wire, app
<1>2. CASE ServiceError
  <2>1. /\ resp' = [resp EXCEPT !.status = 500]
        /\ gaveUp' = IF pc = "default" THEN gaveUp \cup {served + 1} ELSE gaveUp
        /\ pc' \in {"next", "body", "closed"} /\ (pc' = "next" => pc = "default")
    BY <1>2 DEF ServiceError, SetStatus, Goto
  <2>2. resp' \in Response /\ resp'.state = resp.state /\ resp'.left = resp.left
    BY <2>1, Basics DEF Response
  <2>3. pc' = "next" => Abandoned'
    BY <1>1, <2>1 DEF Abandoned
  <2>4. pc \notin {"next", "closed"}
    BY <1>1 DEF Phases
  <2>5. QED
    BY <1>1, <2>2, <2>3, <2>4, Basics, QuietStep
<1>3. CASE Goto("body") /\ UNCHANGED resp
  <2>1. pc \notin {"next", "closed"} /\ pc' = "body"
    BY <1>1, <1>3 DEF Phases, Goto
  <2>2. QED
    BY <1>1, <1>3, <2>1, Basics, QuietStep
<1>4. QED
  BY <1>2, <1>3 DEF Throws

LEMMA ReturnsStep == ASSUME BodyInv, Returns \/ Default PROVE BodyInv'
<1>1. /\ UNCHANGED <<resp, body, failed, phase>>
      /\ pc \in {"body", "before", "service", "after", "default"}
      /\ pc' = "next" => resp.state = "finish"
  <2>1. CASE Returns
    BY <2>1 DEF Returns, InApp, Phases, Goto, app, wire, ghost
  <2>2. CASE Default
    BY <2>2 DEF Default, Goto, app, wire, ghost
  <2>3. QED
    BY <2>1, <2>2
<1>2. QED
  BY <1>1, Basics, QuietStep

LEMMA WaitStep ==
  ASSUME BodyInv, \/ Reads \/ BodyMissing \/ PeerLeaves
                  \/ \E n \in 1 .. Len(todo) : BodyArrives(n)
  PROVE  BodyInv'
<1>1. CASE Reads
  <2>1. /\ UNCHANGED <<resp, body, failed>> /\ phase' = pc /\ pc \in Phases
        /\ pc' \in {"reading", pc}
    BY <1>1 DEF Reads, InApp, Goto, wire, ghost
  <2>2. pc \notin {"next", "closed"} /\ pc' # "next"
    BY <2>1 DEF Phases
  <2>3. QED
    BY <2>1, <2>2, Basics, QuietStep
<1>2. CASE BodyMissing
  <2>1. UNCHANGED <<resp, body, failed, phase>> /\ pc = "reading" /\ pc' = phase
    BY <1>2 DEF BodyMissing, Goto, wire, app, ghost
  <2>2. QED
    BY <2>1, Basics, QuietStep DEF Phases
<1>3. CASE PeerLeaves
  <2>1. UNCHANGED <<resp, body, failed, phase, served, gaveUp, pc>>
    BY <1>3 DEF PeerLeaves, wire, app, ghost
  <2>2. QED
    BY <2>1, Basics, QuietStep DEF Abandoned
<1>4. CASE \E n \in 1 .. Len(todo) : BodyArrives(n)
  <2>1. UNCHANGED <<resp, body, failed, phase>> /\ pc = "reading" /\ pc' = phase
    BY <1>4, Zenon DEF BodyArrives, Goto, wire
  <2>2. QED
    BY <2>1, Basics, QuietStep DEF Phases
<1>5. QED
  BY <1>1, <1>2, <1>3, <1>4

LEMMA SetLengthStep ==
  ASSUME BodyInv, NEW n \in 0 .. MaxLength, SetLength(n)
  PROVE  BodyInv'
<1>1. /\ UNCHANGED <<pc, phase, body, failed, served, gaveUp>>
      /\ resp' = [resp EXCEPT !.given = TRUE, !.length = n]
  BY DEF SetLength, wire, ghost
<1>2. resp' \in Response /\ resp'.state = resp.state /\ resp'.left = resp.left
  <2>1. n \in Nat /\ resp \in Response
    BY Basics, ServiceAssumption
  <2>2. QED
    BY <1>1, <2>1 DEF Response
<1>3. QED
  BY <1>1, <1>2, Basics, QuietStep DEF Abandoned

\* The steps that write.
LEMMA OwnStep ==
  ASSUME BodyInv, \/ Answer \/ AnswerFails
                  \/ \E n \in 0 .. MaxWrite : Writes(n) \/ WriteError(n)
  PROVE  BodyInv'
<1>1. /\ phase' = phase /\ pc \notin {"next", "closed"} /\ pc' # "next"
      /\ \E n \in Nat : WriteOK(n, "own") \/ \E t \in BOOLEAN : WriteFails(n, "own", t)
  <2>1. AnswerSize \in Nat
    BY DEF AnswerSize
  <2>2. MaxWrite \in Nat /\ Timeouts \in BOOLEAN
    BY ServiceAssumption
  <2>3. CASE Answer
    BY <2>1, <2>3 DEF Answer, Goto, app
  <2>4. CASE AnswerFails
    BY <2>1, <2>4 DEF AnswerFails, Goto, app
  <2>5. ASSUME NEW n \in 0 .. MaxWrite, Writes(n) \/ WriteError(n)
        PROVE  /\ phase' = phase /\ pc \notin {"next", "closed"} /\ pc' # "next"
               /\ n \in Nat
               /\ WriteOK(n, "own") \/ \E t \in BOOLEAN : WriteFails(n, "own", t)
    BY <2>2, <2>5 DEF Writes, WriteError, InApp, Phases
  <2>6. QED
    BY <2>3, <2>4, <2>5
<1>2. /\ resp' \in Response /\ body' \in Bodies /\ failed' \in BOOLEAN
      /\ BodyFollows' /\ Counted' /\ body'.dflt = body.dflt
  <2>1. PICK n \in Nat : WriteOK(n, "own") \/ \E t \in BOOLEAN : WriteFails(n, "own", t)
    BY <1>1
  <2>2. CASE WriteOK(n, "own")
    BY <2>2, Basics, WriteOKStep
  <2>3. CASE \E t \in BOOLEAN : WriteFails(n, "own", t)
    BY <2>3, WriteFailsStep
  <2>4. QED
    BY <2>1, <2>2, <2>3
<1>3. BodyTypes'
  BY <1>1, <1>2, Basics DEF BodyTypes
<1>4. PageIsLast'
  BY <1>1, <1>2, Basics DEF PageIsLast
<1>5. RoundEnds'
  BY <1>1 DEF RoundEnds
<1>6. QED
  BY <1>2, <1>3, <1>4, <1>5 DEF BodyInv

LEMMA HtmlStep == ASSUME BodyInv, Html \/ HtmlFails PROVE BodyInv'
<1>1. DefaultSize \in Nat /\ phase' = phase /\ pc = "html" /\ pc' \in {"next", "closed"}
  BY ServiceAssumption DEF Html, HtmlFails, Goto, app
<1>2. body.dflt = 0
  BY <1>1, Basics DEF PageIsLast, Bodies
<1>3. /\ resp' \in Response /\ body' \in Bodies /\ failed' \in BOOLEAN
      /\ BodyFollows' /\ Counted' /\ (~failed' => Complete(body'))
  <2>1. CASE Html
    <3>1. WriteOK(DefaultSize, "dflt")
      BY <2>1 DEF Html
    <3>2. QED
      BY <1>1, <1>2, <3>1, Basics, WriteOKStep
  <2>2. CASE HtmlFails
    <3>1. WriteFails(DefaultSize, "dflt", FALSE)
      BY <2>2 DEF HtmlFails
    <3>2. QED
      BY <1>1, <3>1, WriteFailsStep
  <2>3. QED
    BY <2>1, <2>2
<1>4. BodyTypes' /\ PageIsLast' /\ RoundEnds'
  BY <1>1, <1>3, Basics DEF BodyTypes, PageIsLast, RoundEnds
<1>5. QED
  BY <1>3, <1>4 DEF BodyInv

LEMMA Fresh ==
  ASSUME resp = NewResponse, body = NoBody, failed \in BOOLEAN, phase \in Phases, pc # "next"
  PROVE  BodyInv
<1>1. NewResponse \in Response /\ NewResponse.state = "header"
  BY DEF NewResponse, Response, ProState
<1>2. NoBody \in Bodies /\ NoBody.dflt = 0
  BY DEF NoBody, Bodies
<1>3. BodyTypes
  BY <1>1, <1>2 DEF BodyTypes
<1>4. BodyFollows /\ Counted /\ PageIsLast /\ RoundEnds
  BY <1>1, <1>2 DEF BodyFollows, Counted, PageIsLast, RoundEnds
<1>5. QED
  BY <1>3, <1>4 DEF BodyInv

LEMMA EndOfRoundStep == ASSUME BodyInv, EndOfRound PROVE BodyInv'
<1>1. /\ resp' = NewResponse /\ body' = NoBody /\ failed' = failed /\ phase' = "service"
      /\ pc' \in {"read", "closed"}
  BY DEF EndOfRound, Goto
<1>2. NewResponse \in Response /\ NewResponse.state = "header"
  BY DEF NewResponse, Response, ProState
<1>3. NoBody \in Bodies /\ NoBody.dflt = 0
  BY DEF NoBody, Bodies
<1>4. BodyTypes'
  BY <1>1, <1>2, <1>3, Basics DEF BodyTypes, Phases
<1>5. BodyFollows' /\ Counted' /\ PageIsLast' /\ RoundEnds'
  BY <1>1, <1>2, <1>3 DEF BodyFollows, Counted, PageIsLast, RoundEnds
<1>6. QED
  BY <1>4, <1>5 DEF BodyInv

-----------------------------------------------------------------------------
LEMMA BodyInductive == Spec => []BodyInv
<1>1. Init => BodyInv
  BY Fresh DEF Init, Phases
<1>2. BodyInv /\ [Next]_vars => BodyInv'
  <2> SUFFICES ASSUME BodyInv, [Next]_vars PROVE BodyInv'
    OBVIOUS
  <2>1. CASE ReadEnds \/ ReadFails \/ \E n \in 1 .. Len(todo) : ReadSome(n)
    BY <2>1, ReadStep
  <2>2. CASE RouteRefused \/ RouteToHandler \/ RouteAnswered
    BY <2>2, RouteStep
  <2>3. CASE Throws
    BY <2>3, ThrowsStep
  <2>4. CASE Returns \/ Default
    BY <2>4, ReturnsStep
  <2>5. CASE \/ Reads \/ BodyMissing \/ PeerLeaves
             \/ \E n \in 1 .. Len(todo) : BodyArrives(n)
    BY <2>5, WaitStep
  <2>6. CASE \E n \in 0 .. MaxLength : SetLength(n)
    BY <2>6, SetLengthStep
  <2>7. CASE \/ Answer \/ AnswerFails
             \/ \E n \in 0 .. MaxWrite : Writes(n) \/ WriteError(n)
    BY <2>7, OwnStep
  <2>8. CASE Html \/ HtmlFails
    BY <2>8, HtmlStep
  <2>9. CASE EndOfRound
    BY <2>9, EndOfRoundStep
  <2>10. CASE UNCHANGED vars
    BY <2>10, Basics, QuietStep DEF vars, app, wire, ghost, Abandoned
  <2>11. QED
    BY <2>1, <2>2, <2>3, <2>4, <2>5, <2>6, <2>7, <2>8, <2>9, <2>10
       DEF Next, Service, Client
<1>3. QED
  BY <1>1, <1>2, PTL DEF Spec

\* helper_base::body_data(): the application and the default page together never send more
\* than the Content-Length that went out, whatever is written, in which pieces, and whichever
\* of the writes fail.
THEOREM BodyNeverTooLong == Spec => []BodyFits
<1>1. BodyInv => BodyFits
  <2> SUFFICES ASSUME BodyInv, ~body.chunked PROVE body.own + body.dflt <= body.length
    BY DEF BodyFits
  <2>1. /\ body.own \in Nat /\ body.dflt \in Nat /\ body.length \in Nat /\ resp.left \in Nat
    BY Basics DEF Bodies, Response
  <2>2. CASE resp.state = "header"
    BY <2>2, Basics DEF BodyFollows, NoBody
  <2>3. CASE resp.state # "header"
    <3>1. body.own + body.dflt + resp.left <= body.length
      BY <2>3, Basics DEF Counted, BodySent
    <3>2. QED
      BY <2>1, <3>1
  <2>4. QED
    BY <2>2, <2>3
<1>2. QED
  BY <1>1, BodyInductive, PTL

\* do_tcp_service(): when the connection is to be read again, no write failed and the default
\* handler did not throw in this round, its answer was sent to its end, or was chunked, or
\* announces more than it and the default page supply.
THEOREM RoundEndsComplete == Spec => []AnswerComplete
<1>1. BodyInv => AnswerComplete
  BY Basics DEF RoundEnds, AnswerComplete
<1>2. QED
  BY <1>1, BodyInductive, PTL

-----------------------------------------------------------------------------
\* A set of naturals has a least member, and induction follows.
LEMMA Least ==
  ASSUME NEW T, T \subseteq Nat, T # {}
  PROVE  \E x \in T : \A y \in T : x <= y
<1> DEFINE R == OpToRel(<, Nat)
<1>1. IsWellFoundedOn(R, Nat)
  BY NatLessThanWellFounded, Zenon
<1>2. \A x, y \in Nat : <<y, x>> \in R <=> y < x
  BY Zenon DEF OpToRel
<1> HIDE DEF R
<1>3. PICK x \in T : \A y \in T : ~ (<<y, x>> \in R)
  BY <1>1, WFMin
<1>4. \A y \in T : ~(y < x)
  BY <1>2, <1>3
<1>5. \A y \in T : x \in Nat /\ y \in Nat
  OBVIOUS
<1>6. QED
  BY <1>4, <1>5

LEMMA SetInduction ==
  ASSUME NEW S, 0 \in S, \A n \in Nat : n \in S => n + 1 \in S
  PROVE  Nat \subseteq S
<1> SUFFICES ASSUME Nat \ S # {} PROVE FALSE
  OBVIOUS
<1>1. PICK x \in Nat \ S : \A y \in Nat \ S : x <= y
  BY Least
<1>2. x # 0
  OBVIOUS
<1>3. x - 1 \in Nat /\ ~(x <= x - 1) /\ (x - 1) + 1 = x
  BY <1>2
<1>4. x - 1 \in S
  BY <1>1, <1>3
<1>5. x \in S
  BY <1>3, <1>4
<1>6. QED
  BY <1>5

-----------------------------------------------------------------------------
\* The units the client sends.

\* Those of one request.
PartOf(s, i) ==
  <<<<i, "pre">>, <<i, "line">>, <<i, "head">>>>
    \o (IF s[i].body THEN <<<<i, "body">>>> ELSE << >>)

\* What is left of a stream continues where the part that was read ends.
LEMMA ContinuesRest ==
  ASSUME NEW t \in Seq(Units), NEW u, Continues(t, u), NEW n \in 1 .. Len(t)
  PROVE  /\ SubSeq(t, n + 1, Len(t)) \in Seq(Units)
         /\ Continues(SubSeq(t, n + 1, Len(t)), NextUnit(t[n]))
<1> DEFINE r == SubSeq(t, n + 1, Len(t))
<1>1. r \in Seq(Units) /\ Len(r) = Len(t) - n /\ \A i \in 1 .. Len(r) : r[i] = t[i + n]
  OBVIOUS
<1> HIDE DEF r
<1>2. \A i \in 1 .. Len(t) - 1 : t[i + 1] = NextUnit(t[i])
  BY DEF Continues
<1>3. ASSUME r # << >> PROVE r[1] = NextUnit(t[n])
  <2>1. 1 \in 1 .. Len(r)
    BY <1>1, <1>3
  <2>2. n \in 1 .. Len(t) - 1 /\ 1 + n = n + 1
    BY <1>1, <2>1
  <2>3. QED
    BY <1>1, <1>2, <2>1, <2>2
<1>4. ASSUME NEW i \in 1 .. Len(r) - 1 PROVE r[i + 1] = NextUnit(r[i])
  <2>1. i \in 1 .. Len(r) /\ i + 1 \in 1 .. Len(r) /\ i + n \in 1 .. Len(t) - 1
        /\ (i + 1) + n = (i + n) + 1
    BY <1>1, <1>4
  <2>2. QED
    BY <1>1, <1>2, <2>1
<1>5. QED
  BY <1>1, <1>3, <1>4 DEF Continues, r

\* A stream goes on with another that begins where it ends.
LEMMA ContinuesConcat ==
  ASSUME NEW t \in Seq(Units), NEW u, t # << >>, Continues(t, u),
         NEW v \in Seq(Units), v # << >>, Continues(v, NextUnit(t[Len(t)]))
  PROVE  /\ t \o v \in Seq(Units) /\ t \o v # << >>
         /\ Continues(t \o v, u)
         /\ (t \o v)[Len(t \o v)] = v[Len(v)]
<1> DEFINE r == t \o v
<1>1. /\ r \in Seq(Units) /\ Len(r) = Len(t) + Len(v)
      /\ Len(t) \in Nat \ {0} /\ Len(v) \in Nat \ {0}
      /\ \A i \in 1 .. Len(r) : r[i] = IF i <= Len(t) THEN t[i] ELSE v[i - Len(t)]
  OBVIOUS
<1> HIDE DEF r
<1>2. /\ t[1] = u /\ \A i \in 1 .. Len(t) - 1 : t[i + 1] = NextUnit(t[i])
      /\ v[1] = NextUnit(t[Len(t)]) /\ \A i \in 1 .. Len(v) - 1 : v[i + 1] = NextUnit(v[i])
  BY DEF Continues
<1>3. r[1] = u /\ r # << >>
  <2>1. 1 \in 1 .. Len(r) /\ 1 <= Len(t)
    BY <1>1
  <2>2. QED
    BY <1>1, <1>2, <2>1
<1>4. ASSUME NEW i \in 1 .. Len(r) - 1 PROVE r[i + 1] = NextUnit(r[i])
  <2>1. i \in 1 .. Len(r) /\ i + 1 \in 1 .. Len(r)
    BY <1>1, <1>4
  <2>2. CASE i < Len(t)
    <3>1. i \in 1 .. Len(t) - 1 /\ i <= Len(t) /\ i + 1 <= Len(t)
      BY <1>1, <2>2
    <3>2. QED
      BY <1>1, <1>2, <2>1, <3>1
  <2>3. CASE i = Len(t)
    <3>1. i <= Len(t) /\ ~(i + 1 <= Len(t)) /\ (i + 1) - Len(t) = 1
      BY <1>1, <2>3
    <3>2. QED
      BY <1>1, <1>2, <2>1, <2>3, <3>1
  <2>4. CASE i > Len(t)
    <3>1. /\ ~(i <= Len(t)) /\ ~(i + 1 <= Len(t)) /\ i - Len(t) \in 1 .. Len(v) - 1
          /\ (i + 1) - Len(t) = (i - Len(t)) + 1
      BY <1>1, <1>4, <2>4
    <3>2. QED
      BY <1>1, <1>2, <2>1, <3>1
  <2>5. QED
    BY <1>1, <2>2, <2>3, <2>4
<1>5. r[Len(r)] = v[Len(v)]
  <2>1. Len(r) \in 1 .. Len(r) /\ ~(Len(r) <= Len(t)) /\ Len(r) - Len(t) = Len(v)
    BY <1>1
  <2>2. QED
    BY <1>1, <2>1
<1>6. QED
  BY <1>1, <1>3, <1>4, <1>5 DEF Continues, r

\* The members of two sequences joined.
LEMMA ConcatFacts ==
  ASSUME NEW U, NEW q \in Seq(U), NEW b \in Seq(U), NEW p, p = q \o b
  PROVE  /\ p \in Seq(U) /\ Len(p) = Len(q) + Len(b)
         /\ \A j \in 1 .. Len(p) : p[j] = IF j <= Len(q) THEN q[j] ELSE b[j - Len(q)]
  OBVIOUS

\* One request is a stream, and the next one follows it.
LEMMA PartContinues ==
  ASSUME NEW i \in Nat, NEW p, p = PartOf(script, i)
  PROVE  /\ p \in Seq(Units) /\ p # << >>
         /\ Continues(p, <<i, "pre">>)
         /\ NextUnit(p[Len(p)]) = <<i + 1, "pre">>
<1> DEFINE q == <<<<i, "pre">>, <<i, "line">>, <<i, "head">>>>
<1>0. <<i, "pre">> \in Units /\ <<i, "line">> \in Units
      /\ <<i, "head">> \in Units /\ <<i, "body">> \in Units
  BY DEF Units
<1>q. q \in Seq(Units) /\ Len(q) = 3 /\ q[1] = <<i, "pre">> /\ q[2] = <<i, "line">>
      /\ q[3] = <<i, "head">>
  BY <1>0
<1> HIDE DEF q
<1>1. CASE script[i].body
  <2> DEFINE b == <<<<i, "body">>>>
  <2>b. b \in Seq(Units) /\ Len(b) = 1 /\ b[1] = <<i, "body">>
    BY <1>0
  <2>1. p = q \o b
    BY <1>1 DEF PartOf, q
  <2> HIDE DEF b
  <2>2. /\ p \in Seq(Units) /\ Len(p) = 4 /\ p[1] = <<i, "pre">> /\ p[2] = <<i, "line">>
        /\ p[3] = <<i, "head">> /\ p[4] = <<i, "body">>
    <3>1. /\ p \in Seq(Units) /\ Len(p) = Len(q) + Len(b)
          /\ \A j \in 1 .. Len(p) : p[j] = IF j <= Len(q) THEN q[j] ELSE b[j - Len(q)]
      <4>1. q \in Seq(Units) /\ b \in Seq(Units)
        BY <1>q, <2>b
      <4>2. QED
        BY <2>1, <4>1, ConcatFacts
    <3>2. Len(p) = 4 /\ Len(q) = 3 /\ 1 \in 1 .. 4 /\ 2 \in 1 .. 4 /\ 3 \in 1 .. 4 /\ 4 \in 1 .. 4
          /\ 4 - 3 = 1
      BY <1>q, <2>b, <3>1
    <3>3. QED
      BY <1>q, <2>b, <3>1, <3>2
  <2>3. /\ NextUnit(p[1]) = p[2] /\ NextUnit(p[2]) = p[3] /\ NextUnit(p[3]) = p[4]
        /\ NextUnit(p[4]) = <<i + 1, "pre">>
    BY <1>1, <2>2 DEF NextUnit
  <2>4. \A j \in 1 .. Len(p) - 1 : j = 1 \/ j = 2 \/ j = 3
    BY <2>2
  <2>5. Continues(p, <<i, "pre">>)
    <3>1. ASSUME NEW j \in 1 .. Len(p) - 1 PROVE p[j + 1] = NextUnit(p[j])
      <4>1. p[1 + 1] = NextUnit(p[1]) /\ p[2 + 1] = NextUnit(p[2]) /\ p[3 + 1] = NextUnit(p[3])
        BY <2>3
      <4>2. QED
        BY <2>4, <4>1
    <3>2. QED
      BY <2>2, <3>1 DEF Continues
  <2>6. QED
    BY <2>2, <2>3, <2>5
<1>2. CASE ~script[i].body
  <2>1. p = q \o << >>
    BY <1>2 DEF PartOf, q
  <2>2. /\ p \in Seq(Units) /\ Len(p) = 3 /\ p[1] = <<i, "pre">> /\ p[2] = <<i, "line">>
        /\ p[3] = <<i, "head">>
    BY <1>q, <2>1
  <2>3. /\ NextUnit(p[1]) = p[2] /\ NextUnit(p[2]) = p[3]
        /\ NextUnit(p[3]) = <<i + 1, "pre">>
    BY <1>2, <2>2 DEF NextUnit
  <2>4. \A j \in 1 .. Len(p) - 1 : j = 1 \/ j = 2
    BY <2>2
  <2>5. Continues(p, <<i, "pre">>)
    <3>1. ASSUME NEW j \in 1 .. Len(p) - 1 PROVE p[j + 1] = NextUnit(p[j])
      <4>1. p[1 + 1] = NextUnit(p[1]) /\ p[2 + 1] = NextUnit(p[2])
        BY <2>3
      <4>2. QED
        BY <2>4, <4>1
    <3>2. QED
      BY <2>2, <3>1 DEF Continues
  <2>6. QED
    BY <2>2, <2>3, <2>5
<1>3. QED
  BY <1>1, <1>2

\* What the recursive definition in FlattenSeq says of its function, up to n.
Joins(f, q, n) == f = [i \in 1 .. n |-> IF i = 1 THEN q[i] ELSE f[i - 1] \o q[i]]

\* By induction on n, there is such a function.
LEMMA JoinsExists ==
  ASSUME NEW q, NEW n \in Nat
  PROVE  \E f : Joins(f, q, n)
<1> DEFINE S == {k \in Nat : \E f : Joins(f, q, k)}
<1>1. 0 \in S
  <2>1. Joins([i \in 1 .. 0 |-> 0], q, 0)
    BY DEF Joins
  <2>2. QED
    BY <2>1
<1>2. ASSUME NEW k \in Nat, k \in S PROVE k + 1 \in S
  <2>1. PICK f : Joins(f, q, k)
    BY <1>2
  <2> DEFINE g == [i \in 1 .. k + 1 |-> IF i = 1 THEN q[i] ELSE f[i - 1] \o q[i]]
  <2>2. ASSUME NEW i \in 1 .. k PROVE g[i] = f[i]
    <3>1. f[i] = IF i = 1 THEN q[i] ELSE f[i - 1] \o q[i]
      BY <2>1, Zenon DEF Joins
    <3>2. i \in 1 .. k + 1
      OBVIOUS
    <3>3. QED
      BY <3>1, <3>2
  <2>3. \A i \in 1 .. k + 1 : i = 1 \/ (i - 1 \in 1 .. k)
    OBVIOUS
  <2>4. Joins(g, q, k + 1)
    BY <2>2, <2>3 DEF Joins
  <2>5. QED
    BY <2>4
<1> HIDE DEF S
<1>3. Nat \subseteq S
  BY <1>1, <1>2, SetInduction
<1>4. QED
  BY <1>3 DEF S

LEMMA FlattenJoins ==
  ASSUME NEW q, Len(q) \in Nat \ {0}
  PROVE  \E f : Joins(f, q, Len(q)) /\ FlattenSeq(q) = f[Len(q)]
<1> DEFINE f == CHOOSE f : Joins(f, q, Len(q))
<1>1. FlattenSeq(q) = f[Len(q)]
  BY DEF FlattenSeq, Joins
<1>2. Joins(f, q, Len(q))
  BY JoinsExists
<1>3. QED
  BY <1>1, <1>2

\* By induction on the requests, the units of the first ones end where the next begins.
LEMMA UnitsContinue ==
  ASSUME Len(script) \in Nat
  PROVE  UnitsOf(script) \in Seq(Units) /\ Continues(UnitsOf(script), <<1, "pre">>)
<1> DEFINE N == Len(script)
           seqs == [i \in 1 .. N |-> PartOf(script, i)]
           Good(i, t) == /\ t \in Seq(Units) /\ t # << >> /\ Continues(t, <<1, "pre">>)
                         /\ NextUnit(t[Len(t)]) = <<i + 1, "pre">>
<1>1. UnitsOf(script) = FlattenSeq(seqs)
  BY DEF UnitsOf, PartOf
<1>2. Len(seqs) = N /\ \A i \in 1 .. N : seqs[i] = PartOf(script, i)
  OBVIOUS
<1>3. N = 0 => seqs = << >>
  OBVIOUS
<1> HIDE DEF seqs
<1>4. CASE N = 0
  <2>1. UnitsOf(script) = << >>
    BY <1>1, <1>2, <1>3, <1>4 DEF FlattenSeq
  <2>2. QED
    BY <2>1 DEF Continues
<1>5. CASE N # 0
  <2>1. PICK f : Joins(f, seqs, N) /\ FlattenSeq(seqs) = f[N]
    BY <1>2, <1>5, FlattenJoins
  <2> DEFINE S == {n \in Nat : n + 1 <= N => Good(n + 1, f[n + 1])}
  <2>2. 0 \in S
    <3>1. 0 + 1 = 1 /\ f[1] = PartOf(script, 1)
      BY <1>2, <1>5, <2>1 DEF Joins
    <3>2. Good(1, f[1])
      BY <3>1, PartContinues
    <3>3. QED
      BY <3>1, <3>2
  <2>3. ASSUME NEW n \in Nat, n \in S PROVE n + 1 \in S
    <3> SUFFICES ASSUME (n + 1) + 1 <= N PROVE Good((n + 1) + 1, f[(n + 1) + 1])
      OBVIOUS
    <3> DEFINE k == (n + 1) + 1
               p == PartOf(script, k)
    <3>1. n + 1 \in Nat /\ k \in Nat /\ n + 1 <= N /\ k \in 1 .. N /\ k # 1 /\ k - 1 = n + 1
      OBVIOUS
    <3>2. Good(n + 1, f[n + 1])
      BY <2>3, <3>1
    <3> HIDE DEF Good
    <3>3. f[k] = f[n + 1] \o p
      BY <1>2, <2>1, <3>1 DEF Joins
    <3> HIDE DEF p
    <3>4. /\ p \in Seq(Units) /\ p # << >>
          /\ Continues(p, <<k, "pre">>)
          /\ NextUnit(p[Len(p)]) = <<k + 1, "pre">>
      BY <3>1, PartContinues DEF p
    <3> HIDE DEF k
    <3>5. Good(k, f[k])
      <4>1. /\ f[n + 1] \in Seq(Units) /\ f[n + 1] # << >> /\ Continues(f[n + 1], <<1, "pre">>)
            /\ NextUnit(f[n + 1][Len(f[n + 1])]) = <<k, "pre">>
        BY <3>2 DEF Good, k
      <4>2. /\ f[k] \in Seq(Units) /\ f[k] # << >> /\ Continues(f[k], <<1, "pre">>)
            /\ f[k][Len(f[k])] = p[Len(p)]
        BY <3>3, <3>4, <4>1, ContinuesConcat
      <4>3. QED
        BY <3>4, <4>2 DEF Good
    <3>6. QED
      BY <3>5 DEF k
  <2> HIDE DEF S
  <2>4. Nat \subseteq S
    BY <2>2, <2>3, SetInduction
  <2>5. N - 1 \in S /\ (N - 1) + 1 = N
    BY <1>5, <2>4
  <2>6. Good(N, f[N])
    BY <2>5 DEF S
  <2>7. QED
    BY <1>1, <2>1, <2>6
<1>6. QED
  BY <1>4, <1>5

-----------------------------------------------------------------------------
\* What the parser makes of them.

\* The first four values of the recursive definition.
LEMMA ParseUnroll ==
  ASSUME NEW n \in 1 .. 4
  PROVE  LET s1 == Step(parsed, todo[1])
             s2 == Step(s1, todo[2])
             s3 == Step(s2, todo[3])
             s4 == Step(s3, todo[4])
         IN  Parse(n) = IF n = 1 THEN s1 ELSE IF n = 2 THEN s2 ELSE IF n = 3 THEN s3 ELSE s4
<1> DEFINE s1 == Step(parsed, todo[1])
           s2 == Step(s1, todo[2])
           s3 == Step(s2, todo[3])
           s4 == Step(s3, todo[4])
           Runs(f) == f = [i \in 0 .. n |-> IF i = 0 THEN parsed ELSE Step(f[i - 1], todo[i])]
           g == [i \in 0 .. n |-> IF i = 0 THEN parsed ELSE IF i = 1 THEN s1 ELSE
                                  IF i = 2 THEN s2 ELSE IF i = 3 THEN s3 ELSE s4]
           p == CHOOSE f : Runs(f)
<1>1. Parse(n) = p[n]
  BY DEF Parse
<1>2. Runs(g)
  <2> HIDE DEF s1, s2, s3, s4
  <2>1. ASSUME NEW i \in 0 .. n
        PROVE  g[i] = IF i = 0 THEN parsed ELSE Step(g[i - 1], todo[i])
    <3>1. CASE i = 0
      BY <3>1
    <3>2. CASE i = 1
      <4>1. 0 \in 0 .. n /\ 1 \in 0 .. n /\ i - 1 = 0
        BY <3>2
      <4>2. QED
        BY <3>2, <4>1 DEF s1
    <3>3. CASE i = 2
      <4>1. 1 \in 0 .. n /\ 2 \in 0 .. n /\ i - 1 = 1
        BY <3>3
      <4>2. QED
        BY <3>3, <4>1 DEF s2
    <3>4. CASE i = 3
      <4>1. 2 \in 0 .. n /\ 3 \in 0 .. n /\ i - 1 = 2
        BY <3>4
      <4>2. QED
        BY <3>4, <4>1 DEF s3
    <3>5. CASE i = 4
      <4>1. 3 \in 0 .. n /\ 4 \in 0 .. n /\ i - 1 = 3
        BY <3>5
      <4>2. QED
        BY <3>5, <4>1 DEF s4
    <3>6. QED
      BY <3>1, <3>2, <3>3, <3>4, <3>5
  <2>2. QED
    BY <2>1, Zenon
<1> HIDE DEF g
<1>3. Runs(p)
  BY <1>2
<1> HIDE DEF p
<1>4. /\ p[0] = parsed
      /\ \A i \in 1 .. n : p[i] = Step(p[i - 1], todo[i])
  BY <1>3
<1>5. /\ p[1] = s1 
      /\ n > 1 => p[2] = s2
      /\ n > 2 => p[3] = s3
      /\ n > 3 => p[4] = s4
  <2>0. /\ 1 \in 1 .. n /\ (n > 1 => 2 \in 1 .. n)
        /\ (n > 2 => 3 \in 1 .. n) /\ (n > 3 => 4 \in 1 .. n)
        /\ 1 - 1 = 0 /\ 2 - 1 = 1 /\ 3 - 1 = 2 /\ 4 - 1 = 3
        /\ (n > 3 => n > 2) /\ (n > 2 => n > 1)
    OBVIOUS
  <2>1. p[1] = s1
    BY <1>4, <2>0
  <2>2. n > 1 => p[2] = s2
    BY <1>4, <2>0, <2>1
  <2>3. n > 2 => p[3] = s3
    BY <1>4, <2>0, <2>2
  <2>4. n > 3 => p[4] = s4
    BY <1>4, <2>0, <2>3
  <2>5. QED
    BY <2>1, <2>2, <2>3, <2>4
<1> HIDE DEF s1, s2, s3, s4
<1>6. n = 1 \/ n = 2 \/ n = 3 \/ n = 4
  OBVIOUS
<1>7. Parse(n) = IF n = 1 THEN s1 ELSE IF n = 2 THEN s2 ELSE IF n = 3 THEN s3 ELSE s4
  BY <1>1, <1>5, <1>6
<1>8. QED
  BY <1>7 DEF s1, s2, s3, s4

\* A read that begins with a request and does not go beyond it.
LEMMA ReadWithin ==
  ASSUME NEW k \in Nat, todo \in Seq(Units), Continues(todo, <<k, "pre">>), parsed = "nothing",
         NEW n \in 1 .. Len(todo), ~Overrun(n)
  PROVE  /\ Parse(n) \in {"pre", "line", "head", "whole"}
         /\ todo[1][1] = k
         /\ Parse(n) = "head" => NextUnit(todo[n]) = <<k, "body">>
         /\ Parse(n) = "whole" => NextUnit(todo[n]) = <<k + 1, "pre">>
<1>1. /\ Len(todo) \in Nat /\ n \in Nat /\ 1 <= n /\ n <= Len(todo)
  OBVIOUS
<1>2. todo[1] = <<k, "pre">> /\ \A i \in 1 .. Len(todo) - 1 : todo[i + 1] = NextUnit(todo[i])
  BY DEF Continues
<1>0. /\ NextUnit(<<k, "pre">>) = <<k, "line">>
      /\ NextUnit(<<k, "line">>) = <<k, "head">>
      /\ NextUnit(<<k, "head">>) = IF script[k].body THEN <<k, "body">> ELSE <<k + 1, "pre">>
      /\ NextUnit(<<k, "body">>) = <<k + 1, "pre">>
  BY DEF NextUnit
<1>3. \A i \in 1 .. n : todo[i][1] = k
  BY <1>2 DEF Overrun
<1>4. n > 1 => todo[2] = <<k, "line">>
  <2>1. n > 1 => 1 \in 1 .. Len(todo) - 1 /\ 1 + 1 = 2
    BY <1>1
  <2>2. QED
    BY <1>0, <1>2, <2>1
<1>5. n > 2 => todo[3] = <<k, "head">>
  <2>1. n > 2 => n > 1 /\ 2 \in 1 .. Len(todo) - 1 /\ 2 + 1 = 3
    BY <1>1
  <2>2. QED
    BY <1>0, <1>2, <1>4, <2>1
<1>6. n > 3 => script[k].body /\ todo[4] = <<k, "body">>
  <2>1. n > 3 => n > 2 /\ 3 \in 1 .. Len(todo) - 1 /\ 3 + 1 = 4 /\ 4 \in 1 .. n /\ k + 1 # k
    BY <1>1
  <2>2. n > 3 => todo[4] = NextUnit(<<k, "head">>)
    BY <1>2, <1>5, <2>1
  <2>3. n > 3 => script[k].body
    BY <1>0, <1>3, <2>1, <2>2
  <2>4. QED
    BY <1>0, <2>2, <2>3
<1>7. n <= 4
  <2>1. ~(n <= 4) => n > 3 /\ 4 \in 1 .. Len(todo) - 1 /\ 4 + 1 = 5 /\ 5 \in 1 .. n /\ k + 1 # k
    BY <1>1
  <2>2. ~(n <= 4) => todo[5] = <<k + 1, "pre">>
    BY <1>0, <1>2, <1>6, <2>1
  <2>3. QED
    BY <1>3, <2>1, <2>2
<1>8. Step("nothing", <<k, "pre">>) = "pre" /\ Step("pre", <<k, "line">>) = "line"
      /\ Step("line", <<k, "head">>) = (IF script[k].body THEN "head" ELSE "whole")
      /\ Step("head", <<k, "body">>) = "whole"
  BY DEF Step
<1>9. /\ Parse(n) = IF n = 1 THEN "pre" ELSE IF n = 2 THEN "line" ELSE
                    IF n = 3 THEN IF script[k].body THEN "head" ELSE "whole" ELSE "whole"
      /\ todo[n] = IF n = 1 THEN <<k, "pre">> ELSE IF n = 2 THEN <<k, "line">> ELSE
                   IF n = 3 THEN <<k, "head">> ELSE <<k, "body">>
  <2>0. n \in 1 .. 4
    BY <1>1, <1>7
  <2>1. CASE n = 1
    <3>1. Parse(n) = Step(parsed, todo[1])
      BY <2>0, <2>1, ParseUnroll
    <3>2. QED
      BY <1>2, <1>8, <2>1, <3>1
  <2>2. CASE n = 2
    <3>1. Parse(n) = Step(Step(parsed, todo[1]), todo[2])
      BY <2>0, <2>2, ParseUnroll
    <3>2. todo[2] = <<k, "line">>
      BY <1>4, <2>2
    <3>3. Parse(n) = "line"
      BY <1>2, <1>8, <3>1, <3>2
    <3>4. QED
      BY <2>2, <3>2, <3>3
  <2>3. CASE n = 3
    <3>1. Parse(n) = Step(Step(Step(parsed, todo[1]), todo[2]), todo[3])
      BY <2>0, <2>3, ParseUnroll
    <3>2. todo[2] = <<k, "line">> /\ todo[3] = <<k, "head">>
      BY <1>4, <1>5, <2>3
    <3>3. Parse(n) = IF script[k].body THEN "head" ELSE "whole"
      BY <1>2, <1>8, <3>1, <3>2
    <3>4. QED
      BY <2>3, <3>2, <3>3
  <2>4. CASE n = 4
    <3>1. Parse(n) = Step(Step(Step(Step(parsed, todo[1]), todo[2]), todo[3]), todo[4])
      BY <2>0, <2>4, ParseUnroll
    <3>2. /\ todo[2] = <<k, "line">> /\ todo[3] = <<k, "head">> /\ todo[4] = <<k, "body">>
          /\ script[k].body
      BY <1>4, <1>5, <1>6, <2>4
    <3>3. Parse(n) = "whole"
      BY <1>2, <1>8, <3>1, <3>2
    <3>4. QED
      BY <2>4, <3>2, <3>3
  <2>5. QED
    BY <2>0, <2>1, <2>2, <2>3, <2>4
<1>11. n = 1 \/ n = 2 \/ n = 3 \/ n = 4
  BY <1>1, <1>7
<1>12. todo[1][1] = k
  BY <1>2
<1>13. QED
  BY <1>0, <1>9, <1>11, <1>12

\* A body that arrives alone.
LEMMA BodyWithin ==
  ASSUME todo \in Seq(Units), cur \in Nat, Continues(todo, <<cur, "body">>), parsed = "head",
         NEW n \in 1 .. Len(todo), ~Overrun(n)
  PROVE  Parse(n) = "whole" /\ NextUnit(todo[n]) = <<cur + 1, "pre">>
<1>1. todo[1] = <<cur, "body">> /\ \A i \in 1 .. Len(todo) - 1 : todo[i + 1] = NextUnit(todo[i])
  BY DEF Continues
<1>2. NextUnit(<<cur, "body">>) = <<cur + 1, "pre">>
  BY DEF NextUnit
<1>3. n = 1
  <2>1. n # 1 => 1 \in 1 .. Len(todo) - 1 /\ 1 + 1 = 2 /\ 2 \in 1 .. n /\ cur + 1 # cur
    OBVIOUS
  <2>2. n # 1 => todo[2] = <<cur + 1, "pre">>
    BY <1>1, <1>2, <2>1
  <2>3. QED
    BY <1>1, <2>1, <2>2 DEF Overrun
<1>4. Parse(n) = Step("head", <<cur, "body">>)
  <2>1. n \in 1 .. 4
    BY <1>3
  <2>2. QED
    BY <1>1, <1>3, <2>1, ParseUnroll
<1>5. QED
  BY <1>1, <1>2, <1>3, <1>4 DEF Step

-----------------------------------------------------------------------------
\* Every step keeps the order of the answers.

LEMMA ContinuesNext ==
  ASSUME script' = script, NEW CONSTANT t, NEW CONSTANT u, Continues(t, u), todo' = t
  PROVE  Continues(todo, u)'
  BY DEF Continues, NextUnit

\* The connection is closed.
LEMMA ClosedFollows ==
  ASSUME pc' = "closed", resp'.state = "header"
  PROVE  StreamFollows' /\ RoundOfNext'
<1>1. ~InRound' /\ ~Handling' /\ pc' \notin {"next", "read", "route", "reading"}
  BY DEF InRound, Handling, Phases
<1>2. QED
  BY <1>1 DEF StreamFollows, RoundOfNext

\* An answer that has been sent stays; one to come has the status the response has.
LEMMA ThisAnswerKept ==
  ASSUME UNCHANGED <<script, out, served>>, resp'.state = resp.state, resp.state # "header"
  PROVE  /\ ThisAnswer' = ThisAnswer
         /\ Expected(ThisAnswer)' = Expected(ThisAnswer)
  BY DEF ThisAnswer, Expected

StatusRight == resp.status = Expected(ThisAnswer)

\* A step within a round that puts no answer on the wire: where it leads and the status
\* it leaves behind are right.
LEMMA WithinRound ==
  ASSUME BodyInv, OrderInv, InRound,
         UNCHANGED <<todo, parsed, cur, out, script, served>>,
         threw' \in BOOLEAN, resp'.state = resp.state,
         Undisturbed' =>
           /\ Undisturbed
           /\ pc' \notin {"read", "route", "closed"}
           /\ pc' = "next" => resp.state # "header"
           /\ pc' = "reading" => parsed = "head"
           /\ Handling' /\ parsed # "pre" => Req.route = "handler"
           /\ parsed # "pre" /\ resp.state = "header" => StatusRight'
  PROVE  OrderInv'
<1>1. OrderTypes'
  BY DEF OrderInv, OrderTypes
<1>2. ASSUME Undisturbed' PROVE StreamFollows' /\ RoundOfNext' /\ AnswerFollows'
  <2>1. /\ Undisturbed /\ StreamFollows /\ RoundOfNext /\ AnswerFollows
        /\ pc' \notin {"read", "route", "closed"}
        /\ pc' = "next" => resp.state # "header"
        /\ pc' = "reading" => parsed = "head"
        /\ Handling' /\ parsed # "pre" => Req.route = "handler"
        /\ parsed # "pre" /\ resp.state = "header" => StatusRight'
    BY <1>2 DEF OrderInv, Undisturbed
  <2>2. InRound'
    BY <2>1 DEF InRound
  <2>3. StreamFollows'
    BY <2>1, <2>2 DEF StreamFollows, InRound, Continues, NextUnit
  <2>4. RoundOfNext'
    BY <2>1, <2>2 DEF RoundOfNext, InRound, Req
  <2>5. AnswerFollows'
    <3>1. /\ Len(out)' = (IF resp.state = "header" THEN served ELSE served + 1)'
          /\ (\A i \in 1 .. served : out[i].req = i /\ out[i].status = Expected(out[i]))'
      BY <2>1 DEF AnswerFollows, Expected
    <3>2. ASSUME parsed # "pre"
          PROVE  ThisAnswer'.req = cur' /\ ThisAnswer'.status = Expected(ThisAnswer)'
      <4>1. CASE resp.state = "header"
        BY <2>1, <3>2, <4>1 DEF StatusRight, ThisAnswer, NewAnswer
      <4>2. CASE resp.state # "header"
        <5>1. pc # "route"
          BY <2>1, <4>2 DEF RoundOfNext, NewResponse
        <5>2. QED
          BY <2>1, <3>2, <4>2, <5>1, ThisAnswerKept DEF AnswerFollows
      <4>3. QED
        BY <4>1, <4>2
    <3>3. QED
      BY <3>1, <3>2 DEF AnswerFollows
  <2>6. QED
    BY <2>3, <2>4, <2>5
<1>3. QED
  BY <1>1, <1>2 DEF OrderInv, Undisturbed

\* A step that touches none of it.
LEMMA OrderKept ==
  ASSUME OrderInv, UNCHANGED <<todo, parsed, cur, out, script, served, threw, resp, phase, pc>>,
         Undisturbed' => Undisturbed
  PROVE  OrderInv'
  BY DEF OrderInv, OrderTypes, StreamFollows, Continues, NextUnit, RoundOfNext, AnswerFollows,
         ThisAnswer, NewAnswer, Expected, InRound, Handling, Req

\* Reading in a request, and its end.
LEMMA ReadOrder ==
  ASSUME BodyInv, OrderInv, NEW n \in 1 .. Len(todo), ReadSome(n)
  PROVE  OrderInv'
<1> DEFINE p == Parse(n)
<1>1. /\ alive /\ pc = "read"
      /\ todo' = SubSeq(todo, n + 1, Len(todo))
      /\ IF p = "error"
         THEN pc' = "closed" /\ UNCHANGED <<parsed, cur, cut>>
         ELSE pc' = "route" /\ parsed' = p /\ cur' = Current(p) /\ cut' = (cut \/ Overrun(n))
      /\ UNCHANGED <<alive, resp, out, script, served, gaveUp, failed, threw>>
  BY Zenon DEF ReadSome, Goto, wire
<1>2. todo \in Seq(Units) /\ cur \in Nat /\ served \in Nat /\ n \in 1 .. Len(todo)
  BY DEF OrderInv, OrderTypes
<1>3. Current(p) \in Nat
  <2>1. todo[1] \in Units
    BY <1>2
  <2>2. QED
    BY <1>2, <2>1 DEF Current, Units
<1>t. OrderTypes'
  <2>1. todo' \in Seq(Units)
    BY <1>1, <1>2
  <2>2. cur' \in Nat
    BY <1>1, <1>2, <1>3
  <2>3. QED
    BY <1>1, <2>1, <2>2 DEF OrderInv, OrderTypes
<1>4. ASSUME Undisturbed' PROVE StreamFollows' /\ RoundOfNext' /\ AnswerFollows'
  <2>1. Undisturbed /\ (p # "error" => ~Overrun(n))
    BY <1>1, <1>4 DEF Undisturbed
  <2>2. StreamFollows /\ RoundOfNext /\ AnswerFollows
    BY <2>1 DEF OrderInv
  <2>3. /\ Continues(todo, <<served + 1, "pre">>) /\ parsed = "nothing" /\ cur = 0
        /\ resp = NewResponse /\ ~threw
    BY <1>1, <2>2 DEF StreamFollows, RoundOfNext
  <2>4. resp.state = "header" /\ resp.status = 200
    BY <2>3 DEF NewResponse
  <2>5. AnswerFollows'
    BY <1>1, <2>2 DEF AnswerFollows, Expected, InRound
  <2>6. CASE p = "error"
    <3>1. pc' = "closed" /\ resp'.state = "header"
      BY <1>1, <2>4, <2>6
    <3>2. QED
      BY <2>5, <3>1, ClosedFollows
  <2>7. CASE p # "error"
    <3>1. /\ p \in {"pre", "line", "head", "whole"} /\ todo[1][1] = served + 1
          /\ p = "head" => NextUnit(todo[n]) = <<served + 1, "body">>
          /\ p = "whole" => NextUnit(todo[n]) = <<(served + 1) + 1, "pre">>
      BY <1>2, <2>1, <2>3, <2>7, ReadWithin
    <3>2. Continues(todo', NextUnit(todo[n]))
      BY <1>1, <1>2, <2>3, ContinuesRest
    <3> HIDE DEF p
    <3>3. /\ pc' = "route" /\ parsed' = p /\ cur' = (IF p = "pre" THEN 0 ELSE served + 1)
          /\ served' = served
      BY <1>1, <2>3, <2>7, <3>1 DEF Current
    <3>4. InRound' /\ ~Handling'
      BY <3>3 DEF InRound, Handling, Phases
    <3>5. RoundOfNext'
      BY <1>1, <2>3, <3>1, <3>3, <3>4 DEF RoundOfNext, NewResponse
    <3>6. StreamFollows'
      <4>1. PICK t, u : t = todo' /\ u = NextUnit(todo[n])
        OBVIOUS
      <4>2. Continues(todo, u)'
        BY <1>1, <3>2, <4>1, ContinuesNext
      <4>3. p = "head" => u = <<cur', "body">>
        BY <3>1, <3>3, <4>1
      <4>4. p = "whole" => u = <<cur' + 1, "pre">>
        BY <3>1, <3>3, <4>1
      <4>5. QED
        BY <3>3, <4>2, <4>3, <4>4 DEF StreamFollows
    <3>7. QED
      BY <2>5, <3>5, <3>6
  <2>8. QED
    BY <2>5, <2>6, <2>7
<1>5. QED
  BY <1>t, <1>4 DEF OrderInv

LEMMA ReadEndsOrder ==
  ASSUME OrderInv, ReadEnds \/ ReadFails
  PROVE  OrderInv'
<1>1. CASE ReadEnds
  <2>1. /\ UNCHANGED <<alive, todo, parsed, cur, resp, out, script, served, gaveUp, cut, failed, threw>>
        /\ pc = "read" /\ pc' = "closed"
    BY <1>1 DEF ReadEnds, Goto, parser, app, wire, ghost
  <2>2. OrderTypes'
    BY <2>1 DEF OrderInv, OrderTypes
  <2>3. ASSUME Undisturbed' PROVE StreamFollows' /\ RoundOfNext' /\ AnswerFollows'
    <3>1. RoundOfNext /\ AnswerFollows
      BY <2>1, <2>3 DEF Undisturbed, OrderInv
    <3>2. resp.state = "header"
      BY <2>1, <3>1 DEF RoundOfNext, NewResponse
    <3>3. AnswerFollows'
      BY <2>1, <3>1 DEF AnswerFollows, Expected, InRound
    <3>4. QED
      BY <2>1, <3>2, <3>3, ClosedFollows
  <2>4. QED
    BY <2>2, <2>3 DEF OrderInv
<1>2. CASE ReadFails
  <2>1. UNCHANGED <<todo, cur, out, served, threw>> /\ cut' = TRUE
    BY <1>2 DEF ReadFails, wire
  <2>2. QED
    BY <2>1 DEF OrderInv, OrderTypes, Undisturbed
<1>3. QED
  BY <1>1, <1>2

\* What OrderInv says of a round that nothing has disturbed.
LEMMA InOrder ==
  ASSUME OrderInv, Undisturbed
  PROVE  StreamFollows /\ RoundOfNext /\ AnswerFollows
  BY DEF OrderInv

\* The rule sets the status of an answer the handler does not make.
LEMMA RouteOrder ==
  ASSUME BodyInv, OrderInv, RouteRefused \/ RouteToHandler \/ RouteAnswered
  PROVE  OrderInv'
<1>1. /\ UNCHANGED <<alive, todo, parsed, cur, out, script, served, gaveUp, cut, failed, threw>>
      /\ pc = "route"
      /\ \E r \in Routes :
           /\ r \in RouteOf
           /\ pc' = CASE r \in {"none", "other"} -> "body"
                     [] r = "handler" -> "before"
                     [] OTHER -> "answer"
           /\ resp' = CASE r = "none" -> SetStatus(resp, 404)
                        [] r = "other" -> SetStatus(resp, 405)
                        [] OTHER -> resp
  BY DEF RouteRefused, RouteToHandler, RouteAnswered, Route, Routes, Goto, parser, app, wire, ghost
<1>2. PICK r \in Routes :
        /\ r \in RouteOf
        /\ pc' = CASE r \in {"none", "other"} -> "body"
                  [] r = "handler" -> "before"
                  [] OTHER -> "answer"
        /\ resp' = CASE r = "none" -> SetStatus(resp, 404)
                     [] r = "other" -> SetStatus(resp, 405)
                     [] OTHER -> resp
  BY <1>1
<1>3. pc' \in {"body", "before", "answer"} /\ (pc' = "before" <=> r = "handler")
  BY <1>2
<1>4. /\ resp'.state = resp.state
      /\ resp'.status = CASE r = "none" -> 404 [] r = "other" -> 405 [] OTHER -> resp.status
  BY <1>2, Basics DEF SetStatus, Response
<1>5. InRound /\ threw' \in BOOLEAN
  BY <1>1 DEF InRound, OrderInv, OrderTypes
<1>6. ASSUME Undisturbed'
      PROVE  /\ Undisturbed
             /\ Handling' /\ parsed # "pre" => Req.route = "handler"
             /\ parsed # "pre" /\ resp.state = "header" => StatusRight'
  <2>1. Undisturbed
    BY <1>1, <1>6 DEF Undisturbed
  <2>2. RoundOfNext
    BY <2>1, InOrder
  <2>3. /\ resp.status = 200 /\ ~threw
        /\ parsed # "pre" => parsed \in {"line", "head", "whole"} /\ cur = served + 1
    BY <1>1, <1>5, <2>2 DEF RoundOfNext, NewResponse
  <2>4. served \in Nat
    BY DEF OrderInv, OrderTypes
  <2>5. parsed # "pre" => script[cur].route = r
    BY <1>2, <2>3, <2>4 DEF RouteOf, Has, Req
  <2>6. Handling' => r = "handler"
    BY <1>3 DEF Handling, Phases
  <2>7. ASSUME parsed # "pre", resp.state = "header" PROVE StatusRight'
    <3>1. resp'.status = CASE script[cur].route = "none" -> 404
                           [] script[cur].route = "other" -> 405
                           [] OTHER -> 200
      BY <1>4, <2>3, <2>5, <2>7
    <3>2. QED
      BY <1>1, <1>4, <2>3, <2>7, <3>1 DEF StatusRight, ThisAnswer, NewAnswer, Expected
  <2>8. QED
    BY <2>1, <2>5, <2>6, <2>7 DEF Req
<1>7. QED
  BY <1>1, <1>3, <1>4, <1>5, <1>6, WithinRound

\* An exception of a handler is the status 500, or the end of the process.
LEMMA ThrowsOrder ==
  ASSUME BodyInv, OrderInv, Throws
  PROVE  OrderInv'
<1>1. /\ UNCHANGED <<todo, parsed, cur, out, script, served, cut, failed>>
      /\ alive /\ pc \in Phases /\ phase' = phase
  BY DEF Throws, InApp, parser, app, wire
<1>2. InRound /\ pc # "route"
  BY <1>1 DEF InRound, Phases
<1>3. CASE ServiceError
  <2>1. /\ resp' = [resp EXCEPT !.status = 500]
        /\ threw' = (threw \/ resp.state = "header")
        /\ gaveUp' = IF pc = "default" THEN gaveUp \cup {served + 1} ELSE gaveUp
        /\ \/ pc' = IF pc = "default" THEN "next" ELSE "body"
           \/ alive' = FALSE
    BY <1>3 DEF ServiceError, SetStatus, Goto, Killed
  <2>2. resp'.state = resp.state /\ resp'.status = 500
    BY <2>1, Basics DEF Response
  <2>3. threw' \in BOOLEAN
    BY <2>1 DEF OrderInv, OrderTypes
  <2>4. ASSUME Undisturbed'
        PROVE  /\ Undisturbed /\ pc' = "body"
               /\ parsed # "pre" /\ resp.state = "header" => StatusRight'
    <3>1. Undisturbed /\ pc # "default" /\ pc' = "body"
      BY <1>1, <2>1, <2>4 DEF Undisturbed
    <3>2. parsed # "pre" => Req.route = "handler"
      <4>1. Handling
        BY <1>1, <3>1 DEF Handling
      <4>2. QED
        BY <3>1, <4>1, InOrder DEF RoundOfNext
    <3>3. ASSUME parsed # "pre", resp.state = "header" PROVE StatusRight'
      <4>1. script'[cur'].route = "handler" /\ threw' /\ resp'.state = "header" /\ resp'.status = 500
        BY <1>1, <2>1, <2>2, <3>2, <3>3 DEF Req
      <4>2. QED
        BY <4>1 DEF StatusRight, ThisAnswer, NewAnswer, Expected
    <3>4. QED
      BY <3>1, <3>3
  <2>5. ~(pc' = "body" /\ Handling')
    BY DEF Handling, Phases
  <2>6. QED
    BY <1>1, <1>2, <2>2, <2>3, <2>4, <2>5, WithinRound
<1>4. CASE pc' = "body" /\ UNCHANGED <<alive, resp, threw, gaveUp>>
  <2>1. ~Handling' /\ threw' \in BOOLEAN
    BY <1>4 DEF Handling, Phases, OrderInv, OrderTypes
  <2>2. ASSUME Undisturbed'
        PROVE  Undisturbed /\ (parsed # "pre" /\ resp.state = "header" => StatusRight')
    <3>1. Undisturbed
      BY <1>1, <1>4, <2>2 DEF Undisturbed
    <3>2. QED
      BY <1>1, <1>2, <1>4, <3>1, InOrder
         DEF AnswerFollows, StatusRight, ThisAnswer, NewAnswer, Expected
  <2>3. QED
    BY <1>1, <1>2, <1>4, <2>1, <2>2, WithinRound
<1>5. QED
  BY <1>3, <1>4 DEF Throws, Goto

\* A step within a round that leaves the response as it is.
LEMMA MovesOrder ==
  ASSUME BodyInv, OrderInv, InRound, pc # "route",
         UNCHANGED <<alive, todo, parsed, cur, out, script, served, gaveUp, cut, failed, threw>>,
         resp'.state = resp.state, resp'.status = resp.status,
         pc' \notin {"read", "route", "closed"},
         pc' = "next" => pc = "next" \/ resp.state # "header",
         pc' = "reading" => parsed = "head" \/ pc = "reading",
         Handling' => Handling
  PROVE  OrderInv'
<1>1. threw' \in BOOLEAN
  BY DEF OrderInv, OrderTypes
<1>2. ASSUME Undisturbed'
      PROVE  /\ Undisturbed
             /\ pc' = "next" => resp.state # "header"
             /\ pc' = "reading" => parsed = "head"
             /\ Handling' /\ parsed # "pre" => Req.route = "handler"
             /\ parsed # "pre" /\ resp.state = "header" => StatusRight'
  <2>1. Undisturbed
    BY <1>2 DEF Undisturbed
  <2>2. RoundOfNext /\ AnswerFollows
    BY <2>1, InOrder
  <2>3. parsed # "pre" /\ resp.state = "header" => StatusRight'
    BY <2>2 DEF AnswerFollows, StatusRight, ThisAnswer, NewAnswer, Expected
  <2>4. QED
    BY <2>1, <2>2, <2>3 DEF RoundOfNext
<1>3. QED
  BY <1>1, <1>2, WithinRound

LEMMA QuietOrder ==
  ASSUME BodyInv, OrderInv, \/ Returns \/ Default \/ Reads \/ BodyMissing
                            \/ \E n \in 0 .. MaxLength : SetLength(n)
  PROVE  OrderInv'
<1>1. CASE Returns
  <2>1. /\ UNCHANGED <<alive, todo, parsed, cur, resp, out, script, served, gaveUp, cut, failed, threw>>
        /\ pc \in Phases /\ pc' \in {"service", "body", "after", "next", "html"}
        /\ pc' \in {"service", "after"} => pc # "default"
        /\ pc' = "next" => resp.state = "finish"
    BY <1>1 DEF Returns, InApp, Goto, parser, app, wire, ghost
  <2>2. InRound /\ pc # "route" /\ (Handling' => Handling)
    BY <2>1 DEF InRound, Phases, Handling
  <2>3. QED
    BY <2>1, <2>2, MovesOrder
<1>2. CASE Default
  <2>1. /\ UNCHANGED <<alive, todo, parsed, cur, resp, out, script, served, gaveUp, cut, failed, threw>>
        /\ pc = "body" /\ pc' \in {"next", "default", "html"}
        /\ pc' = "next" => resp.state = "finish"
    BY <1>2 DEF Default, Goto, parser, app, wire, ghost
  <2>2. InRound /\ pc # "route" /\ ~Handling'
    BY <2>1 DEF InRound, Phases, Handling
  <2>3. QED
    BY <2>1, <2>2, MovesOrder
<1>3. CASE Reads
  <2>1. /\ UNCHANGED <<alive, todo, parsed, cur, resp, out, script, served, gaveUp, cut, failed, threw>>
        /\ pc \in Phases /\ phase' = pc /\ pc' = IF parsed = "head" THEN "reading" ELSE pc
    BY <1>3 DEF Reads, InApp, Goto, parser, wire, ghost
  <2>2. InRound /\ pc # "route" /\ (Handling' => Handling)
    BY <2>1 DEF InRound, Phases, Handling
  <2>3. QED
    BY <2>1, <2>2, MovesOrder DEF Phases
<1>4. CASE BodyMissing
  <2>1. /\ UNCHANGED <<alive, todo, parsed, cur, resp, out, script, served, gaveUp, cut, failed, threw,
                    phase>>
        /\ pc = "reading" /\ pc' = phase /\ phase \in Phases
    BY <1>4, Basics DEF BodyMissing, Goto, parser, app, wire, ghost
  <2>2. InRound /\ pc # "route" /\ (Handling' => Handling)
    BY <2>1 DEF InRound, Phases, Handling
  <2>3. QED
    BY <2>1, <2>2, MovesOrder DEF Phases
<1>5. CASE \E n \in 0 .. MaxLength : SetLength(n)
  <2>1. PICK n \in 0 .. MaxLength : SetLength(n)
    BY <1>5
  <2>2. /\ UNCHANGED <<alive, todo, parsed, cur, out, script, served, gaveUp, cut, failed, threw, phase, pc>>
        /\ pc \in Phases /\ resp' = [resp EXCEPT !.given = TRUE, !.length = n]
    BY <2>1 DEF SetLength, InApp, parser, wire, ghost
  <2>3. resp'.state = resp.state /\ resp'.status = resp.status
    BY <2>2, Basics DEF Response
  <2>4. InRound /\ pc # "route" /\ (Handling' => Handling)
    BY <2>2 DEF InRound, Phases, Handling
  <2>5. QED
    BY <2>2, <2>3, <2>4, MovesOrder DEF Phases
<1>6. QED
  BY <1>1, <1>2, <1>3, <1>4, <1>5

\* A write puts the answer of this round on the wire, if it is the first.
LEMMA SendAnswer ==
  ASSUME BodyInv, NEW n \in Nat, NEW w \in {"own", "dflt"}, WriteOK(n, w)
  PROVE  /\ resp'.state # "header" /\ failed' = failed
         /\ out' = IF resp.state = "header"
                   THEN Append(out, [req |-> cur, status |-> resp.status, threw |-> threw])
                   ELSE out
<1>1. WriteOK(n, w) /\ SendUnits(n, w, n) /\ failed' = failed
  BY DEF WriteOK
<1>2. TheHead(n).status = IF resp.state = "header" THEN resp.status ELSE TheHead(n).status
  <2>1. RequestChunked \in BOOLEAN /\ resp \in Response
    BY Basics, ChunkedType
  <2>2. QED
    BY <2>1 DEF TheHead, Headed, HeaderData, Response
<1>3. /\ resp' = (IF n > 0 THEN BodyData(TheHead(n), n) ELSE TheHead(n))
      /\ out' = IF resp.state = "header" THEN Append(out, NewAnswer(TheHead(n))) ELSE out
  BY <1>1 DEF SendUnits, TheHead, Written
<1>4. TheHead(n) \in Response /\ TheHead(n).state # "header"
      /\ (TheHead(n).state = "finish" => TheHead(n).left = 0)
  BY HeadFacts
<1>5. resp'.state # "header"
  BY <1>3, <1>4, BodyDataFacts
<1>6. QED
  BY <1>1, <1>2, <1>3, <1>5 DEF NewAnswer

LEMMA SendOrder ==
  ASSUME BodyInv, OrderInv, InRound, pc # "route",
         NEW n \in Nat, NEW w \in {"own", "dflt"}, WriteOK(n, w),
         UNCHANGED <<alive, todo, parsed, cur, script, served, gaveUp, cut, threw>>,
         pc' \notin {"read", "route", "closed"},
         pc' = "reading" => pc = "reading",
         Handling' => Handling
  PROVE  OrderInv'
<1>1. /\ resp'.state # "header" /\ failed' = failed
      /\ out' = IF resp.state = "header"
                THEN Append(out, [req |-> cur, status |-> resp.status, threw |-> threw])
                ELSE out
  BY SendAnswer
<1>2. OrderTypes'
  <2>1. /\ cur \in Nat /\ threw \in BOOLEAN /\ out \in Seq(Answers) /\ resp.status \in Nat
    BY Basics DEF OrderInv, OrderTypes, Response
  <2>2. [req |-> cur, status |-> resp.status, threw |-> threw] \in Answers
    BY <2>1 DEF Answers
  <2>3. out' \in Seq(Answers)
    BY <1>1, <2>1, <2>2
  <2>4. QED
    BY <2>3 DEF OrderInv, OrderTypes
<1>3. ASSUME Undisturbed' PROVE StreamFollows' /\ RoundOfNext' /\ AnswerFollows'
  <2>1. Undisturbed
    BY <1>1, <1>3 DEF Undisturbed
  <2>2. StreamFollows /\ RoundOfNext /\ AnswerFollows
    BY <2>1, InOrder
  <2>3. InRound'
    BY DEF InRound
  <2>4. StreamFollows'
    BY <2>2, <2>3 DEF StreamFollows, InRound, Continues, NextUnit
  <2>5. RoundOfNext'
    BY <1>1, <2>2, <2>3 DEF RoundOfNext, InRound, Req
  <2>6. AnswerFollows'
    <3>1. out \in Seq(Answers) /\ served \in Nat /\ served' = served
      BY DEF OrderInv, OrderTypes
    <3>2. CASE resp.state # "header"
      <4>1. out' = out /\ ThisAnswer' = ThisAnswer
        BY <1>1, <3>1, <3>2 DEF ThisAnswer
      <4>2. QED
        BY <1>1, <2>2, <2>3, <3>1, <3>2, <4>1 DEF AnswerFollows, Expected
    <3>3. CASE resp.state = "header"
      <4> DEFINE m == [req |-> cur, status |-> resp.status, threw |-> threw]
      <4>0. /\ Len(out) = served
            /\ \A i \in 1 .. served : out[i].req = i /\ out[i].status = Expected(out[i])
            /\ parsed # "pre" => resp.status = Expected(ThisAnswer)
        BY <2>2, <3>3 DEF AnswerFollows, ThisAnswer, NewAnswer
      <4>1. parsed # "pre" => m.status = Expected(m)
        BY <3>3, <4>0 DEF ThisAnswer, NewAnswer, Expected
      <4>2. m.req = cur /\ out' = Append(out, m)
        BY <1>1, <3>3
      <4> HIDE DEF m
      <4>3. /\ Len(out') = served + 1 /\ out'[served + 1] = m
            /\ \A i \in 1 .. served : out'[i] = out[i]
        BY <3>1, <4>0, <4>2
      <4>4. ThisAnswer' = m
        BY <1>1, <3>1, <4>3 DEF ThisAnswer
      <4>5. \A x : Expected(x)' = Expected(x)
        BY DEF Expected
      <4>6. QED
        BY <1>1, <2>3, <3>1, <4>0, <4>1, <4>2, <4>3, <4>4 DEF AnswerFollows, Expected
    <3>4. QED
      BY <3>2, <3>3
  <2>7. QED
    BY <2>4, <2>5, <2>6
<1>4. QED
  BY <1>2, <1>3 DEF OrderInv

LEMMA WriteOrder ==
  ASSUME BodyInv, OrderInv, \/ Answer \/ Html
                            \/ \E n \in 0 .. MaxWrite : Writes(n)
  PROVE  OrderInv'
<1>1. CASE Answer
  <2>1. /\ UNCHANGED <<alive, todo, parsed, cur, script, served, gaveUp, cut, threw>>
        /\ pc = "answer" /\ pc' = "body" /\ WriteOK(AnswerSize, "own") /\ AnswerSize \in Nat
    BY <1>1 DEF Answer, AnswerSize, Goto, parser
  <2>2. InRound /\ ~Handling'
    BY <2>1 DEF InRound, Handling, Phases
  <2>3. QED
    BY <2>1, <2>2, SendOrder
<1>2. CASE Html
  <2>1. /\ UNCHANGED <<alive, todo, parsed, cur, script, served, gaveUp, cut, threw>>
        /\ pc = "html" /\ pc' = "next" /\ WriteOK(DefaultSize, "dflt") /\ DefaultSize \in Nat
    BY <1>2, ServiceAssumption DEF Html, Goto, parser
  <2>2. InRound /\ ~Handling'
    BY <2>1 DEF InRound, Handling, Phases
  <2>3. QED
    BY <2>1, <2>2, SendOrder
<1>3. ASSUME NEW n \in 0 .. MaxWrite, Writes(n) PROVE OrderInv'
  <2>1. /\ UNCHANGED <<alive, pc, phase, todo, parsed, cur, script, served, gaveUp, cut, threw>>
        /\ pc \in Phases /\ WriteOK(n, "own") /\ n \in Nat
    BY <1>3, ServiceAssumption DEF Writes, InApp, parser
  <2>2. InRound /\ pc # "route" /\ (Handling' => Handling)
    BY <2>1 DEF InRound, Handling, Phases
  <2>3. QED
    BY <2>1, <2>2, SendOrder DEF Phases
<1>4. QED
  BY <1>1, <1>2, <1>3

\* After a write that fails nothing is promised.
LEMMA WriteFailsOrder ==
  ASSUME BodyInv, OrderInv, \/ AnswerFails \/ HtmlFails
                            \/ \E n \in 0 .. MaxWrite : WriteError(n)
  PROVE  OrderInv'
<1>1. /\ \E n \in Nat, w \in {"own", "dflt"}, t \in BOOLEAN : WriteFails(n, w, t)
      /\ UNCHANGED <<todo, cur, served, threw>>
  <2>1. AnswerSize \in Nat
    BY DEF AnswerSize
  <2>2. DefaultSize \in Nat /\ MaxWrite \in Nat /\ Timeouts \in BOOLEAN
    BY ServiceAssumption
  <2>3. CASE AnswerFails
    BY <2>1, <2>3 DEF AnswerFails, parser
  <2>4. CASE HtmlFails
    BY <2>2, <2>4 DEF HtmlFails, parser
  <2>5. ASSUME NEW n \in 0 .. MaxWrite, WriteError(n)
        PROVE  n \in Nat /\ WriteFails(n, "own", Timeouts) /\ UNCHANGED <<todo, cur, served, threw>>
    BY <2>2, <2>5 DEF WriteError, parser
  <2>6. QED
    BY <2>2, <2>3, <2>4, <2>5
<1>2. PICK n \in Nat, w \in {"own", "dflt"}, t \in BOOLEAN : WriteFails(n, w, t)
  BY <1>1
<1>3. failed' = TRUE
  BY <1>2 DEF WriteFails
<1>4. out' \in Seq(Answers)
  <2>1. cur \in Nat /\ threw \in BOOLEAN /\ out \in Seq(Answers)
    BY DEF OrderInv, OrderTypes
  <2>2. TheHead(n) \in Response
    BY HeadFacts
  <2>3. NewAnswer(TheHead(n)) \in Answers
    BY <2>1, <2>2 DEF NewAnswer, Answers, Response
  <2>4. out' = out \/ out' = Append(out, NewAnswer(TheHead(n)))
    BY <1>2 DEF WriteFails, SendUnits, TheHead
  <2>5. QED
    BY <2>1, <2>3, <2>4
<1>5. QED
  BY <1>1, <1>3, <1>4 DEF OrderInv, OrderTypes, Undisturbed

\* The rest of the request arrives.
LEMMA BodyArrivesOrder ==
  ASSUME BodyInv, OrderInv, NEW n \in 1 .. Len(todo), BodyArrives(n)
  PROVE  OrderInv'
<1> DEFINE p == Parse(n)
<1>1. /\ pc = "reading" /\ pc' = phase /\ phase' = phase /\ phase \in Phases
      /\ todo' = SubSeq(todo, n + 1, Len(todo))
      /\ parsed' = p /\ cut' = (cut \/ Overrun(n))
      /\ UNCHANGED <<alive, cur, resp, out, script, served, gaveUp, failed, threw>>
  BY Basics, Zenon DEF BodyArrives, Goto, wire
<1> HIDE DEF p
<1>2. todo \in Seq(Units) /\ cur \in Nat /\ served \in Nat
  BY DEF OrderInv, OrderTypes
<1>t. OrderTypes'
  <2>1. todo' \in Seq(Units)
    BY <1>1, <1>2
  <2>2. QED
    BY <1>1, <2>1 DEF OrderInv, OrderTypes
<1>3. ASSUME Undisturbed' PROVE StreamFollows' /\ RoundOfNext' /\ AnswerFollows'
  <2>1. Undisturbed /\ ~Overrun(n)
    BY <1>1, <1>3 DEF Undisturbed
  <2>2. StreamFollows /\ RoundOfNext /\ AnswerFollows
    BY <2>1, InOrder
  <2>3. InRound /\ InRound' /\ parsed = "head" /\ (Handling' => Handling) /\ pc' \in Phases
    BY <1>1, <2>2 DEF InRound, Handling, RoundOfNext, Phases
  <2>4. Continues(todo, <<cur, "body">>)
    BY <2>2, <2>3 DEF StreamFollows
  <2>5. p = "whole" /\ NextUnit(todo[n]) = <<cur + 1, "pre">>
    BY <1>2, <2>1, <2>3, <2>4, BodyWithin DEF p
  <2>6. StreamFollows'
    <3>1. PICK t, u : t = todo' /\ u = NextUnit(todo[n])
      OBVIOUS
    <3>2. Continues(todo', NextUnit(todo[n]))
      BY <1>1, <1>2, <2>4, ContinuesRest
    <3>3. Continues(todo, u)'
      BY <1>1, <3>1, <3>2, ContinuesNext
    <3>4. QED
      BY <1>1, <2>3, <2>5, <3>1, <3>3 DEF StreamFollows, Phases
  <2>7. RoundOfNext'
    BY <1>1, <2>2, <2>3, <2>5 DEF RoundOfNext, Phases, Req
  <2>8. AnswerFollows'
    <3>1. ThisAnswer' = ThisAnswer /\ pc # "route" /\ pc' # "route"
      BY <1>1, <2>3 DEF ThisAnswer, NewAnswer, Phases
    <3>2. QED
      BY <1>1, <2>2, <2>3, <2>5, <3>1 DEF AnswerFollows, Expected
  <2>9. QED
    BY <2>6, <2>7, <2>8
<1>4. QED
  BY <1>t, <1>3 DEF OrderInv

\* The next round is that of the next request.
LEMMA EndOfRoundOrder ==
  ASSUME BodyInv, OrderInv, EndOfRound
  PROVE  OrderInv'
<1>1. /\ pc = "next" /\ served' = served + 1
      /\ \/ pc' = "read" /\ parsed' = "nothing" /\ cur' = 0
         \/ pc' = "closed" /\ UNCHANGED <<parsed, cur>>
      /\ resp' = NewResponse /\ threw' = FALSE
      /\ cut' = (cut \/ parsed # "whole")
      /\ UNCHANGED <<alive, todo, out, script, gaveUp, failed>>
  BY DEF EndOfRound, Goto
<1>2. todo \in Seq(Units) /\ cur \in Nat /\ served \in Nat
  BY DEF OrderInv, OrderTypes
<1>t. OrderTypes'
  <2>1. cur' \in Nat /\ served' \in Nat /\ out' = out /\ todo' = todo
    BY <1>1, <1>2
  <2>2. threw' \in BOOLEAN
    BY <1>1, Zenon
  <2>3. QED
    BY <2>1, <2>2 DEF OrderInv, OrderTypes
<1>3. ASSUME Undisturbed' PROVE StreamFollows' /\ RoundOfNext' /\ AnswerFollows'
  <2>1. Undisturbed /\ parsed = "whole"
    BY <1>1, <1>3 DEF Undisturbed
  <2>2. StreamFollows /\ RoundOfNext /\ AnswerFollows
    BY <2>1, InOrder
  <2>3. InRound /\ ~InRound' /\ ~Handling'
    BY <1>1 DEF InRound, Handling, Phases
  <2>4. resp.state # "header" /\ cur = served + 1 /\ resp'.state = "header"
    BY <1>1, <2>1, <2>2, <2>3 DEF RoundOfNext, NewResponse
  <2>5. StreamFollows' /\ RoundOfNext'
    <3>1. CASE pc' = "closed"
      BY <2>4, <3>1, ClosedFollows
    <3>2. CASE pc' = "read" /\ parsed' = "nothing" /\ cur' = 0
      <4>1. Continues(todo, <<cur + 1, "pre">>)
        BY <2>1, <2>2, <2>3 DEF StreamFollows
      <4>2. PICK t, u : t = todo /\ u = <<cur + 1, "pre">>
        OBVIOUS
      <4>3. Continues(todo, u)'
        BY <1>1, <4>1, <4>2, ContinuesNext
      <4>4. StreamFollows'
        BY <1>1, <2>3, <2>4, <3>2, <4>2, <4>3 DEF StreamFollows
      <4>5. RoundOfNext'
        BY <1>1, <2>3, <3>2 DEF RoundOfNext
      <4>6. QED
        BY <4>4, <4>5
    <3>3. QED
      BY <1>1, <3>1, <3>2
  <2>6. AnswerFollows'
    <3>1. /\ Len(out) = served + 1
          /\ \A i \in 1 .. served : out[i].req = i /\ out[i].status = Expected(out[i])
          /\ out[served + 1].req = served + 1 /\ out[served + 1].status = Expected(out[served + 1])
      BY <1>1, <2>1, <2>2, <2>3, <2>4 DEF AnswerFollows, ThisAnswer
    <3>2. \A i \in 1 .. served + 1 : i \in 1 .. served \/ i = served + 1
      BY <1>2
    <3>3. \A i \in 1 .. served + 1 : out[i].req = i /\ out[i].status = Expected(out[i])
      BY <3>1, <3>2
    <3>4. QED
      BY <1>1, <2>3, <2>4, <3>1, <3>3 DEF AnswerFollows, Expected
  <2>7. QED
    BY <2>5, <2>6
<1>4. QED
  BY <1>t, <1>3 DEF OrderInv

LEMMA InitOrder == Init => OrderInv
<1> SUFFICES ASSUME Init PROVE OrderInv
  OBVIOUS
<1>1. /\ pc = "read" /\ todo = UnitsOf(script) /\ parsed = "nothing" /\ cur = 0 /\ resp = NewResponse
      /\ out = << >> /\ served = 0 /\ threw = FALSE /\ script \in Scripts
  BY DEF Init
<1>2. Len(script) \in Nat
  BY <1>1, ServiceAssumption
<1>3. todo \in Seq(Units) /\ Continues(todo, <<1, "pre">>)
  BY <1>1, <1>2, UnitsContinue
<1>4. OrderTypes
  <2>1. out \in Seq(Answers) /\ cur \in Nat /\ served \in Nat
    BY <1>1
  <2>2. threw \in BOOLEAN
    BY <1>1, Zenon
  <2>3. QED
    BY <1>3, <2>1, <2>2 DEF OrderTypes
<1>5. ~InRound /\ ~Handling
  BY <1>1 DEF InRound, Handling, Phases
<1>6. StreamFollows
  <2>1. served + 1 = 1
    BY <1>1
  <2>2. QED
    BY <1>3, <1>5, <2>1 DEF StreamFollows
<1>7. RoundOfNext /\ AnswerFollows
  BY <1>1, <1>5 DEF RoundOfNext, AnswerFollows, NewResponse
<1>8. QED
  BY <1>4, <1>6, <1>7 DEF OrderInv

LEMMA OrderInductive == Spec => []OrderInv
<1>1. BodyInv /\ OrderInv /\ [Next]_vars => OrderInv'
  <2> SUFFICES ASSUME BodyInv, OrderInv, [Next]_vars PROVE OrderInv'
    OBVIOUS
  <2>1. CASE ReadEnds \/ ReadFails
    BY <2>1, ReadEndsOrder
  <2>2. CASE \E n \in 1 .. Len(todo) : ReadSome(n)
    BY <2>2, ReadOrder
  <2>3. CASE RouteRefused \/ RouteToHandler \/ RouteAnswered
    BY <2>3, RouteOrder
  <2>4. CASE Throws
    BY <2>4, ThrowsOrder
  <2>5. CASE \/ Returns \/ Default \/ Reads \/ BodyMissing
             \/ \E n \in 0 .. MaxLength : SetLength(n)
    BY <2>5, QuietOrder
  <2>6. CASE Answer \/ Html \/ \E n \in 0 .. MaxWrite : Writes(n)
    BY <2>6, WriteOrder
  <2>7. CASE AnswerFails \/ HtmlFails \/ \E n \in 0 .. MaxWrite : WriteError(n)
    BY <2>7, WriteFailsOrder
  <2>8. CASE \E n \in 1 .. Len(todo) : BodyArrives(n)
    BY <2>8, BodyArrivesOrder
  <2>9. CASE EndOfRound
    BY <2>9, EndOfRoundOrder
  <2>10. CASE PeerLeaves
    BY <2>10, OrderKept DEF PeerLeaves, Undisturbed, app, wire, ghost
  <2>11. CASE UNCHANGED vars
    BY <2>11, OrderKept DEF vars, parser, app, wire, ghost, Undisturbed
  <2>12. QED
    BY <2>1, <2>2, <2>3, <2>4, <2>5, <2>6, <2>7, <2>8, <2>9, <2>10, <2>11
       DEF Next, Service, Client
<1>2. QED
  BY <1>1, InitOrder, BodyInductive, PTL DEF Spec

\* do_tcp_service(): a client whose requests each come alone and are taken whole gets one
\* answer for each, in their order, with the status its handler, the missing handler or the
\* exception call for, however the fragments are cut and whatever the handlers do, if no write
\* fails and no default handler throws.
THEOREM OneAnswerEach == Spec => []AnswersInOrder
<1>1. BodyInv /\ OrderInv => AnswersInOrder
  <2> SUFFICES ASSUME BodyInv, OrderInv, Undisturbed, pc \in {"read", "closed"}
               PROVE  /\ Len(out) = served
                      /\ \A i \in 1 .. Len(out) : out[i].req = i /\ out[i].status = Expected(out[i])
    BY DEF AnswersInOrder, Undisturbed
  <2>1. RoundOfNext /\ AnswerFollows
    BY InOrder
  <2>2. resp.state = "header"
    BY <2>1 DEF RoundOfNext, NewResponse
  <2>3. QED
    BY <2>1, <2>2 DEF AnswerFollows
<1>2. QED
  BY <1>1, BodyInductive, OrderInductive, PTL
=============================================================================
