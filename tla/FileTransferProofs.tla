------------------------- MODULE FileTransferProofs --------------------------
(***************************************************************************)
(* Proofs about FileTransfer for every file, buffer and request: how the   *)
(* response counts what is sent, when the buffer is overrun, and that the  *)
(* client gets what was asked for (SentIsWhatWasAsked, from DeliveryInv).  *)
(***************************************************************************)
EXTENDS FileTransfer, FiniteSetTheorems, WellFoundedInduction, TLAPS

Unit == {"byte", "part", "crlf", "close", "text"} \X Nat

-----------------------------------------------------------------------------
\* The response.

LEMMA HeaderDataFacts ==
  ASSUME NEW r \in Response, NEW c \in BOOLEAN, NEW n \in Nat
  PROVE  LET h == HeaderData(r, c, n)
         IN  /\ h \in Response
             /\ \/ h.state = "chunk" /\ ~h.given
                \/ h.state = "content_length" /\ h.given /\ h.left = h.length
             /\ r.given => h.length = r.length
  BY DEF HeaderData, Response, ProState

LEMMA BodyDataFacts ==
  ASSUME NEW r \in Response, NEW n \in Nat
  PROVE  /\ BodyData(r, n) \in Response
         /\ BodySize(r, n) \in 0..n
         /\ BodyData(r, n).given = r.given /\ BodyData(r, n).length = r.length
         /\ r.state \in {"header", "finish", "chunk"} => BodyData(r, n) = r
         /\ r.state \in {"header", "finish"} => BodySize(r, n) = 0
         /\ r.state = "content_length" =>
              \/ /\ BodyData(r, n).state = "content_length"
                 /\ BodyData(r, n).left + BodySize(r, n) = r.left
              \/ BodyData(r, n).state = "finish" /\ BodySize(r, n) = r.left
<1> USE DEF Response, ProState
<1>1. CASE r.state # "content_length"
  BY <1>1 DEF BodyData, BodySize
<1>2. CASE r.state = "content_length" /\ r.left > n
  <2>1. BodyData(r, n) = [r EXCEPT !.left = r.left - n] /\ BodySize(r, n) = n
    BY <1>2 DEF BodyData, BodySize
  <2>2. r.left - n \in Nat /\ n \in 0..n
    BY <1>2
  <2>3. QED
    BY <1>2, <2>1, <2>2
<1>3. CASE r.state = "content_length" /\ ~(r.left > n)
  <2>1. BodyData(r, n) = [r EXCEPT !.left = 0, !.state = "finish"] /\ BodySize(r, n) = r.left
    BY <1>3 DEF BodyData, BodySize
  <2>2. r.left \in 0..n /\ "finish" \in ProState /\ 0 \in Nat
    BY <1>3
  <2>3. BodyData(r, n) \in Response
    BY <2>1, <2>2
  <2>4. /\ BodyData(r, n).state = "finish" /\ BodyData(r, n).given = r.given
        /\ BodyData(r, n).length = r.length
    BY <2>1
  <2>5. QED
    BY <1>3, <2>1, <2>2, <2>3, <2>4
<1>4. QED
  BY <1>1, <1>2, <1>3

-----------------------------------------------------------------------------
\* Which ranges.

LEMMA WrapType == \A n \in Int : Wrap(n) \in 0..SizeMod - 1
  BY TransferAssumption DEF Wrap

LEMMA ParseSpecType ==
  ASSUME NEW s \in RangeSpec \cup {None}, NEW size \in 0..SizeMod - 1, ParseSpec(s, size) # <<>>
  PROVE  ParseSpec(s, size)[1] \in Range_
<1> USE TransferAssumption DEF RangeSpec, Number, Range_
<1>2. s # None
  BY DEF ParseSpec
<1>3. CASE s.first = None /\ s.last = None
  BY <1>2, <1>3 DEF ParseSpec
<1>4. CASE s.first = None /\ s.last # None
  BY <1>2, <1>4 DEF ParseSpec
<1>5. CASE s.first # None /\ s.last = None
  <2>1. size - 1 \in Int /\ size - s.first \in Int /\ s.first \in 0..SizeMod - 1
    BY <1>2, <1>5
  <2> DEFINE last == Wrap(size - 1)
             count == Wrap(size - s.first)
  <2>3. last \in 0..SizeMod - 1 /\ count \in 0..SizeMod - 1
    BY <2>1, WrapType
  <2>4. ParseSpec(s, size) = << [begin |-> s.first, end |-> last, total |-> count] >>
    BY <1>2, <1>5 DEF ParseSpec
  <2> HIDE DEF last, count
  <2>2. QED
    BY <2>1, <2>3, <2>4
<1>6. CASE s.first # None /\ s.last # None
  BY <1>2, <1>6 DEF ParseSpec
<1>7. QED
  BY <1>3, <1>4, <1>5, <1>6

LEMMA RangesType ==
  ASSUME NEW size \in 0..SizeMod - 1, NEW q \in Queries
  PROVE  /\ RangeTextOk(q.header, size) => RangeTextParsing(q.header, size) \in Seq(Range_)
         /\ FromFileRange(q.own) \in Seq(Range_)
<1>1. q \in Query
  BY TransferAssumption
<1>2. ASSUME RangeTextOk(q.header, size) PROVE RangeTextParsing(q.header, size) \in Seq(Range_)
  <2>1. q.header.specs \in Seq(RangeSpec \cup {None})
    BY <1>1 DEF Query, Header
  <2>2. \A i \in 1..Len(q.header.specs) : ParseSpec(q.header.specs[i], size)[1] \in Range_
    BY <1>2, <2>1, ParseSpecType DEF RangeTextOk
  <2>3. QED
    BY <2>1, <2>2 DEF RangeTextParsing
<1>3. FromFileRange(q.own) \in Seq(Range_)
  <2>1. q.own \in Seq([begin : 0..SizeMod - 1, total : 0..SizeMod - 1])
    BY <1>1 DEF Query
  <2>2. \A r \in [begin : 0..SizeMod - 1, total : 0..SizeMod - 1] : OwnEnd(r) \in 0..SizeMod - 1
    <3> SUFFICES ASSUME NEW r \in [begin : 0..SizeMod - 1, total : 0..SizeMod - 1]
                 PROVE  OwnEnd(r) \in 0..SizeMod - 1
      OBVIOUS
    <3>1. r.begin + r.total - 1 \in Int
      BY TransferAssumption
    <3>2. QED
      BY <3>1, WrapType DEF OwnEnd
  <2> DEFINE R(i) == [begin |-> q.own[i].begin, end |-> OwnEnd(q.own[i]), total |-> q.own[i].total]
  <2>3. ASSUME NEW i \in 1..Len(q.own) PROVE R(i) \in Range_
    <3>1. q.own[i] \in [begin : 0..SizeMod - 1, total : 0..SizeMod - 1]
      <4> DEFINE S == [begin : 0..SizeMod - 1, total : 0..SizeMod - 1]
                 own == q.own
      <4>1. own \in Seq(S) /\ i \in 1..Len(own)
        BY <2>1
      <4> HIDE DEF S, own
      <4>2. own[i] \in S
        BY <4>1
      <4>3. QED
        BY <4>2 DEF S, own
    <3>2. OwnEnd(q.own[i]) \in 0..SizeMod - 1
      BY <2>2, <3>1
    <3>3. QED
      BY <3>1, <3>2 DEF Range_
  <2>4. FromFileRange(q.own) = [i \in 1..Len(q.own) |-> R(i)]
    BY DEF FromFileRange
  <2> HIDE DEF R
  <2>5. QED
    BY <2>1, <2>3, <2>4
<1>4. QED
  BY <1>2, <1>3

LEMMA RangeFacts ==
  ASSUME ranges \in Seq(Range_), NEW i \in 1..Len(ranges)
  PROVE  ranges[i] \in Range_ /\ ranges[i].begin \in Nat /\ ranges[i].total \in Nat
<1>1. ranges[i] \in Range_
  OBVIOUS
<1>2. \A n \in 0..SizeMod - 1 : n \in Nat
  BY TransferAssumption
<1>3. QED
  BY <1>1, <1>2 DEF Range_

LEMMA ContentLengthType ==
  ASSUME ranges \in Seq(Range_)
  PROVE  ContentLength \in Nat
<1>1. Content \subseteq (1..Len(ranges)) \X (0..SizeMod)
  <2>1. \A i \in 1..Len(ranges) : ranges[i] \in Range_
    OBVIOUS
  <2>2. \A i \in 1..Len(ranges) : 1..ranges[i].total \subseteq 0..SizeMod
    BY <2>1, TransferAssumption DEF Range_
  <2>3. QED
    BY <2>2 DEF Content
<1>2. IsFiniteSet((1..Len(ranges)) \X (0..SizeMod))
  <2>1. IsFiniteSet(1..Len(ranges)) /\ IsFiniteSet(0..SizeMod)
    <3>1. Len(ranges) \in Int /\ SizeMod \in Int /\ 0 \in Int /\ 1 \in Int
      BY TransferAssumption
    <3>2. QED
      BY <3>1, FS_Interval
  <2>2. QED
    BY <2>1, FS_Product
<1>3. Cardinality(Content) \in Nat
  BY <1>1, <1>2, FS_Subset, FS_CardinalityType
<1>4. PartSize \in Nat /\ CloseSize \in Nat /\ Len(ranges) \in Nat
  BY TransferAssumption DEF PartSize, CloseSize
<1>5. Len(ranges) * (PartSize + 2) \in Nat
  BY <1>4
<1> DEFINE n == Len(ranges) * (PartSize + 2) + Cardinality(Content) + CloseSize
<1>6. n \in Nat
  BY <1>3, <1>4, <1>5
<1> HIDE DEF n
<1>7. Wrap(n) \in Nat
  BY <1>6, TransferAssumption DEF Wrap
<1>8. QED
  BY <1>7 DEF n, ContentLength

-----------------------------------------------------------------------------
\* The stream.

Streams == [pos : Nat, eof : BOOLEAN, fail : BOOLEAN]

LEMMA SeekType ==
  ASSUME NEW s \in Streams, NEW p \in Nat
  PROVE  Seek(s, p) \in Streams
<1>1. (s.fail \/ p >= SizeMod \div 2) \in BOOLEAN /\ s.pos \in Nat
  BY DEF Streams
<1>2. QED
  BY <1>1 DEF Seek, Streams

LEMMA ReadFacts ==
  ASSUME file \in Nat, stream \in Streams, NEW n \in Nat
  PROVE  /\ GCount(n) \in 0..n
         /\ AfterRead(n) \in Streams
         /\ Bytes(n) \in Seq(Unit) /\ Len(Bytes(n)) = GCount(n)
<1>1. stream.pos \in Nat /\ stream.fail \in BOOLEAN
  BY DEF Streams
<1>2. GCount(n) \in 0..n
  BY <1>1 DEF GCount
<1>3. AfterRead(n) \in Streams
  <2>1. stream.pos + GCount(n) \in Nat /\ (GCount(n) < n) \in BOOLEAN
    BY <1>1, <1>2
  <2>2. QED
    BY <2>1 DEF AfterRead, Streams
<1>4. Bytes(n) \in Seq(Unit) /\ Len(Bytes(n)) = GCount(n)
  <2>1. \A i \in 1..GCount(n) : <<"byte", stream.pos + i - 1>> \in Unit
    BY <1>1, <1>2 DEF Unit
  <2>2. GCount(n) \in Nat
    BY <1>2
  <2>3. QED
    BY <2>1, <2>2 DEF Bytes
<1>5. QED
  BY <1>2, <1>3, <1>4

LEMMA UnitsFacts ==
  ASSUME NEW u \in Unit, NEW n \in Nat
  PROVE  Units(u, n) \in Seq(Unit) /\ Len(Units(u, n)) = n
  BY DEF Units

LEMMA ConcatFacts ==
  ASSUME NEW S, NEW s \in Seq(S), NEW t \in Seq(S)
  PROVE  s \o t \in Seq(S) /\ Len(s \o t) = Len(s) + Len(t)
  OBVIOUS

-----------------------------------------------------------------------------
\* What one write may carry.
LEMMA LargestFacts ==
  /\ LargestWrite \in Nat
  /\ BufSize + 2 <= LargestWrite /\ BufSize <= LargestWrite
  /\ PartSize <= LargestWrite /\ CloseSize <= LargestWrite /\ TextSize <= LargestWrite
  BY TransferAssumption DEF LargestWrite, Larger, PartSize, CloseSize

\* A write: the response counts it, and the client has it or a part of it.
LEMMA WriteBodyStep ==
  ASSUME resp \in Response, sent \in Seq(Unit), error = FALSE, Accounts,
         NEW body \in Seq(Unit), Len(body) <= LargestWrite,
         NEW next \in Phases \ {"call", "header"},
         WriteBody(body, next)
  PROVE  /\ resp' \in Response /\ sent' \in Seq(Unit) /\ error' \in BOOLEAN
         /\ pc' \in {next, "done"} /\ (error' => pc' = "done")
         /\ Accounts'
<1> DEFINE n == Len(body)
           size == BodySize(resp, n)
           out == SubSeq(body, 1, size)
<1>1. n \in Nat /\ size \in 0..n
  BY BodyDataFacts
<1>2. out \in Seq(Unit) /\ Len(out) = size
  BY <1>1
<1>3. /\ resp' = BodyData(resp, n)
      /\ \/ sent' = sent \o out /\ pc' = next /\ error' = FALSE
         \/ \E m \in 0..Len(out) - 1 :
              sent' = sent \o SubSeq(out, 1, m) /\ pc' = "done" /\ error' = TRUE
  BY DEF WriteBody
<1> HIDE DEF out
<1>4. PICK m \in 0..size :
        /\ sent' \in Seq(Unit) /\ Len(sent') = Len(sent) + m
        /\ error' \in BOOLEAN /\ (~error' => m = size)
        /\ pc' \in {next, "done"} /\ (error' => pc' = "done")
        /\ m = 0 => sent' = sent
  <2>1. CASE sent' = sent \o out /\ pc' = next /\ error' = FALSE
    <3>1. sent' \in Seq(Unit) /\ Len(sent') = Len(sent) + size
      BY <1>2, <2>1
    <3>2. size = 0 => sent' = sent
      BY <1>2, <2>1
    <3>3. size \in 0..size
      BY <1>1
    <3>4. error' \in BOOLEAN /\ (~error' => size = size) /\ ~error'
      BY <2>1
    <3> HIDE DEF size, n
    <3>5. QED
      BY <2>1, <3>1, <3>2, <3>3, <3>4, Zenon
  <2>2. ASSUME NEW m \in 0..Len(out) - 1,
               sent' = sent \o SubSeq(out, 1, m), pc' = "done", error' = TRUE
        PROVE  /\ m \in 0..size
               /\ sent' \in Seq(Unit) /\ Len(sent') = Len(sent) + m
               /\ m = 0 => sent' = sent
    <3>1. m \in 0..size /\ m \in 0..Len(out) /\ m \in Nat
      BY <1>1, <1>2
    <3> DEFINE part == SubSeq(out, 1, m)
    <3>3. part \in Seq(Unit) /\ Len(part) = m
      BY <1>2, <3>1
    <3> HIDE DEF part
    <3>4. sent' = sent \o part
      BY <2>2 DEF part
    <3>5. (sent \o part) \in Seq(Unit) /\ Len(sent \o part) = Len(sent) + m
      BY <3>3
    <3>6. m = 0 => part = <<>>
      BY <3>3
    <3>7. <<>> \in Seq(Unit) /\ sent \o <<>> = sent
      OBVIOUS
    <3>2. QED
      BY <3>1, <3>4, <3>5, <3>6, <3>7
  <2>3. QED
    BY <1>3, <2>1, <2>2
<1> HIDE DEF n, size
<1>5. /\ resp' \in Response /\ resp'.given = resp.given /\ resp'.length = resp.length
      /\ resp.state \in {"header", "finish", "chunk"} => resp' = resp
      /\ resp.state \in {"header", "finish"} => size = 0
      /\ resp.state = "content_length" =>
           \/ resp'.state = "content_length" /\ resp'.left + size = resp.left
           \/ resp'.state = "finish" /\ size = resp.left
  BY <1>1, <1>3, BodyDataFacts DEF size
<1>6. resp.state \in ProState /\ resp.left \in Nat /\ resp.length \in Nat
      /\ resp'.left \in Nat /\ resp'.length \in Nat /\ Len(sent) \in Nat /\ size \in Nat
  BY <1>1, <1>5 DEF Response
<1>9. LargestWrite \in Nat /\ LargestWrite' = LargestWrite /\ size <= LargestWrite
  <2>1. LargestWrite \in Nat /\ n \in Nat /\ n <= LargestWrite
    BY <1>1, LargestFacts DEF n
  <2>2. size \in 0..n
    BY <1>1
  <2>3. size <= LargestWrite
    BY <2>1, <2>2
  <2>4. LargestWrite' = LargestWrite
    BY DEF LargestWrite, Larger, PartSize
  <2>5. QED
    BY <2>1, <2>3, <2>4
<1>7. Accounts'
  <2>1. CASE resp.state = "header"
    <3>1. sent' = sent /\ resp' = resp /\ pc' \notin {"call", "header"}
      BY <1>4, <1>5, <2>1
    <3>2. QED
      BY <2>1, <3>1 DEF Accounts
  <2>2. CASE resp.state = "chunk"
    BY <1>5, <2>2 DEF Accounts
  <2>3. CASE resp.state = "finish"
    BY <1>4, <1>5, <2>3 DEF Accounts
  <2>4. CASE resp.state = "content_length"
    <3>1. Len(sent) + resp.left = resp.length
      BY <2>4 DEF Accounts
    <3>2. m \in Nat /\ m <= size /\ Len(sent') = Len(sent) + m /\ (~error' => m = size)
      BY <1>1, <1>4, <1>6
    <3>3. CASE resp'.state = "content_length" /\ resp'.left + size = resp.left
      <4>1. /\ Len(sent') + resp'.left <= resp'.length
            /\ resp'.length <= Len(sent') + resp'.left + LargestWrite
            /\ ~error' => Len(sent') + resp'.left = resp'.length
        <5>1. resp'.left = resp.left - size /\ resp'.length = resp.length
          BY <1>5, <1>6, <3>3
        <5>2. Len(sent') + resp'.left = resp'.length - (size - m)
          BY <1>6, <3>1, <3>2, <5>1
        <5>3. size - m >= 0 /\ size - m <= LargestWrite /\ (~error' => size - m = 0)
          BY <1>6, <1>9, <3>2
        <5>4. QED
          BY <1>6, <1>9, <3>2, <5>2, <5>3
      <4>2. QED
        BY <1>9, <3>3, <4>1 DEF Accounts
    <3>4. CASE resp'.state = "finish" /\ size = resp.left
      <4>1. /\ Len(sent') <= resp'.length /\ resp'.length <= Len(sent') + LargestWrite
            /\ ~error' => Len(sent') = resp'.length
        BY <1>5, <1>6, <1>9, <3>1, <3>2, <3>4
      <4>2. QED
        BY <1>9, <3>4, <4>1 DEF Accounts
    <3>5. QED
      BY <1>5, <2>4, <3>3, <3>4
  <2>5. QED
    BY <1>6, <2>1, <2>2, <2>3, <2>4 DEF ProState
<1>8. QED
  BY <1>4, <1>5, <1>7

\* A header: the response waits for what it announces.
LEMMA WriteHeaderStep ==
  ASSUME query.chunked \in BOOLEAN, sent = <<>>, sent' = sent, error = FALSE,
         NEW r \in Response, NEW size \in Nat, NEW next \in Phases \ {"call", "header"},
         WriteHeader(r, size, next)
  PROVE  /\ resp' \in Response /\ error' \in BOOLEAN
         /\ pc' \in {next, "done"} /\ (error' => pc' = "done")
         /\ Accounts'
<1>1. resp' = HeaderData(r, query.chunked, size)
  BY DEF WriteHeader
<1>2. /\ resp' \in Response
      /\ \/ resp'.state = "chunk" /\ ~resp'.given
         \/ resp'.state = "content_length" /\ resp'.given /\ resp'.left = resp'.length
  BY <1>1, HeaderDataFacts
<1>3. error' \in BOOLEAN /\ pc' \in {next, "done"} /\ (error' => pc' = "done")
  BY DEF WriteHeader
<1>4. Len(sent') = 0
  OBVIOUS
<1>5. resp'.length \in Nat /\ resp'.left \in Nat
  BY <1>2 DEF Response
<1>8. LargestWrite' \in Nat
  <2>1. LargestWrite' = LargestWrite
    BY DEF LargestWrite, Larger, PartSize
  <2>2. QED
    BY <2>1, LargestFacts
<1>6. Accounts'
  BY <1>2, <1>4, <1>5, <1>8 DEF Accounts
<1>7. QED
  BY <1>2, <1>3, <1>6

-----------------------------------------------------------------------------
\* The steps of TransferInv, by what they do.

\* A step of the coroutine that leaves the request alone.
Kept == query' = query /\ shrinks' = shrinks

LEMMA Basics ==
  ASSUME TransferInv
  PROVE  /\ TypeOK /\ Places /\ Accounts /\ OverrunNeedsFullBuffer
         /\ query \in Query /\ query.chunked \in BOOLEAN
         /\ stream \in Streams /\ sent \in Seq(Unit) /\ ranges \in Seq(Range_)
         /\ pc # "done" => error = FALSE
         /\ resp.state = "header" => sent = <<>>
<1>1. TypeOK /\ Places /\ Accounts /\ OverrunNeedsFullBuffer
  BY DEF TransferInv
<1>2. query \in Query
  BY <1>1, TransferAssumption DEF TypeOK
<1>3. query.chunked \in BOOLEAN
  BY <1>2 DEF Query
<1>4. QED
  BY <1>1, <1>2, <1>3 DEF TypeOK, Places, Accounts, Streams, Unit

\* The coroutine returns without a write.
LEMMA ReturnStep ==
  ASSUME TransferInv, pc \notin {"done", "aborted"}, Return, Kept,
         file' = file, fsize' \in {fsize, file}, pc = "call", k' = k,
         error' \in BOOLEAN, overrun' = overrun
  PROVE  TransferInv'
<1>1. TypeOK /\ Places /\ Accounts /\ OverrunNeedsFullBuffer /\ file \in FileSizes
  BY Basics DEF Places
<1>2. TypeOK'
  <2>1. /\ resp' = resp /\ sent' = sent /\ ranges' = ranges /\ stream' = stream
        /\ query' = query /\ shrinks' = shrinks
        /\ pc' \in Phases /\ fsize' \in FileSizes \cup {0}
    BY <1>1 DEF TypeOK, Return, Kept, Phases
  <2>2. QED
    BY <1>1, <2>1, Zenon DEF TypeOK
<1>3. Places'
  BY <1>1 DEF Places, Return
<1>4. Accounts'
  <2>1. resp' = resp /\ sent' = sent /\ pc' = "done" /\ error = FALSE
    BY Basics DEF Return
  <2>2. QED
    BY <1>1, <2>1, Zenon DEF Accounts
<1>5. OverrunNeedsFullBuffer'
  BY <1>1 DEF OverrunNeedsFullBuffer, Return
<1>6. QED
  BY <1>2, <1>3, <1>4, <1>5 DEF TransferInv

\* co_send_file(), up to the first write.
LEMMA CallStep ==
  ASSUME TransferInv, SendLate \/ OpenFails \/ SendOwn \/ SendWhole \/ SendRanges
  PROVE  TransferInv'
<1>1. /\ TypeOK /\ Places /\ Accounts /\ OverrunNeedsFullBuffer /\ query \in Query
      /\ stream \in Streams /\ query.chunked \in BOOLEAN
  BY Basics
<1>2. /\ pc = "call" /\ file \in FileSizes /\ file \in 0..SizeMod - 1 /\ k = 1
      /\ ranges = <<>> /\ overrun = FALSE /\ error = FALSE
      /\ Kept /\ file' = file /\ overrun' = overrun /\ k' = k
  BY <1>1, TransferAssumption
     DEF SendLate, OpenFails, SendOwn, SendWhole, SendRanges, ByHeader, Called, Kept, Places,
         TypeOK
<1>3. ASSUME resp.state = "header", pc' = "header", ranges' \in Seq(Range_), fsize' = file, error' = error,
             UNCHANGED <<resp, stream, sent>>
      PROVE  TransferInv'
  <2>1. TypeOK'
    <3>1. pc' \in Phases /\ fsize' \in FileSizes \cup {0}
      BY <1>2, <1>3 DEF Phases
    <3>2. QED
      BY <1>1, <1>2, <1>3, <3>1, Zenon DEF TypeOK, Kept
  <2>2. Places'
    BY <1>2, <1>3 DEF Places
  <2>3. Accounts'
    BY <1>1, <1>2, <1>3 DEF Accounts
  <2>4. OverrunNeedsFullBuffer'
    BY <1>2 DEF OverrunNeedsFullBuffer
  <2>5. QED
    BY <2>1, <2>2, <2>3, <2>4 DEF TransferInv
<1>4. CASE Return /\ fsize' \in {fsize, file} /\ error' \in BOOLEAN
  BY <1>2, <1>4, ReturnStep
<1>5. CASE SendLate \/ OpenFails
  <2>1. Return /\ fsize' = fsize /\ error' \in BOOLEAN
    BY <1>2, <1>5 DEF SendLate, OpenFails
  <2>2. QED
    BY <1>4, <2>1
<1>6. CASE SendOwn
  <2>1. CASE FromFileRangeOk(query.own, file)
    BY <1>2, <1>3, <1>6, <2>1, RangesType DEF SendOwn, Called, TypeOK, TransferInv
  <2>2. CASE ~FromFileRangeOk(query.own, file)
    BY <1>2, <1>4, <1>6, <2>2 DEF SendOwn
  <2>3. QED
    BY <2>1, <2>2
<1>7. CASE SendRanges
  BY <1>2, <1>3, <1>7, RangesType
     DEF SendRanges, ByHeader, Called, TypeOK, TransferInv
<1>8. CASE SendWhole
  <2>1. CASE file = 0
    BY <1>2, <1>4, <1>8, <2>1 DEF SendWhole
  <2>2. CASE file # 0
    <3>1. /\ WriteHeader(resp, file, "whole") /\ resp.state = "header"
          /\ stream' = Seek(stream, 0) /\ UNCHANGED <<ranges, sent>> /\ fsize' = file
      BY <1>8, <2>2 DEF SendWhole, ByHeader, Called
    <3>2. resp \in Response /\ sent = <<>> /\ file \in Nat
      BY <1>1, <1>2, <3>1, TransferAssumption DEF Accounts, TypeOK
    <3>3. /\ resp' \in Response /\ error' \in BOOLEAN
          /\ pc' \in {"whole", "done"} /\ (error' => pc' = "done")
          /\ Accounts'
      <4>1. "whole" \in Phases \ {"call", "header"} /\ sent' = sent
        BY <3>1 DEF Phases
      <4>2. QED
        BY <1>1, <1>2, <3>1, <3>2, <4>1, WriteHeaderStep
    <3>4. TypeOK'
      <4>1. stream' \in Streams
        BY <1>1, <3>1, SeekType
      <4>2. pc' \in Phases /\ fsize' \in FileSizes \cup {0}
        BY <1>2, <3>1, <3>3 DEF Phases
      <4>3. QED
        BY <1>1, <1>2, <3>1, <3>3, <4>1, <4>2, Zenon DEF TypeOK, Kept, Streams
    <3>5. Places'
      BY <1>2, <3>3 DEF Places
    <3>6. OverrunNeedsFullBuffer'
      BY <1>2 DEF OverrunNeedsFullBuffer
    <3>7. QED
      BY <3>3, <3>4, <3>5, <3>6 DEF TransferInv
  <2>3. QED
    BY <2>1, <2>2
<1>9. QED
  BY <1>5, <1>6, <1>7, <1>8

\* The text of a refusal.
Text == Units(<<"text", 0>>, TextSize)

LEMMA TextFacts == Text \in Seq(Unit) /\ Len(Text) = TextSize /\ TextSize \in Nat \ {0}
<1>1. TextSize \in Nat \ {0} /\ <<"text", 0>> \in Unit
  BY TransferAssumption DEF Unit
<1>2. QED
  BY <1>1, UnitsFacts DEF Text

\* A refusal announces its text and sends it, or the beginning of it; a header that fails
\* leaves the text uncounted.
LEMMA RefuseWrites ==
  ASSUME TransferInv, Refuse
  PROVE  /\ resp' \in Response
         /\ \/ resp'.state = "chunk" /\ ~resp'.given
            \/ resp'.state = "finish" /\ resp'.given /\ resp'.length = TextSize
            \/ /\ resp'.state = "content_length" /\ resp'.given
               /\ resp'.left = TextSize /\ resp'.length = TextSize
               /\ sent' = <<>> /\ error' = TRUE
         /\ \/ sent' = Text /\ error' = error
            \/ \E n \in 0..TextSize - 1 : sent' = SubSeq(Text, 1, n) /\ error' = TRUE
<1>1. /\ TypeOK /\ Places /\ Accounts /\ query.chunked \in BOOLEAN
      /\ TextSize \in Nat /\ TextSize > 0
  BY Basics, TransferAssumption
<1>2. resp.state = "header" /\ resp \in Response /\ ~resp.given /\ sent = <<>>
  BY <1>1 DEF Refuse, ByHeader, Called, Places, Accounts, TypeOK
<1> DEFINE r0 == SetStatus(resp, 416)
           r == HeaderData(r0, query.chunked, TextSize)
           out == Units(<<"text", 0>>, BodySize(r, TextSize))
<1>3. r0 \in Response /\ r0.state = "header" /\ ~r0.given
  BY <1>2 DEF SetStatus, Response
<1>4. /\ r \in Response
      /\ \/ r.state = "chunk" /\ ~r.given
         \/ /\ r.state = "content_length" /\ r.given
            /\ r.left = TextSize /\ r.length = TextSize
  <2>1. r \in Response
    BY <1>1, <1>3, HeaderDataFacts
  <2>2. QED
    BY <1>1, <1>3, <2>1 DEF HeaderData, Response
<1>5. \/ resp' = r /\ error' = TRUE /\ sent' = sent
      \/ /\ resp' = BodyData(r, TextSize)
         /\ \/ sent' = out /\ error' = error
            \/ \E n \in 0..TextSize - 1 : sent' = SubSeq(out, 1, n) /\ error' = TRUE
  BY <1>1, <1>3 DEF Refuse, Headed
<1> HIDE DEF r
<1>6. out = Text
  <2>1. BodySize(r, TextSize) = TextSize
    BY <1>1, <1>4 DEF BodySize
  <2>2. QED
    BY <2>1 DEF Text
<1> HIDE DEF out
<1>7. CASE resp' = r /\ error' = TRUE /\ sent' = sent
  <2>1. sent' = <<>> /\ 0 \in 0..TextSize - 1
    BY <1>1, <1>2, <1>7
  <2>2. SubSeq(Text, 1, 0) = <<>>
    BY TextFacts
  <2>3. \E n \in 0..TextSize - 1 : sent' = SubSeq(Text, 1, n) /\ error' = TRUE
    BY <1>7, <2>1, <2>2
  <2>4. QED
    BY <1>4, <1>7, <2>1, <2>3
<1>8. CASE /\ resp' = BodyData(r, TextSize)
           /\ \/ sent' = out /\ error' = error
              \/ \E n \in 0..TextSize - 1 : sent' = SubSeq(out, 1, n) /\ error' = TRUE
  <2>1. resp' \in Response /\ resp'.given = r.given /\ resp'.length = r.length
    BY <1>1, <1>4, <1>8, BodyDataFacts
  <2>2. CASE r.state = "chunk" /\ ~r.given
    <3>1. resp' = r
      BY <1>8, <2>2 DEF BodyData
    <3>2. QED
      BY <1>6, <1>8, <2>1, <2>2, <3>1
  <2>3. CASE r.state = "content_length" /\ r.given /\ r.left = TextSize /\ r.length = TextSize
    <3>1. resp' = [r EXCEPT !.left = 0, !.state = "finish"]
      BY <1>1, <1>8, <2>3 DEF BodyData
    <3>2. resp'.state = "finish"
      BY <1>4, <3>1 DEF Response
    <3>3. QED
      BY <1>6, <1>8, <2>1, <2>3, <3>2
  <2>4. QED
    BY <1>4, <2>2, <2>3
<1>9. QED
  BY <1>5, <1>7, <1>8

LEMMA RefuseStep == ASSUME TransferInv, Refuse PROVE TransferInv'
<1>1. /\ TypeOK /\ Places /\ Accounts /\ OverrunNeedsFullBuffer
      /\ query.chunked \in BOOLEAN
  BY Basics
<1>2. /\ pc = "call" /\ resp.state = "header" /\ file \in FileSizes /\ k = 1 /\ sent = <<>>
      /\ overrun = FALSE /\ error = FALSE /\ resp \in Response /\ ~resp.given
  BY <1>1 DEF Refuse, ByHeader, Called, Places, Accounts, TypeOK
<1>3. TextSize \in Nat /\ TextSize > 0
  BY TransferAssumption
<1> DEFINE out == Text
<1>4. /\ pc' = "done"
      /\ \/ sent' = out /\ error' = error
         \/ \E n \in 0..TextSize - 1 : sent' = SubSeq(out, 1, n) /\ error' = TRUE
      /\ fsize' = file /\ UNCHANGED <<file, query, ranges, k, stream, overrun, shrinks>>
  <2>1. \/ sent' = out /\ error' = error
        \/ \E n \in 0..TextSize - 1 : sent' = SubSeq(out, 1, n) /\ error' = TRUE
    BY RefuseWrites
  <2>2. QED
    BY <2>1 DEF Refuse
<1>5. out \in Seq(Unit) /\ Len(out) = TextSize
  BY TextFacts
<1> HIDE DEF out
<1>6. /\ resp' \in Response
      /\ \/ resp'.state = "chunk" /\ ~resp'.given
         \/ resp'.state = "finish" /\ resp'.length = TextSize
         \/ /\ resp'.state = "content_length" /\ resp'.left = TextSize
            /\ resp'.length = TextSize /\ sent' = <<>>
  BY RefuseWrites
<1>7. /\ sent' \in Seq(Unit) /\ Len(sent') <= TextSize
      /\ error' \in BOOLEAN /\ (~error' => Len(sent') = TextSize)
  <2>1. CASE sent' = out /\ error' = error
    <3>1. error' = FALSE /\ Len(sent') = TextSize /\ sent' \in Seq(Unit)
      BY <1>2, <1>5, <2>1
    <3>2. Len(sent') <= TextSize
      BY <1>3, <3>1
    <3>3. QED
      BY <3>1, <3>2, Zenon
  <2>2. ASSUME NEW n \in 0..TextSize - 1, sent' = SubSeq(out, 1, n), error' = TRUE
        PROVE  sent' \in Seq(Unit) /\ Len(sent') <= TextSize
    <3>1. n \in 0..Len(out) /\ n <= TextSize
      BY <1>3, <1>5
    <3>2. SubSeq(out, 1, n) \in Seq(Unit) /\ Len(SubSeq(out, 1, n)) = n
      BY <1>5, <3>1
    <3>3. QED
      BY <2>2, <3>1, <3>2
  <2>3. QED
    BY <1>4, <2>1, <2>2
<1>8. TypeOK'
  <2>1. pc' \in Phases /\ fsize' \in FileSizes \cup {0}
    BY <1>2, <1>4 DEF Phases
  <2>2. QED
    BY <1>1, <1>4, <1>6, <1>7, <2>1, Zenon DEF TypeOK, Unit
<1>9. Accounts'
  <2>1. LargestWrite' = LargestWrite
    BY DEF LargestWrite, Larger, PartSize
  <2>2. LargestWrite' \in Nat /\ TextSize <= LargestWrite'
    BY <2>1, LargestFacts
  <2>3. Len(sent') \in Nat /\ (sent' = <<>> => Len(sent') = 0)
    BY <1>7
  <2>4. TextSize <= Len(sent') + LargestWrite' /\ Len(sent') <= TextSize
    BY <1>3, <1>7, <2>2, <2>3
  <2>5. CASE resp'.state = "chunk" /\ ~resp'.given
    BY <1>4, <2>5 DEF Accounts
  <2>6. CASE resp'.state = "finish" /\ resp'.length = TextSize
    BY <1>4, <1>7, <2>4, <2>6 DEF Accounts
  <2>7. CASE /\ resp'.state = "content_length" /\ resp'.left = TextSize
             /\ resp'.length = TextSize /\ sent' = <<>>
    BY <1>3, <1>4, <2>2, <2>3, <2>7 DEF Accounts
  <2>8. QED
    BY <1>6, <2>5, <2>6, <2>7
<1>10. Places' /\ OverrunNeedsFullBuffer'
  BY <1>2, <1>4 DEF Places, OverrunNeedsFullBuffer
<1>11. QED
  BY <1>8, <1>9, <1>10 DEF TransferInv

-----------------------------------------------------------------------------
\* The loops.

LEMMA WholeLoopStep == ASSUME TransferInv, WholeLoop PROVE TransferInv'
<1>1. /\ TypeOK /\ Places /\ Accounts /\ OverrunNeedsFullBuffer
      /\ stream \in Streams /\ sent \in Seq(Unit)
  BY Basics
<1>2. /\ pc = "whole" /\ error = FALSE /\ file \in Nat /\ BufSize \in Nat /\ resp \in Response
      /\ UNCHANGED <<file, fsize, query, ranges, k, overrun, shrinks>> /\ overrun = FALSE
  BY <1>1, Basics, TransferAssumption DEF WholeLoop, TypeOK, Places
<1>3. AfterRead(BufSize) \in Streams /\ Bytes(BufSize) \in Seq(Unit)
  BY <1>1, <1>2, ReadFacts
<1>8. Len(Bytes(BufSize)) <= LargestWrite
  <2>1. Len(Bytes(BufSize)) = GCount(BufSize) /\ GCount(BufSize) \in 0..BufSize
    BY <1>1, <1>2, ReadFacts
  <2>2. QED
    BY <1>2, <2>1, LargestFacts
<1>4. /\ resp' \in Response /\ sent' \in Seq(Unit) /\ error' \in BOOLEAN
      /\ pc' \in {"whole", "done"} /\ (error' => pc' = "done")
      /\ Accounts' /\ stream' \in Streams
  <2>1. CASE /\ pc' = "done" /\ stream' \in {stream, AfterRead(BufSize)}
             /\ UNCHANGED <<resp, sent, error>>
    <3>1. Accounts'
      BY <1>1, <1>2, <2>1, Zenon DEF Accounts
    <3>2. QED
      BY <1>1, <1>2, <1>3, <2>1, <3>1
  <2>2. CASE stream' = AfterRead(BufSize) /\ WriteBody(Bytes(BufSize), "whole")
    <3>1. "whole" \in Phases \ {"call", "header"}
      BY DEF Phases
    <3>2. QED
      BY <1>1, <1>2, <1>3, <1>8, <2>2, <3>1, WriteBodyStep
  <2>3. QED
    BY <2>1, <2>2 DEF WholeLoop
<1>5. TypeOK'
  <2>1. pc' \in Phases
    BY <1>4 DEF Phases
  <2>2. QED
    BY <1>1, <1>2, <1>4, <2>1, Zenon DEF TypeOK, Streams, Unit
<1>6. Places' /\ OverrunNeedsFullBuffer'
  BY <1>1, <1>2, <1>4 DEF Places, OverrunNeedsFullBuffer
<1>7. QED
  BY <1>4, <1>5, <1>6 DEF TransferInv

LEMMA RangeHeaderStep == ASSUME TransferInv, RangeHeader PROVE TransferInv'
<1>1. /\ TypeOK /\ Places /\ Accounts /\ OverrunNeedsFullBuffer
      /\ stream \in Streams /\ sent \in Seq(Unit) /\ ranges \in Seq(Range_)
      /\ query.chunked \in BOOLEAN
  BY Basics
<1>2. /\ pc = "header" /\ error = FALSE /\ resp \in Response /\ k = 1 /\ overrun = FALSE
      /\ UNCHANGED <<file, fsize, query, ranges, k, sent, overrun, shrinks>>
  BY <1>1, Basics DEF RangeHeader, TypeOK, Places
<1> DEFINE total == IF Len(ranges) = 1 THEN ranges[1].total ELSE ContentLength
           r == [SetStatus(resp, 206) EXCEPT !.given = TRUE, !.length = total]
           next == CASE Len(ranges) = 0 -> "close"
                     [] Len(ranges) = 1 -> "single"
                     [] OTHER -> "part"
<1>3. total \in Nat
  <2>1. Len(ranges) = 1 => ranges[1].total \in Nat
    BY <1>1, RangeFacts
  <2>2. QED
    BY <1>1, <2>1, ContentLengthType
<1>4. \/ /\ ranges = <<>> /\ pc' = "aborted" /\ resp' = r /\ UNCHANGED <<stream, error>>
      \/ /\ WriteHeader(r, 0, next)
         /\ stream' = IF Len(ranges) = 1 THEN Seek(stream, ranges[1].begin) ELSE stream
  BY DEF RangeHeader
<1> HIDE DEF total
<1>5. r \in Response /\ r.state = resp.state
  BY <1>2, <1>3 DEF SetStatus, Response
<1>6. /\ next \in Phases \ {"call", "header"}
      /\ next = "single" => Len(ranges) = 1
      /\ next \in {"part", "data"} => Len(ranges) > 1
      /\ next \notin {"whole", "aborted"}
  <2>1. Len(ranges) \in Nat
    BY <1>1
  <2>2. CASE Len(ranges) = 0
    BY <2>2 DEF Phases
  <2>3. CASE Len(ranges) = 1
    BY <2>3 DEF Phases
  <2>4. CASE Len(ranges) > 1
    BY <2>4 DEF Phases
  <2>5. QED
    BY <2>1, <2>2, <2>3, <2>4
<1> HIDE DEF r, next
<1>7. CASE pc' = "aborted" /\ resp' = r /\ UNCHANGED <<stream, error>>
  <2>1. TypeOK'
    <3>1. pc' \in Phases
      BY <1>7 DEF Phases
    <3>2. QED
      BY <1>1, <1>2, <1>5, <1>7, <3>1, Zenon DEF TypeOK
  <2>2. Accounts'
    <3>1. sent = <<>> /\ resp'.state = "header"
      BY <1>1, <1>2, <1>5, <1>7 DEF Places, Accounts
    <3>2. QED
      BY <1>2, <1>7, <3>1 DEF Accounts
  <2>3. QED
    BY <1>1, <1>2, <1>7, <2>1, <2>2 DEF TransferInv, Places, OverrunNeedsFullBuffer
<1>8. CASE /\ WriteHeader(r, 0, next)
           /\ stream' = IF Len(ranges) = 1 THEN Seek(stream, ranges[1].begin) ELSE stream
  <2>1. sent = <<>> /\ sent' = sent
    BY <1>1, <1>2 DEF Places, Accounts
  <2>2. /\ resp' \in Response /\ error' \in BOOLEAN
        /\ pc' \in {next, "done"} /\ (error' => pc' = "done")
        /\ Accounts'
    BY <1>1, <1>2, <1>5, <1>6, <1>8, <2>1, WriteHeaderStep
  <2>3. stream' \in Streams
    <3>1. Len(ranges) = 1 => ranges[1].begin \in Nat
      BY <1>1, RangeFacts
    <3>2. QED
      BY <1>1, <1>8, <3>1, SeekType
  <2>4. TypeOK'
    <3>1. pc' \in Phases
      BY <1>6, <2>2 DEF Phases
    <3>2. QED
      BY <1>1, <1>2, <2>2, <2>3, <3>1, Zenon DEF TypeOK, Streams
  <2>5. Places'
    <3>1. k \in 1..Len(ranges) \/ Len(ranges) = 0
      BY <1>1, <1>2
    <3>2. QED
      BY <1>2, <1>6, <2>2, <3>1 DEF Places
  <2>6. QED
    BY <1>2, <2>2, <2>4, <2>5 DEF TransferInv, OverrunNeedsFullBuffer
<1>9. QED
  BY <1>4, <1>7, <1>8

\* What a write and a read in a loop leave.
Wrote(next) ==
  /\ resp' \in Response /\ sent' \in Seq(Unit) /\ error' \in BOOLEAN
  /\ pc' \in {next, "done"} /\ (error' => pc' = "done")
  /\ Accounts' /\ stream' \in Streams

\* The piece that fills the buffer is of a range that does not end with it.
LEMMA FullPieceStep ==
  ASSUME TransferInv, pc # "done", k \in 1..Len(ranges),
         NEW next \in Phases \ {"call", "header"}, FullPiece(next)
  PROVE  /\ Wrote(next)
         /\ ranges' \in Seq(Range_) /\ Len(ranges') = Len(ranges)
         /\ \A i \in 1..Len(ranges) :
              ranges[i].total \in {BufSize - 1, BufSize} => ranges'[i] = ranges[i]
<1>1. /\ TypeOK /\ Accounts /\ stream \in Streams /\ sent \in Seq(Unit)
      /\ ranges \in Seq(Range_) /\ error = FALSE /\ resp \in Response
      /\ file \in Nat /\ BufSize \in Nat
  BY Basics, TransferAssumption DEF TypeOK
<1>2. stream' \in Streams /\ Bytes(BufSize) \in Seq(Unit)
  BY <1>1, ReadFacts DEF FullPiece
<1>10. Len(Bytes(BufSize)) <= LargestWrite
  <2>1. Len(Bytes(BufSize)) = GCount(BufSize) /\ GCount(BufSize) \in 0..BufSize
    BY <1>1, ReadFacts
  <2>2. QED
    BY <1>1, <2>1, LargestFacts
<1>3. Wrote(next)
  BY <1>1, <1>2, <1>10, WriteBodyStep DEF FullPiece, Wrote
<1>4. ranges[k] \in Range_ /\ ranges[k].total > BufSize
  BY <1>1 DEF FullPiece
<1>5. LessBuf(ranges[k]) \in Range_
  <2>1. ranges[k].total - BufSize \in 0..SizeMod - 1
    <3>1. ranges[k].total \in 0..SizeMod - 1
      BY <1>4 DEF Range_
    <3>2. QED
      BY <1>1, <1>4, <3>1, TransferAssumption
  <2>2. QED
    BY <1>4, <2>1 DEF LessBuf, Range_
<1>6. ranges' = [ranges EXCEPT ![k] = LessBuf(ranges[k])]
  BY DEF FullPiece
<1>7. ranges' \in Seq(Range_) /\ Len(ranges') = Len(ranges)
      /\ \A i \in 1..Len(ranges) : i # k => ranges'[i] = ranges[i]
  BY <1>1, <1>5, <1>6
<1>8. ranges[k].total \notin {BufSize - 1, BufSize}
  BY <1>1, <1>4, TransferAssumption DEF Range_
<1>9. QED
  BY <1>3, <1>7, <1>8

\* The other steps of the loops: the ranges stay.
LEMMA WroteInv ==
  ASSUME TransferInv, NEW next \in Phases, Wrote(next),
         next \notin {"call", "header", "whole"},
         next = "single" => Len(ranges') = 1 /\ k' = 1,
         next \in {"part", "data"} => Len(ranges') > 1 /\ k' \in 1..Len(ranges'),
         k' \in Nat, ranges' \in Seq(Range_), overrun' \in BOOLEAN, OverrunNeedsFullBuffer',
         UNCHANGED <<file, fsize, query, shrinks>>
  PROVE  TransferInv'
<1>1. TypeOK
  BY Basics
<1>2. pc' \in Phases /\ pc' \notin {"call", "header", "whole"}
  BY DEF Wrote, Phases
<1>3. TypeOK'
  BY <1>1, <1>2, Zenon DEF TypeOK, Wrote, Streams, Unit
<1>4. Places'
  BY <1>2 DEF Places, Wrote
<1>5. QED
  BY <1>3, <1>4 DEF TransferInv, Wrote

LEMMA SingleLoopStep == ASSUME TransferInv, SingleLoop PROVE TransferInv'
<1>1. /\ TypeOK /\ Places /\ Accounts /\ OverrunNeedsFullBuffer
      /\ stream \in Streams /\ sent \in Seq(Unit) /\ ranges \in Seq(Range_)
  BY Basics
<1>2. /\ pc = "single" /\ error = FALSE /\ Len(ranges) = 1 /\ k = 1 /\ k \in 1..Len(ranges)
      /\ resp \in Response /\ file \in Nat /\ overrun \in BOOLEAN
      /\ UNCHANGED <<file, fsize, query, k, overrun, shrinks>>
  <2>1. pc = "single" /\ UNCHANGED <<file, fsize, query, k, overrun, shrinks>>
    BY DEF SingleLoop
  <2>2. error = FALSE
    BY <2>1, Basics
  <2>3. Len(ranges) = 1 /\ k = 1
    BY <1>1, <2>1 DEF Places
  <2>4. QED
    BY <1>1, <2>1, <2>2, <2>3 DEF TypeOK
<1>3. {"single", "done"} \subseteq Phases \ {"call", "header", "whole"}
  BY DEF Phases
<1>4. overrun = FALSE
  BY <1>1, <1>2 DEF OverrunNeedsFullBuffer
<1>5. OverrunNeedsFullBuffer'
  BY <1>2, <1>4 DEF OverrunNeedsFullBuffer
<1>6. CASE FullPiece("single")
  <2>1. Wrote("single") /\ ranges' \in Seq(Range_) /\ Len(ranges') = 1
    BY <1>2, <1>3, <1>6, FullPieceStep
  <2>2. QED
    BY <1>2, <1>3, <1>5, <2>1, WroteInv
<1>7. CASE /\ stream' = AfterRead(ranges[k].total)
           /\ WriteBody(Bytes(ranges[k].total), "done")
           /\ UNCHANGED ranges /\ ranges[k].total <= BufSize
  <2>1. ranges[k].total \in Nat
    BY <1>1, <1>2, RangeFacts
  <2>2. stream' \in Streams /\ Bytes(ranges[k].total) \in Seq(Unit)
    BY <1>1, <1>2, <1>7, <2>1, ReadFacts
  <2>5. Len(Bytes(ranges[k].total)) <= LargestWrite
    <3> DEFINE n == ranges[k].total
    <3>1. n \in Nat /\ n <= BufSize /\ BufSize \in Nat
      BY <1>7, <2>1, TransferAssumption
    <3> HIDE DEF n
    <3>2. Len(Bytes(n)) = GCount(n) /\ GCount(n) \in 0..n
      BY <1>1, <1>2, <3>1, ReadFacts
    <3>3. Len(Bytes(n)) <= LargestWrite
      BY <3>1, <3>2, LargestFacts
    <3>4. QED
      BY <3>3 DEF n
  <2>3. Wrote("done")
    BY <1>1, <1>2, <1>3, <1>7, <2>2, <2>5, WriteBodyStep DEF Wrote
  <2>4. QED
    BY <1>1, <1>2, <1>3, <1>5, <1>7, <2>3, WroteInv
<1>8. CASE pc' = "done" /\ UNCHANGED <<resp, ranges, stream, sent, error>>
  <2>1. Accounts'
    BY <1>1, <1>2, <1>8, Zenon DEF Accounts
  <2>2. Wrote("done")
    BY <1>1, <1>2, <1>8, <2>1 DEF Wrote
  <2>3. QED
    BY <1>1, <1>2, <1>3, <1>5, <1>8, <2>2, WroteInv
<1>9. QED
  BY <1>6, <1>7, <1>8 DEF SingleLoop

LEMMA PartHeadStep == ASSUME TransferInv, PartHead PROVE TransferInv'
<1>1. /\ TypeOK /\ Places /\ Accounts /\ OverrunNeedsFullBuffer
      /\ stream \in Streams /\ sent \in Seq(Unit) /\ ranges \in Seq(Range_)
  BY Basics
<1>2. /\ pc = "part" /\ error = FALSE /\ Len(ranges) > 1 /\ k \in 1..Len(ranges)
      /\ resp \in Response /\ overrun \in BOOLEAN /\ k \in Nat
      /\ UNCHANGED <<file, fsize, query, ranges, k, overrun, shrinks>>
  BY <1>1, Basics DEF PartHead, TypeOK, Places
<1>3. "data" \in Phases \ {"call", "header", "whole"}
  BY DEF Phases
<1>4. <<"part", k>> \in Unit /\ PartSize \in Nat
  BY <1>2, TransferAssumption DEF Unit, PartSize
<1>5. /\ Units(<<"part", k>>, PartSize) \in Seq(Unit)
      /\ Len(Units(<<"part", k>>, PartSize)) <= LargestWrite
  BY <1>4, UnitsFacts, LargestFacts
<1>6. stream' \in Streams
  <2>1. ranges[k].begin \in Nat
    BY <1>1, <1>2, RangeFacts
  <2>2. QED
    BY <1>1, <2>1, SeekType DEF PartHead
<1>7. Wrote("data")
  BY <1>1, <1>2, <1>3, <1>5, <1>6, WriteBodyStep DEF PartHead, Wrote
<1>8. OverrunNeedsFullBuffer'
  BY <1>1, <1>2 DEF OverrunNeedsFullBuffer
<1>9. QED
  BY <1>1, <1>2, <1>3, <1>7, <1>8, WroteInv

LEMMA CloseStep == ASSUME TransferInv, Close PROVE TransferInv'
<1>1. /\ TypeOK /\ Places /\ Accounts /\ OverrunNeedsFullBuffer
      /\ stream \in Streams /\ sent \in Seq(Unit) /\ ranges \in Seq(Range_)
  BY Basics
<1>2. /\ pc = "close" /\ error = FALSE /\ resp \in Response /\ overrun \in BOOLEAN /\ k \in Nat
      /\ UNCHANGED <<file, fsize, query, ranges, k, stream, overrun, shrinks>>
  BY <1>1, Basics DEF Close, TypeOK
<1>3. "done" \in Phases \ {"call", "header", "whole"}
  BY DEF Phases
<1>4. /\ Units(<<"close", 0>>, CloseSize) \in Seq(Unit)
      /\ Len(Units(<<"close", 0>>, CloseSize)) <= LargestWrite
  <2>1. CloseSize \in Nat /\ <<"close", 0>> \in Unit
    BY TransferAssumption DEF Unit, CloseSize
  <2>2. QED
    BY <2>1, UnitsFacts, LargestFacts
<1>5. Wrote("done")
  BY <1>1, <1>2, <1>3, <1>4, WriteBodyStep DEF Close, Wrote
<1>6. OverrunNeedsFullBuffer'
  BY <1>1, <1>2 DEF OverrunNeedsFullBuffer
<1>7. QED
  BY <1>1, <1>2, <1>3, <1>5, <1>6, WroteInv

LEMMA PartLoopStep == ASSUME TransferInv, PartLoop PROVE TransferInv'
<1>1. /\ TypeOK /\ Places /\ Accounts /\ OverrunNeedsFullBuffer
      /\ stream \in Streams /\ sent \in Seq(Unit) /\ ranges \in Seq(Range_)
  BY Basics
<1>2. /\ pc = "data" /\ error = FALSE /\ Len(ranges) > 1 /\ k \in 1..Len(ranges)
      /\ resp \in Response /\ file \in Nat /\ overrun \in BOOLEAN /\ k \in Nat
      /\ Len(ranges) \in Nat /\ UNCHANGED <<file, fsize, query, shrinks>>
  <2>1. pc = "data" /\ UNCHANGED <<file, fsize, query, shrinks>>
    BY DEF PartLoop
  <2>2. error = FALSE
    BY <2>1, Basics
  <2>3. Len(ranges) > 1 /\ k \in 1..Len(ranges)
    BY <1>1, <2>1 DEF Places
  <2>4. QED
    BY <1>1, <2>1, <2>2, <2>3 DEF TypeOK
<1>3. {"part", "data", "close"} \subseteq Phases \ {"call", "header", "whole"}
  BY DEF Phases
<1>4. ranges[k].total \in Nat
  BY <1>1, <1>2, RangeFacts
<1>5. CASE FullPiece("data") /\ UNCHANGED <<k, overrun>>
  <2>1. /\ Wrote("data") /\ ranges' \in Seq(Range_) /\ Len(ranges') = Len(ranges)
        /\ \A i \in 1..Len(ranges) :
             ranges[i].total \in {BufSize - 1, BufSize} => ranges'[i] = ranges[i]
    BY <1>2, <1>3, <1>5, FullPieceStep
  <2>2. OverrunNeedsFullBuffer'
    BY <1>1, <1>5, <2>1 DEF OverrunNeedsFullBuffer
  <2>3. QED
    BY <1>2, <1>3, <1>5, <2>1, <2>2, WroteInv
<1>6. AfterPart \in {"part", "close"} /\ (NextPart => k' \in 1..Len(ranges))
  BY <1>2 DEF AfterPart, NextPart
<1>7. CASE /\ IsLast(ranges[k]) /\ stream' = AfterRead(ranges[k].total)
           /\ overrun' = (overrun \/ Len(LastPiece) > BufSize)
           /\ WriteBody(LastPiece, AfterPart) /\ NextPart /\ UNCHANGED ranges
  <2>1. /\ stream' \in Streams /\ GCount(ranges[k].total) \in 0..ranges[k].total
        /\ Bytes(ranges[k].total) \in Seq(Unit)
        /\ Len(Bytes(ranges[k].total)) = GCount(ranges[k].total)
    BY <1>1, <1>2, <1>4, <1>7, ReadFacts
  <2>2. Units(<<"crlf", 0>>, 2) \in Seq(Unit) /\ Len(Units(<<"crlf", 0>>, 2)) = 2
    BY UnitsFacts DEF Unit
  <2>3. LastPiece \in Seq(Unit) /\ Len(LastPiece) = GCount(ranges[k].total) + 2
    <3>1. /\ LastPiece \in Seq(Unit)
          /\ Len(LastPiece) = Len(Bytes(ranges[k].total)) + Len(Units(<<"crlf", 0>>, 2))
      BY <2>1, <2>2, ConcatFacts DEF LastPiece
    <3>2. QED
      BY <2>1, <2>2, <3>1
  <2>9. Len(LastPiece) <= LargestWrite
    <3> DEFINE n == ranges[k].total
    <3>1. n \in Nat /\ n <= BufSize /\ BufSize \in Nat /\ GCount(n) \in 0..n
      BY <1>4, <1>7, <2>1, TransferAssumption DEF IsLast
    <3>2. Len(LastPiece) = GCount(n) + 2
      BY <2>3
    <3> HIDE DEF n
    <3>3. QED
      BY <3>1, <3>2, LargestFacts
  <2>4. Wrote(AfterPart)
    BY <1>1, <1>2, <1>3, <1>6, <1>7, <2>1, <2>3, <2>9, WriteBodyStep DEF Wrote
  <2>5. Len(LastPiece) > BufSize => ranges[k].total \in {BufSize - 1, BufSize}
    <3>1. ranges[k].total <= BufSize /\ BufSize \in Nat
      BY <1>7, TransferAssumption DEF IsLast
    <3>2. QED
      BY <1>4, <2>1, <2>3, <3>1
  <2>6. overrun' \in BOOLEAN
    BY <1>2, <1>7
  <2>7. OverrunNeedsFullBuffer'
    <3>1. CASE overrun
      BY <1>1, <1>7, <3>1 DEF OverrunNeedsFullBuffer
    <3>2. CASE Len(LastPiece) > BufSize
      BY <1>2, <1>7, <2>5, <3>2 DEF OverrunNeedsFullBuffer
    <3>3. QED
      BY <1>7, <3>1, <3>2 DEF OverrunNeedsFullBuffer
  <2>8. QED
    BY <1>1, <1>2, <1>3, <1>6, <1>7, <2>4, <2>6, <2>7, WroteInv
<1>8. CASE /\ stream' \in {stream, AfterRead(ranges[k].total)}
           /\ pc' = AfterPart /\ NextPart /\ UNCHANGED <<resp, ranges, sent, error, overrun>>
  <2>1. stream' \in Streams
    BY <1>1, <1>2, <1>4, <1>8, ReadFacts
  <2>2. Accounts'
    <3>1. pc' \notin {"call", "header"}
      BY <1>6, <1>8
    <3>2. resp' = resp /\ sent' = sent /\ error' = error
      BY <1>8
    <3>3. QED
      BY <1>1, <3>1, <3>2, Zenon DEF Accounts
  <2>3. Wrote(AfterPart)
    BY <1>1, <1>2, <1>8, <2>1, <2>2 DEF Wrote
  <2>4. OverrunNeedsFullBuffer'
    BY <1>1, <1>8 DEF OverrunNeedsFullBuffer
  <2>5. QED
    BY <1>1, <1>2, <1>3, <1>6, <1>8, <2>3, <2>4, WroteInv
<1>9. QED
  BY <1>5, <1>7, <1>8 DEF PartLoop

\* What is not the coroutine.
LEMMA OtherStep == ASSUME TransferInv, Corrupted \/ Shrink PROVE TransferInv'
<1>1. /\ TypeOK /\ Places /\ Accounts /\ OverrunNeedsFullBuffer
  BY Basics
<1>2. /\ UNCHANGED <<fsize, query, resp, ranges, k, stream, sent, error, overrun>>
      /\ pc' \in Phases /\ file' \in Nat /\ shrinks' \in 0..MaxShrinks
      /\ pc' = "aborted" \/ (pc' = pc /\ pc # "call")
      /\ pc # "done"
  <2>1. CASE Corrupted
    BY <1>1, <2>1 DEF Corrupted, Phases, TypeOK
  <2>2. CASE Shrink
    <3>1. \A n \in 0..file - 1 : n \in Nat
      BY <1>1 DEF TypeOK
    <3>2. shrinks + 1 \in 0..MaxShrinks
      BY <1>1, <2>2, TransferAssumption DEF Shrink, TypeOK
    <3>3. QED
      BY <1>1, <2>2, <3>1, <3>2 DEF Shrink, TypeOK
  <2>3. QED
    BY <2>1, <2>2
<1>3. TypeOK'
  BY <1>1, <1>2, Zenon DEF TypeOK
<1>4. Places'
  BY <1>1, <1>2 DEF Places
<1>5. Accounts'
  BY <1>1, <1>2, Zenon DEF Accounts
<1>6. OverrunNeedsFullBuffer'
  BY <1>1, <1>2 DEF OverrunNeedsFullBuffer
<1>7. QED
  BY <1>3, <1>4, <1>5, <1>6 DEF TransferInv

LEMMA TransferInit == Init => TransferInv
<1> SUFFICES ASSUME Init PROVE TransferInv
  OBVIOUS
<1>1. query \in Query /\ query.chunked \in BOOLEAN
  BY TransferAssumption DEF Init, Query
<1>2. NewResponse \in Response /\ NewResponse.state = "header" /\ ~NewResponse.given
  BY DEF NewResponse, Response, ProState
<1>3. /\ resp \in Response /\ sent = <<>> /\ pc = "call"
      /\ \/ resp.state = "header" /\ ~resp.given
         \/ resp.state = "chunk" /\ ~resp.given
         \/ resp.state = "content_length" /\ resp.left = resp.length
  BY <1>1, <1>2, HeaderDataFacts DEF Init
<1>4. TypeOK
  <2>1. /\ file \in Nat /\ fsize \in FileSizes \cup {0} /\ query \in Queries /\ shrinks \in 0..MaxShrinks
    BY TransferAssumption DEF Init
  <2>2. pc \in Phases /\ k \in Nat /\ error \in BOOLEAN /\ overrun \in BOOLEAN
    BY DEF Init, Phases
  <2>3. /\ ranges \in Seq(Range_)
        /\ sent \in Seq({"byte", "part", "crlf", "close", "text"} \X Nat)
    BY DEF Init
  <2>4. stream \in [pos : Nat, eof : BOOLEAN, fail : BOOLEAN]
    BY DEF Init
  <2>5. QED
    BY <1>3, <2>1, <2>2, <2>3, <2>4 DEF TypeOK
<1>5. Accounts
  <2>1. Len(sent) = 0 /\ resp.left \in Nat /\ resp.length \in Nat /\ LargestWrite \in Nat
    BY <1>3, LargestFacts DEF Response
  <2>2. QED
    BY <1>3, <2>1 DEF Accounts
<1>6. Places /\ OverrunNeedsFullBuffer
  BY DEF Init, Places, OverrunNeedsFullBuffer
<1>7. QED
  BY <1>4, <1>5, <1>6 DEF TransferInv

\* A step of something else.
LEMMA TransferStutter == ASSUME TransferInv, UNCHANGED vars PROVE TransferInv'
<1>1. TypeOK'
  BY Zenon DEF vars, TransferInv, TypeOK
<1>2. Places'
  BY Zenon DEF vars, TransferInv, Places
<1>3. Accounts'
  BY Zenon DEF vars, TransferInv, Accounts
<1>4. OverrunNeedsFullBuffer'
  BY Zenon DEF vars, TransferInv, OverrunNeedsFullBuffer
<1>5. QED
  BY <1>1, <1>2, <1>3, <1>4 DEF TransferInv

LEMMA TransferInductive == Spec => []TransferInv
<1>1. TransferInv /\ [Next]_vars => TransferInv'
  <2> SUFFICES ASSUME TransferInv, [Next]_vars PROVE TransferInv'
    OBVIOUS
  <2>1. CASE UNCHANGED vars
    BY <2>1, TransferStutter
  <2>2. QED
    BY <2>1, CallStep, RefuseStep, WholeLoopStep, RangeHeaderStep, SingleLoopStep, PartHeadStep,
       PartLoopStep, CloseStep, OtherStep DEF Next, Step
<1>2. QED
  BY <1>1, TransferInit, PTL DEF Spec

-----------------------------------------------------------------------------
\* co_send_file(): the ranges stay ranges of size_t, the coroutine is in its list of
\* ranges whenever it looks at one, and the response is one of the states of its header.
THEOREM TransferTypeCorrect == Spec => []TypeOK
<1>1. TransferInv => TypeOK
  BY DEF TransferInv
<1>2. QED
  BY <1>1, TransferInductive, PTL

\* response_helper::body_data(), under every transfer: no more than the announced length
\* goes out, and when the response counts as finished all of it did, also when the file
\* shrinks, a range lies outside of it or its numbers wrap.  After a write that failed a
\* response may count as finished, but what the client misses is a part of that one write.
THEOREM AnnouncedIsSent == Spec => []FinishedIsAnnounced
<1>1. TransferInv => FinishedIsAnnounced
  <2> SUFFICES ASSUME TransferInv, resp.given
               PROVE  /\ Len(sent) <= resp.length
                      /\ resp.state = "finish" =>
                           /\ error => resp.length - Len(sent) <= LargestWrite
                           /\ ~error => Len(sent) = resp.length
    BY DEF FinishedIsAnnounced
  <2>1. Accounts /\ TypeOK
    BY Basics
  <2>2. /\ resp.state \in ProState /\ resp.left \in Nat /\ resp.length \in Nat
        /\ Len(sent) \in Nat /\ Len(<<>>) = 0 /\ LargestWrite \in Nat
    BY <2>1, LargestFacts DEF TypeOK, Response
  <2>3. CASE resp.state = "header"
    BY <2>1, <2>2, <2>3 DEF Accounts
  <2>4. CASE resp.state = "content_length"
    <3>1. Len(sent) + resp.left <= resp.length
      BY <2>1, <2>4 DEF Accounts
    <3>2. QED
      BY <2>2, <2>4, <3>1
  <2>5. CASE resp.state = "finish"
    BY <2>1, <2>2, <2>5 DEF Accounts
  <2>6. CASE resp.state = "chunk"
    BY <2>1, <2>6 DEF Accounts
  <2>7. QED
    BY <2>2, <2>3, <2>4, <2>5, <2>6 DEF ProState
<1>2. QED
  BY <1>1, TransferInductive, PTL

\* co_send_range(): for every buffer and every list of ranges, memory behind the buffer is
\* written only by a range of several that ends with less than two bytes of it free.
THEOREM OverrunIsThatCase == Spec => []OverrunNeedsFullBuffer
<1>1. TransferInv => OverrunNeedsFullBuffer
  BY DEF TransferInv
<1>2. QED
  BY <1>1, TransferInductive, PTL

-----------------------------------------------------------------------------
\* Sequences.

\* Two sequences that agree at every place are the same.
LEMMA SameSeq ==
  ASSUME NEW S, NEW s \in Seq(S), NEW t \in Seq(S), Len(s) = Len(t),
         \A i \in 1..Len(s) : s[i] = t[i]
  PROVE  s = t
  OBVIOUS

\* A prefix agrees at each of its places.
LEMMA PrefixByPlace ==
  ASSUME NEW S, NEW s \in Seq(S), NEW t \in Seq(S)
  PROVE  IsPrefix(s, t) <=> Len(s) <= Len(t) /\ \A i \in 1..Len(s) : s[i] = t[i]
<1>1. Len(s) \in Nat /\ Len(t) \in Nat
  OBVIOUS
<1>2. SubSeq(s, 1, Len(s)) = s
  OBVIOUS
<1>3. CASE Len(s) <= Len(t)
  <2> DEFINE p == SubSeq(t, 1, Len(s))
  <2>1. p \in Seq(S) /\ Len(p) = Len(s) /\ \A i \in 1..Len(s) : p[i] = t[i]
    BY <1>1, <1>3
  <2>2. IsPrefix(s, t) <=> s = p
    BY <1>2, <1>3 DEF IsPrefix
  <2> HIDE DEF p
  <2>3. s = p <=> \A i \in 1..Len(s) : s[i] = t[i]
    BY <2>1, SameSeq
  <2>4. QED
    BY <1>3, <2>2, <2>3
<1>4. CASE ~(Len(s) <= Len(t))
  BY <1>4 DEF IsPrefix
<1>5. QED
  BY <1>3, <1>4

\* A prefix of a prefix.
LEMMA PrefixTransitive ==
  ASSUME NEW S, NEW s \in Seq(S), NEW t \in Seq(S), NEW u \in Seq(S),
         IsPrefix(s, t), IsPrefix(t, u)
  PROVE  IsPrefix(s, u)
<1>1. Len(s) \in Nat /\ Len(t) \in Nat /\ Len(u) \in Nat
  OBVIOUS
<1>2. Len(s) <= Len(t) /\ \A i \in 1..Len(s) : s[i] = t[i]
  BY PrefixByPlace
<1>3. Len(t) <= Len(u) /\ \A i \in 1..Len(t) : t[i] = u[i]
  BY PrefixByPlace
<1>4. Len(s) <= Len(u) /\ \A i \in 1..Len(s) : s[i] = u[i]
  BY <1>1, <1>2, <1>3
<1>5. QED
  BY <1>4, PrefixByPlace

\* What is written can only make the body longer.
LEMMA PrefixOfConcat ==
  ASSUME NEW S, NEW s \in Seq(S), NEW t \in Seq(S)
  PROVE  IsPrefix(s, s \o t) /\ IsPrefix(s, s)
<1>1. /\ s \o t \in Seq(S) /\ Len(s \o t) = Len(s) + Len(t) /\ Len(s) \in Nat /\ Len(t) \in Nat
      /\ \A i \in 1..Len(s) : (s \o t)[i] = s[i]
  OBVIOUS
<1> DEFINE u == s \o t
<1>2. u \in Seq(S) /\ Len(s) <= Len(u) /\ \A i \in 1..Len(s) : s[i] = u[i]
  BY <1>1
<1> HIDE DEF u
<1>3. IsPrefix(s, u)
  BY <1>2, PrefixByPlace
<1>4. IsPrefix(s, s)
  BY <1>1, PrefixByPlace
<1>5. QED
  BY <1>3, <1>4 DEF u

\* A part of a write.
LEMMA PrefixOfWrite ==
  ASSUME NEW S, NEW s \in Seq(S), NEW t \in Seq(S), NEW m \in 0..Len(t)
  PROVE  s \o SubSeq(t, 1, m) \in Seq(S) /\ IsPrefix(s \o SubSeq(t, 1, m), s \o t)
<1> DEFINE p == SubSeq(t, 1, m)
           a == s \o p
           b == s \o t
<1>1. p \in Seq(S) /\ Len(p) = m /\ \A i \in 1..m : p[i] = t[i]
  OBVIOUS
<1>2. Len(s) \in Nat /\ m \in Nat /\ Len(t) \in Nat /\ m <= Len(t)
  OBVIOUS
<1> HIDE DEF p
<1>3. /\ a \in Seq(S) /\ Len(a) = Len(s) + m
      /\ \A i \in 1..Len(a) : a[i] = IF i <= Len(s) THEN s[i] ELSE p[i - Len(s)]
  BY <1>1, <1>2
<1>4. /\ b \in Seq(S) /\ Len(b) = Len(s) + Len(t)
      /\ \A i \in 1..Len(b) : b[i] = IF i <= Len(s) THEN s[i] ELSE t[i - Len(s)]
  BY <1>2
<1> HIDE DEF a, b
<1>5. \A i \in 1..Len(a) : i \in 1..Len(b) /\ (~(i <= Len(s)) => i - Len(s) \in 1..m)
  BY <1>2, <1>3, <1>4
<1>6. Len(a) <= Len(b) /\ \A i \in 1..Len(a) : a[i] = b[i]
  <2>1. Len(a) <= Len(b)
    BY <1>2, <1>3, <1>4
  <2>2. ASSUME NEW i \in 1..Len(a) PROVE a[i] = b[i]
    <3>1. CASE i <= Len(s)
      BY <1>3, <1>4, <1>5, <3>1
    <3>2. CASE ~(i <= Len(s))
      <4>1. p[i - Len(s)] = t[i - Len(s)]
        BY <1>1, <1>5, <3>2
      <4>2. QED
        BY <1>3, <1>4, <1>5, <3>2, <4>1
    <3>3. QED
      BY <3>1, <3>2
  <2>3. QED
    BY <2>1, <2>2
<1>7. IsPrefix(a, b)
  BY <1>3, <1>4, <1>6, PrefixByPlace
<1>8. QED
  BY <1>3, <1>7 DEF a, b, p

\* Concatenation is associative.
LEMMA ConcatAssociative ==
  ASSUME NEW S, NEW s \in Seq(S), NEW t \in Seq(S), NEW u \in Seq(S)
  PROVE  (s \o t) \o u = s \o (t \o u)
  OBVIOUS

\* The same for what a client has.
LEMMA UnitConcat ==
  \A a_1, a_2, a_3 \in Seq(Unit) : (a_1 \o a_2) \o a_3 = a_1 \o (a_2 \o a_3)
  BY ConcatAssociative

\* Nothing in front of, or behind, a sequence.
LEMMA ConcatEmpty ==
  ASSUME NEW S, NEW s \in Seq(S)
  PROVE  s \o <<>> = s /\ <<>> \o s = s
  OBVIOUS

-----------------------------------------------------------------------------
\* Pieces of the file.

\* A piece of the file and its length.
LEMMA RunFacts ==
  ASSUME NEW b \in Nat, NEW n \in Nat
  PROVE  Run(b, n) \in Seq(Unit) /\ Len(Run(b, n)) = n
<1>1. \A i \in 1..n : <<"byte", b + i - 1>> \in Unit
  BY DEF Unit
<1>2. QED
  BY <1>1 DEF Run

\* A piece of no bytes.
LEMMA RunEmpty == \A b : Run(b, 0) = <<>>
  BY DEF Run

\* The piece behind a piece.
LEMMA RunOn ==
  ASSUME NEW b \in Nat, NEW n \in Nat, NEW m \in Nat
  PROVE  Run(b, n) \o Run(b + n, m) = Run(b, n + m)
<1> DEFINE s == Run(b, n)
           t == Run(b + n, m)
           u == Run(b, n + m)
<1>1. s \in Seq(Unit) /\ Len(s) = n /\ t \in Seq(Unit) /\ Len(t) = m
      /\ u \in Seq(Unit) /\ Len(u) = n + m
  <2>1. b + n \in Nat /\ n + m \in Nat
    OBVIOUS
  <2>2. QED
    BY <2>1, RunFacts
<1>2. /\ \A i \in 1..n : s[i] = <<"byte", b + i - 1>>
      /\ \A i \in 1..m : t[i] = <<"byte", b + n + i - 1>>
      /\ \A i \in 1..n + m : u[i] = <<"byte", b + i - 1>>
  BY DEF Run
<1> HIDE DEF s, t, u
<1>3. /\ s \o t \in Seq(Unit) /\ Len(s \o t) = n + m
      /\ \A i \in 1..n + m : (s \o t)[i] = IF i <= n THEN s[i] ELSE t[i - n]
  BY <1>1
<1>4. ASSUME NEW i \in 1..n + m PROVE (s \o t)[i] = u[i]
  <2>1. CASE i <= n
    <3>1. i \in 1..n
      BY <2>1
    <3>2. QED
      BY <1>2, <1>3, <2>1, <3>1
  <2>2. CASE ~(i <= n)
    <3>1. i - n \in 1..m /\ b + n + (i - n) - 1 = b + i - 1
      BY <2>2
    <3>2. t[i - n] = <<"byte", b + i - 1>>
      BY <1>2, <3>1
    <3>3. QED
      BY <1>2, <1>3, <2>2, <3>2
  <2>3. QED
    BY <2>1, <2>2
<1>5. s \o t = u
  BY <1>1, <1>3, <1>4, SameSeq
<1>6. QED
  BY <1>5 DEF s, t, u

\* The bytes at the offsets of an interval are a piece of the file.
LEMMA ByteSeqOfInterval ==
  ASSUME NEW a \in Nat, NEW n \in Nat
  PROVE  ByteSeq(a..a + n - 1) = Run(a, n)
<1> DEFINE S == a..a + n - 1
           below(o) == {p \in S : p < o}
<1>1. \A x, y \in Int : Cardinality(x..y) = IF x > y THEN 0 ELSE y - x + 1
  BY FS_Interval
<1>2. Cardinality(S) = n
  <2>1. Cardinality(S) = IF a > a + n - 1 THEN 0 ELSE (a + n - 1) - a + 1
    BY <1>1
  <2>2. QED
    BY <2>1
<1>3. \A o \in S : Cardinality(below(o)) = o - a
  <2> TAKE o \in S
  <2>1. below(o) = a..o - 1
    OBVIOUS
  <2>2. Cardinality(below(o)) = IF a > o - 1 THEN 0 ELSE (o - 1) - a + 1
    <3>1. a \in Int /\ o - 1 \in Int
      OBVIOUS
    <3> HIDE DEF below
    <3>2. QED
      BY <1>1, <2>1, <3>1
  <2>3. QED
    BY <2>2
<1>4. ASSUME NEW i \in 1..n
      PROVE  (CHOOSE o \in S : Cardinality(below(o)) = i - 1) = a + i - 1
  <2>1. a + i - 1 \in S /\ Cardinality(below(a + i - 1)) = i - 1
    BY <1>3
  <2>2. \A o \in S : Cardinality(below(o)) = i - 1 => o = a + i - 1
    BY <1>3
  <2> HIDE DEF S, below
  <2>3. QED
    BY <2>1, <2>2
<1>5. ByteSeq(S) = [i \in 1..n |-> <<"byte", CHOOSE o \in S : Cardinality(below(o)) = i - 1>>]
  BY <1>2 DEF ByteSeq
<1>6. Run(a, n) = [i \in 1..n |-> <<"byte", a + i - 1>>]
  BY DEF Run
<1> HIDE DEF S, below
<1>7. ByteSeq(S) = Run(a, n)
  BY <1>4, <1>5, <1>6
<1>8. QED
  BY <1>7 DEF S

-----------------------------------------------------------------------------
\* Induction, and the parts of a body one after the other.

\* A set of numbers that is not empty has a least one.
LEMMA Least ==
  ASSUME NEW T, T \subseteq Nat, T # {}
  PROVE  \E x \in T : \A y \in T : x <= y
<1> DEFINE R == OpToRel(<, Nat)
<1>1. IsWellFoundedOn(R, Nat)
  BY NatLessThanWellFounded, Zenon
<1>2. \A x, y \in Nat : <<y, x>> \in R <=> y < x
  BY Zenon DEF OpToRel
<1> HIDE DEF R
<1>3. PICK x \in T : \A y \in T : ~ (<<y, x>> \in R)
  BY <1>1, WFMin
<1>4. \A y \in T : ~(y < x) /\ x \in Nat /\ y \in Nat
  BY <1>2, <1>3
<1>5. QED
  BY <1>4

\* What holds of 0 and passes on to n + 1, up to m, holds of every number up to m.
LEMMA Counting ==
  ASSUME NEW m \in Nat, NEW S, 0 \in S, \A n \in 0..m - 1 : n \in S => n + 1 \in S
  PROVE  0..m \subseteq S
<1> SUFFICES ASSUME (0..m) \ S # {} PROVE FALSE
  OBVIOUS
<1>1. PICK x \in (0..m) \ S : \A y \in (0..m) \ S : x <= y
  <2>1. (0..m) \ S \subseteq Nat
    OBVIOUS
  <2>2. QED
    BY <2>1, Least
<1>2. x # 0 /\ x \in 0..m
  OBVIOUS
<1>3. x - 1 \in 0..m - 1 /\ x - 1 \in 0..m /\ ~(x <= x - 1) /\ (x - 1) + 1 = x
  BY <1>2
<1>4. x - 1 \in S
  BY <1>1, <1>3
<1>5. QED
  BY <1>3, <1>4

\* f joins the first n sequences of q one after the other.
Joins(f, q, n) == f = [i \in 1..n |-> IF i = 1 THEN q[i] ELSE f[i - 1] \o q[i]]

\* What FlattenSeq joins step by step exists.
LEMMA JoinsExists ==
  ASSUME NEW q, NEW m \in Nat
  PROVE  \E f : Joins(f, q, m)
<1> DEFINE S == {k_1 \in Nat : \E f : Joins(f, q, k_1)}
<1>1. 0 \in S
  <2>1. Joins([i \in 1..0 |-> 0], q, 0)
    BY DEF Joins
  <2>2. QED
    BY <2>1
<1>2. ASSUME NEW n \in 0..m - 1, n \in S PROVE n + 1 \in S
  <2>1. PICK f : Joins(f, q, n)
    BY <1>2
  <2> DEFINE g == [i \in 1..n + 1 |-> IF i = 1 THEN q[i] ELSE f[i - 1] \o q[i]]
  <2>2. ASSUME NEW i \in 1..n PROVE g[i] = f[i]
    <3>1. f[i] = IF i = 1 THEN q[i] ELSE f[i - 1] \o q[i]
      BY <2>1, Zenon DEF Joins
    <3>2. i \in 1..n + 1
      OBVIOUS
    <3>3. QED
      BY <3>1, <3>2
  <2>3. \A i \in 1..n + 1 : i = 1 \/ (i - 1 \in 1..n)
    OBVIOUS
  <2>4. Joins(g, q, n + 1)
    BY <2>2, <2>3 DEF Joins
  <2>5. QED
    BY <2>4
<1> HIDE DEF S
<1>3. m \in S
  <2>1. 0..m \subseteq S
    BY <1>1, <1>2, Counting
  <2>2. QED
    BY <2>1
<1>4. QED
  BY <1>3 DEF S

\* It is determined by what is joined.
LEMMA JoinsUnique ==
  ASSUME NEW f, NEW q, NEW n \in Nat, Joins(f, q, n), NEW g, NEW p, NEW m \in Nat, Joins(g, p, m),
         m <= n, \A i \in 1..m : p[i] = q[i]
  PROVE  \A i \in 1..m : g[i] = f[i]
<1>1. \A i \in 1..n : f[i] = IF i = 1 THEN q[i] ELSE f[i - 1] \o q[i]
  BY Zenon DEF Joins
<1>2. \A i \in 1..m : g[i] = IF i = 1 THEN p[i] ELSE g[i - 1] \o p[i]
  BY Zenon DEF Joins
<1> DEFINE S == {i \in Nat : i = 0 \/ g[i] = f[i]}
<1>3. 0 \in S
  OBVIOUS
<1>4. ASSUME NEW i \in 0..m - 1, i \in S PROVE i + 1 \in S
  <2>1. i + 1 \in 1..m /\ i + 1 \in 1..n /\ i + 1 \in Nat /\ (i + 1) - 1 = i
    OBVIOUS
  <2>2. CASE i = 0
    BY <1>1, <1>2, <2>1, <2>2
  <2>3. CASE i # 0
    <3>1. g[i] = f[i] /\ i + 1 # 1 /\ p[i + 1] = q[i + 1]
      BY <1>4, <2>1, <2>3
    <3>2. g[i + 1] = g[i] \o p[i + 1] /\ f[i + 1] = f[i] \o q[i + 1]
      BY <1>1, <1>2, <2>1, <3>1
    <3>3. QED
      BY <2>1, <3>1, <3>2
  <2>4. QED
    BY <2>2, <2>3
<1> HIDE DEF S
<1>5. 0..m \subseteq S
  BY <1>3, <1>4, Counting
<1>6. \A i \in 1..m : i \in 0..m /\ i # 0
  OBVIOUS
<1>7. QED
  BY <1>5, <1>6 DEF S

\* The body up to a part: each one is put behind those before it.
LEMMA FlattenUpto ==
  ASSUME NEW T, NEW q \in Seq(Seq(T))
  PROVE  LET up(i) == FlattenSeq(SubSeq(q, 1, i))
         IN  /\ up(0) = <<>>
             /\ \A i \in 1..Len(q) : up(i) = up(i - 1) \o q[i]
             /\ \A i \in 0..Len(q) : up(i) \in Seq(T)
             /\ up(Len(q)) = FlattenSeq(q)
<1> DEFINE up(i) == FlattenSeq(SubSeq(q, 1, i))
           N == Len(q)
<1>1. N \in Nat /\ \A i \in 1..N : q[i] \in Seq(T)
  OBVIOUS
<1>2. PICK f : Joins(f, q, N)
  BY <1>1, JoinsExists
<1>3. \A i \in 1..N : f[i] = IF i = 1 THEN q[i] ELSE f[i - 1] \o q[i]
  BY <1>2, Zenon DEF Joins
<1>4. up(0) = <<>>
  BY DEF FlattenSeq
<1>5. ASSUME NEW i \in 1..N PROVE up(i) = f[i]
  <2> DEFINE p == SubSeq(q, 1, i)
             g == CHOOSE g : Joins(g, p, i)
  <2>1. i \in Nat /\ i <= N /\ Len(p) = i /\ \A j \in 1..i : p[j] = q[j]
    BY <1>1
  <2> HIDE DEF p, N
  <2>2. FlattenSeq(p) = g[i]
    BY <2>1 DEF FlattenSeq, Joins
  <2>3. Joins(g, p, i)
    BY <2>1, JoinsExists
  <2> HIDE DEF g
  <2>4. \A j \in 1..i : g[j] = f[j]
    BY <1>1, <1>2, <2>1, <2>3, JoinsUnique
  <2>5. QED
    BY <2>1, <2>2, <2>4 DEF p
<1>6. up(N) = FlattenSeq(q)
  <2>1. SubSeq(q, 1, N) = q
    OBVIOUS
  <2>2. QED
    BY <2>1
<1> HIDE DEF up, N
<1> DEFINE S == {i \in Nat : i = 0 \/ f[i] \in Seq(T)}
<1>7. ASSUME NEW i \in 0..N - 1, i \in S PROVE i + 1 \in S
  <2>1. i + 1 \in 1..N /\ i + 1 \in Nat /\ (i + 1) - 1 = i /\ q[i + 1] \in Seq(T)
    BY <1>1
  <2>2. CASE i = 0
    BY <1>3, <2>1, <2>2
  <2>3. CASE i # 0
    <3>1. f[i] \in Seq(T) /\ i + 1 # 1
      BY <1>7, <2>3
    <3>3. f[i + 1] = f[i] \o q[i + 1]
      BY <1>3, <2>1, <3>1
    <3>2. f[i] \o q[i + 1] \in Seq(T)
      BY <2>1, <3>1
    <3>4. QED
      BY <2>1, <3>2, <3>3
  <2>4. QED
    BY <2>2, <2>3
<1>8. 0 \in S
  OBVIOUS
<1> HIDE DEF S
<1>9. 0..N \subseteq S
  BY <1>1, <1>7, <1>8, Counting
<1>10. \A i \in 1..N : f[i] \in Seq(T)
  <2>1. \A i \in 1..N : i \in 0..N /\ i # 0
    OBVIOUS
  <2>2. QED
    BY <1>9, <2>1 DEF S
<1>11. \A i \in 0..N : up(i) \in Seq(T)
  <2>1. <<>> \in Seq(T) /\ \A i \in 0..N : i = 0 \/ i \in 1..N
    BY <1>1
  <2>2. QED
    BY <1>4, <1>5, <1>10, <2>1
<1>12. ASSUME NEW i \in 1..N PROVE up(i) = up(i - 1) \o q[i]
  <2>1. CASE i = 1
    <3>1. up(i) = q[i] /\ q[i] \in Seq(T) /\ up(i - 1) = <<>>
      <4>1. i - 1 = 0
        BY <2>1
      <4>2. up(i - 1) = <<>>
        BY <1>4, <4>1
      <4>3. up(i) = f[i] /\ f[i] = q[i] /\ q[i] \in Seq(T)
        BY <1>1, <1>3, <1>5, <2>1
      <4>4. QED
        BY <4>2, <4>3
    <3>2. QED
      BY <3>1, ConcatEmpty
  <2>2. CASE i # 1
    <3>1. i - 1 \in 1..N
      BY <1>1, <2>2
    <3>2. QED
      BY <1>3, <1>5, <2>2, <3>1
  <2>3. QED
    BY <2>1, <2>2
<1>13. QED
  BY <1>4, <1>6, <1>11, <1>12 DEF up, N

-----------------------------------------------------------------------------
\* What was asked for.

\* range_text_parsing(), text by text (response.h:625-681): a text is refused exactly when
\* not all of what it asks for is there, and otherwise its range is that and no more; not
\* of an empty file, where an open range is accepted.
THEOREM TextIsItsRange ==
  ASSUME NEW s \in RangeSpec \cup {None}, NEW size \in 0..SizeMod - 1,
         size = 0 /\ s # None => s.last # None
  PROVE  /\ Servable(s, size) <=> ParseSpec(s, size) # <<>>
         /\ ParseSpec(s, size) # <<>> =>
              LET r == ParseSpec(s, size)[1]
              IN  /\ r.begin \in Nat /\ r.total \in Nat \ {0} /\ r.begin + r.total <= size
                  /\ Asked(s, size) = r.begin..r.begin + r.total - 1
<1> DEFINE Holds(r) == /\ r.begin \in Nat /\ r.total \in Nat \ {0} /\ r.begin + r.total <= size
                       /\ Asked(s, size) = r.begin..r.begin + r.total - 1
<1>1. size \in Nat /\ SizeMod \in Nat \ {0} /\ size < SizeMod
  BY TransferAssumption
<1>2. CASE s = None \/ (s # None /\ s.first = None /\ s.last = None)
  BY <1>2 DEF ParseSpec, Servable
<1>3. CASE s # None /\ s.first = None /\ s.last # None
  <2>1. s.last \in Nat
    BY <1>1, <1>3 DEF RangeSpec, Number
  <2>2. Asked(s, size) = {i \in 0..size - 1 : i + s.last >= size}
    BY <1>3 DEF Asked
  <2>3. Servable(s, size) <=> Asked(s, size) # {} /\ s.last <= size
    BY <1>3 DEF Servable
  <2>4. CASE s.last = 0 \/ s.last > size
    <3>1. ParseSpec(s, size) = <<>>
      BY <1>3, <2>4 DEF ParseSpec
    <3>2. s.last = 0 => Asked(s, size) = {}
      BY <1>1, <2>2
    <3>3. QED
      BY <1>1, <2>1, <2>3, <2>4, <3>1, <3>2
  <2>5. CASE ~(s.last = 0 \/ s.last > size)
    <3> DEFINE r == [begin |-> size - s.last, end |-> size - 1, total |-> s.last]
    <3>1. ParseSpec(s, size) = <<r>>
      BY <1>3, <2>5 DEF ParseSpec
    <3>2. r.begin = size - s.last /\ r.total = s.last
      OBVIOUS
    <3>3. s.last \in 1..size
      BY <1>1, <2>1, <2>5
    <3>4. Asked(s, size) = size - s.last..size - s.last + s.last - 1
      BY <1>1, <2>2, <3>3
    <3>5. Holds(r)
      BY <1>1, <3>2, <3>3, <3>4
    <3>6. size - 1 \in Asked(s, size)
      BY <1>1, <2>2, <3>3
    <3>7. Servable(s, size)
      BY <1>1, <2>3, <3>3, <3>6
    <3> HIDE DEF r, Holds
    <3>8. QED
      BY <3>1, <3>5, <3>7 DEF Holds
  <2>6. QED
    BY <2>4, <2>5
<1>4. CASE s # None /\ s.first # None /\ s.last = None
  <2>1. s.first \in Nat /\ s.first < SizeMod
    BY <1>1, <1>4 DEF RangeSpec, Number
  <2>2. size > 0
    BY <1>1, <1>4
  <2>3. Asked(s, size) = {i \in 0..size - 1 : i >= s.first}
    BY <1>4 DEF Asked
  <2>4. Servable(s, size) <=> Asked(s, size) # {}
    BY <1>4 DEF Servable
  <2>5. Wrap(size - 1) = size - 1
    BY <1>1, <2>2 DEF Wrap
  <2>6. CASE s.first > size - 1
    <3>1. ParseSpec(s, size) = <<>>
      BY <1>4, <2>5, <2>6 DEF ParseSpec
    <3>2. Asked(s, size) = {}
      BY <1>1, <2>1, <2>3, <2>6
    <3>3. QED
      BY <2>4, <3>1, <3>2
  <2>7. CASE ~(s.first > size - 1)
    <3> DEFINE r == [begin |-> s.first, end |-> size - 1, total |-> size - s.first]
    <3>1. Wrap(size - s.first) = size - s.first
      BY <1>1, <2>1, <2>7 DEF Wrap
    <3>2. ParseSpec(s, size) = <<r>>
      BY <1>4, <2>5, <2>7, <3>1 DEF ParseSpec
    <3>3. r.begin = s.first /\ r.total = size - s.first
      OBVIOUS
    <3>4. Asked(s, size) = s.first..s.first + (size - s.first) - 1
      BY <1>1, <2>1, <2>3
    <3>5. Holds(r)
      BY <1>1, <2>1, <2>7, <3>3, <3>4
    <3>6. s.first \in Asked(s, size)
      BY <1>1, <2>1, <2>3, <2>7
    <3> HIDE DEF r, Holds
    <3>7. QED
      BY <2>4, <3>2, <3>5, <3>6 DEF Holds
  <2>8. QED
    BY <2>6, <2>7
<1>5. CASE s # None /\ s.first # None /\ s.last # None
  <2>1. s.first \in Nat /\ s.last \in Nat
    BY <1>1, <1>5 DEF RangeSpec, Number
  <2>2. Asked(s, size) = {i \in 0..size - 1 : i >= s.first /\ i <= s.last}
    BY <1>5 DEF Asked
  <2>3. Servable(s, size) <=> Asked(s, size) # {} /\ s.last < size
    BY <1>5 DEF Servable
  <2>4. CASE s.first > s.last \/ s.last >= size
    <3>1. ParseSpec(s, size) = <<>>
      BY <1>5, <2>4 DEF ParseSpec
    <3>2. s.first > s.last => Asked(s, size) = {}
      BY <1>1, <2>1, <2>2
    <3>3. QED
      BY <1>1, <2>1, <2>3, <2>4, <3>1, <3>2
  <2>5. CASE ~(s.first > s.last \/ s.last >= size)
    <3> DEFINE r == [begin |-> s.first, end |-> s.last, total |-> s.last - s.first + 1]
    <3>1. ParseSpec(s, size) = <<r>>
      BY <1>5, <2>5 DEF ParseSpec
    <3>2. r.begin = s.first /\ r.total = s.last - s.first + 1
      OBVIOUS
    <3>3. Asked(s, size) = s.first..s.first + (s.last - s.first + 1) - 1
      BY <1>1, <2>1, <2>2, <2>5
    <3>4. Holds(r)
      BY <1>1, <2>1, <2>5, <3>2, <3>3
    <3>5. s.first \in Asked(s, size)
      BY <1>1, <2>1, <2>2, <2>5
    <3>6. Servable(s, size)
      BY <1>1, <2>1, <2>3, <2>5, <3>5
    <3> HIDE DEF r, Holds
    <3>7. QED
      BY <3>1, <3>4, <3>6 DEF Holds
  <2>6. QED
    BY <2>4, <2>5
<1>6. QED
  BY <1>2, <1>3, <1>4, <1>5

\* The same for a range of the handler.
LEMMA OwnIsItsRange ==
  ASSUME NEW r \in [begin : 0..SizeMod - 1, total : 0..SizeMod - 1], NEW size \in 0..SizeMod - 1,
         r.begin + r.total <= SizeMod
  PROVE  /\ r.begin \in Nat /\ r.total \in Nat
         /\ r.total # 0 /\ OwnEnd(r) < size <=> r.total # 0 /\ r.begin + r.total <= size
         /\ r.begin + r.total <= size =>
              {i \in 0..size - 1 : i >= r.begin /\ i < r.begin + r.total}
                = r.begin..r.begin + r.total - 1
<1>1. r.begin \in Nat /\ r.total \in Nat /\ SizeMod \in Nat \ {0} /\ size \in Nat
  BY TransferAssumption
<1>2. r.total # 0 => OwnEnd(r) = r.begin + r.total - 1
  BY <1>1 DEF OwnEnd, Wrap
<1>3. r.total # 0 /\ OwnEnd(r) < size <=> r.total # 0 /\ r.begin + r.total <= size
  BY <1>1, <1>2
<1>4. r.begin + r.total <= size =>
        {i \in 0..size - 1 : i >= r.begin /\ i < r.begin + r.total} = r.begin..r.begin + r.total - 1
  BY <1>1
<1>5. QED
  BY <1>1, <1>3, <1>4

\* The sets are the offsets of the ranges.
OffsetsOf(sets) ==
  /\ Len(sets) = Len(Opened)
  /\ \A i \in 1..Len(Opened) :
       /\ Opened[i].begin \in Nat /\ Opened[i].total \in Nat \ {0}
       /\ Opened[i].begin + Opened[i].total <= fsize
       /\ sets[i] = Opened[i].begin..Opened[i].begin + Opened[i].total - 1

\* The bounds of the size of a file.
LEMMA SizeFacts ==
  /\ FileSizes \subseteq 0..SizeMod \div 2
  /\ \A n \in 0..SizeMod \div 2 : n \in 0..SizeMod - 1 /\ n \in Nat /\ n <= SizeMod \div 2
  /\ SizeMod \div 2 \in Nat
<1>1. SizeMod \in Nat \ {0} /\ FileSizes \subseteq 0..SizeMod \div 2
  BY TransferAssumption
<1>2. SizeMod \div 2 \in Nat /\ SizeMod \div 2 <= SizeMod - 1
  BY <1>1
<1>3. QED
  BY <1>1, <1>2

\* The ranges of the handler, when they are accepted, are the ones it asked for.
LEMMA OwnOpened ==
  ASSUME query \in Queries, fsize \in 0..SizeMod \div 2, Plain, Accepted, query.own # <<>>
  PROVE  \E sets : OffsetsOf(sets) /\ Wanted = BodyOf(sets)
<1> DEFINE own == query.own
           Of(r) == {i \in 0..fsize - 1 : i >= r.begin /\ i < r.begin + r.total}
           sets == [i \in 1..Len(own) |-> Of(own[i])]
           Range0 == [begin : 0..SizeMod - 1, total : 0..SizeMod - 1]
<1>1. fsize \in 0..SizeMod - 1 /\ fsize \in Nat
  BY SizeFacts
<1>2. own \in Seq(Range0)
  BY TransferAssumption DEF Query
<1>3. /\ ~query.written /\ query.open /\ FromFileRangeOk(own, fsize)
      /\ \A i \in 1..Len(own) : own[i].begin + own[i].total <= SizeMod
  BY DEF Accepted, Plain
<1>4. /\ Opened = [i \in 1..Len(own) |->
                     [begin |-> own[i].begin, end |-> OwnEnd(own[i]), total |-> own[i].total]]
      /\ Len(own) \in Nat
  BY <1>2 DEF Opened, FromFileRange
<1>5. ASSUME NEW i \in 1..Len(own)
      PROVE  /\ own[i].begin \in Nat /\ own[i].total \in Nat \ {0}
             /\ own[i].begin + own[i].total <= fsize
             /\ Of(own[i]) = own[i].begin..own[i].begin + own[i].total - 1
  <2> DEFINE r == own[i]
  <2>1. r \in Range0
    <3> HIDE DEF own, Range0
    <3>1. QED
      BY <1>2
  <2>2. r.begin + r.total <= SizeMod /\ r.total # 0 /\ OwnEnd(r) < fsize
    BY <1>3 DEF FromFileRangeOk
  <2> HIDE DEF r
  <2>3. /\ r.begin \in Nat /\ r.total \in Nat /\ r.total # 0 /\ r.begin + r.total <= fsize
        /\ Of(r) = r.begin..r.begin + r.total - 1
    BY <1>1, <2>1, <2>2, OwnIsItsRange
  <2>4. QED
    BY <2>3 DEF r
<1>6. OffsetsOf(sets)
  <2>1. Len(sets) = Len(own) /\ Len(Opened) = Len(own)
    BY <1>4
  <2>2. \A i \in 1..Len(own) : /\ sets[i] = Of(own[i])
                               /\ Opened[i].begin = own[i].begin /\ Opened[i].total = own[i].total
    BY <1>4
  <2> HIDE DEF sets, Of, own
  <2>3. QED
    BY <1>5, <2>1, <2>2 DEF OffsetsOf
<1>7. Wanted = BodyOf(sets)
  <2>1. \A i \in 1..Len(own) : own[i].total # 0 /\ own[i].begin + own[i].total <= fsize
    BY <1>5
  <2>2. QED
    BY <1>3, <2>1 DEF Wanted
<1>8. QED
  BY <1>6, <1>7

\* The ranges of a header, when they are accepted, are the ones its texts mean.
LEMMA TextsOpened ==
  ASSUME query \in Queries, fsize \in 0..SizeMod \div 2, Plain, Accepted, query.own = <<>>
  PROVE  \E sets : OffsetsOf(sets) /\ Wanted = BodyOf(sets)
<1> DEFINE specs == query.header.specs
           sets == [i \in 1..Len(specs) |-> Asked(specs[i], fsize)]
<1>1. fsize \in 0..SizeMod - 1 /\ fsize \in Nat
  BY SizeFacts
<1>2. specs \in Seq(RangeSpec \cup {None})
  BY TransferAssumption DEF Query, Header
<1>3. /\ ~query.written /\ query.open /\ query.header.present /\ RangeTextOk(query.header, fsize)
      /\ fsize = 0 => \A i \in 1..Len(specs) : specs[i] # None => specs[i].last # None
  BY DEF Accepted, Plain
<1>4. /\ Opened = [i \in 1..Len(specs) |-> ParseSpec(specs[i], fsize)[1]]
      /\ Len(specs) \in Nat
  BY <1>2 DEF Opened, RangeTextParsing
<1>5. ASSUME NEW i \in 1..Len(specs)
      PROVE  LET r == ParseSpec(specs[i], fsize)[1]
             IN  /\ Servable(specs[i], fsize)
                 /\ r.begin \in Nat /\ r.total \in Nat \ {0} /\ r.begin + r.total <= fsize
                 /\ Asked(specs[i], fsize) = r.begin..r.begin + r.total - 1
  <2> DEFINE s == specs[i]
  <2>1. s \in RangeSpec \cup {None}
    <3> HIDE DEF specs
    <3>1. QED
      BY <1>2
  <2>2. ParseSpec(s, fsize) # <<>> /\ (fsize = 0 /\ s # None => s.last # None)
    BY <1>3 DEF RangeTextOk
  <2> HIDE DEF s
  <2>3. LET r == ParseSpec(s, fsize)[1]
        IN  /\ Servable(s, fsize)
            /\ r.begin \in Nat /\ r.total \in Nat \ {0} /\ r.begin + r.total <= fsize
            /\ Asked(s, fsize) = r.begin..r.begin + r.total - 1
    BY <1>1, <2>1, <2>2, TextIsItsRange
  <2>4. QED
    BY <2>3, Zenon DEF s
<1>6. OffsetsOf(sets)
  <2>1. Len(sets) = Len(specs) /\ Len(Opened) = Len(specs)
    BY <1>4
  <2>2. \A i \in 1..Len(specs) : /\ sets[i] = Asked(specs[i], fsize)
                                 /\ Opened[i] = ParseSpec(specs[i], fsize)[1]
    BY <1>4
  <2> HIDE DEF sets, specs
  <2>3. QED
    BY <1>5, <2>1, <2>2 DEF OffsetsOf
<1>7. Wanted = BodyOf(sets)
  <2>1. query.header.units /\ \A i \in 1..Len(specs) : Servable(specs[i], fsize)
    BY <1>3, <1>5 DEF RangeTextOk
  <2>2. QED
    BY <1>3, <2>1 DEF Wanted
<1>8. QED
  BY <1>6, <1>7

\* The body that is wanted, by the ranges as the code has computed them.
OpenedBody ==
  IF Len(Opened) = 1 THEN Run(Opened[1].begin, Opened[1].total)
  ELSE FlattenSeq(Parts) \o Units(<<"close", 0>>, CloseSize)

\* When the ranges are accepted, what is wanted is the body of these ranges.
LEMMA AcceptedBody ==
  ASSUME query \in Queries, fsize \in 0..SizeMod \div 2, Plain, Accepted
  PROVE  /\ Opened \in Seq(Range_) /\ Len(Opened) \in Nat \ {0}
         /\ \A i \in 1..Len(Opened) :
              /\ Opened[i].begin \in Nat /\ Opened[i].total \in Nat \ {0}
              /\ Opened[i].begin + Opened[i].total <= fsize
         /\ Wanted = OpenedBody
<1>1. PICK sets : OffsetsOf(sets) /\ Wanted = BodyOf(sets)
  BY OwnOpened, TextsOpened
<1>2. Opened \in Seq(Range_) /\ Len(Opened) # 0
  <2>1. fsize \in 0..SizeMod - 1
    BY SizeFacts
  <2>2. CASE query.own # <<>>
    <3>1. query.own \in Seq([begin : 0..SizeMod - 1, total : 0..SizeMod - 1])
      BY TransferAssumption DEF Query
    <3>2. Len(query.own) \in Nat \ {0}
      BY <2>2, <3>1
    <3>3. Opened = FromFileRange(query.own) /\ Len(Opened) = Len(query.own)
      BY <2>2, <3>2 DEF Opened, FromFileRange
    <3>4. QED
      BY <2>1, <3>2, <3>3, RangesType
  <2>3. CASE query.own = <<>>
    <3>1. RangeTextOk(query.header, fsize) /\ query.header.specs # <<>>
      BY <2>3 DEF Accepted, Plain, RangeTextOk
    <3>2. query.header.specs \in Seq(RangeSpec \cup {None})
      BY TransferAssumption DEF Query, Header
    <3>3. Len(query.header.specs) \in Nat \ {0}
      BY <3>1, <3>2
    <3>4. Opened = RangeTextParsing(query.header, fsize) /\ Len(Opened) = Len(query.header.specs)
      BY <2>3, <3>3 DEF Opened, RangeTextParsing
    <3>5. QED
      BY <2>1, <3>1, <3>3, <3>4, RangesType
  <2>4. QED
    BY <2>2, <2>3
<1>3. Len(Opened) \in Nat
  BY <1>2
<1>4. /\ Len(sets) = Len(Opened)
      /\ \A i \in 1..Len(Opened) : ByteSeq(sets[i]) = Run(Opened[i].begin, Opened[i].total)
  BY <1>1, ByteSeqOfInterval DEF OffsetsOf
<1>5. BodyOf(sets) = OpenedBody
  <2>1. CASE Len(Opened) = 1
    BY <1>4, <2>1 DEF BodyOf, OpenedBody
  <2>2. CASE Len(Opened) # 1
    <3>1. [i \in 1..Len(sets) |-> Part(i, ByteSeq(sets[i]))] = Parts
      BY <1>4 DEF Parts
    <3>2. QED
      BY <1>4, <2>2, <3>1 DEF BodyOf, OpenedBody
  <2>3. QED
    BY <2>1, <2>2
<1>6. QED
  BY <1>1, <1>2, <1>3, <1>5 DEF OffsetsOf

-----------------------------------------------------------------------------
\* The parts of a body of several ranges.

OpenedFits ==
  /\ Opened \in Seq(Range_) /\ Len(Opened) \in Nat \ {0}
  /\ \A i \in 1..Len(Opened) :
       /\ Opened[i].begin \in Nat /\ Opened[i].total \in Nat \ {0}
       /\ Opened[i].begin + Opened[i].total <= fsize

Heading(i) == Units(<<"part", i>>, PartSize)
Crlf       == Units(<<"crlf", 0>>, 2)
Closing    == Units(<<"close", 0>>, CloseSize)

\* The framing of a body of several ranges.
LEMMA FramingFacts ==
  /\ \A i \in Nat : Heading(i) \in Seq(Unit) /\ Len(Heading(i)) = PartSize
  /\ Crlf \in Seq(Unit) /\ Len(Crlf) = 2
  /\ Closing \in Seq(Unit) /\ Len(Closing) = CloseSize
  /\ PartSize \in Nat \ {0} /\ CloseSize \in Nat \ {0}
<1>1. PartSize \in Nat \ {0} /\ CloseSize \in Nat \ {0}
  BY TransferAssumption DEF PartSize, CloseSize
<1>2. ASSUME NEW i \in Nat PROVE Heading(i) \in Seq(Unit) /\ Len(Heading(i)) = PartSize
  <2>1. <<"part", i>> \in Unit
    BY DEF Unit
  <2>2. QED
    BY <1>1, <2>1, UnitsFacts DEF Heading
<1>3. Crlf \in Seq(Unit) /\ Len(Crlf) = 2
  <2>1. <<"crlf", 0>> \in Unit
    BY DEF Unit
  <2>2. QED
    BY <2>1, UnitsFacts DEF Crlf
<1>4. Closing \in Seq(Unit) /\ Len(Closing) = CloseSize
  <2>1. <<"close", 0>> \in Unit
    BY DEF Unit
  <2>2. QED
    BY <1>1, <2>1, UnitsFacts DEF Closing
<1>5. QED
  BY <1>1, <1>2, <1>3, <1>4

\* A part is its heading, its bytes and a CRLF.
LEMMA PartFacts ==
  ASSUME OpenedFits, NEW i \in 1..Len(Opened)
  PROVE  LET bytes == Run(Opened[i].begin, Opened[i].total)
         IN  /\ Parts[i] = (Heading(i) \o bytes) \o Crlf /\ Parts[i] \in Seq(Unit)
             /\ bytes \in Seq(Unit) /\ Len(bytes) = Opened[i].total
             /\ Len(Parts[i]) = PartSize + Opened[i].total + 2
<1> DEFINE bytes == Run(Opened[i].begin, Opened[i].total)
<1>1. Opened[i].begin \in Nat /\ Opened[i].total \in Nat /\ i \in Nat
  BY DEF OpenedFits
<1>2. bytes \in Seq(Unit) /\ Len(bytes) = Opened[i].total
  BY <1>1, RunFacts
<1>3. Parts[i] = (Heading(i) \o bytes) \o Crlf
  BY DEF Parts, Part, Heading, Crlf
<1> HIDE DEF bytes
<1> DEFINE h == Heading(i)
<1>4. h \in Seq(Unit) /\ Len(h) = PartSize /\ Crlf \in Seq(Unit) /\ Len(Crlf) = 2
  BY <1>1, FramingFacts
<1> HIDE DEF h
<1>5. h \o bytes \in Seq(Unit) /\ Len(h \o bytes) = PartSize + Opened[i].total
  BY <1>2, <1>4
<1>6. /\ (h \o bytes) \o Crlf \in Seq(Unit)
      /\ Len((h \o bytes) \o Crlf) = PartSize + Opened[i].total + 2
  <2> DEFINE s == h \o bytes
  <2>1. s \in Seq(Unit) /\ Len(s) = PartSize + Opened[i].total
    BY <1>5
  <2> HIDE DEF s
  <2>2. s \o Crlf \in Seq(Unit) /\ Len(s \o Crlf) = PartSize + Opened[i].total + 2
    <3>1. s \o Crlf \in Seq(Unit) /\ Len(s \o Crlf) = Len(s) + Len(Crlf)
      BY <1>4, <2>1, ConcatFacts
    <3>2. QED
      BY <1>4, <2>1, <3>1
  <2>3. QED
    BY <2>2 DEF s
<1>7. QED
  BY <1>2, <1>3, <1>6 DEF bytes, h

\* The parts up to the i-th are those before it and the i-th.
LEMMA UptoFacts ==
  ASSUME OpenedFits
  PROVE  /\ Upto(0) = <<>>
         /\ \A i \in 1..Len(Opened) : Upto(i) = Upto(i - 1) \o Parts[i]
         /\ \A i \in 0..Len(Opened) : Upto(i) \in Seq(Unit)
         /\ Upto(Len(Opened)) = FlattenSeq(Parts)
<1>1. Len(Opened) \in Nat
  BY DEF OpenedFits
<1>2. Parts \in Seq(Seq(Unit)) /\ Len(Parts) = Len(Opened)
  <2> DEFINE N == Len(Opened)
             P(i) == Part(i, Run(Opened[i].begin, Opened[i].total))
  <2>1. \A i \in 1..N : Parts[i] \in Seq(Unit) /\ Parts[i] = P(i)
    BY PartFacts DEF Parts
  <2>2. Parts = [i \in 1..N |-> P(i)] /\ N \in Nat
    BY <1>1 DEF Parts
  <2> HIDE DEF N, P
  <2>3. \A i \in 1..N : P(i) \in Seq(Unit)
    BY <2>1
  <2>4. Parts \in Seq(Seq(Unit)) /\ Len(Parts) = N
    BY <2>2, <2>3
  <2>5. QED
    BY <2>4 DEF N
<1>3. LET up(i) == FlattenSeq(SubSeq(Parts, 1, i))
      IN  /\ up(0) = <<>>
          /\ \A i \in 1..Len(Parts) : up(i) = up(i - 1) \o Parts[i]
          /\ \A i \in 0..Len(Parts) : up(i) \in Seq(Unit)
          /\ up(Len(Parts)) = FlattenSeq(Parts)
  BY <1>2, FlattenUpto
<1>4. QED
  BY <1>2, <1>3 DEF Upto

\* What the client has up to a part is the beginning of the body.
LEMMA UptoIsPrefix ==
  ASSUME OpenedFits, NEW i \in 0..Len(Opened)
  PROVE  IsPrefix(Upto(i), Upto(Len(Opened)))
<1> DEFINE n == Len(Opened)
           S == {j \in Nat : j <= n => IsPrefix(Upto(n - j), Upto(n))}
<1>1. n \in Nat
  BY DEF OpenedFits
<1>2. \A j \in 0..n : Upto(j) \in Seq(Unit)
  BY UptoFacts
<1>3. 0 \in S
  <2>1. n - 0 = n /\ Upto(n) \in Seq(Unit)
    BY <1>1, <1>2
  <2>2. IsPrefix(Upto(n - 0), Upto(n))
    BY <2>1, PrefixOfConcat
  <2>3. QED
    BY <2>2
<1>4. ASSUME NEW j \in 0..n - 1, j \in S PROVE j + 1 \in S
  <2> DEFINE m == n - j
  <2>1. m \in 1..n /\ m - 1 \in 0..n /\ m \in 0..n /\ n \in 0..n /\ n - (j + 1) = m - 1
        /\ j \in Nat /\ j <= n
    BY <1>1
  <2>2. IsPrefix(Upto(m), Upto(n))
    BY <1>4, <2>1
  <2>3. Parts[m] \in Seq(Unit) /\ Upto(m) = Upto(m - 1) \o Parts[m]
    BY <2>1, PartFacts, UptoFacts
  <2> HIDE DEF m, n, S
  <2>4. IsPrefix(Upto(m - 1), Upto(m))
    BY <1>2, <2>1, <2>3, PrefixOfConcat
  <2>5. IsPrefix(Upto(m - 1), Upto(n))
    BY <1>2, <2>1, <2>2, <2>4, PrefixTransitive
  <2>6. QED
    BY <2>1, <2>5 DEF S
<1> HIDE DEF S, n
<1>5. 0..n \subseteq S
  BY <1>1, <1>3, <1>4, Counting
<1>6. n - i \in 0..n /\ n - (n - i) = i /\ n - i <= n
  BY <1>1 DEF n
<1>7. IsPrefix(Upto(i), Upto(n))
  <2>1. n - i \in S
    BY <1>5, <1>6
  <2>2. QED
    BY <1>6, <2>1 DEF S
<1>8. QED
  BY <1>7 DEF n

\* The bytes of the first ranges, as Content has them.
ContentUpto(i) == UNION {{j} \X (1..Opened[j].total) : j \in 1..i}

\* The bytes of the ranges, counted part by part.
LEMMA ContentGrows ==
  ASSUME OpenedFits, NEW i \in 1..Len(Opened), IsFiniteSet(ContentUpto(i - 1))
  PROVE  /\ IsFiniteSet(ContentUpto(i))
         /\ Cardinality(ContentUpto(i)) = Cardinality(ContentUpto(i - 1)) + Opened[i].total
<1> DEFINE t == Opened[i].total
           A == ContentUpto(i - 1)
           B == {i} \X (1..t)
<1>1. t \in Nat
  BY DEF OpenedFits
<1>2. ContentUpto(i) = A \cup B
  <2>1. 1..i = (1..i - 1) \cup {i}
    BY DEF OpenedFits
  <2>2. QED
    BY <2>1 DEF ContentUpto
<1>3. A \cap B = {}
  <2>1. \A x \in A : x[1] \in 1..i - 1
    BY DEF ContentUpto
  <2>2. \A x \in B : x[1] = i
    OBVIOUS
  <2>3. i \notin 1..i - 1
    BY DEF OpenedFits
  <2>4. QED
    BY <2>1, <2>2, <2>3
<1>4. IsFiniteSet(B) /\ Cardinality(B) = t
  <2>1. IsFiniteSet({i}) /\ Cardinality({i}) = 1
    BY FS_Singleton
  <2>2. IsFiniteSet(1..t) /\ Cardinality(1..t) = t
    <3> HIDE DEF t
    <3>1. 1 \in Int /\ t \in Int
      BY <1>1
    <3>2. IsFiniteSet(1..t) /\ Cardinality(1..t) = IF 1 > t THEN 0 ELSE t - 1 + 1
      BY <3>1, FS_Interval
    <3>3. QED
      BY <1>1, <3>2
  <2>3. IsFiniteSet({i} \X (1..t)) /\ Cardinality({i} \X (1..t)) = 1 * t
    <3> DEFINE X == {i}
               Y == 1..t
    <3>1. IsFiniteSet(X) /\ IsFiniteSet(Y) /\ Cardinality(X) = 1 /\ Cardinality(Y) = t
      BY <2>1, <2>2
    <3> HIDE DEF X, Y
    <3>2. IsFiniteSet(X \X Y) /\ Cardinality(X \X Y) = 1 * t
      BY <3>1, FS_Product
    <3>3. QED
      BY <3>2 DEF X, Y
  <2>4. QED
    BY <1>1, <2>3
<1> HIDE DEF A, B, t
<1>5. IsFiniteSet(A \cup B) /\ Cardinality(A \cup B) = Cardinality(A) + Cardinality(B) - Cardinality({})
  <2>1. IsFiniteSet(A)
    BY DEF A
  <2>2. QED
    BY <1>3, <1>4, <2>1, FS_Union
<1>6. Cardinality({}) = 0 /\ Cardinality(A) \in Nat
  <2>1. IsFiniteSet(A)
    BY DEF A
  <2>2. QED
    BY <2>1, FS_EmptySet, FS_CardinalityType
<1>7. IsFiniteSet(A \cup B) /\ Cardinality(A \cup B) = Cardinality(A) + t
  BY <1>1, <1>4, <1>5, <1>6
<1>8. QED
  BY <1>2, <1>7 DEF A, t

\* The length of the parts up to the i-th.
LEMMA UptoLength ==
  ASSUME OpenedFits
  PROVE  \A i \in 0..Len(Opened) :
           /\ IsFiniteSet(ContentUpto(i))
           /\ Len(Upto(i)) = i * (PartSize + 2) + Cardinality(ContentUpto(i))
<1> DEFINE n == Len(Opened)
           P == PartSize + 2
           Holds(i) == /\ IsFiniteSet(ContentUpto(i))
                       /\ Len(Upto(i)) = i * P + Cardinality(ContentUpto(i))
           S == {i \in Nat : Holds(i)}
<1>1. n \in Nat /\ P \in Nat
  BY FramingFacts DEF OpenedFits
<1>2. \A i, p \in Nat : (i + 1) * p = i * p + p /\ 0 * p = 0 /\ i * p \in Nat
  OBVIOUS
<1>3. 0 \in S
  <2>1. ContentUpto(0) = {}
    BY DEF ContentUpto
  <2>2. IsFiniteSet({}) /\ Cardinality({}) = 0
    BY FS_EmptySet
  <2>3. Upto(0) = <<>>
    BY UptoFacts
  <2> HIDE DEF P
  <2>4. Len(Upto(0)) = 0 /\ Cardinality(ContentUpto(0)) = 0 /\ 0 * P + 0 = 0
    <3>1. 0 * P = 0 /\ 0 * P + 0 = 0
      BY <1>1, <1>2
    <3>2. QED
      <4>1. Len(Upto(0)) = 0
        BY <2>3
      <4>2. Cardinality(ContentUpto(0)) = 0
        BY <2>1, <2>2
      <4>3. QED
        BY <3>1, <4>1, <4>2
  <2>5. Holds(0)
    BY <2>1, <2>2, <2>4
  <2>6. QED
    BY <2>5
<1>4. ASSUME NEW i \in 0..n - 1, i \in S PROVE i + 1 \in S
  <2> DEFINE t == Opened[i + 1].total
  <2>1. /\ i + 1 \in 1..n /\ i \in Nat /\ i + 1 \in Nat /\ (i + 1) - 1 = i /\ i \in 0..n
    BY <1>1
  <2>2. IsFiniteSet(ContentUpto(i)) /\ Len(Upto(i)) = i * P + Cardinality(ContentUpto(i))
    BY <1>4
  <2>3. t \in Nat
    BY <2>1 DEF OpenedFits
  <2>4. /\ IsFiniteSet(ContentUpto(i + 1))
        /\ Cardinality(ContentUpto(i + 1)) = Cardinality(ContentUpto(i)) + t
    <3>1. IsFiniteSet(ContentUpto((i + 1) - 1))
      BY <2>1, <2>2
    <3>2. /\ IsFiniteSet(ContentUpto(i + 1))
          /\ Cardinality(ContentUpto(i + 1)) = Cardinality(ContentUpto((i + 1) - 1)) + t
      BY <2>1, <3>1, ContentGrows
    <3>3. QED
      BY <2>1, <3>2
  <2>5. Upto(i + 1) = Upto(i) \o Parts[i + 1] /\ Upto(i) \in Seq(Unit)
    BY <2>1, UptoFacts
  <2>6. Parts[i + 1] \in Seq(Unit) /\ Len(Parts[i + 1]) = PartSize + t + 2
    BY <2>1, PartFacts
  <2>7. Len(Upto(i + 1)) = Len(Upto(i)) + Len(Parts[i + 1])
    BY <2>5, <2>6, ConcatFacts
  <2>8. Cardinality(ContentUpto(i)) \in Nat
    BY <2>2, FS_CardinalityType
  <2>9. Len(Parts[i + 1]) = P + t
    <3>1. PartSize \in Nat
      BY FramingFacts
    <3>2. QED
      BY <2>3, <2>6, <3>1
  <2> HIDE DEF P, t, n
  <2>10. (i + 1) * P = i * P + P /\ i * P \in Nat
    BY <1>1, <1>2, <2>1
  <2>11. Len(Upto(i + 1)) = (i + 1) * P + Cardinality(ContentUpto(i + 1))
    BY <1>1, <2>2, <2>3, <2>4, <2>7, <2>8, <2>9, <2>10
  <2>12. QED
    BY <2>1, <2>4, <2>11
<1> HIDE DEF S, n
<1>5. 0..n \subseteq S
  BY <1>1, <1>3, <1>4, Counting
<1>6. QED
  BY <1>5 DEF S, n

\* The Content-Length computed in advance is the length of the body (response.h:363-395).
LEMMA LengthAhead ==
  ASSUME OpenedFits, ranges = Opened, Len(Opened) # 1, Len(OpenedBody) < SizeMod
  PROVE  ContentLength = Len(OpenedBody)
<1> DEFINE n == Len(Opened)
           c == Cardinality(ContentUpto(n))
<1>1. n \in Nat /\ n \in 0..n
  BY DEF OpenedFits
<1>2. Content = ContentUpto(n)
  BY DEF Content, ContentUpto
<1>3. Len(Upto(n)) = n * (PartSize + 2) + c /\ Upto(n) \in Seq(Unit)
  BY <1>1, UptoLength, UptoFacts
<1>4. OpenedBody = Upto(n) \o Closing
  BY UptoFacts DEF OpenedBody, Closing
<1>5. Len(OpenedBody) = Len(Upto(n)) + CloseSize
  BY <1>3, <1>4, FramingFacts, ConcatFacts
<1>6. ContentLength = Wrap(Len(OpenedBody))
  BY <1>2, <1>3, <1>5 DEF ContentLength
<1>7. Len(OpenedBody) \in Nat
  BY <1>3, <1>5, FramingFacts
<1>8. QED
  BY <1>6, <1>7, TransferAssumption DEF Wrap

-----------------------------------------------------------------------------
\* What is wanted, case by case.

\* What the client gets when its ranges are not sent.
LEMMA RefusedWanted ==
  ASSUME query \in Queries, fsize \in 0..SizeMod \div 2, Plain,
         ~query.written, query.open, query.own = <<>>, query.header.present,
         ~RangeTextOk(query.header, fsize)
  PROVE  Wanted = Text
<1> DEFINE specs == query.header.specs
<1>1. specs \in Seq(RangeSpec \cup {None}) /\ fsize \in 0..SizeMod - 1
  BY TransferAssumption, SizeFacts DEF Query, Header
<1>2. fsize = 0 => \A i \in 1..Len(specs) : specs[i] # None => specs[i].last # None
  BY DEF Plain
<1>3. ASSUME query.header.units PROVE ~(\A i \in 1..Len(specs) : Servable(specs[i], fsize))
  <2>1. PICK i \in 1..Len(specs) : ParseSpec(specs[i], fsize) = <<>>
    BY <1>3 DEF RangeTextOk
  <2> DEFINE s == specs[i]
  <2>2. s \in RangeSpec \cup {None}
    <3> HIDE DEF specs
    <3>1. QED
      BY <1>1
  <2>3. ParseSpec(s, fsize) = <<>> /\ (fsize = 0 /\ s # None => s.last # None)
    BY <1>2, <2>1
  <2> HIDE DEF s
  <2>4. ~Servable(s, fsize)
    BY <1>1, <2>2, <2>3, TextIsItsRange
  <2>5. QED
    BY <2>4 DEF s
<1>4. QED
  BY <1>3 DEF Wanted, Text

\* What is wanted, for each kind of request.
LEMMA WantedCases ==
  ASSUME query \in Queries, fsize \in 0..SizeMod \div 2, Plain
  PROVE  /\ Wanted \in Seq(Unit)
         /\ query.written \/ ~query.open => Wanted = <<>>
         /\ AskedWhole => Wanted = Run(0, fsize)
         /\ Accepted => Wanted = OpenedBody /\ OpenedFits
<1>1. fsize \in Nat /\ query \in Query
  BY SizeFacts, TransferAssumption
<1>2. CASE query.written \/ ~query.open
  <2>1. Wanted = <<>> /\ <<>> \in Seq(Unit)
    BY <1>2 DEF Wanted
  <2>2. ~AskedWhole /\ ~Accepted
    BY <1>1, <1>2 DEF AskedWhole, Accepted, Query
  <2>3. QED
    BY <2>1, <2>2
<1>3. CASE AskedWhole
  <2>1. Wanted = ByteSeq(0..fsize - 1)
    BY <1>3 DEF AskedWhole, Wanted
  <2>2. ByteSeq(0..0 + fsize - 1) = Run(0, fsize)
    BY <1>1, ByteSeqOfInterval
  <2>3. 0..0 + fsize - 1 = 0..fsize - 1
    BY <1>1
  <2>4. Wanted = Run(0, fsize) /\ Run(0, fsize) \in Seq(Unit)
    BY <1>1, <2>1, <2>2, <2>3, RunFacts
  <2>5. ~Accepted /\ ~(query.written \/ ~query.open)
    BY <1>3 DEF AskedWhole, Accepted
  <2>6. QED
    BY <2>4, <2>5
<1>4. CASE Accepted
  <2>1. OpenedFits /\ Wanted = OpenedBody
    BY <1>4, AcceptedBody DEF OpenedFits
  <2>2. OpenedBody \in Seq(Unit)
    <3>1. CASE Len(Opened) = 1
      <4>1. Opened[1].begin \in Nat /\ Opened[1].total \in Nat
        BY <2>1, <3>1 DEF OpenedFits
      <4>2. QED
        BY <3>1, <4>1, RunFacts DEF OpenedBody
    <3>2. CASE Len(Opened) # 1
      <4>1. Len(Opened) \in 0..Len(Opened)
        BY <2>1 DEF OpenedFits
      <4>2. FlattenSeq(Parts) \in Seq(Unit) /\ Closing \in Seq(Unit)
        BY <2>1, <4>1, UptoFacts, FramingFacts
      <4>3. OpenedBody = FlattenSeq(Parts) \o Closing
        BY <3>2 DEF OpenedBody, Closing
      <4>4. QED
        BY <4>2, <4>3, ConcatFacts
    <3>3. QED
      BY <3>1, <3>2
  <2>3. ~AskedWhole /\ ~(query.written \/ ~query.open)
    BY <1>4 DEF AskedWhole, Accepted
  <2>4. QED
    BY <2>1, <2>2, <2>3
<1>5. CASE ~Accepted /\ ~(query.written \/ ~query.open) /\ query.own # <<>>
  <2> DEFINE own == query.own
  <2>1. own \in Seq([begin : 0..SizeMod - 1, total : 0..SizeMod - 1]) /\ fsize \in 0..SizeMod - 1
    BY <1>1, SizeFacts DEF Query
  <2>2. PICK i \in 1..Len(own) : ~(own[i].total # 0 /\ OwnEnd(own[i]) < fsize)
    BY <1>1, <1>5 DEF Accepted, FromFileRangeOk, Query
  <2>3. own[i].begin + own[i].total <= SizeMod
    BY DEF Plain
  <2>4. own[i] \in [begin : 0..SizeMod - 1, total : 0..SizeMod - 1]
    <3> DEFINE R == [begin : 0..SizeMod - 1, total : 0..SizeMod - 1]
    <3>1. own \in Seq(R)
      BY <2>1
    <3> HIDE DEF own, R
    <3>2. own[i] \in R
      BY <3>1
    <3>3. QED
      BY <3>2 DEF R
  <2> DEFINE r == own[i]
  <2> HIDE DEF r
  <2>5. ~(r.total # 0 /\ r.begin + r.total <= fsize)
    <3>1. r \in [begin : 0..SizeMod - 1, total : 0..SizeMod - 1] /\ r.begin + r.total <= SizeMod
          /\ ~(r.total # 0 /\ OwnEnd(r) < fsize)
      BY <2>2, <2>3, <2>4 DEF r
    <3>2. QED
      BY <2>1, <3>1, OwnIsItsRange
  <2>6. ~(\A j \in 1..Len(own) : own[j].total # 0 /\ own[j].begin + own[j].total <= fsize)
    BY <2>5 DEF r
  <2>7. Wanted = <<>> /\ <<>> \in Seq(Unit)
    BY <1>5, <2>6 DEF Wanted
  <2>8. ~AskedWhole
    BY <1>5 DEF AskedWhole
  <2>9. QED
    BY <1>5, <2>7, <2>8
<1>6. CASE ~Accepted /\ ~(query.written \/ ~query.open) /\ query.own = <<>> /\ query.header.present
  <2>1. ~RangeTextOk(query.header, fsize) /\ ~query.written /\ query.open
    BY <1>6 DEF Accepted
  <2>2. Wanted = Text
    BY <1>6, <2>1, RefusedWanted
  <2>3. ~AskedWhole
    BY <1>6 DEF AskedWhole
  <2>4. QED
    BY <1>6, <2>2, <2>3, TextFacts
<1>7. QED
  BY <1>2, <1>3, <1>4, <1>5, <1>6 DEF AskedWhole

-----------------------------------------------------------------------------
\* A write, and what the client has after it.

\* What is wanted does not change while it is sent.
LEMMA SameRequest ==
  ASSUME query' = query, fsize' = fsize
  PROVE  /\ Wanted' = Wanted /\ Opened' = Opened /\ (Accepted' <=> Accepted)
         /\ (AskedWhole' <=> AskedWhole) /\ \A i : Upto(i)' = Upto(i)
         /\ Upto(k - 1)' = Upto(k' - 1)
<1>1. Wanted' = Wanted
  BY DEF Wanted
<1>2. Opened' = Opened
  BY DEF Opened
<1>3. (Accepted' <=> Accepted) /\ (AskedWhole' <=> AskedWhole)
  BY DEF Accepted, AskedWhole
<1>4. \A i : Upto(i)' = Upto(i)
  BY <1>2 DEF Upto, Parts
<1>5. Upto(k - 1)' = Upto(k' - 1)
  BY <1>2 DEF Upto, Parts
<1>6. QED
  BY <1>1, <1>2, <1>3, <1>4, <1>5

\* A transfer that is plain after a step was so before.
LEMMA PlainBefore ==
  ASSUME query' = query, fsize' = fsize, shrinks' = shrinks, overrun => overrun', Plain'
  PROVE  Plain
  BY SameRequest DEF Plain

\* A response that waits for nothing is finished, or was left open.
LEMMA NothingLeft ==
  ASSUME NEW r \in Response, NEW n \in Nat,
         r.state \in {"content_length", "chunk", "finish"},
         r.given <=> r.state # "chunk",
         r.given => r.length = n,
         r.state = "content_length" => r.left > 0 /\ n + r.left = r.length
  PROVE  r.state = IF r.given THEN "finish" ELSE "chunk"
  BY DEF Response

\* A write that goes on in the body that is wanted sends all of it, or it fails and the
\* client has a part of it.
LEMMA BodyGoes ==
  ASSUME TypeOK, Accounts, error = FALSE, Answering, sent \in Seq(Unit), Wanted \in Seq(Unit),
         NEW body \in Seq(Unit), body # <<>>, IsPrefix(sent \o body, Wanted),
         NEW next, WriteBody(body, next), query' = query, fsize' = fsize
  PROVE  \/ sent' = sent \o body /\ pc' = next /\ error' = FALSE /\ Answering'
         \/ pc' = "done" /\ error' = TRUE /\ IsPrefix(sent', Wanted')
<1> DEFINE n == Len(body)
           size == BodySize(resp, n)
           w == Len(Wanted)
<1>1. n \in Nat /\ n > 0 /\ Len(sent) \in Nat /\ w \in Nat
  OBVIOUS
<1>2. sent \o body \in Seq(Unit) /\ Len(sent \o body) = Len(sent) + n
  BY ConcatFacts
<1>3. Len(sent) + n <= w
  BY <1>2 DEF IsPrefix
<1>4. /\ resp \in Response /\ resp.left \in Nat /\ resp.length \in Nat
      /\ resp.state \in {"content_length", "chunk", "finish"}
      /\ (resp.given <=> resp.state # "chunk")
      /\ (resp.given => resp.length = w)
      /\ resp.state = "content_length" => resp.left > 0
  BY DEF TypeOK, Response, Answering
<1>5. /\ resp.state = "content_length" => Len(sent) + resp.left = w
      /\ resp.state = "finish" => Len(sent) = w
  BY <1>4 DEF Accounts
<1> HIDE DEF n, w
<1>6. resp.state # "finish" /\ (resp.state = "content_length" => n <= resp.left)
  BY <1>1, <1>3, <1>4, <1>5
<1>7. /\ size = n
      /\ \/ resp.state = "chunk" /\ BodyData(resp, n) = resp
         \/ /\ resp.state = "content_length" /\ resp.left > n
            /\ BodyData(resp, n) = [resp EXCEPT !.left = resp.left - n]
         \/ /\ resp.state = "content_length"
            /\ BodyData(resp, n) = [resp EXCEPT !.left = 0, !.state = "finish"]
  <2>1. CASE resp.state = "chunk"
    BY <2>1 DEF BodySize, BodyData
  <2>2. CASE resp.state = "content_length" /\ resp.left > n
    BY <2>2 DEF BodySize, BodyData
  <2>3. CASE resp.state = "content_length" /\ ~(resp.left > n)
    <3>1. resp.left = n
      BY <1>1, <1>4, <1>6, <2>3
    <3>2. QED
      BY <2>3, <3>1 DEF BodySize, BodyData
  <2>4. QED
    BY <1>4, <1>6, <2>1, <2>2, <2>3
<1>8. SubSeq(body, 1, size) = body
  BY <1>7 DEF n
<1>9. /\ resp' = BodyData(resp, n)
      /\ \/ sent' = sent \o body /\ pc' = next /\ error' = error
         \/ \E m \in 0..Len(body) - 1 :
              sent' = sent \o SubSeq(body, 1, m) /\ pc' = "done" /\ error' = TRUE
  BY <1>8 DEF WriteBody, n
<1>10. Wanted' = Wanted
  BY SameRequest
<1>11. Answering'
  <2>1. /\ resp'.state \in {"content_length", "chunk", "finish"}
        /\ (resp'.given <=> resp'.state # "chunk")
        /\ resp'.given = resp.given /\ resp'.length = resp.length
        /\ resp'.state = "content_length" => resp'.left > 0
    <3>1. CASE resp.state = "chunk" /\ BodyData(resp, n) = resp
      BY <1>4, <1>9, <3>1
    <3>2. CASE /\ resp.state = "content_length" /\ resp.left > n
               /\ BodyData(resp, n) = [resp EXCEPT !.left = resp.left - n]
      <4>1. /\ resp'.state = "content_length" /\ resp'.left = resp.left - n
            /\ resp'.given = resp.given /\ resp'.length = resp.length
        BY <1>4, <1>9, <3>2 DEF Response
      <4>2. resp.left - n > 0
        BY <1>1, <1>4, <3>2
      <4>3. QED
        BY <1>4, <3>2, <4>1, <4>2
    <3>3. CASE /\ resp.state = "content_length"
               /\ BodyData(resp, n) = [resp EXCEPT !.left = 0, !.state = "finish"]
      <4>1. /\ resp'.state = "finish" /\ resp'.given = resp.given /\ resp'.length = resp.length
        BY <1>4, <1>9, <3>3 DEF Response
      <4>2. QED
        BY <1>4, <3>3, <4>1
    <3>4. QED
      BY <1>7, <3>1, <3>2, <3>3
  <2>2. resp'.given => resp'.length = Len(Wanted')
    BY <1>4, <1>10, <2>1 DEF w
  <2>3. QED
    BY <2>1, <2>2 DEF Answering
<1>12. ASSUME NEW m \in 0..Len(body) - 1, sent' = sent \o SubSeq(body, 1, m)
       PROVE  IsPrefix(sent', Wanted')
  <2>1. m \in 0..Len(body)
    BY <1>1 DEF n
  <2>2. sent' \in Seq(Unit) /\ IsPrefix(sent', sent \o body)
    BY <1>12, <2>1, PrefixOfWrite
  <2>3. QED
    BY <1>2, <1>10, <2>2, PrefixTransitive
<1>13. QED
  BY <1>9, <1>11, <1>12

\* WantedCases, when the file has been opened.
LEMMA WantedNext ==
  (query \in Queries /\ fsize \in 0..SizeMod \div 2 /\ Plain =>
     /\ Wanted \in Seq(Unit)
     /\ query.written \/ ~query.open => Wanted = <<>>
     /\ AskedWhole => Wanted = Run(0, fsize))'
<1>1. query \in Queries /\ fsize \in 0..SizeMod \div 2 /\ Plain =>
        /\ Wanted \in Seq(Unit)
        /\ query.written \/ ~query.open => Wanted = <<>>
        /\ AskedWhole => Wanted = Run(0, fsize)
  BY WantedCases
<1>2. QED
  BY <1>1, PTL

\* RefusedWanted, when the file has been opened.
LEMMA RefusedNext ==
  (query \in Queries /\ fsize \in 0..SizeMod \div 2 /\ Plain
     /\ ~query.written /\ query.open /\ query.own = <<>> /\ query.header.present
     /\ ~RangeTextOk(query.header, fsize) => Wanted = Text)'
<1>1. query \in Queries /\ fsize \in 0..SizeMod \div 2 /\ Plain
        /\ ~query.written /\ query.open /\ query.own = <<>> /\ query.header.present
        /\ ~RangeTextOk(query.header, fsize) => Wanted = Text
  BY RefusedWanted
<1>2. QED
  BY <1>1, PTL

\* Who has nothing has a prefix.
LEMMA EmptyIsPrefix ==
  ASSUME NEW S, NEW t \in Seq(S)
  PROVE  IsPrefix(<<>>, t)
<1> DEFINE s == <<>>
<1>1. s \in Seq(S) /\ Len(s) = 0 /\ Len(t) \in Nat
  OBVIOUS
<1> HIDE DEF s
<1>2. Len(s) <= Len(t) /\ \A i \in 1..Len(s) : s[i] = t[i]
  BY <1>1
<1>3. IsPrefix(s, t)
  BY <1>1, <1>2, PrefixByPlace
<1>4. QED
  BY <1>3 DEF s

\* A shorter piece of the file is a prefix of a longer one.
LEMMA RunPrefix ==
  ASSUME NEW b \in Nat, NEW n \in Nat, NEW m \in Nat, n <= m
  PROVE  IsPrefix(Run(b, n), Run(b, m))
<1>1. m - n \in Nat /\ b + n \in Nat /\ n + (m - n) = m
  OBVIOUS
<1>2. Run(b, n) \o Run(b + n, m - n) = Run(b, n + (m - n))
  BY <1>1, RunOn
<1>3. Run(b, n) \in Seq(Unit) /\ Run(b + n, m - n) \in Seq(Unit)
  BY <1>1, RunFacts
<1>4. QED
  BY <1>1, <1>2, <1>3, PrefixOfConcat

\* What read() takes from a stream that has not failed.
LEMMA ReadMore ==
  ASSUME file \in Nat, stream \in Streams, ~stream.fail, stream.pos <= file, NEW n \in Nat \ {0}
  PROVE  /\ GCount(n) \in Nat /\ GCount(n) <= n /\ stream.pos + GCount(n) <= file
         /\ GCount(n) < n => stream.pos + GCount(n) = file
         /\ stream.pos + n <= file => GCount(n) = n
         /\ GCount(n) = 0 => stream.pos = file
         /\ Bytes(n) = Run(stream.pos, GCount(n))
         /\ AfterRead(n) = [pos |-> stream.pos + GCount(n), eof |-> GCount(n) < n,
                            fail |-> GCount(n) < n]
<1>1. stream.pos \in Nat
  BY DEF Streams
<1>2. GCount(n) = IF stream.pos >= file THEN 0
                  ELSE IF n < file - stream.pos THEN n ELSE file - stream.pos
  BY DEF GCount
<1>3. Bytes(n) = Run(stream.pos, GCount(n))
  BY DEF Bytes, Run
<1>4. AfterRead(n) = [pos |-> stream.pos + GCount(n), eof |-> GCount(n) < n,
                      fail |-> GCount(n) < n]
  BY DEF AfterRead
<1>5. /\ GCount(n) \in Nat /\ GCount(n) <= n /\ stream.pos + GCount(n) <= file
      /\ GCount(n) < n => stream.pos + GCount(n) = file
      /\ stream.pos + n <= file => GCount(n) = n
      /\ GCount(n) = 0 => stream.pos = file
  BY <1>1, <1>2
<1>6. QED
  BY <1>3, <1>4, <1>5

\* A seek in the file arrives.
LEMMA SeekIn ==
  ASSUME stream \in Streams, ~stream.fail, NEW p \in Nat, p < SizeMod \div 2
  PROVE  Seek(stream, p) = [pos |-> p, eof |-> FALSE, fail |-> FALSE]
<1>1. SizeMod \div 2 \in Nat
  BY SizeFacts
<1>2. ~(p >= SizeMod \div 2)
  BY <1>1
<1>3. QED
  BY <1>2 DEF Seek

-----------------------------------------------------------------------------
\* The steps of DeliveryInv.

\* What DeliveryInv says of every phase.
LEMMA DeliveryBasics ==
  ASSUME DeliveryInv
  PROVE  /\ TransferInv /\ TypeOK /\ Places /\ Accounts
         /\ query \in Queries /\ fsize \in 0..SizeMod \div 2 /\ file \in Nat
         /\ stream \in Streams /\ sent \in Seq(Unit) /\ ranges \in Seq(Range_)
         /\ resp \in Response /\ overrun \in BOOLEAN
         /\ pc # "done" => error = FALSE
<1>1. TransferInv
  BY DEF DeliveryInv
<1>2. 0 \in 0..SizeMod \div 2
  BY SizeFacts
<1>3. QED
  BY <1>1, <1>2, Basics, SizeFacts DEF TypeOK

\* The transfer is over with an error: what the client has is the beginning of the body.
LEMMA EndedByError ==
  ASSUME TransferInv', pc' = "done", error' = TRUE, Plain' => IsPrefix(sent', Wanted')
  PROVE  DeliveryInv'
  BY DEF DeliveryInv, Delivered

\* The transfer is over, and the client has the body.
LEMMA EndedWhole ==
  ASSUME TransferInv', pc' = "done", error' = FALSE,
         Plain' => Answering' /\ sent' = Wanted' /\ Wanted' \in Seq(Unit)
  PROVE  DeliveryInv'
<1>1. ASSUME Plain'
      PROVE  /\ IsPrefix(sent', Wanted') /\ sent' = Wanted'
             /\ Answered'
  <2>1. Answering' /\ sent' = Wanted' /\ Wanted' \in Seq(Unit)
    BY <1>1
  <2>2. IsPrefix(sent', Wanted')
    BY <2>1, PrefixOfConcat
  <2>3. resp' \in Response /\ Len(sent') \in Nat
    BY <2>1 DEF TransferInv, TypeOK
  <2>4. resp'.state = "content_length" => Len(sent') + resp'.left = resp'.length
    BY DEF TransferInv, Accounts
  <2> DEFINE r == resp'
             n == Len(sent')
  <2>5. /\ r.state \in {"content_length", "chunk", "finish"}
        /\ (r.given <=> r.state # "chunk")
        /\ (r.given => r.length = n)
        /\ r.state = "content_length" => r.left > 0 /\ n + r.left = r.length
    BY <2>1, <2>4 DEF Answering
  <2> HIDE DEF r, n
  <2>6. r.state = IF r.given THEN "finish" ELSE "chunk"
    BY <2>3, <2>5, NothingLeft DEF r, n
  <2>7. QED
    BY <2>1, <2>2, <2>6 DEF r, Answered
<1>2. QED
  BY <1>1 DEF DeliveryInv, Delivered

\* The transfer goes on.
LEMMA GoesOn ==
  ASSUME TransferInv', pc' \notin {"call", "done"},
         Plain' => file' = fsize' /\ (pc' \in {"header", "part"} => ~stream'.fail) /\ Delivered'
  PROVE  DeliveryInv'
  BY DEF DeliveryInv

\* The loop of a whole file.
LEMMA DeliveryWhole == ASSUME DeliveryInv, WholeLoop PROVE DeliveryInv'
<1>1. /\ TransferInv /\ TypeOK /\ Accounts
      /\ query \in Queries /\ fsize \in 0..SizeMod \div 2 /\ file \in Nat /\ overrun \in BOOLEAN
      /\ stream \in Streams /\ sent \in Seq(Unit) /\ resp \in Response /\ BufSize \in Nat \ {0}
  BY DeliveryBasics, TransferAssumption
<1>2. pc = "whole" /\ UNCHANGED <<file, fsize, query, ranges, k, overrun, shrinks>>
  BY DEF WholeLoop
<1>3. TransferInv' /\ error = FALSE
  BY <1>1, <1>2, WholeLoopStep, DeliveryBasics
<1>4. Wanted' = Wanted /\ (AskedWhole' <=> AskedWhole) /\ (Plain' => Plain)
  BY <1>2, SameRequest, PlainBefore
<1> DEFINE c == GCount(BufSize)
<1>5. ASSUME Plain
      PROVE  /\ file = fsize /\ AskedWhole /\ Answering /\ fsize > 0
             /\ stream.pos \in Nat /\ stream.pos <= fsize /\ sent = Run(0, stream.pos)
             /\ stream.eof => stream.pos = fsize
             /\ stream.fail => stream.eof
             /\ Wanted = Run(0, fsize) /\ Wanted \in Seq(Unit)
  <2>1. Delivered /\ file = fsize
    BY <1>2, <1>5 DEF DeliveryInv
  <2>2. /\ AskedWhole /\ Answering /\ fsize > 0
        /\ stream.pos <= fsize /\ sent = Run(0, stream.pos)
        /\ stream.eof => stream.pos = fsize
        /\ stream.fail => stream.eof
    BY <1>2, <2>1 DEF Delivered
  <2>3. Wanted = Run(0, fsize) /\ Wanted \in Seq(Unit)
    BY <1>1, <1>5, <2>2, WantedCases
  <2>4. QED
    BY <1>1, <2>1, <2>2, <2>3 DEF Streams
<1>6. CASE /\ stream.eof \/ c = 0
           /\ pc' = "done" /\ UNCHANGED <<resp, sent, error>>
  <2>1. ASSUME Plain' PROVE Answering' /\ sent' = Wanted' /\ Wanted' \in Seq(Unit)
    <3>1. Plain
      BY <1>4, <2>1
    <3>2. stream.pos = fsize
      <4>1. CASE stream.eof
        BY <1>5, <3>1, <4>1
      <4>2. CASE ~stream.eof
        <5>1. ~stream.fail /\ c = 0 /\ stream.pos <= file
          BY <1>5, <1>6, <3>1, <4>2
        <5>2. stream.pos = file
          BY <1>1, <5>1, ReadMore
        <5>3. QED
          BY <1>5, <3>1, <5>2
      <4>3. QED
        BY <4>1, <4>2
    <3>3. Answering'
      BY <1>4, <1>5, <1>6, <3>1 DEF Answering
    <3>4. QED
      BY <1>4, <1>5, <1>6, <3>1, <3>2, <3>3
  <2>2. error' = FALSE
    BY <1>3, <1>6
  <2>3. QED
    BY <1>3, <1>6, <2>1, <2>2, EndedWhole
<1>7. CASE /\ ~stream.eof /\ c # 0
           /\ stream' = AfterRead(BufSize) /\ WriteBody(Bytes(BufSize), "whole")
  <2>1. ASSUME Plain
        PROVE  /\ \/ /\ sent' = Run(0, stream'.pos) /\ pc' = "whole" /\ error' = FALSE /\ Answering'
                     /\ stream'.pos <= fsize
                     /\ stream'.eof => stream'.pos = fsize
                     /\ stream'.fail => stream'.eof
                  \/ pc' = "done" /\ error' = TRUE /\ IsPrefix(sent', Wanted')
    <3>1. ~stream.fail /\ stream.pos <= file
      BY <1>5, <1>7, <2>1
    <3>2. /\ c \in Nat /\ c <= BufSize /\ stream.pos + c <= file
          /\ c < BufSize => stream.pos + c = file
          /\ Bytes(BufSize) = Run(stream.pos, c)
          /\ AfterRead(BufSize) = [pos |-> stream.pos + c, eof |-> c < BufSize, fail |-> c < BufSize]
      BY <1>1, <3>1, ReadMore
    <3> HIDE DEF c
    <3>3. /\ stream.pos \in Nat /\ c > 0 /\ stream.pos + c \in Nat /\ stream.pos + c <= fsize
          /\ 0 + stream.pos = stream.pos /\ fsize \in Nat
      BY <1>1, <1>5, <1>7, <2>1, <3>2
    <3> DEFINE body == Run(stream.pos, c)
    <3>4. body \in Seq(Unit) /\ Len(body) = c
      BY <3>2, <3>3, RunFacts
    <3>5. sent \o body = Run(0, stream.pos + c)
      <4>1. Run(0, stream.pos) \o Run(0 + stream.pos, c) = Run(0, stream.pos + c)
        BY <3>2, <3>3, RunOn
      <4>2. QED
        BY <1>5, <2>1, <3>3, <4>1
    <3>6. IsPrefix(sent \o body, Wanted)
      BY <1>5, <2>1, <3>3, <3>5, RunPrefix
    <3>7. body # <<>>
      BY <3>3, <3>4
    <3>8. WriteBody(body, "whole")
      BY <1>7, <3>2
    <3> HIDE DEF body
    <3>9. \/ sent' = sent \o body /\ pc' = "whole" /\ error' = FALSE /\ Answering'
          \/ pc' = "done" /\ error' = TRUE /\ IsPrefix(sent', Wanted')
      BY <1>1, <1>2, <1>3, <1>5, <2>1, <3>4, <3>6, <3>7, <3>8, BodyGoes
    <3>10. /\ stream'.pos = stream.pos + c
           /\ stream'.eof <=> c < BufSize
           /\ stream'.fail <=> c < BufSize
      <4> DEFINE p == stream.pos + c
                 short == c < BufSize
      <4>1. stream' = [pos |-> p, eof |-> short, fail |-> short]
        BY <1>7, <3>2
      <4> HIDE DEF p, short
      <4>2. stream'.pos = p /\ stream'.eof = short /\ stream'.fail = short
        BY <4>1, Zenon
      <4>3. QED
        BY <4>2, Zenon DEF p, short
    <3>11. stream'.eof => stream'.pos = fsize
      BY <1>5, <2>1, <3>2, <3>10
    <3>12. QED
      BY <3>3, <3>5, <3>9, <3>10, <3>11
  <2>2. pc' \in {"whole", "done"} /\ (error' = TRUE \/ error' = FALSE) /\ (error' => pc' = "done")
        /\ (pc' = "done" => error' = TRUE)
    BY <1>3, <1>7 DEF WriteBody
  <2>3. CASE pc' = "whole"
    <3>1. ASSUME Plain' PROVE file' = fsize' /\ Delivered'
      <4>1. Plain
        BY <1>4, <3>1
      <4>2. /\ sent' = Run(0, stream'.pos) /\ Answering' /\ stream'.pos <= fsize
            /\ stream'.eof => stream'.pos = fsize
            /\ stream'.fail => stream'.eof
        BY <2>1, <2>3, <4>1
      <4>3. AskedWhole' /\ fsize' = fsize /\ file' = fsize' /\ fsize > 0
        BY <1>2, <1>4, <1>5, <4>1
      <4>4. QED
        BY <2>3, <4>2, <4>3 DEF Delivered
    <3>2. QED
      BY <1>3, <2>3, <3>1, GoesOn
  <2>4. CASE pc' = "done"
    BY <1>3, <1>4, <2>1, <2>2, <2>4, EndedByError
  <2>5. QED
    BY <2>2, <2>3, <2>4
<1>8. QED
  BY <1>6, <1>7 DEF WholeLoop

\* The header of a body of ranges announces the length that is wanted.
LEMMA HeaderAnswers ==
  ASSUME resp \in Response, NEW total \in Nat \ {0}, total = Len(Wanted), Wanted' = Wanted,
         NEW next, NEW c \in BOOLEAN, query.chunked = c,
         WriteHeader([SetStatus(resp, 206) EXCEPT !.given = TRUE, !.length = total], 0, next)
  PROVE  Answering' /\ pc' \in {next, "done"}
<1> DEFINE r == [SetStatus(resp, 206) EXCEPT !.given = TRUE, !.length = total]
<1>1. r \in Response /\ r.given = TRUE /\ r.length = total
  <2> DEFINE s == SetStatus(resp, 206)
  <2>1. s \in Response /\ total \in Nat
    BY DEF SetStatus, Response
  <2> HIDE DEF s
  <2>2. [s EXCEPT !.given = TRUE, !.length = total] \in Response
    BY <2>1 DEF Response
  <2>3. /\ [s EXCEPT !.given = TRUE, !.length = total].given = TRUE
        /\ [s EXCEPT !.given = TRUE, !.length = total].length = total
    BY <2>1 DEF Response
  <2>4. QED
    BY <2>2, <2>3 DEF s
<1>2. resp' = HeaderData(r, query.chunked, 0) /\ pc' \in {next, "done"}
  BY DEF WriteHeader
<1> HIDE DEF r
<1>3. resp' = [r EXCEPT !.state = "content_length", !.left = r.length, !.chunked = r.chunked \/ c]
  BY <1>1, <1>2 DEF HeaderData
<1>4. /\ resp'.state = "content_length" /\ resp'.given = TRUE /\ resp'.length = total
      /\ resp'.left = total
  BY <1>1, <1>3 DEF Response
<1>5. total > 0
  OBVIOUS
<1>6. Answering'
  BY <1>4, <1>5 DEF Answering
<1>7. QED
  BY <1>2, <1>6

\* The header of a body of ranges: the length computed ahead is that of the body.
LEMMA DeliveryHeader == ASSUME DeliveryInv, RangeHeader PROVE DeliveryInv'
<1>1. /\ TransferInv /\ TypeOK /\ Places
      /\ query \in Queries /\ fsize \in 0..SizeMod \div 2 /\ file \in Nat /\ overrun \in BOOLEAN
      /\ stream \in Streams /\ resp \in Response /\ ranges \in Seq(Range_)
      /\ query.chunked \in BOOLEAN
  BY DeliveryBasics, Basics
<1>2. pc = "header" /\ UNCHANGED <<file, fsize, query, ranges, k, sent, overrun, shrinks>>
      /\ k = 1
  BY <1>1 DEF RangeHeader, Places
<1>3. TransferInv' /\ error = FALSE
  BY <1>1, <1>2, RangeHeaderStep, DeliveryBasics
<1>4. /\ Wanted' = Wanted /\ Opened' = Opened /\ (Accepted' <=> Accepted) /\ (Plain' => Plain)
      /\ Upto(k - 1)' = Upto(k' - 1)
  BY <1>2, SameRequest, PlainBefore
<1> DEFINE n == Len(ranges)
           total == IF n = 1 THEN ranges[1].total ELSE ContentLength
           r == [SetStatus(resp, 206) EXCEPT !.given = TRUE, !.length = total]
           next == CASE n = 0 -> "close" [] n = 1 -> "single" [] OTHER -> "part"
<1>5. \/ ranges = <<>> /\ pc' = "aborted"
      \/ /\ WriteHeader(r, 0, next)
         /\ stream' = IF n = 1 THEN Seek(stream, ranges[1].begin) ELSE stream
  BY DEF RangeHeader
<1>6. /\ pc' \in {"aborted", "close", "single", "part", "done"}
      /\ pc' # "done" => error' = FALSE
      /\ pc' = "done" => error' = TRUE
  <2>1. next \in {"close", "single", "part"}
    OBVIOUS
  <2> HIDE DEF next, r
  <2>2. TransferInv' => (error' => pc' = "done") /\ error' \in BOOLEAN
    BY DEF TransferInv, Places, TypeOK
  <2>3. CASE WriteHeader(r, 0, next)
    BY <1>3, <2>1, <2>2, <2>3 DEF WriteHeader
  <2>4. CASE pc' = "aborted"
    BY <1>3, <2>2, <2>4
  <2>5. QED
    BY <1>5, <2>3, <2>4
<1>7. ASSUME Plain
      PROVE  /\ file = fsize /\ ~stream.fail /\ sent = <<>> /\ Accepted /\ ranges = Opened
             /\ OpenedFits /\ Wanted = OpenedBody /\ Wanted \in Seq(Unit) /\ n \in Nat \ {0}
  <2>1. Delivered /\ file = fsize /\ ~stream.fail
    BY <1>2, <1>7 DEF DeliveryInv
  <2>2. sent = <<>> /\ Accepted /\ ranges = Opened
    BY <1>2, <2>1 DEF Delivered
  <2>3. OpenedFits /\ Wanted = OpenedBody /\ Wanted \in Seq(Unit)
    BY <1>1, <1>7, <2>2, WantedCases
  <2>4. n \in Nat \ {0}
    BY <2>2, <2>3 DEF OpenedFits
  <2>5. QED
    BY <2>1, <2>2, <2>3, <2>4
<1>8. ASSUME Plain PROVE total = Len(Wanted) /\ total \in Nat \ {0}
  <2>1. Len(Wanted) \in Nat
    BY <1>7, <1>8
  <2>2. CASE n = 1
    <3>1. Wanted = Run(ranges[1].begin, ranges[1].total)
      BY <1>7, <1>8, <2>2 DEF OpenedBody
    <3>2. 1 \in 1..Len(Opened)
      <4>1. Len(Opened) = 1
        BY <1>7, <1>8, <2>2
      <4>2. QED
        BY <4>1
    <3>3. ranges[1].begin \in Nat /\ ranges[1].total \in Nat \ {0}
      BY <1>7, <1>8, <3>2 DEF OpenedFits
    <3>4. QED
      BY <2>2, <3>1, <3>3, RunFacts
  <2>3. CASE n # 1
    <3>1. Len(Wanted) < SizeMod
      BY <1>8 DEF Plain
    <3>2. ContentLength = Len(Wanted)
      BY <1>7, <1>8, <2>3, <3>1, LengthAhead
    <3>3. Wanted = Upto(n) \o Closing /\ Upto(n) \in Seq(Unit)
      <4>1. n = Len(Opened) /\ n \in 0..n
        BY <1>7, <1>8
      <4>2. QED
        BY <1>7, <1>8, <2>3, <4>1, UptoFacts DEF OpenedBody, Closing
    <3>4. Len(Wanted) = Len(Upto(n)) + CloseSize /\ Len(Upto(n)) \in Nat
      <4> DEFINE u == Upto(n)
      <4>1. u \in Seq(Unit) /\ Closing \in Seq(Unit) /\ Len(Closing) = CloseSize /\ Wanted = u \o Closing
        BY <3>3, FramingFacts
      <4> HIDE DEF u
      <4>2. Len(u \o Closing) = Len(u) + Len(Closing) /\ Len(u) \in Nat
        BY <4>1, ConcatFacts
      <4>3. QED
        BY <4>1, <4>2 DEF u
    <3>5. Len(Wanted) # 0
      BY <3>4, FramingFacts
    <3>6. QED
      BY <2>1, <2>3, <3>2, <3>5
  <2>4. QED
    BY <2>2, <2>3
<1>9. ASSUME Plain
      PROVE  /\ Answering' /\ pc' \in {next, "done"}
             /\ stream' = IF n = 1 THEN Seek(stream, ranges[1].begin) ELSE stream
  <2>1. ranges # <<>>
    BY <1>7, <1>9
  <2>2. total = Len(Wanted) /\ total \in Nat \ {0}
    BY <1>8, <1>9
  <2> HIDE DEF total, next
  <2>3. WriteHeader(r, 0, next)
    BY <1>5, <2>1
  <2>4. Answering' /\ pc' \in {next, "done"}
    BY <1>1, <1>4, <2>2, <2>3, HeaderAnswers
  <2>5. QED
    BY <1>5, <2>1, <2>4
<1> HIDE DEF total, r
<1>10. CASE pc' = "done"
  <2>1. ASSUME Plain' PROVE IsPrefix(sent', Wanted')
    <3>1. sent' = <<>> /\ Wanted' \in Seq(Unit)
      BY <1>2, <1>4, <1>7, <2>1
    <3>2. QED
      BY <3>1, EmptyIsPrefix
  <2>2. QED
    BY <1>3, <1>6, <1>10, <2>1, EndedByError
<1>11. CASE pc' # "done"
  <2>1. ASSUME Plain' PROVE file' = fsize' /\ (pc' = "part" => ~stream'.fail) /\ Delivered'
    <3>1. Plain
      BY <1>4, <2>1
    <3>2. /\ Answering' /\ Accepted' /\ pc' = next /\ ranges' = Opened' /\ n = Len(ranges')
          /\ n \in Nat \ {0} /\ file' = fsize' /\ sent' = <<>> /\ k' = 1
      BY <1>2, <1>4, <1>7, <1>9, <1>11, <3>1
    <3>3. CASE n = 1
      <4>1. pc' = "single" /\ stream' = Seek(stream, ranges[1].begin)
        BY <1>9, <3>1, <3>2, <3>3
      <4>2. /\ Opened[1].begin \in Nat /\ Opened[1].total \in Nat \ {0}
            /\ Opened[1].begin + Opened[1].total <= fsize
        <5>1. 1 \in 1..Len(Opened)
          <6>1. Len(Opened) = 1
            BY <1>7, <3>1, <3>3
          <6>2. QED
            BY <6>1
        <5>2. QED
          BY <1>7, <3>1, <5>1 DEF OpenedFits
      <4>3. Opened[1].begin < SizeMod \div 2
        <5>1. fsize \in Nat /\ fsize <= SizeMod \div 2 /\ SizeMod \div 2 \in Nat
          BY <1>1, SizeFacts
        <5>2. QED
          BY <4>2, <5>1
      <4>4. stream' = [pos |-> Opened[1].begin, eof |-> FALSE, fail |-> FALSE]
        BY <1>1, <1>7, <3>1, <4>1, <4>2, <4>3, SeekIn
      <4>5. Within(1)'
        BY <1>4, <3>2, <4>2, <4>4 DEF Within
      <4>6. sent' = ReadOf(1)'
        <5>1. stream'.pos - Opened'[1].begin = 0
          BY <1>4, <4>2, <4>4
        <5>2. QED
          BY <3>2, <5>1, RunEmpty DEF ReadOf
      <4>7. Len(Opened)' = 1
        BY <3>2, <3>3
      <4>8. QED
        BY <3>2, <4>1, <4>5, <4>6, <4>7 DEF Delivered
    <3>4. CASE n # 1
      <4>1. pc' = "part" /\ stream' = stream
        BY <1>9, <3>1, <3>2, <3>4
      <4>2. sent' = Upto(k - 1)'
        <5>1. k' - 1 = 0 /\ Upto(0) = <<>>
          BY <1>7, <3>1, <3>2, UptoFacts
        <5>2. Upto(k' - 1) = <<>>
          BY <5>1
        <5>3. QED
          BY <1>4, <3>2, <5>2
      <4>3. ~stream'.fail
        BY <1>7, <3>1, <4>1
      <4>4. Len(Opened)' = Len(ranges)' /\ \A i \in (k..Len(ranges))' : ranges'[i] = Opened'[i]
        BY <3>2
      <4>5. Delivered'
        BY <3>2, <4>1, <4>2, <4>4 DEF Delivered
      <4>6. QED
        BY <3>2, <4>3, <4>5
    <3>5. QED
      BY <3>3, <3>4
  <2>2. pc' # "call" /\ pc' # "header"
    BY <1>6
  <2>3. QED
    BY <1>3, <1>11, <2>1, <2>2, GoesOn
<1>12. QED
  BY <1>10, <1>11

\* A piece behind something and a piece.
LEMMA RunGoesOn ==
  ASSUME NEW p \in Seq(Unit), NEW b \in Nat, NEW m \in Nat, NEW c \in Nat
  PROVE  (p \o Run(b, m)) \o Run(b + m, c) = p \o Run(b, m + c)
<1> DEFINE s == Run(b, m)
           t == Run(b + m, c)
<1>1. s \o t = Run(b, m + c)
  BY RunOn
<1>2. s \in Seq(Unit) /\ t \in Seq(Unit)
  <2>1. b + m \in Nat
    OBVIOUS
  <2>2. QED
    BY <2>1, RunFacts
<1> HIDE DEF s, t
<1>3. (p \o s) \o t = p \o (s \o t)
  BY <1>2, ConcatAssociative
<1>4. QED
  BY <1>1, <1>3 DEF s, t

\* What the client has at the places inside of a part.
LEMMA InPart ==
  ASSUME OpenedFits, Len(Opened) # 1, Wanted = OpenedBody, NEW i \in 1..Len(Opened)
  PROVE  LET p == Upto(i - 1) \o Heading(i)
             b == Opened[i].begin
             t == Opened[i].total
         IN  /\ p \in Seq(Unit) /\ IsPrefix(p, Wanted)
             /\ \A m \in 0..t : IsPrefix(p \o Run(b, m), Wanted)
             /\ (p \o Run(b, t)) \o Crlf = Upto(i)
             /\ Upto(i) \in Seq(Unit) /\ IsPrefix(Upto(i), Wanted)
<1> DEFINE n == Len(Opened)
           u == Upto(i - 1)
           h == Heading(i)
           p == u \o h
           b == Opened[i].begin
           t == Opened[i].total
           g == Run(b, t)
           full == Upto(i)
<1>1. n \in Nat /\ i \in Nat /\ i - 1 \in 0..n /\ i \in 0..n /\ n \in 0..n /\ b \in Nat /\ t \in Nat
  BY DEF OpenedFits
<1>2. u \in Seq(Unit) /\ full \in Seq(Unit) /\ Upto(n) \in Seq(Unit)
  BY <1>1, UptoFacts
<1>3. h \in Seq(Unit) /\ g \in Seq(Unit) /\ Crlf \in Seq(Unit) /\ Closing \in Seq(Unit)
  BY <1>1, FramingFacts, RunFacts
<1>4. full = u \o ((h \o g) \o Crlf)
  <2>1. Parts[i] = (h \o g) \o Crlf
    BY PartFacts
  <2>2. QED
    BY <2>1, UptoFacts
<1>5. Wanted = Upto(n) \o Closing
  BY UptoFacts DEF OpenedBody, Closing
<1>6. IsPrefix(full, Upto(n))
  BY <1>1, UptoIsPrefix
<1> HIDE DEF n, u, h, b, t, g, full
<1>7. Wanted \in Seq(Unit) /\ IsPrefix(full, Wanted)
  <2>1. Wanted \in Seq(Unit) /\ IsPrefix(Upto(n), Wanted)
    BY <1>2, <1>3, <1>5, ConcatFacts, PrefixOfConcat
  <2>2. QED
    BY <1>2, <1>6, <2>1, PrefixTransitive
<1>8. h \o g \in Seq(Unit) /\ p \in Seq(Unit)
  BY <1>2, <1>3, ConcatFacts
<1> HIDE DEF p
<1>9. (p \o g) \o Crlf = full
  <2> DEFINE c == Crlf
             hg == h \o g
  <2>1. c \in Seq(Unit) /\ hg \in Seq(Unit)
    BY <1>3, <1>8
  <2>2. (u \o h) \o g = u \o hg
    BY <1>2, <1>3, UnitConcat, Zenon
  <2> HIDE DEF c, hg
  <2>3. (u \o hg) \o c = u \o (hg \o c)
    BY <1>2, <2>1, UnitConcat, Zenon
  <2>4. p = u \o h
    BY DEF p
  <2>5. full = u \o (hg \o c)
    BY <1>4 DEF hg, c
  <2>6. (p \o g) \o c = full
    BY <2>2, <2>3, <2>4, <2>5
  <2>7. QED
    BY <2>6 DEF c
<1>10. p \o g \in Seq(Unit) /\ IsPrefix(p \o g, Wanted)
  <2> DEFINE q == p \o g
  <2>1. q \in Seq(Unit)
    BY <1>3, <1>8, ConcatFacts
  <2> HIDE DEF q
  <2>2. IsPrefix(q, q \o Crlf)
    BY <1>3, <2>1, PrefixOfConcat
  <2>3. IsPrefix(q, full)
    BY <1>9, <2>2 DEF q
  <2>4. IsPrefix(q, Wanted)
    BY <1>2, <1>7, <2>1, <2>3, PrefixTransitive
  <2>5. QED
    BY <2>1, <2>4 DEF q
<1>11. ASSUME NEW m \in 0..t PROVE IsPrefix(p \o Run(b, m), Wanted)
  <2>1. m \in Nat /\ t - m \in Nat /\ b + m \in Nat /\ m + (t - m) = t
    BY <1>1
  <2> DEFINE q == p \o Run(b, m)
             rest == Run(b + m, t - m)
  <2>2. q \o rest = p \o Run(b, m + (t - m))
    <3> DEFINE c == t - m
    <3>1. p \in Seq(Unit) /\ b \in Nat /\ m \in Nat /\ c \in Nat
      BY <1>1, <1>8, <2>1
    <3> HIDE DEF c
    <3>2. (p \o Run(b, m)) \o Run(b + m, c) = p \o Run(b, m + c)
      BY <3>1, RunGoesOn
    <3>3. QED
      BY <3>2 DEF c
  <2>3. q \o rest = p \o g
    BY <2>1, <2>2 DEF g
  <2>4. q \in Seq(Unit) /\ rest \in Seq(Unit)
    BY <1>1, <1>8, <2>1, RunFacts, ConcatFacts
  <2> HIDE DEF q, rest
  <2>5. IsPrefix(q, q \o rest)
    BY <2>4, PrefixOfConcat
  <2>6. IsPrefix(q, Wanted)
    BY <1>7, <1>10, <2>3, <2>4, <2>5, PrefixTransitive
  <2>7. QED
    BY <2>6 DEF q
<1>12. IsPrefix(p, Wanted)
  <2>1. IsPrefix(p, p \o g)
    BY <1>3, <1>8, PrefixOfConcat
  <2>2. QED
    BY <1>7, <1>8, <1>10, <2>1, PrefixTransitive
<1>13. QED
  BY <1>2, <1>7, <1>8, <1>9, <1>11, <1>12 DEF p, u, h, b, t, g, full

\* The closing boundary.
LEMMA DeliveryClose == ASSUME DeliveryInv, Close PROVE DeliveryInv'
<1>1. /\ TransferInv /\ TypeOK /\ Accounts
      /\ query \in Queries /\ fsize \in 0..SizeMod \div 2 /\ overrun \in BOOLEAN
      /\ sent \in Seq(Unit) /\ resp \in Response
  BY DeliveryBasics
<1>2. pc = "close" /\ UNCHANGED <<file, fsize, query, ranges, k, stream, overrun, shrinks>>
      /\ WriteBody(Closing, "done")
  BY DEF Close, Closing
<1>3. TransferInv' /\ error = FALSE
  BY <1>1, <1>2, CloseStep, DeliveryBasics
<1>4. Wanted' = Wanted /\ (Plain' => Plain)
  BY <1>2, SameRequest, PlainBefore
<1>5. ASSUME Plain
      PROVE  \/ sent' = Wanted' /\ error' = FALSE /\ Answering' /\ Wanted' \in Seq(Unit)
             \/ error' = TRUE /\ IsPrefix(sent', Wanted')
  <2>1. Delivered
    BY <1>2, <1>5 DEF DeliveryInv
  <2>2. Accepted /\ Answering /\ Len(Opened) > 1 /\ sent = Upto(Len(Opened))
    BY <1>2, <2>1 DEF Delivered
  <2>3. OpenedFits /\ Wanted = OpenedBody /\ Wanted \in Seq(Unit)
    BY <1>1, <1>5, <2>2, WantedCases
  <2>4. sent \o Closing = Wanted
    <3>1. Len(Opened) # 1
      BY <2>2, <2>3 DEF OpenedFits
    <3>2. OpenedBody = FlattenSeq(Parts) \o Closing
      BY <3>1 DEF OpenedBody, Closing
    <3>3. QED
      BY <2>2, <2>3, <3>2, UptoFacts
  <2>5. IsPrefix(sent \o Closing, Wanted)
    BY <2>3, <2>4, PrefixOfConcat
  <2>6. Closing \in Seq(Unit) /\ Closing # <<>>
    <3>1. Closing \in Seq(Unit) /\ Len(Closing) # 0
      BY FramingFacts
    <3>2. QED
      BY <3>1
  <2>7. \/ sent' = sent \o Closing /\ pc' = "done" /\ error' = FALSE /\ Answering'
        \/ pc' = "done" /\ error' = TRUE /\ IsPrefix(sent', Wanted')
    BY <1>1, <1>2, <1>3, <2>2, <2>3, <2>5, <2>6, BodyGoes
  <2>8. QED
    BY <1>4, <2>3, <2>4, <2>7
<1>6. pc' = "done" /\ (error' = TRUE \/ error' = FALSE)
  BY <1>2, <1>3 DEF WriteBody
<1>7. CASE error' = TRUE
  BY <1>3, <1>4, <1>5, <1>6, <1>7, EndedByError
<1>8. CASE error' = FALSE
  BY <1>3, <1>4, <1>5, <1>6, <1>8, EndedWhole
<1>9. QED
  BY <1>6, <1>7, <1>8
\* Where the stream is, in a range of which something is left.
LEMMA InRange ==
  ASSUME file \in Nat, stream \in Streams, ranges \in Seq(Range_), OpenedFits, file = fsize,
         NEW i \in 1..Len(Opened), i \in 1..Len(ranges), Within(i)
  PROVE  LET b == Opened[i].begin
             t == Opened[i].total
             pos == stream.pos
             left == ranges[i].total
         IN  /\ b \in Nat /\ t \in Nat /\ pos \in Nat /\ left \in Nat \ {0}
             /\ pos - b \in Nat /\ b + (pos - b) = pos /\ (pos - b) + left = t
             /\ pos + left <= file /\ pos <= file /\ ~stream.fail /\ ~stream.eof
<1> DEFINE b == Opened[i].begin
           t == Opened[i].total
           pos == stream.pos
           left == ranges[i].total
<1>1. b \in Nat /\ t \in Nat /\ b + t <= file
  BY DEF OpenedFits
<1>2. pos \in Nat
  BY DEF Streams
<1>3. left \in Nat
  BY RangeFacts
<1>4. ~stream.eof /\ ~stream.fail /\ left > 0 /\ pos >= b /\ pos + left = b + t
  BY DEF Within
<1> HIDE DEF b, t, pos, left
<1>5. /\ left \in Nat \ {0} /\ pos - b \in Nat /\ b + (pos - b) = pos /\ (pos - b) + left = t
      /\ pos + left <= file /\ pos <= file
  BY <1>1, <1>2, <1>3, <1>4
<1>6. QED
  BY <1>1, <1>2, <1>4, <1>5 DEF b, t, pos, left

\* A piece that fills the buffer is the next piece of its range.
LEMMA FullPieceGoes ==
  ASSUME TypeOK, Accounts, error = FALSE, file = fsize, file \in Nat, stream \in Streams,
         ranges \in Seq(Range_), sent \in Seq(Unit), Answering, OpenedFits, Wanted \in Seq(Unit),
         k \in 1..Len(Opened), k \in 1..Len(ranges), Within(k),
         NEW p, p \in Seq(Unit), sent = p \o ReadOf(k),
         \A m \in 0..Opened[k].total : IsPrefix(p \o Run(Opened[k].begin, m), Wanted),
         NEW next, FullPiece(next), query' = query, fsize' = fsize, k' = k
  PROVE  \/ /\ pc' = next /\ error' = FALSE /\ Answering'
            /\ sent' = p \o Run(Opened[k].begin, stream'.pos - Opened[k].begin)
            /\ Within(k)'
            /\ Len(ranges') = Len(ranges)
            /\ \A i \in 1..Len(ranges) : i # k => ranges'[i] = ranges[i]
         \/ pc' = "done" /\ error' = TRUE /\ IsPrefix(sent', Wanted')
<1> DEFINE b == Opened[k].begin
           t == Opened[k].total
           pos == stream.pos
           left == ranges[k].total
           body == Run(pos, BufSize)
<1>1. /\ b \in Nat /\ t \in Nat /\ pos \in Nat /\ left \in Nat \ {0}
      /\ pos - b \in Nat /\ b + (pos - b) = pos /\ (pos - b) + left = t
      /\ pos + left <= file /\ pos <= file /\ ~stream.fail
  BY InRange
<1>2. left > BufSize /\ BufSize \in Nat \ {0}
  BY TransferAssumption DEF FullPiece
<1>3. GCount(BufSize) = BufSize
  <2>1. pos + BufSize <= file
    BY <1>1, <1>2
  <2>2. QED
    BY <1>1, <1>2, <2>1, ReadMore
<1>4. /\ Bytes(BufSize) = body
      /\ stream' = [pos |-> pos + BufSize, eof |-> FALSE, fail |-> FALSE]
  <2>1. ~(BufSize < BufSize)
    BY <1>2
  <2>2. Bytes(BufSize) = body
    BY <1>1, <1>2, <1>3, ReadMore
  <2>3. AfterRead(BufSize) = [pos |-> pos + GCount(BufSize), eof |-> GCount(BufSize) < BufSize,
                              fail |-> GCount(BufSize) < BufSize]
    BY <1>1, <1>2, ReadMore
  <2>4. AfterRead(BufSize) = [pos |-> pos + BufSize, eof |-> FALSE, fail |-> FALSE]
    <3> DEFINE short == GCount(BufSize) < BufSize
               n == GCount(BufSize)
    <3>1. AfterRead(BufSize) = [pos |-> pos + n, eof |-> short, fail |-> short] /\ n = BufSize
      BY <1>3, <2>3
    <3>2. short = FALSE
      BY <1>3, <2>1
    <3> HIDE DEF short, n
    <3>3. QED
      BY <3>1, <3>2, Zenon
  <2>5. QED
    BY <2>2, <2>4 DEF FullPiece
<1>5. /\ ranges' = [ranges EXCEPT ![k] = LessBuf(ranges[k])]
      /\ WriteBody(body, next)
  BY <1>4 DEF FullPiece
<1>6. /\ ranges'[k].total = left - BufSize
      /\ Len(ranges') = Len(ranges)
      /\ \A i \in 1..Len(ranges) : i # k => ranges'[i] = ranges[i]
  <2>1. ranges[k] \in Range_
    BY RangeFacts
  <2>2. LessBuf(ranges[k]).total = left - BufSize
    BY <2>1 DEF LessBuf, Range_
  <2>3. ranges'[k] = LessBuf(ranges[k])
    BY <1>5
  <2>4. QED
    BY <1>5, <2>2, <2>3
<1>7. (pos - b) + BufSize \in 0..t /\ (pos + BufSize) - b = (pos - b) + BufSize
  <2> HIDE DEF b, t, pos, left
  <2>1. QED
    BY <1>1, <1>2
<1>8. body \in Seq(Unit) /\ body # <<>>
  <2>1. body \in Seq(Unit) /\ Len(body) = BufSize /\ BufSize # 0
    BY <1>1, <1>2, RunFacts
  <2> HIDE DEF body
  <2>2. QED
    BY <2>1
<1>9. sent \o body = p \o Run(b, (pos - b) + BufSize)
  <2> DEFINE m == pos - b
             c == BufSize
  <2>1. sent = p \o Run(b, m) /\ b + m = pos
    BY <1>1 DEF ReadOf
  <2>2. p \in Seq(Unit) /\ b \in Nat /\ m \in Nat /\ c \in Nat
    BY <1>1, <1>2
  <2> HIDE DEF m, b, c
  <2> DEFINE s == Run(b, m)
             u == Run(b + m, c)
  <2>3. s \o u = Run(b, m + c) /\ s \in Seq(Unit) /\ u \in Seq(Unit)
    <3>1. b + m \in Nat
      BY <2>2
    <3>2. QED
      BY <2>2, <3>1, RunOn, RunFacts
  <2> HIDE DEF s, u
  <2>4. (p \o s) \o u = p \o (s \o u)
    BY <2>2, <2>3, UnitConcat, Zenon
  <2>5. QED
    BY <2>1, <2>3, <2>4 DEF m, c, s, u
<1>10. IsPrefix(sent \o body, Wanted)
  BY <1>7, <1>9
<1> HIDE DEF body
<1>11. \/ sent' = sent \o body /\ pc' = next /\ error' = FALSE /\ Answering'
       \/ pc' = "done" /\ error' = TRUE /\ IsPrefix(sent', Wanted')
  BY <1>5, <1>8, <1>10, BodyGoes
<1>12. Opened' = Opened
  BY SameRequest
<1>13. Within(k)'
  <2>1. stream'.pos = pos + BufSize /\ ~stream'.eof /\ ~stream'.fail
    BY <1>4
  <2>2. /\ left - BufSize > 0 /\ pos + BufSize >= b /\ (pos + BufSize) + (left - BufSize) = b + t
    <3> HIDE DEF b, t, pos, left
    <3>1. QED
      BY <1>1, <1>2
  <2>3. QED
    BY <1>6, <1>12, <2>1, <2>2 DEF Within
<1>14. stream'.pos - b = (pos - b) + BufSize
  BY <1>4, <1>7
<1>15. QED
  BY <1>6, <1>9, <1>11, <1>13, <1>14

\* The last piece of a range is the rest of it.
LEMMA LastPieceIsRest ==
  ASSUME file = fsize, file \in Nat, stream \in Streams, ranges \in Seq(Range_), OpenedFits,
         k \in 1..Len(Opened), k \in 1..Len(ranges), Within(k),
         NEW p, p \in Seq(Unit), sent = p \o ReadOf(k)
  PROVE  LET rest == Bytes(ranges[k].total)
         IN  /\ rest \in Seq(Unit) /\ rest # <<>> /\ GCount(ranges[k].total) # 0
             /\ AfterRead(ranges[k].total).fail = FALSE
             /\ sent \o rest = p \o Run(Opened[k].begin, Opened[k].total)
<1> DEFINE b == Opened[k].begin
           t == Opened[k].total
           pos == stream.pos
           left == ranges[k].total
<1>1. /\ b \in Nat /\ t \in Nat /\ pos \in Nat /\ left \in Nat \ {0}
      /\ pos - b \in Nat /\ b + (pos - b) = pos /\ (pos - b) + left = t
      /\ pos + left <= file /\ pos <= file /\ ~stream.fail
  BY InRange
<1>2. GCount(left) = left /\ Bytes(left) = Run(pos, left)
  BY <1>1, ReadMore
<1>3. Run(pos, left) \in Seq(Unit) /\ Run(pos, left) # <<>>
  <2> DEFINE body == Run(pos, left)
  <2>1. body \in Seq(Unit) /\ Len(body) = left /\ left # 0
    BY <1>1, RunFacts
  <2> HIDE DEF body
  <2>2. body \in Seq(Unit) /\ body # <<>>
    BY <2>1
  <2>3. QED
    BY <2>2 DEF body
<1>4. sent \o Run(pos, left) = p \o Run(b, t)
  <2> DEFINE m == pos - b
  <2>1. sent = p \o Run(b, m) /\ b + m = pos /\ m + left = t
    BY <1>1 DEF ReadOf
  <2>2. p \in Seq(Unit) /\ b \in Nat /\ m \in Nat /\ left \in Nat
    BY <1>1
  <2> HIDE DEF m, b, left
  <2>3. (p \o Run(b, m)) \o Run(b + m, left) = p \o Run(b, m + left)
    BY <2>2, RunGoesOn
  <2>4. QED
    BY <2>1, <2>3
<1>5. AfterRead(left).fail = FALSE
  <2> DEFINE short == GCount(left) < left
             pos_1 == pos + GCount(left)
  <2>1. AfterRead(left) = [pos |-> pos_1, eof |-> short, fail |-> short]
    BY <1>1, ReadMore
  <2>2. short = FALSE
    <3> DEFINE n == GCount(left)
    <3>1. n = left /\ left \in Nat
      BY <1>1, <1>2
    <3> HIDE DEF left, n
    <3>2. ~(n < left)
      BY <3>1
    <3>3. QED
      BY <3>2 DEF n
  <2> DEFINE s == AfterRead(left)
  <2> HIDE DEF s, short, pos_1
  <2>3. s = [pos |-> pos_1, eof |-> short, fail |-> short]
    BY <2>1 DEF s
  <2>4. s.fail = short
    BY <2>3, Zenon
  <2>5. QED
    BY <2>2, <2>4 DEF s
<1>6. QED
  BY <1>1, <1>2, <1>3, <1>4, <1>5

\* The loop of a single range.
LEMMA DeliverySingle == ASSUME DeliveryInv, SingleLoop PROVE DeliveryInv'
<1>1. /\ TransferInv /\ TypeOK /\ Accounts /\ Places
      /\ query \in Queries /\ fsize \in 0..SizeMod \div 2 /\ file \in Nat /\ overrun \in BOOLEAN
      /\ stream \in Streams /\ sent \in Seq(Unit) /\ resp \in Response /\ ranges \in Seq(Range_)
  BY DeliveryBasics
<1>2. pc = "single" /\ UNCHANGED <<file, fsize, query, k, overrun, shrinks>>
  BY DEF SingleLoop
<1>3. TransferInv' /\ error = FALSE
  BY <1>1, <1>2, SingleLoopStep, DeliveryBasics
<1>4. /\ Wanted' = Wanted /\ Opened' = Opened /\ (Accepted' <=> Accepted) /\ (Plain' => Plain)
  BY <1>2, SameRequest, PlainBefore
<1>5. Len(ranges) = 1 /\ k = 1
  BY <1>1, <1>2 DEF Places
<1> DEFINE b == Opened[1].begin
           t == Opened[1].total
           p == << >>
<1>6. ASSUME Plain
      PROVE  /\ file = fsize /\ Accepted /\ Answering /\ Len(Opened) = 1
             /\ Within(k) /\ sent = ReadOf(k) /\ OpenedFits
             /\ Wanted \in Seq(Unit) /\ Wanted = Run(b, t)
             /\ k \in 1..Len(Opened) /\ k \in 1..Len(ranges)
             /\ b \in Nat /\ t \in Nat
  <2>1. Delivered /\ file = fsize
    BY <1>2, <1>6 DEF DeliveryInv
  <2>2. Accepted /\ Answering /\ Len(Opened) = 1 /\ Within(1) /\ sent = ReadOf(1)
    BY <1>2, <2>1 DEF Delivered
  <2>3. OpenedFits /\ Wanted = OpenedBody /\ Wanted \in Seq(Unit)
    BY <1>1, <1>6, <2>2, WantedCases
  <2>4. Wanted = Run(b, t)
    BY <2>2, <2>3 DEF OpenedBody
  <2>5. k \in 1..Len(Opened) /\ k \in 1..Len(ranges)
    BY <1>5, <2>2
  <2>6. b \in Nat /\ t \in Nat
    BY <1>5, <2>3, <2>5 DEF OpenedFits
  <2>7. QED
    BY <1>5, <2>1, <2>2, <2>3, <2>4, <2>5, <2>6
<1>7. ASSUME Plain
      PROVE  /\ p \in Seq(Unit) /\ sent = p \o ReadOf(k)
             /\ \A m \in 0..t : IsPrefix(p \o Run(b, m), Wanted)
             /\ p \o Run(b, t) = Wanted
  <2> DEFINE r == ReadOf(k)
  <2>1. p \in Seq(Unit)
    OBVIOUS
  <2>2. r \in Seq(Unit) /\ sent = r
    BY <1>1, <1>6, <1>7
  <2> HIDE DEF r
  <2>3. sent = p \o r
    BY <2>2, ConcatEmpty
  <2>4. ASSUME NEW m \in 0..t PROVE p \o Run(b, m) = Run(b, m) /\ IsPrefix(Run(b, m), Wanted)
    <3> DEFINE s == Run(b, m)
    <3>1. m \in Nat /\ m <= t /\ b \in Nat /\ t \in Nat
      BY <1>6, <1>7
    <3>2. s \in Seq(Unit)
      BY <3>1, RunFacts
    <3>3. IsPrefix(s, Wanted)
      BY <1>6, <1>7, <3>1, RunPrefix
    <3> HIDE DEF s
    <3>4. p \o s = s
      BY <3>2, ConcatEmpty
    <3>5. QED
      BY <3>3, <3>4 DEF s
  <2>5. t \in 0..t
    BY <1>6, <1>7
  <2>6. p \o Run(b, t) = Wanted
    BY <1>6, <1>7, <2>4, <2>5
  <2>7. QED
    BY <2>1, <2>3, <2>4, <2>6 DEF r
<1> HIDE DEF p
<1>8. CASE FullPiece("single")
  <2>1. ASSUME Plain
        PROVE  \/ /\ pc' = "single" /\ error' = FALSE /\ Answering'
                  /\ sent' = p \o Run(b, stream'.pos - b) /\ Within(k)'
               \/ pc' = "done" /\ error' = TRUE /\ IsPrefix(sent', Wanted')
    <3>1. /\ \A m \in 0..Opened[k].total : IsPrefix(p \o Run(Opened[k].begin, m), Wanted)
          /\ Opened[k].begin = b
      BY <1>5, <1>7, <2>1
    <3>2. p \in Seq(Unit) /\ sent = p \o ReadOf(k) /\ k' = k /\ query' = query /\ fsize' = fsize
      BY <1>2, <1>7, <2>1
    <3>3. /\ file = fsize /\ Answering /\ Within(k) /\ OpenedFits /\ Wanted \in Seq(Unit)
          /\ k \in 1..Len(Opened) /\ k \in 1..Len(ranges)
      BY <1>6, <2>1
    <3> HIDE DEF b, t
    <3>4. QED
      BY <1>1, <1>3, <1>8, <3>1, <3>2, <3>3, FullPieceGoes
  <2>2. pc' \in {"single", "done"} /\ (error' = TRUE \/ error' = FALSE)
        /\ (pc' = "done" => error' = TRUE)
    BY <1>3, <1>8 DEF FullPiece, WriteBody
  <2>3. CASE pc' = "single"
    <3>1. ASSUME Plain' PROVE file' = fsize' /\ Delivered'
      <4>1. Plain
        BY <1>4, <3>1
      <4>2. Answering' /\ Within(k)' /\ sent' = p \o Run(b, stream'.pos - b)
        BY <2>1, <2>3, <4>1
      <4>3. Accepted' /\ Len(Opened)' = 1 /\ file' = fsize' /\ k' = 1 /\ Opened' = Opened
        BY <1>2, <1>4, <1>5, <1>6, <4>1
      <4>4. Within(1)'
        BY <4>2, <4>3 DEF Within
      <4>5. stream'.pos - b \in Nat
        <5>1. stream'.pos \in Nat /\ stream'.pos >= b
          <6>1. stream'.pos >= b
            BY <4>3, <4>4 DEF Within
          <6>2. stream'.pos \in Nat
            BY <1>3 DEF TransferInv, TypeOK
          <6>3. QED
            BY <6>1, <6>2
        <5>2. b \in Nat
          BY <1>6, <4>1
        <5> HIDE DEF b
        <5>3. QED
          BY <5>1, <5>2
      <4>6. sent' = ReadOf(1)'
        <5> DEFINE s == Run(b, stream'.pos - b)
        <5>1. s \in Seq(Unit) /\ sent' = p \o s
          BY <1>6, <4>1, <4>2, <4>5, RunFacts
        <5>2. s = ReadOf(1)'
          BY <4>3 DEF ReadOf
        <5> HIDE DEF s
        <5>3. p \o s = s
          BY <5>1, ConcatEmpty DEF p
        <5>4. QED
          BY <5>1, <5>2, <5>3
      <4>7. QED
        BY <2>3, <4>2, <4>3, <4>4, <4>6 DEF Delivered
    <3>2. QED
      BY <1>3, <2>3, <3>1, GoesOn
  <2>4. CASE pc' = "done"
    BY <1>3, <1>4, <2>1, <2>2, <2>4, EndedByError
  <2>5. QED
    BY <2>2, <2>3, <2>4
<1>9. CASE ~stream.eof /\ ranges[k].total <= BufSize /\ WriteBody(Bytes(ranges[k].total), "done")
  <2> DEFINE rest == Bytes(ranges[k].total)
  <2>1. ASSUME Plain
        PROVE  \/ sent' = Wanted' /\ error' = FALSE /\ Answering' /\ Wanted' \in Seq(Unit)
               \/ error' = TRUE /\ IsPrefix(sent', Wanted')
    <3>1. /\ rest \in Seq(Unit) /\ rest # <<>>
          /\ sent \o rest = p \o Run(b, t)
      <4>1. p \in Seq(Unit) /\ sent = p \o ReadOf(k)
        BY <1>7, <2>1
      <4>2. /\ file = fsize /\ Within(k) /\ OpenedFits
            /\ k \in 1..Len(Opened) /\ k \in 1..Len(ranges)
        BY <1>6, <2>1
      <4>3. sent \o rest = p \o Run(Opened[k].begin, Opened[k].total) /\ rest \in Seq(Unit) /\ rest # <<>>
        BY <1>1, <4>1, <4>2, LastPieceIsRest
      <4>4. QED
        BY <1>5, <4>3
    <3>2. sent \o rest = Wanted
      BY <1>7, <2>1, <3>1
    <3> HIDE DEF rest
    <3>3. IsPrefix(sent \o rest, Wanted)
      BY <1>6, <2>1, <3>2, PrefixOfConcat
    <3>4. WriteBody(rest, "done")
      BY <1>9 DEF rest
    <3>5. \/ sent' = sent \o rest /\ pc' = "done" /\ error' = FALSE /\ Answering'
          \/ pc' = "done" /\ error' = TRUE /\ IsPrefix(sent', Wanted')
      BY <1>1, <1>2, <1>3, <1>6, <2>1, <3>1, <3>3, <3>4, BodyGoes
    <3>6. QED
      BY <1>4, <1>6, <2>1, <3>2, <3>5
  <2>2. pc' = "done" /\ (error' = TRUE \/ error' = FALSE)
    BY <1>3, <1>9 DEF WriteBody
  <2>3. CASE error' = TRUE
    BY <1>3, <1>4, <2>1, <2>2, <2>3, EndedByError
  <2>4. CASE error' = FALSE
    BY <1>3, <1>4, <2>1, <2>2, <2>4, EndedWhole
  <2>5. QED
    BY <2>2, <2>3, <2>4
<1>10. CASE stream.eof /\ pc' = "done" /\ UNCHANGED <<error, sent>>
  <2>1. ~Plain
    BY <1>6, <1>10 DEF Within
  <2>2. ~Plain' /\ pc' # "call"
    BY <1>4, <1>10, <2>1
  <2>3. QED
    BY <1>3, <2>2 DEF DeliveryInv
<1>11. QED
  BY <1>8, <1>9, <1>10 DEF SingleLoop

\* The heading of a part.
LEMMA DeliveryPart == ASSUME DeliveryInv, PartHead PROVE DeliveryInv'
<1>1. /\ TransferInv /\ TypeOK /\ Accounts /\ Places
      /\ query \in Queries /\ fsize \in 0..SizeMod \div 2 /\ file \in Nat /\ overrun \in BOOLEAN
      /\ stream \in Streams /\ sent \in Seq(Unit) /\ resp \in Response /\ ranges \in Seq(Range_)
  BY DeliveryBasics
<1>2. /\ pc = "part" /\ UNCHANGED <<file, fsize, query, ranges, k, overrun, shrinks>>
      /\ WriteBody(Heading(k), "data") /\ stream' = Seek(stream, ranges[k].begin)
  BY DEF PartHead, Heading
<1>3. TransferInv' /\ error = FALSE
  BY <1>1, <1>2, PartHeadStep, DeliveryBasics
<1>4. /\ Wanted' = Wanted /\ Opened' = Opened /\ (Accepted' <=> Accepted) /\ (Plain' => Plain)
      /\ Upto(k - 1)' = Upto(k' - 1)
  BY <1>2, SameRequest, PlainBefore
<1>5. Len(ranges) > 1 /\ k \in 1..Len(ranges) /\ Len(ranges) \in Nat
  BY <1>1, <1>2 DEF Places
<1> DEFINE h == Heading(k)
           p == Upto(k - 1) \o h
           b == Opened[k].begin
           t == Opened[k].total
<1>6. ASSUME Plain
      PROVE  /\ file = fsize /\ Accepted /\ Answering /\ Len(Opened) = Len(ranges)
             /\ \A i \in k..Len(ranges) : ranges[i] = Opened[i]
             /\ sent = Upto(k - 1) /\ ~stream.fail
             /\ OpenedFits /\ Wanted = OpenedBody /\ Wanted \in Seq(Unit)
             /\ k \in 1..Len(Opened) /\ Len(Opened) # 1
  <2>1. Delivered /\ file = fsize /\ ~stream.fail
    BY <1>2, <1>6 DEF DeliveryInv
  <2>2. /\ Accepted /\ Answering /\ Len(Opened) = Len(ranges)
        /\ \A i \in k..Len(ranges) : ranges[i] = Opened[i]
        /\ sent = Upto(k - 1)
    BY <1>2, <2>1 DEF Delivered
  <2>3. OpenedFits /\ Wanted = OpenedBody /\ Wanted \in Seq(Unit)
    BY <1>1, <1>6, <2>2, WantedCases
  <2>4. k \in 1..Len(Opened) /\ Len(Opened) # 1
    BY <1>5, <2>2
  <2>5. QED
    BY <2>1, <2>2, <2>3, <2>4
<1>7. ASSUME Plain
      PROVE  /\ p \in Seq(Unit) /\ IsPrefix(p, Wanted) /\ b \in Nat /\ t \in Nat \ {0}
             /\ b < SizeMod \div 2 /\ ranges[k] = Opened[k]
  <2>1. p \in Seq(Unit) /\ IsPrefix(p, Wanted)
    BY <1>6, <1>7, InPart
  <2>2. b \in Nat /\ t \in Nat \ {0} /\ b + t <= fsize
    BY <1>6, <1>7 DEF OpenedFits
  <2>3. b < SizeMod \div 2
    <3>1. fsize \in Nat /\ fsize <= SizeMod \div 2 /\ SizeMod \div 2 \in Nat
      BY <1>1, SizeFacts
    <3> HIDE DEF b, t
    <3>2. QED
      BY <2>2, <3>1
  <2>4. ranges[k] = Opened[k]
    <3>1. k \in k..Len(ranges)
      BY <1>5
    <3>2. QED
      BY <1>6, <1>7, <3>1
  <2>5. QED
    BY <2>1, <2>2, <2>3, <2>4
<1>8. ASSUME Plain
      PROVE  \/ sent' = p /\ pc' = "data" /\ error' = FALSE /\ Answering'
             \/ pc' = "done" /\ error' = TRUE /\ IsPrefix(sent', Wanted')
  <2>1. h \in Seq(Unit) /\ h # <<>>
    <3>1. k \in Nat
      BY <1>5
    <3>2. h \in Seq(Unit) /\ Len(h) # 0
      BY <3>1, FramingFacts
    <3> HIDE DEF h
    <3>3. QED
      BY <3>2
  <2>2. sent \o h = p
    BY <1>6, <1>8
  <2>3. IsPrefix(sent \o h, Wanted)
    BY <1>7, <1>8, <2>2
  <2>4. WriteBody(h, "data")
    BY <1>2
  <2> HIDE DEF h, p
  <2>5. \/ sent' = sent \o h /\ pc' = "data" /\ error' = FALSE /\ Answering'
        \/ pc' = "done" /\ error' = TRUE /\ IsPrefix(sent', Wanted')
    BY <1>1, <1>2, <1>3, <1>6, <1>8, <2>1, <2>3, <2>4, BodyGoes
  <2>6. QED
    BY <2>2, <2>5
<1>9. pc' \in {"data", "done"} /\ (error' = TRUE \/ error' = FALSE)
      /\ (pc' = "done" => error' = TRUE)
  BY <1>2, <1>3 DEF WriteBody
<1>10. CASE pc' = "data"
  <2>1. ASSUME Plain' PROVE file' = fsize' /\ Delivered'
    <3>1. Plain
      BY <1>4, <2>1
    <3>2. sent' = p /\ Answering'
      BY <1>8, <1>10, <3>1
    <3>3. /\ Accepted' /\ Len(Opened') = Len(ranges') /\ file' = fsize' /\ Opened' = Opened
          /\ k' = k /\ ranges' = ranges
      BY <1>2, <1>4, <1>6, <3>1
    <3>4. \A i \in k' + 1..Len(ranges') : ranges'[i] = Opened'[i]
      BY <1>5, <1>6, <3>1, <3>3
    <3>5. stream' = [pos |-> b, eof |-> FALSE, fail |-> FALSE]
      BY <1>1, <1>2, <1>6, <1>7, <3>1, SeekIn
    <3>6. Within(k)'
      <4>1. stream'.pos = b /\ ~stream'.eof /\ ~stream'.fail
        BY <3>5
      <4>2. ranges'[k'].total = t /\ Opened'[k'].begin = b /\ Opened'[k'].total = t
        BY <1>7, <3>1, <3>3
      <4>3. b \in Nat /\ t \in Nat \ {0}
        BY <1>7, <3>1
      <4> HIDE DEF b, t
      <4>4. QED
        BY <4>1, <4>2, <4>3 DEF Within
    <3>7. ReadOf(k)' = <<>>
      <4>1. stream'.pos = b /\ Opened'[k'].begin = b
        BY <3>3, <3>5
      <4>2. b - b = 0
        BY <1>7, <3>1
      <4> HIDE DEF b
      <4>3. ReadOf(k)' = Run(b, 0)
        BY <4>1, <4>2 DEF ReadOf
      <4>4. QED
        BY <4>3, RunEmpty
    <3>8. sent' = (Upto(k - 1)' \o Units(<<"part", k'>>, PartSize)) \o ReadOf(k)'
      <4>1. Upto(k - 1)' \o Units(<<"part", k'>>, PartSize) = p
        <5>1. Upto(k - 1)' = Upto(k - 1)
          BY <1>4, <3>3
        <5>2. Units(<<"part", k'>>, PartSize) = h
          BY <3>3 DEF Heading
        <5>3. QED
          BY <5>1, <5>2
      <4> HIDE DEF p
      <4>2. p \o <<>> = p
        BY <1>7, <3>1, ConcatEmpty
      <4>3. QED
        BY <3>2, <3>7, <4>1, <4>2
    <3>9. QED
      BY <1>10, <3>2, <3>3, <3>4, <3>6, <3>8 DEF Delivered
  <2>2. QED
    BY <1>3, <1>10, <2>1, GoesOn
<1>11. CASE pc' = "done"
  BY <1>3, <1>4, <1>8, <1>9, <1>11, EndedByError
<1>12. QED
  BY <1>9, <1>10, <1>11

\* The loop of a part, and the CRLF behind its last piece.
LEMMA DeliveryData == ASSUME DeliveryInv, PartLoop PROVE DeliveryInv'
<1>1. /\ TransferInv /\ TypeOK /\ Accounts /\ Places
      /\ query \in Queries /\ fsize \in 0..SizeMod \div 2 /\ file \in Nat /\ overrun \in BOOLEAN
      /\ stream \in Streams /\ sent \in Seq(Unit) /\ resp \in Response /\ ranges \in Seq(Range_)
  BY DeliveryBasics
<1>2. pc = "data" /\ UNCHANGED <<file, fsize, query, shrinks>> /\ (overrun => overrun')
  BY <1>1 DEF PartLoop
<1>3. TransferInv' /\ error = FALSE
  BY <1>1, <1>2, PartLoopStep, DeliveryBasics
<1>4. /\ Wanted' = Wanted /\ Opened' = Opened /\ (Accepted' <=> Accepted) /\ (Plain' => Plain)
      /\ \A i : Upto(i)' = Upto(i)
      /\ Upto(k - 1)' = Upto(k' - 1)
  BY <1>2, SameRequest, PlainBefore
<1>5. Len(ranges) > 1 /\ k \in 1..Len(ranges) /\ Len(ranges) \in Nat
  BY <1>1, <1>2 DEF Places
<1> DEFINE h == Heading(k)
           p == Upto(k - 1) \o h
           b == Opened[k].begin
           t == Opened[k].total
<1>6. ASSUME Plain
      PROVE  /\ file = fsize /\ Accepted /\ Answering /\ Len(Opened) = Len(ranges)
             /\ \A i \in k + 1..Len(ranges) : ranges[i] = Opened[i]
             /\ Within(k) /\ sent = p \o ReadOf(k)
             /\ OpenedFits /\ Wanted = OpenedBody /\ Wanted \in Seq(Unit)
             /\ k \in 1..Len(Opened) /\ Len(Opened) # 1
  <2>1. Delivered /\ file = fsize
    BY <1>2, <1>6 DEF DeliveryInv
  <2>2. /\ Accepted /\ Answering /\ Len(Opened) = Len(ranges)
        /\ \A i \in k + 1..Len(ranges) : ranges[i] = Opened[i]
        /\ Within(k) /\ sent = p \o ReadOf(k)
    BY <1>2, <2>1 DEF Delivered, Heading
  <2>3. OpenedFits /\ Wanted = OpenedBody /\ Wanted \in Seq(Unit)
    BY <1>1, <1>6, <2>2, WantedCases
  <2>4. k \in 1..Len(Opened) /\ Len(Opened) # 1
    BY <1>5, <2>2
  <2>5. QED
    BY <2>1, <2>2, <2>3, <2>4
<1>7. ASSUME Plain
      PROVE  /\ p \in Seq(Unit)
             /\ \A m \in 0..t : IsPrefix(p \o Run(b, m), Wanted)
             /\ (p \o Run(b, t)) \o Crlf = Upto(k)
             /\ Upto(k) \in Seq(Unit) /\ IsPrefix(Upto(k), Wanted)
  BY <1>6, <1>7, InPart
<1> HIDE DEF p
<1>8. CASE ~IsLast(ranges[k]) /\ FullPiece("data") /\ UNCHANGED <<k, overrun>>
  <2>1. ASSUME Plain
        PROVE  \/ /\ pc' = "data" /\ error' = FALSE /\ Answering'
                  /\ sent' = p \o Run(b, stream'.pos - b) /\ Within(k)'
                  /\ Len(ranges') = Len(ranges)
                  /\ \A i \in 1..Len(ranges) : i # k => ranges'[i] = ranges[i]
               \/ pc' = "done" /\ error' = TRUE /\ IsPrefix(sent', Wanted')
    <3>1. p \in Seq(Unit) /\ \A m \in 0..Opened[k].total : IsPrefix(p \o Run(Opened[k].begin, m), Wanted)
      BY <1>7, <2>1
    <3>2. sent = p \o ReadOf(k) /\ k' = k /\ query' = query /\ fsize' = fsize
      BY <1>2, <1>6, <1>8, <2>1
    <3>3. /\ file = fsize /\ Answering /\ Within(k) /\ OpenedFits /\ Wanted \in Seq(Unit)
          /\ k \in 1..Len(Opened) /\ k \in 1..Len(ranges)
      BY <1>5, <1>6, <2>1
    <3>4. FullPiece("data")
      BY <1>8
    <3>5. \/ /\ pc' = "data" /\ error' = FALSE /\ Answering'
             /\ sent' = p \o Run(Opened[k].begin, stream'.pos - Opened[k].begin) /\ Within(k)'
             /\ Len(ranges') = Len(ranges)
             /\ \A i \in 1..Len(ranges) : i # k => ranges'[i] = ranges[i]
          \/ pc' = "done" /\ error' = TRUE /\ IsPrefix(sent', Wanted')
      BY <1>1, <1>3, <3>1, <3>2, <3>3, <3>4, FullPieceGoes
    <3>6. QED
      BY <3>5
  <2>2. pc' \in {"data", "done"} /\ (error' = TRUE \/ error' = FALSE)
        /\ (pc' = "done" => error' = TRUE)
    BY <1>3, <1>8 DEF FullPiece, WriteBody
  <2>3. CASE pc' = "data"
    <3>1. ASSUME Plain' PROVE file' = fsize' /\ Delivered'
      <4>1. Plain
        BY <1>4, <3>1
      <4>2. /\ Answering' /\ Within(k)' /\ sent' = p \o Run(b, stream'.pos - b)
            /\ Len(ranges') = Len(ranges)
            /\ \A i \in 1..Len(ranges) : i # k => ranges'[i] = ranges[i]
        BY <2>1, <2>3, <4>1
      <4>3. Accepted' /\ Len(Opened') = Len(ranges') /\ file' = fsize' /\ k' = k /\ Opened' = Opened
        BY <1>2, <1>4, <1>6, <1>8, <4>1, <4>2
      <4>4. \A i \in k' + 1..Len(ranges') : ranges'[i] = Opened'[i]
        <5>1. ASSUME NEW i \in k + 1..Len(ranges) PROVE ranges'[i] = Opened[i]
          <6>1. i \in 1..Len(ranges) /\ i # k
            BY <1>5
          <6>2. ranges'[i] = ranges[i]
            BY <4>2, <6>1
          <6>3. QED
            BY <1>6, <4>1, <6>2
        <5>2. QED
          BY <4>2, <4>3, <5>1
      <4>5. sent' = (Upto(k - 1)' \o Units(<<"part", k'>>, PartSize)) \o ReadOf(k)'
        <5>1. Upto(k - 1)' \o Units(<<"part", k'>>, PartSize) = p
          <6>1. Upto(k - 1)' = Upto(k - 1)
            BY <1>4, <4>3
          <6>2. Units(<<"part", k'>>, PartSize) = h
            BY <4>3 DEF Heading
          <6>3. QED
            BY <6>1, <6>2 DEF p
        <5>2. ReadOf(k)' = Run(b, stream'.pos - b)
          BY <4>3 DEF ReadOf
        <5>3. QED
          BY <4>2, <5>1, <5>2
      <4>6. QED
        BY <2>3, <4>2, <4>3, <4>4, <4>5 DEF Delivered
    <3>2. QED
      BY <1>3, <2>3, <3>1, GoesOn
  <2>4. CASE pc' = "done"
    BY <1>3, <1>4, <2>1, <2>2, <2>4, EndedByError
  <2>5. QED
    BY <2>2, <2>3, <2>4
<1>9. CASE /\ stream' = AfterRead(ranges[k].total)
           /\ WriteBody(LastPiece, AfterPart) /\ NextPart /\ UNCHANGED ranges
  <2> DEFINE rest == Bytes(ranges[k].total)
             next == AfterPart
  <2>1. ASSUME Plain
        PROVE  /\ stream'.fail = FALSE
               /\ \/ sent' = Upto(k) /\ pc' = next /\ error' = FALSE /\ Answering'
                  \/ pc' = "done" /\ error' = TRUE /\ IsPrefix(sent', Wanted')
    <3>1. /\ rest \in Seq(Unit) /\ rest # <<>>
          /\ sent \o rest = p \o Run(b, t) /\ AfterRead(ranges[k].total).fail = FALSE
      <4>1. p \in Seq(Unit) /\ sent = p \o ReadOf(k)
        BY <1>6, <1>7, <2>1
      <4>2. /\ file = fsize /\ Within(k) /\ OpenedFits
            /\ k \in 1..Len(Opened) /\ k \in 1..Len(ranges)
        BY <1>5, <1>6, <2>1
      <4>3. /\ sent \o rest = p \o Run(Opened[k].begin, Opened[k].total)
            /\ rest \in Seq(Unit) /\ rest # <<>> /\ AfterRead(ranges[k].total).fail = FALSE
        BY <1>1, <4>1, <4>2, LastPieceIsRest
      <4>4. QED
        BY <4>3
    <3>2. LastPiece = rest \o Crlf
      BY DEF LastPiece, Crlf
    <3> DEFINE body == rest \o Crlf
    <3> HIDE DEF rest, next
    <3>3. Crlf \in Seq(Unit) /\ Len(Crlf) = 2
      BY FramingFacts
    <3>4. body \in Seq(Unit) /\ body # <<>>
      <4> DEFINE c == Crlf
      <4>1. c \in Seq(Unit) /\ Len(c) = 2
        BY <3>3
      <4> HIDE DEF c
      <4>2. rest \in Seq(Unit)
        BY <3>1
      <4>3. Len(rest \o c) = Len(rest) + Len(c) /\ rest \o c \in Seq(Unit)
        BY <4>1, <4>2, ConcatFacts
      <4> DEFINE rc == rest \o c
      <4>4. rc \in Seq(Unit) /\ Len(rc) # 0
        <5>1. Len(rest) \in Nat
          BY <4>2
        <5>2. QED
          BY <4>1, <4>3, <5>1
      <4> HIDE DEF rc
      <4>5. rc # <<>>
        BY <4>4
      <4>6. QED
        BY <4>4, <4>5 DEF rc, c
    <3>5. sent \o body = Upto(k)
      <4> DEFINE c == Crlf
      <4>1. c \in Seq(Unit)
        BY <3>3
      <4> HIDE DEF c
      <4>2. (sent \o rest) \o c = sent \o (rest \o c)
        BY <1>1, <3>1, <4>1, UnitConcat, Zenon
      <4>3. (p \o Run(b, t)) \o c = Upto(k)
        BY <1>7, <2>1 DEF c
      <4>4. sent \o (rest \o c) = Upto(k)
        BY <3>1, <4>2, <4>3
      <4>5. QED
        BY <4>4 DEF c
    <3>6. IsPrefix(sent \o body, Wanted)
      BY <1>7, <2>1, <3>5
    <3>7. WriteBody(body, next)
      BY <1>9, <3>2 DEF next
    <3> HIDE DEF body
    <3>8. \/ sent' = sent \o body /\ pc' = next /\ error' = FALSE /\ Answering'
          \/ pc' = "done" /\ error' = TRUE /\ IsPrefix(sent', Wanted')
      BY <1>1, <1>2, <1>3, <1>6, <2>1, <3>4, <3>6, <3>7, BodyGoes
    <3>9. stream'.fail = FALSE
      BY <1>9, <3>1
    <3>10. QED
      BY <3>5, <3>8, <3>9
  <2>2. pc' \in {next, "done"} /\ next \in {"part", "close"} /\ (error' = TRUE \/ error' = FALSE)
        /\ (pc' = "done" => error' = TRUE)
    BY <1>3, <1>9 DEF WriteBody, AfterPart
  <2> HIDE DEF rest
  <2>3. CASE pc' = next
    <3>1. ASSUME Plain' PROVE file' = fsize' /\ (pc' = "part" => ~stream'.fail) /\ Delivered'
      <4>1. Plain
        BY <1>4, <3>1
      <4>2. /\ Answering' /\ sent' = Upto(k) /\ stream'.fail = FALSE
            /\ Accepted' /\ Len(Opened) = Len(ranges) /\ ranges' = ranges
            /\ file' = fsize' /\ Opened' = Opened
        BY <1>2, <1>4, <1>6, <1>9, <2>1, <2>2, <2>3, <4>1
      <4>3. CASE k < Len(ranges)
        <5>1. pc' = "part" /\ k' = k + 1
          BY <1>9, <2>3, <4>3 DEF AfterPart, NextPart
        <5>2. k' - 1 = k
          BY <1>5, <5>1
        <5>3. sent' = Upto(k - 1)'
          BY <1>4, <4>2, <5>2
        <5>4. \A i \in k'..Len(ranges') : ranges'[i] = Opened'[i]
          BY <1>6, <4>1, <4>2, <5>1
        <5>5. QED
          BY <4>2, <5>1, <5>3, <5>4 DEF Delivered
      <4>4. CASE ~(k < Len(ranges))
        <5>1. pc' = "close" /\ k = Len(ranges)
          BY <1>5, <2>3, <4>4 DEF AfterPart
        <5>2. sent' = Upto(Len(Opened))'
          BY <1>4, <4>2, <5>1
        <5>3. Len(Opened)' > 1
          BY <1>5, <4>2
        <5>4. QED
          BY <4>2, <5>1, <5>2, <5>3 DEF Delivered
      <4>5. QED
        BY <4>3, <4>4
    <3>2. QED
      BY <1>3, <2>2, <2>3, <3>1, GoesOn
  <2>4. CASE pc' = "done"
    BY <1>3, <1>4, <2>1, <2>2, <2>4, EndedByError
  <2>5. QED
    BY <2>2, <2>3, <2>4
<1>10. CASE /\ stream.eof \/ GCount(ranges[k].total) = 0
            /\ pc' = AfterPart
  <2>1. ~Plain
    <3>1. ASSUME Plain PROVE FALSE
      <4>1. p \in Seq(Unit) /\ sent = p \o ReadOf(k)
        BY <1>6, <1>7, <3>1
      <4>2. /\ file = fsize /\ Within(k) /\ OpenedFits
            /\ k \in 1..Len(Opened) /\ k \in 1..Len(ranges)
        BY <1>5, <1>6, <3>1
      <4>3. GCount(ranges[k].total) # 0
        BY <1>1, <4>1, <4>2, LastPieceIsRest
      <4>4. ~stream.eof
        BY <4>2 DEF Within
      <4>5. QED
        BY <1>10, <4>3, <4>4
    <3>2. QED
      BY <3>1
  <2>2. ~Plain' /\ pc' # "call"
    BY <1>4, <1>10, <2>1 DEF AfterPart
  <2>3. QED
    BY <1>3, <2>2 DEF DeliveryInv
<1>11. QED
  BY <1>8, <1>9, <1>10 DEF PartLoop

\* A call that ends before the body.
LEMMA EndedEmpty ==
  ASSUME TransferInv', pc' = "done", sent' = <<>>,
         Plain' => /\ Wanted' \in Seq(Unit)
                   /\ error' = TRUE \/ (Wanted' = <<>> /\ Answered')
  PROVE  DeliveryInv'
<1>1. ASSUME Plain' PROVE IsPrefix(sent', Wanted') /\ (~error' => sent' = Wanted' /\ Answered')
  <2>1. Wanted' \in Seq(Unit) /\ (~error' => sent' = Wanted' /\ Answered')
    BY <1>1
  <2>2. QED
    BY <2>1, EmptyIsPrefix
<1>2. QED
  BY <1>1 DEF DeliveryInv, Delivered

\* What DeliveryInv says before the call.
LEMMA DeliveryCalled ==
  ASSUME DeliveryInv, pc = "call"
  PROVE  /\ TransferInv /\ Accounts /\ error = FALSE /\ sent = <<>> /\ ~stream.fail
         /\ (query.written <=> resp.state # "header")
         /\ query \in Queries /\ query.chunked \in BOOLEAN /\ stream \in Streams
         /\ resp \in Response
         /\ file \in 0..SizeMod \div 2 /\ fsize \in 0..SizeMod \div 2
<1>1. /\ TransferInv /\ Accounts /\ Places /\ error = FALSE /\ query \in Queries
      /\ query.chunked \in BOOLEAN /\ stream \in Streams /\ resp \in Response
      /\ fsize \in 0..SizeMod \div 2
  BY DeliveryBasics, Basics
<1>2. file \in 0..SizeMod \div 2
  BY <1>1, TransferAssumption DEF Places
<1>3. QED
  BY <1>1, <1>2 DEF DeliveryInv

\* A refusal is what is wanted when the ranges are not sent.
LEMMA DeliveryRefuse == ASSUME DeliveryInv, Refuse PROVE DeliveryInv'
<1>1. /\ pc = "call" /\ resp.state = "header" /\ query.open /\ query.own = <<>>
      /\ query.header.present /\ ~RangeTextOk(query.header, file)
      /\ fsize' = file /\ query' = query /\ pc' = "done"
  BY DEF Refuse, ByHeader, Called
<1>2. /\ TransferInv /\ error = FALSE /\ ~query.written /\ query \in Queries
      /\ file \in 0..SizeMod \div 2
  BY <1>1, DeliveryCalled
<1>3. TransferInv'
  BY <1>2, RefuseStep
<1>4. ASSUME Plain' PROVE Wanted' = Text
  <2>1. /\ query' \in Queries /\ fsize' \in 0..SizeMod \div 2
        /\ ~query'.written /\ query'.open /\ query'.own = <<>> /\ query'.header.present
        /\ ~RangeTextOk(query'.header, fsize')
    BY <1>1, <1>2
  <2>2. Text' = Text
    BY DEF Text
  <2>3. QED
    BY <1>4, <2>1, <2>2, RefusedNext
<1>5. /\ resp' \in Response
      /\ \/ resp'.state = "chunk" /\ ~resp'.given
         \/ resp'.state = "finish" /\ resp'.given /\ resp'.length = TextSize
         \/ error' = TRUE
      /\ \/ sent' = Text /\ error' = error
         \/ \E n \in 0..TextSize - 1 : sent' = SubSeq(Text, 1, n) /\ error' = TRUE
  BY <1>2, RefuseWrites
<1>6. Text \in Seq(Unit) /\ Len(Text) = TextSize /\ TextSize \in Nat \ {0}
  BY TextFacts
<1>7. CASE sent' = Text /\ error' = error
  <2>1. ASSUME Plain' PROVE Answering' /\ sent' = Wanted' /\ Wanted' \in Seq(Unit)
    <3>1. Wanted' = Text
      BY <1>4, <2>1
    <3>5. error' # TRUE
      BY <1>2, <1>7
    <3>2. resp'.given => resp'.length = Len(Wanted')
      BY <1>5, <1>6, <3>1, <3>5
    <3>3. Answering'
      BY <1>5, <3>2, <3>5 DEF Answering
    <3>4. QED
      BY <1>6, <1>7, <3>1, <3>3
  <2>2. error' = FALSE
    BY <1>2, <1>7
  <2>3. QED
    BY <1>1, <1>3, <2>1, <2>2, EndedWhole
<1>8. ASSUME NEW n \in 0..TextSize - 1, sent' = SubSeq(Text, 1, n), error' = TRUE
      PROVE  DeliveryInv'
  <2>1. ASSUME Plain' PROVE IsPrefix(sent', Wanted')
    <3> DEFINE e == << >>
               s == SubSeq(Text, 1, n)
    <3>1. e \in Seq(Unit) /\ n \in 0..Len(Text)
      BY <1>6
    <3>2. s \in Seq(Unit)
      BY <1>6, <3>1
    <3> HIDE DEF s
    <3>3. e \o Text = Text /\ e \o s = s
      BY <1>6, <3>2, ConcatEmpty
    <3> HIDE DEF e
    <3>4. IsPrefix(e \o s, e \o Text)
      BY <1>6, <3>1, PrefixOfWrite DEF s
    <3>5. IsPrefix(s, Text)
      BY <3>3, <3>4
    <3>6. QED
      BY <1>4, <1>8, <2>1, <3>5 DEF s
  <2>2. QED
    BY <1>1, <1>3, <1>8, <2>1, EndedByError
<1>9. QED
  BY <1>5, <1>7, <1>8

\* A list of ranges that is accepted.
LEMMA DeliveryAccepts ==
  ASSUME DeliveryInv, pc = "call", TransferInv', pc' = "header", fsize' = file, file' = file,
         query' = query, UNCHANGED <<stream, sent>>, Accepted', ranges' = Opened'
  PROVE  DeliveryInv'
<1>1. sent = <<>> /\ ~stream.fail
  BY DeliveryCalled
<1>2. Delivered' /\ ~stream'.fail /\ sent' = <<>> /\ file' = fsize'
  BY <1>1 DEF Delivered
<1>3. QED
  BY <1>2, GoesOn

\* The calls that do not refuse.
LEMMA DeliveryCall ==
  ASSUME DeliveryInv, SendLate \/ OpenFails \/ SendOwn \/ SendWhole \/ SendRanges
  PROVE  DeliveryInv'
<1>1. pc = "call" /\ query' = query /\ file' = file /\ fsize' \in {fsize, file}
  BY DEF SendLate, OpenFails, SendOwn, SendWhole, SendRanges, ByHeader, Called
<1>2. /\ TransferInv /\ Accounts /\ error = FALSE /\ sent = <<>> /\ ~stream.fail
      /\ (query.written <=> resp.state # "header")
      /\ query \in Queries /\ query.chunked \in BOOLEAN /\ stream \in Streams
      /\ resp \in Response
      /\ file \in 0..SizeMod \div 2 /\ fsize \in 0..SizeMod \div 2
  BY <1>1, DeliveryCalled
<1>3. TransferInv'
  BY <1>2, CallStep
<1>4. ASSUME Plain'
      PROVE  /\ Wanted' \in Seq(Unit)
             /\ query.written \/ ~query.open => Wanted' = <<>>
             /\ AskedWhole' => Wanted' = Run(0, fsize')
  <2>1. query' \in Queries /\ fsize' \in 0..SizeMod \div 2
    BY <1>1, <1>2
  <2>2. (Run(0, fsize))' = Run(0, fsize')
    BY DEF Run
  <2>3. QED
    BY <1>1, <1>4, <2>1, <2>2, WantedNext
<1>5. CASE SendLate
  <2>1. query.written /\ pc' = "done" /\ sent' = <<>> /\ Answered'
    BY <1>1, <1>2, <1>5 DEF SendLate, Return, Answered
  <2>2. QED
    BY <1>3, <1>4, <2>1, EndedEmpty
<1>6. CASE OpenFails
  <2>1. error' = TRUE /\ pc' = "done" /\ sent' = <<>>
    BY <1>2, <1>6 DEF OpenFails, Return
  <2>2. QED
    BY <1>3, <1>4, <2>1, EndedEmpty
<1>7. CASE SendOwn
  <2>1. query.open /\ query.own # <<>> /\ ~query.written /\ fsize' = file
    BY <1>2, <1>7 DEF SendOwn, Called
  <2>2. CASE FromFileRangeOk(query.own, file)
    <3>1. ranges' = FromFileRange(query.own) /\ pc' = "header" /\ UNCHANGED <<stream, sent>>
      BY <1>7, <2>2 DEF SendOwn
    <3>2. Accepted' /\ ranges' = Opened'
      BY <1>1, <2>1, <2>2, <3>1 DEF Accepted, Opened
    <3>3. QED
      BY <1>1, <1>3, <2>1, <3>1, <3>2, DeliveryAccepts
  <2>3. CASE ~FromFileRangeOk(query.own, file)
    <3>1. pc' = "done" /\ sent' = <<>> /\ error' = TRUE
      BY <1>2, <1>7, <2>3 DEF SendOwn, Return
    <3>2. QED
      BY <1>3, <1>4, <3>1, EndedEmpty
  <2>4. QED
    BY <2>2, <2>3
<1>8. CASE SendRanges
  <2>1. /\ query.open /\ query.own = <<>> /\ ~query.written /\ fsize' = file
        /\ query.header.present /\ RangeTextOk(query.header, file)
        /\ ranges' = RangeTextParsing(query.header, file)
        /\ pc' = "header" /\ UNCHANGED <<stream, sent>>
    BY <1>2, <1>8 DEF SendRanges, ByHeader, Called
  <2>2. Accepted' /\ ranges' = Opened'
    BY <1>1, <2>1 DEF Accepted, Opened
  <2>3. QED
    BY <1>1, <1>3, <2>1, <2>2, DeliveryAccepts
<1>9. CASE SendWhole
  <2>1. /\ query.open /\ query.own = <<>> /\ ~query.written /\ fsize' = file
        /\ ~query.header.present /\ resp.state = "header"
    BY <1>2, <1>9 DEF SendWhole, ByHeader, Called
  <2>2. AskedWhole'
    BY <1>1, <2>1 DEF AskedWhole
  <2>3. CASE file = 0
    <3>1. pc' = "done" /\ sent' = <<>> /\ resp' = resp
      BY <1>2, <1>9, <2>3 DEF SendWhole, Return
    <3>4. Answered'
      BY <2>1, <2>2, <2>3, <3>1 DEF Answered
    <3>2. Plain' => Wanted' = <<>>
      BY <1>4, <2>1, <2>2, <2>3, RunEmpty
    <3>3. QED
      BY <1>3, <1>4, <3>1, <3>2, <3>4, EndedEmpty
  <2>4. CASE file # 0
    <3>1. WriteHeader(resp, file, "whole") /\ stream' = Seek(stream, 0) /\ sent' = <<>>
      BY <1>2, <1>9, <2>4 DEF SendWhole
    <3>2. resp' = HeaderData(resp, query.chunked, file) /\ pc' \in {"whole", "done"}
          /\ (pc' = "done" => error' = TRUE)
      <4>1. \/ pc' = "whole" /\ error' = error
            \/ pc' = "done" /\ error' = TRUE
        BY <3>1 DEF WriteHeader
      <4>2. resp' = HeaderData(resp, query.chunked, file)
        BY <3>1 DEF WriteHeader
      <4>3. QED
        BY <4>1, <4>2
    <3>3. CASE pc' = "done"
      BY <1>3, <1>4, <3>1, <3>2, <3>3, EndedEmpty
    <3>4. CASE pc' = "whole"
      <4>1. ASSUME Plain' PROVE file' = fsize' /\ Delivered'
        <5>1. Wanted' = Run(0, file) /\ Len(Wanted') = file /\ file \in Nat
          <6>1. Wanted' = Run(0, file) /\ file \in Nat
            BY <1>2, <1>4, <2>1, <2>2, <4>1
          <6>2. QED
            BY <6>1, RunFacts
        <5>2. ~resp.given
          BY <1>1, <1>2, <2>1 DEF Accounts
        <5>3. \/ resp'.state = "chunk" /\ ~resp'.given
              \/ /\ resp'.state = "content_length" /\ resp'.given
                 /\ resp'.left = file /\ resp'.length = file
          BY <1>2, <3>2, <5>2 DEF HeaderData, Response
        <5>4. file > 0
          BY <2>4, <5>1
        <5>5. Answering'
          BY <5>1, <5>3, <5>4 DEF Answering
        <5>6. stream' = [pos |-> 0, eof |-> FALSE, fail |-> FALSE]
          <6>1. SizeMod \div 2 \in Nat
            BY SizeFacts
          <6>2. 0 < SizeMod \div 2
            BY <1>2, <5>4, <6>1
          <6>3. QED
            BY <1>2, <3>1, <6>2, SeekIn
        <5>7. stream'.pos = 0 /\ ~stream'.eof /\ ~stream'.fail
          BY <5>6
        <5>8. sent' = Run(0, stream'.pos)
          BY <3>1, <5>7, RunEmpty
        <5>9. stream'.pos <= fsize' /\ fsize' > 0
          BY <2>1, <5>1, <5>4, <5>7
        <5>10. Delivered'
          BY <2>2, <3>4, <5>5, <5>7, <5>8, <5>9 DEF Delivered
        <5>11. QED
          BY <1>1, <2>1, <5>10
      <4>2. QED
        BY <1>3, <3>4, <4>1, GoesOn
    <3>5. QED
      BY <3>2, <3>3, <3>4
  <2>5. QED
    BY <2>3, <2>4
<1>10. QED
  BY <1>5, <1>6, <1>7, <1>8, <1>9

\* Memory that is overwritten and a file that is cut are not plain.
LEMMA DeliveryOther == ASSUME DeliveryInv, Corrupted \/ Shrink PROVE DeliveryInv'
<1>1. TransferInv' /\ TypeOK
  BY DeliveryBasics, OtherStep
<1>2. ~Plain' /\ pc' # "call"
  <2>1. CASE Corrupted
    BY <2>1 DEF Corrupted, Plain
  <2>2. CASE Shrink
    <3>1. shrinks \in Nat /\ shrinks' = shrinks + 1
      BY <1>1, <2>2, TransferAssumption DEF Shrink, TypeOK
    <3>2. shrinks' # 0
      BY <3>1
    <3>3. pc' # "call"
      BY <2>2 DEF Shrink
    <3>4. QED
      BY <3>2, <3>3 DEF Plain
  <2>3. QED
    BY <2>1, <2>2
<1>3. QED
  BY <1>1, <1>2 DEF DeliveryInv

\* A step of something else.
LEMMA DeliveryStutter == ASSUME DeliveryInv, UNCHANGED vars PROVE DeliveryInv'
<1>1. UNCHANGED <<file, fsize, query, resp, pc, ranges, k, stream, sent, error, overrun, shrinks>>
  BY DEF vars
<1>2. TransferInv'
  BY TransferStutter DEF DeliveryInv
<1>3. /\ Wanted' = Wanted /\ Opened' = Opened /\ (Accepted' <=> Accepted)
      /\ (AskedWhole' <=> AskedWhole) /\ (Plain' => Plain)
      /\ \A i : Upto(i)' = Upto(i)
      /\ Upto(k - 1)' = Upto(k' - 1)
  BY <1>1, SameRequest, PlainBefore
<1>4. Upto(k - 1)' = Upto(k - 1) /\ Upto(Len(Opened))' = Upto(Len(Opened))
  BY <1>1, <1>3
<1>5. Answering' <=> Answering
  BY <1>1, <1>3 DEF Answering
<1>10. Answered' <=> Answered
  BY <1>1, <1>3 DEF Answered
<1>6. (Within(1)' <=> Within(1)) /\ (Within(k)' <=> Within(k))
  BY <1>1, <1>3 DEF Within
<1>7. ReadOf(1)' = ReadOf(1) /\ ReadOf(k)' = ReadOf(k)
  BY <1>1, <1>3 DEF ReadOf
<1>8. Delivered => Delivered'
  BY <1>1, <1>3, <1>4, <1>5, <1>6, <1>7, <1>10 DEF Delivered
<1>9. QED
  BY <1>1, <1>2, <1>3, <1>8 DEF DeliveryInv

\* Nothing has been sent.
LEMMA DeliveryInit == Init => DeliveryInv
<1> SUFFICES ASSUME Init PROVE DeliveryInv
  OBVIOUS
<1>1. TransferInv
  BY TransferInit
<1>2. pc = "call" /\ sent = <<>> /\ ~stream.fail
  BY DEF Init
<1>3. query.written <=> resp.state # "header"
  <2>1. query.written \in BOOLEAN /\ query.chunked \in BOOLEAN
    BY TransferAssumption DEF Init, Query
  <2>2. NewResponse \in Response /\ NewResponse.state = "header"
    BY DEF NewResponse, Response, ProState
  <2>3. HeaderData(NewResponse, query.chunked, 0).state # "header"
    BY <2>1, <2>2, HeaderDataFacts
  <2>4. QED
    BY <2>1, <2>2, <2>3 DEF Init
<1>4. QED
  BY <1>1, <1>2, <1>3 DEF DeliveryInv

\* Every step preserves it.
LEMMA DeliveryInductive == Spec => []DeliveryInv
<1>1. DeliveryInv /\ [Next]_vars => DeliveryInv'
  BY DeliveryCall, DeliveryRefuse, DeliveryWhole, DeliveryHeader, DeliverySingle, DeliveryPart,
     DeliveryData, DeliveryClose, DeliveryOther, DeliveryStutter DEF Next, Step
<1>2. QED
  BY <1>1, DeliveryInit, PTL DEF Spec

-----------------------------------------------------------------------------
\* co_send_file(), for every file, buffer and request that Plain leaves: what the client has
\* is at every moment a prefix of what the request asked for, and all of it when the
\* coroutine ends without an error, with the response finished; for the whole of an empty
\* file, with a response that has not begun.
THEOREM SentIsWhatWasAsked == Spec => []SentIsWanted
<1>1. DeliveryInv => SentIsWanted
  <2> SUFFICES ASSUME DeliveryInv, Plain
               PROVE  /\ IsPrefix(sent, Wanted)
                      /\ pc = "done" /\ ~error => sent = Wanted /\ Answered
    BY DEF SentIsWanted
  <2>1. /\ TypeOK /\ Places /\ query \in Queries /\ fsize \in 0..SizeMod \div 2 /\ file \in Nat
        /\ stream \in Streams /\ sent \in Seq(Unit) /\ ranges \in Seq(Range_)
    BY DeliveryBasics
  <2>2. /\ Wanted \in Seq(Unit)
        /\ AskedWhole => Wanted = Run(0, fsize)
        /\ Accepted => Wanted = OpenedBody /\ OpenedFits
    BY <2>1, WantedCases
  <2>3. CASE pc \in {"call", "header"}
    <3>1. sent = <<>>
      BY <2>3 DEF DeliveryInv, Delivered
    <3>2. QED
      BY <2>2, <2>3, <3>1, EmptyIsPrefix
  <2>4. CASE pc = "whole"
    <3>1. Delivered
      BY <2>4 DEF DeliveryInv
    <3>2. AskedWhole /\ stream.pos <= fsize /\ sent = Run(0, stream.pos)
      BY <2>4, <3>1 DEF Delivered
    <3>3. stream.pos \in Nat /\ fsize \in Nat
      BY <2>1 DEF Streams
    <3>4. IsPrefix(sent, Wanted)
      BY <2>2, <3>2, <3>3, RunPrefix
    <3>5. QED
      BY <2>4, <3>4
  <2>5. CASE pc \in {"single", "data"}
    <3>1. Delivered /\ file = fsize
      BY <2>5 DEF DeliveryInv
    <3>2. Accepted
      BY <2>5, <3>1 DEF Delivered
    <3>3. OpenedFits /\ Wanted = OpenedBody
      BY <2>2, <3>2
    <3>4. CASE pc = "single"
      <4>1. Len(Opened) = 1 /\ Within(1) /\ sent = ReadOf(1) /\ Len(ranges) = 1
        BY <2>1, <3>1, <3>4 DEF Delivered, Places
      <4>2. 1 \in 1..Len(Opened) /\ 1 \in 1..Len(ranges)
        BY <4>1
      <4> DEFINE b == Opened[1].begin
                 t == Opened[1].total
                 m == stream.pos - b
      <4>3. b \in Nat /\ t \in Nat /\ m \in Nat /\ ranges[1].total \in Nat \ {0}
            /\ m + ranges[1].total = t
        BY <2>1, <3>1, <3>3, <4>1, <4>2, InRange
      <4>4. Wanted = Run(b, t) /\ sent = Run(b, m)
        BY <3>3, <4>1 DEF OpenedBody, ReadOf
      <4> HIDE DEF b, t, m
      <4>5. m <= t
        BY <4>3
      <4>6. IsPrefix(sent, Wanted)
        BY <4>3, <4>4, <4>5, RunPrefix
      <4>7. QED
        BY <3>4, <4>6
    <3>5. CASE pc = "data"
      <4>1. /\ Len(Opened) = Len(ranges) /\ Within(k) /\ k \in 1..Len(ranges) /\ Len(ranges) > 1
            /\ sent = (Upto(k - 1) \o Heading(k)) \o ReadOf(k)
        BY <2>1, <3>1, <3>5 DEF Delivered, Places, Heading
      <4>2. k \in 1..Len(Opened) /\ Len(Opened) # 1
        BY <4>1
      <4> DEFINE b == Opened[k].begin
                 t == Opened[k].total
                 m == stream.pos - b
                 p == Upto(k - 1) \o Heading(k)
      <4>3. b \in Nat /\ t \in Nat /\ m \in Nat /\ ranges[k].total \in Nat \ {0}
            /\ m + ranges[k].total = t
        BY <2>1, <3>1, <3>3, <4>1, <4>2, InRange
      <4>4. \A j \in 0..t : IsPrefix(p \o Run(b, j), Wanted)
        BY <3>3, <4>2, InPart
      <4>5. sent = p \o Run(b, m)
        BY <4>1 DEF ReadOf
      <4> HIDE DEF b, t, m, p
      <4>6. m \in 0..t
        BY <4>3
      <4>7. IsPrefix(sent, Wanted)
        BY <4>4, <4>5, <4>6
      <4>8. QED
        BY <3>5, <4>7
    <3>6. QED
      BY <2>5, <3>4, <3>5
  <2>6. CASE pc \in {"part", "close"}
    <3>1. Delivered
      BY <2>6 DEF DeliveryInv
    <3>2. Accepted
      BY <2>6, <3>1 DEF Delivered
    <3>3. OpenedFits /\ Wanted = OpenedBody
      BY <2>2, <3>2
    <3>4. Len(Opened) > 1 /\ Len(Opened) \in Nat
      BY <2>1, <2>6, <3>1, <3>3 DEF Delivered, Places, OpenedFits
    <3>5. PICK i \in 0..Len(Opened) : sent = Upto(i)
      <4>1. CASE pc = "part"
        <5>1. sent = Upto(k - 1) /\ k \in 1..Len(ranges) /\ Len(Opened) = Len(ranges)
          BY <2>1, <3>1, <4>1 DEF Delivered, Places
        <5>2. k - 1 \in 0..Len(Opened)
          BY <3>4, <5>1
        <5>3. QED
          BY <5>1, <5>2
      <4>2. CASE pc = "close"
        <5>1. sent = Upto(Len(Opened))
          BY <3>1, <4>2 DEF Delivered
        <5>2. QED
          BY <3>4, <5>1
      <4>3. QED
        BY <2>6, <4>1, <4>2
    <3> DEFINE u == Upto(Len(Opened))
               s == Upto(i)
    <3>6. u \in Seq(Unit) /\ s \in Seq(Unit) /\ IsPrefix(s, u) /\ Closing \in Seq(Unit)
      <4>1. Len(Opened) \in 0..Len(Opened)
        BY <3>4
      <4>2. QED
        BY <3>3, <3>5, <4>1, UptoFacts, UptoIsPrefix, FramingFacts
    <3>7. Wanted = u \o Closing
      <4>1. Len(Opened) # 1
        BY <3>4
      <4>2. OpenedBody = FlattenSeq(Parts) \o Closing
        BY <4>1 DEF OpenedBody, Closing
      <4>3. u = FlattenSeq(Parts)
        BY <3>3, UptoFacts
      <4>4. QED
        BY <3>3, <4>2, <4>3
    <3> HIDE DEF u, s
    <3>8. IsPrefix(u, Wanted)
      BY <3>6, <3>7, PrefixOfConcat
    <3>9. IsPrefix(s, Wanted)
      BY <2>2, <3>6, <3>8, PrefixTransitive
    <3>10. QED
      BY <2>6, <3>5, <3>9 DEF s
  <2>7. CASE pc \in {"done", "aborted"}
    <3>1. Delivered
      BY <2>7 DEF DeliveryInv
    <3>2. QED
      BY <2>7, <3>1 DEF Delivered
  <2>8. QED
    BY <2>1, <2>3, <2>4, <2>5, <2>6, <2>7 DEF TypeOK, Phases
<1>2. QED
  BY <1>1, DeliveryInductive, PTL
=============================================================================
