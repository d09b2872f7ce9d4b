---------------------------- MODULE FileTransfer ----------------------------
(***************************************************************************)
(* response::send_file(): a file, or ranges of it, as the body of a        *)
(* response (http/server/detail/response.h).  The coroutine functions are  *)
(* the ones modelled: co_send_file, co_default_transfer, co_range_transfer *)
(* and co_send_range; their blocking twins name members that do not exist  *)
(* and cannot be instantiated.                                             *)
(*                                                                         *)
(* A step is what happens between two co_awaits.  The body is a sequence   *)
(* of units: a byte of the file is <<"byte", offset>>, a byte of framing   *)
(* <<kind, n>>.  Sizes are size_t: arithmetic is modulo SizeMod.           *)
(***************************************************************************)
EXTENDS HttpResponse, Sequences, FiniteSets, SequencesExt

CONSTANTS
  FileSizes,      \* sizes of the file
  Queries,        \* what the handler and the client ask for (Query)
  BufSize,        \* buf_size (0xFFFF in the code)
  SizeMod,        \* 2^64: size_t wraps there
  LineSize,       \* bytes of the boundary, a Content-Type line, a Content-Range line
  TextSize,       \* bytes of the text of a refusal
  Asserts,        \* may the build check assert()
  MaxShrinks,     \* how often another process may cut the file
  None            \* an absent number of a range

VARIABLES
  file,           \* the size of the file now
  fsize,          \* data.fsize: its size when it was opened
  query,          \* the arguments of send_file() and the request's Range header
  resp,           \* the response
  pc,             \* where the coroutine is
  ranges,         \* list of [begin, end, total]; total counts down while it is sent
  k,              \* the range being sent
  stream,         \* the position of the stream and its eofbit and failbit
  sent,           \* the body as the client has it
  error,          \* the error_code is set
  overrun,        \* a byte was written behind the end of buf
  shrinks

vars == <<file, fsize, query, resp, pc, ranges, k, stream, sent, error, overrun, shrinks>>

Number    == (0..SizeMod - 1) \cup {None}
RangeSpec == [first : Number, last : Number]      \* "first-last"; other texts are not in it
Range_    == [begin : 0..SizeMod - 1, end : 0..SizeMod - 1, total : 0..SizeMod - 1]

\* written: the handler has written before;  open: the stream opens and has a size;
\* own: the ranges of the file_opt_token;  header: the Range header.  units: it starts
\* with "bytes=" and goes on;  specs: the texts between its commas that are not blank
\* (None: not of the form "x-y"; a number that cannot be read is 0).
Header == [present : BOOLEAN, units : BOOLEAN, specs : Seq(RangeSpec \cup {None})]
Query  == [written : BOOLEAN, open : BOOLEAN, chunked : BOOLEAN,
           own : Seq([begin : 0..SizeMod - 1, total : 0..SizeMod - 1]), header : Header]

ASSUME TransferAssumption ==
  /\ FileSizes \subseteq 0..SizeMod \div 2       \* the size of a file is an off_t
  /\ BufSize \in Nat \ {0} /\ SizeMod \in Nat \ {0}
  /\ LineSize \in Nat /\ TextSize \in Nat \ {0}
  /\ Asserts \subseteq BOOLEAN /\ Asserts # {} /\ MaxShrinks \in Nat
  /\ Queries \subseteq Query

Phases == {"call", "whole", "header", "single", "part", "data", "close", "done", "aborted"}

Init ==
  /\ file \in FileSizes /\ fsize = 0 /\ query \in Queries
  /\ resp = IF query.written THEN HeaderData(NewResponse, query.chunked, 0) ELSE NewResponse
  /\ pc = "call" /\ ranges = <<>> /\ k = 1
  /\ stream = [pos |-> 0, eof |-> FALSE, fail |-> FALSE]
  /\ sent = <<>> /\ error = FALSE /\ overrun = FALSE /\ shrinks = 0

\* ---- Which ranges ----

Wrap(n) == n % SizeMod

\* One text of the Range header: a sequence of one range, or none when it is refused.
ParseSpec(s, size) ==
  CASE s = None -> <<>>
    [] s # None /\ s.first = None /\ s.last = None -> <<>>
    [] s # None /\ s.first = None /\ s.last # None ->
         IF s.last = 0 \/ s.last > size THEN <<>>
         ELSE << [begin |-> size - s.last, end |-> size - 1, total |-> s.last] >>
    [] s # None /\ s.first # None /\ s.last = None ->
         IF s.first > Wrap(size - 1) THEN <<>>
         ELSE << [begin |-> s.first, end |-> Wrap(size - 1), total |-> Wrap(size - s.first)] >>
    [] OTHER ->
         IF s.first > s.last \/ s.last >= size THEN <<>>
         ELSE << [begin |-> s.first, end |-> s.last, total |-> s.last - s.first + 1] >>

\* range_text_parsing(): one refused text refuses the header.
RangeTextOk(h, size) ==
  /\ h.units
  /\ \A i \in 1..Len(h.specs) : ParseSpec(h.specs[i], size) # <<>>

RangeTextParsing(h, size) == [i \in 1..Len(h.specs) |-> ParseSpec(h.specs[i], size)[1]]

\* from_file_range(): the ranges of the token; one that does not fit is an error.
OwnEnd(r) == Wrap(r.begin + r.total - 1)
FromFileRangeOk(own, size) == \A i \in 1..Len(own) : own[i].total # 0 /\ OwnEnd(own[i]) < size
FromFileRange(own) ==
  [i \in 1..Len(own) |-> [begin |-> own[i].begin, end |-> OwnEnd(own[i]), total |-> own[i].total]]

\* ---- The file stream (external) ----

\* seekg() clears eofbit, does nothing after a failure, and fails where size_t is a
\* negative offset.
Seek(s, p) ==
  [pos  |-> IF s.fail \/ p >= SizeMod \div 2 THEN s.pos ELSE p,
   eof  |-> FALSE,
   fail |-> s.fail \/ p >= SizeMod \div 2]

\* read(n): gcount() is what there is; fewer than n set eofbit and failbit.
GCount(n) == IF stream.fail \/ stream.pos >= file THEN 0
             ELSE IF n < file - stream.pos THEN n ELSE file - stream.pos

AfterRead(n) ==
  IF stream.fail THEN stream
  ELSE [pos |-> stream.pos + GCount(n), eof |-> GCount(n) < n, fail |-> GCount(n) < n]

Bytes(n)   == [i \in 1..GCount(n) |-> <<"byte", stream.pos + i - 1>>]
Units(u,n) == [i \in 1..n |-> u]

\* ---- Writing ----

\* A write of body and the place where the coroutine goes on; when the write fails the
\* client has a part of it, and every caller returns.
WriteBody(body, next) ==
  LET out == SubSeq(body, 1, BodySize(resp, Len(body)))
  IN  /\ resp' = BodyData(resp, Len(body))
      /\ \/ /\ sent' = sent \o out
            /\ pc' = next
            /\ UNCHANGED error
         \/ \E n \in 0..Len(out) - 1 :
              /\ sent' = sent \o SubSeq(out, 1, n)
              /\ pc' = "done"
              /\ error' = TRUE

\* co_write_header(): r has the headers set by the caller.
WriteHeader(r, size, next) ==
  /\ resp' = HeaderData(r, query.chunked, size)
  /\ \/ pc' = next /\ UNCHANGED error
     \/ pc' = "done" /\ error' = TRUE

\* ---- co_send_file() ----

Return == pc' = "done" /\ UNCHANGED <<resp, ranges, stream, sent>>

\* pro_state() is no longer header: nothing is sent.
SendLate ==
  /\ pc = "call" /\ resp.state # "header"
  /\ Return
  /\ UNCHANGED <<file, fsize, query, k, error, overrun, shrinks>>

Called == pc = "call" /\ resp.state = "header"

\* The stream does not open, or has no size.
OpenFails ==
  /\ Called /\ ~query.open
  /\ Return /\ error' = TRUE
  /\ UNCHANGED <<file, fsize, query, k, overrun, shrinks>>

\* The token has ranges of its own: the Range header is not looked at.
SendOwn ==
  /\ Called /\ query.open /\ query.own # <<>>
  /\ fsize' = file
  /\ IF FromFileRangeOk(query.own, file)
     THEN /\ ranges' = FromFileRange(query.own) /\ pc' = "header"
          /\ UNCHANGED <<resp, stream, sent, error>>
     ELSE Return /\ error' = TRUE
  /\ UNCHANGED <<file, query, k, overrun, shrinks>>

ByHeader == Called /\ query.open /\ query.own = <<>>

\* No Range header: co_default_transfer() up to the header.  Nothing is written for
\* an empty file.
SendWhole ==
  /\ ByHeader /\ ~query.header.present
  /\ fsize' = file
  /\ \/ /\ file = 0
        /\ Return /\ UNCHANGED error
     \/ /\ file # 0
        /\ WriteHeader(resp, file, "whole")
        /\ stream' = Seek(stream, 0)
        /\ UNCHANGED <<ranges, sent>>
  /\ UNCHANGED <<file, query, k, overrun, shrinks>>

SendRanges ==
  /\ ByHeader /\ query.header.present /\ RangeTextOk(query.header, file)
  /\ fsize' = file
  /\ ranges' = RangeTextParsing(query.header, file)
  /\ pc' = "header"
  /\ UNCHANGED <<file, query, resp, k, stream, sent, error, overrun, shrinks>>

\* 416 with a text; write() sends the header and then the text, and either may fail.
Refuse ==
  /\ ByHeader /\ query.header.present /\ ~RangeTextOk(query.header, file)
  /\ fsize' = file
  /\ LET r   == Headed(SetStatus(resp, 416), query.chunked, TextSize)
         out == Units(<<"text", 0>>, BodySize(r, TextSize))
     IN  \/ resp' = r /\ error' = TRUE /\ UNCHANGED sent
         \/ /\ resp' = BodyData(r, TextSize)
            /\ \/ sent' = out /\ UNCHANGED error
               \/ \E n \in 0..TextSize - 1 : sent' = SubSeq(out, 1, n) /\ error' = TRUE
  /\ pc' = "done"
  /\ UNCHANGED <<file, query, ranges, k, stream, overrun, shrinks>>

\* ---- co_default_transfer(): the loop ----

WholeLoop ==
  /\ pc = "whole"
  /\ \/ /\ stream.eof \/ GCount(BufSize) = 0
        /\ pc' = "done"
        /\ stream' = IF stream.eof THEN stream ELSE AfterRead(BufSize)
        /\ UNCHANGED <<resp, sent, error>>
     \/ /\ ~stream.eof /\ GCount(BufSize) # 0
        /\ stream' = AfterRead(BufSize)
        /\ WriteBody(Bytes(BufSize), "whole")
  /\ UNCHANGED <<file, fsize, query, ranges, k, overrun, shrinks>>

\* ---- co_range_transfer() and co_send_range() ----

PartSize  == 2 + LineSize + 2 + LineSize + 2 + LineSize + 2 + 2
CloseSize == 2 + LineSize + 4

\* The bytes of all ranges, each with the number of its range.
Content == UNION {{i} \X (1..ranges[i].total) : i \in 1..Len(ranges)}

\* Mutation: the two bytes behind the content of a part are not counted.
ContentLength_NoTail == Wrap(Len(ranges) * PartSize + Cardinality(Content) + CloseSize)

\* The Content-Length header of a multipart body.
ContentLength == Wrap(Len(ranges) * (PartSize + 2) + Cardinality(Content) + CloseSize)

\* 206, the headers, and write_header(0): its Content-Length is the header's.
\* assert(not ranges.empty()) comes first where the build has it.
RangeHeader ==
  /\ pc = "header"
  /\ LET total == IF Len(ranges) = 1 THEN ranges[1].total ELSE ContentLength
         r == [SetStatus(resp, 206) EXCEPT !.given = TRUE, !.length = total]
     IN  \/ /\ ranges = <<>> /\ TRUE \in Asserts
            /\ pc' = "aborted" /\ resp' = r
            /\ UNCHANGED <<stream, error>>
         \/ /\ ranges # <<>> \/ FALSE \in Asserts
            /\ WriteHeader(r, 0, CASE Len(ranges) = 0 -> "close"
                                   [] Len(ranges) = 1 -> "single"
                                   [] OTHER -> "part")
            /\ stream' = IF Len(ranges) = 1 THEN Seek(stream, ranges[1].begin) ELSE stream
  /\ UNCHANGED <<file, fsize, query, ranges, k, sent, overrun, shrinks>>

\* Mutation: the size of the piece is not taken from what is left.
LessBuf_Kept(r) == r

LessBuf(r) == [r EXCEPT !.total = @ - BufSize]

\* A piece that fills the buffer, with more to come; the coroutine goes on in phase next.
FullPiece(next) ==
  /\ ~stream.eof /\ ranges[k].total > BufSize
  /\ stream' = AfterRead(BufSize)
  /\ ranges' = [ranges EXCEPT ![k] = LessBuf(@)]
  /\ WriteBody(Bytes(BufSize), next)

SingleLoop ==
  /\ pc = "single"
  /\ \/ FullPiece("single")
     \/ /\ ~stream.eof /\ ranges[k].total <= BufSize
        /\ stream' = AfterRead(ranges[k].total)
        /\ WriteBody(Bytes(ranges[k].total), "done")
        /\ UNCHANGED ranges
     \/ /\ stream.eof
        /\ pc' = "done"
        /\ UNCHANGED <<resp, ranges, stream, sent, error>>
  /\ UNCHANGED <<file, fsize, query, k, overrun, shrinks>>

\* The heading of part k, then seekg().
PartHead ==
  /\ pc = "part"
  /\ WriteBody(Units(<<"part", k>>, PartSize), "data")
  /\ stream' = Seek(stream, ranges[k].begin)
  /\ UNCHANGED <<file, fsize, query, ranges, k, overrun, shrinks>>

AfterPart == IF k < Len(ranges) THEN "part" ELSE "close"
NextPart  == k' = IF k < Len(ranges) THEN k + 1 ELSE k

\* The last piece of a part with the CRLF that the code puts behind it in buf.
LastPiece == Bytes(ranges[k].total) \o Units(<<"crlf", 0>>, 2)

\* Mutation: the last piece may be longer than the buffer.
IsLast_Off(r) == r.total <= BufSize + 1

IsLast(r) == r.total <= BufSize

PartLoop ==
  /\ pc = "data"
  /\ \/ /\ ~IsLast(ranges[k])
        /\ FullPiece("data")
        /\ UNCHANGED <<k, overrun>>
     \/ /\ ~stream.eof /\ IsLast(ranges[k]) /\ GCount(ranges[k].total) # 0
        /\ stream' = AfterRead(ranges[k].total)
        /\ overrun' = (overrun \/ Len(LastPiece) > BufSize)
        /\ WriteBody(LastPiece, AfterPart)
        /\ NextPart
        /\ UNCHANGED ranges
     \/ /\ stream.eof \/ (IsLast(ranges[k]) /\ GCount(ranges[k].total) = 0)
        /\ stream' = IF stream.eof THEN stream ELSE AfterRead(ranges[k].total)
        /\ pc' = AfterPart
        /\ NextPart
        /\ UNCHANGED <<resp, ranges, sent, error, overrun>>
  /\ UNCHANGED <<file, fsize, query, shrinks>>

Close ==
  /\ pc = "close"
  /\ WriteBody(Units(<<"close", 0>>, CloseSize), "done")
  /\ UNCHANGED <<file, fsize, query, ranges, k, stream, overrun, shrinks>>

\* What lies behind buf has been overwritten: the process goes on as if it were not, or
\* it fails.
Corrupted ==
  /\ overrun /\ pc \notin {"done", "aborted"}
  /\ pc' = "aborted"
  /\ UNCHANGED <<file, fsize, query, resp, ranges, k, stream, sent, error, overrun, shrinks>>

\* Another process cuts the file while it is being sent (external).
Shrink ==
  /\ pc \notin {"call", "done", "aborted"} /\ shrinks < MaxShrinks /\ file > 0
  /\ \E n \in 0..file - 1 : file' = n
  /\ shrinks' = shrinks + 1
  /\ UNCHANGED <<fsize, query, resp, pc, ranges, k, stream, sent, error, overrun>>

Step ==
  \/ SendLate \/ OpenFails \/ SendOwn \/ SendWhole \/ SendRanges \/ Refuse
  \/ WholeLoop \/ RangeHeader \/ SingleLoop \/ PartHead \/ PartLoop \/ Close

Next == Step \/ Corrupted \/ Shrink

Spec == Init /\ [][Next]_vars

\* The loop runs the coroutine on, and a write is answered: with success or an error.
FairSpec == Spec /\ WF_vars(Step)

\* ---- Properties ----

TypeOK ==
  /\ file \in Nat /\ fsize \in FileSizes \cup {0} /\ query \in Queries
  /\ resp \in Response /\ pc \in Phases
  /\ ranges \in Seq(Range_) /\ k \in Nat
  /\ stream \in [pos : Nat, eof : BOOLEAN, fail : BOOLEAN]
  /\ sent \in Seq({"byte", "part", "crlf", "close", "text"} \X Nat)
  /\ error \in BOOLEAN /\ overrun \in BOOLEAN /\ shrinks \in 0..MaxShrinks

\* The offsets a text of a Range header means, and whether all of them are there.
Asked(s, size) ==
  {i \in 0..size - 1 :
     IF s.first = None THEN i + s.last >= size
     ELSE i >= s.first /\ (s.last # None => i <= s.last)}

Servable(s, size) ==
  /\ s # None /\ (s.first # None \/ s.last # None)
  /\ Asked(s, size) # {}
  /\ s.last # None => IF s.first = None THEN s.last <= size
                      ELSE s.last < size

\* The bytes of the file at the offsets in S, in their order.
ByteSeq(S) ==
  [i \in 1..Cardinality(S) |->
     <<"byte", CHOOSE o \in S : Cardinality({p \in S : p < o}) = i - 1>>]

\* Part i of a multipart body, with these bytes.
Part(i, bytes) == Units(<<"part", i>>, PartSize) \o bytes \o Units(<<"crlf", 0>>, 2)

\* The body for a sequence of sets of offsets.
BodyOf(sets) ==
  IF Len(sets) = 1 THEN ByteSeq(sets[1])
  ELSE FlattenSeq([i \in 1..Len(sets) |-> Part(i, ByteSeq(sets[i]))])
         \o Units(<<"close", 0>>, CloseSize)

\* What the body should be, by the request alone.
Wanted ==
  LET own == query.own  specs == query.header.specs
      Of(r) == {i \in 0..fsize - 1 : i >= r.begin /\ i < r.begin + r.total}
  IN  CASE query.written \/ ~query.open -> <<>>
        [] ~query.written /\ query.open /\ own # <<>> ->
             IF \A i \in 1..Len(own) : own[i].total # 0 /\ own[i].begin + own[i].total <= fsize
             THEN BodyOf([i \in 1..Len(own) |-> Of(own[i])]) ELSE <<>>
        [] ~query.written /\ query.open /\ own = <<>> /\ ~query.header.present -> ByteSeq(0..fsize - 1)
        [] OTHER ->
             IF query.header.units /\ \A i \in 1..Len(specs) : Servable(specs[i], fsize)
             THEN BodyOf([i \in 1..Len(specs) |-> Asked(specs[i], fsize)])
             ELSE Units(<<"text", 0>>, TextSize)

\* Not the cases in which the code does something else than what was asked for: a file cut
\* under the transfer, memory overwritten by it, a Range header with commas only, an open
\* range of an empty file, a range of the handler whose end wraps, and a body that is
\* longer than its Content-Length can say.
Plain ==
  /\ shrinks = 0 /\ ~overrun
  /\ query.header.units => query.header.specs # <<>>
  /\ fsize = 0 => \A i \in 1..Len(query.header.specs) :
       LET s == query.header.specs[i] IN s # None => s.last # None
  /\ \A i \in 1..Len(query.own) : query.own[i].begin + query.own[i].total <= SizeMod
  /\ Len(Wanted) < SizeMod

AskedWhole == ~query.written /\ query.open /\ query.own = <<>> /\ ~query.header.present

\* The response after a transfer without an error: finished, or left open when it is
\* chunked.  The whole of an empty file is the exception, co_default_transfer() returns
\* before the header (response.h:262).  A handler that has written before has its own.
Answered ==
  ~query.written => \/ resp.state = IF resp.given THEN "finish" ELSE "chunk"
                    \/ AskedWhole /\ fsize = 0 /\ resp.state = "header"

\* At every moment of a transfer the client has a prefix of what was asked for, byte by
\* byte and part by part: pieces are neither lost, repeated nor taken from elsewhere
\* in the file (the loops of response.h:500-595).  A transfer that ends without an error
\* has sent everything, and the response knows that it is finished (a chunked one is
\* left open): the Content-Length computed in advance (response.h:363-395) is the length
\* of what the loops send.  Not so the whole of an empty file: nothing is written, the
\* response has not begun, and the service goes on with its default page.
SentIsWanted ==
  Plain =>
    /\ IsPrefix(sent, Wanted)
    /\ pc = "done" /\ ~error => sent = Wanted /\ Answered

\* No write of a transfer is longer.
Larger(a, b) == IF a > b THEN a ELSE b
LargestWrite == Larger(BufSize + 2, Larger(PartSize, TextSize))

\* Also when the file shrinks or a range is out of it: no more than Content-Length is
\* sent, and a response that counts as finished has sent all of it unless a write failed.
\* body_data() counts a write before it is made, so after one that failed a finished
\* response may be short, by no more than that write: the writes before it arrived, and
\* none comes after it.
FinishedIsAnnounced ==
  resp.given /\ ~overrun =>
    /\ Len(sent) <= resp.length
    /\ resp.state = "finish" =>
         IF error THEN resp.length - Len(sent) <= LargestWrite
         ELSE Len(sent) = resp.length

\* The CRLF written behind the last piece of a part (response.h:571-572) leaves the
\* buffer in one case only: several ranges, one of which ends with a piece that leaves
\* less than two bytes of it free.
OverrunNeedsFullBuffer ==
  overrun => /\ Len(ranges) > 1
             /\ \E i \in 1..Len(ranges) : ranges[i].total \in {BufSize - 1, BufSize}

\* Every transfer comes to an end, whatever the ranges and however the file shrinks: the
\* loops stop by the end of the file or because the rest gets smaller.
TransferEnds == <>(pc \in {"done", "aborted"})


\* ---- The inductive invariant of FinishedIsAnnounced and OverrunNeedsFullBuffer ----

\* Where the coroutine is in its list of ranges; a write that fails is the last one.
Places ==
  /\ pc = "call" => file \in FileSizes /\ fsize = 0 /\ ranges = <<>> /\ ~overrun
  /\ pc \in {"call", "header", "whole"} => k = 1 /\ ~overrun
  /\ pc = "header" => resp.state = "header"
  /\ pc = "single" => Len(ranges) = 1 /\ k = 1
  /\ pc \in {"part", "data"} => Len(ranges) > 1 /\ k \in 1..Len(ranges)
  /\ error => pc = "done"

\* The units the response still waits for are those of Content-Length that are not sent;
\* after a failed write the client may have fewer, by that write, than the response counts.
Accounts ==
  /\ resp.state = "header" => sent = <<>> /\ (pc \in {"call", "header"} => ~resp.given)
  /\ resp.state = "chunk" => ~resp.given
  /\ resp.state = "content_length" =>
       /\ Len(sent) + resp.left <= resp.length
       /\ resp.length <= Len(sent) + resp.left + LargestWrite
       /\ ~error => Len(sent) + resp.left = resp.length
  /\ resp.state = "finish" =>
       /\ Len(sent) <= resp.length /\ resp.length <= Len(sent) + LargestWrite
       /\ ~error => Len(sent) = resp.length

TransferInv == TypeOK /\ Places /\ Accounts /\ OverrunNeedsFullBuffer

\* ---- The inductive invariant of SentIsWanted ----

\* The ranges as they were when the first byte was sent, and whether they are sent at all.
Opened == IF query.own # <<>> THEN FromFileRange(query.own)
          ELSE RangeTextParsing(query.header, fsize)

Accepted ==
  /\ ~query.written /\ query.open
  /\ query.own # <<>> => FromFileRangeOk(query.own, fsize)
  /\ query.own = <<>> => query.header.present /\ RangeTextOk(query.header, fsize)

\* n bytes of the file, from offset b on.
Run(b, n) == [i \in 1..n |-> <<"byte", b + i - 1>>]

Parts   == [i \in 1..Len(Opened) |-> Part(i, Run(Opened[i].begin, Opened[i].total))]
Upto(i) == FlattenSeq(SubSeq(Parts, 1, i))

\* The stream is in the range, and what is left of it is what was not read.
Within(i) ==
  /\ ~stream.eof /\ ~stream.fail
  /\ ranges[i].total > 0 /\ stream.pos >= Opened[i].begin
  /\ stream.pos + ranges[i].total = Opened[i].begin + Opened[i].total

ReadOf(i) == Run(Opened[i].begin, stream.pos - Opened[i].begin)

\* The header is out, and the response waits for the body that is wanted.
Answering ==
  /\ resp.state \in {"content_length", "chunk", "finish"}
  /\ resp.given <=> resp.state # "chunk"
  /\ resp.given => resp.length = Len(Wanted)
  /\ resp.state = "content_length" => resp.left > 0

\* What the client has in each phase after the call.
Delivered ==
  CASE pc = "header" -> sent = <<>> /\ Accepted /\ ranges = Opened
    [] pc = "whole"  -> /\ AskedWhole /\ Answering /\ fsize > 0
                        /\ stream.pos <= fsize /\ sent = Run(0, stream.pos)
                        /\ stream.eof => stream.pos = fsize
                        /\ stream.fail => stream.eof
    [] pc = "single" -> /\ Accepted /\ Answering /\ Len(Opened) = 1
                        /\ Within(1) /\ sent = ReadOf(1)
    [] pc = "part"   -> /\ Accepted /\ Answering /\ Len(Opened) = Len(ranges)
                        /\ \A i \in k..Len(ranges) : ranges[i] = Opened[i]
                        /\ sent = Upto(k - 1)
    [] pc = "data"   -> /\ Accepted /\ Answering /\ Len(Opened) = Len(ranges)
                        /\ \A i \in k + 1..Len(ranges) : ranges[i] = Opened[i]
                        /\ Within(k)
                        /\ sent = Upto(k - 1) \o Units(<<"part", k>>, PartSize) \o ReadOf(k)
    [] pc = "close"  -> /\ Accepted /\ Answering /\ Len(Opened) > 1
                        /\ sent = Upto(Len(Opened))
    [] OTHER         -> /\ pc # "aborted" /\ IsPrefix(sent, Wanted)
                        /\ ~error => sent = Wanted /\ Answered

DeliveryInv ==
  /\ TransferInv
  /\ pc = "call" => sent = <<>> /\ ~stream.fail /\ (query.written <=> resp.state # "header")
  /\ Plain /\ pc # "call" =>
       /\ pc # "done" => file = fsize
       /\ pc \in {"header", "part"} => ~stream.fail
       /\ Delivered
=============================================================================
