---------------------------- MODULE HttpResponse ----------------------------
(***************************************************************************)
(* What a server response writes: the message helper                       *)
(* (http/detail/helper_base.h), the response helper                        *)
(* (http/server/detail/response_helper.h) and the writing functions of     *)
(* http/server/detail/response.h.  A response is a record; a body is       *)
(* counted in units.                                                       *)
(*                                                                         *)
(* A chunked response can only be left open: response::chunk_end() and     *)
(* response_helper::chunk_end_data() are templates that no program can     *)
(* instantiate (they call functions with arguments they do not take), so   *)
(* the step from "chunk" to "finish" does not exist on the server.         *)
(***************************************************************************)
EXTENDS Integers

ProState == {"header", "content_length", "chunk", "finish"}

\* given, length: the Content-Length header;  chunked: the Transfer-Encoding header.
Response == [state : ProState, left : Nat, given : BOOLEAN, length : Nat,
             chunked : BOOLEAN, status : Nat]

NewResponse ==
  [state |-> "header", left |-> 0, given |-> FALSE, length |-> 0,
   chunked |-> FALSE, status |-> 200]

\* set_status(): has an effect on the wire only before the header is written.
SetStatus(r, s) == [r EXCEPT !.status = s]

\* Mutation: a Content-Length header that was set before is announced but not counted.
HeaderData_IgnoresGiven(r, requestChunked, size) ==
  [r EXCEPT !.state = "content_length", !.left = size, !.given = TRUE,
            !.length = IF r.given THEN @ ELSE size]

\* header_data(): a request that came in chunks makes the response chunked; a
\* Content-Length header decides before that.
HeaderData(r, requestChunked, size) ==
  LET te == r.chunked \/ requestChunked
  IN  CASE r.given -> [r EXCEPT !.state = "content_length", !.left = r.length, !.chunked = te]
        [] ~r.given /\ te -> [r EXCEPT !.state = "chunk", !.chunked = TRUE]
        [] OTHER -> [r EXCEPT !.state = "content_length", !.left = size,
                              !.given = TRUE, !.length = size]

\* body_data(): what goes beyond Content-Length is cut off.
BodyData(r, n) ==
  IF r.state # "content_length" THEN r
  ELSE IF r.left > n THEN [r EXCEPT !.left = r.left - n]
  ELSE [r EXCEPT !.left = 0, !.state = "finish"]

\* Mutation: the whole buffer is sent.
BodySize_Whole(r, n) == IF r.state \in {"content_length", "chunk"} THEN n ELSE 0

\* The units of the body that body_data() lets through.
BodySize(r, n) ==
  CASE r.state = "content_length" -> IF r.left > n THEN n ELSE r.left
    [] r.state = "chunk" -> n
    [] OTHER -> 0

\* write(): the header if it has not been written, then the body if there is one.
Headed(r, requestChunked, n) ==
  IF r.state = "header" THEN HeaderData(r, requestChunked, n) ELSE r

Written(r, requestChunked, n) ==
  LET h == Headed(r, requestChunked, n)
  IN  IF n > 0 THEN BodyData(h, n) ELSE h

=============================================================================
