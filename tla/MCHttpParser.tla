---------------------------- MODULE MCHttpParser ----------------------------
(* Messages for HttpParser: every kind of body, and every kind of error. *)
EXTENDS HttpParser

R11      == << <<"request", 11>>, NL >>
R10      == << <<"request", 10>>, NL >>
H(k)     == << <<k, 0>>, NL >>
Length(n) == << <<"length", n>>, NL >>
Size(n)  == << <<"size", n>>, NL >>
Data(a, b) == [i \in 1 .. b - a + 1 |-> <<"byte", a + i - 1>>]
End      == << NL >>

Good(w, bd, hs, k) ==
  [wire |-> w, body |-> bd, headers |-> hs, keep |-> k, wellFormed |-> TRUE,
   lineInData |-> FALSE, errors |-> {}]

Bad(w, es) ==
  [wire |-> w, body |-> << >>, headers |-> {}, keep |-> TRUE, wellFormed |-> FALSE,
   lineInData |-> FALSE, errors |-> es]

\* A line that reaches the limit: a text and three bytes.
Long(line) == <<line[1]>> \o Data(1, 3) \o End

GoodMessages ==
  { Good(R11 \o H("host") \o H("cookie") \o End, << >>,
         {<<"host", 0>>, <<"cookie", 0>>}, TRUE),
    Good(R11 \o H("close") \o End, << >>, {<<"close", 0>>}, FALSE),
    Good(R10 \o Length(1) \o End \o Data(1, 1), Data(1, 1), {<<"length", 1>>}, FALSE),
    Good(R11 \o Length(3) \o End \o Data(1, 3), Data(1, 3), {<<"length", 3>>}, TRUE),
    Good(R11 \o Length(0) \o End, << >>, {<<"length", 0>>}, TRUE),
    Good(R10 \o H("keepalive") \o End, << >>, {<<"keepalive", 0>>}, TRUE),
    \* chunks of two and one bytes and a trailer
    Good(R11 \o H("chunked") \o End \o Size(2) \o Data(1, 2) \o End \o Size(1) \o Data(3, 3)
           \o End \o Size(0) \o H("host") \o End,
         Data(1, 3), {<<"chunked", 0>>, <<"host", 0>>}, TRUE),
    \* what is well-formed and still refused when it is cut in the wrong place
    [Good(Long(R11) \o End, << >>, {}, TRUE) EXCEPT !.errors = {"RLTL"}],
    [Good(R11 \o Long(H("host")) \o End, << >>, {<<"host", 0>>}, TRUE)
       EXCEPT !.errors = {"HLTL"}],
    [Good(R11 \o H("chunked") \o End \o Size(4) \o Data(1, 4) \o End \o Size(0) \o End,
          Data(1, 4), {<<"chunked", 0>>}, TRUE) EXCEPT !.errors = {"HLTL"}],
    \* a chunk of four bytes, two of which are a line end
    [Good(R11 \o H("chunked") \o End \o Size(4) \o Data(1, 1) \o End \o Data(2, 2) \o End
            \o Size(0) \o End,
          Data(1, 1) \o End \o Data(2, 2), {<<"chunked", 0>>}, TRUE) EXCEPT !.lineInData = TRUE],
    \* a chunk of seven bytes that holds what looks like another chunk
    [Good(R11 \o H("chunked") \o End \o Size(7) \o Data(1, 1) \o End \o Size(1) \o Data(2, 2)
            \o End \o Size(0) \o End,
          Data(1, 1) \o End \o Size(1) \o Data(2, 2), {<<"chunked", 0>>}, TRUE)
       EXCEPT !.lineInData = TRUE] }

BadMessages ==
  { Bad(H("badline") \o End, {"IRL"}), Bad(H("badmethod") \o End, {"IHM"}),
    Bad(H("badpath") \o End, {"IHP"}),
    Bad(Data(1, 4) \o End, {"RLTL", "IRL"}),
    Bad(R11 \o H("nocolon") \o End, {"IHL"}), Bad(R11 \o H("badcookie") \o End, {"IHL"}),
    Bad(R11 \o Data(1, 4) \o End, {"HLTL", "IHL"}),
    Bad(R11 \o H("chunked") \o End \o H("host") \o End, {"SFE"}),
    Bad(R11 \o H("chunked") \o End \o Data(1, 4) \o End, {"HLTL", "SFE"}),
    Bad(R11 \o H("chunked") \o End \o Size(0) \o H("nocolon") \o End, {"SFE"}),
    \* a request with a line end too many
    Bad(R11 \o End \o End, {"RE"}) }

MCMessages == GoodMessages \cup BadMessages
=============================================================================
