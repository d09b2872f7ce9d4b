--------------------------- MODULE MCHttpService ---------------------------
(* Requests and clients for HttpService. *)
EXTENDS HttpService

R(route, chunked, keep, hasBody) ==
  [route |-> route, chunked |-> chunked, keep |-> keep, body |-> hasBody]

Get     == R("handler", FALSE, TRUE, FALSE)
Post    == R("handler", FALSE, TRUE, TRUE)
Chunks  == R("handler", TRUE, TRUE, TRUE)
Bye     == R("handler", FALSE, FALSE, FALSE)
Missing == R("none", FALSE, TRUE, FALSE)
Other   == R("other", FALSE, FALSE, FALSE)
Heads   == R("head", FALSE, TRUE, FALSE)
Options == R("options", FALSE, TRUE, FALSE)

MCScripts == {<<Get, Post>>, <<Post, Missing>>, <<Chunks, Bye>>, <<Heads, Other>>, <<Options>>}
=============================================================================
