----------------------------- MODULE MCHttpConn -----------------------------
(* Requests for the model checker: a GET, a GET with keep-alive, a POST with *)
(* a body, one with a line end in the body, one that fills the read buffer,  *)
(* a method that is not supported, and a request too long for the buffer.    *)
EXTENDS HttpConn

Line(text) == <<text, CR, LF>>

Blank == <<CR, LF>>

PlainGet == Line("GET") \o Blank

KeepAliveGet == Line("GET") \o Line("keep-alive") \o Blank

Post == Line("POST") \o Line("length") \o Blank \o <<"b", "b", "b">>

PostWithLineEnd == Line("POST") \o Line("length") \o Blank \o Line("b")

PostFillsBuffer ==
  Line("POST") \o Line("keep-alive") \o Line("length") \o Blank \o <<"b", "b", "b">>

BadMethod == Line("PATCH") \o Blank

TooLong == Line("GET") \o Line("host") \o Line("host") \o Line("host") \o Blank

AllRequests ==
  {PlainGet, KeepAliveGet, Post, PostWithLineEnd, PostFillsBuffer,
   BadMethod, TooLong}

\* A length that points before the buffer and one that points into what has
\* been parsed, none, the length of the bodies, and one that overflows.
AllLengths == {-20, -2, 0, 3, 60}

\* What LinesNeverStall needs of the requests.
ASSUME RequestsAreProper == ProperRequests
=============================================================================
