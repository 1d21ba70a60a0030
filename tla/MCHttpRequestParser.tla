------------------------ MODULE MCHttpRequestParser -------------------------
(* Model checking of the request parser alone: what a client sends.        *)
EXTENDS HttpRequestParser

Line == <<"GET">> \o CRLF
End == CRLF \o CRLF
NoBody == Line \o <<"Host">> \o End
Body(n) == Line \o <<"Host">> \o CRLF \o <<"Length3">> \o End \o [k \in 1 .. n |-> "b"]

MCContentLength == [Length3 |-> 3]
PlainRequests == {NoBody}
BodyRequests == {Body(3)}
=============================================================================
