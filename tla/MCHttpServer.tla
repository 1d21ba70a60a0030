---------------------------- MODULE MCHttpServer -----------------------------
(* Model checking of the HTTP server: the requests a client sends.         *)
EXTENDS HttpServer

Line == <<"GET">> \o CRLF
End == CRLF \o CRLF
NoBody == Line \o <<"Host">> \o End
Body(n) == Line \o <<"Host">> \o CRLF \o <<"Length3">> \o End \o [k \in 1 .. n |-> "b"]
ShortBody == Line \o <<"Length2">> \o End \o <<"b", "b">>
NoHeader == Line \o CRLF
BadLine == <<"BAD">> \o CRLF \o <<"Host">> \o End
BadHeader == Line \o <<"BAD">> \o End
BadVersion == <<"GETX">> \o CRLF \o <<"Host">> \o End
BadLength == Line \o <<"LengthX">> \o End
Full == Line \o <<"Host">> \o CRLF \o <<"Host">> \o CRLF \o <<"Host">> \o End
TooLong == Line \o <<"Host">> \o CRLF \o <<"Host">> \o CRLF \o <<"Host">> \o CRLF \o <<"Host">> \o End

MCContentLength == [Length2 |-> 2, Length3 |-> 3, LengthX |-> 0]
MCRequests ==
    {NoBody, ShortBody, Body(3), NoHeader, BadLine, BadVersion, BadHeader, BadLength, Full, TooLong}

(* What the proofs assume of a client holds of this one. *)
ASSUME ClientAssumption == OneAtATime /\ WellFormedAreValid
=============================================================================
