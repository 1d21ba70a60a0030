-------------------------- MODULE HttpRequestParser --------------------------
(***************************************************************************)
(* The incremental parser of HTTP requests (Http/lib/HttpRequestParser.cpp)*)
(* fed by one connection: each call of Parse(tSource) reads some of the    *)
(* bytes the client has sent and goes on where the last call stopped.      *)
(*                                                                         *)
(* Bytes are abstracted to tokens: "CR" and "LF" are what the parser scans *)
(* for; a request line, a header line and a byte of a body are one token   *)
(* each.  A method name, a URI or a header value is never looked into, but *)
(* the numbers are: the version of a request line and the value of a       *)
(* Content-Length line are converted, or throw.  What stoi makes of a      *)
(* negative length is, as the unsigned size of a body, a very large one.   *)
(* Offsets count from 0, as in the code.                                   *)
(***************************************************************************)
EXTENDS Naturals, FiniteSetsExt, SequencesExt

CONSTANTS
    RequestLines,       \* tokens that have the form of a request line
    HeaderLines,        \* tokens that contain a colon
    BodyBytes,          \* tokens of a body
    ContentLength,      \* the Content-Length lines among them, with their value
    NotNumbers,         \* tokens of which stof or stoi cannot convert the number
    Requests,           \* what a client may send, as sequences of tokens
    Pipelining,         \* TRUE if a client may send before it has its answer
    MaxRequests,        \* bound: how many requests a client sends
    MAX_REQUEST_SIZE

ASSUME ParserAssumption ==
    /\ DOMAIN ContentLength \subseteq HeaderLines
    /\ ContentLength \in [DOMAIN ContentLength -> Nat]
    /\ \A request \in Requests : request \in Seq(ToSet(request))
    /\ Pipelining \in BOOLEAN
    /\ MaxRequests \in Nat
    /\ MAX_REQUEST_SIZE \in Nat \ {0}

VARIABLES
    parser,     \* the members of HttpRequestParser
    status,     \* the m_eStatus of the last ParsingResult, "Threw" or "Crashed"
    available,  \* sent by the client, not yet read
    sent,       \* history: the requests sent
    results,    \* history: the m_oRequest of every result that was Done
    firstBodyRead   \* history: what the buffer held after the last read that
                    \* did not go on with a body

vars == <<parser, status, available, sent, results, firstBodyRead>>

CRLF == <<"CR", "LF">>
NoRequest == [line |-> <<>>, header |-> <<>>, body |-> <<>>]

(* size tokens of a buffer from offset start, a string_view. *)
Slice(buffer, start, size) == SubSeq(buffer, start + 1, start + size)

(* Reset: a parser whose buffer holds the start of the next request.  The  *)
(* new m_oRequest refers to the buffer; only the member initialisers leave *)
(* its m_bufferData null.                                                  *)
Reset(buffer) ==
    [m_eState |-> "RequestLine",
     m_buffer |-> buffer,       \* its first m_uiCurrentBufferSize bytes
     m_bufferData |-> "m_buffer",
     m_uiCurrentRequestSize |-> 0,
     m_uiRequestPtr |-> 0,
     m_oHeaderInfo |-> [start |-> 0, size |-> 0],
     m_oBodyInfo |-> [start |-> 0, size |-> 0],
     m_oRequest |-> NoRequest]

CurrentBufferSize(p) == Len(p.m_buffer)

Init ==
    /\ parser = [Reset(<<>>) EXCEPT !.m_bufferData = "nullptr"]
    /\ status = "InProgress"
    /\ available = <<>>
    /\ sent = <<>>
    /\ results = <<>>
    /\ firstBodyRead = 0
-----------------------------------------------------------------------------
(* The first offset from m_uiRequestPtr on at which the buffer holds       *)
(* pattern, or the offset at which the scan runs out of bytes.             *)
Matches(p, pattern) ==
    {n \in p.m_uiRequestPtr .. CurrentBufferSize(p) - Len(pattern) :
        Slice(p.m_buffer, n, Len(pattern)) = pattern}

ScanEnd(p, pattern) == Max({p.m_uiRequestPtr, CurrentBufferSize(p) - Len(pattern) + 1})

(* Split(slice, CRLF): the pieces between the delimiters. *)
Delimiters(slice) == {n \in 1 .. Len(slice) - 1 : SubSeq(slice, n, n + 1) = CRLF}
LineStarts(slice) == {1} \cup {n + 2 : n \in Delimiters(slice)}
Lines(slice) ==
    LET ends == Delimiters(slice) \cup {Len(slice) + 1}
    IN  {SubSeq(slice, b, Min({e \in ends : e >= b}) - 1) : b \in LineStarts(slice)}

(* The lines of a header that begin with Content-Length.  Later ones       *)
(* overwrite the first in m_mapHeaders.  Without one the body is empty.    *)
LengthLines(header) ==
    {n \in LineStarts(header) \cap DOMAIN header : header[n] \in DOMAIN ContentLength}

LengthThrows(header) ==
    LengthLines(header) # {} /\ header[Max(LengthLines(header))] \in NotNumbers

BodySize(header) ==
    IF LengthLines(header) = {} THEN 0 ELSE ContentLength[header[Max(LengthLines(header))]]

Result(p, s) == [parser |-> p, status |-> s]

(* Mutant: a body is complete as soon as its header is. *)
ParseBodyAtOnce(p) ==
    Result([p EXCEPT !.m_uiRequestPtr = CurrentBufferSize(p),
                     !.m_uiCurrentRequestSize = CurrentBufferSize(p),
                     !.m_eState = "Finished",
                     !.m_oRequest.body = Slice(p.m_buffer, p.m_uiRequestPtr,
                                               CurrentBufferSize(p) - p.m_uiRequestPtr)],
           "Done")

(* Mutant: the last byte of a body does not complete it. *)
BodyCompleteBeyond(p) ==
    \/ p.m_oBodyInfo.size = 0
    \/ CurrentBufferSize(p) - p.m_uiRequestPtr > p.m_oBodyInfo.size

(* What counts as the body in memory is what lies beyond m_uiRequestPtr,   *)
(* which an incomplete body leaves at the end of the buffer.               *)
BodyComplete(p) == CurrentBufferSize(p) - p.m_uiRequestPtr >= p.m_oBodyInfo.size

ParseBody(p) ==
    LET body == p.m_oBodyInfo
        bodyEnd == IF body.size = 0 THEN p.m_uiRequestPtr ELSE body.start + body.size
    IN  IF BodyComplete(p)
        THEN Result([p EXCEPT !.m_uiRequestPtr = bodyEnd,
                              !.m_uiCurrentRequestSize = bodyEnd,
                              !.m_eState = "Finished",
                              !.m_oRequest.body = Slice(p.m_buffer, body.start, body.size)],
                    "Done")
        ELSE Result([p EXCEPT !.m_uiRequestPtr = CurrentBufferSize(p)], "InProgress")

(* ParseHeader, with SplitAndStoreHeader and CacheBodyPhaseInfo, in which  *)
(* stoi may throw.                                                         *)
ParseHeader(p) ==
    LET found == Matches(p, CRLF \o CRLF)
        end == Min(found)
        info == [p.m_oHeaderInfo EXCEPT !.size = end - p.m_oHeaderInfo.start]
        header == Slice(p.m_buffer, info.start, info.size)
    IN  IF found = {}
        THEN Result([p EXCEPT !.m_uiRequestPtr = ScanEnd(p, CRLF \o CRLF)], "InProgress")
        ELSE IF \E line \in Lines(header) : ToSet(line) \cap HeaderLines = {}
        THEN Result([p EXCEPT !.m_uiRequestPtr = end, !.m_oHeaderInfo = info], "Failed")
        ELSE IF LengthThrows(header)
        THEN Result([p EXCEPT !.m_uiRequestPtr = end, !.m_oHeaderInfo = info], "Threw")
        ELSE ParseBody([p EXCEPT
                 !.m_uiRequestPtr = end + 4,
                 !.m_eState = "Body",
                 !.m_oHeaderInfo = info,
                 !.m_oBodyInfo = [start |-> info.start + info.size + 4, size |-> BodySize(header)],
                 !.m_oRequest.header = header])

(* ParseRequestLine, with SplitAndStoreRequestLine, in which stof may      *)
(* throw, and CacheHeaderPhaseInfo.                                        *)
ParseRequestLine(p) ==
    LET found == Matches(p, CRLF)
        end == Min(found)
        line == Slice(p.m_buffer, 0, end)
    IN  IF found = {}
        THEN Result([p EXCEPT !.m_uiRequestPtr = ScanEnd(p, CRLF)], "InProgress")
        ELSE IF ~\E token \in RequestLines : line = <<token>>
        THEN Result([p EXCEPT !.m_uiRequestPtr = end], "Failed")
        ELSE IF line[1] \in NotNumbers
        THEN Result([p EXCEPT !.m_uiRequestPtr = end], "Threw")
        ELSE ParseHeader([p EXCEPT !.m_uiRequestPtr = end + 2,
                                   !.m_eState = "Header",
                                   !.m_oHeaderInfo.start = end + 2,
                                   !.m_oRequest.line = line])

ParsePhase(p) ==
    CASE p.m_eState = "RequestLine" -> ParseRequestLine(p)
      [] p.m_eState = "Header" -> ParseHeader(p)
      [] p.m_eState = "Body" -> ParseBody(p)

(* Mutants: the finished request stays in the buffer, or the pointer stays.*)
KeepBuffer(p) == Reset(p.m_buffer)
KeepPointer(p) ==
    [Reset(Slice(p.m_buffer, 0, CurrentBufferSize(p) - p.m_uiCurrentRequestSize))
        EXCEPT !.m_uiRequestPtr = p.m_uiRequestPtr]

(* CopyOverNextRequest and Reset after a finished request.  What is copied *)
(* is the start of the buffer that m_oRequest refers to, which is the      *)
(* buffer of the finished request.                                         *)
NextParser(p) ==
    Reset(Slice(p.m_buffer, 0, CurrentBufferSize(p) - p.m_uiCurrentRequestSize))

CopiesFromNull(p) ==
    /\ p.m_bufferData = "nullptr"
    /\ CurrentBufferSize(p) > p.m_uiCurrentRequestSize

(* Mutant: a buffer with room for one more byte is full. *)
FullTooEarly(p) == CurrentBufferSize(p) + 1 >= MAX_REQUEST_SIZE

BufferFull(p) == CurrentBufferSize(p) >= MAX_REQUEST_SIZE

(* Parse(): the phase the parser is in and those that follow at once, then *)
(* what becomes of the buffer.                                             *)
ParseBuffer(p) ==
    LET result == ParsePhase(p)
        q == result.parser
    IN  IF result.status \in {"Failed", "Threw"} THEN result
        ELSE IF q.m_eState = "Finished"
        THEN IF CopiesFromNull(q) THEN Result(q, "Crashed") ELSE Result(NextParser(q), "Done")
        ELSE IF BufferFull(q) THEN Result(Reset(<<>>), "Failed")
        ELSE Result(q, "InProgress")

(* The buffer holds bytes of a body already. *)
BodyBegun(p) == p.m_eState = "Body" /\ CurrentBufferSize(p) > p.m_oBodyInfo.start

(* The connection is served until a request fails.  An exception of the    *)
(* conversions leaves Parse, and Run: nothing is served any more.          *)
Serving == status \in {"InProgress", "Done"}

(* Parse(tSource): ReadSync returns n bytes, at most as many as there is   *)
(* room for, and at least one since it was called for a readable socket.   *)
Parse(n) ==
    /\ Serving
    /\ n \in 1 .. Min({Len(available), MAX_REQUEST_SIZE - CurrentBufferSize(parser)})
    /\ LET filled == [parser EXCEPT !.m_buffer = @ \o SubSeq(available, 1, n)]
           result == ParseBuffer(filled)
       IN  /\ parser' = result.parser
           /\ status' = result.status
           /\ results' = IF result.status = "Done"
                         THEN Append(results, ParsePhase(filled).parser.m_oRequest)
                         ELSE results
           /\ firstBodyRead' = IF BodyBegun(parser) THEN firstBodyRead ELSE Len(filled.m_buffer)
    /\ available' = SubSeq(available, n + 1, Len(available))
    /\ UNCHANGED sent

(* The client sends a request, after the answer to the last one unless it  *)
(* pipelines.                                                              *)
Send(request) ==
    /\ Serving
    /\ Len(sent) < MaxRequests
    /\ Pipelining \/ Len(results) = Len(sent)
    /\ available' = available \o request
    /\ sent' = Append(sent, request)
    /\ UNCHANGED <<parser, status, results, firstBodyRead>>

Next ==
    \/ \E n \in 1 .. MAX_REQUEST_SIZE : Parse(n)
    \/ \E request \in Requests : Send(request)

Spec == Init /\ [][Next]_vars
-----------------------------------------------------------------------------
Tokens == UNION {ToSet(request) : request \in Requests}
PhaseInfo == [start : 0 .. MAX_REQUEST_SIZE, size : Nat]
HttpRequest == [line : Seq(Tokens), header : Seq(Tokens), body : Seq(Tokens)]

Parser ==
    [m_eState : {"RequestLine", "Header", "Body", "Finished"},
     m_buffer : Seq(Tokens),
     m_bufferData : {"nullptr", "m_buffer"},
     m_uiCurrentRequestSize : 0 .. MAX_REQUEST_SIZE,
     m_uiRequestPtr : 0 .. MAX_REQUEST_SIZE,
     m_oHeaderInfo : PhaseInfo,
     m_oBodyInfo : PhaseInfo,
     m_oRequest : HttpRequest]

(* The sizes, pointers and phases stay within the buffer, except the size  *)
(* of a body, which is what the client has stated.                         *)
TypeOK ==
    /\ parser \in Parser
    /\ CurrentBufferSize(parser) <= MAX_REQUEST_SIZE
    /\ parser.m_uiCurrentRequestSize <= CurrentBufferSize(parser)
    /\ parser.m_uiRequestPtr <= CurrentBufferSize(parser)
    /\ status \in {"InProgress", "Done", "Failed", "Threw", "Crashed"}
    /\ available \in Seq(Tokens)
    /\ sent \in Seq(Requests)
    /\ results \in Seq(HttpRequest)
    /\ firstBodyRead \in 0 .. MAX_REQUEST_SIZE

Wire(request) == request.line \o CRLF \o request.header \o CRLF \o CRLF \o request.body

(* Requests come out of the parser as they went in, one result for one     *)
(* request, however the reads cut them up and through every reset.         *)
ResultsAreRequests ==
    /\ Len(results) <= Len(sent)
    /\ \A k \in DOMAIN results : Wire(results[k]) = sent[k]

Read == SubSeq(FlattenSeq(sent), 1, Len(FlattenSeq(sent)) - Len(available))

Parsed == FlattenSeq(SubSeq(sent, 1, Len(results)))

(* Between two calls the buffer holds the bytes read and not yet parsed:   *)
(* what follows a finished request is kept, and nothing else is.           *)
BufferIsUnparsedInput ==
    /\ status # "Crashed"
    /\ Serving => Parsed \o parser.m_buffer = Read

StartsWithLine(request) ==
    Len(request) >= 3 /\ request[1] \in RequestLines /\ Slice(request, 1, 2) = CRLF

(* The header of a request, which starts at offset 3, ends at offset n. *)
HeaderEnd(request, n) ==
    /\ n \in 3 .. Len(request) - 4
    /\ Slice(request, n, 4) = CRLF \o CRLF
    /\ \A k \in 3 .. n - 1 : Slice(request, k, 4) # CRLF \o CRLF

HeaderOf(request, n) == Slice(request, 3, n - 3)

(* A request has a header and all of the body that it announces. *)
Whole(request) ==
    \E n \in DOMAIN request :
        /\ HeaderEnd(request, n)
        /\ Len(request) >= n + 4 + BodySize(HeaderOf(request, n))

(* The body of a request came in more than one read: the first read of the *)
(* body ended within it.                                                   *)
BodyCut(request) ==
    \E n \in DOMAIN request :
        HeaderEnd(request, n) /\ n + 4 < firstBodyRead /\ firstBodyRead < Len(request)

(* A whole request that is in the buffer is finished by the read that      *)
(* brought its last byte, bodies included, unless its body came in more    *)
(* than one read.                                                          *)
OnlyBodiesStall ==
    status = "InProgress" /\ Len(results) < Len(sent) =>
        LET request == sent[Len(results) + 1]
        IN  Whole(request) /\ IsPrefix(request, parser.m_buffer) => BodyCut(request)

WellFormed(request) ==
    ToSet(request) \subseteq
        (RequestLines \cup HeaderLines \cup BodyBytes \cup ToSet(CRLF)) \ NotNumbers

(* A request is refused, or ends the process by an exception, only if it   *)
(* is malformed or does not fit the buffer, or if it fills the buffer and  *)
(* is not whole or its body came in pieces.                                *)
RefusedForCause ==
    status \in {"Failed", "Threw"} =>
        LET request == sent[Len(results) + 1]
        IN  \/ ~WellFormed(request)
            \/ Len(request) > MAX_REQUEST_SIZE
            \/ /\ Len(request) = MAX_REQUEST_SIZE
               /\ Whole(request) => BodyCut(request)

(* What is assumed of a client.  It sends a request and then waits: what   *)
(* it sends at a time does not go on behind the body.                      *)
OneAtATime ==
    /\ ~Pipelining
    /\ \A request \in Requests : \A n \in DOMAIN request :
           StartsWithLine(request) /\ HeaderEnd(request, n) =>
               Len(request) <= n + 4 + BodySize(HeaderOf(request, n))

(* A request of known tokens starts with a request line, and each line of  *)
(* its header has a colon.                                                 *)
WellFormedAreValid ==
    \A request \in Requests : WellFormed(request) =>
        /\ StartsWithLine(request)
        /\ \A n \in DOMAIN request : HeaderEnd(request, n) =>
               \A line \in Lines(HeaderOf(request, n)) : ToSet(line) \cap HeaderLines # {}

(* A body is still waited for only while a part of it is missing.          *)
BodyEndsWithItsLastByte ==
    status = "InProgress" /\ parser.m_eState = "Body" =>
        CurrentBufferSize(parser) < parser.m_oBodyInfo.start + parser.m_oBodyInfo.size
=============================================================================
