------------------------------ MODULE HttpServer ------------------------------
(***************************************************************************)
(* One connection of the HTTP server (Http/Server/HttpServer.cpp): the     *)
(* request parser of the session, the socket it reads from and answers on  *)
(* (AsyncFdIO), and the client.                                            *)
(*                                                                         *)
(* The callback OnDataAvailable parses what it reads.  A finished request  *)
(* is answered with WriteAll, whose result it ignores; a request that      *)
(* cannot be parsed closes the connection.                                 *)
(*                                                                         *)
(* Every answer is the same static string.  Here answers are told apart by *)
(* the number of the request.                                              *)
(***************************************************************************)
EXTENDS HttpRequestParser

CONSTANTS
    ResponseSize,   \* bytes of an answer
    NULL,           \* nullptr
    HangupOnFin,    \* TRUE if poll reports POLLHUP when the peer shuts down
    MaxUnread       \* bound: tokens that wait to be read

ASSUME ServerAssumption ==
    /\ ResponseSize \in Nat \ {0}
    /\ NULL \notin 1 .. MaxRequests
    /\ HangupOnFin \in BOOLEAN
    /\ MaxUnread \in Nat \ {0}

VARIABLES
    m_iFD, m_pendingBuffer, m_uiPendingBufferOffset, m_fOnWriteComplete,
    frames, revents, exception, fin, reset, writable,
    fresh, accepted, nested, completed,
    written,        \* history: the bytes of answers that the kernel took
    todo,           \* what OnDataAvailable does next: "answer", "close" or "return",
                    \* or "throw", which ends the process
    eager           \* history: requests sent before the answers to all others came

Socket == INSTANCE AsyncFdIO WITH
    Buffers <- 1 .. MaxRequests,
    BufferSize <- ResponseSize,
    NestedWrites <- FALSE,
    unread <- Len(available),
    sent <- written

socketVars == <<m_iFD, m_pendingBuffer, m_uiPendingBufferOffset, m_fOnWriteComplete,
                frames, revents, exception, fin, reset, writable,
                fresh, accepted, nested, completed, written>>
serverVars == <<vars, socketVars, todo, eager>>

(* onAcceptFunc: a new session, whose socket calls OnDataAvailable. *)
ServerInit ==
    /\ Init
    /\ Socket!Init
    /\ todo = "return"
    /\ eager = {}
-----------------------------------------------------------------------------
(* What OnDataAvailableFunc does with the status of a ParsingResult. *)
Reaction(s) ==
    CASE s = "Done" -> "answer"
      [] s = "Failed" -> "close"
      [] s = "Threw" -> "throw"
      [] OTHER -> "return"

(* The socket is readable: the parser reads n tokens, once. *)
OnDataAvailable(n) ==
    /\ todo = "return"
    /\ m_iFD = "open" /\ ~reset
    /\ Parse(n)
    /\ Socket!HandleReadEvent
    /\ todo' = Reaction(status')
    /\ UNCHANGED eager

(* ReadSync throws. *)
ReadThrows ==
    /\ todo = "return"
    /\ UNCHANGED vars
    /\ Socket!HandleReadEvent
    /\ UNCHANGED <<todo, eager>>

(* Mutant: only the first request is answered. *)
AnswerFirst ==
    /\ todo = "answer"
    /\ UNCHANGED vars
    /\ IF Len(results) = 1 THEN Socket!WriteAll(1) ELSE UNCHANGED socketVars
    /\ todo' = "return"
    /\ UNCHANGED eager

(* The answer is dropped if the last one is still pending. *)
Answer ==
    /\ todo = "answer"
    /\ UNCHANGED vars
    /\ Socket!WriteAll(Len(results))
    /\ todo' = "return"
    /\ UNCHANGED eager

CloseInvalid ==
    /\ todo = "close"
    /\ UNCHANGED vars
    /\ Socket!Close
    /\ todo' = "return"
    /\ UNCHANGED eager

(* The rest of the loop, which neither reads nor parses. *)
LoopStep ==
    /\ todo = "return"
    /\ UNCHANGED vars
    /\ \/ Socket!Poll
       \/ Socket!HandleClose
       \/ Socket!NothingToWrite
       \/ Socket!WritePendingFails
       \/ Socket!WritePendingBlocked
       \/ \E n \in 1 .. ResponseSize : Socket!WritePendingPartly(n)
       \/ Socket!WritePendingWhole
       \/ Socket!CompletionReturns
    /\ UNCHANGED <<todo, eager>>
-----------------------------------------------------------------------------
(* The client sends a request; it is eager if an answer is missing. *)
ClientSends(request) ==
    /\ ~fin /\ ~reset
    /\ Len(available) + Len(request) <= MaxUnread
    /\ Send(request)
    /\ eager' = IF Len(written) < ResponseSize * Len(sent)
                THEN eager \cup {Len(sent) + 1} ELSE eager
    /\ UNCHANGED <<socketVars, todo>>

ClientReads ==
    /\ UNCHANGED vars
    /\ Socket!PeerReads
    /\ UNCHANGED <<todo, eager>>

ClientLeaves ==
    /\ UNCHANGED vars
    /\ Socket!PeerShutsDown \/ Socket!PeerResets
    /\ UNCHANGED <<todo, eager>>
-----------------------------------------------------------------------------
ServerStep ==
    \/ \E n \in 1 .. MAX_REQUEST_SIZE : OnDataAvailable(n)
    \/ ReadThrows
    \/ Answer
    \/ CloseInvalid
    \/ LoopStep

ServerNext ==
    \/ ServerStep
    \/ \E request \in Requests : ClientSends(request)
    \/ ClientReads
    \/ ClientLeaves

ServerSpec == ServerInit /\ [][ServerNext]_serverVars

(* Run dispatches what poll has reported; ServerStep says how. *)
Dispatch ==
    /\ Socket!Running
    /\ todo = "return"
    /\ frames = <<>>
    /\ revents # {}
    /\ revents' = {}

(* The loop goes on, and the client reads what it is sent.  It need not    *)
(* send anything, nor leave.                                               *)
FairServerSpec ==
    /\ ServerSpec
    /\ WF_revents(Dispatch)
    /\ WF_serverVars(LoopStep \/ Answer \/ CloseInvalid)
    /\ WF_serverVars(ClientReads)
-----------------------------------------------------------------------------
(* The types of the parser, the socket and what OnDataAvailable does.      *)
ServerTypeOK ==
    /\ TypeOK
    /\ Socket!TypeOK
    /\ todo \in {"answer", "close", "return", "throw"}
    /\ eager \subseteq 1 .. MaxRequests

Served == Socket!Running /\ todo # "throw" /\ m_iFD = "open"

(* Answers are given in the order of the requests, to requests that were   *)
(* parsed, none twice, and each whole before the next begins.              *)
AnswersInOrder ==
    /\ \A j, k \in DOMAIN accepted : j < k => accepted[j] < accepted[k]
    /\ ToSet(accepted) \subseteq DOMAIN results
    /\ Socket!StreamIntact

Answered(k) == Socket!SentOf(k) = ResponseSize

(* The request that is being parsed has arrived and is not recognised: it  *)
(* is not whole, or its body came in more than one read.                   *)
Stalled ==
    /\ status = "InProgress"
    /\ available = <<>>
    /\ Len(results) < Len(sent)
    /\ LET request == sent[Len(results) + 1]
       IN  ~Whole(request) \/ BodyCut(request)

(* A request of a client that waits for its answers is answered in the     *)
(* end, unless its parsing stalls or the connection or the server ends.    *)
(* (The answer to a request that comes before the last answer has left the *)
(* server is dropped: HttpServer.cpp:76.)                                  *)
RequestIsAnswered ==
    \A k \in 1 .. MaxRequests :
        (Len(sent) >= k /\ k \notin eager) ~> (Answered(k) \/ Stalled \/ ~Served)
=============================================================================
