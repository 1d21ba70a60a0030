--------------------------- MODULE HttpServerProofs ---------------------------
(***************************************************************************)
(* Proofs about a connection of the HTTP server: whatever the parser makes *)
(* of the input, answers are given in the order of the requests, each at   *)
(* most once, to requests that were parsed, and the bytes of an answer     *)
(* never mix with those of another.  The proofs about the descriptor       *)
(* (AsyncFdIOProofs) are used with the socket of the connection.           *)
(***************************************************************************)
EXTENDS HttpServer, HttpRequestParserProofs

SP == INSTANCE AsyncFdIOProofs WITH
    Buffers <- 1 .. MaxRequests,
    BufferSize <- ResponseSize,
    NestedWrites <- FALSE,
    unread <- Len(available),
    sent <- written

LEMMA SocketAssumption == SP!FdAssumption!:
  BY ParserAssumption, ServerAssumption

(* The socket of the model is that of the proofs. *)
LEMMA SameWriteAll ==
    ASSUME NEW b, Socket!WriteAll(b)
    PROVE  SP!WriteAll(b)
  <1> USE DEF Socket!CanWrite, SP!CanWrite, Socket!CanSend, SP!CanSend, Socket!Running, SP!Running,
              Socket!pendingVars, SP!pendingVars, Socket!peerVars, SP!peerVars,
              Socket!Accept, SP!Accept, Socket!SetPending, SP!SetPending,
              Socket!ResetPendingBuffer, SP!ResetPendingBuffer
  <1>1. CASE Socket!WriteRefused(b)
    BY <1>1 DEF Socket!WriteRefused, SP!WriteRefused, SP!WriteAll
  <1>2. CASE Socket!WriteFails(b)
    BY <1>2 DEF Socket!WriteFails, SP!WriteFails, SP!WriteAll
  <1>3. CASE Socket!WriteBlocked(b)
    BY <1>3 DEF Socket!WriteBlocked, SP!WriteBlocked, SP!WriteAll
  <1>4. ASSUME NEW n \in 1 .. ResponseSize, Socket!WritePartly(b, n)
        PROVE  SP!WriteAll(b)
    <2>1. SP!WritePartly(b, n)
      BY <1>4 DEF Socket!WritePartly, SP!WritePartly, Socket!Take, SP!Take
    <2> QED  BY <2>1 DEF SP!WriteAll
  <1>5. CASE Socket!WriteWhole(b)
    BY <1>5 DEF Socket!WriteWhole, SP!WriteWhole, SP!WriteAll, Socket!Take, SP!Take, Socket!Call, SP!Call
  <1> QED  BY <1>1, <1>2, <1>3, <1>4, <1>5 DEF Socket!WriteAll

LEMMA SameHandlers ==
    ASSUME \/ Socket!HandleClose \/ Socket!HandleReadEvent \/ Socket!NothingToWrite
           \/ Socket!WritePendingFails \/ Socket!WritePendingBlocked \/ Socket!WritePendingWhole
           \/ \E n \in 1 .. ResponseSize : Socket!WritePendingPartly(n)
    PROVE  SP!HandleEventReady /\ accepted' = accepted
  <1> USE DEF Socket!Running, SP!Running, Socket!Handles, SP!Handles,
              Socket!pendingVars, SP!pendingVars, Socket!peerVars, SP!peerVars,
              Socket!historyVars, SP!historyVars, Socket!WritePending, SP!WritePending,
              Socket!ResetPendingBuffer, SP!ResetPendingBuffer, Socket!Unsent, SP!Unsent
  <1>1. CASE Socket!HandleClose
    BY <1>1 DEF Socket!HandleClose, SP!HandleClose, SP!HandleEventReady
  <1>2. CASE Socket!HandleReadEvent
    BY <1>2 DEF Socket!HandleReadEvent, SP!HandleReadEvent, SP!HandleEventReady
  <1>3. CASE Socket!NothingToWrite
    BY <1>3 DEF Socket!NothingToWrite, SP!NothingToWrite, SP!HandleEventReady
  <1>4. CASE Socket!WritePendingFails
    BY <1>4 DEF Socket!WritePendingFails, SP!WritePendingFails, SP!HandleEventReady
  <1>5. ASSUME NEW n \in 1 .. ResponseSize, Socket!WritePendingPartly(n)
        PROVE  SP!HandleEventReady /\ accepted' = accepted
    <2>1. SP!WritePendingPartly(n) /\ accepted' = accepted
      BY <1>5 DEF Socket!WritePendingPartly, SP!WritePendingPartly, Socket!Take, SP!Take
    <2> QED  BY <2>1 DEF SP!HandleEventReady
  <1>6. CASE Socket!WritePendingWhole
    BY <1>6 DEF Socket!WritePendingWhole, SP!WritePendingWhole, SP!HandleEventReady,
                Socket!Take, SP!Take, Socket!Call, SP!Call
  <1>7. CASE Socket!WritePendingBlocked
    BY <1>7 DEF Socket!WritePendingBlocked, SP!WritePendingBlocked, SP!HandleEventReady
  <1> QED  BY <1>1, <1>2, <1>3, <1>4, <1>5, <1>6, <1>7

LEMMA SameOthers ==
    ASSUME \/ Socket!CompletionReturns \/ Socket!Close \/ Socket!Poll
           \/ Socket!PeerShutsDown \/ Socket!PeerResets \/ Socket!PeerReads
    PROVE  SP!Next /\ accepted' = accepted
  <1> USE DEF Socket!Running, SP!Running, Socket!pendingVars, SP!pendingVars,
              Socket!peerVars, SP!peerVars, Socket!historyVars, SP!historyVars
  <1>1. CASE Socket!CompletionReturns
    BY <1>1 DEF Socket!CompletionReturns, SP!CompletionReturns, SP!Next,
                Socket!ResetPendingBuffer, SP!ResetPendingBuffer, Socket!Front, SP!Front
  <1>2. CASE Socket!Close
    BY <1>2 DEF Socket!Close, SP!Close, SP!Next
  <1>3. CASE Socket!Poll
    BY <1>3 DEF Socket!Poll, SP!Poll, SP!Next, Socket!Ready, SP!Ready
  <1>4. CASE Socket!PeerShutsDown
    BY <1>4 DEF Socket!PeerShutsDown, SP!PeerShutsDown, SP!Next
  <1>5. CASE Socket!PeerResets
    BY <1>5 DEF Socket!PeerResets, SP!PeerResets, SP!Next
  <1>6. CASE Socket!PeerReads
    BY <1>6 DEF Socket!PeerReads, SP!PeerReads, SP!Next
  <1> QED  BY <1>1, <1>2, <1>3, <1>4, <1>5, <1>6

LEMMA SameCount == \A b, i : SP!TakenOf(b, i) = Socket!TakenOf(b, i)
  BY Zenon DEF SP!TakenOf, Socket!TakenOf, SP!Cardinality, Socket!Cardinality

LEMMA SameStream == SP!StreamIntact => Socket!StreamIntact
  <1>1. \A b : SP!SentOf(b) = Socket!SentOf(b)
    BY SameCount DEF SP!SentOf, Socket!SentOf
  <1>2. SP!InOrder => Socket!InOrder
    BY SameCount DEF SP!InOrder, Socket!InOrder
  <1>3. SP!IsInjective(accepted) => Socket!IsInjective(accepted)
    BY DEF SP!IsInjective, Socket!IsInjective
  <1> QED  BY <1>1, <1>2, <1>3 DEF SP!StreamIntact, Socket!StreamIntact

LEMMA SameInit == Socket!Init => SP!Init
  BY DEF Socket!Init, SP!Init
-----------------------------------------------------------------------------
IsSequence(s) == \E S : s \in Seq(S)

(* The requests that were answered, in the order of the answers, all of    *)
(* them before the one that is answered next.                              *)
AnsweredBefore ==
    /\ \A j, k \in DOMAIN accepted : j < k => accepted[j] < accepted[k]
    /\ \A k \in DOMAIN accepted :
           /\ accepted[k] \in 1 .. Len(results)
           /\ todo = "answer" => accepted[k] < Len(results)

AInv ==
    /\ SP!IInv
    /\ available \in Seq(Tokens)
    /\ IsSequence(results)
    /\ AnsweredBefore
    /\ todo = "answer" => Len(results) # 0

LEMMA SocketStep ==
    ASSUME SP!IInv, [SP!Next]_(SP!vars)
    PROVE  SP!IInv'
  BY SP!StepIInv, SocketAssumption

LEMMA InitAInv == ServerInit => AInv
  <1> SUFFICES ASSUME ServerInit PROVE AInv
    OBVIOUS
  <1>1. SP!IInv
    BY SameInit, SP!InitIInv, SocketAssumption DEF ServerInit
  <1>2. available = <<>> /\ results = <<>> /\ accepted = <<>> /\ todo = "return"
    BY DEF ServerInit, Init, Socket!Init
  <1>3. available \in Seq(Tokens) /\ IsSequence(results)
    BY <1>2 DEF IsSequence
  <1> QED  BY <1>1, <1>2, <1>3 DEF AInv, AnsweredBefore

(* Nothing is parsed and nothing accepted. *)
LEMMA QuietStep ==
    ASSUME AInv, SP!IInv', UNCHANGED <<vars, accepted>>, todo' = "answer" => todo = "answer"
    PROVE  AInv'
  <1>1. available' = available /\ results' = results
    BY DEF vars
  <1>2. available' \in Seq(Tokens) /\ IsSequence(results')
    BY <1>1 DEF AInv
  <1>3. AnsweredBefore'
    BY <1>1 DEF AInv, AnsweredBefore
  <1> QED  BY <1>1, <1>2, <1>3 DEF AInv

LEMMA ParseGives ==
    ASSUME NEW n, Parse(n)
    PROVE  /\ available' = SubSeq(available, n + 1, Len(available))
           /\ \/ status' = "Done" /\ \E r : results' = Append(results, r)
              \/ status' # "Done" /\ results' = results
  <1> DEFINE filled == [parser EXCEPT !.m_buffer = @ \o SubSeq(available, 1, n)]
             result == ParseBuffer(filled)
             r == ParsePhase(filled).parser.m_oRequest
  <1>1. /\ available' = SubSeq(available, n + 1, Len(available))
        /\ status' = result.status
        /\ results' = IF result.status = "Done" THEN Append(results, r) ELSE results
    BY Zenon DEF Parse
  <1> HIDE DEF result, r
  <1> QED  BY <1>1

LEMMA OnDataAvailableStep ==
    ASSUME AInv, NEW n \in 1 .. MAX_REQUEST_SIZE, OnDataAvailable(n)
    PROVE  AInv'
  <1>1. SP!HandleEventReady /\ accepted' = accepted
    BY SameHandlers DEF OnDataAvailable
  <1>2. SP!IInv'
    BY <1>1, SocketStep DEF SP!Next, AInv
  <1>3. available' \in Seq(Tokens)
    <2>1. available \in Seq(Tokens) /\ Len(available) \in Nat /\ n \in Nat /\ n >= 1
      BY LenProperties, ParserAssumption DEF AInv
    <2>2. \A k \in n + 1 .. Len(available) : available[k] \in Tokens
      BY <2>1, ElementOfSeq
    <2>3. SubSeq(available, n + 1, Len(available)) \in Seq(Tokens)
      BY <2>1, <2>2, SubSeqProperties
    <2> QED  BY <2>3, ParseGives DEF OnDataAvailable
  <1>4. todo' = Reaction(status')
    BY DEF OnDataAvailable
  <1>5. PICK S : results \in Seq(S)
    BY DEF AInv, IsSequence
  <1>6. \A k \in DOMAIN accepted : accepted[k] \in 1 .. Len(results)
    BY DEF AInv, AnsweredBefore
  <1>7. \A j, k \in DOMAIN accepted : j < k => accepted[j] < accepted[k]
    BY DEF AInv, AnsweredBefore
  <1>8. CASE status' = "Done" /\ \E r : results' = Append(results, r)
    <2>1. PICK r : results' = Append(results, r)
      BY <1>8
    <2>2. results \in Seq(S \cup {r})
      BY <1>5, SeqMonotonic
    <2>3. results' \in Seq(S \cup {r}) /\ Len(results') = Len(results) + 1 /\ Len(results) \in Nat
      BY <2>1, <2>2, AppendProperties, LenProperties
    <2>4. \A k \in DOMAIN accepted : accepted[k] \in 1 .. Len(results') /\ accepted[k] < Len(results')
      BY <1>6, <2>3
    <2>5. AnsweredBefore'
      BY <1>1, <1>7, <2>4 DEF AnsweredBefore
    <2>6. IsSequence(results') /\ Len(results') # 0
      BY <2>3 DEF IsSequence
    <2> QED  BY <1>2, <1>3, <2>5, <2>6 DEF AInv
  <1>9. CASE status' # "Done" /\ results' = results
    <2>1. todo' # "answer"
      BY <1>4, <1>9 DEF Reaction
    <2>2. AnsweredBefore'
      BY <1>1, <1>6, <1>7, <1>9, <2>1 DEF AnsweredBefore
    <2>3. IsSequence(results')
      BY <1>5, <1>9 DEF IsSequence
    <2> QED  BY <1>2, <1>3, <2>1, <2>2, <2>3 DEF AInv
  <1> QED  BY <1>8, <1>9, ParseGives DEF OnDataAvailable

(* The next answer is to the last request that was parsed. *)
LEMMA AnswerStep ==
    ASSUME AInv, Answer
    PROVE  AInv'
  <1> DEFINE b == Len(results)
  <1>1. /\ todo = "answer" /\ todo' = "return" /\ available' = available /\ results' = results
        /\ Socket!WriteAll(b)
    BY DEF Answer, vars
  <1>2. SP!WriteAll(b)
    BY <1>1, SameWriteAll
  <1>3. b \in 1 .. MaxRequests
    <2>1. b \in fresh
      BY <1>2 DEF SP!WriteAll, SP!WriteRefused, SP!WriteFails, SP!WriteBlocked, SP!WritePartly, SP!WriteWhole,
                  SP!CanSend, SP!CanWrite
    <2>2. fresh \subseteq 1 .. MaxRequests
      BY Zenon DEF AInv, SP!IInv, SP!Typed, SP!TypeOK
    <2> QED  BY <2>1, <2>2
  <1>4. SP!IInv'
    BY <1>2, <1>3, SocketStep DEF SP!Next, AInv
  <1>5. accepted' = accepted \/ accepted' = Append(accepted, b)
    BY <1>2 DEF SP!WriteAll, SP!WriteRefused, SP!WriteFails, SP!WriteBlocked, SP!WritePartly, SP!WriteWhole,
                SP!Accept
  <1>6. accepted \in Seq(1 .. MaxRequests)
    BY Zenon DEF AInv, SP!IInv, SP!Typed, SP!TypeOK
  <1>7. /\ \A j, k \in DOMAIN accepted : j < k => accepted[j] < accepted[k]
        /\ \A k \in DOMAIN accepted : accepted[k] \in 1 .. b /\ accepted[k] < b
    BY <1>1 DEF AInv, AnsweredBefore
  <1> HIDE DEF b
  <1>8. /\ \A j, k \in DOMAIN accepted' : j < k => accepted'[j] < accepted'[k]
        /\ \A k \in DOMAIN accepted' : accepted'[k] \in 1 .. b
    <2>1. CASE accepted' = accepted
      BY <1>7, <2>1
    <2>2. CASE accepted' = Append(accepted, b)
      <3> DEFINE l == Len(accepted)
      <3>1. /\ l \in Nat /\ DOMAIN accepted = 1 .. l /\ DOMAIN accepted' = 1 .. l + 1
            /\ \A k \in 1 .. l : accepted'[k] = accepted[k]
            /\ accepted'[l + 1] = b
        BY <1>3, <1>6, <2>2, AppendProperties, LenProperties
      <3> HIDE DEF l
      <3>2. b \in 1 .. b
        BY <1>3
      <3>3. \A k \in 1 .. l + 1 : accepted'[k] \in 1 .. b
        BY <1>7, <3>1, <3>2
      <3>4. ASSUME NEW j \in 1 .. l + 1, NEW k \in 1 .. l + 1, j < k
            PROVE  accepted'[j] < accepted'[k]
        <4>1. j \in 1 .. l
          BY <3>1, <3>4
        <4>2. CASE k = l + 1
          BY <1>7, <3>1, <4>1, <4>2
        <4>3. CASE k \in 1 .. l
          BY <1>7, <3>1, <3>4, <4>1, <4>3
        <4> QED  BY <3>1, <4>2, <4>3
      <3> QED  BY <3>1, <3>3, <3>4
    <2> QED  BY <1>5, <2>1, <2>2
  <1>9. AnsweredBefore'
    BY <1>1, <1>8 DEF AnsweredBefore, b
  <1>10. available' \in Seq(Tokens) /\ IsSequence(results') /\ todo' # "answer"
    BY <1>1 DEF AInv
  <1> QED  BY <1>4, <1>9, <1>10 DEF AInv

LEMMA ClientSendsStep ==
    ASSUME AInv, NEW request \in Requests, ClientSends(request)
    PROVE  AInv'
  <1>1. /\ Len(available) + Len(request) <= MaxUnread
        /\ available' = available \o request /\ results' = results
        /\ UNCHANGED <<socketVars, todo>>
    BY DEF ClientSends, Send
  <1>2. available \in Seq(Tokens) /\ Len(available) \in Nat
    BY LenProperties DEF AInv
  <1>3. available' \in Seq(Tokens) /\ Len(available') = Len(available) + Len(request)
    BY <1>1, <1>2, RequestIsSeq, ConcatProperties
  <1>4. Len(available)' \in 0 .. MaxUnread
    BY <1>1, <1>2, <1>3, RequestIsSeq, ServerAssumption
  <1>5. SP!Typed'
    <2>1. SP!Typed
      BY DEF AInv, SP!IInv
    <2> QED  BY <1>1, <1>4, <2>1, Zenon DEF SP!Typed, SP!TypeOK, SP!OwnCompletion, socketVars
  <1>6. SP!IInv'
    <2>1. SP!IInv
      BY DEF AInv
    <2>2. /\ UNCHANGED <<m_pendingBuffer, m_uiPendingBufferOffset, m_fOnWriteComplete, frames>>
          /\ UNCHANGED <<fresh, accepted, nested, written, completed, exception>>
      BY <1>1 DEF socketVars
    <2> QED  BY <1>5, <2>1, <2>2, SP!QuietStep, SocketAssumption DEF SP!pendingVars, SP!Running
  <1>7. AnsweredBefore'
    BY <1>1 DEF AInv, AnsweredBefore, socketVars
  <1>8. IsSequence(results') /\ (todo' = "answer" => Len(results') # 0)
    BY <1>1 DEF AInv
  <1> QED  BY <1>3, <1>6, <1>7, <1>8 DEF AInv

LEMMA StepAInv ==
    ASSUME AInv, [ServerNext]_serverVars
    PROVE  AInv'
  <1>1. ASSUME NEW n \in 1 .. MAX_REQUEST_SIZE, OnDataAvailable(n)
        PROVE  AInv'
    BY <1>1, OnDataAvailableStep
  <1>2. CASE Answer
    BY <1>2, AnswerStep
  <1>3. ASSUME NEW request \in Requests, ClientSends(request)
        PROVE  AInv'
    BY <1>3, ClientSendsStep
  <1>4. CASE ReadThrows \/ LoopStep
    <2>1. UNCHANGED vars /\ todo' = todo
      BY <1>4 DEF ReadThrows, LoopStep
    <2>2. (SP!HandleEventReady \/ SP!Next) /\ accepted' = accepted
      BY <1>4, SameHandlers, SameOthers DEF ReadThrows, LoopStep
    <2>3. SP!IInv'
      BY <2>2, SocketStep DEF SP!Next, AInv
    <2> QED  BY <2>1, <2>2, <2>3, QuietStep
  <1>5. CASE CloseInvalid \/ ClientReads \/ ClientLeaves
    <2>1. UNCHANGED vars /\ (todo' = "answer" => todo = "answer")
      BY <1>5 DEF CloseInvalid, ClientReads, ClientLeaves
    <2>2. SP!Next /\ accepted' = accepted
      BY <1>5, SameOthers DEF CloseInvalid, ClientReads, ClientLeaves
    <2>3. SP!IInv'
      BY <2>2, SocketStep DEF AInv
    <2> QED  BY <2>1, <2>2, <2>3, QuietStep
  <1>6. CASE UNCHANGED serverVars
    <2>1. UNCHANGED vars /\ todo' = todo /\ accepted' = accepted
      BY <1>6 DEF serverVars, socketVars
    <2>2. UNCHANGED SP!vars
      BY <1>6 DEF serverVars, socketVars, vars, SP!vars, SP!pendingVars, SP!peerVars, SP!historyVars
    <2>3. SP!IInv'
      BY <2>2, SocketStep DEF AInv
    <2> QED  BY <2>1, <2>3, QuietStep
  <1> QED  BY <1>1, <1>2, <1>3, <1>4, <1>5, <1>6 DEF ServerNext, ServerStep

LEMMA AlwaysAInv == ServerSpec => []AInv
  BY InitAInv, StepAInv, PTL DEF ServerSpec

(* Answers are given in the order of the requests, to requests that were   *)
(* parsed, none twice, and the client gets each whole before the next one  *)
(* begins, although OnDataAvailable ignores what WriteAll returns.         *)
THEOREM AnswersAreInOrder == ServerSpec => []AnswersInOrder
  <1>1. ASSUME AInv
        PROVE  AnswersInOrder
    <2>1. SP!StreamIntact
      BY <1>1, SP!IInvIsStreamIntact, SocketAssumption DEF AInv
    <2>2. Socket!StreamIntact
      BY <2>1, SameStream
    <2>3. \A j, k \in DOMAIN accepted : j < k => accepted[j] < accepted[k]
      BY <1>1 DEF AInv, AnsweredBefore
    <2>4. ToSet(accepted) \subseteq DOMAIN results
      <3>1. PICK S : results \in Seq(S)
        BY <1>1 DEF AInv, IsSequence
      <3>2. DOMAIN results = 1 .. Len(results)
        BY <3>1, LenProperties
      <3>3. \A k \in DOMAIN accepted : accepted[k] \in 1 .. Len(results)
        BY <1>1 DEF AInv, AnsweredBefore
      <3> QED  BY <3>2, <3>3 DEF ToSet
    <2> QED  BY <2>2, <2>3, <2>4 DEF AnswersInOrder
  <1>2. AInv => AnswersInOrder
    BY <1>1
  <1> QED  BY <1>2, AlwaysAInv, PTL

(* The members of the socket keep their types. *)
THEOREM SocketTypes == ServerSpec => []SP!TypeOK
  <1>1. AInv => SP!TypeOK
    BY DEF AInv, SP!IInv, SP!Typed
  <1> QED  BY <1>1, AlwaysAInv, PTL
-----------------------------------------------------------------------------
(* What the connection does to the parser and its input is what the parser *)
(* does, or nothing.                                                       *)
THEOREM ServerIsParser == ServerSpec => Spec
  <1>1. ServerInit => Init
    BY DEF ServerInit
  <1>2. ASSUME [ServerNext]_serverVars
        PROVE  [Next]_vars
    <2>1. ASSUME NEW n \in 1 .. MAX_REQUEST_SIZE, OnDataAvailable(n)
          PROVE  [Next]_vars
      BY <2>1 DEF OnDataAvailable, Next
    <2>2. ASSUME NEW request \in Requests, ClientSends(request)
          PROVE  [Next]_vars
      BY <2>2 DEF ClientSends, Next
    <2>3. CASE ReadThrows \/ Answer \/ CloseInvalid \/ LoopStep \/ ClientReads \/ ClientLeaves
      BY <2>3 DEF ReadThrows, Answer, CloseInvalid, LoopStep, ClientReads, ClientLeaves
    <2>4. CASE UNCHANGED serverVars
      BY <2>4 DEF serverVars
    <2> QED  BY <1>2, <2>1, <2>2, <2>3, <2>4 DEF ServerNext, ServerStep
  <1>3. [ServerNext]_serverVars => [Next]_vars
    BY <1>2
  <1> QED  BY <1>1, <1>3, PTL DEF ServerSpec, Spec

(* On a connection as well, a client that sends one request at a time has  *)
(* its requests parsed as they were sent, and only a body that is cut by   *)
(* the reads, or a fault of the request, keeps one from being finished.    *)
THEOREM RequestsAreParsed ==
    ASSUME OneAtATime, WellFormedAreValid
    PROVE  ServerSpec => [](/\ ResultsAreRequests /\ BufferIsUnparsedInput
                            /\ OnlyBodiesStall /\ RefusedForCause)
  BY ServerIsParser, ParserResults, ParserBuffer, ParserStalls, ParserRefuses, PTL

(* What OnDataAvailable does next, and which requests were sent early. *)
TodoTypeOK ==
    /\ todo \in {"answer", "close", "return", "throw"}
    /\ eager \subseteq 1 .. MaxRequests

LEMMA TodoInit == ServerInit => TodoTypeOK
  BY DEF ServerInit, TodoTypeOK

LEMMA TodoStep ==
    ASSUME TypeOK, TodoTypeOK, [ServerNext]_serverVars
    PROVE  TodoTypeOK'
  <1>1. ASSUME NEW n \in 1 .. MAX_REQUEST_SIZE, OnDataAvailable(n)
        PROVE  TodoTypeOK'
    BY <1>1 DEF OnDataAvailable, Reaction, TodoTypeOK
  <1>2. ASSUME NEW request \in Requests, ClientSends(request)
        PROVE  TodoTypeOK'
    <2>1. Len(sent) \in Nat
      BY LenProperties DEF TypeOK
    <2>2. Len(sent) < MaxRequests /\ todo' = todo /\ eager' \subseteq eager \cup {Len(sent) + 1}
      BY <1>2 DEF ClientSends, Send
    <2>3. Len(sent) + 1 \in 1 .. MaxRequests
      BY <2>1, <2>2, ParserAssumption
    <2> QED  BY <2>2, <2>3 DEF TodoTypeOK
  <1>3. CASE ReadThrows \/ Answer \/ CloseInvalid \/ LoopStep \/ ClientReads \/ ClientLeaves
    BY <1>3 DEF ReadThrows, Answer, CloseInvalid, LoopStep, ClientReads, ClientLeaves, TodoTypeOK
  <1>4. CASE UNCHANGED serverVars
    BY <1>4 DEF serverVars, TodoTypeOK
  <1> QED  BY <1>1, <1>2, <1>3, <1>4 DEF ServerNext, ServerStep

(* The parser, the socket and the callback of a connection keep their      *)
(* types together, whatever the client sends and whenever it leaves.       *)
THEOREM ServerTypes == ServerSpec => []ServerTypeOK
  <1>1. ServerSpec => []TypeOK
    BY ServerIsParser, ParserTypes, PTL
  <1>2. ServerSpec /\ []TypeOK => []TodoTypeOK
    <2>1. TypeOK /\ TodoTypeOK /\ [ServerNext]_serverVars => TodoTypeOK'
      BY TodoStep
    <2> QED  BY <2>1, TodoInit, PTL DEF ServerSpec
  <1>3. SP!TypeOK => Socket!TypeOK
    BY DEF SP!TypeOK, Socket!TypeOK
  <1>4. TypeOK /\ SP!TypeOK /\ TodoTypeOK => ServerTypeOK
    BY <1>3 DEF ServerTypeOK, TodoTypeOK
  <1> QED  BY <1>1, <1>2, <1>4, SocketTypes, PTL
=============================================================================
