--------------------------- MODULE AsyncFdIOProofs ---------------------------
(***************************************************************************)
(* Proofs about the asynchronous descriptor, for any set of buffers of any *)
(* size: types, the account of the pending buffer, and completions.        *)
(***************************************************************************)
EXTENDS AsyncFdIO, SequenceTheorems, FiniteSetTheorems, TLAPS

SentBytes == Buffers \X (1 .. BufferSize)

(* The kept completion is that of the pending buffer. *)
OwnCompletion == m_pendingBuffer # NULL => m_fOnWriteComplete = m_pendingBuffer

Typed == TypeOK /\ OwnCompletion

LEMMA SeqOfFunction ==
    ASSUME NEW S, NEW n \in Nat, NEW f \in [1 .. n -> S]
    PROVE  f \in Seq(S) /\ Len(f) = n
  <1>1. f \in Seq(S)
    BY SeqDef
  <1>2. Len(f) \in Nat /\ DOMAIN f = 1 .. Len(f)
    BY <1>1, LenProperties
  <1>3. 1 .. n = 1 .. Len(f)
    BY <1>2
  <1> QED  BY <1>1, <1>2, <1>3

(* The kernel takes n bytes of b. *)
LEMMA TakeType ==
    ASSUME sent \in Seq(SentBytes), NEW b \in Buffers, NEW k \in Nat, NEW n \in Nat,
           k + n <= BufferSize, Take(b, k, n)
    PROVE  /\ sent' \in Seq(SentBytes)
           /\ Len(sent') = Len(sent) + n
           /\ \A j \in 1 .. Len(sent) : sent'[j] = sent[j]
           /\ \A j \in Len(sent) + 1 .. Len(sent) + n : sent'[j] = <<b, k + j - Len(sent)>>
  <1> DEFINE more == [j \in 1 .. n |-> <<b, k + j>>]
  <1>1. \A j \in 1 .. n : k + j \in 1 .. BufferSize
    BY FdAssumption
  <1>2. more \in [1 .. n -> SentBytes]
    BY <1>1 DEF SentBytes
  <1>4. \A j \in 1 .. n : more[j] = <<b, k + j>>
    OBVIOUS
  <1>5. sent' = sent \o more
    BY DEF Take
  <1> HIDE DEF more
  <1>3. more \in Seq(SentBytes) /\ Len(more) = n
    BY <1>2, SeqOfFunction
  <1>6. /\ sent' \in Seq(SentBytes)
        /\ Len(sent') = Len(sent) + n
        /\ \A j \in 1 .. Len(sent) + n : sent'[j] = IF j <= Len(sent) THEN sent[j] ELSE more[j - Len(sent)]
    BY <1>3, <1>5, ConcatProperties
  <1>7. Len(sent) \in Nat
    OBVIOUS
  <1>8. ASSUME NEW j \in Len(sent) + 1 .. Len(sent) + n
        PROVE  sent'[j] = <<b, k + j - Len(sent)>>
    <2>1. j - Len(sent) \in 1 .. n /\ ~(j <= Len(sent)) /\ j \in 1 .. Len(sent) + n
      BY <1>7
    <2>2. sent'[j] = more[j - Len(sent)]
      BY <2>1, <1>6
    <2>3. k + (j - Len(sent)) = k + j - Len(sent)
      BY <1>7
    <2> QED  BY <2>1, <2>2, <2>3, <1>4
  <1> QED  BY <1>6, <1>7, <1>8

LEMMA InitTyped == Init => Typed
  <1> SUFFICES ASSUME Init PROVE Typed
    OBVIOUS
  <1> USE FdAssumption DEF Init
  <1>1. <<>> \in Seq(Buffers) /\ <<>> \in Seq(Buffers \X (1 .. BufferSize))
    OBVIOUS
  <1>2. 0 \in 0 .. BufferSize /\ 0 \in 0 .. MaxUnread
    OBVIOUS
  <1>3. TypeOK
    BY <1>1, <1>2, Zenon DEF TypeOK
  <1> QED  BY <1>3, Zenon DEF Typed, OwnCompletion

LEMMA StepTyped ==
    ASSUME Typed, [Next]_vars
    PROVE  Typed'
  <1>a. /\ TypeOK /\ OwnCompletion
        /\ m_pendingBuffer \in Buffers \cup {NULL}
        /\ m_uiPendingBufferOffset \in 0 .. BufferSize
        /\ unread \in 0 .. MaxUnread
        /\ frames \in Seq(Buffers) /\ completed \in Seq(Buffers)
        /\ sent \in Seq(SentBytes)
    BY Zenon DEF Typed, TypeOK, SentBytes
  <1>b. /\ BufferSize \in Nat /\ MaxUnread \in Nat
        /\ 0 \in 0 .. BufferSize
        /\ NULL \notin Buffers
    BY FdAssumption
  <1>c. exception \in {"none", "write", "read", "end of stream", "bad_function_call"}
    BY Zenon DEF Typed, TypeOK
  <1>0. /\ TypeOK /\ OwnCompletion
        /\ BufferSize \in Nat /\ MaxUnread \in Nat
        /\ m_pendingBuffer \in Buffers \cup {NULL}
        /\ m_uiPendingBufferOffset \in 0 .. BufferSize
        /\ 0 \in 0 .. BufferSize
        /\ sent \in Seq(SentBytes)
        /\ NULL \notin Buffers
    BY <1>a, <1>b
  <1>1. CASE UNCHANGED vars
    BY <1>0, <1>1, Zenon DEF vars, pendingVars, peerVars, historyVars, Typed, TypeOK, OwnCompletion
  <1>2. ASSUME NEW b \in Buffers, WriteAll(b)
        PROVE  Typed'
    <2> USE DEF pendingVars, peerVars
    <2>0. ASSUME Accept(b)
          PROVE  fresh' \subseteq Buffers /\ accepted' \in Seq(Buffers) /\ nested' \subseteq Buffers
      BY <1>0, <2>0, AppendProperties DEF Accept, TypeOK
    <2>1. CASE WriteRefused(b)
      <3>1. fresh' \subseteq Buffers
        BY <1>0, <2>1 DEF WriteRefused, TypeOK
      <3> QED  BY <1>0, <2>1, <3>1, Zenon DEF WriteRefused, Typed, TypeOK, OwnCompletion
    <2>2. CASE WriteFails(b)
      <3>1. fresh' \subseteq Buffers
        BY <1>0, <2>2 DEF WriteFails, TypeOK
      <3> QED  BY <1>0, <2>2, <3>1, Zenon DEF WriteFails, ResetPendingBuffer, Typed, TypeOK, OwnCompletion
    <2>3. CASE WriteBlocked(b)
      <3>1. Accept(b)
        BY <2>3 DEF WriteBlocked
      <3> QED  BY <1>0, <2>3, <2>0, <3>1, Zenon DEF WriteBlocked, SetPending, Typed, TypeOK, OwnCompletion
    <2>4. ASSUME NEW n \in 1 .. BufferSize, WritePartly(b, n)
          PROVE  Typed'
      <3>1. Accept(b) /\ Take(b, 0, n)
        BY <2>4 DEF WritePartly
      <3>2. n \in Nat /\ 0 + n <= BufferSize /\ n \in 0 .. BufferSize
        BY <1>0
      <3>3. sent' \in Seq(Buffers \X (1 .. BufferSize))
        BY <1>0, <3>1, <3>2, TakeType DEF SentBytes
      <3> QED  BY <1>0, <2>4, <2>0, <3>1, <3>2, <3>3, Zenon DEF WritePartly, SetPending, Typed, TypeOK, OwnCompletion
    <2>5. CASE WriteWhole(b)
      <3>1. Accept(b) /\ Take(b, 0, BufferSize) /\ m_pendingBuffer = NULL
        BY <2>5 DEF WriteWhole, CanSend
      <3>2. 0 + BufferSize <= BufferSize
        BY <1>0
      <3>3. sent' \in Seq(Buffers \X (1 .. BufferSize))
        BY <1>0, <3>1, <3>2, TakeType DEF SentBytes
      <3>4. frames' \in Seq(Buffers) /\ completed' \in Seq(Buffers)
        <4>1. \/ frames' = frames /\ completed' = completed
              \/ frames' = Append(frames, b) /\ completed' = Append(completed, b)
          BY <2>5 DEF WriteWhole, Call
        <4>2. Append(frames, b) \in Seq(Buffers) /\ Append(completed, b) \in Seq(Buffers)
          BY <1>a, AppendProperties
        <4> QED  BY <1>a, <4>1, <4>2, Zenon
      <3>5. exception' \in {"none", "write", "read", "end of stream", "bad_function_call"}
        <4>1. exception' = exception \/ exception' = "bad_function_call"
          BY <2>5 DEF WriteWhole
        <4> QED  BY <1>c, <4>1
      <3> QED  BY <1>0, <2>5, <2>0, <3>1, <3>3, <3>4, <3>5, Zenon DEF WriteWhole, Typed, TypeOK, OwnCompletion
    <2> QED  BY <1>2, <2>1, <2>2, <2>3, <2>4, <2>5 DEF WriteAll
  <1>3. CASE CompletionReturns
    <2>1. Front(frames) \in Seq(Buffers)
      <3>1. Len(frames) \in Nat /\ \A i \in 1 .. Len(frames) - 1 : frames[i] \in Buffers
        BY <1>a
      <3> QED  BY <3>1, SubSeqProperties DEF Front
    <2> QED  BY <1>0, <1>3, <2>1, Zenon
             DEF CompletionReturns, ResetPendingBuffer, peerVars, historyVars, Typed, TypeOK, OwnCompletion
  <1>4. CASE Close
    BY <1>0, <1>4, Zenon DEF Close, pendingVars, peerVars, historyVars, Typed, TypeOK, OwnCompletion
  <1>5. CASE Poll
    <2>1. Ready \subseteq {"CLOSE", "Read", "WriteSpaceAvailable"}
      BY DEF Ready
    <2> QED  BY <1>0, <1>5, <2>1, Zenon
             DEF Poll, pendingVars, peerVars, historyVars, Typed, TypeOK, OwnCompletion
  <1>6. CASE HandleEventReady
    <2> USE DEF pendingVars, peerVars, historyVars, Handles
    <2>0. {} \subseteq {"CLOSE", "Read", "WriteSpaceAvailable"}
      OBVIOUS
    <2>1. CASE HandleClose
      BY <1>0, <2>0, <2>1, Zenon DEF HandleClose, Typed, TypeOK, OwnCompletion
    <2>2. CASE HandleReadEvent
      <3>1. unread' \in 0 .. MaxUnread
        <4>1. unread' = unread \/ unread' \in 0 .. unread - 1
          BY <2>2 DEF HandleReadEvent
        <4> QED  BY <1>a, <1>b, <4>1
      <3>2. exception' \in {"none", "write", "read", "end of stream", "bad_function_call"}
        <4>1. exception' \in {exception, "read", "end of stream"}
          BY <2>2 DEF HandleReadEvent
        <4> QED  BY <1>c, <4>1
      <3> QED  BY <1>0, <2>0, <2>2, <3>1, <3>2, Zenon DEF HandleReadEvent, Typed, TypeOK, OwnCompletion
    <2>3. CASE NothingToWrite
      BY <1>0, <2>0, <2>3, Zenon DEF NothingToWrite, Typed, TypeOK, OwnCompletion
    <2>4. CASE WritePendingFails
      BY <1>0, <2>0, <2>4, Zenon DEF WritePendingFails, WritePending, ResetPendingBuffer, Typed, TypeOK, OwnCompletion
    <2>7. CASE WritePendingBlocked
      BY <1>0, <2>0, <2>7, Zenon DEF WritePendingBlocked, WritePending, Typed, TypeOK, OwnCompletion
    <2>5. ASSUME NEW n \in 1 .. BufferSize, WritePendingPartly(n)
          PROVE  Typed'
      <3>1. Take(m_pendingBuffer, m_uiPendingBufferOffset, n) /\ m_pendingBuffer # NULL /\ n < Unsent
        BY <2>5 DEF WritePendingPartly, WritePending
      <3>2. /\ n \in Nat /\ m_uiPendingBufferOffset \in Nat
            /\ m_uiPendingBufferOffset + n <= BufferSize
            /\ m_uiPendingBufferOffset + n \in 0 .. BufferSize
        BY <1>0, <3>1 DEF Unsent
      <3>3. sent' \in Seq(Buffers \X (1 .. BufferSize))
        BY <1>0, <3>1, <3>2, TakeType DEF SentBytes
      <3> QED  BY <1>0, <2>0, <2>5, <3>2, <3>3, Zenon DEF WritePendingPartly, WritePending, Typed, TypeOK, OwnCompletion
    <2>6. CASE WritePendingWhole
      <3>1. Take(m_pendingBuffer, m_uiPendingBufferOffset, Unsent) /\ m_pendingBuffer # NULL
        BY <2>6 DEF WritePendingWhole, WritePending
      <3>2. /\ Unsent \in Nat /\ m_uiPendingBufferOffset \in Nat
            /\ m_uiPendingBufferOffset + Unsent <= BufferSize
        BY <1>0, <3>1 DEF Unsent
      <3>3. sent' \in Seq(Buffers \X (1 .. BufferSize))
        BY <1>0, <3>1, <3>2, TakeType DEF SentBytes
      <3>4. m_fOnWriteComplete \in Buffers
        BY <1>0, <3>1 DEF OwnCompletion
      <3>5. frames' \in Seq(Buffers) /\ completed' \in Seq(Buffers)
        BY <1>0, <2>6, <3>4, AppendProperties DEF WritePendingWhole, Call, TypeOK
      <3> QED  BY <1>0, <2>0, <2>6, <3>3, <3>5, Zenon DEF WritePendingWhole, WritePending, Typed, TypeOK, OwnCompletion
    <2> QED  BY <1>6, <2>1, <2>2, <2>3, <2>4, <2>5, <2>6, <2>7 DEF HandleEventReady
  <1>7. CASE PeerSends
    <2>1. unread' \in 0 .. MaxUnread
      BY <1>a, <1>b, <1>7 DEF PeerSends
    <2> QED  BY <1>0, <1>7, <2>1, Zenon DEF PeerSends, pendingVars, historyVars, Typed, TypeOK, OwnCompletion
  <1>8. CASE PeerShutsDown
    BY <1>0, <1>8, Zenon DEF PeerShutsDown, pendingVars, historyVars, Typed, TypeOK, OwnCompletion
  <1>9. CASE PeerResets
    BY <1>0, <1>9, Zenon DEF PeerResets, pendingVars, historyVars, Typed, TypeOK, OwnCompletion
  <1>10. CASE PeerReads
    BY <1>0, <1>10, Zenon DEF PeerReads, pendingVars, peerVars, historyVars, Typed, TypeOK, OwnCompletion
  <1> QED  BY <1>1, <1>2, <1>3, <1>4, <1>5, <1>6, <1>7, <1>8, <1>9, <1>10 DEF Next

LEMMA AlwaysTyped == Spec => []Typed
  BY InitTyped, StepTyped, PTL DEF Spec

(* Every member of the descriptor keeps its type, and the offset of a      *)
(* pending buffer never leaves the buffer.                                 *)
THEOREM TypeInvariant == Spec => []TypeOK
  BY AlwaysTyped, PTL DEF Typed
-----------------------------------------------------------------------------
(* Buffers the application still has are not accepted, and bytes are taken *)
(* of accepted buffers only.                                               *)
AcceptedNotFresh == \A k \in DOMAIN accepted : accepted[k] \notin fresh
TakenWasAccepted == \A i \in DOMAIN sent : \E k \in DOMAIN accepted : accepted[k] = sent[i][1]

(* The pending buffer is the one that was accepted last. *)
PendingIsLast ==
    m_pendingBuffer # NULL => accepted # <<>> /\ m_pendingBuffer = accepted[Len(accepted)]

(* A buffer that is neither whole nor forgotten is the last one, and the   *)
(* loop will go on with it unless the process ends.                        *)
GoesOn(k) ==
    /\ k = Len(accepted)
    /\ Running => m_pendingBuffer = accepted[k] /\ frames = <<>>

Settled(k) == accepted[k] \in nested \/ SentOf(accepted[k]) = BufferSize
WholeOrPending == \A k \in DOMAIN accepted : Settled(k) \/ GoesOn(k)

IInv ==
    /\ Typed
    /\ AcceptedNotFresh
    /\ TakenWasAccepted
    /\ PendingIsLast
    /\ IsInjective(accepted)
    /\ InOrder
    /\ WholeOrPending
    /\ PendingAccounted
    /\ CompletedOnceSent
-----------------------------------------------------------------------------
(* Counting bytes. *)
Count(s, c, i) == Cardinality({j \in 1 .. i : s[j][1] = c})

LEMMA CountNat ==
    ASSUME NEW s, NEW c, NEW i \in Nat
    PROVE  IsFiniteSet({j \in 1 .. i : s[j][1] = c}) /\ Count(s, c, i) \in Nat
  <1>1. IsFiniteSet(1 .. i)
    BY FS_Interval
  <1>2. {j \in 1 .. i : s[j][1] = c} \in SUBSET (1 .. i)
    OBVIOUS
  <1> QED  BY <1>1, <1>2, FS_Subset, FS_CardinalityType DEF Count

LEMMA CountSame ==
    ASSUME NEW s, NEW t, NEW c, NEW i \in Nat, \A j \in 1 .. i : t[j] = s[j]
    PROVE  Count(t, c, i) = Count(s, c, i)
  <1>1. {j \in 1 .. i : t[j][1] = c} = {j \in 1 .. i : s[j][1] = c}
    OBVIOUS
  <1> QED  BY <1>1 DEF Count

LEMMA CountMore ==
    ASSUME NEW t, NEW c, NEW l \in Nat, NEW m \in Nat,
           \A j \in l + 1 .. l + m : t[j][1] = c
    PROVE  Count(t, c, l + m) = Count(t, c, l) + m
  <1> DEFINE Before == {j \in 1 .. l : t[j][1] = c}
             After == {j \in 1 .. l + m : t[j][1] = c}
             Added == l + 1 .. l + m
  <1>0. \A j : j \in 1 .. l + m <=> j \in 1 .. l \/ j \in l + 1 .. l + m
    OBVIOUS
  <1>a. \A j : ~(j \in 1 .. l /\ j \in l + 1 .. l + m)
    OBVIOUS
  <1>1. After = Before \cup Added /\ Before \cap Added = {}
    BY <1>0, <1>a
  <1>2. IsFiniteSet(Before) /\ Cardinality(Before) \in Nat
    BY CountNat DEF Count
  <1>3. IsFiniteSet(Added) /\ Cardinality(Added) = m
    <2>1. l + 1 \in Int /\ l + m \in Int
      OBVIOUS
    <2>2. /\ IsFiniteSet(l + 1 .. l + m)
          /\ Cardinality(l + 1 .. l + m) = IF l + 1 > l + m THEN 0 ELSE (l + m) - (l + 1) + 1
      BY <2>1, FS_Interval
    <2>3. (IF l + 1 > l + m THEN 0 ELSE (l + m) - (l + 1) + 1) = m
      OBVIOUS
    <2> QED  BY <2>2, <2>3
  <1>4. Cardinality({}) = 0
    BY FS_EmptySet
  <1> HIDE DEF Before, After, Added
  <1>5. Cardinality(After) = Cardinality(Before) + Cardinality(Added) - Cardinality(Before \cap Added)
    BY <1>1, <1>2, <1>3, FS_Union
  <1>6. Cardinality(After) = Cardinality(Before) + m
    <2>2. Cardinality(Before \cap Added) = 0
      BY <1>1, <1>4, Zenon
    <2>3. ASSUME NEW x, NEW y \in Nat, NEW z, x = y + m - z, z = 0
          PROVE  x = y + m
      BY <2>3
    <2> QED  BY <1>2, <1>3, <1>5, <2>2, <2>3
  <1> QED  BY <1>6 DEF Count, Before, After

LEMMA CountOther ==
    ASSUME NEW t, NEW c, NEW l \in Nat, NEW m \in Nat,
           \A j \in l + 1 .. l + m : t[j][1] # c
    PROVE  Count(t, c, l + m) = Count(t, c, l)
  <1>1. {j \in 1 .. l + m : t[j][1] = c} = {j \in 1 .. l : t[j][1] = c}
    OBVIOUS
  <1> QED  BY <1>1 DEF Count

LEMMA TakenIsCount ==
    /\ \A c, i : TakenOf(c, i) = Count(sent, c, i)
    /\ \A c, i : TakenOf(c, i)' = Count(sent', c, i)
    /\ \A c : SentOf(c) = Count(sent, c, Len(sent))
    /\ \A c : SentOf(c)' = Count(sent', c, Len(sent'))
  BY DEF TakenOf, SentOf, Count

LEMMA SentOfNat ==
    ASSUME sent \in Seq(SentBytes), NEW c
    PROVE  SentOf(c) \in Nat
  <1>1. Len(sent) \in Nat
    OBVIOUS
  <1> QED  BY <1>1, CountNat, TakenIsCount

(* When the kernel takes n bytes of b, the count of b goes up by n. *)
LEMMA TakeCounts ==
    ASSUME sent \in Seq(SentBytes), NEW b \in Buffers, NEW k \in Nat, NEW n \in Nat,
           k + n <= BufferSize, Take(b, k, n)
    PROVE  /\ SentOf(b)' = SentOf(b) + n
           /\ \A c : c # b => SentOf(c)' = SentOf(c)
           /\ \A c : \A i \in 1 .. Len(sent) : TakenOf(c, i)' = TakenOf(c, i)
           /\ \A i \in Len(sent) + 1 .. Len(sent) + n : TakenOf(b, i)' = SentOf(b) + i - Len(sent)
  <1> DEFINE l == Len(sent)
  <1>1. /\ l \in Nat
        /\ Len(sent') = l + n
        /\ \A j \in 1 .. l : sent'[j] = sent[j]
        /\ \A j \in l + 1 .. l + n : sent'[j][1] = b
    BY TakeType
  <1> HIDE DEF l
  <1>2. ASSUME NEW c, NEW i \in 0 .. l
        PROVE  Count(sent', c, i) = Count(sent, c, i)
    <2>1. i \in Nat /\ \A j \in 1 .. i : sent'[j] = sent[j]
      BY <1>1
    <2> QED  BY <2>1, CountSame
  <1>3. ASSUME NEW m \in 0 .. n
        PROVE  Count(sent', b, l + m) = Count(sent, b, l) + m
    <2>1. m \in Nat /\ \A j \in l + 1 .. l + m : sent'[j][1] = b
      BY <1>1
    <2>2. Count(sent', b, l + m) = Count(sent', b, l) + m
      BY <2>1, <1>1, CountMore
    <2> QED  BY <2>2, <1>1, <1>2
  <1>4. ASSUME NEW c, c # b
        PROVE  Count(sent', c, l + n) = Count(sent, c, l)
    <2>1. Count(sent', c, l + n) = Count(sent', c, l)
      BY <1>1, <1>4, CountOther
    <2> QED  BY <2>1, <1>1, <1>2
  <1>5. n \in 0 .. n /\ \A i \in 1 .. l : i \in 0 .. l
    BY <1>1
  <1>6. SentOf(b)' = SentOf(b) + n
    BY <1>1, <1>3, <1>5, TakenIsCount DEF l
  <1>7. \A c : c # b => SentOf(c)' = SentOf(c)
    BY <1>1, <1>4, TakenIsCount DEF l
  <1>8. \A c : \A i \in 1 .. Len(sent) : TakenOf(c, i)' = TakenOf(c, i)
    BY <1>2, <1>5, TakenIsCount DEF l
  <1>9. ASSUME NEW i \in Len(sent) + 1 .. Len(sent) + n
        PROVE  TakenOf(b, i)' = SentOf(b) + i - Len(sent)
    <2>1. i - l \in 0 .. n /\ l + (i - l) = i
      BY <1>1 DEF l
    <2>2. Count(sent', b, i) = Count(sent, b, l) + (i - l)
      BY <2>1, <1>3
    <2>3. Count(sent', b, i) = SentOf(b) + (i - l)
      BY <2>2, TakenIsCount DEF l
    <2>4. SentOf(b) \in Nat
      BY SentOfNat
    <2>5. SentOf(b) + (i - l) = SentOf(b) + i - l
      BY <1>1, <2>1, <2>4
    <2> QED  BY <2>3, <2>5, TakenIsCount DEF l
  <1> QED  BY <1>6, <1>7, <1>8, <1>9

LEMMA TakeNothing ==
    ASSUME sent \in Seq(SentBytes), sent' = sent, NEW b
    PROVE  Take(b, 0, 0)
  <1> DEFINE none == [j \in 1 .. 0 |-> <<b, 0 + j>>]
  <1>0. none \in [1 .. 0 -> SentBytes]
    OBVIOUS
  <1> HIDE DEF none
  <1>1. none = <<>>
    <2>1. none \in Seq(SentBytes) /\ Len(none) = 0
      BY <1>0, SeqOfFunction
    <2> QED  BY <2>1, EmptySeq
  <1>2. sent \o <<>> = sent
    BY ConcatEmptySeq
  <1> QED  BY <1>1, <1>2 DEF Take, none
-----------------------------------------------------------------------------
(* accepted' continues accepted and ends with b. *)
EndsWith(b) ==
    /\ accepted' \in Seq(Buffers)
    /\ Len(accepted) <= Len(accepted')
    /\ \A k \in DOMAIN accepted : accepted'[k] = accepted[k]
    /\ Len(accepted') \in DOMAIN accepted'
    /\ accepted'[Len(accepted')] = b

(* Bytes that follow those the kernel has of the last buffer keep the      *)
(* order of the stream.                                                    *)
LEMMA TakeInOrder ==
    ASSUME sent \in Seq(SentBytes), accepted \in Seq(Buffers),
           NEW b \in Buffers, NEW k \in Nat, NEW n \in Nat,
           k + n <= BufferSize, Take(b, k, n), SentOf(b) = k,
           InOrder, TakenWasAccepted, EndsWith(b)
    PROVE  InOrder' /\ TakenWasAccepted'
  <1> DEFINE l == Len(sent)
             last == Len(accepted')
  <1>1. /\ l \in Nat
        /\ DOMAIN sent = 1 .. l /\ DOMAIN sent' = 1 .. l + n
        /\ \A j \in 1 .. l : sent'[j] = sent[j]
        /\ \A j \in l + 1 .. l + n : sent'[j] = <<b, k + j - l>>
    BY TakeType
  <1>2. \A j \in 1 .. l + n : j \in 1 .. l \/ j \in l + 1 .. l + n
    BY <1>1
  <1>3. /\ last \in Nat /\ Len(accepted) \in Nat
        /\ DOMAIN accepted = 1 .. Len(accepted) /\ DOMAIN accepted' = 1 .. last
        /\ last \in 1 .. last /\ \A i \in 1 .. Len(accepted) : i \in 1 .. last /\ i <= last
        /\ accepted'[last] = b
        /\ \A i \in 1 .. Len(accepted) : accepted'[i] = accepted[i]
    BY DEF EndsWith
  <1>a. \A i, j \in 1 .. l :
            i <= j => \E p, q \in 1 .. Len(accepted) :
                          p <= q /\ accepted[p] = sent[i][1] /\ accepted[q] = sent[j][1]
    <2>1. DOMAIN sent = 1 .. l /\ DOMAIN accepted = 1 .. Len(accepted)
      BY <1>1, <1>3
    <2>2. \A i, j \in DOMAIN sent :
              i <= j => \E p, q \in DOMAIN accepted :
                            p <= q /\ accepted[p] = sent[i][1] /\ accepted[q] = sent[j][1]
      BY DEF InOrder
    <2> HIDE DEF l
    <2> QED  BY <2>1, <2>2
  <1>4. \A i \in 1 .. l : \E m \in 1 .. Len(accepted) : accepted'[m] = sent'[i][1]
    BY <1>1, <1>3 DEF TakenWasAccepted
  <1>5. \A i \in l + 1 .. l + n : accepted'[last] = sent'[i][1]
    BY <1>1, <1>3
  <1>6. TakenWasAccepted'
    <2>1. ASSUME NEW i \in 1 .. l + n
          PROVE  \E m \in 1 .. last : accepted'[m] = sent'[i][1]
      BY <1>2, <1>3, <1>4, <1>5
    <2> QED  BY <2>1, <1>1, <1>3 DEF TakenWasAccepted
  <1>7. ASSUME NEW i \in 1 .. l + n
        PROVE  sent'[i][2] = Count(sent', sent'[i][1], i)
    <2>1. CASE i \in 1 .. l
      <3>1. sent[i][2] = TakenOf(sent[i][1], i)
        BY <2>1, <1>1 DEF InOrder
      <3>2. \A c : TakenOf(c, i)' = TakenOf(c, i)
        BY <2>1, TakeCounts
      <3>3. \A c : TakenOf(c, i) = Count(sent, c, i) /\ TakenOf(c, i)' = Count(sent', c, i)
        BY TakenIsCount
      <3> QED  BY <3>1, <3>2, <3>3, <2>1, <1>1
    <2>2. CASE i \in l + 1 .. l + n
      <3>1. sent'[i][1] = b /\ sent'[i][2] = k + i - l
        BY <2>2, <1>1
      <3>2. TakenOf(b, i)' = k + i - l
        BY <2>2, TakeCounts
      <3>3. Count(sent', b, i) = k + i - l
        BY <3>2, TakenIsCount
      <3> QED  BY <3>1, <3>3
    <2> QED  BY <2>1, <2>2, <1>2
  <1>8. ASSUME NEW i \in 1 .. l + n, NEW j \in 1 .. l + n, i <= j
        PROVE  \E p, q \in 1 .. last :
                   p <= q /\ accepted'[p] = sent'[i][1] /\ accepted'[q] = sent'[j][1]
    <2>1. CASE j \in 1 .. l
      <3>1. i \in 1 .. l
        BY <2>1, <1>1, <1>8
      <3>3. PICK p \in 1 .. Len(accepted), q \in 1 .. Len(accepted) :
                p <= q /\ accepted[p] = sent[i][1] /\ accepted[q] = sent[j][1]
        BY <3>1, <2>1, <1>8, <1>a
      <3>4. sent'[i] = sent[i] /\ sent'[j] = sent[j]
        BY <3>1, <2>1, <1>1
      <3>5. accepted'[p] = accepted[p] /\ accepted'[q] = accepted[q] /\ p \in 1 .. last /\ q \in 1 .. last
        BY <1>3
      <3> QED  BY <3>3, <3>4, <3>5
    <2>2. CASE j \in l + 1 .. l + n
      <3>1. PICK p \in 1 .. last : accepted'[p] = sent'[i][1]
        BY <1>2, <1>3, <1>4, <1>5
      <3>2. p <= last /\ accepted'[last] = sent'[j][1]
        BY <1>3, <1>5, <2>2
      <3> QED  BY <1>3, <3>1, <3>2
    <2> QED  BY <2>1, <2>2, <1>2
  <1>9. InOrder'
    <2>1. \A i \in DOMAIN sent' : sent'[i][2] = Count(sent', sent'[i][1], i)
      BY <1>1, <1>7
    <2>2. \A i, j \in DOMAIN sent' :
              i <= j => \E p, q \in DOMAIN accepted' :
                            p <= q /\ accepted'[p] = sent'[i][1] /\ accepted'[q] = sent'[j][1]
      <3>1. DOMAIN sent' = 1 .. l + n /\ DOMAIN accepted' = 1 .. last
        BY <1>1, <1>3
      <3> HIDE DEF l, last
      <3> SUFFICES ASSUME NEW i \in DOMAIN sent', NEW j \in DOMAIN sent', i <= j
                   PROVE  \E p, q \in DOMAIN accepted' :
                              p <= q /\ accepted'[p] = sent'[i][1] /\ accepted'[q] = sent'[j][1]
        OBVIOUS
      <3>2. PICK p \in 1 .. last, q \in 1 .. last :
                p <= q /\ accepted'[p] = sent'[i][1] /\ accepted'[q] = sent'[j][1]
        BY <3>1, <1>8
      <3> QED  BY <3>1, <3>2
    <2> QED  BY <2>1, <2>2 DEF InOrder, TakenOf, Count
  <1> QED  BY <1>6, <1>9

(* The completed buffers are still whole, also when another one completes. *)
LEMMA CompletionStep ==
    ASSUME CompletedOnceSent, completed \in Seq(Buffers), NEW b \in Buffers,
           SentOf(b) # BufferSize, \A c : c # b => SentOf(c)' = SentOf(c),
           \/ completed' = completed
           \/ completed' = Append(completed, b) /\ SentOf(b)' = BufferSize
    PROVE  CompletedOnceSent'
  <1> DEFINE l == Len(completed)
  <1>1. l \in Nat /\ DOMAIN completed = 1 .. l
    OBVIOUS
  <1>2. \A i \in 1 .. l : SentOf(completed[i]) = BufferSize
    BY <1>1 DEF CompletedOnceSent
  <1>3. \A i, j \in 1 .. l : completed[i] = completed[j] => i = j
    BY <1>1 DEF CompletedOnceSent, IsInjective
  <1>4. \A i \in 1 .. l : completed[i] # b
    BY <1>2
  <1>5. \A c : (SentOf(c) = BufferSize) => SentOf(c)' = BufferSize
    OBVIOUS
  <1>6. \A c : SentOf(c)' = Count(sent', c, Len(sent'))
    BY TakenIsCount
  <1>7. CASE completed' = completed
    <2>1. \A i \in 1 .. l : Count(sent', completed'[i], Len(sent')) = BufferSize
      BY <1>2, <1>5, <1>6, <1>7
    <2> QED  BY <1>1, <1>3, <1>7, <2>1 DEF CompletedOnceSent, IsInjective, SentOf, TakenOf, Count
  <1>8. CASE completed' = Append(completed, b) /\ SentOf(b)' = BufferSize
    <2>1. /\ DOMAIN completed' = 1 .. l + 1
          /\ \A i \in 1 .. l : completed'[i] = completed[i]
          /\ completed'[l + 1] = b
      BY <1>1, <1>8, AppendProperties
    <2>2. \A i \in 1 .. l + 1 : i \in 1 .. l \/ i = l + 1
      BY <1>1
    <2>3. \A i \in 1 .. l + 1 : Count(sent', completed'[i], Len(sent')) = BufferSize
      BY <1>2, <1>5, <1>6, <1>8, <2>1, <2>2
    <2>4. \A i, j \in 1 .. l + 1 : completed'[i] = completed'[j] => i = j
      BY <1>3, <1>4, <2>1, <2>2
    <2> QED  BY <2>1, <2>3, <2>4 DEF CompletedOnceSent, IsInjective, SentOf, TakenOf, Count
  <1> QED  BY <1>7, <1>8

(* Nothing has been taken of a buffer that is still fresh. *)
LEMMA FreshUnsent ==
    ASSUME Typed, AcceptedNotFresh, TakenWasAccepted, NEW b \in fresh
    PROVE  SentOf(b) = 0
  <1>1. \A j \in DOMAIN sent : sent[j][1] # b
    BY DEF AcceptedNotFresh, TakenWasAccepted
  <1>2. DOMAIN sent = 1 .. Len(sent)
    BY LenProperties DEF Typed, TypeOK
  <1>3. {j \in 1 .. Len(sent) : sent[j][1] = b} = {}
    BY <1>1, <1>2
  <1> QED  BY <1>3, FS_EmptySet DEF SentOf, TakenOf

(* WriteAll accepts b and the kernel takes n bytes of it. *)
LEMMA AcceptStep ==
    ASSUME IInv, NEW b \in fresh, NEW n \in 0 .. BufferSize, Accept(b), Take(b, 0, n),
           Running, m_pendingBuffer = NULL
    PROVE  /\ AcceptedNotFresh' /\ TakenWasAccepted' /\ IsInjective(accepted)' /\ InOrder'
           /\ SentOf(b) = 0 /\ SentOf(b)' = n /\ \A c : c # b => SentOf(c)' = SentOf(c)
           /\ accepted' # <<>> /\ accepted'[Len(accepted')] = b
           /\ \A k \in DOMAIN accepted' : k # Len(accepted') => Settled(k)'
           /\ frames # <<>> => b \in nested'
  <1> DEFINE l == Len(accepted)
  <1>1. /\ sent \in Seq(SentBytes) /\ accepted \in Seq(Buffers) /\ fresh \subseteq Buffers
        /\ b \in Buffers
    BY Zenon DEF IInv, Typed, TypeOK, SentBytes
  <1>2. l \in Nat /\ DOMAIN accepted = 1 .. l
    BY <1>1, LenProperties
  <1>3. /\ accepted' = Append(accepted, b) /\ fresh' = fresh \ {b}
        /\ nested \subseteq nested' /\ (frames # <<>> => b \in nested')
    BY DEF Accept
  <1>4. /\ accepted' \in Seq(Buffers) /\ accepted' # <<>>
        /\ Len(accepted') = l + 1 /\ DOMAIN accepted' = 1 .. l + 1
        /\ \A k \in 1 .. l : accepted'[k] = accepted[k]
        /\ accepted'[l + 1] = b
    BY <1>1, <1>2, <1>3, AppendProperties
  <1> HIDE DEF l
  <1>5. \A k \in 1 .. l + 1 : k \in 1 .. l \/ k = l + 1
    BY <1>2
  <1>6. \A k \in 1 .. l : accepted[k] \notin fresh
    BY <1>2 DEF IInv, AcceptedNotFresh
  <1>7. AcceptedNotFresh'
    BY <1>3, <1>4, <1>5, <1>6 DEF AcceptedNotFresh
  <1>8. IsInjective(accepted)'
    <2>1. \A i, j \in 1 .. l : accepted[i] = accepted[j] => i = j
      BY <1>2 DEF IInv, IsInjective
    <2>2. \A i \in 1 .. l : accepted[i] # b
      BY <1>6
    <2>3. \A i, j \in 1 .. l + 1 : accepted'[i] = accepted'[j] => i = j
      BY <1>4, <1>5, <2>1, <2>2
    <2> QED  BY <2>3, <1>4 DEF IsInjective
  <1>9. SentOf(b) = 0
    BY FreshUnsent DEF IInv
  <1>10. n \in Nat /\ 0 + n <= BufferSize /\ 0 + n = n
    BY FdAssumption
  <1>11. SentOf(b)' = n /\ \A c : c # b => SentOf(c)' = SentOf(c)
    BY <1>1, <1>9, <1>10, TakeCounts
  <1>12. EndsWith(b)
    <2>1. l <= l + 1 /\ l + 1 \in 1 .. l + 1
      BY <1>2
    <2> QED  BY <1>2, <1>4, <2>1 DEF EndsWith, l
  <1>13. TakenWasAccepted' /\ InOrder'
    BY <1>1, <1>9, <1>10, <1>12, TakeInOrder DEF IInv
  <1>14. ASSUME NEW k \in 1 .. l
         PROVE  accepted'[k] \in nested' \/ Count(sent', accepted'[k], Len(sent')) = BufferSize
    <2>1. accepted'[k] = accepted[k] /\ accepted[k] # b
      BY <1>4, <1>6
    <2>2. CASE accepted[k] \in nested
      BY <1>3, <2>1, <2>2
    <2>3. CASE SentOf(accepted[k]) = BufferSize
      <3>1. SentOf(accepted[k]) = Count(sent, accepted[k], Len(sent))
        BY TakenIsCount
      <3>2. \A c : c # b => Count(sent', c, Len(sent')) = Count(sent, c, Len(sent))
        BY <1>11, TakenIsCount
      <3> QED  BY <2>1, <2>3, <3>1, <3>2
    <2>4. m_pendingBuffer # accepted[k]
      BY <1>1, <1>2, FdAssumption
    <2>5. Settled(k)
      BY <1>2, <2>4 DEF IInv, WholeOrPending, GoesOn
    <2> QED  BY <2>2, <2>3, <2>5 DEF Settled
  <1>15. \A k \in DOMAIN accepted' : k # Len(accepted') => Settled(k)'
    <2>1. \A k \in DOMAIN accepted' : k # Len(accepted') => k \in 1 .. l
      BY <1>4, <1>5
    <2> QED  BY <2>1, <1>14 DEF Settled, SentOf, TakenOf, Count
  <1> QED  BY <1>3, <1>4, <1>7, <1>8, <1>9, <1>11, <1>13, <1>15

(* Nothing is accepted, taken or completed. *)
LEMMA QuietStep ==
    ASSUME IInv, Typed', fresh' \subseteq fresh, UNCHANGED <<accepted, nested, sent, completed>>,
           UNCHANGED <<pendingVars, frames>> \/ m_pendingBuffer' = NULL,
           Running' => Running,
           Running' => UNCHANGED <<m_pendingBuffer, frames>> \/ frames # <<>>
    PROVE  IInv'
  <1>1. \A c : SentOf(c)' = SentOf(c)
    BY DEF SentOf, TakenOf
  <1>2. AcceptedNotFresh' /\ TakenWasAccepted' /\ IsInjective(accepted)' /\ PendingIsLast'
    BY DEF IInv, AcceptedNotFresh, TakenWasAccepted, PendingIsLast, IsInjective, pendingVars
  <1>3. InOrder'
    BY DEF IInv, InOrder, TakenOf
  <1>4. WholeOrPending'
    <2> SUFFICES ASSUME NEW k \in DOMAIN accepted
                 PROVE  Settled(k)' \/ GoesOn(k)'
      BY DEF WholeOrPending
    <2>1. Settled(k) => Settled(k)'
      BY DEF Settled, SentOf, TakenOf
    <2>2. GoesOn(k) => GoesOn(k)'
      BY DEF GoesOn
    <2> QED  BY <2>1, <2>2 DEF IInv, WholeOrPending
  <1>5. PendingAccounted'
    BY DEF IInv, PendingAccounted, pendingVars, SentOf, TakenOf
  <1>6. CompletedOnceSent'
    BY DEF IInv, CompletedOnceSent, IsInjective, SentOf, TakenOf
  <1> QED  BY <1>2, <1>3, <1>4, <1>5, <1>6 DEF IInv

LEMMA InitIInv == Init => IInv
  <1> SUFFICES ASSUME Init PROVE IInv
    OBVIOUS
  <1>1. Typed
    BY InitTyped
  <1>2. DOMAIN accepted = {} /\ DOMAIN sent = {} /\ DOMAIN completed = {}
    BY DEF Init
  <1>3. m_pendingBuffer = NULL
    BY DEF Init
  <1> QED  BY <1>1, <1>2, <1>3, Zenon
           DEF IInv, AcceptedNotFresh, TakenWasAccepted, PendingIsLast, IsInjective, InOrder,
               WholeOrPending, PendingAccounted, CompletedOnceSent

(* WriteAll. *)
LEMMA WriteAllStep ==
    ASSUME IInv, Typed', NEW b \in Buffers, WriteAll(b)
    PROVE  IInv'
  <1>1. /\ sent \in Seq(SentBytes) /\ completed \in Seq(Buffers)
        /\ BufferSize \in Nat \ {0} /\ NULL \notin Buffers
        /\ PendingAccounted /\ CompletedOnceSent
    BY FdAssumption, Zenon DEF IInv, Typed, TypeOK, SentBytes
  <1>2. CASE WriteRefused(b)
    <2>1. fresh' \subseteq fresh /\ UNCHANGED <<accepted, nested, sent, completed, pendingVars, frames, exception>>
      BY <1>2 DEF WriteRefused
    <2>2. UNCHANGED m_pendingBuffer
      BY <2>1 DEF pendingVars
    <2> QED  BY <2>1, <2>2, QuietStep DEF Running
  <1>3. CASE WriteFails(b)
    <2>1. /\ fresh' \subseteq fresh /\ UNCHANGED <<accepted, nested, sent, completed>>
          /\ m_pendingBuffer' = NULL /\ ~Running'
      BY <1>3 DEF WriteFails, ResetPendingBuffer, Running
    <2> QED  BY <2>1, QuietStep
  <1>4. ASSUME NEW n \in 0 .. BufferSize, n < BufferSize, CanSend(b), Accept(b), Take(b, 0, n),
               SetPending(b, n), UNCHANGED <<frames, completed>>
        PROVE  IInv'
    <2>1. b \in fresh /\ Running /\ m_pendingBuffer = NULL
      BY <1>4 DEF CanSend, CanWrite
    <2>2. /\ AcceptedNotFresh' /\ TakenWasAccepted' /\ IsInjective(accepted)' /\ InOrder'
          /\ SentOf(b) = 0 /\ SentOf(b)' = n /\ \A c : c # b => SentOf(c)' = SentOf(c)
          /\ accepted' # <<>> /\ accepted'[Len(accepted')] = b
          /\ \A k \in DOMAIN accepted' : k # Len(accepted') => Settled(k)'
          /\ frames # <<>> => b \in nested'
      BY <1>4, <2>1, AcceptStep
    <2>3. m_pendingBuffer' = b /\ m_uiPendingBufferOffset' = n /\ m_fOnWriteComplete' = b
      BY <1>4 DEF SetPending
    <2>4. PendingIsLast'
      BY <2>2, <2>3 DEF PendingIsLast
    <2>5. WholeOrPending'
      <3> SUFFICES ASSUME NEW k \in DOMAIN accepted', k = Len(accepted')
                   PROVE  Settled(k)' \/ GoesOn(k)'
        BY <2>2 DEF WholeOrPending
      <3>1. CASE frames = <<>>
        BY <3>1, <1>4, <2>2, <2>3 DEF GoesOn
      <3>2. CASE frames # <<>>
        BY <3>2, <2>2 DEF Settled
      <3> QED  BY <3>1, <3>2
    <2>6. PendingAccounted'
      <3>1. Count(sent', b, Len(sent')) = n
        BY <2>2, TakenIsCount
      <3> QED  BY <1>4, <2>3, <3>1 DEF PendingAccounted, SentOf, TakenOf, Count
    <2>7. CompletedOnceSent'
      <3>1. SentOf(b) # BufferSize
        BY <1>1, <2>2
      <3>2. completed' = completed
        BY <1>4
      <3> QED  BY <1>1, <2>2, <3>1, <3>2, CompletionStep
    <2> QED  BY <2>2, <2>4, <2>5, <2>6, <2>7 DEF IInv
  <1>5. CASE WriteBlocked(b)
    <2>1. CanSend(b) /\ Accept(b) /\ SetPending(b, 0) /\ UNCHANGED <<frames, sent, completed>>
      BY <1>5 DEF WriteBlocked
    <2>2. Take(b, 0, 0)
      BY <1>1, <2>1, TakeNothing
    <2>3. 0 \in 0 .. BufferSize /\ 0 < BufferSize
      BY <1>1
    <2> QED  BY <1>4, <2>1, <2>2, <2>3
  <1>6. ASSUME NEW n \in 1 .. BufferSize, WritePartly(b, n)
        PROVE  IInv'
    <2>1. /\ CanSend(b) /\ Accept(b) /\ Take(b, 0, n) /\ SetPending(b, n) /\ n < BufferSize
          /\ UNCHANGED <<frames, completed>>
      BY <1>6 DEF WritePartly
    <2>2. n \in 0 .. BufferSize
      BY <1>1
    <2> QED  BY <1>4, <2>1, <2>2
  <1>7. CASE WriteWhole(b)
    <2>1. b \in fresh /\ Running /\ m_pendingBuffer = NULL /\ m_pendingBuffer' = NULL
      BY <1>7 DEF WriteWhole, CanSend, CanWrite
    <2>2. /\ AcceptedNotFresh' /\ TakenWasAccepted' /\ IsInjective(accepted)' /\ InOrder'
          /\ SentOf(b) = 0 /\ SentOf(b)' = BufferSize /\ \A c : c # b => SentOf(c)' = SentOf(c)
          /\ \A k \in DOMAIN accepted' : k # Len(accepted') => Settled(k)'
          /\ accepted'[Len(accepted')] = b
      <3>1. Accept(b) /\ Take(b, 0, BufferSize)
        BY <1>7 DEF WriteWhole
      <3>2. BufferSize \in 0 .. BufferSize
        BY <1>1
      <3> QED  BY <2>1, <3>1, <3>2, AcceptStep
    <2>3. PendingIsLast' /\ PendingAccounted'
      BY <2>1 DEF PendingIsLast, PendingAccounted
    <2>4. WholeOrPending'
      <3> SUFFICES ASSUME NEW k \in DOMAIN accepted', k = Len(accepted')
                   PROVE  Settled(k)'
        BY <2>2 DEF WholeOrPending
      <3>1. Count(sent', accepted'[k], Len(sent')) = BufferSize
        BY <2>2, TakenIsCount
      <3> QED  BY <3>1 DEF Settled, SentOf, TakenOf, Count
    <2>5. CompletedOnceSent'
      <3>1. SentOf(b) # BufferSize
        BY <1>1, <2>2
      <3>2. completed' = completed \/ completed' = Append(completed, b)
        BY <1>7 DEF WriteWhole, Call
      <3> QED  BY <1>1, <2>2, <3>1, <3>2, CompletionStep
    <2> QED  BY <2>2, <2>3, <2>4, <2>5 DEF IInv
  <1> QED  BY <1>2, <1>3, <1>5, <1>6, <1>7 DEF WriteAll

(* The rest of the pending buffer, or a part of it. *)
LEMMA PendingTaken ==
    ASSUME IInv, WritePending, NEW n \in Nat, m_uiPendingBufferOffset + n <= BufferSize,
           Take(m_pendingBuffer, m_uiPendingBufferOffset, n),
           UNCHANGED <<m_pendingBuffer, fresh, accepted, nested>>
    PROVE  /\ AcceptedNotFresh' /\ TakenWasAccepted' /\ IsInjective(accepted)' /\ InOrder' /\ PendingIsLast'
           /\ m_pendingBuffer \in Buffers
           /\ SentOf(m_pendingBuffer) = m_uiPendingBufferOffset
           /\ SentOf(m_pendingBuffer) # BufferSize
           /\ \A b : b = m_pendingBuffer => SentOf(b)' = m_uiPendingBufferOffset + n
           /\ \A c : c # m_pendingBuffer => SentOf(c)' = SentOf(c)
           /\ \A k \in DOMAIN accepted : accepted[k] = m_pendingBuffer \/ Settled(k)'
  <1>1. /\ sent \in Seq(SentBytes) /\ accepted \in Seq(Buffers)
        /\ m_pendingBuffer \in Buffers \cup {NULL} /\ m_uiPendingBufferOffset \in 0 .. BufferSize
    BY Zenon DEF IInv, Typed, TypeOK, SentBytes
  <1>2. /\ m_pendingBuffer # NULL /\ frames = <<>> /\ Running
    BY DEF WritePending, Handles
  <1>3. m_pendingBuffer \in Buffers /\ m_uiPendingBufferOffset \in Nat
    BY <1>1, <1>2, FdAssumption
  <1>4. /\ m_uiPendingBufferOffset = SentOf(m_pendingBuffer) /\ m_uiPendingBufferOffset < BufferSize
        /\ accepted # <<>> /\ m_pendingBuffer = accepted[Len(accepted)]
    BY <1>2 DEF IInv, PendingAccounted, PendingIsLast
  <1>5. SentOf(m_pendingBuffer) # BufferSize
    BY <1>3, <1>4, FdAssumption
  <1>6. PICK b \in Buffers : b = m_pendingBuffer
    BY <1>3
  <1>7. /\ SentOf(b)' = SentOf(b) + n
        /\ \A c : c # b => SentOf(c)' = SentOf(c)
    BY <1>1, <1>3, <1>6, TakeCounts
  <1>8. EndsWith(b)
    BY <1>1, <1>4, <1>6, LenProperties, EmptySeq DEF EndsWith
  <1>9. TakenWasAccepted' /\ InOrder'
    BY <1>1, <1>3, <1>4, <1>6, <1>8, TakeInOrder DEF IInv
  <1>10. AcceptedNotFresh' /\ IsInjective(accepted)' /\ PendingIsLast'
    BY DEF IInv, AcceptedNotFresh, IsInjective, PendingIsLast
  <1>11. ASSUME NEW k \in DOMAIN accepted, accepted[k] # m_pendingBuffer
         PROVE  Settled(k)'
    <2>1. Settled(k)
      BY <1>2, <1>11 DEF IInv, WholeOrPending, GoesOn
    <2>2. Count(sent', accepted[k], Len(sent')) = Count(sent, accepted[k], Len(sent))
      BY <1>6, <1>7, <1>11, TakenIsCount
    <2>3. accepted[k] \in nested \/ Count(sent, accepted[k], Len(sent)) = BufferSize
      BY <2>1 DEF Settled, SentOf, TakenOf, Count
    <2> QED  BY <2>2, <2>3 DEF Settled, SentOf, TakenOf, Count
  <1> QED  BY <1>3, <1>4, <1>5, <1>6, <1>7, <1>9, <1>10, <1>11

(* HandleEventReady. *)
LEMMA HandleEventStep ==
    ASSUME IInv, Typed', HandleEventReady
    PROVE  IInv'
  <1>1. /\ sent \in Seq(SentBytes) /\ completed \in Seq(Buffers) /\ accepted \in Seq(Buffers)
        /\ m_uiPendingBufferOffset \in 0 .. BufferSize
        /\ BufferSize \in Nat
        /\ PendingAccounted /\ PendingIsLast /\ CompletedOnceSent /\ Typed
    BY FdAssumption, Zenon DEF IInv, Typed, TypeOK, SentBytes
  <1>2. ASSUME UNCHANGED <<pendingVars, frames, historyVars>>, Running
        PROVE  IInv'
    <2>1. /\ fresh' \subseteq fresh /\ UNCHANGED <<accepted, nested, sent, completed>>
          /\ UNCHANGED <<m_pendingBuffer, frames>>
      BY <1>2 DEF historyVars, pendingVars
    <2> QED  BY <1>2, <2>1, QuietStep
  <1>3. CASE HandleClose \/ HandleReadEvent \/ NothingToWrite \/ WritePendingBlocked
    <2>1. UNCHANGED <<pendingVars, frames, historyVars>> /\ Running
      BY <1>3 DEF HandleClose, HandleReadEvent, NothingToWrite, WritePendingBlocked, WritePending, Handles
    <2> QED  BY <1>2, <2>1
  <1>4. CASE WritePendingFails
    <2>1. /\ m_pendingBuffer' = NULL /\ ~Running'
          /\ fresh' \subseteq fresh /\ UNCHANGED <<accepted, nested, sent, completed>>
      BY <1>4 DEF WritePendingFails, ResetPendingBuffer, Running, historyVars
    <2> QED  BY <2>1, QuietStep
  <1>5. ASSUME NEW n \in 1 .. BufferSize, WritePendingPartly(n)
        PROVE  IInv'
    <2>1. /\ WritePending /\ n < Unsent
          /\ Take(m_pendingBuffer, m_uiPendingBufferOffset, n)
          /\ m_uiPendingBufferOffset' = m_uiPendingBufferOffset + n
          /\ UNCHANGED <<m_pendingBuffer, m_fOnWriteComplete, exception, fresh, accepted, nested,
                         frames, completed>>
      BY <1>5 DEF WritePendingPartly
    <2>2. n \in Nat /\ m_uiPendingBufferOffset + n < BufferSize /\ m_uiPendingBufferOffset + n <= BufferSize
      BY <1>1, <2>1 DEF Unsent
    <2>3. /\ AcceptedNotFresh' /\ TakenWasAccepted' /\ IsInjective(accepted)' /\ InOrder' /\ PendingIsLast'
          /\ m_pendingBuffer \in Buffers
          /\ SentOf(m_pendingBuffer) # BufferSize
          /\ \A b : b = m_pendingBuffer => SentOf(b)' = m_uiPendingBufferOffset + n
          /\ \A c : c # m_pendingBuffer => SentOf(c)' = SentOf(c)
          /\ \A k \in DOMAIN accepted : accepted[k] = m_pendingBuffer \/ Settled(k)'
      BY <2>1, <2>2, PendingTaken
    <2>4. PICK b \in Buffers : b = m_pendingBuffer
      BY <2>3
    <2>5. frames = <<>> /\ accepted # <<>> /\ b = accepted[Len(accepted)] /\ m_fOnWriteComplete = b
      BY <1>1, <2>1, <2>3, <2>4 DEF WritePending, Handles, PendingIsLast, Typed, OwnCompletion
    <2>6. PendingAccounted'
      <3>1. Count(sent', b, Len(sent')) = m_uiPendingBufferOffset + n
        BY <2>3, <2>4, TakenIsCount
      <3> QED  BY <2>1, <2>2, <2>4, <2>5, <3>1 DEF PendingAccounted, SentOf, TakenOf, Count
    <2>7. WholeOrPending'
      <3> SUFFICES ASSUME NEW k \in DOMAIN accepted
                   PROVE  Settled(k)' \/ GoesOn(k)'
        BY <2>1 DEF WholeOrPending
      <3>1. CASE accepted[k] = m_pendingBuffer
        <4>1. Len(accepted) \in DOMAIN accepted
          BY <1>1, <2>5, LenProperties, EmptySeq
        <4>2. k = Len(accepted)
          BY <2>4, <2>5, <3>1, <4>1 DEF IInv, IsInjective
        <4> QED  BY <2>1, <2>4, <2>5, <4>2 DEF GoesOn
      <3> QED  BY <2>3, <3>1
    <2>8. CompletedOnceSent'
      BY <1>1, <2>1, <2>3, <2>4, CompletionStep
    <2> QED  BY <2>3, <2>6, <2>7, <2>8 DEF IInv
  <1>6. CASE WritePendingWhole
    <2>1. /\ WritePending
          /\ Take(m_pendingBuffer, m_uiPendingBufferOffset, Unsent)
          /\ UNCHANGED <<m_pendingBuffer, exception, fresh, accepted, nested>>
          /\ frames' = Append(frames, m_fOnWriteComplete)
          /\ completed' = Append(completed, m_fOnWriteComplete)
      BY <1>6 DEF WritePendingWhole, Call, pendingVars
    <2>2. /\ Unsent \in Nat
          /\ m_uiPendingBufferOffset + Unsent = BufferSize /\ m_uiPendingBufferOffset + Unsent <= BufferSize
      BY <1>1 DEF Unsent
    <2>3. /\ AcceptedNotFresh' /\ TakenWasAccepted' /\ IsInjective(accepted)' /\ InOrder' /\ PendingIsLast'
          /\ m_pendingBuffer \in Buffers
          /\ SentOf(m_pendingBuffer) # BufferSize
          /\ \A b : b = m_pendingBuffer => SentOf(b)' = m_uiPendingBufferOffset + Unsent
          /\ \A c : c # m_pendingBuffer => SentOf(c)' = SentOf(c)
          /\ \A k \in DOMAIN accepted : accepted[k] = m_pendingBuffer \/ Settled(k)'
      BY <2>1, <2>2, PendingTaken
    <2>4. PICK b \in Buffers : b = m_pendingBuffer
      BY <2>3
    <2>5. m_fOnWriteComplete = b /\ frames = <<>>
      BY <1>1, <2>1, <2>4 DEF WritePending, Handles, Typed, OwnCompletion
    <2>6. SentOf(b)' = BufferSize
      BY <2>2, <2>3, <2>4
    <2>7. frames' # <<>>
      <3>1. frames \in Seq(Buffers)
        BY Zenon DEF IInv, Typed, TypeOK
      <3> QED  BY <2>1, <2>4, <2>5, <3>1, AppendProperties
    <2>8. PendingAccounted'
      BY <2>7 DEF PendingAccounted
    <2>9. WholeOrPending'
      <3> SUFFICES ASSUME NEW k \in DOMAIN accepted
                   PROVE  Settled(k)'
        BY <2>1 DEF WholeOrPending
      <3>1. CASE accepted[k] = m_pendingBuffer
        <4>1. Count(sent', accepted[k], Len(sent')) = BufferSize
          BY <2>4, <2>6, <3>1, TakenIsCount
        <4>2. accepted'[k] = accepted[k]
          BY <2>1
        <4> QED  BY <4>1, <4>2 DEF Settled, SentOf, TakenOf, Count
      <3> QED  BY <2>3, <3>1
    <2>10. CompletedOnceSent'
      BY <1>1, <2>1, <2>3, <2>4, <2>5, <2>6, CompletionStep
    <2> QED  BY <2>3, <2>8, <2>9, <2>10 DEF IInv
  <1> QED  BY <1>3, <1>4, <1>5, <1>6 DEF HandleEventReady

LEMMA StepIInv ==
    ASSUME IInv, [Next]_vars
    PROVE  IInv'
  <1>1. Typed'
    BY StepTyped DEF IInv
  <1>2. ASSUME UNCHANGED <<pendingVars, frames, historyVars, exception>>
        PROVE  IInv'
    <2>1. /\ fresh' \subseteq fresh /\ UNCHANGED <<accepted, nested, sent, completed>>
          /\ UNCHANGED <<m_pendingBuffer, frames>> /\ (Running' => Running)
      BY <1>2 DEF historyVars, pendingVars, Running
    <2> QED  BY <1>1, <1>2, <2>1, QuietStep
  <1>3. CASE UNCHANGED vars
    BY <1>2, <1>3 DEF vars
  <1>4. CASE \E b \in Buffers : WriteAll(b)
    BY <1>1, <1>4, WriteAllStep
  <1>5. CASE CompletionReturns
    <2>1. /\ m_pendingBuffer' = NULL /\ frames # <<>> /\ (Running' => Running)
          /\ fresh' \subseteq fresh /\ UNCHANGED <<accepted, nested, sent, completed>>
      BY <1>5 DEF CompletionReturns, ResetPendingBuffer, Running, historyVars
    <2> QED  BY <1>1, <2>1, QuietStep
  <1>6. CASE Close \/ Poll
    BY <1>2, <1>6 DEF Close, Poll
  <1>7. CASE HandleEventReady
    BY <1>1, <1>7, HandleEventStep
  <1>8. CASE PeerSends \/ PeerShutsDown \/ PeerResets \/ PeerReads
    BY <1>2, <1>8 DEF PeerSends, PeerShutsDown, PeerResets, PeerReads
  <1> QED  BY <1>3, <1>4, <1>5, <1>6, <1>7, <1>8 DEF Next

LEMMA IInvIsStreamIntact == IInv => StreamIntact
  <1> SUFFICES ASSUME IInv PROVE StreamIntact
    OBVIOUS
  <1>1. accepted \in Seq(Buffers)
    BY Zenon DEF IInv, Typed, TypeOK
  <1>2. \A k \in 1 .. Len(accepted) - 1 : k \in DOMAIN accepted /\ k # Len(accepted)
    BY <1>1, LenProperties
  <1>3. \A k \in 1 .. Len(accepted) - 1 : Settled(k)
    BY <1>2 DEF IInv, WholeOrPending, GoesOn
  <1> QED  BY <1>3 DEF IInv, StreamIntact, Settled

LEMMA AlwaysIInv == Spec => []IInv
  BY InitIInv, StepIInv, PTL DEF Spec

(* The bytes of accepted buffers reach the peer in order, from the first   *)
(* one on and each once, whatever the kernel takes at a time, and only the *)
(* last buffer, or one that a completion wrote, is cut.                    *)
THEOREM StreamIsIntact == Spec => []StreamIntact
  BY AlwaysIInv, IInvIsStreamIntact, PTL

(* Outside of completions the offset of the pending buffer is the number   *)
(* of its bytes the kernel has, and the kept completion is its own.        *)
THEOREM PendingIsAccounted == Spec => []PendingAccounted
  BY AlwaysIInv, PTL DEF IInv

(* No completion runs twice, or before the last byte of its buffer.        *)
THEOREM CompletionsAreOnce == Spec => []CompletedOnceSent
  BY AlwaysIInv, PTL DEF IInv
=============================================================================
