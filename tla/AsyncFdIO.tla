------------------------------ MODULE AsyncFdIO ------------------------------
(***************************************************************************)
(* One asynchronous descriptor (AsyncFdIO.cpp) between the application,    *)
(* the event loop and the kernel, on the loop thread.                      *)
(*                                                                         *)
(* WriteAll hands a buffer to the kernel and keeps what the kernel does    *)
(* not take, the pending buffer, until the descriptor is writable again.   *)
(* The completion of a buffer is code of the application, which may call   *)
(* the descriptor again: such calls are the frames of the loop thread.     *)
(* An exception leaves Run, which nobody expects: the process ends.        *)
(*                                                                         *)
(* The descriptor has a number of its own here; what becomes of the number *)
(* once it is closed is the subject of Connections.                        *)
(***************************************************************************)
EXTENDS Naturals, FiniteSets, SequencesExt

CONSTANTS
    Buffers,        \* what the application writes, each once
    BufferSize,     \* bytes of a buffer
    NULL,           \* nullptr
    NestedWrites,   \* TRUE if completions call WriteAll
    HangupOnFin,    \* TRUE if poll reports POLLHUP when the peer shuts down
    MaxUnread       \* bound: bytes of the peer that wait to be read

ASSUME FdAssumption ==
    /\ BufferSize \in Nat \ {0}
    /\ NULL \notin Buffers
    /\ NestedWrites \in BOOLEAN
    /\ HangupOnFin \in BOOLEAN
    /\ MaxUnread \in Nat \ {0}

VARIABLES
    m_iFD,                      \* "open", or "none" for -1
    m_pendingBuffer,
    m_uiPendingBufferOffset,
    m_fOnWriteComplete,         \* the buffer whose completion it is
    frames,                     \* completions that are running, the innermost last
    revents,                    \* what poll reported and Run has not dispatched
    exception,                  \* what left Run, or "none"
    unread, fin, reset,         \* from the peer: bytes, end of stream, connection reset
    writable,                   \* the kernel has room for bytes to the peer
    fresh,                      \* buffers not written yet
    accepted,                   \* history: buffers WriteAll accepted, in order
    nested,                     \* history: those a completion wrote
    sent,                       \* history: bytes the kernel took, in order
    completed                   \* history: buffers whose completion ran, in order

pendingVars == <<m_pendingBuffer, m_uiPendingBufferOffset, m_fOnWriteComplete>>
peerVars == <<unread, fin, reset>>
historyVars == <<fresh, accepted, nested, sent, completed>>
vars == <<m_iFD, pendingVars, frames, revents, exception, peerVars, writable, historyVars>>

(* A descriptor on which SetFD has been called. *)
Init ==
    /\ m_iFD = "open"
    /\ m_pendingBuffer = NULL
    /\ m_uiPendingBufferOffset = 0
    /\ m_fOnWriteComplete = NULL
    /\ frames = <<>>
    /\ revents = {}
    /\ exception = "none"
    /\ unread = 0
    /\ fin = FALSE
    /\ reset = FALSE
    /\ writable = TRUE
    /\ fresh = Buffers
    /\ accepted = <<>>
    /\ nested = {}
    /\ sent = <<>>
    /\ completed = <<>>
-----------------------------------------------------------------------------
(* The application runs: a callback of another descriptor, the main task   *)
(* or a completion of this descriptor.                                     *)
Running == exception = "none"
CanWrite(b) ==
    /\ Running
    /\ b \in fresh
    /\ frames # <<>> => NestedWrites

Accept(b) ==
    /\ fresh' = fresh \ {b}
    /\ accepted' = Append(accepted, b)
    /\ nested' = IF frames = <<>> THEN nested ELSE nested \cup {b}

(* The kernel takes n more bytes of b, which follow the first k. *)
Take(b, k, n) == sent' = sent \o [j \in 1 .. n |-> <<b, k + j>>]

ResetPendingBuffer ==
    /\ m_fOnWriteComplete' = NULL
    /\ m_pendingBuffer' = NULL
    /\ m_uiPendingBufferOffset' = 0

SetPending(b, offset) ==
    /\ m_fOnWriteComplete' = b
    /\ m_pendingBuffer' = b
    /\ m_uiPendingBufferOffset' = offset

(* A completion starts to run. *)
Call(b) ==
    /\ frames' = Append(frames, b)
    /\ completed' = Append(completed, b)

(* WriteAll returns false while a buffer is pending; b is dropped. *)
WriteRefused(b) ==
    /\ CanWrite(b)
    /\ m_pendingBuffer # NULL
    /\ fresh' = fresh \ {b}
    /\ UNCHANGED <<m_iFD, pendingVars, frames, revents, exception, peerVars, writable,
                   accepted, nested, sent, completed>>

(* write() fails, on a closed descriptor or a reset connection. *)
WriteFails(b) ==
    /\ CanWrite(b)
    /\ m_pendingBuffer = NULL
    /\ m_iFD = "none" \/ reset
    /\ ResetPendingBuffer
    /\ exception' = "write"
    /\ fresh' = fresh \ {b}
    /\ UNCHANGED <<m_iFD, frames, revents, peerVars, writable, accepted, nested, sent, completed>>

CanSend(b) ==
    /\ CanWrite(b)
    /\ m_pendingBuffer = NULL
    /\ m_iFD = "open" /\ ~reset

(* write() returns EAGAIN: the whole buffer is pending. *)
WriteBlocked(b) ==
    /\ CanSend(b)
    /\ ~writable
    /\ Accept(b)
    /\ SetPending(b, 0)
    /\ UNCHANGED <<m_iFD, frames, revents, exception, peerVars, writable, sent, completed>>

(* Mutant: a partial write does not count. *)
WritePartlyFromStart(b, n) ==
    /\ CanSend(b)
    /\ writable
    /\ n < BufferSize
    /\ Accept(b)
    /\ Take(b, 0, n)
    /\ SetPending(b, 0)
    /\ writable' = FALSE
    /\ UNCHANGED <<m_iFD, frames, revents, exception, peerVars, completed>>

(* write() takes the first n bytes: the others are pending. *)
WritePartly(b, n) ==
    /\ CanSend(b)
    /\ writable
    /\ n < BufferSize
    /\ Accept(b)
    /\ Take(b, 0, n)
    /\ SetPending(b, n)
    /\ writable' = FALSE
    /\ UNCHANGED <<m_iFD, frames, revents, exception, peerVars, completed>>

(* write() takes everything.  The completion that is called then is the    *)
(* parameter that has been moved from: it may still be callable, or empty. *)
WriteWhole(b) ==
    /\ CanSend(b)
    /\ writable
    /\ Accept(b)
    /\ Take(b, 0, BufferSize)
    /\ m_fOnWriteComplete' = b
    /\ \/ Call(b) /\ UNCHANGED exception
       \/ exception' = "bad_function_call" /\ UNCHANGED <<frames, completed>>
    /\ writable' \in BOOLEAN
    /\ UNCHANGED <<m_iFD, m_pendingBuffer, m_uiPendingBufferOffset, revents, peerVars>>

(* Mutant: nothing is reset behind a completion. *)
CompletionLeavesPending ==
    /\ Running
    /\ frames # <<>>
    /\ frames' = Front(frames)
    /\ UNCHANGED <<m_iFD, pendingVars, revents, exception, peerVars, writable, historyVars>>

(* The innermost completion returns, to WriteAll or WriteFromPendingBuffer,*)
(* which reset the pending buffer whatever the completion has done.        *)
CompletionReturns ==
    /\ Running
    /\ frames # <<>>
    /\ frames' = Front(frames)
    /\ ResetPendingBuffer
    /\ UNCHANGED <<m_iFD, revents, exception, peerVars, writable, historyVars>>

(* Close, which leaves the pending buffer as it is. *)
Close ==
    /\ Running
    /\ m_iFD = "open"
    /\ m_iFD' = "none"
    /\ UNCHANGED <<pendingVars, frames, revents, exception, peerVars, writable, historyVars>>
-----------------------------------------------------------------------------
(* What poll reports; CLOSE is POLLHUP. *)
Ready ==
    (IF reset \/ (HangupOnFin /\ fin) THEN {"CLOSE"} ELSE {})
        \cup (IF unread > 0 \/ fin \/ reset THEN {"Read"} ELSE {})
        \cup (IF writable \/ reset THEN {"WriteSpaceAvailable"} ELSE {})

(* The loop thread polls, outside of every callback. *)
Poll ==
    /\ Running
    /\ frames = <<>>
    /\ revents = {}
    /\ m_iFD = "open"
    /\ revents' = Ready
    /\ UNCHANGED <<m_iFD, pendingVars, frames, exception, peerVars, writable, historyVars>>

(* HandleEventReady looks at one of the events only, CLOSE first and Read  *)
(* before WriteSpaceAvailable.  The descriptor may have been closed since  *)
(* poll: the callback is still registered.                                 *)
Handles(event) ==
    /\ Running
    /\ frames = <<>>
    /\ event \in revents
    /\ event # "CLOSE" => "CLOSE" \notin revents
    /\ event = "WriteSpaceAvailable" => "Read" \notin revents
    /\ revents' = {}

HandleClose ==
    /\ Handles("CLOSE")
    /\ m_iFD' = "none"
    /\ UNCHANGED <<pendingVars, frames, exception, peerVars, writable, historyVars>>

(* ReadSync, called by HandleReadData or by the application from its       *)
(* OnDataAvailable callback, once: read() fails on a closed descriptor and *)
(* returns 0 at the end of the stream.                                     *)
HandleReadEvent ==
    /\ Handles("Read")
    /\ IF m_iFD = "none" \/ reset THEN exception' = "read" /\ UNCHANGED unread
       ELSE IF unread = 0 THEN exception' = "end of stream" /\ UNCHANGED unread
       ELSE unread' \in 0 .. unread - 1 /\ UNCHANGED exception
    /\ UNCHANGED <<m_iFD, pendingVars, frames, fin, reset, writable, historyVars>>

NothingToWrite ==
    /\ Handles("WriteSpaceAvailable")
    /\ m_pendingBuffer = NULL
    /\ UNCHANGED <<m_iFD, pendingVars, frames, exception, peerVars, writable, historyVars>>

(* WriteFromPendingBuffer. *)
WritePending ==
    /\ Handles("WriteSpaceAvailable")
    /\ m_pendingBuffer # NULL

Unsent == BufferSize - m_uiPendingBufferOffset

WritePendingFails ==
    /\ WritePending
    /\ m_iFD = "none" \/ reset
    /\ ResetPendingBuffer
    /\ exception' = "write"
    /\ UNCHANGED <<m_iFD, frames, peerVars, writable, historyVars>>

(* Mutant: what the kernel has no room for is dropped. *)
BlockedForgets ==
    /\ WritePending
    /\ m_iFD = "open" /\ ~reset
    /\ ~writable
    /\ ResetPendingBuffer
    /\ UNCHANGED <<m_iFD, frames, exception, peerVars, writable, historyVars>>

(* write() returns EAGAIN: between poll and this turn the callback of      *)
(* another descriptor has called WriteAll, which has used up the room that *)
(* poll reported.  The event is dropped and the loop polls again.          *)
WritePendingBlocked ==
    /\ WritePending
    /\ m_iFD = "open" /\ ~reset
    /\ ~writable
    /\ UNCHANGED <<m_iFD, pendingVars, frames, exception, peerVars, writable, historyVars>>

(* Mutants: the offset is set, not advanced, or the size that is written   *)
(* is that of the whole buffer.                                            *)
PartlyPending(n, limit, offset) ==
    /\ WritePending
    /\ m_iFD = "open" /\ ~reset
    /\ writable
    /\ n < limit
    /\ Take(m_pendingBuffer, m_uiPendingBufferOffset, n)
    /\ m_uiPendingBufferOffset' = offset
    /\ writable' = FALSE
    /\ UNCHANGED <<m_iFD, m_pendingBuffer, m_fOnWriteComplete, frames, exception, peerVars,
                   fresh, accepted, nested, completed>>

WritePendingSetsOffset(n) == PartlyPending(n, Unsent, n)
WritePendingOverruns(n) == PartlyPending(n, BufferSize, m_uiPendingBufferOffset + n)

WritePendingPartly(n) ==
    /\ WritePending
    /\ m_iFD = "open" /\ ~reset
    /\ writable
    /\ n < Unsent
    /\ Take(m_pendingBuffer, m_uiPendingBufferOffset, n)
    /\ m_uiPendingBufferOffset' = m_uiPendingBufferOffset + n
    /\ writable' = FALSE
    /\ UNCHANGED <<m_iFD, m_pendingBuffer, m_fOnWriteComplete, frames, exception, peerVars,
                   fresh, accepted, nested, completed>>

(* The completion runs before the pending buffer is reset. *)
WritePendingWhole ==
    /\ WritePending
    /\ m_iFD = "open" /\ ~reset
    /\ writable
    /\ Take(m_pendingBuffer, m_uiPendingBufferOffset, Unsent)
    /\ Call(m_fOnWriteComplete)
    /\ writable' \in BOOLEAN
    /\ UNCHANGED <<m_iFD, pendingVars, exception, peerVars, fresh, accepted, nested>>
-----------------------------------------------------------------------------
(* The other end of the connection. *)
PeerSends ==
    /\ ~fin /\ ~reset
    /\ unread < MaxUnread
    /\ unread' = unread + 1
    /\ UNCHANGED <<m_iFD, pendingVars, frames, revents, exception, fin, reset, writable, historyVars>>

PeerShutsDown ==
    /\ ~fin /\ ~reset
    /\ fin' = TRUE
    /\ UNCHANGED <<m_iFD, pendingVars, frames, revents, exception, unread, reset, writable, historyVars>>

PeerResets ==
    /\ ~reset
    /\ reset' = TRUE
    /\ UNCHANGED <<m_iFD, pendingVars, frames, revents, exception, unread, fin, writable, historyVars>>

(* The peer reads: the kernel has room again. *)
PeerReads ==
    /\ ~writable
    /\ writable' = TRUE
    /\ UNCHANGED <<m_iFD, pendingVars, frames, revents, exception, peerVars, historyVars>>
-----------------------------------------------------------------------------
WriteAll(b) ==
    \/ WriteRefused(b)
    \/ WriteFails(b)
    \/ WriteBlocked(b)
    \/ \E n \in 1 .. BufferSize : WritePartly(b, n)
    \/ WriteWhole(b)

HandleEventReady ==
    \/ HandleClose
    \/ HandleReadEvent
    \/ NothingToWrite
    \/ WritePendingFails
    \/ WritePendingBlocked
    \/ \E n \in 1 .. BufferSize : WritePendingPartly(n)
    \/ WritePendingWhole

Next ==
    \/ \E b \in Buffers : WriteAll(b)
    \/ CompletionReturns
    \/ Close
    \/ Poll
    \/ HandleEventReady
    \/ PeerSends
    \/ PeerShutsDown
    \/ PeerResets
    \/ PeerReads

Spec == Init /\ [][Next]_vars

(* The loop keeps polling and dispatching, completions return, and the     *)
(* peer keeps reading what it is sent.                                     *)
Fairness ==
    /\ WF_vars(Poll)
    /\ WF_vars(HandleEventReady)
    /\ WF_vars(CompletionReturns)
    /\ WF_vars(PeerReads)

FairSpec == Spec /\ Fairness
-----------------------------------------------------------------------------
TypeOK ==
    /\ m_iFD \in {"open", "none"}
    /\ m_pendingBuffer \in Buffers \cup {NULL}
    /\ m_uiPendingBufferOffset \in 0 .. BufferSize
    /\ m_fOnWriteComplete \in Buffers \cup {NULL}
    /\ frames \in Seq(Buffers)
    /\ revents \subseteq {"CLOSE", "Read", "WriteSpaceAvailable"}
    /\ exception \in {"none", "write", "read", "end of stream", "bad_function_call"}
    /\ unread \in 0 .. MaxUnread
    /\ fin \in BOOLEAN
    /\ reset \in BOOLEAN
    /\ writable \in BOOLEAN
    /\ fresh \subseteq Buffers
    /\ accepted \in Seq(Buffers)
    /\ nested \subseteq Buffers
    /\ sent \in Seq(Buffers \X (1 .. BufferSize))
    /\ completed \in Seq(Buffers)

(* How many of the first i bytes that were taken are bytes of b. *)
TakenOf(b, i) == Cardinality({j \in 1 .. i : sent[j][1] = b})
SentOf(b) == TakenOf(b, Len(sent))

(* The peer gets the bytes of each buffer from its first one on, in order  *)
(* and each once, and buffers in the order in which they were accepted.    *)
InOrder ==
    /\ \A i \in DOMAIN sent : sent[i][2] = TakenOf(sent[i][1], i)
    /\ \A i, j \in DOMAIN sent :
           i <= j => \E k, l \in DOMAIN accepted :
                         k <= l /\ accepted[k] = sent[i][1] /\ accepted[l] = sent[j][1]

(* What the peer gets is in order, each buffer is accepted once, and all   *)
(* of them but the last are whole, except for buffers that a completion    *)
(* wrote, which WriteAll forgets when that completion returns.             *)
StreamIntact ==
    /\ InOrder
    /\ IsInjective(accepted)
    /\ \A k \in 1 .. Len(accepted) - 1 :
           accepted[k] \in nested \/ SentOf(accepted[k]) = BufferSize

(* While a buffer is pending the offset counts the bytes the kernel has of *)
(* it, and the completion that is kept is its own.                         *)
PendingAccounted ==
    m_pendingBuffer # NULL /\ frames = <<>> =>
        /\ m_uiPendingBufferOffset = SentOf(m_pendingBuffer)
        /\ m_uiPendingBufferOffset < BufferSize
        /\ m_fOnWriteComplete = m_pendingBuffer

(* A completion runs once, after the last byte of its buffer was taken.    *)
CompletedOnceSent ==
    /\ IsInjective(completed)
    /\ \A n \in DOMAIN completed : SentOf(completed[n]) = BufferSize

(* An accepted buffer completes once the peer stops sending, unless the    *)
(* descriptor is closed or an exception ends the process, or a completion  *)
(* wrote it: reading has priority, but it does not last.                   *)
AcceptedCompletes ==
    <>[](unread = 0) =>
        \A b \in Buffers :
            (b \in ToSet(accepted) \ nested)
                ~> (b \in ToSet(completed) \/ m_iFD = "none" \/ ~Running)

(* The end of the stream is never read: poll reports it as CLOSE, which is *)
(* handled before Read.                                                    *)
EndNeverRead == exception # "end of stream"
=============================================================================
