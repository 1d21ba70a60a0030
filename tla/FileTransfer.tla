----------------------------- MODULE FileTransfer -----------------------------
(***************************************************************************)
(* A session of the file server (FileTransferServer.cpp), the descriptor   *)
(* it writes to (AsyncFdIO) and the client at the other end                *)
(* (FileTransferClient.cpp).                                               *)
(*                                                                         *)
(* The main task of the server's loop sends each session the next chunk of *)
(* the file, which it reads into the one buffer of the session.  WriteAll  *)
(* keeps a pointer to that buffer as long as a part of the chunk is        *)
(* pending, so what the kernel takes later is what the buffer holds then:  *)
(* the history wire records the bytes as they were when they were taken.   *)
(*                                                                         *)
(* The buffers of AsyncFdIO are the chunks, counted from 1, and offsets    *)
(* count chunks.  TCP keeps the bytes in order; the client has those it    *)
(* has read.                                                               *)
(***************************************************************************)
EXTENDS AsyncFdIO

ASSUME FileAssumption ==
    /\ IsFiniteSet(Buffers)
    /\ Buffers = 1 .. Cardinality(Buffers)
    /\ ~NestedWrites

VARIABLES
    m_ullOffset,            \* how many chunks WriteAll has accepted
    m_bClosed,
    m_bInBackPressure,
    m_buffer,               \* the chunk in the session's buffer, or NULL
    wire,                   \* history: the bytes that the kernel has taken
    received,               \* how many of them the client has written to its file
    client,                 \* "running", "stopped" by OnClose, "failed", or "killed"
    preadFailed,            \* history: the session's chunk could not be read
    loopPc                  \* the server's loop: before "poll", or before the main "task"

sessionVars == <<m_ullOffset, m_bClosed, m_bInBackPressure, m_buffer>>
clientVars == <<received, client>>
transferVars == <<vars, sessionVars, wire, clientVars, preadFailed, loopPc>>

ullTotalFileBytes == Cardinality(Buffers)

File == [n \in 1 .. ullTotalFileBytes * BufferSize |->
            <<((n - 1) \div BufferSize) + 1, ((n - 1) % BufferSize) + 1>>]

TransferInit ==
    /\ Init
    /\ m_ullOffset = 0
    /\ m_bClosed = FALSE
    /\ m_bInBackPressure = FALSE
    /\ m_buffer = NULL
    /\ wire = <<>>
    /\ received = 0
    /\ client = "running"
    /\ preadFailed = FALSE
    /\ loopPc = "task"

(* The bytes that a step makes the kernel take come from the buffer. *)
TakeFromBuffer ==
    wire' = wire \o [n \in 1 .. Len(sent') - Len(sent) |-> <<m_buffer', sent'[Len(sent) + n][2]>>]
-----------------------------------------------------------------------------
(* distributeFileTask runs at the end of an iteration. *)
TaskRuns ==
    /\ Running
    /\ loopPc = "task"
    /\ revents = {}
    /\ frames = <<>>
    /\ loopPc' = "poll"

(* Mutant: the last chunk is forgotten. *)
CloseSessionEarly ==
    /\ TaskRuns
    /\ m_ullOffset + 1 >= ullTotalFileBytes
    /\ ~m_bClosed
    /\ m_bClosed' = TRUE
    /\ m_iFD' = "none"
    /\ UNCHANGED <<pendingVars, frames, revents, exception, peerVars, writable, historyVars,
                   m_ullOffset, m_bInBackPressure, m_buffer, wire, clientVars, preadFailed>>

(* The whole file has been accepted: the connection is closed after a      *)
(* second, whatever is still pending.  Close does nothing if the client    *)
(* has gone.                                                               *)
CloseSession ==
    /\ TaskRuns
    /\ m_ullOffset >= ullTotalFileBytes
    /\ ~m_bClosed
    /\ m_bClosed' = TRUE
    /\ Close \/ (m_iFD = "none" /\ UNCHANGED vars)
    /\ UNCHANGED <<m_ullOffset, m_bInBackPressure, m_buffer, wire, clientVars, preadFailed>>

(* Mutant: a chunk counts as sent whatever WriteAll returns, and none is   *)
(* waited for.                                                             *)
SendChunkCountsRefused ==
    /\ TaskRuns
    /\ m_ullOffset < ullTotalFileBytes
    /\ m_buffer' = m_ullOffset + 1
    /\ WriteAll(m_ullOffset + 1)
    /\ m_ullOffset' = m_ullOffset + 1
    /\ TakeFromBuffer
    /\ UNCHANGED <<m_bClosed, m_bInBackPressure, clientVars, preadFailed>>

(* Mutant: a chunk is read whether or not the last one is pending. *)
SendChunkAnyway ==
    /\ TaskRuns
    /\ m_ullOffset < ullTotalFileBytes
    /\ m_buffer' = m_ullOffset + 1
    /\ WriteAll(m_ullOffset + 1)
    /\ m_bInBackPressure' = TRUE
    /\ m_ullOffset' = IF accepted' # accepted THEN m_ullOffset + 1 ELSE m_ullOffset
    /\ TakeFromBuffer
    /\ UNCHANGED <<m_bClosed, clientVars, preadFailed>>

(* The next chunk is read and written, unless the last one is pending. *)
SendChunk ==
    /\ TaskRuns
    /\ m_ullOffset < ullTotalFileBytes
    /\ ~m_bInBackPressure
    /\ m_buffer' = m_ullOffset + 1
    /\ WriteAll(m_ullOffset + 1)
    /\ m_bInBackPressure' = TRUE
    /\ m_ullOffset' = IF accepted' # accepted THEN m_ullOffset + 1 ELSE m_ullOffset
    /\ TakeFromBuffer
    /\ UNCHANGED <<m_bClosed, clientVars, preadFailed>>

(* pread fails: back-pressure is recorded all the same, and nothing will   *)
(* ever clear it.                                                          *)
PreadFails ==
    /\ TaskRuns
    /\ m_ullOffset < ullTotalFileBytes
    /\ ~m_bInBackPressure
    /\ m_bInBackPressure' = TRUE
    /\ preadFailed' = TRUE
    /\ UNCHANGED <<vars, m_ullOffset, m_bClosed, m_buffer, wire, clientVars>>

(* The session is finished, or waits for the completion of a chunk. *)
SkipSession ==
    /\ TaskRuns
    /\ IF m_ullOffset >= ullTotalFileBytes THEN m_bClosed ELSE m_bInBackPressure
    /\ UNCHANGED <<vars, sessionVars, wire, clientVars, preadFailed>>

(* Mutant: the completion forgets to clear the flag. *)
CompletionDoesNothing ==
    /\ CompletionReturns
    /\ UNCHANGED <<sessionVars, wire, clientVars, preadFailed, loopPc>>

(* The completion of a chunk clears the flag. *)
ChunkCompletes ==
    /\ CompletionReturns
    /\ m_bInBackPressure' = FALSE
    /\ UNCHANGED <<m_ullOffset, m_bClosed, m_buffer, wire, clientVars, preadFailed, loopPc>>

(* The rest of an iteration.  OnClose only writes to the terminal. *)
PollSession ==
    /\ loopPc = "poll"
    /\ Poll \/ (Running /\ frames = <<>> /\ m_iFD = "none" /\ UNCHANGED vars)
    /\ loopPc' = "task"
    /\ UNCHANGED <<sessionVars, wire, clientVars, preadFailed>>

HandleSession ==
    /\ HandleEventReady
    /\ UNCHANGED <<sessionVars, clientVars, preadFailed, loopPc>>
    /\ TakeFromBuffer
-----------------------------------------------------------------------------
(* The server has closed the connection, or has ended. *)
ServerGone == m_iFD = "none" \/ ~Running

(* onRead: the client appends some of the bytes to its file, which gives   *)
(* the server's kernel room again.                                         *)
ClientReads(n) ==
    /\ client = "running"
    /\ ~(HangupOnFin /\ ServerGone)
    /\ n \in 1 .. Len(wire) - received
    /\ received' = received + n
    /\ writable' = TRUE
    /\ UNCHANGED <<m_iFD, pendingVars, frames, revents, exception, peerVars, historyVars,
                   sessionVars, wire, client, preadFailed, loopPc>>

(* onClose stops the client's loop.  POLLHUP comes before the bytes that   *)
(* have not been read.  Without POLLHUP the client reads to the end of the *)
(* stream, and throws.                                                     *)
ClientNoticesEnd ==
    /\ client = "running"
    /\ ServerGone
    /\ HangupOnFin \/ received = Len(wire)
    /\ client' = IF HangupOnFin THEN "stopped" ELSE "failed"
    /\ UNCHANGED <<vars, sessionVars, wire, received, preadFailed, loopPc>>

(* The client is killed; its kernel may reset the connection then. *)
ClientKilled ==
    /\ client = "running"
    /\ client' = "killed"
    /\ PeerShutsDown
    /\ UNCHANGED <<sessionVars, wire, received, preadFailed, loopPc>>

ClientResets ==
    /\ client # "running"
    /\ PeerResets
    /\ UNCHANGED <<sessionVars, wire, clientVars, preadFailed, loopPc>>
-----------------------------------------------------------------------------
DistributeFileTask ==
    \/ CloseSession
    \/ SendChunk
    \/ PreadFails
    \/ SkipSession

ClientStep ==
    \/ \E n \in 1 .. BufferSize : ClientReads(n)
    \/ ClientNoticesEnd

TransferNext ==
    \/ DistributeFileTask
    \/ ChunkCompletes
    \/ PollSession
    \/ HandleSession
    \/ ClientStep
    \/ ClientKilled
    \/ ClientResets

TransferSpec == TransferInit /\ [][TransferNext]_transferVars

(* Both loops go on: the server's polls, dispatches and runs its main      *)
(* task, the client's reads.  Nobody need kill the client.                 *)
FairTransferSpec ==
    /\ TransferSpec
    /\ WF_transferVars(DistributeFileTask)
    /\ WF_transferVars(ChunkCompletes)
    /\ WF_transferVars(PollSession)
    /\ WF_transferVars(HandleSession)
    /\ WF_transferVars(ClientStep)
-----------------------------------------------------------------------------
(* The types of the session, the wire and the client. *)
TransferTypeOK ==
    /\ TypeOK
    /\ m_ullOffset \in 0 .. ullTotalFileBytes
    /\ m_bClosed \in BOOLEAN
    /\ m_bInBackPressure \in BOOLEAN
    /\ m_buffer \in Buffers \cup {NULL}
    /\ wire \in Seq(Buffers \X (1 .. BufferSize))
    /\ received \in 0 .. Len(wire)
    /\ client \in {"running", "stopped", "failed", "killed"}
    /\ preadFailed \in BOOLEAN
    /\ loopPc \in {"poll", "task"}

(* The client's file is a growing prefix of the server's: the one buffer   *)
(* of a session is not read into while a part of it is pending             *)
(* (FileTransferServer.cpp:112), and no chunk is skipped or sent twice.    *)
Copy == INSTANCE FileCopy WITH copy <- SubSeq(wire, 1, received), over <- client # "running"
ImplementsFileCopy == Copy!Spec

(* A session that is closed as finished has sent every chunk but the last  *)
(* one as a whole; of the last chunk the part that was pending is lost, as *)
(* CloseSession does not wait for it.                                      *)
OnlyLastChunkCut ==
    m_bClosed =>
        /\ Len(wire) >= Len(File) - BufferSize
        /\ Len(wire) < Len(File) => m_pendingBuffer = ullTotalFileBytes

(* The server fails in a write only for a client that has gone: it never   *)
(* writes to a connection that it has closed itself.                       *)
FailsForGoneClient == exception \in {"write", "read", "end of stream"} => client # "running"

(* The client has gone while a chunk was pending: its completion will      *)
(* never clear the flag, and the session is skipped for ever.              *)
Stuck == m_iFD = "none" /\ m_pendingBuffer # NULL

(* A session comes to its end and the client notices, unless pread has     *)
(* failed, which leaves the flag set as well, or the server has ended.     *)
SessionEnds ==
    /\ <>[](~Running \/ m_bClosed \/ Stuck \/ preadFailed)
    /\ <>(client # "running" \/ preadFailed)
=============================================================================
