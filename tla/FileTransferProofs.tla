-------------------------- MODULE FileTransferProofs --------------------------
(***************************************************************************)
(* Proofs about a session of the file server, for files and chunks of any  *)
(* size: the client's file is always a prefix of the server's, which is    *)
(* the refinement of FileCopy; what a finished session has sent; and whose *)
(* fault an exception is.  A session is a descriptor (AsyncFdIOProofs)     *)
(* whose application is the main task.                                     *)
(***************************************************************************)
EXTENDS FileTransfer, AsyncFdIOProofs

(* Quotient and remainder are the only ones. *)
LEMMA Distribute ==
    ASSUME NEW n \in Int, NEW p \in Int, NEW q \in Int
    PROVE  n * p - n * q = n * (p - q)
  OBVIOUS

LEMMA OnlyQuotient ==
    ASSUME NEW n \in Nat \ {0}, NEW x \in Nat, NEW q \in Int, NEW r \in 0 .. n - 1,
           x = n * q + r
    PROVE  x \div n = q /\ x % n = r
  <1> DEFINE k == x \div n
             m == x % n
  <1>1. x = n * k + m /\ k \in Int /\ m \in 0 .. n - 1
    OBVIOUS
  <1> HIDE DEF k, m
  <1> DEFINE a == n * k
             b == n * q
             c == n * (k - q)
             d == n * (q - k)
  <1>2. a - b = c /\ b - a = d /\ a \in Int /\ b \in Int
    BY <1>1, Distribute
  <1>3. k - q >= 1 => c >= n
    <2>1. k - q >= 1 => n * (k - q) >= n * 1
      BY <1>1
    <2> QED  BY <2>1
  <1>4. q - k >= 1 => d >= n
    <2>1. q - k >= 1 => n * (q - k) >= n * 1
      BY <1>1
    <2> QED  BY <2>1
  <1>5. a + m = b + r
    BY <1>1
  <1> HIDE DEF a, b, c, d
  <1>6. k = q
    BY <1>1, <1>2, <1>3, <1>4, <1>5
  <1>7. m = r
    BY <1>1, <1>2, <1>5, <1>6 DEF a, b
  <1> QED  BY <1>6, <1>7 DEF k, m

LEMMA Sizes ==
    /\ ullTotalFileBytes \in Nat
    /\ Buffers = 1 .. ullTotalFileBytes
    /\ BufferSize \in Nat \ {0}
    /\ NULL \notin Buffers
  BY FileAssumption, FdAssumption, FS_CardinalityType DEF ullTotalFileBytes

(* How many bytes come before the chunk that follows the first k. *)
Start(k) == BufferSize * k

LEMMA StartIsNat ==
    ASSUME NEW k \in Nat
    PROVE  Start(k) \in Nat /\ Start(k + 1) = Start(k) + BufferSize
  <1>1. BufferSize \in Nat
    BY Sizes
  <1>2. BufferSize * (k + 1) - BufferSize * k = BufferSize * (k + 1 - k)
    BY <1>1, Distribute
  <1>3. k + 1 - k = 1 /\ BufferSize * 1 = BufferSize
    BY <1>1
  <1>4. BufferSize * k \in Nat /\ BufferSize * (k + 1) \in Nat
    BY <1>1
  <1> HIDE DEF Start
  <1>5. BufferSize * (k + 1) - BufferSize * k = BufferSize
    BY <1>2, <1>3
  <1>6. Start(k) = BufferSize * k /\ Start(k + 1) = BufferSize * (k + 1)
    BY DEF Start
  <1> QED  BY <1>1, <1>4, <1>5, <1>6

LEMMA FileIsSeq ==
    /\ Len(File) = Start(ullTotalFileBytes) /\ Len(File) \in Nat
    /\ DOMAIN File = 1 .. Len(File)
    /\ File \in Seq(SentBytes)
  <1> DEFINE total == ullTotalFileBytes * BufferSize
  <1>1. /\ ullTotalFileBytes \in Nat /\ BufferSize \in Nat \ {0}
        /\ Buffers = 1 .. ullTotalFileBytes
    BY Sizes
  <1>2. total \in Nat /\ total = Start(ullTotalFileBytes)
    BY <1>1 DEF Start
  <1>3. ASSUME NEW n \in 1 .. total
        PROVE  <<((n - 1) \div BufferSize) + 1, ((n - 1) % BufferSize) + 1>> \in SentBytes
    <2> DEFINE q == (n - 1) \div BufferSize
               r == (n - 1) % BufferSize
    <2>1. n - 1 \in Nat /\ n - 1 < total
      BY <1>2
    <2>2. n - 1 = BufferSize * q + r /\ q \in Nat /\ r \in 0 .. BufferSize - 1
      BY <1>1, <2>1
    <2> HIDE DEF q, r
    <2>3. BufferSize * q < BufferSize * ullTotalFileBytes
      <3>1. BufferSize * q \in Nat /\ total = BufferSize * ullTotalFileBytes
        BY <1>1, <2>2
      <3> HIDE DEF total
      <3> QED  BY <2>1, <2>2, <3>1, <1>1
    <2>4. q < ullTotalFileBytes
      <3>1. BufferSize * q - BufferSize * ullTotalFileBytes = BufferSize * (q - ullTotalFileBytes)
        BY <1>1, <2>2, Distribute
      <3>2. BufferSize * (q - ullTotalFileBytes) < 0
        <4> DEFINE a == BufferSize * q
                   b == BufferSize * ullTotalFileBytes
        <4>1. a \in Nat /\ b \in Nat
          BY <1>1, <2>2
        <4> HIDE DEF a, b
        <4>2. a < b /\ a - b = BufferSize * (q - ullTotalFileBytes)
          BY <2>3, <3>1 DEF a, b
        <4> QED  BY <4>1, <4>2
      <3>3. q - ullTotalFileBytes \in Int
        BY <1>1, <2>2
      <3>4. q - ullTotalFileBytes >= 0 => BufferSize * (q - ullTotalFileBytes) >= 0
        BY <1>1, <3>3
      <3> QED  BY <1>1, <2>2, <3>2, <3>3, <3>4
    <2>5. q + 1 \in Buffers /\ r + 1 \in 1 .. BufferSize
      BY <1>1, <2>2, <2>4
    <2> QED  BY <2>5 DEF q, r, SentBytes
  <1>4. File \in [1 .. total -> SentBytes]
    BY <1>3 DEF File
  <1> HIDE DEF total
  <1>5. File \in Seq(SentBytes) /\ Len(File) = total
    BY <1>2, <1>4, SeqOfFunction
  <1> QED  BY <1>2, <1>5, LenProperties

(* What the file holds at a position of a chunk. *)
LEMMA FileAt ==
    ASSUME NEW k \in Nat, k < ullTotalFileBytes, NEW j \in 1 .. BufferSize
    PROVE  Start(k) + j \in 1 .. Len(File) /\ File[Start(k) + j] = <<k + 1, j>>
  <1> DEFINE x == Start(k) + (j - 1)
  <1>1. /\ ullTotalFileBytes \in Nat /\ BufferSize \in Nat \ {0}
        /\ j - 1 \in 0 .. BufferSize - 1
    BY Sizes
  <1>2. Start(k) \in Nat /\ x \in Nat /\ x = BufferSize * k + (j - 1)
    <2>1. Start(k) \in Nat
      BY StartIsNat
    <2> QED  BY <1>1, <2>1 DEF Start
  <1> HIDE DEF x
  <1>3. x % BufferSize = j - 1 /\ x \div BufferSize = k
    <2>1. k \in Int
      OBVIOUS
    <2>2. PICK r \in 0 .. BufferSize - 1 : r = j - 1
      BY <1>1
    <2>3. x = BufferSize * k + r
      BY <1>2, <2>2
    <2>4. x % BufferSize = r /\ x \div BufferSize = k
      BY <1>1, <1>2, <2>1, <2>3, OnlyQuotient
    <2> QED  BY <2>2, <2>4
  <1>4. Start(k) + j \in 1 .. Len(File)
    <2>1. Start(k + 1) = Start(k) + BufferSize
      BY StartIsNat
    <2>2. Start(k + 1) <= Start(ullTotalFileBytes)
      <3> DEFINE d == ullTotalFileBytes - (k + 1)
      <3>1. d \in Nat /\ k + 1 \in Nat
        BY <1>1
      <3>2. BufferSize * ullTotalFileBytes - BufferSize * (k + 1) = BufferSize * d
        BY <1>1, <3>1, Distribute
      <3>3. BufferSize * d \in Nat /\ BufferSize * ullTotalFileBytes \in Nat /\ BufferSize * (k + 1) \in Nat
        BY <1>1, <3>1
      <3> DEFINE a == BufferSize * ullTotalFileBytes
                 b == BufferSize * (k + 1)
                 c == BufferSize * d
      <3>4. a \in Nat /\ b \in Nat /\ c \in Nat /\ a - b = c
        BY <3>2, <3>3
      <3> HIDE DEF a, b, c
      <3>5. b <= a
        BY <3>4
      <3> QED  BY <3>5 DEF a, b, Start
    <2> QED  BY <1>1, <1>2, <2>1, <2>2, FileIsSeq
  <1>5. (Start(k) + j) - 1 = x
    BY <1>1, <1>2 DEF x
  <1>6. File[Start(k) + j] = <<(((Start(k) + j) - 1) \div BufferSize) + 1, (((Start(k) + j) - 1) % BufferSize) + 1>>
    <2>1. Start(k) + j \in 1 .. ullTotalFileBytes * BufferSize
      <3>1. Start(ullTotalFileBytes) = ullTotalFileBytes * BufferSize
        BY <1>1 DEF Start
      <3> QED  BY <1>4, <3>1, FileIsSeq
    <2>2. \A y \in 1 .. ullTotalFileBytes * BufferSize :
              File[y] = <<((y - 1) \div BufferSize) + 1, ((y - 1) % BufferSize) + 1>>
      BY Zenon DEF File
    <2> QED  BY <2>1, <2>2, Zenon
  <1>7. j - 1 + 1 = j
    BY <1>1
  <1> QED  BY <1>3, <1>4, <1>5, <1>6, <1>7
-----------------------------------------------------------------------------
(* What the kernel takes in a step comes from the session's buffer. *)
LEMMA WireGrows ==
    ASSUME sent \in Seq(SentBytes), wire \in Seq(SentBytes),
           NEW b \in Buffers, NEW k \in Nat, NEW n \in Nat, k + n <= BufferSize,
           Take(b, k, n), m_buffer' = b, TakeFromBuffer
    PROVE  /\ wire' \in Seq(SentBytes) /\ Len(wire') = Len(wire) + n
           /\ \A j \in 1 .. Len(wire) : wire'[j] = wire[j]
           /\ \A j \in 1 .. n : wire'[Len(wire) + j] = <<b, k + j>>
  <1> DEFINE more == [j \in 1 .. n |-> <<b, k + j>>]
  <1>1. /\ Len(sent') = Len(sent) + n /\ Len(sent) \in Nat /\ Len(wire) \in Nat
        /\ \A j \in Len(sent) + 1 .. Len(sent) + n : sent'[j] = <<b, (k + j) - Len(sent)>>
    <2>1. \A j \in Len(sent) + 1 .. Len(sent) + n : sent'[j] = <<b, k + j - Len(sent)>>
      BY TakeType
    <2>2. Len(sent') = Len(sent) + n /\ Len(sent) \in Nat /\ Len(wire) \in Nat
      BY TakeType, LenProperties
    <2>3. \A j \in Len(sent) + 1 .. Len(sent) + n : k + j - Len(sent) = (k + j) - Len(sent)
      BY <2>2
    <2> QED  BY <2>1, <2>2, <2>3
  <1>2. Len(sent') - Len(sent) = n
    BY <1>1
  <1>3. \A j \in 1 .. n : sent'[Len(sent) + j][2] = k + j
    <2> SUFFICES ASSUME NEW j \in 1 .. n PROVE sent'[Len(sent) + j][2] = k + j
      OBVIOUS
    <2>1. Len(sent) + j \in Len(sent) + 1 .. Len(sent) + n /\ (k + (Len(sent) + j)) - Len(sent) = k + j
      BY <1>1
    <2>2. sent'[Len(sent) + j] = <<b, (k + (Len(sent) + j)) - Len(sent)>>
      BY <1>1, <2>1
    <2> QED  BY <2>1, <2>2
  <1>4. wire' = wire \o more
    BY <1>2, <1>3 DEF TakeFromBuffer
  <1>5. more \in [1 .. n -> SentBytes]
    <2>1. \A j \in 1 .. n : k + j \in 1 .. BufferSize
      BY Sizes
    <2> QED  BY <2>1 DEF SentBytes
  <1>6. \A j \in 1 .. n : more[j] = <<b, k + j>>
    OBVIOUS
  <1> HIDE DEF more
  <1>7. more \in Seq(SentBytes) /\ Len(more) = n
    BY <1>5, SeqOfFunction
  <1>8. /\ wire' \in Seq(SentBytes) /\ Len(wire') = Len(wire) + n
        /\ \A j \in 1 .. Len(wire) + n : wire'[j] = IF j <= Len(wire) THEN wire[j] ELSE more[j - Len(wire)]
    BY <1>4, <1>7, ConcatProperties
  <1>9. \A j \in 1 .. n : /\ Len(wire) + j \in 1 .. Len(wire) + n /\ ~(Len(wire) + j <= Len(wire))
                          /\ (Len(wire) + j) - Len(wire) = j
    BY <1>1
  <1>10. \A j \in 1 .. Len(wire) : j \in 1 .. Len(wire) + n /\ j <= Len(wire)
    BY <1>1
  <1> QED  BY <1>6, <1>8, <1>9, <1>10

LEMMA WireStays ==
    ASSUME wire \in Seq(SentBytes), sent \in Seq(SentBytes), sent' = sent, TakeFromBuffer
    PROVE  wire' = wire
  <1> DEFINE none == [j \in 1 .. Len(sent') - Len(sent) |-> <<m_buffer', sent'[Len(sent) + j][2]>>]
  <1>1. Len(sent') - Len(sent) = 0
    BY LenProperties
  <1>2. none \in [1 .. 0 -> SentBytes]
    BY <1>1
  <1>3. wire' = wire \o none
    BY DEF TakeFromBuffer
  <1> HIDE DEF none
  <1>4. none \in Seq(SentBytes) /\ Len(none) = 0
    BY <1>2, SeqOfFunction
  <1>5. none = <<>>
    BY <1>4, EmptySeq
  <1> QED  BY <1>3, <1>5, ConcatEmptySeq

WireIsFile ==
    /\ wire \in Seq(SentBytes)
    /\ Len(wire) <= Len(File)
    /\ \A n \in 1 .. Len(wire) : wire[n] = File[n]

(* The next bytes of chunk k + 1 follow those that the wire has. *)
LEMMA WireStaysFile ==
    ASSUME WireIsFile, sent \in Seq(SentBytes), NEW k \in Nat, k < ullTotalFileBytes,
           NEW offset \in Nat, NEW n \in Nat, offset + n <= BufferSize,
           Len(wire) = Start(k) + offset,
           Take(k + 1, offset, n), m_buffer' = k + 1, TakeFromBuffer
    PROVE  WireIsFile' /\ Len(wire') = Start(k) + (offset + n)
  <1>1. k + 1 \in Buffers /\ Start(k) \in Nat /\ Len(wire) \in Nat /\ BufferSize \in Nat
    BY Sizes, StartIsNat, LenProperties DEF WireIsFile
  <1>2. /\ wire' \in Seq(SentBytes) /\ Len(wire') = Len(wire) + n
        /\ \A j \in 1 .. Len(wire) : wire'[j] = wire[j]
        /\ \A j \in 1 .. n : wire'[Len(wire) + j] = <<k + 1, offset + j>>
    BY <1>1, WireGrows DEF WireIsFile
  <1>3. \A j \in 1 .. n : /\ offset + j \in 1 .. BufferSize
                          /\ Start(k) + (offset + j) = Len(wire) + j
    BY <1>1
  <1>4. \A j \in 1 .. n : Len(wire) + j \in 1 .. Len(File) /\ File[Len(wire) + j] = <<k + 1, offset + j>>
    BY <1>3, FileAt
  <1>5. Len(wire') <= Len(File)
    <2>1. CASE n = 0
      BY <1>1, <1>2, <2>1 DEF WireIsFile
    <2>2. CASE n # 0
      <3>1. n \in 1 .. n
        BY <2>2
      <3>2. Len(wire) + n \in 1 .. Len(File)
        BY <1>4, <3>1
      <3> QED  BY <1>2, <3>2, FileIsSeq
    <2> QED  BY <2>1, <2>2
  <1>6. ASSUME NEW m \in 1 .. Len(wire')
        PROVE  wire'[m] = File[m]
    <2>1. m \in 1 .. Len(wire) \/ (m - Len(wire) \in 1 .. n /\ Len(wire) + (m - Len(wire)) = m)
      <3> DEFINE l == Len(wire)
      <3>1. l \in Nat /\ m \in 1 .. l + n
        BY <1>1, <1>2
      <3> HIDE DEF l
      <3>2. m \in 1 .. l \/ (m - l \in 1 .. n /\ l + (m - l) = m)
        BY <3>1
      <3> QED  BY <3>2 DEF l
    <2>2. CASE m \in 1 .. Len(wire)
      BY <1>2, <2>2 DEF WireIsFile
    <2>3. CASE m - Len(wire) \in 1 .. n /\ Len(wire) + (m - Len(wire)) = m
      <3> DEFINE j == m - Len(wire)
      <3>1. j \in 1 .. n /\ Len(wire) + j = m
        BY <2>3
      <3> HIDE DEF j
      <3> QED  BY <1>2, <1>4, <3>1
    <2> QED  BY <2>1, <2>2, <2>3
  <1>7. Len(wire') = Start(k) + (offset + n)
    BY <1>1, <1>2
  <1> QED  BY <1>2, <1>5, <1>6, <1>7 DEF WireIsFile
-----------------------------------------------------------------------------
(* A pending chunk is the last one accepted, and still in the buffer. *)
BufferHeld == m_pendingBuffer # NULL => m_pendingBuffer = m_ullOffset /\ m_buffer = m_ullOffset

(* The flag covers the time from WriteAll to the end of the completion. *)
Pressure == ~m_bInBackPressure => m_pendingBuffer = NULL /\ frames = <<>>

(* The wire has the accepted chunks, except for what is pending. *)
WireLength ==
    Running => Len(wire) = IF m_pendingBuffer # NULL /\ frames = <<>>
                           THEN Start(m_ullOffset - 1) + m_uiPendingBufferOffset
                           ELSE Start(m_ullOffset)

WireInv ==
    /\ m_ullOffset \in 0 .. ullTotalFileBytes
    /\ m_bInBackPressure \in BOOLEAN
    /\ m_buffer \in Buffers \cup {NULL}
    /\ Len(frames) <= 1
    /\ WireIsFile
    /\ BufferHeld
    /\ Pressure
    /\ WireLength

(* A finished session is left alone. *)
Closed ==
    m_bClosed =>
        /\ m_ullOffset = ullTotalFileBytes
        /\ m_iFD = "none"
        /\ revents = {} /\ frames = <<>>
        /\ Running

(* Hang-ups come from a client that has gone, and errors from hang-ups. *)
GoneClient ==
    /\ unread = 0
    /\ fin \/ reset => client # "running"
    /\ revents \cap {"CLOSE", "Read"} # {} => client # "running"
    /\ m_iFD = "none" => m_bClosed \/ client # "running"
    /\ FailsForGoneClient

ClientInv ==
    /\ m_bClosed \in BOOLEAN
    /\ preadFailed \in BOOLEAN
    /\ received \in 0 .. Len(wire)
    /\ client \in {"running", "stopped", "failed", "killed"}
    /\ loopPc \in {"poll", "task"}
    /\ Closed
    /\ GoneClient

TInv ==
    /\ Typed
    /\ WireInv
    /\ ClientInv

(* The descriptor of a session takes the steps of AsyncFdIO only. *)
LEMMA DescriptorStep ==
    ASSUME TInv, [TransferNext]_transferVars
    PROVE  [Next]_vars
  <1>1. CASE SendChunk
    <2>1. WriteAll(m_ullOffset + 1)
      BY <1>1 DEF SendChunk
    <2>2. m_ullOffset + 1 \in Buffers
      BY <1>1, Sizes DEF SendChunk, TInv, WireInv
    <2> QED  BY <2>1, <2>2 DEF Next
  <1>2. CASE ChunkCompletes \/ HandleSession \/ ClientKilled \/ ClientResets
    BY <1>2 DEF ChunkCompletes, HandleSession, ClientKilled, ClientResets, Next
  <1>3. CASE CloseSession \/ PollSession
    BY <1>3 DEF CloseSession, PollSession, Next
  <1>4. CASE PreadFails \/ SkipSession \/ ClientNoticesEnd \/ UNCHANGED transferVars
    BY <1>4 DEF PreadFails, SkipSession, ClientNoticesEnd, transferVars
  <1>5. ASSUME NEW n \in 1 .. BufferSize, ClientReads(n)
        PROVE  [Next]_vars
    <2>1. /\ writable' = TRUE
          /\ UNCHANGED <<m_iFD, pendingVars, frames, revents, exception, peerVars, historyVars>>
      BY <1>5 DEF ClientReads
    <2>2. CASE writable
      <3>1. writable \in BOOLEAN
        BY Zenon DEF TInv, Typed, TypeOK
      <3> QED  BY <2>1, <2>2, <3>1 DEF vars
    <2>3. CASE ~writable
      BY <2>1, <2>3 DEF PeerReads, Next
    <2> QED  BY <2>2, <2>3
  <1> QED  BY <1>1, <1>2, <1>3, <1>4, <1>5 DEF TransferNext, DistributeFileTask, ClientStep

LEMMA InitTInv == TransferInit => TInv
  <1> SUFFICES ASSUME TransferInit PROVE TInv
    OBVIOUS
  <1>1. Init
    BY DEF TransferInit
  <1>2. Typed
    BY <1>1, InitTyped
  <1>3. /\ m_ullOffset = 0 /\ m_bClosed = FALSE /\ m_bInBackPressure = FALSE /\ m_buffer = NULL
        /\ wire = <<>> /\ received = 0 /\ client = "running" /\ preadFailed = FALSE /\ loopPc = "task"
        /\ frames = <<>> /\ m_pendingBuffer = NULL /\ unread = 0 /\ ~fin /\ ~reset /\ revents = {}
        /\ m_iFD = "open" /\ exception = "none"
    BY <1>1 DEF TransferInit, Init
  <1>4. WireInv
    <2>1. Start(0) = 0
      BY Sizes DEF Start
    <2>2. WireIsFile
      <3>1. Len(File) \in Nat
        BY FileIsSeq
      <3> QED  BY <1>3, <3>1 DEF WireIsFile
    <2>3. 0 \in 0 .. ullTotalFileBytes
      BY Sizes
    <2>4. BufferHeld /\ Pressure
      BY <1>3 DEF BufferHeld, Pressure
    <2>5. Len(wire) = 0 /\ Len(frames) <= 1
      BY <1>3
    <2>6. WireLength
      BY <1>3, <2>1, <2>5 DEF WireLength
    <2>7. m_ullOffset \in 0 .. ullTotalFileBytes
      BY <1>3, <2>3
    <2>8. m_bInBackPressure \in BOOLEAN /\ m_buffer \in Buffers \cup {NULL}
      BY <1>3
    <2> QED  BY <2>2, <2>4, <2>5, <2>6, <2>7, <2>8, Zenon DEF WireInv
  <1>5. Closed
    BY <1>3, Zenon DEF Closed
  <1>6. GoneClient
    <2>1. FailsForGoneClient
      BY <1>3 DEF FailsForGoneClient
    <2> QED  BY <1>3, <2>1 DEF GoneClient
  <1>7. received \in 0 .. Len(wire) /\ loopPc \in {"poll", "task"}
        /\ client \in {"running", "stopped", "failed", "killed"}
    BY <1>3
  <1>8. ClientInv
    BY <1>3, <1>5, <1>6, <1>7, Zenon DEF ClientInv
  <1> QED  BY <1>2, <1>4, <1>8 DEF TInv

(* What a step of the session does to the wire. *)
LEMMA SameWire ==
    ASSUME TInv, wire' = wire
    PROVE  WireIsFile'
  <1>1. WireIsFile
    BY DEF TInv, WireInv
  <1> QED  BY <1>1 DEF WireIsFile

LEMMA QuietWire ==
    ASSUME TInv, UNCHANGED <<m_ullOffset, m_buffer, m_pendingBuffer, m_uiPendingBufferOffset, frames, wire>>,
           m_bInBackPressure' = m_bInBackPressure \/ m_bInBackPressure' = TRUE, Running' => Running
    PROVE  WireInv'
  <1>1. /\ m_ullOffset' \in 0 .. ullTotalFileBytes /\ m_buffer' \in Buffers \cup {NULL}
        /\ Len(frames') <= 1
    BY DEF TInv, WireInv
  <1>2. m_bInBackPressure' \in BOOLEAN
    BY Zenon DEF TInv, WireInv
  <1>3. BufferHeld'
    BY DEF TInv, WireInv, BufferHeld
  <1>4. Pressure'
    BY Zenon DEF TInv, WireInv, Pressure
  <1>5. WireLength'
    <2>1. CASE Running'
      <3>1. WireLength /\ Running
        BY <2>1 DEF TInv, WireInv
      <3> QED  BY <3>1 DEF WireLength
    <2> QED  BY <2>1 DEF WireLength
  <1> QED  BY <1>1, <1>2, <1>3, <1>4, <1>5, SameWire DEF WireInv

LEMMA EndsWire ==
    ASSUME TInv, UNCHANGED <<m_ullOffset, wire>>, m_pendingBuffer' = NULL, Len(frames') <= 1,
           m_bInBackPressure' \in BOOLEAN, m_buffer' \in Buffers \cup {NULL},
           ~Running', m_bInBackPressure' \/ frames' = <<>>
    PROVE  WireInv'
  <1>1. m_ullOffset' \in 0 .. ullTotalFileBytes
    BY DEF TInv, WireInv
  <1>2. BufferHeld'
    BY DEF BufferHeld
  <1>3. Pressure'
    BY DEF Pressure
  <1>4. WireLength'
    BY DEF WireLength
  <1> QED  BY <1>1, <1>2, <1>3, <1>4, SameWire DEF WireInv

LEMMA SendChunkWire ==
    ASSUME TInv, SendChunk
    PROVE  WireInv'
  <1> DEFINE b == m_ullOffset + 1
  <1>1. /\ m_ullOffset \in Nat /\ m_ullOffset < ullTotalFileBytes /\ b \in Buffers
        /\ b \in 1 .. ullTotalFileBytes /\ b - 1 = m_ullOffset
        /\ BufferSize \in Nat \ {0} /\ NULL \notin Buffers
    BY Sizes DEF SendChunk, TInv, WireInv
  <1>2. /\ frames = <<>> /\ Running /\ m_pendingBuffer = NULL
        /\ WriteAll(b) /\ m_buffer' = b /\ m_bInBackPressure' = TRUE
        /\ m_ullOffset' = IF accepted' # accepted THEN b ELSE m_ullOffset
        /\ TakeFromBuffer
    BY DEF SendChunk, TaskRuns, TInv, WireInv, Pressure
  <1>3. /\ WireIsFile /\ sent \in Seq(SentBytes) /\ accepted \in Seq(Buffers)
        /\ wire \in Seq(SentBytes)
        /\ Len(wire) = Start(m_ullOffset) /\ Start(m_ullOffset) \in Nat
        /\ Start(b) = Start(m_ullOffset) + BufferSize
    <2>1. sent \in Seq(SentBytes) /\ accepted \in Seq(Buffers)
      BY Zenon DEF TInv, Typed, TypeOK, SentBytes
    <2>2. WireIsFile /\ Len(wire) = Start(m_ullOffset)
      BY <1>2 DEF TInv, WireInv, WireLength
    <2> QED  BY <1>1, <2>1, <2>2, StartIsNat DEF WireIsFile
  <1>4. Accept(b) => accepted' # accepted
    BY <1>1, <1>3 DEF Accept
  <1>5. ASSUME NEW n \in 0 .. BufferSize, Take(b, 0, n)
        PROVE  WireIsFile' /\ Len(wire') = Start(m_ullOffset) + n
    <2>1. n \in Nat /\ 0 + n <= BufferSize /\ 0 + n = n /\ Len(wire) = Start(m_ullOffset) + 0
      BY <1>1, <1>3
    <2>2. Take(m_ullOffset + 1, 0, n) /\ m_buffer' = m_ullOffset + 1
      BY <1>2, <1>5
    <2>3. WireIsFile' /\ Len(wire') = Start(m_ullOffset) + (0 + n)
      <3>1. WireIsFile /\ sent \in Seq(SentBytes) /\ TakeFromBuffer
        BY <1>2, <1>3
      <3>2. 0 \in Nat
        OBVIOUS
      <3> QED  BY <1>1, <2>1, <2>2, <3>1, <3>2, WireStaysFile, Zenon
    <2> QED  BY <2>1, <2>3
  <1> HIDE DEF b
  <1>6. CASE WriteFails(b)
    <2>1. /\ UNCHANGED <<frames, sent, accepted>> /\ exception' = "write" /\ m_pendingBuffer' = NULL
      BY <1>6 DEF WriteFails, ResetPendingBuffer
    <2>2. wire' = wire /\ m_ullOffset' = m_ullOffset
      BY <1>2, <1>3, <2>1, WireStays
    <2>3. Len(frames') <= 1
      BY <1>2, <2>1
    <2> QED  BY <1>1, <1>2, <2>1, <2>2, <2>3, EndsWire DEF Running
  <1>7. CASE WriteBlocked(b)
    <2>1. /\ Accept(b) /\ SetPending(b, 0) /\ UNCHANGED <<frames, sent, exception>>
      BY <1>7 DEF WriteBlocked
    <2>2. wire' = wire /\ m_ullOffset' = b
      BY <1>2, <1>3, <1>4, <2>1, WireStays
    <2>3. WireIsFile'
      BY <1>3, <2>2 DEF WireIsFile
    <2>4. /\ m_pendingBuffer' = b /\ m_uiPendingBufferOffset' = 0 /\ frames' = <<>>
      BY <1>2, <2>1 DEF SetPending
    <2>5. Len(wire') = Start(b - 1) + 0
      BY <1>1, <1>3, <2>2
    <2>6. WireLength'
      BY <1>1, <2>2, <2>4, <2>5 DEF WireLength
    <2>7. b \in 0 .. ullTotalFileBytes /\ Len(frames') <= 1
      BY <1>1, <2>4
    <2> QED  BY <1>1, <1>2, <2>2, <2>3, <2>4, <2>6, <2>7 DEF WireInv, BufferHeld, Pressure
  <1>8. ASSUME NEW n \in 1 .. BufferSize, WritePartly(b, n)
        PROVE  WireInv'
    <2>1. /\ Accept(b) /\ SetPending(b, n) /\ Take(b, 0, n) /\ UNCHANGED <<frames, exception>>
      BY <1>8 DEF WritePartly
    <2>2. WireIsFile' /\ Len(wire') = Start(b - 1) + n
      BY <1>1, <1>5, <2>1
    <2>3. /\ m_pendingBuffer' = b /\ m_uiPendingBufferOffset' = n /\ frames' = <<>> /\ m_ullOffset' = b
      BY <1>2, <1>4, <2>1 DEF SetPending
    <2>4. WireLength'
      BY <1>1, <2>2, <2>3 DEF WireLength
    <2>5. b \in 0 .. ullTotalFileBytes /\ Len(frames') <= 1
      BY <1>1, <2>3
    <2> QED  BY <1>1, <1>2, <2>2, <2>3, <2>4, <2>5 DEF WireInv, BufferHeld, Pressure
  <1>9. CASE WriteWhole(b)
    <2>1. /\ Accept(b) /\ Take(b, 0, BufferSize) /\ m_pendingBuffer' = NULL
          /\ frames' = frames \/ frames' = Append(frames, b)
      BY <1>2, <1>9 DEF WriteWhole, Call
    <2>2. WireIsFile' /\ Len(wire') = Start(b)
      BY <1>1, <1>3, <1>5, <2>1
    <2>3. m_ullOffset' = b
      BY <1>2, <1>4, <2>1
    <2>4. WireLength'
      BY <2>1, <2>2, <2>3 DEF WireLength
    <2>5. b \in 0 .. ullTotalFileBytes /\ Len(frames') <= 1
      BY <1>1, <1>2, <2>1
    <2> QED  BY <1>1, <1>2, <2>1, <2>2, <2>3, <2>4, <2>5 DEF WireInv, BufferHeld, Pressure
  <1>10. CASE WriteRefused(b)
    BY <1>2, <1>10 DEF WriteRefused
  <1> QED  BY <1>2, <1>6, <1>7, <1>8, <1>9, <1>10 DEF WriteAll

LEMMA HandleSessionWire ==
    ASSUME TInv, HandleSession
    PROVE  WireInv'
  <1>1. /\ HandleEventReady /\ UNCHANGED <<m_ullOffset, m_bInBackPressure, m_buffer>> /\ TakeFromBuffer
    BY DEF HandleSession, sessionVars
  <1>2. /\ sent \in Seq(SentBytes) /\ wire \in Seq(SentBytes) /\ WireIsFile
        /\ m_pendingBuffer \in Buffers \cup {NULL}
        /\ m_uiPendingBufferOffset \in 0 .. BufferSize
        /\ m_ullOffset \in 0 .. ullTotalFileBytes
        /\ m_bInBackPressure \in BOOLEAN /\ m_buffer \in Buffers \cup {NULL}
        /\ Len(frames) <= 1
    <2>1. /\ sent \in Seq(SentBytes)
          /\ m_pendingBuffer \in Buffers \cup {NULL}
          /\ m_uiPendingBufferOffset \in 0 .. BufferSize
      BY Zenon DEF TInv, Typed, TypeOK, SentBytes
    <2> QED  BY <2>1 DEF TInv, WireInv, WireIsFile
  <1>3. CASE HandleClose \/ HandleReadEvent \/ NothingToWrite \/ WritePendingBlocked
    <2>1. UNCHANGED <<pendingVars, frames, sent>> /\ (Running' => Running)
      BY <1>3 DEF HandleClose, HandleReadEvent, NothingToWrite, WritePendingBlocked, WritePending, Handles,
                  historyVars
    <2>2. wire' = wire
      BY <1>1, <1>2, <2>1, WireStays
    <2> QED  BY <1>1, <2>1, <2>2, QuietWire DEF pendingVars
  <1>4. CASE WritePendingFails
    <2>1. /\ UNCHANGED <<frames, sent>> /\ m_pendingBuffer' = NULL /\ exception' = "write" /\ frames = <<>>
      BY <1>4 DEF WritePendingFails, WritePending, Handles, ResetPendingBuffer, historyVars
    <2>2. wire' = wire
      BY <1>1, <1>2, <2>1, WireStays
    <2> QED  BY <1>1, <1>2, <2>1, <2>2, EndsWire DEF Running
  <1>5. ASSUME WritePending, NEW n \in Nat, m_uiPendingBufferOffset + n <= BufferSize,
               Take(m_pendingBuffer, m_uiPendingBufferOffset, n)
        PROVE  /\ WireIsFile' /\ Len(wire') = Start(m_ullOffset - 1) + (m_uiPendingBufferOffset + n)
               /\ m_ullOffset - 1 \in Nat /\ m_ullOffset - 1 + 1 = m_ullOffset
               /\ m_pendingBuffer = m_ullOffset /\ m_buffer = m_ullOffset
               /\ frames = <<>> /\ Running /\ m_pendingBuffer # NULL /\ m_bInBackPressure
    <2>1. /\ m_pendingBuffer # NULL /\ frames = <<>> /\ Running
          /\ m_pendingBuffer = m_ullOffset /\ m_buffer = m_ullOffset
          /\ Len(wire) = Start(m_ullOffset - 1) + m_uiPendingBufferOffset
      BY <1>5 DEF WritePending, Handles, TInv, WireInv, BufferHeld, WireLength
    <2> DEFINE k == m_ullOffset - 1
    <2>2. k \in Nat /\ k < ullTotalFileBytes /\ k + 1 = m_ullOffset
      BY <1>2, <2>1, Sizes
    <2>3. m_uiPendingBufferOffset \in Nat
      BY <1>2, Sizes
    <2>4. Len(wire) = Start(k) + m_uiPendingBufferOffset /\ Take(k + 1, m_uiPendingBufferOffset, n) /\ m_buffer' = k + 1
      BY <1>1, <1>5, <2>1, <2>2
    <2> HIDE DEF k
    <2>5. WireIsFile' /\ Len(wire') = Start(k) + (m_uiPendingBufferOffset + n)
      BY <1>1, <1>2, <1>5, <2>2, <2>3, <2>4, WireStaysFile
    <2>6. m_bInBackPressure
      BY <1>2, <2>1 DEF TInv, WireInv, Pressure
    <2> QED  BY <2>1, <2>2, <2>5, <2>6 DEF k
  <1>6. ASSUME NEW n \in 1 .. BufferSize, WritePendingPartly(n)
        PROVE  WireInv'
    <2>1. /\ WritePending /\ n < Unsent /\ Take(m_pendingBuffer, m_uiPendingBufferOffset, n)
          /\ m_uiPendingBufferOffset' = m_uiPendingBufferOffset + n
          /\ UNCHANGED <<m_pendingBuffer, frames, exception>>
      BY <1>6 DEF WritePendingPartly
    <2>2. n \in Nat /\ m_uiPendingBufferOffset + n <= BufferSize
      BY <1>2, <2>1, Sizes DEF Unsent
    <2>3. /\ WireIsFile' /\ Len(wire') = Start(m_ullOffset - 1) + (m_uiPendingBufferOffset + n)
          /\ m_pendingBuffer = m_ullOffset /\ m_buffer = m_ullOffset
          /\ frames = <<>> /\ m_pendingBuffer # NULL /\ m_bInBackPressure
      BY <1>5, <2>1, <2>2
    <2>4. WireLength'
      BY <1>1, <2>1, <2>3 DEF WireLength
    <2> QED  BY <1>1, <1>2, <2>1, <2>3, <2>4 DEF WireInv, BufferHeld, Pressure
  <1>7. CASE WritePendingWhole
    <2>1. /\ WritePending /\ Take(m_pendingBuffer, m_uiPendingBufferOffset, Unsent)
          /\ frames' = Append(frames, m_fOnWriteComplete) /\ UNCHANGED <<m_pendingBuffer, exception>>
      BY <1>7 DEF WritePendingWhole, Call, pendingVars
    <2>2. /\ Unsent \in Nat /\ m_uiPendingBufferOffset + Unsent <= BufferSize
          /\ m_uiPendingBufferOffset + Unsent = BufferSize
      BY <1>2, Sizes DEF Unsent
    <2>3. /\ WireIsFile' /\ Len(wire') = Start(m_ullOffset - 1) + (m_uiPendingBufferOffset + Unsent)
          /\ m_ullOffset - 1 \in Nat /\ m_ullOffset - 1 + 1 = m_ullOffset
          /\ m_pendingBuffer = m_ullOffset /\ m_buffer = m_ullOffset
          /\ frames = <<>> /\ m_bInBackPressure
      BY <1>5, <2>1, <2>2
    <2>4. Start(m_ullOffset) = Start(m_ullOffset - 1) + BufferSize
      BY <2>3, StartIsNat
    <2>5. frames' # <<>> /\ Len(frames') <= 1
      BY <2>1, <2>3
    <2>6. Len(wire') = Start(m_ullOffset)
      BY <2>2, <2>3, <2>4
    <2>7. WireLength'
      BY <1>1, <2>5, <2>6 DEF WireLength
    <2> QED  BY <1>1, <1>2, <2>1, <2>3, <2>5, <2>7 DEF WireInv, BufferHeld, Pressure
  <1> QED  BY <1>1, <1>3, <1>4, <1>6, <1>7 DEF HandleEventReady

LEMMA ChunkCompletesWire ==
    ASSUME TInv, ChunkCompletes
    PROVE  WireInv'
  <1>1. /\ frames # <<>> /\ frames' = Front(frames) /\ m_pendingBuffer' = NULL /\ Running
        /\ UNCHANGED <<exception, m_ullOffset, m_buffer, wire>> /\ m_bInBackPressure' = FALSE
    BY DEF ChunkCompletes, CompletionReturns, ResetPendingBuffer
  <1>2. frames \in Seq(Buffers) /\ Len(frames) <= 1
    <2>1. frames \in Seq(Buffers)
      BY Zenon DEF TInv, Typed, TypeOK
    <2> QED  BY <2>1 DEF TInv, WireInv
  <1>3. frames' = <<>>
    <2>1. Len(frames) = 1
      <3>1. Len(frames) \in Nat /\ Len(frames) # 0
        BY <1>1, <1>2, EmptySeq, LenProperties
      <3> QED  BY <1>2, <3>1
    <2>2. Front(frames) = SubSeq(frames, 1, 0)
      BY <2>1 DEF Front
    <2>3. Front(frames) = <<>>
      BY <1>2, <2>2
    <2> QED  BY <1>1, <2>3
  <1>4. WireLength'
    <2>1. CASE Running'
      <3>1. Len(wire) = Start(m_ullOffset)
        BY <1>1 DEF TInv, WireInv, WireLength
      <3> QED  BY <1>1, <1>3, <3>1 DEF WireLength
    <2> QED  BY <2>1 DEF WireLength
  <1>5. /\ m_ullOffset' \in 0 .. ullTotalFileBytes /\ m_buffer' \in Buffers \cup {NULL}
        /\ Len(frames') <= 1 /\ WireIsFile'
    BY <1>1, <1>3, SameWire DEF TInv, WireInv
  <1> QED  BY <1>1, <1>3, <1>4, <1>5 DEF WireInv, BufferHeld, Pressure

LEMMA StepWire ==
    ASSUME TInv, [TransferNext]_transferVars
    PROVE  WireInv'
  <1>1. CASE CloseSession \/ SkipSession \/ PreadFails \/ PollSession
    <2>1. UNCHANGED <<pendingVars, frames, exception>>
      <3>1. CASE CloseSession
        BY <1>1, <3>1 DEF CloseSession, Close, vars
      <3>2. CASE SkipSession \/ PreadFails
        BY <3>2 DEF SkipSession, PreadFails, vars
      <3>3. CASE PollSession
        BY <3>3 DEF PollSession, Poll, vars
      <3> QED  BY <1>1, <3>1, <3>2, <3>3
    <2>2. /\ UNCHANGED <<m_ullOffset, m_buffer, wire>>
          /\ m_bInBackPressure' = m_bInBackPressure \/ m_bInBackPressure' = TRUE
      BY <1>1 DEF CloseSession, SkipSession, PreadFails, PollSession, sessionVars
    <2> QED  BY <2>1, <2>2, QuietWire DEF Running, pendingVars
  <1>2. ASSUME ClientStep \/ ClientKilled \/ ClientResets \/ UNCHANGED transferVars
        PROVE  WireInv'
    <2>1. UNCHANGED <<sessionVars, wire, pendingVars, frames, exception>>
      <3>1. CASE ClientStep
        BY <3>1 DEF ClientStep, ClientReads, ClientNoticesEnd, vars
      <3>2. CASE ClientKilled
        BY <3>2 DEF ClientKilled, PeerShutsDown
      <3>3. CASE ClientResets
        BY <3>3 DEF ClientResets, PeerResets
      <3>4. CASE UNCHANGED transferVars
        BY <3>4 DEF transferVars, vars
      <3> QED  BY <1>2, <3>1, <3>2, <3>3, <3>4
    <2> QED  BY <2>1, QuietWire DEF Running, pendingVars, sessionVars
  <1> QED  BY <1>1, <1>2, SendChunkWire, HandleSessionWire, ChunkCompletesWire
           DEF TransferNext, DistributeFileTask
-----------------------------------------------------------------------------
(* What the kernel has taken stays taken. *)
LEMMA WireNotShorter ==
    ASSUME wire \in Seq(SentBytes), sent \in Seq(SentBytes), sent' \in Seq(SentBytes), TakeFromBuffer
    PROVE  Len(wire') \in Nat /\ Len(wire') >= Len(wire)
  <1> DEFINE n == Len(sent') - Len(sent)
             m == IF n >= 0 THEN n ELSE 0
             more == [j \in 1 .. n |-> <<m_buffer', sent'[Len(sent) + j][2]>>]
             S == SentBytes \cup {more[j] : j \in 1 .. n}
  <1>1. n \in Int /\ m \in Nat /\ 1 .. m = 1 .. n
    BY LenProperties
  <1>2. wire' = wire \o more
    BY DEF TakeFromBuffer
  <1>3. more \in [1 .. n -> S]
    OBVIOUS
  <1>4. wire \in Seq(S)
    <2>1. Len(wire) \in Nat /\ DOMAIN wire = 1 .. Len(wire) /\ wire \in [1 .. Len(wire) -> SentBytes]
      BY LenProperties
    <2>2. wire \in [1 .. Len(wire) -> S]
      BY <2>1
    <2> HIDE DEF S
    <2> QED  BY <2>1, <2>2, SeqOfFunction
  <1> HIDE DEF more, S, n, m
  <1>5. more \in [1 .. m -> S]
    BY <1>1, <1>3
  <1>6. more \in Seq(S) /\ Len(more) = m
    BY <1>1, <1>5, SeqOfFunction
  <1>7. Len(wire') = Len(wire) + m /\ Len(wire) \in Nat
    BY <1>2, <1>4, <1>6, ConcatProperties, LenProperties
  <1> QED  BY <1>1, <1>7

LEMMA QuietClient ==
    ASSUME TInv, UNCHANGED <<m_iFD, revents, frames, exception, unread, fin, reset, m_ullOffset, m_bClosed>>,
           client' = client \/ client' # "running"
    PROVE  Closed' /\ GoneClient'
  <1>1. Closed /\ GoneClient
    BY DEF TInv, ClientInv
  <1>2. Closed'
    BY <1>1, Zenon DEF Closed, Running
  <1>3. FailsForGoneClient'
    BY <1>1 DEF GoneClient, FailsForGoneClient
  <1> QED  BY <1>1, <1>2, <1>3 DEF GoneClient

(* A session that is closed sends no more and hears no more. *)
LEMMA CloseSessionClient ==
    ASSUME TInv, CloseSession
    PROVE  Closed' /\ GoneClient'
  <1>1. /\ m_ullOffset = ullTotalFileBytes /\ revents = {} /\ frames = <<>> /\ Running
        /\ m_bClosed' = TRUE
        /\ UNCHANGED <<m_ullOffset, client>>
    <2>1. m_ullOffset \in 0 .. ullTotalFileBytes /\ m_ullOffset >= ullTotalFileBytes
      BY DEF CloseSession, TInv, WireInv
    <2>2. m_ullOffset = ullTotalFileBytes
      BY <2>1, Sizes
    <2> QED  BY <2>2 DEF CloseSession, TaskRuns, clientVars
  <1>2. /\ m_iFD' = "none" /\ UNCHANGED <<revents, frames, exception, unread, fin, reset>>
    <2>1. CASE Close
      BY <2>1 DEF Close, peerVars
    <2>2. CASE m_iFD = "none" /\ UNCHANGED vars
      BY <2>2 DEF vars, peerVars
    <2> QED  BY <2>1, <2>2 DEF CloseSession
  <1>3. Closed'
    BY <1>1, <1>2 DEF Closed, Running
  <1>4. GoneClient /\ FailsForGoneClient'
    BY <1>1, <1>2 DEF TInv, ClientInv, GoneClient, FailsForGoneClient
  <1> QED  BY <1>1, <1>2, <1>3, <1>4 DEF GoneClient

LEMMA SendChunkClient ==
    ASSUME TInv, SendChunk
    PROVE  Closed' /\ GoneClient'
  <1>1. /\ WriteAll(m_ullOffset + 1) /\ UNCHANGED <<m_bClosed, client>>
        /\ Closed /\ GoneClient /\ Running
    BY DEF SendChunk, clientVars, TaskRuns, TInv, ClientInv
  <1>2. ~m_bClosed
    <2>1. m_ullOffset < ullTotalFileBytes /\ ullTotalFileBytes \in Nat
      BY Sizes DEF SendChunk
    <2>2. m_bClosed => m_ullOffset = ullTotalFileBytes
      BY <1>1 DEF Closed
    <2> QED  BY <2>1, <2>2
  <1>3. UNCHANGED <<m_iFD, revents, peerVars>>
    BY <1>1 DEF WriteAll, WriteRefused, WriteFails, WriteBlocked, WritePartly, WriteWhole
  <1>4. Closed'
    BY <1>1, <1>2 DEF Closed
  <1>5. FailsForGoneClient'
    <2>1. CASE WriteFails(m_ullOffset + 1)
      BY <1>1, <1>2, <2>1 DEF WriteFails, GoneClient, FailsForGoneClient
    <2>2. CASE ~WriteFails(m_ullOffset + 1)
      <3>1. exception' = exception \/ exception' = "bad_function_call"
        BY <1>1, <2>2 DEF WriteAll, WriteRefused, WriteBlocked, WritePartly, WriteWhole
      <3> QED  BY <1>1, <3>1 DEF GoneClient, FailsForGoneClient
    <2> QED  BY <2>1, <2>2
  <1> QED  BY <1>1, <1>3, <1>4, <1>5 DEF GoneClient, peerVars

LEMMA PollSessionClient ==
    ASSUME TInv, PollSession
    PROVE  Closed' /\ GoneClient'
  <1>1. UNCHANGED <<m_ullOffset, m_bClosed, client>> /\ Closed /\ GoneClient
    BY DEF PollSession, sessionVars, clientVars, TInv, ClientInv
  <1>2. CASE UNCHANGED vars
    BY <1>1, <1>2, QuietClient DEF vars, peerVars
  <1>3. CASE Poll
    <2>1. /\ m_iFD = "open" /\ revents' = Ready
          /\ UNCHANGED <<m_iFD, exception, unread, fin, reset>>
      BY <1>3 DEF Poll, peerVars
    <2>2. Closed'
      BY <1>1, <2>1 DEF Closed
    <2>3. Ready \cap {"CLOSE", "Read"} # {} => fin \/ reset
      <3>1. unread = 0
        BY <1>1 DEF GoneClient
      <3>2. ~(unread > 0)
        BY <3>1
      <3> QED  BY <3>2, Zenon DEF Ready
    <2>4. FailsForGoneClient'
      BY <1>1, <2>1 DEF GoneClient, FailsForGoneClient
    <2> QED  BY <1>1, <2>1, <2>2, <2>3, <2>4 DEF GoneClient
  <1> QED  BY <1>2, <1>3 DEF PollSession

LEMMA HandleSessionClient ==
    ASSUME TInv, HandleSession
    PROVE  Closed' /\ GoneClient'
  <1>1. /\ HandleEventReady /\ UNCHANGED <<m_ullOffset, m_bClosed, client>>
        /\ Closed /\ GoneClient
    BY DEF HandleSession, sessionVars, clientVars, TInv, ClientInv
  <1>2. PICK event \in {"CLOSE", "Read", "WriteSpaceAvailable"} : Handles(event)
    BY <1>1 DEF HandleEventReady, HandleClose, HandleReadEvent, NothingToWrite, WritePendingFails,
                WritePendingBlocked, WritePendingPartly, WritePendingWhole, WritePending
  <1>3. event \in revents /\ revents' = {} /\ Running
    BY <1>2 DEF Handles
  <1>4. ~m_bClosed
    BY <1>1, <1>3 DEF Closed
  <1>5. Closed'
    BY <1>1, <1>4 DEF Closed
  <1>6. UNCHANGED <<fin, reset>>
    BY <1>1 DEF HandleEventReady, HandleClose, HandleReadEvent, NothingToWrite, WritePendingFails,
                WritePendingBlocked, WritePendingPartly, WritePendingWhole, peerVars
  <1>7. CASE HandleClose \/ HandleReadEvent
    <2>1. client # "running"
      BY <1>1, <1>7 DEF HandleClose, HandleReadEvent, Handles, GoneClient
    <2>2. unread' = 0
      BY <1>1, <1>7 DEF HandleClose, HandleReadEvent, GoneClient, peerVars
    <2> QED  BY <1>1, <1>3, <1>5, <1>6, <2>1, <2>2 DEF GoneClient, FailsForGoneClient
  <1>8. CASE WritePendingFails
    <2>1. client # "running"
      BY <1>1, <1>4, <1>8 DEF WritePendingFails, GoneClient
    <2>2. unread' = 0
      BY <1>1, <1>8 DEF WritePendingFails, GoneClient, peerVars
    <2> QED  BY <1>1, <1>3, <1>5, <1>6, <2>1, <2>2 DEF GoneClient, FailsForGoneClient
  <1>9. ASSUME \/ NothingToWrite \/ WritePendingBlocked \/ WritePendingWhole
               \/ \E n \in 1 .. BufferSize : WritePendingPartly(n)
        PROVE  GoneClient'
    <2>1. UNCHANGED <<m_iFD, exception, unread>>
      BY <1>9 DEF NothingToWrite, WritePendingBlocked, WritePendingWhole, WritePendingPartly, peerVars
    <2>2. FailsForGoneClient'
      BY <1>1, <2>1 DEF GoneClient, FailsForGoneClient
    <2> QED  BY <1>1, <1>3, <1>6, <2>1, <2>2 DEF GoneClient
  <1> QED  BY <1>1, <1>5, <1>7, <1>8, <1>9 DEF HandleEventReady

LEMMA StepClient ==
    ASSUME TInv, [TransferNext]_transferVars, Typed', WireInv'
    PROVE  ClientInv'
  <1>0. /\ Typed /\ WireInv /\ ClientInv
        /\ wire \in Seq(SentBytes) /\ sent \in Seq(SentBytes) /\ sent' \in Seq(SentBytes)
        /\ received \in 0 .. Len(wire) /\ Len(wire) \in Nat
    <2>1. /\ Typed /\ WireInv /\ ClientInv
          /\ wire \in Seq(SentBytes) /\ received \in 0 .. Len(wire)
      BY DEF TInv, WireInv, WireIsFile, ClientInv
    <2>2. sent \in Seq(SentBytes) /\ sent' \in Seq(SentBytes)
      BY <2>1, Zenon DEF Typed, TypeOK, SentBytes
    <2> QED  BY <2>1, <2>2, LenProperties
  <1>1. Closed' /\ GoneClient'
    <2>1. CASE SkipSession \/ PreadFails \/ UNCHANGED transferVars
      BY <2>1, QuietClient
      DEF SkipSession, PreadFails, transferVars, vars, peerVars, sessionVars, clientVars
    <2>2. CASE ClientStep
      <3>1. CASE ClientNoticesEnd
        BY <3>1, QuietClient DEF ClientNoticesEnd, vars, peerVars, sessionVars
      <3>2. ASSUME NEW n \in 1 .. BufferSize, ClientReads(n)
            PROVE  Closed' /\ GoneClient'
        BY <3>2, QuietClient DEF ClientReads, peerVars, sessionVars
      <3> QED  BY <2>2, <3>1, <3>2 DEF ClientStep
    <2>3. CASE ClientKilled
      <3>1. /\ client' # "running" /\ UNCHANGED <<m_iFD, revents, frames, exception, unread, reset>>
            /\ UNCHANGED <<m_ullOffset, m_bClosed>>
        BY <2>3 DEF ClientKilled, PeerShutsDown, sessionVars
      <3>2. Closed /\ unread = 0
        BY <1>0 DEF ClientInv, GoneClient
      <3> QED  BY <3>1, <3>2 DEF Closed, GoneClient, FailsForGoneClient, Running
    <2>4. CASE ClientResets
      <3>1. /\ client' # "running" /\ UNCHANGED <<m_iFD, revents, frames, exception, unread, fin>>
            /\ UNCHANGED <<m_ullOffset, m_bClosed>>
        BY <2>4 DEF ClientResets, PeerResets, sessionVars, clientVars
      <3>2. Closed /\ unread = 0
        BY <1>0 DEF ClientInv, GoneClient
      <3> QED  BY <3>1, <3>2 DEF Closed, GoneClient, FailsForGoneClient, Running
    <2>5. CASE ChunkCompletes
      <3>1. /\ frames # <<>>
            /\ UNCHANGED <<m_iFD, revents, exception, unread, fin, reset, m_bClosed, client>>
        BY <2>5 DEF ChunkCompletes, CompletionReturns, peerVars, clientVars
      <3>2. Closed /\ GoneClient
        BY <1>0 DEF ClientInv
      <3>3. Closed' /\ FailsForGoneClient'
        BY <3>1, <3>2 DEF Closed, GoneClient, FailsForGoneClient
      <3> QED  BY <3>1, <3>2, <3>3 DEF GoneClient
    <2> QED  BY <2>1, <2>2, <2>3, <2>4, <2>5, CloseSessionClient, SendChunkClient, PollSessionClient,
                HandleSessionClient DEF TransferNext, DistributeFileTask
  <1>2. received' \in 0 .. Len(wire')
    <2>1. CASE SendChunk \/ HandleSession
      <3>1. UNCHANGED received /\ TakeFromBuffer
        BY <2>1 DEF SendChunk, HandleSession, clientVars
      <3> QED  BY <1>0, <3>1, WireNotShorter
    <2>2. ASSUME NEW n \in 1 .. BufferSize, ClientReads(n)
          PROVE  received' \in 0 .. Len(wire')
      <3>1. n \in 1 .. Len(wire) - received /\ received' = received + n /\ wire' = wire
        BY <2>2 DEF ClientReads
      <3> QED  BY <1>0, <3>1
    <2>3. CASE \/ CloseSession \/ PreadFails \/ SkipSession \/ ChunkCompletes \/ PollSession
               \/ ClientNoticesEnd \/ ClientKilled \/ ClientResets \/ UNCHANGED transferVars
      <3>1. UNCHANGED <<received, wire>>
        BY <2>3 DEF CloseSession, PreadFails, SkipSession, ChunkCompletes, PollSession, ClientNoticesEnd,
                    ClientKilled, ClientResets, transferVars, clientVars
      <3> QED  BY <1>0, <3>1
    <2> QED  BY <2>1, <2>2, <2>3 DEF TransferNext, DistributeFileTask, ClientStep
  <1>3. m_bClosed' \in BOOLEAN
    <2>1. m_bClosed' = m_bClosed \/ m_bClosed' = TRUE
      BY DEF TransferNext, DistributeFileTask, CloseSession, SendChunk, PreadFails, SkipSession, ChunkCompletes,
             PollSession, HandleSession, ClientStep, ClientReads, ClientNoticesEnd, ClientKilled, ClientResets,
             transferVars, sessionVars
    <2> QED  BY <1>0, <2>1, Zenon DEF ClientInv
  <1>4. preadFailed' \in BOOLEAN
    <2>1. preadFailed' = preadFailed \/ preadFailed' = TRUE
      BY DEF TransferNext, DistributeFileTask, CloseSession, SendChunk, PreadFails, SkipSession, ChunkCompletes,
             PollSession, HandleSession, ClientStep, ClientReads, ClientNoticesEnd, ClientKilled, ClientResets,
             transferVars
    <2> QED  BY <1>0, <2>1, Zenon DEF ClientInv
  <1>5. client' \in {"running", "stopped", "failed", "killed"}
    <2>1. client' = client \/ client' \in {"stopped", "failed", "killed"}
      BY DEF TransferNext, DistributeFileTask, CloseSession, SendChunk, PreadFails, SkipSession, ChunkCompletes,
             PollSession, HandleSession, ClientStep, ClientReads, ClientNoticesEnd, ClientKilled, ClientResets,
             transferVars, clientVars
    <2> QED  BY <1>0, <2>1 DEF ClientInv
  <1>6. loopPc' \in {"poll", "task"}
    <2>1. loopPc' = loopPc \/ loopPc' \in {"poll", "task"}
      BY DEF TransferNext, DistributeFileTask, CloseSession, SendChunk, PreadFails, SkipSession, ChunkCompletes,
             PollSession, HandleSession, ClientStep, ClientReads, ClientNoticesEnd, ClientKilled, ClientResets,
             transferVars, TaskRuns
    <2> QED  BY <1>0, <2>1 DEF ClientInv
  <1> QED  BY <1>1, <1>2, <1>3, <1>4, <1>5, <1>6, Zenon DEF ClientInv

LEMMA StepTInv ==
    ASSUME TInv, [TransferNext]_transferVars
    PROVE  TInv'
  <1>1. Typed'
    BY DescriptorStep, StepTyped DEF TInv
  <1>2. WireInv'
    BY StepWire
  <1>3. ClientInv'
    BY <1>1, <1>2, StepClient
  <1> QED  BY <1>1, <1>2, <1>3 DEF TInv

LEMMA AlwaysTInv == TransferSpec => []TInv
  BY InitTInv, StepTInv, PTL DEF TransferSpec

(* A session only takes the steps of a descriptor, so what AsyncFdIOProofs *)
(* shows of those holds of its stream and its completions.                 *)
THEOREM SessionIsDescriptor == TransferSpec => Spec
  <1>1. TransferInit => Init
    BY DEF TransferInit
  <1>2. TInv /\ [TransferNext]_transferVars => [Next]_vars
    BY DescriptorStep
  <1> QED  BY <1>1, <1>2, AlwaysTInv, PTL DEF TransferSpec, Spec

(* The session, its descriptor and the client keep their types, and the    *)
(* client has never more than what was sent.                               *)
THEOREM TransferTypes == TransferSpec => []TransferTypeOK
  <1>1. TInv => TransferTypeOK
    <2> SUFFICES ASSUME TInv PROVE TransferTypeOK
      OBVIOUS
    <2>1. TypeOK /\ WireInv /\ ClientInv
      BY DEF TInv, Typed
    <2>2. wire \in Seq(Buffers \X (1 .. BufferSize))
      BY <2>1 DEF WireInv, WireIsFile, SentBytes
    <2> QED  BY <2>1, <2>2, Zenon DEF TransferTypeOK, WireInv, ClientInv
  <1> QED  BY <1>1, AlwaysTInv, PTL

(* A session that is closed as finished has sent the whole file, except    *)
(* for a part of the last chunk that was still pending.                    *)
THEOREM OnlyLastIsCut == TransferSpec => []OnlyLastChunkCut
  <1>1. ASSUME TInv, m_bClosed
        PROVE  /\ Len(wire) >= Len(File) - BufferSize
               /\ Len(wire) < Len(File) => m_pendingBuffer = ullTotalFileBytes
    <2>1. /\ m_ullOffset = ullTotalFileBytes /\ frames = <<>> /\ Running
          /\ m_pendingBuffer # NULL => m_pendingBuffer = m_ullOffset
      BY <1>1 DEF TInv, WireInv, BufferHeld, ClientInv, Closed
    <2>2. /\ BufferSize \in Nat /\ Len(File) \in Nat /\ Len(File) = Start(m_ullOffset)
          /\ m_uiPendingBufferOffset \in 0 .. BufferSize
      <3>1. m_uiPendingBufferOffset \in 0 .. BufferSize
        BY <1>1, Zenon DEF TInv, Typed, TypeOK
      <3> QED  BY <2>1, <3>1, Sizes, FileIsSeq
    <2>3. CASE m_pendingBuffer = NULL
      <3>1. Len(wire) = Len(File)
        BY <1>1, <2>1, <2>2, <2>3 DEF TInv, WireInv, WireLength
      <3> QED  BY <2>2, <3>1
    <2>4. CASE m_pendingBuffer # NULL
      <3>1. Len(wire) = Start(m_ullOffset - 1) + m_uiPendingBufferOffset
        BY <1>1, <2>1, <2>4 DEF TInv, WireInv, WireLength
      <3>2. m_ullOffset - 1 \in Nat /\ (m_ullOffset - 1) + 1 = m_ullOffset
        <4>1. m_pendingBuffer \in Buffers \cup {NULL}
          BY <1>1, Zenon DEF TInv, Typed, TypeOK
        <4>2. m_ullOffset \in 1 .. ullTotalFileBytes
          BY <2>1, <2>4, <4>1, Sizes
        <4> QED  BY <4>2, Sizes
      <3>3. Start(m_ullOffset - 1) \in Nat /\ Start(m_ullOffset) = Start(m_ullOffset - 1) + BufferSize
        <4> DEFINE k == m_ullOffset - 1
        <4>1. k \in Nat /\ k + 1 = m_ullOffset
          BY <3>2
        <4> HIDE DEF k
        <4>2. Start(k) \in Nat /\ Start(m_ullOffset) = Start(k) + BufferSize
          BY <4>1, StartIsNat
        <4> QED  BY <4>2 DEF k
      <3> QED  BY <2>1, <2>2, <2>4, <3>1, <3>3
    <2> QED  BY <2>3, <2>4
  <1>2. TInv => OnlyLastChunkCut
    BY <1>1 DEF OnlyLastChunkCut
  <1> QED  BY <1>2, AlwaysTInv, PTL

(* An exception in a write or a read of the server is one about a client   *)
(* that has gone.                                                          *)
THEOREM FailsForGone == TransferSpec => []FailsForGoneClient
  <1>1. TInv => FailsForGoneClient
    BY DEF TInv, ClientInv, GoneClient
  <1> QED  BY <1>1, AlwaysTInv, PTL
-----------------------------------------------------------------------------
(* What the client has is a prefix of the file. *)
Prefix ==
    /\ SubSeq(wire, 1, received) = SubSeq(File, 1, received)
    /\ Len(SubSeq(wire, 1, received)) = received
    /\ Len(wire) <= Len(File)
    /\ Len(wire) \in Nat /\ Len(File) \in Nat /\ received \in Nat

LEMMA CopyIsPrefix ==
    ASSUME TInv
    PROVE  Prefix
  <1>1. /\ wire \in Seq(SentBytes) /\ File \in Seq(SentBytes)
        /\ Len(wire) \in Nat /\ Len(File) \in Nat /\ Len(wire) <= Len(File)
        /\ received \in 0 .. Len(wire)
        /\ \A n \in 1 .. Len(wire) : wire[n] = File[n]
    BY FileIsSeq, LenProperties DEF TInv, WireInv, WireIsFile, ClientInv
  <1>2. received \in Int /\ 1 \in Int
    BY <1>1
  <1>3. \A i \in 1 .. received : wire[i] \in SentBytes /\ File[i] \in SentBytes /\ wire[i] = File[i]
    BY <1>1, ElementOfSeq
  <1>4. received - 1 + 1 = received /\ \A i \in 1 .. received : 1 + i - 1 = i
    BY <1>1
  <1> DEFINE s == SubSeq(wire, 1, received)
             t == SubSeq(File, 1, received)
  <1>5. s \in Seq(SentBytes) /\ Len(s) = received /\ \A i \in 1 .. received : s[i] = wire[i]
    <2>1. /\ s \in Seq(SentBytes)
          /\ Len(s) = IF 1 <= received THEN received - 1 + 1 ELSE 0
          /\ \A i \in 1 .. received - 1 + 1 : s[i] = wire[1 + i - 1]
      BY <1>2, <1>3, SubSeqProperties
    <2> HIDE DEF s
    <2> QED  BY <1>1, <1>4, <2>1
  <1>6. t \in Seq(SentBytes) /\ Len(t) = received /\ \A i \in 1 .. received : t[i] = File[i]
    <2>1. /\ t \in Seq(SentBytes)
          /\ Len(t) = IF 1 <= received THEN received - 1 + 1 ELSE 0
          /\ \A i \in 1 .. received - 1 + 1 : t[i] = File[1 + i - 1]
      BY <1>2, <1>3, SubSeqProperties
    <2> HIDE DEF t
    <2> QED  BY <1>1, <1>4, <2>1
  <1> HIDE DEF s, t
  <1>7. s = t
    BY <1>3, <1>5, <1>6, SeqEqual
  <1> QED  BY <1>1, <1>5, <1>7 DEF s, t, Prefix

LEMMA StepCopies ==
    ASSUME TInv, Prefix, Prefix', [TransferNext]_transferVars
    PROVE  [Copy!Next]_(Copy!vars)
  <1>1. ASSUME NEW n \in 1 .. BufferSize, ClientReads(n)
        PROVE  Copy!Next
    <2>1. /\ client = "running" /\ client' = client /\ wire' = wire
          /\ n \in 1 .. Len(wire) - received /\ received' = received + n
      BY <1>1 DEF ClientReads
    <2>2. received' \in Len(SubSeq(wire, 1, received)) + 1 .. Len(File)
      BY <2>1 DEF Prefix
    <2>3. SubSeq(wire', 1, received') = SubSeq(File, 1, received')
      BY DEF Prefix
    <2> QED  BY <2>1, <2>2, <2>3 DEF Copy!Next, Copy!Grow
  <1>2. ASSUME received' = received
        PROVE  SubSeq(wire', 1, received') = SubSeq(wire, 1, received)
    BY <1>2 DEF Prefix
  <1>3. CASE ClientNoticesEnd \/ ClientKilled
    <2>1. client = "running" /\ client' # "running" /\ received' = received
      BY <1>3 DEF ClientNoticesEnd, ClientKilled
    <2> QED  BY <1>2, <2>1 DEF Copy!Next, Copy!Stop
  <1>4. CASE DistributeFileTask \/ ChunkCompletes \/ PollSession \/ HandleSession
             \/ ClientResets \/ UNCHANGED transferVars
    <2>1. UNCHANGED <<received, client>>
      BY <1>4 DEF DistributeFileTask, CloseSession, SendChunk, PreadFails, SkipSession, ChunkCompletes,
                  PollSession, HandleSession, ClientResets, transferVars, clientVars
    <2> QED  BY <1>2, <2>1 DEF Copy!vars
  <1> QED  BY <1>1, <1>3, <1>4 DEF TransferNext, ClientStep

(* The client's file is at every moment a prefix of the server's, which    *)
(* grows until the client stops: a session implements FileCopy.            *)
THEOREM FileCopyImplemented == TransferSpec => ImplementsFileCopy
  <1>1. TransferInit => Copy!Init
    <2> SUFFICES ASSUME TransferInit PROVE Copy!Init
      OBVIOUS
    <2>1. wire = <<>> /\ received = 0 /\ client = "running"
      BY DEF TransferInit
    <2>2. SubSeq(<<>>, 1, 0) = <<>>
      BY SubSeqEmpty
    <2> QED  BY <2>1, <2>2 DEF Copy!Init
  <1>2. TInv => Prefix
    BY CopyIsPrefix
  <1>3. TInv /\ Prefix /\ Prefix' /\ [TransferNext]_transferVars => [Copy!Next]_(Copy!vars)
    BY StepCopies
  <1> QED  BY <1>1, <1>2, <1>3, AlwaysTInv, PTL DEF TransferSpec, ImplementsFileCopy, Copy!Spec
=============================================================================
