----------------------- MODULE HttpRequestParserProofs -----------------------
(***************************************************************************)
(* Proofs about the request parser.  Whatever the client sends, the        *)
(* members keep their types and the pointers stay within the buffer.  To a *)
(* client that sends one request at a time, results are the requests sent, *)
(* the buffer holds what was read and not parsed, and a request that is    *)
(* waited for or refused is so for a reason that can be read off it.       *)
(*                                                                         *)
(* Each function of the parser gets a lemma that says what it does with a  *)
(* parser it is called with (BodyPhase, HeaderPhase, LinePhase), and then  *)
(* one that says what it makes of a prefix of a request (Outcome).         *)
(***************************************************************************)
EXTENDS HttpRequestParser, SequenceTheorems, WellFoundedInduction, TLAPS

-----------------------------------------------------------------------------
(* Numbers. *)
LEMMA Least ==
    ASSUME NEW T, T \subseteq Nat, T # {}
    PROVE  Min(T) \in T /\ \A n \in T : Min(T) <= n
  <1> DEFINE less == {p \in Nat \X Nat : p[1] < p[2]}
  <1>1. IsWellFoundedOn(less, Nat)
    BY NatLessThanWellFounded DEF OpToRel
  <1>2. \A m, n \in Nat : <<n, m>> \in less <=> n < m
    OBVIOUS
  <1> HIDE DEF less
  <1>3. PICK m \in T : \A n \in T : ~(<<n, m>> \in less)
    BY <1>1, WFMin
  <1>4. ASSUME NEW n \in T
        PROVE  m <= n
    <2>1. n \in Nat /\ m \in Nat /\ ~(n < m)
      BY <1>2, <1>3
    <2> QED  BY <2>1
  <1> QED  BY <1>4 DEF Min

LEMMA Greatest ==
    ASSUME NEW T, NEW b \in Nat, T \subseteq 0 .. b, T # {}
    PROVE  Max(T) \in T /\ \A n \in T : n <= Max(T)
  <1> DEFINE U == {b - n : n \in T}
  <1>1. U \subseteq Nat /\ U # {}
    <2>1. \A n \in T : b - n \in Nat
      OBVIOUS
    <2>2. PICK n \in T : TRUE
      OBVIOUS
    <2>3. b - n \in U
      BY <2>2
    <2> QED  BY <2>1, <2>3
  <1> HIDE DEF U
  <1>2. Min(U) \in U /\ \A n \in U : Min(U) <= n
    BY <1>1, Least
  <1>3. PICK m \in T : Min(U) = b - m
    BY <1>2 DEF U
  <1>4. ASSUME NEW n \in T
        PROVE  n <= m
    <2>1. b - m <= b - n
      BY <1>2, <1>3 DEF U
    <2>2. m \in Int /\ n \in Int
      OBVIOUS
    <2> QED  BY <2>1, <2>2
  <1>5. \A n \in T : m >= n
    BY <1>4
  <1> QED  BY <1>4, <1>5 DEF Max

LEMMA MaxOfTwo ==
    ASSUME NEW a \in Int, NEW b \in Int
    PROVE  Max({a, b}) = IF a >= b THEN a ELSE b
  BY DEF Max

LEMMA MinOfTwo ==
    ASSUME NEW a \in Int, NEW b \in Int
    PROVE  Min({a, b}) = IF a <= b THEN a ELSE b
  BY DEF Min
-----------------------------------------------------------------------------
(* Slices. *)
LEMMA SliceProperties ==
    ASSUME NEW S, NEW s \in Seq(S), NEW n \in Nat, NEW k \in Nat, n + k <= Len(s)
    PROVE  /\ Slice(s, n, k) \in Seq(S)
           /\ Len(Slice(s, n, k)) = k
           /\ \A i \in 1 .. k : Slice(s, n, k)[i] = s[n + i]
  <1>1. \A i \in n + 1 .. n + k : s[i] \in S
    BY LenProperties, ElementOfSeq
  <1> QED  BY <1>1, SubSeqProperties DEF Slice

LEMMA SliceOfOne ==
    ASSUME NEW S, NEW s \in Seq(S), NEW n \in Nat, n + 1 <= Len(s)
    PROVE  Slice(s, n, 1) = <<s[n + 1]>>
  <1> DEFINE t == Slice(s, n, 1)
  <1>1. t \in Seq(S) /\ Len(t) = 1 /\ \A i \in 1 .. 1 : t[i] = s[n + i]
    <2>1. 1 \in Nat
      OBVIOUS
    <2> QED  BY <2>1, SliceProperties
  <1> HIDE DEF t
  <1>2. t[1] = s[n + 1]
    BY <1>1
  <1>3. t = <<t[1]>>
    BY <1>1
  <1> QED  BY <1>2, <1>3 DEF t

LEMMA RestProperties ==
    ASSUME NEW S, NEW s \in Seq(S), NEW n \in 0 .. Len(s)
    PROVE  /\ SubSeq(s, n + 1, Len(s)) \in Seq(S)
           /\ Len(SubSeq(s, n + 1, Len(s))) = Len(s) - n
           /\ \A i \in 1 .. Len(s) - n : SubSeq(s, n + 1, Len(s))[i] = s[n + i]
  <1> DEFINE k == Len(s) - n
  <1>1. n \in Nat /\ k \in Nat /\ n + k = Len(s) /\ n + k <= Len(s)
    BY LenProperties
  <1> HIDE DEF k
  <1>2. Slice(s, n, k) = SubSeq(s, n + 1, Len(s))
    BY <1>1 DEF Slice
  <1>3. /\ Slice(s, n, k) \in Seq(S) /\ Len(Slice(s, n, k)) = k
        /\ \A i \in 1 .. k : Slice(s, n, k)[i] = s[n + i]
    BY <1>1, SliceProperties
  <1> QED  BY <1>2, <1>3 DEF k

CRLFAt(s, n) == s[n + 1] = "CR" /\ s[n + 2] = "LF"
BlankAt(s, n) == CRLFAt(s, n) /\ CRLFAt(s, n + 2)

LEMMA Patterns ==
    /\ CRLF \in Seq({"CR", "LF"}) /\ Len(CRLF) = 2 /\ CRLF[1] = "CR" /\ CRLF[2] = "LF"
    /\ CRLF \o CRLF \in Seq({"CR", "LF"})
    /\ Len(CRLF \o CRLF) = 4
    /\ (CRLF \o CRLF)[1] = "CR" /\ (CRLF \o CRLF)[2] = "LF"
    /\ (CRLF \o CRLF)[3] = "CR" /\ (CRLF \o CRLF)[4] = "LF"
  <1>1. CRLF \in Seq({"CR", "LF"}) /\ Len(CRLF) = 2 /\ CRLF[1] = "CR" /\ CRLF[2] = "LF"
    BY DEF CRLF
  <1>2. /\ CRLF \o CRLF \in Seq({"CR", "LF"})
        /\ Len(CRLF \o CRLF) = Len(CRLF) + Len(CRLF)
        /\ \A i \in 1 .. Len(CRLF) + Len(CRLF) : (CRLF \o CRLF)[i] =
               IF i <= Len(CRLF) THEN CRLF[i] ELSE CRLF[i - Len(CRLF)]
    BY <1>1, ConcatProperties
  <1>3. \A i \in 1 .. 4 : (CRLF \o CRLF)[i] = IF i <= 2 THEN CRLF[i] ELSE CRLF[i - 2]
    BY <1>1, <1>2
  <1>4. /\ (CRLF \o CRLF)[1] = CRLF[1] /\ (CRLF \o CRLF)[2] = CRLF[2]
        /\ (CRLF \o CRLF)[3] = CRLF[1] /\ (CRLF \o CRLF)[4] = CRLF[2]
    <2> DEFINE blank == CRLF \o CRLF
    <2> HIDE DEF blank
    <2>1. \A i \in 1 .. 4 : blank[i] = IF i <= 2 THEN CRLF[i] ELSE CRLF[i - 2]
      BY <1>3 DEF blank
    <2>2. blank[1] = CRLF[1] /\ blank[2] = CRLF[2] /\ blank[3] = CRLF[1] /\ blank[4] = CRLF[2]
      BY <2>1
    <2> QED  BY <2>2, Zenon DEF blank
  <1> QED  BY <1>1, <1>2, <1>4

LEMMA SliceIsCRLF ==
    ASSUME NEW S, NEW s \in Seq(S), NEW n \in Nat, n + 2 <= Len(s)
    PROVE  Slice(s, n, 2) = CRLF <=> CRLFAt(s, n)
  <1> DEFINE t == Slice(s, n, 2)
  <1>1. t \in Seq(S) /\ Len(t) = 2 /\ \A i \in 1 .. 2 : t[i] = s[n + i]
    <2>1. 2 \in Nat
      OBVIOUS
    <2> QED  BY <2>1, SliceProperties
  <1> HIDE DEF t
  <1>2. t[1] = s[n + 1] /\ t[2] = s[n + 2]
    BY <1>1
  <1>3. t = <<t[1], t[2]>>
    BY <1>1
  <1> QED  BY <1>2, <1>3 DEF CRLF, CRLFAt, t

LEMMA SliceIsBlank ==
    ASSUME NEW S, NEW s \in Seq(S), NEW n \in Nat, n + 4 <= Len(s)
    PROVE  Slice(s, n, 4) = CRLF \o CRLF <=> BlankAt(s, n)
  <1> DEFINE t == Slice(s, n, 4)
             blank == CRLF \o CRLF
  <1>1. t \in Seq(S) /\ Len(t) = 4 /\ \A i \in 1 .. 4 : t[i] = s[n + i]
    <2>1. 4 \in Nat
      OBVIOUS
    <2> QED  BY <2>1, SliceProperties
  <1>2. /\ blank \in Seq({"CR", "LF"}) /\ Len(blank) = 4
        /\ blank[1] = "CR" /\ blank[2] = "LF" /\ blank[3] = "CR" /\ blank[4] = "LF"
    BY Patterns
  <1> HIDE DEF t, blank
  <1>3. t[1] = s[n + 1] /\ t[2] = s[n + 2] /\ t[3] = s[n + 3] /\ t[4] = s[n + 4]
    BY <1>1
  <1>4. n + 2 + 1 = n + 3 /\ n + 2 + 2 = n + 4
    OBVIOUS
  <1>5. t = blank <=> t[1] = "CR" /\ t[2] = "LF" /\ t[3] = "CR" /\ t[4] = "LF"
    <2>1. t = <<t[1], t[2], t[3], t[4]>>
      BY <1>1
    <2>2. blank = <<blank[1], blank[2], blank[3], blank[4]>>
      BY <1>2
    <2> QED  BY <1>2, <2>1, <2>2
  <1> QED  BY <1>3, <1>4, <1>5 DEF BlankAt, CRLFAt, t, blank
-----------------------------------------------------------------------------
(* Scans of a buffer. *)
LEMMA MatchesCRLF ==
    ASSUME NEW p \in Parser
    PROVE  Matches(p, CRLF) = {n \in p.m_uiRequestPtr .. Len(p.m_buffer) - 2 : CRLFAt(p.m_buffer, n)}
  <1> DEFINE b == p.m_buffer
             ptr == p.m_uiRequestPtr
  <1>1. b \in Seq(Tokens) /\ Len(b) \in Nat /\ ptr \in Nat
    BY ParserAssumption, LenProperties DEF Parser
  <1>2. Matches(p, CRLF) = {n \in ptr .. Len(b) - 2 : Slice(b, n, 2) = CRLF}
    BY Patterns DEF Matches, CurrentBufferSize
  <1> HIDE DEF b, ptr
  <1>3. \A n \in ptr .. Len(b) - 2 : Slice(b, n, 2) = CRLF <=> CRLFAt(b, n)
    <2> TAKE n \in ptr .. Len(b) - 2
    <2>1. n \in Nat /\ n + 2 <= Len(b)
      BY <1>1
    <2> QED  BY <1>1, <2>1, SliceIsCRLF
  <1> QED  BY <1>2, <1>3 DEF b, ptr

LEMMA MatchesBlank ==
    ASSUME NEW p \in Parser
    PROVE  Matches(p, CRLF \o CRLF) =
               {n \in p.m_uiRequestPtr .. Len(p.m_buffer) - 4 : BlankAt(p.m_buffer, n)}
  <1> DEFINE b == p.m_buffer
             ptr == p.m_uiRequestPtr
  <1>1. b \in Seq(Tokens) /\ Len(b) \in Nat /\ ptr \in Nat
    BY ParserAssumption, LenProperties DEF Parser
  <1>2. Matches(p, CRLF \o CRLF) = {n \in ptr .. Len(b) - 4 : Slice(b, n, 4) = CRLF \o CRLF}
    BY Patterns DEF Matches, CurrentBufferSize
  <1> HIDE DEF b, ptr
  <1>3. \A n \in ptr .. Len(b) - 4 : Slice(b, n, 4) = CRLF \o CRLF <=> BlankAt(b, n)
    <2> TAKE n \in ptr .. Len(b) - 4
    <2>1. n \in Nat /\ n + 4 <= Len(b)
      BY <1>1
    <2> QED  BY <1>1, <2>1, SliceIsBlank
  <1> QED  BY <1>2, <1>3 DEF b, ptr

LEMMA ScanEnds ==
    ASSUME NEW p \in Parser
    PROVE  /\ ScanEnd(p, CRLF) =
                  IF p.m_uiRequestPtr >= Len(p.m_buffer) - 1 THEN p.m_uiRequestPtr ELSE Len(p.m_buffer) - 1
           /\ ScanEnd(p, CRLF \o CRLF) =
                  IF p.m_uiRequestPtr >= Len(p.m_buffer) - 3 THEN p.m_uiRequestPtr ELSE Len(p.m_buffer) - 3
  <1>1. Len(p.m_buffer) \in Nat /\ p.m_uiRequestPtr \in Nat
    BY ParserAssumption, LenProperties DEF Parser
  <1>2. Len(p.m_buffer) - 2 + 1 = Len(p.m_buffer) - 1 /\ Len(p.m_buffer) - 4 + 1 = Len(p.m_buffer) - 3
    BY <1>1
  <1>3. /\ ScanEnd(p, CRLF) = Max({p.m_uiRequestPtr, Len(p.m_buffer) - 1})
        /\ ScanEnd(p, CRLF \o CRLF) = Max({p.m_uiRequestPtr, Len(p.m_buffer) - 3})
    BY <1>2, Patterns DEF ScanEnd, CurrentBufferSize
  <1> QED  BY <1>1, <1>3, MaxOfTwo

(* The stated size of a body is a number, and the line that states it is   *)
(* one of the header.                                                      *)
LEMMA LastLengthLine ==
    ASSUME NEW S, NEW header \in Seq(S), LengthLines(header) # {}
    PROVE  Max(LengthLines(header)) \in LengthLines(header)
  <1>1. LengthLines(header) \subseteq DOMAIN header
    BY DEF LengthLines
  <1>2. LengthLines(header) \subseteq 0 .. Len(header) /\ Len(header) \in Nat
    BY <1>1, LenProperties
  <1> QED  BY <1>2, Greatest

LEMMA BodySizeType ==
    ASSUME NEW S, NEW header \in Seq(S)
    PROVE  BodySize(header) \in Nat
  <1>1. CASE LengthLines(header) = {}
    BY <1>1 DEF BodySize
  <1>2. CASE LengthLines(header) # {}
    <2>1. header[Max(LengthLines(header))] \in DOMAIN ContentLength
      BY <1>2, LastLengthLine DEF LengthLines
    <2> QED  BY <1>2, <2>1, ParserAssumption DEF BodySize
  <1> QED  BY <1>1, <1>2

LEMMA ThrowsForNumber ==
    ASSUME NEW S, NEW header \in Seq(S), LengthThrows(header)
    PROVE  \E i \in DOMAIN header : header[i] \in NotNumbers
  <1>1. Max(LengthLines(header)) \in LengthLines(header)
    BY LastLengthLine DEF LengthThrows
  <1> QED  BY <1>1 DEF LengthThrows, LengthLines
-----------------------------------------------------------------------------
(* A parser whose pointers are where its phase has brought them. *)
Sound(p) ==
    /\ p \in Parser
    /\ Len(p.m_buffer) <= MAX_REQUEST_SIZE
    /\ p.m_uiCurrentRequestSize <= Len(p.m_buffer)
    /\ p.m_uiRequestPtr <= Len(p.m_buffer)
    /\ p.m_eState = "Header" => p.m_oHeaderInfo.start <= p.m_uiRequestPtr
    /\ p.m_eState = "Body" => p.m_oBodyInfo.start <= p.m_uiRequestPtr

LEMMA SoundNumbers ==
    ASSUME NEW p, Sound(p)
    PROVE  /\ Len(p.m_buffer) \in Nat /\ p.m_uiRequestPtr \in Nat /\ p.m_buffer \in Seq(Tokens)
           /\ p.m_oHeaderInfo.start \in Nat /\ p.m_oHeaderInfo.size \in Nat
           /\ p.m_oBodyInfo.start \in Nat /\ p.m_oBodyInfo.size \in Nat
           /\ MAX_REQUEST_SIZE \in Nat /\ p.m_oRequest \in HttpRequest
  BY ParserAssumption, LenProperties DEF Sound, Parser, PhaseInfo

(* The body is finished, or everything in the buffer belongs to it. *)
LEMMA BodyPhase ==
    ASSUME NEW p, Sound(p), p.m_eState = "Body"
    PROVE  LET q == ParseBody(p).parser
               body == p.m_oBodyInfo
           IN  /\ Sound(q) /\ q.m_buffer = p.m_buffer
               /\ \/ /\ ParseBody(p).status = "Done"
                     /\ q.m_eState = "Finished"
                     /\ p.m_uiRequestPtr + body.size <= Len(p.m_buffer)
                     /\ q.m_uiCurrentRequestSize =
                            IF body.size = 0 THEN p.m_uiRequestPtr ELSE body.start + body.size
                     /\ q.m_oRequest = [p.m_oRequest EXCEPT !.body = Slice(p.m_buffer, body.start, body.size)]
                  \/ /\ ParseBody(p).status = "InProgress"
                     /\ q = [p EXCEPT !.m_uiRequestPtr = Len(p.m_buffer)]
                     /\ p.m_uiRequestPtr + body.size > Len(p.m_buffer)
  <1> DEFINE b == p.m_buffer
             ptr == p.m_uiRequestPtr
             start == p.m_oBodyInfo.start
             size == p.m_oBodyInfo.size
             end == IF size = 0 THEN ptr ELSE start + size
             r == [p.m_oRequest EXCEPT !.body = Slice(b, start, size)]
             done == [p EXCEPT !.m_uiRequestPtr = end,
                               !.m_uiCurrentRequestSize = end,
                               !.m_eState = "Finished",
                               !.m_oRequest = r]
             more == [p EXCEPT !.m_uiRequestPtr = Len(b)]
  <1>1. /\ b \in Seq(Tokens) /\ Len(b) \in 0 .. MAX_REQUEST_SIZE /\ ptr \in 0 .. Len(b)
        /\ start \in 0 .. ptr /\ size \in Nat /\ p.m_oRequest \in HttpRequest /\ p \in Parser
        /\ MAX_REQUEST_SIZE \in Nat /\ Len(b) \in Nat
    BY SoundNumbers DEF Sound
  <1>2. CASE ptr + size <= Len(b)
    <2>1. ParseBody(p) = Result(done, "Done")
      <3>1. Len(b) - ptr >= size
        BY <1>1, <1>2
      <3> QED  BY <3>1 DEF ParseBody, BodyComplete, CurrentBufferSize
    <2>2. end \in 0 .. Len(b) /\ end \in 0 .. MAX_REQUEST_SIZE
      <3> HIDE DEF b, ptr, start, size
      <3>1. start + size \in 0 .. Len(b) /\ ptr \in 0 .. Len(b)
        BY <1>1, <1>2
      <3>2. 0 .. Len(b) \subseteq 0 .. MAX_REQUEST_SIZE
        BY <1>1
      <3> QED  BY <3>1, <3>2
    <2>3. r \in HttpRequest
      <3>1. Slice(b, start, size) \in Seq(Tokens)
        BY <1>1, <1>2, SliceProperties
      <3> QED  BY <1>1, <3>1 DEF HttpRequest
    <2> HIDE DEF end, r
    <2>4. done \in Parser
      BY <1>1, <2>2, <2>3 DEF Parser
    <2>5. /\ done.m_buffer = b /\ done.m_eState = "Finished" /\ done.m_oRequest = r
          /\ done.m_uiCurrentRequestSize = end /\ done.m_uiRequestPtr = end
      BY <1>1 DEF Parser
    <2> HIDE DEF done
    <2>6. Sound(done)
      BY <1>1, <2>2, <2>4, <2>5 DEF Sound
    <2> QED  BY <1>2, <2>1, <2>5, <2>6 DEF Result, end, r
  <1>3. CASE ~(ptr + size <= Len(b))
    <2>1. ParseBody(p) = Result(more, "InProgress")
      <3>1. ~(Len(b) - ptr >= size)
        BY <1>1, <1>3
      <3> QED  BY <3>1 DEF ParseBody, BodyComplete, CurrentBufferSize
    <2>2. /\ more \in Parser /\ more.m_buffer = b /\ more.m_uiRequestPtr = Len(b)
          /\ more.m_uiCurrentRequestSize = p.m_uiCurrentRequestSize
          /\ more.m_eState = "Body" /\ more.m_oBodyInfo = p.m_oBodyInfo
      BY <1>1 DEF Parser
    <2>3. Sound(more)
      BY <1>1, <2>2 DEF Sound
    <2>4. ptr + size > Len(b)
      BY <1>1, <1>3
    <2>5. ParseBody(p).parser = more /\ ParseBody(p).status = "InProgress"
      BY <2>1 DEF Result
    <2> QED  BY <2>2, <2>3, <2>4, <2>5
  <1> QED  BY <1>2, <1>3

(* A scan that finds nothing ends behind the places it has seen. *)
Scanned(p, pattern) == [p EXCEPT !.m_uiRequestPtr = ScanEnd(p, pattern)]

LEMMA ScannedIsSound ==
    ASSUME NEW p, Sound(p), NEW pattern \in {CRLF, CRLF \o CRLF}
    PROVE  /\ Sound(Scanned(p, pattern))
           /\ Scanned(p, pattern).m_uiRequestPtr = ScanEnd(p, pattern)
           /\ ScanEnd(p, pattern) \in p.m_uiRequestPtr .. Len(p.m_buffer)
           /\ \A f \in DOMAIN p \ {"m_uiRequestPtr"} : Scanned(p, pattern)[f] = p[f]
  <1> DEFINE end == ScanEnd(p, pattern)
             q == Scanned(p, pattern)
  <1>1. /\ p \in Parser /\ Len(p.m_buffer) \in Nat /\ MAX_REQUEST_SIZE \in Nat
        /\ p.m_uiRequestPtr \in Nat /\ p.m_uiRequestPtr <= Len(p.m_buffer)
        /\ Len(p.m_buffer) <= MAX_REQUEST_SIZE
    BY SoundNumbers DEF Sound
  <1>2. end \in p.m_uiRequestPtr .. Len(p.m_buffer)
    <2>1. \/ end = p.m_uiRequestPtr
          \/ end = Len(p.m_buffer) - 1 /\ ~(p.m_uiRequestPtr >= Len(p.m_buffer) - 1)
          \/ end = Len(p.m_buffer) - 3 /\ ~(p.m_uiRequestPtr >= Len(p.m_buffer) - 3)
      BY <1>1, ScanEnds, Zenon
    <2> HIDE DEF end
    <2> QED  BY <1>1, <2>1
  <1>3. end \in 0 .. MAX_REQUEST_SIZE
    BY <1>1, <1>2
  <1>4. q = [p EXCEPT !.m_uiRequestPtr = end]
    BY DEF Scanned
  <1> HIDE DEF end, q
  <1>5. q \in Parser
    BY <1>1, <1>3, <1>4 DEF Parser
  <1>6. /\ q.m_uiRequestPtr = end /\ q.m_buffer = p.m_buffer /\ q.m_eState = p.m_eState
        /\ q.m_uiCurrentRequestSize = p.m_uiCurrentRequestSize
        /\ q.m_oHeaderInfo = p.m_oHeaderInfo /\ q.m_oBodyInfo = p.m_oBodyInfo
    BY <1>1, <1>4 DEF Parser
  <1>7. Sound(q)
    <2>1. p.m_oHeaderInfo.start \in Nat /\ p.m_oBodyInfo.start \in Nat
      BY SoundNumbers
    <2> QED  BY <1>1, <1>2, <1>5, <1>6, <2>1 DEF Sound
  <1>8. \A f \in DOMAIN p \ {"m_uiRequestPtr"} : q[f] = p[f]
    BY <1>4
  <1> QED  BY <1>2, <1>6, <1>7, <1>8 DEF end, q

(* The header up to an offset, and the parser when it goes on behind it. *)
HeaderTo(p, end) == Slice(p.m_buffer, p.m_oHeaderInfo.start, end - p.m_oHeaderInfo.start)
HasColons(header) == \A line \in Lines(header) : ToSet(line) \cap HeaderLines # {}

InBody(p, end) ==
    [p EXCEPT !.m_uiRequestPtr = end + 4,
              !.m_eState = "Body",
              !.m_oHeaderInfo = [p.m_oHeaderInfo EXCEPT !.size = end - p.m_oHeaderInfo.start],
              !.m_oBodyInfo = [start |-> end + 4, size |-> BodySize(HeaderTo(p, end))],
              !.m_oRequest = [p.m_oRequest EXCEPT !.header = HeaderTo(p, end)]]

FirstBlank(p, end) ==
    /\ end \in p.m_uiRequestPtr .. Len(p.m_buffer) - 4
    /\ BlankAt(p.m_buffer, end)
    /\ \A n \in p.m_uiRequestPtr .. end - 1 : ~BlankAt(p.m_buffer, n)

LEMMA InBodyIsSound ==
    ASSUME NEW p, Sound(p), p.m_eState = "Header", NEW end, FirstBlank(p, end)
    PROVE  LET b == InBody(p, end)
           IN  /\ Sound(b) /\ b.m_eState = "Body" /\ b.m_buffer = p.m_buffer
               /\ b.m_uiRequestPtr = end + 4
               /\ b.m_oBodyInfo = [start |-> end + 4, size |-> BodySize(HeaderTo(p, end))]
               /\ b.m_oRequest = [p.m_oRequest EXCEPT !.header = HeaderTo(p, end)]
               /\ HeaderTo(p, end) \in Seq(Tokens)
               /\ BodySize(HeaderTo(p, end)) \in Nat
  <1> DEFINE start == p.m_oHeaderInfo.start
             header == HeaderTo(p, end)
             info == [p.m_oHeaderInfo EXCEPT !.size = end - start]
             body == [start |-> end + 4, size |-> BodySize(header)]
             r == [p.m_oRequest EXCEPT !.header = header]
             b == InBody(p, end)
  <1>1. /\ p \in Parser /\ Len(p.m_buffer) \in Nat /\ MAX_REQUEST_SIZE \in Nat
        /\ p.m_uiRequestPtr \in Nat /\ p.m_buffer \in Seq(Tokens)
        /\ Len(p.m_buffer) <= MAX_REQUEST_SIZE
        /\ start \in Nat /\ start <= p.m_uiRequestPtr
        /\ p.m_oHeaderInfo \in PhaseInfo /\ p.m_oRequest \in HttpRequest
        /\ p.m_uiCurrentRequestSize <= Len(p.m_buffer)
    BY SoundNumbers DEF Sound, Parser
  <1>2. end \in Nat /\ end + 4 <= Len(p.m_buffer) /\ start <= end /\ end - start \in Nat
    BY <1>1 DEF FirstBlank
  <1>3. header \in Seq(Tokens)
    <2>1. start + (end - start) <= Len(p.m_buffer)
      BY <1>1, <1>2
    <2>2. header = Slice(p.m_buffer, start, end - start)
      BY DEF HeaderTo
    <2>3. start \in Nat /\ end - start \in Nat /\ p.m_buffer \in Seq(Tokens)
      BY <1>1, <1>2
    <2> HIDE DEF header, start, info, body, r, b
    <2>4. Slice(p.m_buffer, start, end - start) \in Seq(Tokens)
      BY <2>1, <2>3, SliceProperties
    <2> QED  BY <2>2, <2>4
  <1>4. BodySize(header) \in Nat
    BY <1>3, BodySizeType
  <1>5. b = [p EXCEPT !.m_uiRequestPtr = end + 4, !.m_eState = "Body", !.m_oHeaderInfo = info,
                      !.m_oBodyInfo = body, !.m_oRequest = r]
    BY DEF InBody
  <1>6. info \in PhaseInfo /\ body \in PhaseInfo /\ end + 4 \in 0 .. MAX_REQUEST_SIZE
    <2> HIDE DEF header
    <2> QED  BY <1>1, <1>2, <1>4 DEF PhaseInfo
  <1>7. r \in HttpRequest
    <2> HIDE DEF header
    <2> QED  BY <1>1, <1>3 DEF HttpRequest
  <1>8. body.start = end + 4
    OBVIOUS
  <1> HIDE DEF info, body, r, b
  <1>9. b \in Parser
    BY <1>1, <1>5, <1>6, <1>7 DEF Parser
  <1>10. /\ b.m_buffer = p.m_buffer /\ b.m_eState = "Body" /\ b.m_uiRequestPtr = end + 4
         /\ b.m_oBodyInfo = body /\ b.m_oRequest = r
         /\ b.m_uiCurrentRequestSize = p.m_uiCurrentRequestSize
    BY <1>1, <1>5 DEF Parser
  <1>11. Sound(b)
    BY <1>1, <1>2, <1>8, <1>9, <1>10 DEF Sound
  <1> QED  BY <1>3, <1>4, <1>10, <1>11 DEF b, body, r

LEMMA HeaderPhase ==
    ASSUME NEW p, Sound(p), p.m_eState = "Header"
    PROVE  \/ /\ \A n \in p.m_uiRequestPtr .. Len(p.m_buffer) - 4 : ~BlankAt(p.m_buffer, n)
              /\ ParseHeader(p) = Result(Scanned(p, CRLF \o CRLF), "InProgress")
           \/ \E end : /\ FirstBlank(p, end)
                       /\ \/ ~HasColons(HeaderTo(p, end)) /\ ParseHeader(p).status = "Failed"
                          \/ LengthThrows(HeaderTo(p, end)) /\ ParseHeader(p).status = "Threw"
                       /\ Sound(ParseHeader(p).parser)
                       /\ ParseHeader(p).parser.m_buffer = p.m_buffer
                       /\ ParseHeader(p).parser.m_eState = "Header"
           \/ \E end : /\ FirstBlank(p, end)
                       /\ ParseHeader(p) = ParseBody(InBody(p, end))
  <1> DEFINE found == Matches(p, CRLF \o CRLF)
             end == Min(found)
             start == p.m_oHeaderInfo.start
             info == [p.m_oHeaderInfo EXCEPT !.size = end - start]
             failed == [p EXCEPT !.m_uiRequestPtr = end, !.m_oHeaderInfo = info]
  <1>1. /\ p \in Parser /\ Len(p.m_buffer) \in Nat /\ MAX_REQUEST_SIZE \in Nat
        /\ p.m_uiRequestPtr \in Nat /\ p.m_buffer \in Seq(Tokens)
        /\ Len(p.m_buffer) <= MAX_REQUEST_SIZE
        /\ start \in Nat /\ start <= p.m_uiRequestPtr
        /\ p.m_oHeaderInfo \in PhaseInfo
        /\ p.m_uiCurrentRequestSize <= Len(p.m_buffer)
    BY SoundNumbers DEF Sound, Parser
  <1>2. found = {n \in p.m_uiRequestPtr .. Len(p.m_buffer) - 4 : BlankAt(p.m_buffer, n)}
    BY <1>1, MatchesBlank
  <1>3. CASE found = {}
    <2>1. ParseHeader(p) = Result(Scanned(p, CRLF \o CRLF), "InProgress")
      BY <1>3 DEF ParseHeader, Scanned
    <2> QED  BY <1>2, <1>3, <2>1
  <1>4. CASE found # {}
    <2>1. end \in found /\ \A n \in found : end <= n
      <3>1. found \subseteq Nat
        BY <1>1, <1>2
      <3> HIDE DEF found
      <3> QED  BY <1>4, <3>1, Least
    <2>2. FirstBlank(p, end)
      <3> HIDE DEF end, found
      <3> QED  BY <1>1, <1>2, <2>1 DEF FirstBlank
    <2>3. end \in Nat /\ end + 4 <= Len(p.m_buffer) /\ start <= end /\ end - start \in Nat
      <3> HIDE DEF end
      <3> QED  BY <1>1, <2>2 DEF FirstBlank
    <2>4. info.start = start /\ info.size = end - start
      BY <1>1 DEF PhaseInfo
    <2>5. Slice(p.m_buffer, info.start, info.size) = HeaderTo(p, end)
      BY <2>4 DEF HeaderTo
    <2>6. ASSUME NEW s,
                 \/ ~HasColons(HeaderTo(p, end)) /\ s = "Failed"
                 \/ HasColons(HeaderTo(p, end)) /\ LengthThrows(HeaderTo(p, end)) /\ s = "Threw"
          PROVE  /\ ParseHeader(p).status = s /\ Sound(ParseHeader(p).parser)
                 /\ ParseHeader(p).parser.m_buffer = p.m_buffer
                 /\ ParseHeader(p).parser.m_eState = "Header"
      <3>1. ParseHeader(p) = Result(failed, s)
        BY <1>4, <2>5, <2>6 DEF ParseHeader, HasColons
      <3>2. info \in PhaseInfo /\ end \in 0 .. MAX_REQUEST_SIZE
        <4> HIDE DEF end
        <4> QED  BY <1>1, <2>3 DEF PhaseInfo
      <3> HIDE DEF info
      <3>3. /\ failed \in Parser /\ failed.m_buffer = p.m_buffer /\ failed.m_eState = "Header"
            /\ failed.m_uiRequestPtr = end /\ failed.m_oHeaderInfo = info
            /\ failed.m_uiCurrentRequestSize = p.m_uiCurrentRequestSize
        <4> HIDE DEF end
        <4> QED  BY <1>1, <3>2 DEF Parser
      <3> HIDE DEF failed, end
      <3>4. Sound(failed)
        BY <1>1, <2>3, <2>4, <3>3 DEF Sound
      <3>5. ParseHeader(p).parser = failed /\ ParseHeader(p).status = s
        BY <3>1 DEF Result
      <3> QED  BY <3>3, <3>4, <3>5
    <2>7. CASE HasColons(HeaderTo(p, end)) /\ ~LengthThrows(HeaderTo(p, end))
      <3>1. info.start + info.size + 4 = end + 4
        <4> HIDE DEF end, info
        <4> QED  BY <1>1, <2>3, <2>4
      <3>2. ParseHeader(p) = ParseBody(InBody(p, end))
        BY <1>4, <2>5, <2>7, <3>1 DEF ParseHeader, HasColons, InBody
      <3> QED  BY <2>2, <3>2
    <2>8. CASE ~HasColons(HeaderTo(p, end))
      BY <2>2, <2>6, <2>8
    <2>9. CASE HasColons(HeaderTo(p, end)) /\ LengthThrows(HeaderTo(p, end))
      BY <2>2, <2>6, <2>9
    <2> QED  BY <2>7, <2>8, <2>9
  <1> QED  BY <1>3, <1>4

(* The request line up to an offset, and the parser when it goes on behind *)
(* it.                                                                     *)
LineTo(p, end) == Slice(p.m_buffer, 0, end)
IsLine(line) == \E token \in RequestLines : line = <<token>>

InHeader(p, end) ==
    [p EXCEPT !.m_uiRequestPtr = end + 2,
              !.m_eState = "Header",
              !.m_oHeaderInfo = [p.m_oHeaderInfo EXCEPT !.start = end + 2],
              !.m_oRequest = [p.m_oRequest EXCEPT !.line = LineTo(p, end)]]

FirstCRLF(p, end) ==
    /\ end \in p.m_uiRequestPtr .. Len(p.m_buffer) - 2
    /\ CRLFAt(p.m_buffer, end)
    /\ \A n \in p.m_uiRequestPtr .. end - 1 : ~CRLFAt(p.m_buffer, n)

LEMMA InHeaderIsSound ==
    ASSUME NEW p, Sound(p), NEW end, FirstCRLF(p, end)
    PROVE  LET h == InHeader(p, end)
           IN  /\ Sound(h) /\ h.m_eState = "Header" /\ h.m_buffer = p.m_buffer
               /\ h.m_uiRequestPtr = end + 2
               /\ h.m_oHeaderInfo.start = end + 2
               /\ h.m_oRequest = [p.m_oRequest EXCEPT !.line = LineTo(p, end)]
               /\ LineTo(p, end) \in Seq(Tokens)
  <1> DEFINE line == LineTo(p, end)
             info == [p.m_oHeaderInfo EXCEPT !.start = end + 2]
             r == [p.m_oRequest EXCEPT !.line = line]
             h == InHeader(p, end)
  <1>1. /\ p \in Parser /\ Len(p.m_buffer) \in Nat /\ MAX_REQUEST_SIZE \in Nat
        /\ p.m_uiRequestPtr \in Nat /\ p.m_buffer \in Seq(Tokens)
        /\ Len(p.m_buffer) <= MAX_REQUEST_SIZE
        /\ p.m_oHeaderInfo \in PhaseInfo /\ p.m_oRequest \in HttpRequest
        /\ p.m_uiCurrentRequestSize <= Len(p.m_buffer)
    BY SoundNumbers DEF Sound, Parser
  <1>2. end \in Nat /\ end + 2 <= Len(p.m_buffer)
    BY <1>1 DEF FirstCRLF
  <1>3. line \in Seq(Tokens)
    BY <1>1, <1>2, SliceProperties DEF LineTo
  <1>4. h = [p EXCEPT !.m_uiRequestPtr = end + 2, !.m_eState = "Header", !.m_oHeaderInfo = info, !.m_oRequest = r]
    BY DEF InHeader
  <1>5. info \in PhaseInfo /\ end + 2 \in 0 .. MAX_REQUEST_SIZE /\ info.start = end + 2
    BY <1>1, <1>2 DEF PhaseInfo
  <1>6. r \in HttpRequest
    <2> HIDE DEF line
    <2> QED  BY <1>1, <1>3 DEF HttpRequest
  <1> HIDE DEF info, r, h
  <1>7. h \in Parser
    BY <1>1, <1>4, <1>5, <1>6 DEF Parser
  <1>8. /\ h.m_buffer = p.m_buffer /\ h.m_eState = "Header" /\ h.m_uiRequestPtr = end + 2
        /\ h.m_oHeaderInfo = info /\ h.m_oRequest = r
        /\ h.m_uiCurrentRequestSize = p.m_uiCurrentRequestSize
    BY <1>1, <1>4 DEF Parser
  <1>9. Sound(h)
    BY <1>1, <1>2, <1>5, <1>7, <1>8 DEF Sound
  <1> QED  BY <1>3, <1>5, <1>8, <1>9 DEF h, r

LEMMA LinePhase ==
    ASSUME NEW p, Sound(p), p.m_eState = "RequestLine"
    PROVE  \/ /\ \A n \in p.m_uiRequestPtr .. Len(p.m_buffer) - 2 : ~CRLFAt(p.m_buffer, n)
              /\ ParseRequestLine(p) = Result(Scanned(p, CRLF), "InProgress")
           \/ \E end : /\ FirstCRLF(p, end)
                       /\ \/ ~IsLine(LineTo(p, end)) /\ ParseRequestLine(p).status = "Failed"
                          \/ /\ IsLine(LineTo(p, end)) /\ LineTo(p, end)[1] \in NotNumbers
                             /\ ParseRequestLine(p).status = "Threw"
                       /\ Sound(ParseRequestLine(p).parser)
                       /\ ParseRequestLine(p).parser.m_buffer = p.m_buffer
                       /\ ParseRequestLine(p).parser.m_eState = "RequestLine"
           \/ \E end : /\ FirstCRLF(p, end)
                       /\ IsLine(LineTo(p, end))
                       /\ ParseRequestLine(p) = ParseHeader(InHeader(p, end))
  <1> DEFINE found == Matches(p, CRLF)
             end == Min(found)
             failed == [p EXCEPT !.m_uiRequestPtr = end]
  <1>1. /\ p \in Parser /\ Len(p.m_buffer) \in Nat /\ MAX_REQUEST_SIZE \in Nat
        /\ p.m_uiRequestPtr \in Nat /\ p.m_buffer \in Seq(Tokens)
        /\ Len(p.m_buffer) <= MAX_REQUEST_SIZE
        /\ p.m_uiCurrentRequestSize <= Len(p.m_buffer)
    BY SoundNumbers DEF Sound, Parser
  <1>2. found = {n \in p.m_uiRequestPtr .. Len(p.m_buffer) - 2 : CRLFAt(p.m_buffer, n)}
    BY <1>1, MatchesCRLF
  <1>3. CASE found = {}
    <2>1. ParseRequestLine(p) = Result(Scanned(p, CRLF), "InProgress")
      BY <1>3 DEF ParseRequestLine, Scanned
    <2> QED  BY <1>2, <1>3, <2>1
  <1>4. CASE found # {}
    <2>1. end \in found /\ \A n \in found : end <= n
      <3>1. found \subseteq Nat
        BY <1>1, <1>2
      <3> HIDE DEF found
      <3> QED  BY <1>4, <3>1, Least
    <2>2. FirstCRLF(p, end)
      <3> HIDE DEF end, found
      <3> QED  BY <1>1, <1>2, <2>1 DEF FirstCRLF
    <2>3. end \in Nat /\ end + 2 <= Len(p.m_buffer)
      <3> HIDE DEF end
      <3> QED  BY <1>1, <2>2 DEF FirstCRLF
    <2>4. ASSUME NEW s,
                 \/ ~IsLine(LineTo(p, end)) /\ s = "Failed"
                 \/ IsLine(LineTo(p, end)) /\ LineTo(p, end)[1] \in NotNumbers /\ s = "Threw"
          PROVE  /\ ParseRequestLine(p).status = s /\ Sound(ParseRequestLine(p).parser)
                 /\ ParseRequestLine(p).parser.m_buffer = p.m_buffer
                 /\ ParseRequestLine(p).parser.m_eState = "RequestLine"
      <3>1. ParseRequestLine(p) = Result(failed, s)
        BY <1>4, <2>4 DEF ParseRequestLine, IsLine, LineTo
      <3>2. /\ failed \in Parser /\ failed.m_buffer = p.m_buffer /\ failed.m_eState = "RequestLine"
            /\ failed.m_uiRequestPtr = end
            /\ failed.m_uiCurrentRequestSize = p.m_uiCurrentRequestSize
        <4>1. end \in 0 .. MAX_REQUEST_SIZE
          <5> HIDE DEF end
          <5> QED  BY <1>1, <2>3
        <4> HIDE DEF end
        <4> QED  BY <1>1, <4>1 DEF Parser
      <3> HIDE DEF failed, end
      <3>3. Sound(failed)
        BY <1>1, <2>3, <3>2 DEF Sound
      <3>4. ParseRequestLine(p).parser = failed /\ ParseRequestLine(p).status = s
        BY <3>1 DEF Result
      <3> QED  BY <3>2, <3>3, <3>4
    <2>5. CASE IsLine(LineTo(p, end)) /\ LineTo(p, end)[1] \notin NotNumbers
      <3>1. ParseRequestLine(p) = ParseHeader(InHeader(p, end))
        BY <1>4, <2>5 DEF ParseRequestLine, IsLine, LineTo, InHeader
      <3> QED  BY <2>2, <2>5, <3>1
    <2>6. CASE ~IsLine(LineTo(p, end))
      BY <2>2, <2>4, <2>6
    <2>7. CASE IsLine(LineTo(p, end)) /\ LineTo(p, end)[1] \in NotNumbers
      BY <2>2, <2>4, <2>7
    <2> QED  BY <2>5, <2>6, <2>7
  <1> QED  BY <1>3, <1>4
-----------------------------------------------------------------------------
(* A call of Parse. *)
LEMMA PhaseTypes ==
    ASSUME NEW p, Sound(p), p.m_eState # "Finished"
    PROVE  LET q == ParsePhase(p).parser
               s == ParsePhase(p).status
           IN  /\ Sound(q) /\ q.m_buffer = p.m_buffer
               /\ \/ s = "Done" /\ q.m_eState = "Finished"
                  \/ s \in {"InProgress", "Failed", "Threw"} /\ q.m_eState # "Finished"
  <1> DEFINE Typed(result) ==
                 /\ Sound(result.parser) /\ result.parser.m_buffer = p.m_buffer
                 /\ \/ result.status = "Done" /\ result.parser.m_eState = "Finished"
                    \/ result.status \in {"InProgress", "Failed", "Threw"} /\ result.parser.m_eState # "Finished"
  <1>1. ASSUME NEW b, Sound(b), b.m_eState = "Body", b.m_buffer = p.m_buffer
        PROVE  Typed(ParseBody(b))
    <2>1. b \in Parser
      BY <1>1 DEF Sound
    <2>2. [b EXCEPT !.m_uiRequestPtr = Len(b.m_buffer)].m_eState = b.m_eState
      BY <2>1 DEF Parser
    <2> QED  BY <1>1, <2>2, BodyPhase
  <1>2. ASSUME NEW q, Sound(q), q.m_eState # "Finished", q.m_buffer = p.m_buffer,
               NEW pattern \in {CRLF, CRLF \o CRLF}
        PROVE  Typed(Result(Scanned(q, pattern), "InProgress"))
    <2>1. q \in Parser
      BY <1>2 DEF Sound
    <2>2. Sound(Scanned(q, pattern))
      BY <1>2, ScannedIsSound
    <2>3. Scanned(q, pattern).m_eState = q.m_eState /\ Scanned(q, pattern).m_buffer = q.m_buffer
      BY <2>1 DEF Scanned, Parser
    <2> QED  BY <1>2, <2>2, <2>3 DEF Result
  <1>3. ASSUME NEW h, Sound(h), h.m_eState = "Header", h.m_buffer = p.m_buffer
        PROVE  Typed(ParseHeader(h))
    <2>1. ASSUME NEW end, FirstBlank(h, end), ParseHeader(h) = ParseBody(InBody(h, end))
          PROVE  Typed(ParseHeader(h))
      <3>1. /\ Sound(InBody(h, end)) /\ InBody(h, end).m_eState = "Body"
            /\ InBody(h, end).m_buffer = h.m_buffer
        BY ONLY <1>3, <2>1, InBodyIsSound
      <3> HIDE DEF Typed
      <3> QED  BY <1>1, <1>3, <2>1, <3>1
    <2>2. Typed(Result(Scanned(h, CRLF \o CRLF), "InProgress"))
      <3> HIDE DEF Typed
      <3> QED  BY <1>2, <1>3
    <2>3. CASE ParseHeader(h) = Result(Scanned(h, CRLF \o CRLF), "InProgress")
      BY <2>2, <2>3
    <2>4. CASE /\ ParseHeader(h).status \in {"Failed", "Threw"} /\ Sound(ParseHeader(h).parser)
               /\ ParseHeader(h).parser.m_buffer = h.m_buffer /\ ParseHeader(h).parser.m_eState = "Header"
      BY <1>3, <2>4
    <2> HIDE DEF Typed
    <2> QED  BY <1>3, <2>1, <2>3, <2>4, HeaderPhase
  <1>4. ASSUME p.m_eState = "RequestLine"
        PROVE  Typed(ParseRequestLine(p))
    <2>1. ASSUME NEW end, FirstCRLF(p, end), ParseRequestLine(p) = ParseHeader(InHeader(p, end))
          PROVE  Typed(ParseRequestLine(p))
      <3>1. /\ Sound(InHeader(p, end)) /\ InHeader(p, end).m_eState = "Header"
            /\ InHeader(p, end).m_buffer = p.m_buffer
        BY <2>1, InHeaderIsSound
      <3> HIDE DEF Typed
      <3> QED  BY <1>3, <2>1, <3>1
    <2>2. Typed(Result(Scanned(p, CRLF), "InProgress"))
      <3> HIDE DEF Typed
      <3> QED  BY <1>2, <1>4
    <2>3. CASE ParseRequestLine(p) = Result(Scanned(p, CRLF), "InProgress")
      BY <2>2, <2>3
    <2>4. CASE /\ ParseRequestLine(p).status \in {"Failed", "Threw"} /\ Sound(ParseRequestLine(p).parser)
               /\ ParseRequestLine(p).parser.m_buffer = p.m_buffer
               /\ ParseRequestLine(p).parser.m_eState = "RequestLine"
      BY <2>4
    <2> HIDE DEF Typed
    <2> QED  BY <1>4, <2>1, <2>3, <2>4, LinePhase
  <1>5. p.m_eState \in {"RequestLine", "Header", "Body"}
    BY DEF Sound, Parser
  <1>6. /\ p.m_eState = "RequestLine" => ParsePhase(p) = ParseRequestLine(p)
        /\ p.m_eState = "Header" => ParsePhase(p) = ParseHeader(p)
        /\ p.m_eState = "Body" => ParsePhase(p) = ParseBody(p)
    BY DEF ParsePhase
  <1>7. Typed(ParsePhase(p))
    <2> HIDE DEF Typed
    <2> QED  BY <1>1, <1>3, <1>4, <1>5, <1>6
  <1> QED  BY <1>7

LEMMA ResetIsSound ==
    ASSUME NEW buffer \in Seq(Tokens), Len(buffer) <= MAX_REQUEST_SIZE
    PROVE  /\ Sound(Reset(buffer)) /\ Reset(buffer).m_eState = "RequestLine"
           /\ Reset(buffer).m_buffer = buffer /\ Reset(buffer).m_uiRequestPtr = 0
           /\ Reset(buffer).m_oRequest = NoRequest
  <1>1. NoRequest \in HttpRequest
    BY EmptySeq DEF NoRequest, HttpRequest
  <1>2. [start |-> 0, size |-> 0] \in PhaseInfo /\ 0 \in 0 .. MAX_REQUEST_SIZE /\ Len(buffer) \in Nat
    BY ParserAssumption, LenProperties DEF PhaseInfo
  <1> QED  BY <1>1, <1>2 DEF Reset, Sound, Parser

LEMMA CallTypes ==
    ASSUME NEW p, Sound(p), p.m_eState # "Finished"
    PROVE  LET result == ParseBuffer(p)
           IN  /\ Sound(result.parser)
               /\ result.status \in {"InProgress", "Done", "Failed", "Threw", "Crashed"}
               /\ result.status \in {"InProgress", "Done"} => result.parser.m_eState # "Finished"
               /\ result.status = "Done" => ParsePhase(p).parser.m_oRequest \in HttpRequest
  <1> DEFINE phase == ParsePhase(p)
             q == phase.parser
  <1>1. /\ Sound(q) /\ q.m_buffer = p.m_buffer
        /\ \/ phase.status = "Done" /\ q.m_eState = "Finished"
           \/ phase.status \in {"InProgress", "Failed", "Threw"} /\ q.m_eState # "Finished"
    BY PhaseTypes
  <1>2. ParseBuffer(p) =
            IF phase.status \in {"Failed", "Threw"} THEN phase
            ELSE IF q.m_eState = "Finished"
            THEN IF CopiesFromNull(q) THEN Result(q, "Crashed") ELSE Result(NextParser(q), "Done")
            ELSE IF BufferFull(q) THEN Result(Reset(<<>>), "Failed")
            ELSE Result(q, "InProgress")
    BY DEF ParseBuffer
  <1> HIDE DEF phase, q
  <1>3. /\ Len(q.m_buffer) \in Nat /\ q.m_uiCurrentRequestSize \in Nat /\ q.m_buffer \in Seq(Tokens)
        /\ q.m_oRequest \in HttpRequest /\ q.m_uiCurrentRequestSize <= Len(q.m_buffer)
        /\ Len(q.m_buffer) <= MAX_REQUEST_SIZE /\ MAX_REQUEST_SIZE \in Nat
    BY <1>1, SoundNumbers DEF Sound, Parser
  <1>4. Sound(NextParser(q)) /\ NextParser(q).m_eState = "RequestLine"
    <2> DEFINE left == Len(q.m_buffer) - q.m_uiCurrentRequestSize
    <2>1. left \in Nat /\ left <= Len(q.m_buffer) /\ left <= MAX_REQUEST_SIZE
      BY <1>3
    <2>2. Slice(q.m_buffer, 0, left) \in Seq(Tokens) /\ Len(Slice(q.m_buffer, 0, left)) = left
      <3> HIDE DEF left
      <3> QED  BY <1>3, <2>1, SliceProperties
    <2>3. NextParser(q) = Reset(Slice(q.m_buffer, 0, left))
      BY DEF NextParser, CurrentBufferSize
    <2> HIDE DEF left
    <2> QED  BY <2>1, <2>2, <2>3, ResetIsSound
  <1>5. Sound(Reset(<<>>))
    <2>1. <<>> \in Seq(Tokens) /\ Len(<<>>) <= MAX_REQUEST_SIZE
      BY <1>3, EmptySeq
    <2> QED  BY <2>1, ResetIsSound
  <1>6. CASE phase.status \in {"Failed", "Threw"}
    BY <1>1, <1>2, <1>6 DEF q
  <1>7. CASE phase.status \notin {"Failed", "Threw"} /\ q.m_eState = "Finished"
    BY <1>1, <1>2, <1>3, <1>4, <1>7 DEF Result, phase, q
  <1>8. CASE phase.status \notin {"Failed", "Threw"} /\ q.m_eState # "Finished"
    BY <1>1, <1>2, <1>5, <1>8 DEF Result
  <1> QED  BY <1>6, <1>7, <1>8
-----------------------------------------------------------------------------
(* Types. *)
TypeInv ==
    /\ Sound(parser)
    /\ status \in {"InProgress", "Done", "Failed", "Threw", "Crashed"}
    /\ Serving => parser.m_eState # "Finished"
    /\ available \in Seq(Tokens)
    /\ sent \in Seq(Requests)
    /\ results \in Seq(HttpRequest)
    /\ firstBodyRead \in 0 .. MAX_REQUEST_SIZE

LEMMA RequestIsSeq ==
    ASSUME NEW request \in Requests
    PROVE  request \in Seq(Tokens) /\ Len(request) \in Nat
  <1>1. request \in Seq(ToSet(request))
    BY ParserAssumption
  <1>2. ToSet(request) \subseteq Tokens
    BY DEF Tokens
  <1>3. request \in Seq(Tokens)
    BY <1>1, <1>2, SeqMonotonic
  <1> QED  BY <1>3, LenProperties

LEMMA TypeInit == Init => TypeInv
  <1> SUFFICES ASSUME Init PROVE TypeInv
    OBVIOUS
  <1> DEFINE r == Reset(<<>>)
  <1>1. <<>> \in Seq(Tokens) /\ Len(<<>>) <= MAX_REQUEST_SIZE
    BY ParserAssumption, EmptySeq
  <1>2. Sound(r) /\ r.m_eState = "RequestLine"
    BY <1>1, ResetIsSound
  <1>3. parser = [r EXCEPT !.m_bufferData = "nullptr"]
    BY DEF Init
  <1> HIDE DEF r
  <1>4. Sound(parser) /\ parser.m_eState # "Finished"
    BY <1>2, <1>3 DEF Sound, Parser
  <1>5. 0 \in 0 .. MAX_REQUEST_SIZE
    BY ParserAssumption
  <1> QED  BY <1>1, <1>4, <1>5 DEF Init, TypeInv

(* The parser with the bytes that a call reads. *)
Filled(n) == [parser EXCEPT !.m_buffer = parser.m_buffer \o SubSeq(available, 1, n)]

LEMMA FilledIsSound ==
    ASSUME TypeInv, NEW n \in Nat, Parse(n)
    PROVE  /\ n \in 1 .. Len(available)
           /\ SubSeq(available, 1, n) \in Seq(Tokens) /\ Len(SubSeq(available, 1, n)) = n
           /\ Sound(Filled(n)) /\ Filled(n).m_eState # "Finished"
           /\ Filled(n).m_buffer = parser.m_buffer \o SubSeq(available, 1, n)
           /\ Len(Filled(n).m_buffer) = Len(parser.m_buffer) + n
           /\ \A f \in DOMAIN parser \ {"m_buffer"} : Filled(n)[f] = parser[f]
  <1> DEFINE read == SubSeq(available, 1, n)
             b == parser.m_buffer
             p == Filled(n)
  <1>1. /\ parser \in Parser /\ b \in Seq(Tokens) /\ Len(b) \in Nat /\ MAX_REQUEST_SIZE \in Nat
        /\ available \in Seq(Tokens) /\ Len(available) \in Nat /\ Len(b) <= MAX_REQUEST_SIZE
    BY SoundNumbers, LenProperties DEF TypeInv, Sound
  <1>2. n \in 1 .. Min({Len(available), MAX_REQUEST_SIZE - Len(b)})
    BY DEF Parse, CurrentBufferSize
  <1>3. n >= 1 /\ n <= Len(available) /\ n <= MAX_REQUEST_SIZE - Len(b)
    BY <1>1, <1>2, MinOfTwo
  <1>4. read \in Seq(Tokens) /\ Len(read) = n
    <2>1. Slice(available, 0, n) \in Seq(Tokens) /\ Len(Slice(available, 0, n)) = n
      BY <1>1, <1>3, SliceProperties
    <2>2. Slice(available, 0, n) = read
      BY DEF Slice
    <2> QED  BY <2>1, <2>2
  <1> HIDE DEF read
  <1>5. b \o read \in Seq(Tokens) /\ Len(b \o read) = Len(b) + n
    BY <1>1, <1>4, ConcatProperties
  <1>6. p = [parser EXCEPT !.m_buffer = b \o read]
    BY DEF Filled, read
  <1>7. /\ p \in Parser /\ p.m_buffer = b \o read
        /\ \A f \in DOMAIN parser \ {"m_buffer"} : p[f] = parser[f]
    BY <1>1, <1>5, <1>6 DEF Parser
  <1>8. /\ p.m_eState = parser.m_eState /\ p.m_uiRequestPtr = parser.m_uiRequestPtr
        /\ p.m_uiCurrentRequestSize = parser.m_uiCurrentRequestSize
        /\ p.m_oHeaderInfo = parser.m_oHeaderInfo /\ p.m_oBodyInfo = parser.m_oBodyInfo
    BY <1>1, <1>6 DEF Parser
  <1> HIDE DEF p
  <1>9. Sound(p)
    <2>1. parser.m_uiRequestPtr \in Nat /\ parser.m_uiCurrentRequestSize \in Nat
      BY <1>1, ParserAssumption DEF Parser
    <2> HIDE DEF b
    <2>2. Len(p.m_buffer) = Len(b) + n /\ Len(b) + n <= MAX_REQUEST_SIZE
      BY <1>1, <1>3, <1>5, <1>7
    <2> QED  BY <1>1, <1>3, <1>7, <1>8, <2>1, <2>2 DEF TypeInv, Sound, b
  <1>10. parser.m_eState # "Finished"
    BY DEF TypeInv, Parse
  <1>11. n \in 1 .. Len(available)
    BY <1>1, <1>3
  <1> QED  BY <1>4, <1>5, <1>7, <1>8, <1>9, <1>10, <1>11 DEF p, read

LEMMA ParseIs ==
    ASSUME NEW n, Parse(n)
    PROVE  /\ Serving
           /\ parser' = ParseBuffer(Filled(n)).parser
           /\ status' = ParseBuffer(Filled(n)).status
           /\ results' = IF status' = "Done"
                         THEN Append(results, ParsePhase(Filled(n)).parser.m_oRequest)
                         ELSE results
           /\ available' = SubSeq(available, n + 1, Len(available))
           /\ sent' = sent
           /\ firstBodyRead' = IF BodyBegun(parser) THEN firstBodyRead ELSE Len(Filled(n).m_buffer)
  BY DEF Parse, Filled

LEMMA TypeStep == TypeInv /\ [Next]_vars => TypeInv'
  <1> SUFFICES ASSUME TypeInv, [Next]_vars PROVE TypeInv'
    OBVIOUS
  <1>1. ASSUME NEW n \in 1 .. MAX_REQUEST_SIZE, Parse(n)
        PROVE  TypeInv'
    <2>1. n \in Nat
      BY ParserAssumption
    <2>2. /\ Sound(parser')
          /\ status' \in {"InProgress", "Done", "Failed", "Threw", "Crashed"}
          /\ status' \in {"InProgress", "Done"} => parser'.m_eState # "Finished"
          /\ status' = "Done" => ParsePhase(Filled(n)).parser.m_oRequest \in HttpRequest
      BY <1>1, <2>1, FilledIsSound, CallTypes, ParseIs
    <2>3. available' \in Seq(Tokens)
      <3>1. available \in Seq(Tokens) /\ Len(available) \in Nat
        BY LenProperties DEF TypeInv
      <3>2. n \in 0 .. Len(available)
        <4>1. n \in 1 .. Len(available)
          BY <1>1, <2>1, FilledIsSound
        <4> QED  BY <3>1, <4>1
      <3> QED  BY <1>1, <3>1, <3>2, RestProperties, ParseIs
    <2>4. results' \in Seq(HttpRequest)
      <3> DEFINE r == ParsePhase(Filled(n)).parser.m_oRequest
      <3>1. results' = (IF status' = "Done" THEN Append(results, r) ELSE results)
        BY <1>1, ParseIs
      <3>2. status' = "Done" => r \in HttpRequest
        BY <2>2
      <3>3. results \in Seq(HttpRequest)
        BY DEF TypeInv
      <3> HIDE DEF r
      <3> QED  BY <3>1, <3>2, <3>3, AppendProperties
    <2>5. Sound(parser)'
      BY <2>2 DEF Sound
    <2>6. firstBodyRead' \in 0 .. MAX_REQUEST_SIZE
      <3>1. Len(Filled(n).m_buffer) \in 0 .. MAX_REQUEST_SIZE
        <4>1. Sound(Filled(n))
          BY <1>1, <2>1, FilledIsSound
        <4>2. Len(Filled(n).m_buffer) \in Nat /\ MAX_REQUEST_SIZE \in Nat
          BY <4>1, SoundNumbers
        <4>3. Len(Filled(n).m_buffer) <= MAX_REQUEST_SIZE
          BY <4>1 DEF Sound
        <4> QED  BY <4>2, <4>3
      <3>2. firstBodyRead \in 0 .. MAX_REQUEST_SIZE
        BY DEF TypeInv
      <3> QED  BY <1>1, <3>1, <3>2, ParseIs
    <2> QED  BY <1>1, <2>2, <2>3, <2>4, <2>5, <2>6, ParseIs DEF TypeInv, Serving
  <1>2. ASSUME NEW request \in Requests, Send(request)
        PROVE  TypeInv'
    <2>1. available' \in Seq(Tokens)
      BY <1>2, RequestIsSeq, ConcatProperties DEF Send, TypeInv
    <2>2. sent' \in Seq(Requests)
      BY <1>2, AppendProperties DEF Send, TypeInv
    <2> QED  BY <1>2, <2>1, <2>2 DEF Send, TypeInv, Sound, Serving
  <1>3. CASE UNCHANGED vars
    BY <1>3 DEF vars, TypeInv, Sound, Serving
  <1> QED  BY <1>1, <1>2, <1>3 DEF Next

(* Whatever the client sends, also requests one right after the other, the *)
(* members of the parser keep their types, and no pointer, size or phase   *)
(* leaves the buffer.                                                      *)
THEOREM ParserTypes == Spec => []TypeOK
  <1>1. TypeInv => TypeOK
    BY DEF TypeInv, TypeOK, Sound, CurrentBufferSize
  <1> QED  BY <1>1, TypeInit, TypeStep, PTL DEF Spec
-----------------------------------------------------------------------------
(* A parser and the request that it is parsing. *)
HoldsPrefix(p, r) ==
    /\ Len(p.m_buffer) <= Len(r)
    /\ \A i \in 1 .. Len(p.m_buffer) : p.m_buffer[i] = r[i]

LineOf(r) == Len(r) >= 3 /\ r[1] \in RequestLines /\ CRLFAt(r, 1)

EndOfHeader(r, n) ==
    /\ n \in 3 .. Len(r) - 4
    /\ BlankAt(r, n)
    /\ \A k \in 3 .. n - 1 : ~BlankAt(r, k)

(* The scan has missed nothing, and what was found is that of the request. *)
Follows(p, r) ==
    /\ HoldsPrefix(p, r)
    /\ p.m_eState \in {"RequestLine", "Header", "Body"}
    /\ p.m_eState = "RequestLine" => \A n \in 0 .. p.m_uiRequestPtr - 1 : ~CRLFAt(r, n)
    /\ p.m_eState = "Header" =>
           /\ LineOf(r)
           /\ p.m_oHeaderInfo.start = 3
           /\ \A n \in 3 .. p.m_uiRequestPtr - 1 : ~BlankAt(r, n)
           /\ p.m_oRequest.line = <<r[1]>>
    /\ p.m_eState = "Body" =>
           /\ LineOf(r)
           /\ p.m_oRequest.line = <<r[1]>>
           /\ \E n : /\ EndOfHeader(r, n)
                     /\ p.m_oBodyInfo = [start |-> n + 4, size |-> BodySize(HeaderOf(r, n))]
                     /\ p.m_oRequest.header = HeaderOf(r, n)

LEMMA SameRequest ==
    ASSUME NEW r \in Seq(Tokens)
    PROVE  /\ LineOf(r) <=> StartsWithLine(r)
           /\ \A n : EndOfHeader(r, n) <=> HeaderEnd(r, n)
  <1>1. Len(r) \in Nat
    BY LenProperties
  <1>2. LineOf(r) <=> StartsWithLine(r)
    <2>1. Len(r) >= 3 => (Slice(r, 1, 2) = CRLF <=> CRLFAt(r, 1))
      BY <1>1, SliceIsCRLF
    <2> QED  BY <2>1 DEF LineOf, StartsWithLine
  <1>3. ASSUME NEW k \in 3 .. Len(r) - 4
        PROVE  Slice(r, k, 4) = CRLF \o CRLF <=> BlankAt(r, k)
    <2>1. k \in Nat /\ k + 4 <= Len(r)
      BY <1>1
    <2> QED  BY <2>1, SliceIsBlank
  <1>4. ASSUME NEW n
        PROVE  EndOfHeader(r, n) <=> HeaderEnd(r, n)
    <2>1. ASSUME n \in 3 .. Len(r) - 4
          PROVE  \A k \in 3 .. n - 1 : k \in 3 .. Len(r) - 4
      BY <1>1, <2>1
    <2> QED  BY <1>3, <2>1 DEF EndOfHeader, HeaderEnd
  <1> QED  BY <1>2, <1>4

LEMMA SameSlice ==
    ASSUME NEW p, p.m_buffer \in Seq(Tokens), NEW r \in Seq(Tokens), HoldsPrefix(p, r),
           NEW n \in Nat, NEW k \in Nat, n + k <= Len(p.m_buffer)
    PROVE  Slice(p.m_buffer, n, k) = Slice(r, n, k)
  <1> DEFINE b == p.m_buffer
             s == Slice(b, n, k)
             t == Slice(r, n, k)
  <1>1. Len(b) \in Nat /\ Len(r) \in Nat /\ Len(b) <= Len(r) /\ n + k <= Len(r)
    BY LenProperties DEF HoldsPrefix
  <1>2. s \in Seq(Tokens) /\ Len(s) = k /\ \A i \in 1 .. k : s[i] = b[n + i]
    BY SliceProperties
  <1>3. t \in Seq(Tokens) /\ Len(t) = k /\ \A i \in 1 .. k : t[i] = r[n + i]
    BY <1>1, SliceProperties
  <1>4. \A i \in 1 .. k : b[n + i] = r[n + i]
    <2>1. \A i \in 1 .. k : n + i \in 1 .. Len(b)
      BY <1>1
    <2> QED  BY <2>1 DEF HoldsPrefix
  <1> HIDE DEF s, t
  <1>5. \A i \in 1 .. Len(s) : s[i] = t[i]
    BY <1>2, <1>3, <1>4
  <1>6. s = t
    BY <1>2, <1>3, <1>5, SeqEqual
  <1> QED  BY <1>6 DEF s, t

LEMMA SamePatterns ==
    ASSUME NEW p, p.m_buffer \in Seq(Tokens), NEW r \in Seq(Tokens), HoldsPrefix(p, r), NEW n \in Nat
    PROVE  /\ n + 2 <= Len(p.m_buffer) => (CRLFAt(p.m_buffer, n) <=> CRLFAt(r, n))
           /\ n + 4 <= Len(p.m_buffer) => (BlankAt(p.m_buffer, n) <=> BlankAt(r, n))
  <1>1. Len(p.m_buffer) \in Nat
    BY LenProperties
  <1>2. \A i \in 1 .. Len(p.m_buffer) : p.m_buffer[i] = r[i]
    BY DEF HoldsPrefix
  <1>3. ASSUME NEW m \in Nat, m + 2 <= Len(p.m_buffer)
        PROVE  CRLFAt(p.m_buffer, m) <=> CRLFAt(r, m)
    <2>1. m + 1 \in 1 .. Len(p.m_buffer) /\ m + 2 \in 1 .. Len(p.m_buffer)
      BY <1>1, <1>3
    <2> QED  BY <1>2, <2>1 DEF CRLFAt
  <1>4. n + 4 <= Len(p.m_buffer) => n + 2 <= Len(p.m_buffer) /\ n + 2 \in Nat /\ (n + 2) + 2 <= Len(p.m_buffer)
    BY <1>1
  <1> QED  BY <1>3, <1>4 DEF BlankAt

(* The parts of a request put together. *)
LEMMA WireIsRequest ==
    ASSUME NEW r \in Seq(Tokens), NEW q, LineOf(r), NEW n, EndOfHeader(r, n), NEW size \in Nat,
           Len(r) = n + 4 + size,
           q.line = <<r[1]>>, q.header = HeaderOf(r, n), q.body = Slice(r, n + 4, size)
    PROVE  Wire(q) = r
  <1>1. Len(r) \in Nat /\ n \in Nat /\ n >= 3 /\ n + 4 <= Len(r)
    BY LenProperties DEF EndOfHeader
  <1>2. SubSeq(r, 1, 1) = <<r[1]>>
    <2>1. Slice(r, 0, 1) = <<r[0 + 1]>>
      BY <1>1, SliceOfOne
    <2>2. Slice(r, 0, 1) = SubSeq(r, 0 + 1, 0 + 1)
      BY DEF Slice
    <2>3. 0 + 1 = 1
      OBVIOUS
    <2> QED  BY <2>1, <2>2, <2>3
  <1>3. SubSeq(r, 2, 3) = CRLF
    <2>1. Slice(r, 1, 2) = CRLF
      BY <1>1, SliceIsCRLF DEF LineOf
    <2>2. Slice(r, 1, 2) = SubSeq(r, 2, 3)
      BY DEF Slice
    <2> QED  BY <2>1, <2>2
  <1>4. CRLFAt(r, n) /\ CRLFAt(r, n + 2)
    BY DEF EndOfHeader, BlankAt
  <1>5. SubSeq(r, n + 1, n + 2) = CRLF
    BY <1>1, <1>4, SliceIsCRLF DEF Slice
  <1>6. SubSeq(r, n + 3, n + 4) = CRLF
    <2>1. n + 2 \in Nat /\ n + 2 + 2 <= Len(r) /\ n + 2 + 1 = n + 3 /\ n + 2 + 2 = n + 4
      BY <1>1
    <2>2. Slice(r, n + 2, 2) = CRLF
      BY <1>4, <2>1, SliceIsCRLF
    <2> QED  BY <2>1, <2>2 DEF Slice
  <1>7. q.header = SubSeq(r, 4, n)
    <2>1. 3 + 1 = 4 /\ 3 + (n - 3) = n
      BY <1>1
    <2> QED  BY <2>1 DEF HeaderOf, Slice
  <1>8. q.body = SubSeq(r, n + 5, Len(r))
    <2>1. n + 4 + 1 = n + 5 /\ n + 4 + size = Len(r)
      BY <1>1
    <2> QED  BY <2>1 DEF Slice
  <1>9. \A k, m \in Nat : k <= m /\ m <= Len(r) => SubSeq(r, 1, k) \o SubSeq(r, k + 1, m) = SubSeq(r, 1, m)
    <2> TAKE k, m \in Nat
    <2> HAVE k <= m /\ m <= Len(r)
    <2>1. 1 \in 1 .. Len(r) + 1 /\ k \in 1 - 1 .. Len(r) /\ m \in k .. Len(r)
      BY <1>1
    <2> QED  BY <2>1, ConcatAdjacentSubSeq
  <1>10. q.line \o CRLF = SubSeq(r, 1, 3)
    <2>1. SubSeq(r, 1, 1) \o SubSeq(r, 1 + 1, 3) = SubSeq(r, 1, 3)
      BY <1>1, <1>9
    <2>2. 1 + 1 = 2
      OBVIOUS
    <2>3. SubSeq(r, 1, 1) \o SubSeq(r, 2, 3) = SubSeq(r, 1, 3)
      BY <2>1, <2>2
    <2> QED  BY <1>2, <1>3, <2>3, Zenon
  <1>11. (q.line \o CRLF) \o q.header = SubSeq(r, 1, n)
    <2>1. SubSeq(r, 1, 3) \o SubSeq(r, 3 + 1, n) = SubSeq(r, 1, n)
      BY <1>1, <1>9
    <2>2. 3 + 1 = 4
      OBVIOUS
    <2>3. SubSeq(r, 1, 3) \o SubSeq(r, 4, n) = SubSeq(r, 1, n)
      BY <2>1, <2>2
    <2> QED  BY <1>7, <1>10, <2>3, Zenon
  <1>12. ((q.line \o CRLF) \o q.header) \o CRLF = SubSeq(r, 1, n + 2)
    <2>1. SubSeq(r, 1, n) \o SubSeq(r, n + 1, n + 2) = SubSeq(r, 1, n + 2)
      BY <1>1, <1>9
    <2> QED  BY <1>5, <1>11, <2>1
  <1>13. (((q.line \o CRLF) \o q.header) \o CRLF) \o CRLF = SubSeq(r, 1, n + 4)
    <2>1. n + 2 \in Nat /\ n + 4 \in Nat /\ n + 2 <= n + 4 /\ (n + 2) + 1 = n + 3
      BY <1>1
    <2>2. SubSeq(r, 1, n + 2) \o SubSeq(r, (n + 2) + 1, n + 4) = SubSeq(r, 1, n + 4)
      BY <1>1, <1>9, <2>1
    <2> QED  BY <1>6, <1>12, <2>1, <2>2
  <1>14. ((((q.line \o CRLF) \o q.header) \o CRLF) \o CRLF) \o q.body = SubSeq(r, 1, Len(r))
    <2>1. n + 4 \in Nat /\ (n + 4) + 1 = n + 5
      BY <1>1
    <2>2. SubSeq(r, 1, n + 4) \o SubSeq(r, (n + 4) + 1, Len(r)) = SubSeq(r, 1, Len(r))
      BY <1>1, <1>9, <2>1
    <2> QED  BY <1>8, <1>13, <2>1, <2>2
  <1> QED  BY <1>14, SubSeqFull DEF Wire
-----------------------------------------------------------------------------
(* What a phase makes of the buffer, when that holds a prefix of request r *)
(* and the client sends nothing behind r.                                  *)
Alone(r) == \A n : LineOf(r) /\ EndOfHeader(r, n) => Len(r) <= n + 4 + BodySize(HeaderOf(r, n))

Invalid(r) == ~LineOf(r) \/ \E n : EndOfHeader(r, n) /\ ~HasColons(HeaderOf(r, n))

Throws(r) == \E i \in DOMAIN r : r[i] \in NotNumbers

(* A parser that has counted a part of the body already: such a parser may *)
(* not finish a request that is in the buffer as a whole.                  *)
Cut(p) == p.m_eState = "Body" /\ p.m_uiRequestPtr # p.m_oBodyInfo.start

Outcome(result, p, r) ==
    LET q == result.parser
        b == p.m_buffer
    IN  /\ q.m_buffer = b
        /\ \/ /\ result.status = "InProgress"
              /\ q.m_eState # "Finished"
              /\ Follows(q, r)
              /\ Len(b) = Len(r) /\ Whole(r) => Cut(p)
           \/ /\ result.status = "Done"
              /\ q.m_eState = "Finished"
              /\ Len(b) = Len(r)
              /\ q.m_uiCurrentRequestSize = Len(r)
              /\ Wire(q.m_oRequest) = r
           \/ result.status = "Failed" /\ Invalid(r)
           \/ result.status = "Threw" /\ Throws(r)

(* A whole request has the end of its header, and one only. *)
LEMMA WholeEnds ==
    ASSUME NEW r \in Seq(Tokens), Whole(r)
    PROVE  \E n : EndOfHeader(r, n) /\ Len(r) >= n + 4 + BodySize(HeaderOf(r, n))
  BY SameRequest DEF Whole

LEMMA OneEndOfHeader ==
    ASSUME NEW r \in Seq(Tokens), NEW m, NEW n, EndOfHeader(r, m), EndOfHeader(r, n)
    PROVE  m = n
  <1>1. m \in Nat /\ n \in Nat /\ m >= 3 /\ n >= 3 /\ BlankAt(r, m) /\ BlankAt(r, n)
    BY LenProperties DEF EndOfHeader
  <1>2. m \notin 3 .. n - 1 /\ n \notin 3 .. m - 1
    BY <1>1 DEF EndOfHeader
  <1> QED  BY <1>1, <1>2

LEMMA BodyOutcome ==
    ASSUME NEW p, Sound(p), p.m_eState = "Body", NEW r \in Seq(Tokens), Follows(p, r), Alone(r)
    PROVE  Outcome(ParseBody(p), p, r)
  <1> DEFINE b == p.m_buffer
             ptr == p.m_uiRequestPtr
             start == p.m_oBodyInfo.start
             size == p.m_oBodyInfo.size
             result == ParseBody(p)
             q == result.parser
  <1>1. PICK n : /\ EndOfHeader(r, n)
                 /\ p.m_oBodyInfo = [start |-> n + 4, size |-> BodySize(HeaderOf(r, n))]
                 /\ p.m_oRequest.header = HeaderOf(r, n)
    BY DEF Follows
  <1>2. LineOf(r) /\ p.m_oRequest.line = <<r[1]>> /\ HoldsPrefix(p, r)
    BY DEF Follows
  <1>3. /\ b \in Seq(Tokens) /\ Len(b) \in Nat /\ ptr \in Nat /\ p.m_oRequest \in HttpRequest
        /\ Len(r) \in Nat /\ p \in Parser /\ start <= ptr /\ ptr <= Len(b)
    BY SoundNumbers, LenProperties DEF Sound
  <1>4. n \in Nat /\ n + 4 <= Len(r) /\ n >= 3 /\ start = n + 4 /\ size = BodySize(HeaderOf(r, n))
    BY <1>1, <1>3 DEF EndOfHeader
  <1>6. size \in Nat
    BY SoundNumbers
  <1>7. Len(b) <= Len(r) /\ Len(r) <= n + 4 + size
    BY <1>1, <1>2, <1>4 DEF Alone, HoldsPrefix
  <1>8. CASE /\ result.status = "Done" /\ q.m_eState = "Finished"
             /\ ptr + size <= Len(b)
             /\ q.m_uiCurrentRequestSize = (IF size = 0 THEN ptr ELSE start + size)
             /\ q.m_oRequest = [p.m_oRequest EXCEPT !.body = Slice(b, start, size)]
             /\ q.m_buffer = b
    <2> HIDE DEF b, ptr, start, size, q, result
    <2>1. ptr = n + 4 /\ Len(b) = Len(r) /\ Len(r) = n + 4 + size
      BY <1>3, <1>4, <1>6, <1>7, <1>8
    <2>2. q.m_uiCurrentRequestSize = Len(r)
      BY <1>3, <1>4, <1>6, <1>8, <2>1
    <2>3. Slice(b, start, size) = Slice(r, n + 4, size)
      <3>1. n + 4 \in Nat /\ n + 4 + size <= Len(p.m_buffer)
        BY <1>4, <2>1, <1>3 DEF b
      <3>2. Slice(p.m_buffer, n + 4, size) = Slice(r, n + 4, size)
        BY <1>2, <1>3, <1>6, <3>1, SameSlice DEF b
      <3> QED  BY <1>4, <3>2 DEF b
    <2>4. /\ q.m_oRequest.line = p.m_oRequest.line /\ q.m_oRequest.header = p.m_oRequest.header
          /\ q.m_oRequest.body = Slice(b, start, size)
      BY <1>3, <1>8 DEF HttpRequest
    <2>5. Wire(q.m_oRequest) = r
      <3>1. /\ q.m_oRequest.line = <<r[1]>> /\ q.m_oRequest.header = HeaderOf(r, n)
            /\ q.m_oRequest.body = Slice(r, n + 4, size)
        BY <1>1, <1>2, <2>3, <2>4
      <3> QED  BY <1>1, <1>2, <1>6, <2>1, <3>1, WireIsRequest
    <2> QED  BY <1>8, <2>1, <2>2, <2>5 DEF Outcome, q, result, b
  <1>9. CASE /\ result.status = "InProgress"
             /\ q = [p EXCEPT !.m_uiRequestPtr = Len(b)]
             /\ ptr + size > Len(b)
    <2>2. /\ q.m_buffer = b /\ q.m_eState = "Body" /\ q.m_oBodyInfo = p.m_oBodyInfo
          /\ q.m_oRequest = p.m_oRequest
      BY <1>3, <1>9 DEF Parser
    <2> HIDE DEF q
    <2>3. Follows(q, r)
      BY <1>1, <1>2, <2>2 DEF Follows, HoldsPrefix
    <2>4. ASSUME Len(b) = Len(r), Whole(r)
          PROVE  ptr # start
      <3>1. PICK m : EndOfHeader(r, m) /\ Len(r) >= m + 4 + BodySize(HeaderOf(r, m))
        BY <2>4, WholeEnds
      <3>2. m = n
        BY <1>1, <3>1, OneEndOfHeader
      <3>3. Len(r) >= n + 4 + size
        BY <1>4, <3>1, <3>2
      <3> HIDE DEF b, ptr, start, size
      <3> QED  BY <1>3, <1>4, <1>6, <1>9, <2>4, <3>3
    <2>5. Len(b) = Len(r) /\ Whole(r) => Cut(p)
      BY <2>4 DEF Cut
    <2> QED  BY <1>9, <2>2, <2>3, <2>5 DEF Outcome, q
  <1> QED  BY <1>8, <1>9, BodyPhase

(* A parser at the end of its scan. *)
LEMMA ScannedOutcome ==
    ASSUME NEW p, Sound(p), NEW r \in Seq(Tokens), Follows(p, r), NEW pattern \in {CRLF, CRLF \o CRLF},
           \/ /\ pattern = CRLF
              /\ p.m_eState = "RequestLine"
              /\ \A n \in p.m_uiRequestPtr .. Len(p.m_buffer) - 2 : ~CRLFAt(p.m_buffer, n)
           \/ /\ pattern = CRLF \o CRLF
              /\ p.m_eState = "Header"
              /\ \A n \in p.m_uiRequestPtr .. Len(p.m_buffer) - 4 : ~BlankAt(p.m_buffer, n)
    PROVE  Outcome(Result(Scanned(p, pattern), "InProgress"), p, r)
  <1> DEFINE b == p.m_buffer
             ptr == p.m_uiRequestPtr
             end == ScanEnd(p, pattern)
             q == Scanned(p, pattern)
  <1>1. /\ b \in Seq(Tokens) /\ Len(b) \in Nat /\ ptr \in Nat /\ p \in Parser
        /\ Len(r) \in Nat /\ ptr <= Len(b)
    BY SoundNumbers, LenProperties DEF Sound
  <1>2. HoldsPrefix(p, r) /\ Len(b) <= Len(r)
    BY DEF Follows, HoldsPrefix
  <1>3. end \in ptr .. Len(b) /\ q = [p EXCEPT !.m_uiRequestPtr = end]
    BY ScannedIsSound DEF Scanned
  <1> HIDE DEF q, end
  <1>4. /\ q.m_uiRequestPtr = end /\ q.m_buffer = b /\ q.m_eState = p.m_eState
        /\ q.m_oHeaderInfo = p.m_oHeaderInfo /\ q.m_oBodyInfo = p.m_oBodyInfo
        /\ q.m_oRequest = p.m_oRequest
    BY <1>1, <1>3 DEF Parser
  <1>5. HoldsPrefix(q, r)
    BY <1>2, <1>4 DEF HoldsPrefix
  <1>6. CASE pattern = CRLF /\ p.m_eState = "RequestLine"
             /\ \A n \in p.m_uiRequestPtr .. Len(p.m_buffer) - 2 : ~CRLFAt(p.m_buffer, n)
    <2>1. end = (IF ptr >= Len(b) - 1 THEN ptr ELSE Len(b) - 1)
      BY <1>1, <1>6, ScanEnds DEF end
    <2>2. \A n \in 0 .. ptr - 1 : ~CRLFAt(r, n)
      BY <1>6 DEF Follows
    <2>3. \A n \in ptr .. Len(b) - 2 : ~CRLFAt(r, n)
      <3> TAKE n \in ptr .. Len(b) - 2
      <3>1. n \in Nat /\ n + 2 <= Len(p.m_buffer)
        BY <1>1
      <3> QED  BY <1>1, <1>2, <1>6, <3>1, SamePatterns
    <2> HIDE DEF b, ptr
    <2>4. \A n \in 0 .. end - 1 : ~CRLFAt(r, n)
      BY <1>1, <2>1, <2>2, <2>3
    <2>5. Follows(q, r)
      BY <1>4, <1>5, <1>6, <2>4 DEF Follows
    <2>6. ~(Len(b) = Len(r) /\ Whole(r))
      <3> SUFFICES ASSUME Len(b) = Len(r), Whole(r) PROVE FALSE
        OBVIOUS
      <3>1. PICK n : EndOfHeader(r, n)
        BY WholeEnds
      <3>2. n \in Nat /\ n + 4 <= Len(r) /\ CRLFAt(r, n)
        BY <1>1, <3>1 DEF EndOfHeader, BlankAt
      <3>3. n \in 0 .. end - 1
        BY <1>1, <2>1, <3>2
      <3> QED  BY <2>4, <3>2, <3>3
    <2> QED  BY <1>4, <1>6, <2>5, <2>6 DEF Outcome, Result, q, b
  <1>7. CASE pattern = CRLF \o CRLF /\ p.m_eState = "Header"
             /\ \A n \in p.m_uiRequestPtr .. Len(p.m_buffer) - 4 : ~BlankAt(p.m_buffer, n)
    <2>1. end = (IF ptr >= Len(b) - 3 THEN ptr ELSE Len(b) - 3)
      BY <1>1, <1>7, ScanEnds DEF end
    <2>2. /\ LineOf(r) /\ p.m_oHeaderInfo.start = 3 /\ p.m_oRequest.line = <<r[1]>>
          /\ \A n \in 3 .. ptr - 1 : ~BlankAt(r, n)
      BY <1>7 DEF Follows
    <2>3. \A n \in ptr .. Len(b) - 4 : ~BlankAt(r, n)
      <3> TAKE n \in ptr .. Len(b) - 4
      <3>1. n \in Nat /\ n + 4 <= Len(p.m_buffer)
        BY <1>1
      <3> QED  BY <1>1, <1>2, <1>7, <3>1, SamePatterns
    <2> HIDE DEF b, ptr
    <2>4. \A n \in 3 .. end - 1 : ~BlankAt(r, n)
      BY <1>1, <2>1, <2>2, <2>3
    <2>5. Follows(q, r)
      BY <1>4, <1>5, <1>7, <2>2, <2>4 DEF Follows
    <2>6. ~(Len(b) = Len(r) /\ Whole(r))
      <3> SUFFICES ASSUME Len(b) = Len(r), Whole(r) PROVE FALSE
        OBVIOUS
      <3>1. PICK n : EndOfHeader(r, n)
        BY WholeEnds
      <3>2. n \in Nat /\ n >= 3 /\ n + 4 <= Len(r) /\ BlankAt(r, n)
        BY <1>1, <3>1 DEF EndOfHeader
      <3>3. n \in 3 .. end - 1
        BY <1>1, <2>1, <3>2
      <3> QED  BY <2>4, <3>2, <3>3
    <2> QED  BY <1>4, <1>7, <2>5, <2>6 DEF Outcome, Result, q, b
  <1> QED  BY <1>6, <1>7

LEMMA HeaderOutcome ==
    ASSUME NEW p, Sound(p), p.m_eState = "Header", NEW r \in Seq(Tokens), Follows(p, r), Alone(r)
    PROVE  Outcome(ParseHeader(p), p, r)
  <1> DEFINE b == p.m_buffer
             ptr == p.m_uiRequestPtr
  <1>1. /\ b \in Seq(Tokens) /\ Len(b) \in Nat /\ ptr \in Nat /\ p \in Parser
        /\ Len(r) \in Nat /\ ptr <= Len(b) /\ p.m_oHeaderInfo.start <= ptr
        /\ p.m_oRequest \in HttpRequest
    BY SoundNumbers, LenProperties DEF Sound
  <1>2. /\ HoldsPrefix(p, r) /\ Len(b) <= Len(r)
        /\ LineOf(r) /\ p.m_oHeaderInfo.start = 3 /\ p.m_oRequest.line = <<r[1]>>
        /\ \A n \in 3 .. ptr - 1 : ~BlankAt(r, n)
    BY DEF Follows, HoldsPrefix
  <1>3. ASSUME NEW end, FirstBlank(p, end)
        PROVE  end \in Nat /\ EndOfHeader(r, end) /\ HeaderTo(p, end) = HeaderOf(r, end)
    <2>1. end \in ptr .. Len(b) - 4 /\ BlankAt(b, end) /\ \A n \in ptr .. end - 1 : ~BlankAt(b, n)
      BY <1>3 DEF FirstBlank
    <2>2. \A n \in ptr .. end : BlankAt(b, n) <=> BlankAt(r, n)
      <3> TAKE n \in ptr .. end
      <3>1. n \in Nat /\ n + 4 <= Len(b)
        BY <1>1, <2>1
      <3> QED  BY <1>1, <1>2, <3>1, SamePatterns
    <2>3. ptr >= 3
      BY <1>1, <1>2
    <2>4. EndOfHeader(r, end)
      <3> HIDE DEF b, ptr
      <3> QED  BY <1>1, <1>2, <2>1, <2>2, <2>3 DEF EndOfHeader
    <2>5. HeaderTo(p, end) = HeaderOf(r, end)
      <3>1. 3 \in Nat /\ end - 3 \in Nat /\ 3 + (end - 3) <= Len(b)
        BY <1>1, <2>1, <2>3
      <3>2. Slice(b, 3, end - 3) = Slice(r, 3, end - 3)
        BY <1>1, <1>2, <3>1, SameSlice
      <3> QED  BY <1>2, <3>2 DEF HeaderTo, HeaderOf
    <2> QED  BY <1>1, <2>1, <2>4, <2>5
  <1>4. CASE /\ \A n \in p.m_uiRequestPtr .. Len(p.m_buffer) - 4 : ~BlankAt(p.m_buffer, n)
             /\ ParseHeader(p) = Result(Scanned(p, CRLF \o CRLF), "InProgress")
    BY <1>4, ScannedOutcome
  <1>5. ASSUME NEW end, FirstBlank(p, end), ~HasColons(HeaderTo(p, end)),
               ParseHeader(p).status = "Failed", ParseHeader(p).parser.m_buffer = p.m_buffer
        PROVE  Outcome(ParseHeader(p), p, r)
    BY <1>3, <1>5 DEF Outcome, Invalid
  <1>7. ASSUME NEW end, FirstBlank(p, end), LengthThrows(HeaderTo(p, end)),
               ParseHeader(p).status = "Threw", ParseHeader(p).parser.m_buffer = p.m_buffer
        PROVE  Outcome(ParseHeader(p), p, r)
    <2>1. EndOfHeader(r, end) /\ LengthThrows(HeaderOf(r, end)) /\ end \in Nat
      BY <1>3, <1>7
    <2>2. 3 \in Nat /\ end - 3 \in Nat /\ 3 + (end - 3) <= Len(r) /\ 3 + (end - 3) = end
      BY <1>1, <2>1 DEF EndOfHeader
    <2>3. /\ HeaderOf(r, end) \in Seq(Tokens) /\ Len(HeaderOf(r, end)) = end - 3
          /\ \A i \in 1 .. end - 3 : HeaderOf(r, end)[i] = r[3 + i]
      BY <2>2, SliceProperties DEF HeaderOf
    <2>4. PICK i \in DOMAIN HeaderOf(r, end) : HeaderOf(r, end)[i] \in NotNumbers
      BY <2>1, <2>3, ThrowsForNumber
    <2>5. i \in 1 .. end - 3
      BY <2>3, LenProperties
    <2>6. r[3 + i] \in NotNumbers
      BY <2>3, <2>4, <2>5
    <2>7. 3 + i \in 1 .. Len(r) /\ DOMAIN r = 1 .. Len(r)
      BY <1>1, <2>2, <2>5, LenProperties
    <2> QED  BY <1>7, <2>6, <2>7 DEF Outcome, Throws
  <1>6. ASSUME NEW end, FirstBlank(p, end), ParseHeader(p) = ParseBody(InBody(p, end))
        PROVE  Outcome(ParseHeader(p), p, r)
    <2> DEFINE c == InBody(p, end)
    <2>1. /\ Sound(c) /\ c.m_eState = "Body" /\ c.m_buffer = p.m_buffer
          /\ c.m_uiRequestPtr = end + 4
          /\ c.m_oBodyInfo = [start |-> end + 4, size |-> BodySize(HeaderTo(p, end))]
          /\ c.m_oRequest = [p.m_oRequest EXCEPT !.header = HeaderTo(p, end)]
      BY <1>6, InBodyIsSound
    <2> HIDE DEF c
    <2>2. c.m_oRequest.line = p.m_oRequest.line /\ c.m_oRequest.header = HeaderTo(p, end)
      BY <1>1, <2>1 DEF HttpRequest
    <2>3. EndOfHeader(r, end) /\ HeaderTo(p, end) = HeaderOf(r, end)
      BY <1>3, <1>6
    <2>4. Follows(c, r)
      BY <1>2, <2>1, <2>2, <2>3 DEF Follows, HoldsPrefix
    <2>5. Outcome(ParseBody(c), c, r)
      BY <2>1, <2>4, BodyOutcome
    <2>6. c.m_oBodyInfo.start = c.m_uiRequestPtr
      BY <2>1
    <2> QED  BY <1>6, <2>1, <2>5, <2>6 DEF Outcome, Cut, c
  <1> QED  BY <1>4, <1>5, <1>6, <1>7, HeaderPhase

LEMMA LineOutcome ==
    ASSUME NEW p, Sound(p), p.m_eState = "RequestLine", NEW r \in Seq(Tokens), Follows(p, r), Alone(r)
    PROVE  Outcome(ParseRequestLine(p), p, r)
  <1> DEFINE b == p.m_buffer
             ptr == p.m_uiRequestPtr
  <1>1. /\ b \in Seq(Tokens) /\ Len(b) \in Nat /\ ptr \in Nat /\ p \in Parser
        /\ Len(r) \in Nat /\ ptr <= Len(b)
        /\ p.m_oRequest \in HttpRequest
    BY SoundNumbers, LenProperties DEF Sound
  <1>2. /\ HoldsPrefix(p, r) /\ Len(b) <= Len(r) /\ \A i \in 1 .. Len(b) : b[i] = r[i]
        /\ \A n \in 0 .. ptr - 1 : ~CRLFAt(r, n)
    BY DEF Follows, HoldsPrefix
  <1>3. ASSUME NEW end, FirstCRLF(p, end)
        PROVE  /\ end \in Nat /\ end + 2 <= Len(b) /\ CRLFAt(r, end)
               /\ \A n \in 0 .. end - 1 : ~CRLFAt(r, n)
    <2>1. end \in ptr .. Len(b) - 2 /\ CRLFAt(b, end) /\ \A n \in ptr .. end - 1 : ~CRLFAt(b, n)
      BY <1>3 DEF FirstCRLF
    <2>2. \A n \in ptr .. end : CRLFAt(b, n) <=> CRLFAt(r, n)
      <3> TAKE n \in ptr .. end
      <3>1. n \in Nat /\ n + 2 <= Len(b)
        BY <1>1, <2>1
      <3> QED  BY <1>1, <1>2, <3>1, SamePatterns
    <2> HIDE DEF b, ptr
    <2> QED  BY <1>1, <1>2, <2>1, <2>2
  <1>4. CASE /\ \A n \in p.m_uiRequestPtr .. Len(p.m_buffer) - 2 : ~CRLFAt(p.m_buffer, n)
             /\ ParseRequestLine(p) = Result(Scanned(p, CRLF), "InProgress")
    BY <1>4, ScannedOutcome
  <1>5. ASSUME NEW end, FirstCRLF(p, end), ~IsLine(LineTo(p, end)),
               ParseRequestLine(p).status = "Failed", ParseRequestLine(p).parser.m_buffer = p.m_buffer
        PROVE  Outcome(ParseRequestLine(p), p, r)
    <2>1. ASSUME LineOf(r)
          PROVE  FALSE
      <3>1. CRLFAt(r, 1) /\ r[2] = "CR" /\ r[1] \in RequestLines
        <4>1. 1 + 1 = 2
          OBVIOUS
        <4> QED  BY <2>1, <4>1 DEF LineOf, CRLFAt
      <3>2. end # 0
        <4>1. 0 + 2 = 2
          OBVIOUS
        <4>2. end = 0 => r[2] = "LF"
          BY <1>3, <1>5, <4>1 DEF CRLFAt
        <4> QED  BY <3>1, <4>2
      <3>3. end = 1
        <4>1. end \in Nat /\ \A n \in 0 .. end - 1 : ~CRLFAt(r, n)
          BY <1>3, <1>5
        <4>2. ~(end > 1)
          BY <3>1, <4>1
        <4> QED  BY <3>2, <4>1, <4>2
      <3>4. LineTo(p, end) = <<b[1]>>
        <4>1. 0 \in Nat /\ 0 + 1 <= Len(b) /\ 0 + 1 = 1
          BY <1>1, <1>3, <1>5
        <4>2. Slice(b, 0, 1) = <<b[0 + 1]>>
          BY <1>1, <4>1, SliceOfOne
        <4> QED  BY <3>3, <4>1, <4>2 DEF LineTo
      <3>5. b[1] = r[1]
        <4>1. 1 \in 1 .. Len(b)
          BY <1>1, <1>3, <1>5
        <4> QED  BY <1>2, <4>1
      <3> QED  BY <1>5, <3>1, <3>4, <3>5 DEF IsLine
    <2> QED  BY <1>5, <2>1 DEF Outcome, Invalid
  <1>7. ASSUME NEW end, FirstCRLF(p, end), IsLine(LineTo(p, end)), LineTo(p, end)[1] \in NotNumbers,
               ParseRequestLine(p).status = "Threw", ParseRequestLine(p).parser.m_buffer = p.m_buffer
        PROVE  Outcome(ParseRequestLine(p), p, r)
    <2>1. 0 \in Nat /\ end \in Nat /\ 0 + end <= Len(b)
      BY <1>1, <1>3, <1>7
    <2>2. /\ LineTo(p, end) \in Seq(Tokens) /\ Len(LineTo(p, end)) = end
          /\ \A i \in 1 .. end : LineTo(p, end)[i] = b[0 + i]
      <3> HIDE DEF b
      <3>1. /\ Slice(b, 0, end) \in Seq(Tokens) /\ Len(Slice(b, 0, end)) = end
            /\ \A i \in 1 .. end : Slice(b, 0, end)[i] = b[0 + i]
        BY <1>1, <2>1, SliceProperties
      <3> QED  BY <3>1 DEF LineTo, b
    <2>3. end = 1
      BY <1>7, <2>2 DEF IsLine
    <2>4. 1 \in 1 .. end /\ 0 + 1 = 1 /\ 1 \in 1 .. Len(b) /\ 1 \in 1 .. Len(r)
      BY <1>1, <1>2, <2>1, <2>3
    <2>5. LineTo(p, end)[1] = r[1]
      BY <1>2, <2>2, <2>4
    <2>6. 1 \in DOMAIN r
      BY <2>4, LenProperties
    <2> QED  BY <1>7, <2>5, <2>6 DEF Outcome, Throws
  <1>6. ASSUME NEW end, FirstCRLF(p, end), IsLine(LineTo(p, end)),
               ParseRequestLine(p) = ParseHeader(InHeader(p, end))
        PROVE  Outcome(ParseRequestLine(p), p, r)
    <2> DEFINE h == InHeader(p, end)
               line == LineTo(p, end)
    <2>1. /\ Sound(h) /\ h.m_eState = "Header" /\ h.m_buffer = p.m_buffer
          /\ h.m_uiRequestPtr = end + 2
          /\ h.m_oHeaderInfo.start = end + 2
          /\ h.m_oRequest = [p.m_oRequest EXCEPT !.line = line]
      BY <1>6, InHeaderIsSound
    <2>2. line \in Seq(Tokens) /\ Len(line) = end /\ \A i \in 1 .. end : line[i] = b[0 + i]
      <3>1. 0 \in Nat /\ end \in Nat /\ 0 + end <= Len(b)
        BY <1>1, <1>3, <1>6
      <3>2. /\ Slice(b, 0, end) \in Seq(Tokens) /\ Len(Slice(b, 0, end)) = end
            /\ \A i \in 1 .. end : Slice(b, 0, end)[i] = b[0 + i]
        <4> HIDE DEF b
        <4> QED  BY <1>1, <3>1, SliceProperties
      <3> QED  BY <3>2 DEF LineTo
    <2>3. PICK token \in RequestLines : line = <<token>>
      BY <1>6 DEF IsLine
    <2> HIDE DEF h, line
    <2>4. end = 1
      BY <2>2, <2>3
    <2>5. line[1] = token /\ line[1] = r[1]
      <3>1. 1 \in 1 .. end /\ 0 + 1 = 1 /\ 1 \in 1 .. Len(b)
        BY <1>1, <1>3, <1>6, <2>4
      <3>2. line[1] = b[1] /\ b[1] = r[1]
        BY <1>2, <2>2, <3>1
      <3> QED  BY <2>3, <3>2
    <2>6. LineOf(r) /\ line = <<r[1]>>
      <3>1. CRLFAt(r, 1) /\ Len(r) >= 3
        BY <1>1, <1>2, <1>3, <1>6, <2>4
      <3> QED  BY <2>3, <2>5, <3>1 DEF LineOf
    <2>7. h.m_oRequest.line = line
      BY <1>1, <2>1 DEF HttpRequest
    <2>8. Follows(h, r)
      <3>1. h.m_uiRequestPtr = 3 /\ h.m_oHeaderInfo.start = 3
        BY <2>1, <2>4
      <3>2. \A n \in 3 .. h.m_uiRequestPtr - 1 : ~BlankAt(r, n)
        BY <3>1
      <3> QED  BY <1>2, <2>1, <2>6, <2>7, <3>1, <3>2 DEF Follows, HoldsPrefix
    <2>9. Outcome(ParseHeader(h), h, r)
      BY <2>1, <2>8, HeaderOutcome
    <2> QED  BY <1>6, <2>1, <2>9 DEF Outcome, Cut, h
  <1> QED  BY <1>4, <1>5, <1>6, <1>7, LinePhase

LEMMA PhaseOutcome ==
    ASSUME NEW p, Sound(p), NEW r \in Seq(Tokens), Follows(p, r), Alone(r)
    PROVE  Outcome(ParsePhase(p), p, r)
  <1>1. p.m_eState \in {"RequestLine", "Header", "Body"}
    BY DEF Follows
  <1>2. /\ p.m_eState = "RequestLine" => ParsePhase(p) = ParseRequestLine(p)
        /\ p.m_eState = "Header" => ParsePhase(p) = ParseHeader(p)
        /\ p.m_eState = "Body" => ParsePhase(p) = ParseBody(p)
    BY DEF ParsePhase
  <1> QED  BY <1>1, <1>2, LineOutcome, HeaderOutcome, BodyOutcome

(* The status of a call, when the client sends nothing behind r. *)
LEMMA CallOutcome ==
    ASSUME NEW p, Sound(p), NEW r \in Seq(Tokens), Follows(p, r), Alone(r)
    PROVE  LET result == ParseBuffer(p)
           IN  \/ /\ result.status = "InProgress"
                  /\ result.parser.m_buffer = p.m_buffer
                  /\ Follows(result.parser, r)
                  /\ Len(p.m_buffer) = Len(r) /\ Whole(r) => Cut(p)
               \/ /\ result.status = "Done"
                  /\ result.parser = Reset(<<>>)
                  /\ Len(p.m_buffer) = Len(r)
                  /\ Wire(ParsePhase(p).parser.m_oRequest) = r
               \/ /\ result.status = "Failed"
                  /\ \/ Invalid(r)
                     \/ Len(r) > MAX_REQUEST_SIZE
                     \/ Len(r) = MAX_REQUEST_SIZE /\ (Whole(r) => Cut(p))
               \/ result.status = "Threw" /\ Throws(r)
  <1> DEFINE phase == ParsePhase(p)
             q == phase.parser
  <1>1. Outcome(phase, p, r)
    BY PhaseOutcome
  <1>2. ParseBuffer(p) =
            IF phase.status \in {"Failed", "Threw"} THEN phase
            ELSE IF q.m_eState = "Finished"
            THEN IF CopiesFromNull(q) THEN Result(q, "Crashed") ELSE Result(NextParser(q), "Done")
            ELSE IF BufferFull(q) THEN Result(Reset(<<>>), "Failed")
            ELSE Result(q, "InProgress")
    BY DEF ParseBuffer
  <1> HIDE DEF phase
  <1>3. /\ Len(p.m_buffer) \in Nat /\ p.m_buffer \in Seq(Tokens) /\ Len(r) \in Nat
        /\ Len(p.m_buffer) <= MAX_REQUEST_SIZE /\ MAX_REQUEST_SIZE \in Nat
        /\ Len(p.m_buffer) <= Len(r)
    BY SoundNumbers, LenProperties DEF Sound, Follows, HoldsPrefix
  <1> HIDE DEF q
  <1>4. q.m_buffer = p.m_buffer
    BY <1>1 DEF Outcome, q
  <1>5. CASE phase.status = "Failed" /\ Invalid(r)
    BY <1>2, <1>5
  <1>8. CASE phase.status = "Threw" /\ Throws(r)
    BY <1>2, <1>8
  <1>6. CASE /\ phase.status = "Done" /\ q.m_eState = "Finished"
             /\ Len(p.m_buffer) = Len(r) /\ q.m_uiCurrentRequestSize = Len(r)
             /\ Wire(q.m_oRequest) = r
    <2>1. ~CopiesFromNull(q)
      BY <1>3, <1>4, <1>6 DEF CopiesFromNull, CurrentBufferSize
    <2>2. NextParser(q) = Reset(<<>>)
      <3>1. CurrentBufferSize(q) - q.m_uiCurrentRequestSize = 0
        BY <1>3, <1>4, <1>6 DEF CurrentBufferSize
      <3>2. Slice(q.m_buffer, 0, 0) = <<>>
        BY <1>3, <1>4, SubSeqEmpty DEF Slice
      <3> QED  BY <3>1, <3>2 DEF NextParser
    <2>3. ParseBuffer(p) = Result(Reset(<<>>), "Done")
      BY <1>2, <1>6, <2>1, <2>2
    <2> QED  BY <1>6, <2>3 DEF Result, q, phase
  <1>7. CASE /\ phase.status = "InProgress" /\ q.m_eState # "Finished"
             /\ Follows(q, r) /\ (Len(p.m_buffer) = Len(r) /\ Whole(r) => Cut(p))
    <2>1. CASE BufferFull(q)
      <3>1. Len(p.m_buffer) = MAX_REQUEST_SIZE
        BY <1>3, <1>4, <2>1 DEF BufferFull, CurrentBufferSize
      <3>2. \/ Len(r) > MAX_REQUEST_SIZE
            \/ Len(r) = MAX_REQUEST_SIZE /\ (Whole(r) => Cut(p))
        BY <1>3, <1>7, <3>1
      <3>3. ParseBuffer(p).status = "Failed"
        BY <1>2, <1>7, <2>1 DEF Result
      <3> QED  BY <3>2, <3>3
    <2>2. CASE ~BufferFull(q)
      BY <1>2, <1>4, <1>7, <2>2 DEF Result
    <2> QED  BY <2>1, <2>2
  <1> QED  BY <1>1, <1>5, <1>6, <1>7, <1>8 DEF Outcome, q
-----------------------------------------------------------------------------
(* FlattenSeq puts requests one behind the other. *)
Flattens(f, s, n) == f = [i \in 1 .. n |-> IF i = 1 THEN s[i] ELSE f[i - 1] \o s[i]]

LEMMA FlattensExists ==
    ASSUME NEW s
    PROVE  \A n \in Nat : \E f : Flattens(f, s, n)
  <1> DEFINE bad == {n \in Nat : ~\E f : Flattens(f, s, n)}
  <1> SUFFICES ASSUME bad # {} PROVE FALSE
    OBVIOUS
  <1> DEFINE m == Min(bad)
  <1>1. m \in bad /\ \A n \in bad : m <= n
    <2>1. bad \subseteq Nat
      OBVIOUS
    <2> HIDE DEF bad
    <2> QED  BY <2>1, Least
  <1> HIDE DEF m
  <1>2. m \in Nat /\ ~\E f : Flattens(f, s, m)
    BY <1>1
  <1>3. CASE m = 0
    <2> DEFINE g == [i \in 1 .. m |-> s[i]]
    <2>1. 1 .. m = {}
      BY <1>3
    <2>2. Flattens(g, s, m)
      BY <2>1 DEF Flattens
    <2> QED  BY <1>2, <2>2
  <1>4. CASE m # 0
    <2>1. m - 1 \in Nat /\ m - 1 \notin bad
      BY <1>1, <1>2, <1>4
    <2>2. PICK f : Flattens(f, s, m - 1)
      BY <2>1
    <2> DEFINE g == [i \in 1 .. m |-> IF i = m THEN (IF i = 1 THEN s[i] ELSE f[i - 1] \o s[i]) ELSE f[i]]
    <2>3. ASSUME NEW i \in 1 .. m
          PROVE  g[i] = IF i = 1 THEN s[i] ELSE g[i - 1] \o s[i]
      <3>1. CASE i = m
        <4>1. i # 1 => i - 1 \in 1 .. m /\ i - 1 # m
          BY <1>2, <2>3
        <4> QED  BY <2>3, <3>1, <4>1
      <3>2. CASE i # m
        <4>1. i \in 1 .. m - 1
          BY <1>2, <2>3, <3>2
        <4>2. f[i] = IF i = 1 THEN s[i] ELSE f[i - 1] \o s[i]
          BY <2>2, <4>1 DEF Flattens
        <4>3. i # 1 => i - 1 \in 1 .. m /\ i - 1 # m
          BY <1>2, <2>3
        <4> QED  BY <2>3, <3>2, <4>2, <4>3
      <3> QED  BY <3>1, <3>2
    <2>4. g = [i \in 1 .. m |-> g[i]]
      OBVIOUS
    <2> HIDE DEF g
    <2>5. Flattens(g, s, m)
      BY <2>3, <2>4 DEF Flattens
    <2> QED  BY <1>2, <2>5
  <1> QED  BY <1>3, <1>4

Agree(f, g, n) == \A i \in 1 .. n : f[i] = g[i]

LEMMA FlattensSame ==
    ASSUME NEW s, NEW t, NEW m \in Nat, NEW n \in Nat, NEW l \in Nat, l <= m, l <= n,
           NEW f, NEW g, Flattens(f, s, m), Flattens(g, t, n), Agree(s, t, l)
    PROVE  Agree(f, g, l)
  <1> DEFINE bad == {i \in 1 .. l : f[i] # g[i]}
  <1> SUFFICES ASSUME bad # {} PROVE FALSE
    BY DEF Agree
  <1> DEFINE k == Min(bad)
  <1>1. k \in bad /\ \A i \in bad : k <= i
    <2>1. bad \subseteq Nat
      OBVIOUS
    <2> HIDE DEF bad
    <2> QED  BY <2>1, Least
  <1> HIDE DEF k
  <1>2. k \in 1 .. l /\ k \in 1 .. m /\ k \in 1 .. n /\ f[k] # g[k]
    BY <1>1
  <1>3. /\ f[k] = IF k = 1 THEN s[k] ELSE f[k - 1] \o s[k]
        /\ g[k] = IF k = 1 THEN t[k] ELSE g[k - 1] \o t[k]
    BY <1>2 DEF Flattens
  <1>4. k # 1 => f[k - 1] = g[k - 1]
    <2>1. k # 1 => k - 1 \in 1 .. l /\ ~(k <= k - 1)
      BY <1>2
    <2> QED  BY <1>1, <2>1
  <1> QED  BY <1>2, <1>3, <1>4 DEF Agree

LEMMA FlattensType ==
    ASSUME NEW S, NEW n \in Nat, NEW s, \A i \in 1 .. n : s[i] \in Seq(S), NEW f, Flattens(f, s, n)
    PROVE  \A i \in 1 .. n : f[i] \in Seq(S)
  <1> DEFINE bad == {i \in 1 .. n : f[i] \notin Seq(S)}
  <1> SUFFICES ASSUME bad # {} PROVE FALSE
    OBVIOUS
  <1> DEFINE k == Min(bad)
  <1>1. k \in bad /\ \A i \in bad : k <= i
    <2>1. bad \subseteq Nat
      OBVIOUS
    <2> HIDE DEF bad
    <2> QED  BY <2>1, Least
  <1> HIDE DEF k
  <1>2. k \in 1 .. n /\ f[k] \notin Seq(S)
    BY <1>1
  <1>3. f[k] = IF k = 1 THEN s[k] ELSE f[k - 1] \o s[k]
    BY <1>2 DEF Flattens
  <1>4. k # 1 => f[k - 1] \in Seq(S)
    <2>1. k # 1 => k - 1 \in 1 .. n /\ ~(k <= k - 1)
      BY <1>2
    <2> QED  BY <1>1, <2>1
  <1>5. k # 1 => f[k - 1] \o s[k] \in Seq(S)
    BY <1>2, <1>4, ConcatProperties
  <1> QED  BY <1>2, <1>3, <1>5

LEMMA FlattenIs ==
    ASSUME NEW S, NEW s \in Seq(Seq(S)), NEW f, Flattens(f, s, Len(s))
    PROVE  /\ FlattenSeq(s) \in Seq(S)
           /\ Len(s) = 0 => FlattenSeq(s) = <<>>
           /\ Len(s) # 0 => FlattenSeq(s) = f[Len(s)]
  <1>1. Len(s) \in Nat /\ \A i \in 1 .. Len(s) : s[i] \in Seq(S)
    BY LenProperties, ElementOfSeq
  <1>2. CASE Len(s) = 0
    <2>1. s = <<>>
      BY <1>2, EmptySeq
    <2> QED  BY <1>2, <2>1, EmptySeq DEF FlattenSeq
  <1>3. CASE Len(s) # 0
    <2> DEFINE h == CHOOSE h : Flattens(h, s, Len(s))
    <2>1. FlattenSeq(s) = h[Len(s)]
      BY <1>3 DEF FlattenSeq, Flattens
    <2>2. Flattens(h, s, Len(s))
      OBVIOUS
    <2> HIDE DEF h
    <2>3. Len(s) \in 1 .. Len(s)
      BY <1>1, <1>3
    <2>4. h[Len(s)] = f[Len(s)]
      <3>1. Len(s) <= Len(s) /\ Agree(s, s, Len(s))
        BY <1>1 DEF Agree
      <3>2. Agree(h, f, Len(s))
        BY <1>1, <2>2, <3>1, FlattensSame
      <3> QED  BY <2>3, <3>2 DEF Agree
    <2>5. f[Len(s)] \in Seq(S)
      BY <1>1, <2>3, FlattensType
    <2> QED  BY <1>3, <2>1, <2>4, <2>5
  <1> QED  BY <1>2, <1>3

LEMMA FlattenAppend ==
    ASSUME NEW S, NEW s \in Seq(Seq(S)), NEW r \in Seq(S)
    PROVE  /\ FlattenSeq(s) \in Seq(S)
           /\ FlattenSeq(Append(s, r)) = FlattenSeq(s) \o r
  <1> DEFINE t == Append(s, r)
             n == Len(s)
  <1>1. /\ n \in Nat /\ t \in Seq(Seq(S)) /\ Len(t) = n + 1 /\ t[n + 1] = r
        /\ \A i \in 1 .. n : t[i] = s[i]
    BY LenProperties, AppendProperties
  <1> HIDE DEF t, n
  <1>2. PICK f : Flattens(f, s, n)
    BY <1>1, FlattensExists
  <1>3. PICK g : Flattens(g, t, n + 1)
    <2>1. n + 1 \in Nat
      BY <1>1
    <2> QED  BY <2>1, FlattensExists
  <1>4. /\ FlattenSeq(s) \in Seq(S) /\ (n = 0 => FlattenSeq(s) = <<>>)
        /\ (n # 0 => FlattenSeq(s) = f[n])
    BY <1>2, FlattenIs DEF n
  <1>5. FlattenSeq(t) = g[n + 1]
    BY <1>1, <1>3, FlattenIs
  <1>6. g[n + 1] = IF n = 0 THEN r ELSE g[n] \o r
    <2>0. PICK m \in Nat : m = n + 1
      BY <1>1
    <2>1. m \in 1 .. m
      BY <1>1, <2>0
    <2>2. Flattens(g, t, m)
      BY <1>3, <2>0
    <2>3. g = [i \in 1 .. m |-> IF i = 1 THEN t[i] ELSE g[i - 1] \o t[i]]
      BY <2>2 DEF Flattens
    <2>5. g[m] = IF m = 1 THEN t[m] ELSE g[m - 1] \o t[m]
      BY ONLY <2>1, <2>3
    <2>4. g[m] = IF m = 1 THEN r ELSE g[m - 1] \o r
      BY <1>1, <2>0, <2>5
    <2>6. m - 1 = n /\ (m = 1 <=> n = 0)
      BY <1>1, <2>0
    <2>7. g[m] = IF n = 0 THEN r ELSE g[n] \o r
      BY <2>4, <2>6
    <2> QED  BY <2>0, <2>7
  <1>7. CASE n = 0
    BY <1>4, <1>5, <1>6, <1>7, ConcatEmptySeq DEF t
  <1>8. CASE n # 0
    <2>1. n \in 1 .. n /\ n <= n + 1
      BY <1>1, <1>8
    <2>2. g[n] = f[n]
      <3>1. n + 1 \in Nat /\ n <= n /\ Agree(t, s, n)
        BY <1>1 DEF Agree
      <3>2. Agree(g, f, n)
        BY <1>1, <1>2, <1>3, <2>1, <3>1, FlattensSame
      <3> QED  BY <2>1, <3>2 DEF Agree
    <2> QED  BY <1>4, <1>5, <1>6, <1>8, <2>1, <2>2 DEF t
  <1> QED  BY <1>4, <1>7, <1>8 DEF t
-----------------------------------------------------------------------------
(* What is assumed of the client, of one of its requests. *)
LEMMA RequestIsAlone ==
    ASSUME OneAtATime, NEW r \in Requests
    PROVE  Alone(r)
  <1>1. r \in Seq(Tokens) /\ Len(r) \in Nat /\ DOMAIN r = 1 .. Len(r)
    BY RequestIsSeq, LenProperties
  <1> SUFFICES ASSUME NEW n, LineOf(r), EndOfHeader(r, n)
               PROVE  Len(r) <= n + 4 + BodySize(HeaderOf(r, n))
    BY DEF Alone
  <1>2. n \in DOMAIN r
    BY <1>1 DEF EndOfHeader
  <1>3. StartsWithLine(r) /\ HeaderEnd(r, n)
    BY <1>1, SameRequest
  <1> QED  BY <1>2, <1>3 DEF OneAtATime

LEMMA RequestIsValid ==
    ASSUME WellFormedAreValid, NEW r \in Requests, WellFormed(r)
    PROVE  ~Invalid(r) /\ ~Throws(r)
  <1>1. r \in Seq(Tokens) /\ Len(r) \in Nat /\ DOMAIN r = 1 .. Len(r)
    BY RequestIsSeq, LenProperties
  <1>2. LineOf(r)
    BY <1>1, SameRequest DEF WellFormedAreValid
  <1>3. ASSUME NEW n, EndOfHeader(r, n)
        PROVE  HasColons(HeaderOf(r, n))
    <2>1. n \in DOMAIN r
      BY <1>1, <1>3 DEF EndOfHeader
    <2>2. HeaderEnd(r, n)
      BY <1>1, <1>3, SameRequest
    <2> QED  BY <2>1, <2>2 DEF WellFormedAreValid, HasColons
  <1>4. ~Throws(r)
    BY DEF WellFormed, Throws, ToSet
  <1> QED  BY <1>2, <1>3, <1>4 DEF Invalid

(* The inductive invariant: when the client waits for an answer, what was  *)
(* read and what is still to be read make up its last request, the parser  *)
(* has missed nothing of it, and all others came out as they were sent.    *)
Fresh(p) == p.m_buffer = <<>> /\ p.m_eState = "RequestLine" /\ p.m_uiRequestPtr = 0

(* Why a request ends the connection or the process. *)
Refused(r) ==
    \/ Invalid(r) \/ Throws(r)
    \/ Len(r) > MAX_REQUEST_SIZE
    \/ Len(r) = MAX_REQUEST_SIZE /\ (Whole(r) => BodyCut(r))

Parses(r) ==
    /\ Serving =>
           /\ parser.m_buffer \o available = r
           /\ Follows(parser, r)
           /\ parser.m_eState = "Body" => firstBodyRead <= Len(parser.m_buffer)
           /\ \A m : BodyBegun(parser) /\ EndOfHeader(r, m) => m + 4 < firstBodyRead
           /\ status = "InProgress" /\ Len(parser.m_buffer) = Len(r) /\ Whole(r) => BodyCut(r)
    /\ ~Serving => Refused(r)

ReqInv ==
    /\ TypeInv
    /\ Len(sent) \in {Len(results), Len(results) + 1}
    /\ \A k \in 1 .. Len(results) : Wire(results[k]) = sent[k]
    /\ status # "Crashed"
    /\ Len(sent) = Len(results) => Serving /\ available = <<>> /\ Fresh(parser)
    /\ Len(sent) # Len(results) => Parses(sent[Len(sent)])

LEMMA ReqInit == Init => ReqInv
  <1> SUFFICES ASSUME Init PROVE ReqInv
    OBVIOUS
  <1>1. TypeInv
    BY TypeInit
  <1>2. parser = [Reset(<<>>) EXCEPT !.m_bufferData = "nullptr"] /\ status = "InProgress"
        /\ available = <<>> /\ sent = <<>> /\ results = <<>>
    BY DEF Init
  <1>3. Fresh(parser)
    BY <1>2 DEF Fresh, Reset
  <1>4. Len(sent) = 0 /\ Len(results) = 0
    BY <1>2, EmptySeq
  <1> QED  BY <1>1, <1>2, <1>3, <1>4 DEF ReqInv, Serving

LEMMA Prefix ==
    ASSUME NEW p, p.m_buffer \in Seq(Tokens), NEW rest \in Seq(Tokens), NEW r,
           p.m_buffer \o rest = r
    PROVE  HoldsPrefix(p, r) /\ Len(r) = Len(p.m_buffer) + Len(rest)
  <1> DEFINE b == p.m_buffer
  <1>1. /\ Len(b \o rest) = Len(b) + Len(rest) /\ Len(b) \in Nat /\ Len(rest) \in Nat
        /\ \A i \in 1 .. Len(b) + Len(rest) : (b \o rest)[i] =
               IF i <= Len(b) THEN b[i] ELSE rest[i - Len(b)]
    BY ConcatProperties, LenProperties
  <1>2. \A i \in 1 .. Len(b) : i \in 1 .. Len(b) + Len(rest) /\ i <= Len(b)
    BY <1>1
  <1> QED  BY <1>1, <1>2 DEF HoldsPrefix

(* A parser that is at a body has found where the header ends. *)
LEMMA BodyStart ==
    ASSUME NEW p, NEW r, Follows(p, r), p.m_eState = "Body"
    PROVE  \E n : EndOfHeader(r, n) /\ p.m_oBodyInfo.start = n + 4
  <1>1. PICK n : /\ EndOfHeader(r, n)
                 /\ p.m_oBodyInfo = [start |-> n + 4, size |-> BodySize(HeaderOf(r, n))]
    BY DEF Follows
  <1>2. p.m_oBodyInfo.start = n + 4
    BY <1>1
  <1> QED  BY <1>1, <1>2

LEMMA ReqParse ==
    ASSUME OneAtATime, ReqInv, TypeInv', NEW n \in Nat, Parse(n)
    PROVE  ReqInv'
  <1> DEFINE p == Filled(n)
             read == SubSeq(available, 1, n)
             b == parser.m_buffer
  <1>1. /\ n \in 1 .. Len(available) /\ read \in Seq(Tokens) /\ Sound(p)
        /\ p.m_buffer = b \o read
        /\ \A f \in DOMAIN parser \ {"m_buffer"} : p[f] = parser[f]
    BY FilledIsSound DEF ReqInv
  <1>2. /\ b \in Seq(Tokens) /\ available \in Seq(Tokens) /\ Len(available) \in Nat
        /\ Len(results) \in Nat /\ Len(sent) \in Nat /\ parser \in Parser
        /\ sent \in Seq(Requests) /\ results \in Seq(HttpRequest)
    BY SoundNumbers, LenProperties DEF ReqInv, TypeInv, Sound
  <1>3. Len(sent) = Len(results) + 1
    <2>1. available # <<>>
      BY <1>1, <1>2
    <2> QED  BY <1>2, <2>1 DEF ReqInv
  <1>4. PICK r : /\ r = sent[Len(sent)]
                 /\ r \in Requests /\ r \in Seq(Tokens) /\ Alone(r) /\ Len(r) \in Nat
    <2>1. Len(sent) \in 1 .. Len(sent)
      BY <1>2, <1>3
    <2>2. sent[Len(sent)] \in Requests
      BY <1>2, <2>1, ElementOfSeq
    <2> QED  BY <2>2, RequestIsSeq, RequestIsAlone
  <1>5. Serving /\ b \o available = r /\ Follows(parser, r)
    BY <1>2, <1>3, <1>4, ParseIs DEF ReqInv, Parses
  <1>6. /\ parser' = ParseBuffer(p).parser /\ status' = ParseBuffer(p).status
        /\ results' = IF status' = "Done" THEN Append(results, ParsePhase(p).parser.m_oRequest)
                                          ELSE results
        /\ available' = SubSeq(available, n + 1, Len(available)) /\ sent' = sent
    BY ParseIs
  <1>7. available' \in Seq(Tokens) /\ p.m_buffer \o available' = r
    <2>1. available' \in Seq(Tokens)
      BY DEF TypeInv
    <2>2. read \o available' = available
      <3>1. 1 \in 1 .. Len(available) + 1 /\ n \in 1 - 1 .. Len(available)
            /\ Len(available) \in n .. Len(available)
        BY <1>1, <1>2
      <3>2. SubSeq(available, 1, n) \o SubSeq(available, n + 1, Len(available))
                = SubSeq(available, 1, Len(available))
        BY <1>2, <3>1, ConcatAdjacentSubSeq
      <3> QED  BY <1>2, <1>6, <3>2, SubSeqFull
    <2> HIDE DEF read, b, p
    <2>3. (b \o read) \o available' = b \o (read \o available')
      <3>1. b \in Seq(Tokens) /\ read \in Seq(Tokens)
        BY <1>1, <1>2
      <3> QED  BY ONLY <2>1, <3>1, ConcatAssociative
    <2> QED  BY <1>1, <1>5, <2>1, <2>2, <2>3
  <1>8. HoldsPrefix(p, r) /\ Len(r) = Len(p.m_buffer) + Len(available') /\ p.m_buffer \in Seq(Tokens)
    <2>1. p.m_buffer \in Seq(Tokens)
      BY <1>1, SoundNumbers
    <2> HIDE DEF p
    <2> QED  BY <1>7, <2>1, Prefix
  <1>9. Follows(p, r)
    <2>1. /\ p.m_eState = parser.m_eState /\ p.m_uiRequestPtr = parser.m_uiRequestPtr
          /\ p.m_oHeaderInfo = parser.m_oHeaderInfo /\ p.m_oBodyInfo = parser.m_oBodyInfo
          /\ p.m_oRequest = parser.m_oRequest
      BY <1>1, <1>2 DEF Parser
    <2> HIDE DEF p
    <2> QED  BY <1>5, <1>8, <2>1 DEF Follows
  <1>15. /\ firstBodyRead' <= Len(p.m_buffer)
         /\ firstBodyRead' = IF BodyBegun(parser) THEN firstBodyRead ELSE Len(p.m_buffer)
         /\ \A m : BodyBegun(parser) /\ EndOfHeader(r, m) => m + 4 < firstBodyRead
         /\ Cut(p) => BodyCut(r)'
    <2>1. /\ firstBodyRead' = (IF BodyBegun(parser) THEN firstBodyRead ELSE Len(p.m_buffer))
          /\ Len(p.m_buffer) = Len(b) + n
      BY ParseIs, FilledIsSound DEF ReqInv
    <2>2. /\ p.m_eState = parser.m_eState /\ p.m_uiRequestPtr = parser.m_uiRequestPtr
          /\ p.m_oBodyInfo = parser.m_oBodyInfo
      BY <1>1, <1>2 DEF Parser
    <2>3. /\ Sound(parser) /\ Len(b) \in Nat /\ parser.m_uiRequestPtr \in Nat
          /\ parser.m_oBodyInfo.start \in Nat /\ parser.m_uiRequestPtr <= Len(b)
          /\ parser.m_eState = "Body" => parser.m_oBodyInfo.start <= parser.m_uiRequestPtr
      BY SoundNumbers DEF ReqInv, TypeInv, Sound
    <2>4. /\ parser.m_eState = "Body" => firstBodyRead <= Len(b)
          /\ \A m : BodyBegun(parser) /\ EndOfHeader(r, m) => m + 4 < firstBodyRead
      BY <1>2, <1>3, <1>4, <1>5 DEF ReqInv, Parses
    <2>5. firstBodyRead \in Nat
      BY ParserAssumption DEF ReqInv, TypeInv
    <2>6. n >= 1 /\ Len(p.m_buffer) <= Len(r)
      BY <1>1, <1>2, <1>8 DEF HoldsPrefix
    <2> HIDE DEF p, b
    <2>7. CASE BodyBegun(parser)
      <3>1. firstBodyRead' = firstBodyRead /\ firstBodyRead <= Len(b)
        BY <2>1, <2>4, <2>7 DEF BodyBegun
      <3>2. firstBodyRead' < Len(r) /\ firstBodyRead' <= Len(p.m_buffer)
        BY <1>4, <2>1, <2>3, <2>5, <2>6, <3>1
      <3>3. ASSUME Cut(p)
            PROVE  BodyCut(r)'
        <4>1. PICK m : EndOfHeader(r, m)
          BY <1>9, <3>3 DEF Cut, Follows
        <4>2. HeaderEnd(r, m) /\ m \in DOMAIN r
          BY <1>4, <4>1, SameRequest, LenProperties DEF EndOfHeader
        <4>3. m + 4 < firstBodyRead'
          BY <2>4, <2>7, <3>1, <4>1
        <4> QED  BY <3>2, <4>2, <4>3 DEF BodyCut
      <3> QED  BY <2>1, <2>4, <3>2, <3>3
    <2>8. CASE ~BodyBegun(parser)
      <3>1. firstBodyRead' = Len(p.m_buffer) /\ Len(p.m_buffer) \in Nat
        BY <2>1, <2>3, <2>8
      <3>2. ~Cut(p)
        <4>1. CurrentBufferSize(parser) = Len(b)
          BY DEF CurrentBufferSize, b
        <4> QED  BY <2>2, <2>3, <2>8, <4>1 DEF BodyBegun, Cut
      <3> QED  BY <2>1, <2>4, <3>1, <3>2
    <2> QED  BY <2>7, <2>8
  <1> HIDE DEF p
  <1>10. sent'[Len(sent')] = r
    BY <1>4, <1>6
  <1>11. CASE /\ status' = "InProgress" /\ parser'.m_buffer = p.m_buffer /\ Follows(parser', r)
              /\ (Len(p.m_buffer) = Len(r) /\ Whole(r) => Cut(p))
    <2>3. ASSUME NEW m, BodyBegun(parser'), EndOfHeader(r, m)
          PROVE  m + 4 < firstBodyRead'
      <3>1. CASE BodyBegun(parser)
        BY <1>15, <2>3, <3>1
      <3>2. CASE ~BodyBegun(parser)
        <4>4. Follows(parser', r) /\ parser'.m_eState = "Body"
          BY <1>11, <2>3 DEF BodyBegun
        <4>1. PICK k : EndOfHeader(r, k) /\ parser'.m_oBodyInfo.start = k + 4
          BY <4>4, BodyStart
        <4>2. k = m
          BY <1>4, <2>3, <4>1, OneEndOfHeader
        <4>3. Len(p.m_buffer) \in Nat /\ m \in Nat
          BY <1>4, <1>8, <2>3, LenProperties DEF EndOfHeader
        <4> QED  BY <1>11, <1>15, <2>3, <3>2, <4>1, <4>2, <4>3 DEF BodyBegun, CurrentBufferSize
      <3> QED  BY <3>1, <3>2
    <2>4. (\A m : BodyBegun(parser) /\ EndOfHeader(r, m) => m + 4 < firstBodyRead)'
      BY <2>3 DEF BodyBegun, CurrentBufferSize
    <2>1. Parses(r)'
      BY <1>7, <1>11, <1>15, <2>4 DEF Parses, Serving, Follows, HoldsPrefix
    <2>2. results' = results /\ Len(sent') = Len(results') + 1
      BY <1>3, <1>6, <1>11
    <2> QED  BY <1>2, <1>6, <1>10, <1>11, <2>1, <2>2 DEF ReqInv
  <1>12. CASE \/ /\ status' = "Failed"
                 /\ \/ Invalid(r)
                    \/ Len(r) > MAX_REQUEST_SIZE
                    \/ Len(r) = MAX_REQUEST_SIZE /\ (Whole(r) => Cut(p))
              \/ status' = "Threw" /\ Throws(r)
    <2>1. Refused(r)'
      BY <1>12, <1>15 DEF Refused
    <2>3. ~Serving'
      BY <1>12 DEF Serving
    <2>4. Parses(r)'
      BY <2>1, <2>3 DEF Parses
    <2>2. results' = results /\ Len(sent') = Len(results') + 1
      BY <1>3, <1>6, <1>12
    <2> QED  BY <1>2, <1>6, <1>10, <1>12, <2>4, <2>2 DEF ReqInv
  <1>13. CASE /\ status' = "Done" /\ parser' = Reset(<<>>) /\ Len(p.m_buffer) = Len(r)
              /\ Wire(ParsePhase(p).parser.m_oRequest) = r
    <2> DEFINE x == ParsePhase(p).parser.m_oRequest
               l == Len(results)
    <2>1. results' = Append(results, x)
      BY <1>6, <1>13
    <2> HIDE DEF x
    <2>2. Len(results') = l + 1 /\ results'[l + 1] = x /\ \A k \in 1 .. l : results'[k] = results[k]
      BY <1>2, <2>1, AppendProperties
    <2>3. available' = <<>>
      <3>1. Len(available') = 0
        <4>1. Len(available') \in Nat /\ Len(p.m_buffer) \in Nat
          BY <1>7, <1>8, LenProperties
        <4> QED  BY <1>8, <1>13, <4>1
      <3> QED  BY <1>7, <3>1, EmptySeq
    <2>4. Fresh(parser')
      BY <1>13 DEF Fresh, Reset
    <2>5. \A k \in 1 .. Len(results') : Wire(results'[k]) = sent'[k]
      <3> TAKE k \in 1 .. Len(results')
      <3>1. CASE k = l + 1
        BY <1>3, <1>4, <1>6, <1>13, <2>2, <3>1 DEF x
      <3>2. CASE k # l + 1
        <4>1. k \in 1 .. l
          BY <1>2, <2>2, <3>2
        <4>2. results'[k] = results[k] /\ Wire(results[k]) = sent[k]
          BY <2>2, <4>1 DEF ReqInv
        <4> QED  BY <1>6, <4>2
      <3> QED  BY <3>1, <3>2
    <2>6. Len(sent') = Len(results') /\ Len(results') \in Nat
      BY <1>2, <1>3, <1>6, <2>2
    <2>7. (\A k \in 1 .. Len(results) : Wire(results[k]) = sent[k])'
      BY <2>5 DEF Wire
    <2>8. Fresh(parser)'
      BY <2>4 DEF Fresh
    <2> HIDE DEF l
    <2> QED  BY <1>13, <2>3, <2>6, <2>7, <2>8 DEF ReqInv, Serving
  <1>14. \/ /\ status' = "InProgress" /\ parser'.m_buffer = p.m_buffer /\ Follows(parser', r)
            /\ (Len(p.m_buffer) = Len(r) /\ Whole(r) => Cut(p))
         \/ /\ status' = "Failed"
            /\ \/ Invalid(r)
               \/ Len(r) > MAX_REQUEST_SIZE
               \/ Len(r) = MAX_REQUEST_SIZE /\ (Whole(r) => Cut(p))
         \/ status' = "Threw" /\ Throws(r)
         \/ /\ status' = "Done" /\ parser' = Reset(<<>>) /\ Len(p.m_buffer) = Len(r)
            /\ Wire(ParsePhase(p).parser.m_oRequest) = r
    BY <1>1, <1>4, <1>6, <1>9, CallOutcome
  <1> QED  BY <1>11, <1>12, <1>13, <1>14

LEMMA ReqSend ==
    ASSUME OneAtATime, ReqInv, TypeInv', NEW request \in Requests, Send(request)
    PROVE  ReqInv'
  <1> DEFINE l == Len(results)
  <1>1. /\ sent' = Append(sent, request) /\ available' = available \o request
        /\ parser' = parser /\ status' = status /\ results' = results
        /\ Len(sent) = l
    BY DEF Send, OneAtATime
  <1>2. /\ Serving /\ available = <<>> /\ parser.m_buffer = <<>>
        /\ parser.m_eState = "RequestLine" /\ parser.m_uiRequestPtr = 0
    BY <1>1 DEF ReqInv, Fresh
  <1>3. /\ request \in Seq(Tokens) /\ Len(request) \in Nat /\ l \in Nat
        /\ sent \in Seq(Requests) /\ DOMAIN request = 1 .. Len(request)
    BY RequestIsSeq, LenProperties DEF ReqInv, TypeInv
  <1>4. /\ Len(sent') = l + 1 /\ sent'[l + 1] = request
        /\ \A k \in 1 .. l : sent'[k] = sent[k]
    BY <1>1, <1>3, AppendProperties
  <1>5. available' = request /\ <<>> \o request = request
    BY <1>1, <1>2, <1>3, ConcatEmptySeq
  <1> HIDE DEF l
  <1>6. Follows(parser', request)
    <2>1. Len(parser'.m_buffer) = 0 /\ parser'.m_eState = "RequestLine" /\ parser'.m_uiRequestPtr = 0
      BY <1>1, <1>2, EmptySeq
    <2>2. HoldsPrefix(parser', request)
      BY <1>3, <2>1 DEF HoldsPrefix
    <2>3. \A n \in 0 .. parser'.m_uiRequestPtr - 1 : ~CRLFAt(request, n)
      BY <2>1
    <2> QED  BY <2>1, <2>2, <2>3 DEF Follows
  <1>7. parser'.m_eState # "Body" /\ ~(Len(parser'.m_buffer) = Len(request) /\ Whole(request))
    <2>1. Len(parser'.m_buffer) = 0 /\ parser'.m_eState # "Body"
      BY <1>1, <1>2, EmptySeq
    <2>2. Len(request) = 0 => ~Whole(request)
      BY <1>3 DEF Whole
    <2> QED  BY <2>1, <2>2
  <1>8. Parses(request)'
    <2>1. Serving' /\ parser'.m_buffer \o available' = request
      BY <1>1, <1>2, <1>5 DEF Serving
    <2>2. (\A m : BodyBegun(parser) /\ EndOfHeader(request, m) => m + 4 < firstBodyRead)'
      BY <1>7 DEF BodyBegun
    <2> QED  BY <1>6, <1>7, <2>1, <2>2 DEF Parses, Follows, HoldsPrefix
  <1>9. (\A k \in 1 .. Len(results) : Wire(results[k]) = sent[k])'
    <2>1. \A k \in 1 .. l : Wire(results'[k]) = sent'[k]
      BY <1>1, <1>4 DEF ReqInv, l
    <2> QED  BY <1>1, <2>1 DEF l, Wire
  <1>10. Len(sent') = Len(results') + 1 /\ Len(sent') # Len(results') /\ sent'[Len(sent')] = request
    BY <1>1, <1>3, <1>4 DEF l
  <1> QED  BY <1>1, <1>8, <1>9, <1>10 DEF ReqInv

LEMMA ReqStep ==
    ASSUME OneAtATime, ReqInv, [Next]_vars
    PROVE  ReqInv'
  <1>1. TypeInv'
    BY TypeStep DEF ReqInv
  <1>2. ASSUME NEW n \in 1 .. MAX_REQUEST_SIZE, Parse(n)
        PROVE  ReqInv'
    <2>1. n \in Nat
      BY ParserAssumption
    <2> QED  BY <1>1, <1>2, <2>1, ReqParse
  <1>3. ASSUME NEW request \in Requests, Send(request)
        PROVE  ReqInv'
    BY <1>1, <1>3, ReqSend
  <1>4. CASE UNCHANGED vars
    <2>1. /\ parser' = parser /\ status' = status /\ available' = available
          /\ sent' = sent /\ results' = results /\ firstBodyRead' = firstBodyRead
      BY <1>4 DEF vars
    <2>2. \A r : Parses(r) => Parses(r)'
      BY <2>1 DEF Parses, Serving, Follows, HoldsPrefix, Refused, Invalid, BodyBegun, BodyCut, CurrentBufferSize
    <2>3. ASSUME Len(sent) # Len(results)
          PROVE  Parses(sent[Len(sent)])'
      <3>1. PICK r : r = sent[Len(sent)]
        OBVIOUS
      <3>2. Parses(r)'
        BY <2>2, <2>3, <3>1 DEF ReqInv
      <3> QED  BY <2>1, <3>1, <3>2
    <2>4. (\A k \in 1 .. Len(results) : Wire(results[k]) = sent[k])'
      BY <2>1 DEF ReqInv, Wire
    <2> QED  BY <1>1, <2>1, <2>3, <2>4 DEF ReqInv, Serving, Fresh
  <1> QED  BY <1>2, <1>3, <1>4 DEF Next

LEMMA AlwaysReqInv ==
    ASSUME OneAtATime
    PROVE  Spec => []ReqInv
  <1>1. ReqInv /\ [Next]_vars => ReqInv'
    BY ReqStep
  <1> QED  BY <1>1, ReqInit, PTL DEF Spec

(* Where the request that is being parsed stands. *)
LEMMA LastRequest ==
    ASSUME ReqInv, Len(sent) # Len(results)
    PROVE  /\ Len(sent) = Len(results) + 1 /\ Len(sent) \in 1 .. Len(sent)
           /\ sent[Len(results) + 1] \in Requests
           /\ Parses(sent[Len(results) + 1])
  <1>1. sent \in Seq(Requests) /\ Len(sent) \in Nat /\ Len(results) \in Nat
    BY LenProperties DEF ReqInv, TypeInv
  <1>2. Len(sent) = Len(results) + 1 /\ Len(sent) \in 1 .. Len(sent)
    BY <1>1 DEF ReqInv
  <1>3. sent[Len(sent)] \in Requests
    BY <1>1, <1>2, ElementOfSeq
  <1> QED  BY <1>2, <1>3 DEF ReqInv

(* To a client that sends one request at a time, however its bytes are cut *)
(* into reads: every finished request is the request that was sent.        *)
THEOREM ParserResults ==
    ASSUME OneAtATime
    PROVE  Spec => []ResultsAreRequests
  <1>1. ReqInv => ResultsAreRequests
    <2> SUFFICES ASSUME ReqInv PROVE ResultsAreRequests
      OBVIOUS
    <2>1. Len(sent) \in Nat /\ Len(results) \in Nat /\ DOMAIN results = 1 .. Len(results)
      BY LenProperties DEF ReqInv, TypeInv
    <2>2. Len(results) <= Len(sent)
      BY <2>1 DEF ReqInv
    <2> QED  BY <2>1, <2>2 DEF ReqInv, ResultsAreRequests
  <1> QED  BY <1>1, AlwaysReqInv, PTL

(* Nothing that was read is lost or parsed twice, and the null m_bufferData*)
(* of a parser that was never reset is not copied from.                    *)
THEOREM ParserBuffer ==
    ASSUME OneAtATime
    PROVE  Spec => []BufferIsUnparsedInput
  <1>1. ASSUME ReqInv
        PROVE  BufferIsUnparsedInput
    <2> DEFINE b == parser.m_buffer
               rest == available
    <2>1. /\ b \in Seq(Tokens) /\ available \in Seq(Tokens) /\ Len(available) \in Nat
          /\ sent \in Seq(Requests) /\ Len(sent) \in Nat /\ Len(results) \in Nat
      BY <1>1, SoundNumbers, LenProperties DEF ReqInv, TypeInv
    <2>2. sent \in Seq(Seq(Tokens)) /\ FlattenSeq(sent) \in Seq(Tokens)
      <3>1. Requests \subseteq Seq(Tokens)
        BY RequestIsSeq
      <3>2. sent \in Seq(Seq(Tokens))
        BY <2>1, <3>1, SeqMonotonic
      <3>3. <<>> \in Seq(Tokens)
        BY EmptySeq
      <3> QED  BY <3>2, <3>3, FlattenAppend
    <2>3. CASE Len(sent) = Len(results)
      <3>1. available = <<>> /\ b = <<>> /\ Len(available) = 0
        BY <1>1, <2>3, EmptySeq DEF ReqInv, Fresh
      <3>2. Parsed = FlattenSeq(sent)
        BY <2>1, <2>3, SubSeqFull DEF Parsed
      <3>3. Read = FlattenSeq(sent)
        <4>1. Len(FlattenSeq(sent)) \in Nat
          BY <2>2, LenProperties
        <4>2. Len(FlattenSeq(sent)) - Len(available) = Len(FlattenSeq(sent))
          BY <3>1, <4>1
        <4> QED  BY <2>2, <4>2, SubSeqFull DEF Read
      <3>4. FlattenSeq(sent) \o <<>> = FlattenSeq(sent)
        BY <2>2, ConcatEmptySeq
      <3> QED  BY <1>1, <3>1, <3>2, <3>3, <3>4 DEF BufferIsUnparsedInput, ReqInv
    <2>4. CASE Len(sent) # Len(results) /\ Serving
      <3> DEFINE before == SubSeq(sent, 1, Len(results))
                 r == sent[Len(results) + 1]
      <3>1. Len(sent) = Len(results) + 1 /\ r \in Requests /\ b \o available = r
        BY <1>1, <2>4, LastRequest DEF Parses
      <3>2. before \in Seq(Seq(Tokens)) /\ sent = Append(before, r)
        <4>1. /\ before \in Seq(Requests) /\ Len(before) = Len(results)
              /\ \A i \in 1 .. Len(results) : before[i] = sent[i]
          <5>1. \A i \in 1 .. Len(results) : sent[i] \in Requests
            BY <2>1, <3>1, ElementOfSeq
          <5> QED  BY <2>1, <3>1, <5>1, SubSeqProperties
        <4> HIDE DEF before, r
        <4>2. /\ Append(before, r) \in Seq(Requests) /\ Len(Append(before, r)) = Len(results) + 1
              /\ Append(before, r)[Len(results) + 1] = r
              /\ \A i \in 1 .. Len(results) : Append(before, r)[i] = before[i]
          BY <3>1, <4>1, AppendProperties
        <4>3. \A i \in 1 .. Len(sent) : sent[i] = Append(before, r)[i]
          <5> TAKE i \in 1 .. Len(sent)
          <5>1. i \in 1 .. Len(results) \/ i = Len(results) + 1
            BY <2>1, <3>1
          <5> QED  BY <4>1, <4>2, <5>1 DEF r
        <4>4. sent = Append(before, r)
          BY <2>1, <3>1, <4>2, <4>3, SeqEqual
        <4>5. Requests \subseteq Seq(Tokens)
          BY RequestIsSeq
        <4> QED  BY <4>1, <4>4, <4>5, SeqMonotonic
      <3> DEFINE P == FlattenSeq(before)
      <3>3. P \in Seq(Tokens) /\ FlattenSeq(sent) = P \o r /\ Parsed = P
        <4>1. r \in Seq(Tokens)
          BY <3>1, RequestIsSeq
        <4> HIDE DEF before, r
        <4> QED  BY <3>2, <4>1, FlattenAppend DEF Parsed, before
      <3> HIDE DEF P, r, before, b
      <3>4. /\ P \o b \in Seq(Tokens) /\ FlattenSeq(sent) = (P \o b) \o available
            /\ Len(FlattenSeq(sent)) = Len(P \o b) + Len(available) /\ Len(P \o b) \in Nat
        <4>1. P \o b \in Seq(Tokens)
          BY <2>1, <3>3, ConcatProperties
        <4>2. (P \o b) \o available = P \o (b \o available)
          BY ONLY <2>1, <3>3, ConcatAssociative
        <4>3. /\ Len((P \o b) \o available) = Len(P \o b) + Len(available)
              /\ Len(P \o b) \in Nat
          BY <2>1, <4>1, ConcatProperties, LenProperties
        <4>4. FlattenSeq(sent) = (P \o b) \o available
          BY <3>1, <3>3, <4>2
        <4> QED  BY <4>1, <4>3, <4>4
      <3> DEFINE c == P \o b
      <3> HIDE DEF c
      <3>5. Read = SubSeq(c \o available, 1, Len(c))
        <4>1. FlattenSeq(sent) = c \o available
          BY <3>4 DEF c
        <4>2. Len(FlattenSeq(sent)) - Len(available) = Len(c)
          BY <2>1, <3>4 DEF c
        <4> QED  BY <4>1, <4>2 DEF Read
      <3>6. c \in Seq(Tokens) /\ Len(c) \in Nat
        BY <3>4 DEF c
      <3>7. SubSeq(c \o available, 1, Len(c)) = c
        <4>1. CASE Len(c) = 0
          <5>1. c = <<>>
            BY <3>6, <4>1, EmptySeq
          <5>2. SubSeq(c \o available, 1, 0) = <<>>
            BY SubSeqEmpty, <2>1, <3>6, ConcatProperties
          <5> QED  BY <4>1, <5>1, <5>2
        <4>2. CASE Len(c) # 0
          <5>1. 1 \in 1 .. Len(c) /\ Len(c) \in 1 .. Len(c)
            BY <3>6, <4>2
          <5>2. SubSeq(c \o available, 1, Len(c)) = SubSeq(c, 1, Len(c))
            BY <2>1, <3>6, <5>1, SubSeqOfConcat1
          <5> QED  BY <3>6, <5>2, SubSeqFull
        <4> QED  BY <4>1, <4>2
      <3>8. Parsed \o parser.m_buffer = c
        BY <3>3 DEF c, b
      <3> QED  BY <1>1, <3>5, <3>7, <3>8 DEF BufferIsUnparsedInput, ReqInv
    <2>5. CASE ~Serving
      BY <1>1, <2>5 DEF BufferIsUnparsedInput, ReqInv
    <2> QED  BY <2>3, <2>4, <2>5
  <1>2. ReqInv => BufferIsUnparsedInput
    BY <1>1
  <1> QED  BY <1>2, AlwaysReqInv, PTL

(* A whole request is finished by the read that brings its last byte, with *)
(* a body or without, unless the body came in more than one read.          *)
THEOREM ParserStalls ==
    ASSUME OneAtATime
    PROVE  Spec => []OnlyBodiesStall
  <1>1. ASSUME ReqInv
        PROVE  OnlyBodiesStall
    <2> DEFINE r == sent[Len(results) + 1]
    <2> SUFFICES ASSUME status = "InProgress", Len(results) < Len(sent), Whole(r),
                        IsPrefix(r, parser.m_buffer)
                 PROVE  BodyCut(r)
      BY DEF OnlyBodiesStall
    <2>1. Len(sent) # Len(results)
      <3>1. Len(sent) \in Nat /\ Len(results) \in Nat
        BY <1>1, LenProperties DEF ReqInv, TypeInv
      <3> QED  BY <3>1
    <2>2. r \in Requests /\ Parses(r) /\ Serving
      BY <1>1, <2>1, LastRequest DEF Serving
    <2>3. Len(r) <= Len(parser.m_buffer)
      BY DEF IsPrefix
    <2> HIDE DEF r
    <2>4. Len(parser.m_buffer) = Len(r)
      <3>1. Len(r) \in Nat /\ Len(parser.m_buffer) \in Nat
        BY <1>1, <2>2, RequestIsSeq, SoundNumbers DEF ReqInv, TypeInv
      <3>2. Len(parser.m_buffer) <= Len(r)
        BY <2>2 DEF Parses, Follows, HoldsPrefix
      <3> QED  BY <2>3, <3>1, <3>2
    <2> QED  BY <2>2, <2>4 DEF Parses
  <1>2. ReqInv => OnlyBodiesStall
    BY <1>1
  <1> QED  BY <1>2, AlwaysReqInv, PTL

(* A well-formed request is refused only when it does not fit the buffer,  *)
(* or fills it and is not whole or its body came in pieces; none throws.   *)
THEOREM ParserRefuses ==
    ASSUME OneAtATime, WellFormedAreValid
    PROVE  Spec => []RefusedForCause
  <1>1. ASSUME ReqInv
        PROVE  RefusedForCause
    <2> DEFINE r == sent[Len(results) + 1]
    <2> SUFFICES ASSUME status \in {"Failed", "Threw"}
                 PROVE  \/ ~WellFormed(r)
                        \/ Len(r) > MAX_REQUEST_SIZE
                        \/ Len(r) = MAX_REQUEST_SIZE /\ (Whole(r) => BodyCut(r))
      BY DEF RefusedForCause
    <2>1. ~Serving
      BY DEF Serving
    <2>2. r \in Requests /\ Refused(r)
      BY <1>1, <2>1, LastRequest DEF Parses, ReqInv
    <2> HIDE DEF r
    <2> QED  BY <2>2, RequestIsValid DEF Refused
  <1>2. ReqInv => RefusedForCause
    BY <1>1
  <1> QED  BY <1>2, AlwaysReqInv, PTL
=============================================================================
