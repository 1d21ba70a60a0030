--------------------------- MODULE MPSCQueueProofs ---------------------------
(***************************************************************************)
(* Proofs about the request queue, for any number of producers, any finite *)
(* set of objects and any size above 1, as long as the position counters   *)
(* do not wrap (NoWrap); the run mpsc_wrap shows what happens if they do.  *)
(***************************************************************************)
EXTENDS MPSCQueue, Integers, SequenceTheorems, FiniteSetTheorems, TLAPS

(* The counters can count every object that is pushed, and one round more. *)
NoWrap ==
    /\ Size > 1
    /\ Cardinality(Objects) + Size <= Word
-----------------------------------------------------------------------------
(* Remainders: which positions share a slot. *)

(* The defining property of quotient and remainder. *)
LEMMA DivMod ==
    ASSUME NEW x \in Nat, NEW n \in Nat \ {0}
    PROVE  /\ x = n * (x \div n) + (x % n)
           /\ x \div n \in Nat
           /\ x % n \in 0 .. n - 1
  OBVIOUS

(* A number below the divisor is its own remainder. *)
LEMMA ModSmall ==
    ASSUME NEW n \in Nat \ {0}, NEW x \in 0 .. n - 1
    PROVE  x % n = x
  OBVIOUS

(* No multiple of n lies strictly between 0 and n. *)
LEMMA MultipleOf ==
    ASSUME NEW n \in Nat \ {0}, NEW k \in Int
    PROVE  /\ n * k \in Int
           /\ k <= 0 => n * k <= 0
           /\ k >= 1 => n * k >= n
  <1>1. k <= 0 => n * k <= 0
    OBVIOUS
  <1>2. k >= 1 => n * k >= n * 1
    OBVIOUS
  <1> QED
    BY <1>1, <1>2

LEMMA Distribute ==
    ASSUME NEW n \in Int, NEW p \in Int, NEW q \in Int
    PROVE  n * p - n * q = n * (p - q)
  OBVIOUS

(* Quotients of the same number agree when the remainders are close. *)
LEMMA SameQuotient ==
    ASSUME NEW n \in Nat \ {0}, NEW p \in Int, NEW q \in Int,
           NEW r \in Int, NEW s \in Int,
           n * p + r = n * q + s, r - s < n, s - r < n
    PROVE  p = q
  <1> DEFINE P == n * p
             Q == n * q
             D == n * (p - q)
             F == n * (q - p)
  <1>1. P - Q = D /\ Q - P = F /\ P \in Int /\ Q \in Int
    BY Distribute
  <1>2. P + r = Q + s
    OBVIOUS
  <1>3. p - q >= 1 => D >= n
    BY MultipleOf
  <1>4. q - p >= 1 => F >= n
    BY MultipleOf
  <1> HIDE DEF P, Q, D, F
  <1> QED
    BY <1>1, <1>2, <1>3, <1>4

(* Positions less than one round apart share a slot only if they are equal. *)
LEMMA SameSlot ==
    ASSUME NEW n \in Nat \ {0}, NEW a \in Nat, NEW b \in Nat,
           a % n = b % n, a < b + n, b < a + n
    PROVE  a = b
  <1> DEFINE qa == a \div n
             qb == b \div n
             r == a % n
  <1>1. a = n * qa + r /\ qa \in Nat /\ r \in Nat
    OBVIOUS
  <1>2. b = n * qb + r /\ qb \in Nat
    OBVIOUS
  <1> HIDE DEF qa, qb, r
  <1>3. n * qa + b = n * qb + a
    <2>1. n * qa \in Int /\ n * qb \in Int
      BY <1>1, <1>2
    <2> QED
      BY <1>1, <1>2, <2>1
  <1>4. qa = qb
    BY <1>1, <1>2, <1>3, SameQuotient
  <1> QED
    BY <1>1, <1>2, <1>4

(* The remainder is the only one. *)
LEMMA RemainderUnique ==
    ASSUME NEW n \in Nat \ {0}, NEW x \in Nat, NEW q \in Int, NEW r \in 0 .. n - 1,
           x = n * q + r
    PROVE  x % n = r
  <1> DEFINE k == x \div n
             m == x % n
  <1>1. x = n * k + m /\ k \in Nat /\ m \in 0 .. n - 1
    OBVIOUS
  <1> HIDE DEF k, m
  <1>2. k = q
    BY <1>1, SameQuotient
  <1>3. m = r
    <2>1. n * k \in Int
      BY <1>1
    <2> QED
      BY <1>1, <1>2, <2>1
  <1> QED
    BY <1>3 DEF m

(* Whole rounds lead back to the same slot. *)
LEMMA WholeRounds ==
    ASSUME NEW n \in Nat \ {0}, NEW x \in Nat, NEW k \in Nat
    PROVE  (x + n * k) % n = x % n
  <1> DEFINE q == x \div n
             m == x % n
  <1>1. x = n * q + m /\ q \in Nat /\ m \in 0 .. n - 1
    OBVIOUS
  <1> HIDE DEF q, m
  <1>2. n * q \in Nat /\ n * k \in Nat /\ n * (q + k) \in Nat
    BY <1>1
  <1>3. n * (q + k) = n * q + n * k
    BY <1>1
  <1>4. x + n * k = n * (q + k) + m
    BY <1>1, <1>2, <1>3
  <1>5. (x + n * k) % n = m
    BY <1>1, <1>2, <1>4, RemainderUnique
  <1> QED
    BY <1>5 DEF m

LEMMA OneRound ==
    ASSUME NEW n \in Nat \ {0}, NEW x \in Nat
    PROVE  (x + n) % n = x % n
  <1>1. (x + n * 1) % n = x % n
    BY WholeRounds
  <1>2. n * 1 = n
    OBVIOUS
  <1> QED
    BY <1>1, <1>2

(* Each slot belongs to a position of the round that starts at h. *)
LEMMA InRound ==
    ASSUME NEW n \in Nat \ {0}, NEW h \in Nat, NEW x \in Nat, h <= x
    PROVE  \E t \in h .. h + n - 1 : t % n = x % n /\ t <= x
  <1> DEFINE y == x - h
  <1>1. y \in Nat /\ x = h + y
    OBVIOUS
  <1> HIDE DEF y
  <1> DEFINE k == y \div n
             t == h + (y % n)
  <1>2. y = n * k + (y % n) /\ k \in Nat /\ y % n \in 0 .. n - 1
    BY <1>1
  <1>3. t \in Nat /\ t \in h .. h + n - 1
    BY <1>2
  <1>4. x = t + n * k /\ n * k \in Nat
    BY <1>1, <1>2
  <1> HIDE DEF k, t
  <1>5. (t + n * k) % n = t % n
    BY <1>2, <1>3, WholeRounds
  <1>6. t <= x
    BY <1>3, <1>4
  <1> QED
    BY <1>3, <1>4, <1>5, <1>6
-----------------------------------------------------------------------------
(* The inductive invariant, in parts. *)

Holding(p) == pc[p] \in {"spin", "compare", "write", "publish"}

(* An object is in one place: unpushed, in a Push, or reserved once. *)
ObjectsInv ==
    /\ \A p \in Producers : pc[p] = "reserve" => object[p] \in Objects \ fresh
    /\ \A p, q \in Producers : pc[p] = "reserve" /\ pc[q] = "reserve" /\ p # q => object[p] # object[q]
    /\ reserved \in Seq(Objects)
    /\ \A n \in 1 .. Len(reserved) :
           /\ reserved[n] \notin fresh
           /\ \A p \in Producers : pc[p] = "reserve" => object[p] # reserved[n]
    /\ \A m, n \in 1 .. Len(reserved) : reserved[m] = reserved[n] => m = n

(* The counters count the history; the consumer is where a slot is full. *)
CountersInv ==
    /\ m_uiTail = Len(reserved)
    /\ m_uiHead <= m_uiTail
    /\ Len(delivered) = m_uiHead + (IF popPc = "release" THEN 1 ELSE 0)
    /\ popPc \in {"take", "release"} => m_uiVersion[ReadSlot] = m_uiHead + 1
    /\ \A n \in 1 .. Len(delivered) : delivered[n] = reserved[n]

(* Producers hold different positions that the consumer has not passed; at *)
(* the slot they are only while its version is their position.             *)
PositionsInv ==
    /\ \A p \in Producers : Holding(p) =>
           m_uiHead <= uiLogicalPosition[p] /\ uiLogicalPosition[p] < m_uiTail
    /\ \A p, q \in Producers : Holding(p) /\ Holding(q) /\ p # q =>
           uiLogicalPosition[p] # uiLogicalPosition[q]
    /\ \A p \in Producers : Accessing(p) =>
           /\ uiLogicalPosition[p] < m_uiHead + Size
           /\ m_uiVersion[SlotOf(p)] = uiLogicalPosition[p]
    /\ \A p \in Producers : pc[p] \in {"spin", "compare", "write"} =>
           object[p] = reserved[uiLogicalPosition[p] + 1]
    /\ \A p \in Producers : pc[p] = "publish" =>
           TObject[SlotOf(p)] = reserved[uiLogicalPosition[p] + 1]

(* A slot serves one position of the current round: its version says       *)
(* whether the object of that position is in it.                           *)
InWindow(t) ==
    LET s == GetPositionWithinBounds(t)
    IN  /\ m_uiVersion[s] \in {t, t + 1}
        /\ m_uiVersion[s] = t + 1 =>
               /\ t < m_uiTail
               /\ \A p \in Producers : Holding(p) => uiLogicalPosition[p] # t
               /\ TObject[s] = IF t = m_uiHead /\ popPc = "release" THEN NULL ELSE reserved[t + 1]
        /\ m_uiVersion[s] = t =>
               \/ TObject[s] = NULL
               \/ \E p \in Producers : pc[p] = "publish" /\ uiLogicalPosition[p] = t

WindowInv == \A t \in m_uiHead .. m_uiHead + Size - 1 : InWindow(t)

(* While the queue is read, an unpublished position has its producer. *)
AbandonedInv ==
    m_bIsReading =>
        \A t \in m_uiHead .. m_uiTail - 1 :
            \/ m_uiVersion[GetPositionWithinBounds(t)] = t + 1
            \/ \E p \in Producers : Holding(p) /\ uiLogicalPosition[p] = t

IInv ==
    /\ TypeOK
    /\ ObjectsInv
    /\ CountersInv
    /\ PositionsInv
    /\ WindowInv
    /\ AbandonedInv
-----------------------------------------------------------------------------
(* The words stay words, whatever wraps. *)
LEMMA WordsClosed ==
    /\ 0 \in Words
    /\ Slots \subseteq Words
    /\ \A x \in Nat : x % Word \in Words
  BY QueueAssumption, DivMod DEF Words, Slots

LEMMA TypeInit == Init => TypeOK
  BY WordsClosed DEF Init, TypeOK

LEMMA TypeStep == TypeOK /\ [Next]_vars => TypeOK'
  <1> SUFFICES ASSUME TypeOK, [Next]_vars PROVE TypeOK'
    OBVIOUS
  <1> USE WordsClosed DEF TypeOK
  <1>1. Words \subseteq Nat /\ Size \in Nat
    BY QueueAssumption DEF Words
  <1>2. ASSUME NEW p \in Producers, NEW o \in Objects, PushBegin(p, o) \/ PushRefused(p, o)
        PROVE  TypeOK'
    BY <1>2 DEF PushBegin, PushRefused, ringVars, flagVars, popVars, historyVars
  <1>3. ASSUME NEW p \in Producers, Reserve(p)
        PROVE  TypeOK'
    <2>1. m_uiTail' \in Words
      BY <1>1, <1>3 DEF Reserve
    <2>2. reserved' \in Seq(Objects \cup {NULL})
      BY <1>3 DEF Reserve
    <2> QED
      BY <1>3, <2>1, <2>2 DEF Reserve, flagVars, popVars
  <1>4. ASSUME NEW p \in Producers, LoadReading(p)
        PROVE  TypeOK'
    BY <1>4 DEF LoadReading, ReturnFromPush, ringVars, flagVars, popVars, historyVars
  <1>5. ASSUME NEW p \in Producers, LoadVersion(p)
        PROVE  TypeOK'
    BY <1>5 DEF LoadVersion, ringVars, flagVars, popVars, historyVars
  <1>6. ASSUME NEW p \in Producers, WriteObject(p)
        PROVE  TypeOK'
    BY <1>6 DEF WriteObject, flagVars, popVars, historyVars
  <1>7. ASSUME NEW p \in Producers, Publish(p)
        PROVE  TypeOK'
    <2>1. (uiLogicalPosition[p] + 1) % Word \in Words
      <3>1. uiLogicalPosition[p] \in Nat
        BY <1>1
      <3> QED
        BY <3>1
    <2>2. m_uiVersion' \in [Slots -> Words]
      BY <1>7, <2>1 DEF Publish
    <2> QED
      BY <1>7, <2>2 DEF Publish, ReturnFromPush, flagVars, popVars, historyVars
  <1>8. CASE PopLoadReading
    BY <1>8 DEF PopLoadReading, ringVars, flagVars, pushVars, historyVars
  <1>9. CASE PopLoadVersion
    BY <1>9 DEF PopLoadVersion, ringVars, flagVars, pushVars, historyVars
  <1>10. CASE PopTake
    <2>1. ReadSlot \in Slots
      BY <1>1, QueueAssumption, DivMod DEF ReadSlot, GetPositionWithinBounds, Slots
    <2>2. delivered' \in Seq(Objects \cup {NULL})
      BY <1>10, <2>1 DEF PopTake
    <2> QED
      BY <1>10, <2>2 DEF PopTake, flagVars, pushVars
  <1>11. CASE PopRelease
    <2>1. (m_uiHead + Size) % Word \in Words /\ (m_uiHead + 1) % Word \in Words
      BY <1>1
    <2>2. m_uiVersion' \in [Slots -> Words] /\ m_uiHead' \in Words
      BY <1>11, <2>1 DEF PopRelease
    <2> QED
      BY <1>11, <2>2 DEF PopRelease, flagVars, pushVars, historyVars
  <1>12. CASE StopReading \/ StopWriting
    BY <1>12 DEF StopReading, StopWriting, ringVars, pushVars, popVars, historyVars
  <1>13. CASE UNCHANGED vars
    BY <1>13 DEF vars, ringVars, flagVars, pushVars, popVars, historyVars
  <1> QED
    BY <1>2, <1>3, <1>4, <1>5, <1>6, <1>7, <1>8, <1>9, <1>10, <1>11, <1>12, <1>13
       DEF Next, PushStep, Pop

(* Every variable of the queue keeps its type, in every instance: slots    *)
(* and counters hold words even after the counters have wrapped.           *)
THEOREM TypeInvariant == Spec => []TypeOK
  BY TypeInit, TypeStep, PTL DEF Spec
-----------------------------------------------------------------------------
(* A sequence without repetition is no longer than there are objects. *)
LEMMA NoRepetition ==
    ASSUME NEW s \in Seq(Objects),
           \A m, n \in 1 .. Len(s) : s[m] = s[n] => m = n
    PROVE  Len(s) <= Cardinality(Objects)
  <1>1. s \in Injection(1 .. Len(s), Objects)
    BY DEF Injection, IsInjective
  <1>2. Cardinality(1 .. Len(s)) <= Cardinality(Objects)
    BY <1>1, QueueAssumption, FS_Injection
  <1>3. Cardinality(1 .. Len(s)) = Len(s)
    BY FS_Interval
  <1> QED
    BY <1>2, <1>3

LEMMA CountObjects == Cardinality(Objects) \in Nat
  BY QueueAssumption, FS_CardinalityType

(* Under NoWrap no counter, and no version a step stores, is cut off. *)
LEMMA Small ==
    ASSUME NoWrap, NEW x \in Nat, x < Cardinality(Objects) + Size
    PROVE  x % Word = x
  BY CountObjects, QueueAssumption, ModSmall DEF NoWrap

LEMMA TailBound ==
    ASSUME IInv
    PROVE  /\ m_uiHead \in Nat
           /\ m_uiTail \in Nat
           /\ m_uiHead <= m_uiTail
           /\ m_uiTail <= Cardinality(Objects)
  <1>1. Len(reserved) <= Cardinality(Objects)
    BY NoRepetition DEF IInv, ObjectsInv
  <1> QED
    BY <1>1, QueueAssumption DEF IInv, TypeOK, CountersInv, Words

LEMMA Sizes == Size \in Nat \ {0} /\ Words \subseteq Nat
  BY QueueAssumption DEF Words

LEMMA SlotOfPosition ==
    ASSUME NEW t \in Nat
    PROVE  GetPositionWithinBounds(t) \in Slots
  BY QueueAssumption, DivMod DEF GetPositionWithinBounds, Slots

LEMMA PositionOfSlot ==
    ASSUME NEW a \in Nat, NEW b \in Nat,
           GetPositionWithinBounds(a) = GetPositionWithinBounds(b),
           a < b + Size, b < a + Size
    PROVE  a = b
  BY QueueAssumption, SameSlot DEF GetPositionWithinBounds

LEMMA NextRound ==
    ASSUME NEW t \in Nat
    PROVE  GetPositionWithinBounds(t + Size) = GetPositionWithinBounds(t)
  BY QueueAssumption, OneRound DEF GetPositionWithinBounds

LEMMA PositionInRound ==
    ASSUME NEW h \in Nat, NEW x \in Nat, h <= x
    PROVE  \E t \in h .. h + Size - 1 :
               GetPositionWithinBounds(t) = GetPositionWithinBounds(x) /\ t <= x
  BY QueueAssumption, InRound DEF GetPositionWithinBounds

(* A held position is not published yet, and the version of its slot has   *)
(* reached it only if it belongs to the current round.                     *)
LEMMA HeldPosition ==
    ASSUME NoWrap, IInv, NEW p \in Producers, Holding(p)
    PROVE  /\ uiLogicalPosition[p] \in Nat
           /\ SlotOf(p) \in Slots
           /\ m_uiVersion[SlotOf(p)] \in Nat
           /\ m_uiVersion[SlotOf(p)] <= uiLogicalPosition[p]
           /\ m_uiVersion[SlotOf(p)] = uiLogicalPosition[p] =>
                  uiLogicalPosition[p] < m_uiHead + Size
  <1> DEFINE x == uiLogicalPosition[p]
  <1>1. x \in Nat /\ m_uiHead \in Nat /\ m_uiHead <= x
    BY TailBound, Sizes DEF IInv, TypeOK, PositionsInv
  <1>2. SlotOf(p) \in Slots /\ m_uiVersion[SlotOf(p)] \in Nat
    BY <1>1, SlotOfPosition, Sizes DEF IInv, TypeOK, SlotOf
  <1>3. PICK t \in m_uiHead .. m_uiHead + Size - 1 :
            GetPositionWithinBounds(t) = SlotOf(p) /\ t <= x
    BY <1>1, PositionInRound DEF SlotOf
  <1>4. m_uiVersion[SlotOf(p)] \in {t, t + 1} /\ (m_uiVersion[SlotOf(p)] = t + 1 => x # t)
    BY <1>3 DEF IInv, WindowInv, InWindow
  <1>5. t \in Nat
    BY <1>1, <1>3, Sizes
  <1>6. m_uiVersion[SlotOf(p)] <= x
    BY <1>1, <1>3, <1>4, <1>5
  <1>7. x # t => x >= t + Size
    BY <1>1, <1>3, <1>5, PositionOfSlot, Sizes DEF SlotOf
  <1>8. m_uiVersion[SlotOf(p)] = x => x = t
    BY <1>1, <1>3, <1>4, <1>5, <1>7, Sizes DEF NoWrap
  <1>9. m_uiVersion[SlotOf(p)] = x => x < m_uiHead + Size
    BY <1>1, <1>3, <1>8, Sizes
  <1> QED
    BY <1>1, <1>2, <1>6, <1>9

(* What the consumer has taken had been reserved. *)
LEMMA DeliveredBound ==
    ASSUME IInv
    PROVE  /\ Len(delivered) \in Nat
           /\ Len(delivered) <= Len(reserved)
           /\ popPc \in {"take", "release"} => m_uiHead < m_uiTail /\ InWindow(m_uiHead)
  <1>1. m_uiHead \in Nat /\ m_uiTail \in Nat /\ m_uiHead <= m_uiTail /\ Size \in Nat \ {0}
    BY TailBound, Sizes
  <1>2. InWindow(m_uiHead)
    BY <1>1 DEF IInv, WindowInv
  <1>3. popPc \in {"take", "release"} => m_uiHead < m_uiTail
    BY <1>2 DEF IInv, CountersInv, InWindow, ReadSlot
  <1> QED
    BY <1>1, <1>2, <1>3 DEF IInv, CountersInv

LEMMA InitInv == NoWrap /\ Init => IInv
  <1> SUFFICES ASSUME NoWrap, Init PROVE IInv
    OBVIOUS
  <1>1. TypeOK
    BY TypeInit
  <1>2. ObjectsInv /\ CountersInv /\ PositionsInv /\ AbandonedInv
    BY DEF Init, ObjectsInv, CountersInv, PositionsInv, AbandonedInv, Holding, Accessing
  <1>3. ASSUME NEW t \in 0 .. Size - 1
        PROVE  InWindow(t)
    <2>1. GetPositionWithinBounds(t) = t
      <3>1. t % Size = t
        BY QueueAssumption, ModSmall
      <3> QED
        BY <3>1 DEF GetPositionWithinBounds
    <2>2. m_uiVersion[t] = t /\ TObject[t] = NULL /\ t # t + 1
      BY Sizes DEF Init, Slots
    <2> QED
      BY <2>1, <2>2 DEF InWindow
  <1>4. WindowInv
    BY <1>3, Sizes DEF Init, WindowInv
  <1> QED
    BY <1>1, <1>2, <1>4 DEF IInv
-----------------------------------------------------------------------------
(* Each step of a producer keeps the invariant. *)

LEMMA PushBeginInv ==
    ASSUME IInv, TypeOK', NEW p \in Producers, NEW o \in Objects, PushBegin(p, o)
    PROVE  IInv'
  <1> USE DEF PushBegin, ringVars, flagVars, popVars, historyVars
  <1>1. \A q \in Producers : /\ Holding(q)' <=> Holding(q)
                             /\ Accessing(q)' <=> Accessing(q)
                             /\ SlotOf(q)' = SlotOf(q)
    BY DEF IInv, TypeOK, Holding, Accessing, SlotOf
  <1>2. ObjectsInv'
    BY DEF IInv, TypeOK, ObjectsInv
  <1>3. CountersInv'
    BY DEF IInv, CountersInv, ReadSlot
  <1>4. PositionsInv'
    BY <1>1 DEF IInv, TypeOK, PositionsInv
  <1>5. WindowInv'
    BY <1>1 DEF IInv, TypeOK, WindowInv, InWindow
  <1>6. AbandonedInv'
    BY <1>1 DEF IInv, AbandonedInv
  <1> QED
    BY <1>2, <1>3, <1>4, <1>5, <1>6 DEF IInv

LEMMA PushRefusedInv ==
    ASSUME IInv, TypeOK', NEW p \in Producers, NEW o \in Objects, PushRefused(p, o)
    PROVE  IInv'
  <1> USE DEF PushRefused, ringVars, flagVars, popVars, historyVars
  <1>1. ObjectsInv' /\ CountersInv' /\ AbandonedInv'
    BY DEF IInv, ObjectsInv, CountersInv, AbandonedInv, ReadSlot, Holding
  <1>2. PositionsInv' /\ WindowInv'
    BY DEF IInv, PositionsInv, WindowInv, InWindow, Holding, Accessing, SlotOf
  <1> QED
    BY <1>1, <1>2 DEF IInv

(* The fetch_add gives the producer a position nobody holds. *)
LEMMA ReserveInv ==
    ASSUME NoWrap, IInv, TypeOK', NEW p \in Producers, Reserve(p)
    PROVE  IInv'
  <1> USE DEF Reserve, flagVars, popVars
  <1> DEFINE n == Len(reserved)
  <1>1. /\ reserved \in Seq(Objects)
        /\ object[p] \in Objects
        /\ n \in Nat
        /\ m_uiTail = n
    BY DEF IInv, ObjectsInv, CountersInv
  <1>2. /\ reserved' = Append(reserved, object[p])
        /\ reserved' \in Seq(Objects)
        /\ Len(reserved') = n + 1
        /\ reserved'[n + 1] = object[p]
        /\ \A m \in 1 .. n : reserved'[m] = reserved[m]
    BY <1>1
  <1> HIDE DEF n
  <1>3. ObjectsInv'
    BY <1>1, <1>2 DEF IInv, TypeOK, ObjectsInv, n
  <1>4. m_uiTail' = n + 1
    <2>1. n + 1 <= Cardinality(Objects)
      BY <1>2, <1>3, NoRepetition DEF ObjectsInv
    <2>2. n + 1 < Cardinality(Objects) + Size
      BY <1>1, <2>1, CountObjects, Sizes
    <2> QED
      BY <1>1, <2>2, Small
  <1>5. m_uiHead \in Nat /\ m_uiHead <= n
    BY <1>1, TailBound
  <1>6. /\ ~Holding(p) /\ Holding(p)' /\ ~Accessing(p)' /\ ~Accessing(p) /\ uiLogicalPosition'[p] = n
        /\ pc[p] = "reserve"
        /\ \A q \in Producers \ {p} :
               /\ Holding(q)' <=> Holding(q)
               /\ uiLogicalPosition'[q] = uiLogicalPosition[q]
               /\ pc'[q] = pc[q]
        /\ \A q \in Producers : Holding(q) => uiLogicalPosition[q] \in Nat /\ uiLogicalPosition[q] < n
        /\ \A q \in Producers : Accessing(q)' => Accessing(q) /\ q # p /\ SlotOf(q)' = SlotOf(q)
    BY <1>1, Sizes DEF IInv, TypeOK, PositionsInv, Holding, Accessing, SlotOf
  <1>7. CountersInv'
    <2>1. \A m \in 1 .. Len(delivered) : m \in 1 .. n
      BY <1>1, DeliveredBound DEF n
    <2> QED
      BY <1>1, <1>2, <1>4, <1>5, <2>1 DEF IInv, CountersInv, ReadSlot
  <1>8. PositionsInv'
    <2>1. ASSUME NEW q \in Producers, Holding(q)'
          PROVE  m_uiHead <= uiLogicalPosition'[q] /\ uiLogicalPosition'[q] < n + 1
      BY <1>1, <1>5, <1>6, <2>1 DEF IInv, PositionsInv
    <2>2. ASSUME NEW q \in Producers, NEW r \in Producers, Holding(q)', Holding(r)', q # r
          PROVE  uiLogicalPosition'[q] # uiLogicalPosition'[r]
      BY <1>1, <1>6, <2>2 DEF IInv, PositionsInv
    <2>3. ASSUME NEW q \in Producers, Accessing(q)'
          PROVE  /\ uiLogicalPosition'[q] < m_uiHead + Size
                 /\ m_uiVersion[SlotOf(q)'] = uiLogicalPosition'[q]
      BY <1>6, <2>3 DEF IInv, PositionsInv
    <2>4. ASSUME NEW q \in Producers, pc'[q] \in {"spin", "compare", "write"}
          PROVE  object[q] = reserved'[uiLogicalPosition'[q] + 1]
      BY <1>1, <1>2, <1>6, <2>4 DEF IInv, PositionsInv, Holding
    <2>5. ASSUME NEW q \in Producers, pc'[q] = "publish"
          PROVE  TObject[SlotOf(q)'] = reserved'[uiLogicalPosition'[q] + 1]
      BY <1>1, <1>2, <1>6, <2>5 DEF IInv, PositionsInv, Holding, Accessing
    <2> QED
      BY <1>4, <2>1, <2>2, <2>3, <2>4, <2>5 DEF PositionsInv
  <1>9. WindowInv'
    <2> SUFFICES ASSUME NEW t \in m_uiHead .. m_uiHead + Size - 1
                 PROVE  InWindow(t)'
      BY DEF WindowInv
    <2>1. InWindow(t) /\ t \in Nat
      BY <1>5, Sizes DEF IInv, WindowInv
    <2> QED
      BY <1>1, <1>2, <1>4, <1>6, <2>1 DEF InWindow
  <1>10. AbandonedInv'
    <2> SUFFICES ASSUME m_bIsReading, NEW t \in m_uiHead .. n
                 PROVE  \/ m_uiVersion[GetPositionWithinBounds(t)] = t + 1
                        \/ \E q \in Producers : Holding(q)' /\ uiLogicalPosition'[q] = t
      BY <1>1, <1>4 DEF AbandonedInv
    <2>1. CASE t = n
      BY <1>6, <2>1
    <2>2. CASE t # n
      BY <1>1, <1>5, <1>6, <2>2 DEF IInv, AbandonedInv
    <2> QED
      BY <2>1, <2>2
  <1> QED
    BY <1>3, <1>7, <1>8, <1>9, <1>10 DEF IInv
(* A Push that gives up, or looks at the slot, touches nothing shared. *)
LEMMA LoadReadingInv ==
    ASSUME IInv, TypeOK', NEW p \in Producers, LoadReading(p)
    PROVE  IInv'
  <1> USE DEF LoadReading, ringVars, flagVars, popVars, historyVars
  <1>1. /\ pc[p] = "spin"
        /\ pc'[p] \in {"idle", "compare"}
        /\ m_bIsReading => pc'[p] = "compare" /\ uiLogicalPosition' = uiLogicalPosition /\ object' = object
        /\ \A q \in Producers \ {p} :
               /\ pc'[q] = pc[q]
               /\ uiLogicalPosition'[q] = uiLogicalPosition[q]
               /\ object'[q] = object[q]
    BY DEF IInv, TypeOK, ReturnFromPush
  <1>2. pc'[p] = "compare" => uiLogicalPosition'[p] = uiLogicalPosition[p] /\ object'[p] = object[p]
    BY <1>1 DEF ReturnFromPush, IInv, TypeOK
  <1>3. \A q \in Producers :
            /\ Holding(q)' => Holding(q) /\ uiLogicalPosition'[q] = uiLogicalPosition[q]
            /\ Accessing(q)' => Accessing(q) /\ uiLogicalPosition'[q] = uiLogicalPosition[q]
            /\ pc'[q] = "publish" <=> pc[q] = "publish"
            /\ pc'[q] = "publish" => uiLogicalPosition'[q] = uiLogicalPosition[q]
            /\ pc'[q] \in {"spin", "compare", "write"} => pc[q] \in {"spin", "compare", "write"}
                                                          /\ uiLogicalPosition'[q] = uiLogicalPosition[q]
                                                          /\ object'[q] = object[q]
    BY <1>1, <1>2 DEF Holding, Accessing
  <1>4. ObjectsInv'
    BY <1>1 DEF IInv, ObjectsInv
  <1>5. CountersInv'
    BY DEF IInv, CountersInv, ReadSlot
  <1>6. PositionsInv'
    BY <1>3 DEF IInv, PositionsInv, SlotOf
  <1>7. WindowInv'
    BY <1>3 DEF IInv, WindowInv, InWindow
  <1>8. AbandonedInv'
    BY <1>1 DEF IInv, AbandonedInv, Holding
  <1> QED
    BY <1>4, <1>5, <1>6, <1>7, <1>8 DEF IInv

(* The producer goes to write only in its own round. *)
LEMMA LoadVersionInv ==
    ASSUME NoWrap, IInv, TypeOK', NEW p \in Producers, LoadVersion(p)
    PROVE  IInv'
  <1> USE DEF LoadVersion, ringVars, flagVars, popVars, historyVars
  <1>1. /\ pc[p] = "compare" /\ Holding(p) /\ ~Accessing(p)
        /\ pc'[p] \in {"spin", "write"}
        /\ pc'[p] = "write" => ~(m_uiVersion[SlotOf(p)] < uiLogicalPosition[p])
        /\ \A q \in Producers \ {p} : pc'[q] = pc[q]
    BY DEF IInv, TypeOK, Holding, Accessing
  <1>2. \A q \in Producers :
            /\ Holding(q)' <=> Holding(q)
            /\ SlotOf(q)' = SlotOf(q)
            /\ pc'[q] = "publish" <=> pc[q] = "publish"
            /\ pc'[q] = "reserve" <=> pc[q] = "reserve"
            /\ pc'[q] \in {"spin", "compare", "write"} <=> pc[q] \in {"spin", "compare", "write"}
    BY <1>1 DEF Holding, SlotOf
  <1>3. Accessing(p)' => /\ uiLogicalPosition[p] < m_uiHead + Size
                         /\ m_uiVersion[SlotOf(p)] = uiLogicalPosition[p]
    BY <1>1, HeldPosition DEF Accessing
  <1>4. \A q \in Producers \ {p} : Accessing(q)' <=> Accessing(q)
    BY <1>1 DEF Accessing
  <1>5. ObjectsInv' /\ CountersInv'
    BY <1>2 DEF IInv, ObjectsInv, CountersInv, ReadSlot
  <1>6. PositionsInv'
    BY <1>2, <1>3, <1>4 DEF IInv, PositionsInv
  <1>7. WindowInv' /\ AbandonedInv'
    BY <1>2 DEF IInv, WindowInv, InWindow, AbandonedInv
  <1> QED
    BY <1>5, <1>6, <1>7 DEF IInv

(* Only the slot of p changes, and nobody else is there. *)
LEMMA WriteObjectInv ==
    ASSUME NoWrap, IInv, TypeOK', NEW p \in Producers, WriteObject(p)
    PROVE  IInv'
  <1> USE DEF WriteObject, flagVars, popVars, historyVars
  <1> DEFINE x == uiLogicalPosition[p]
  <1>1. /\ pc[p] = "write" /\ Holding(p) /\ Accessing(p)
        /\ pc'[p] = "publish"
        /\ \A q \in Producers \ {p} : pc'[q] = pc[q] /\ object'[q] = object[q]
    BY DEF IInv, TypeOK, Holding, Accessing
  <1>2. \A q \in Producers :
            /\ Holding(q)' <=> Holding(q)
            /\ Accessing(q)' <=> Accessing(q)
            /\ SlotOf(q)' = SlotOf(q)
            /\ pc'[q] = "reserve" <=> pc[q] = "reserve"
    BY <1>1 DEF Holding, Accessing, SlotOf
  <1>3. /\ x \in Nat /\ m_uiHead \in Nat /\ Size \in Nat \ {0}
        /\ m_uiHead <= x /\ x < m_uiHead + Size
        /\ SlotOf(p) \in Slots
        /\ m_uiVersion[SlotOf(p)] = x
        /\ object[p] = reserved[x + 1]
    BY <1>1, HeldPosition, TailBound, Sizes DEF IInv, PositionsInv
  <1>4. /\ TObject'[SlotOf(p)] = reserved[x + 1]
        /\ \A s \in Slots \ {SlotOf(p)} : TObject'[s] = TObject[s]
    BY <1>3 DEF IInv, TypeOK
  <1>5. \A t \in m_uiHead .. m_uiHead + Size - 1 :
            /\ GetPositionWithinBounds(t) \in Slots
            /\ t \in Nat
            /\ GetPositionWithinBounds(t) = SlotOf(p) => t = x
    BY <1>3, SlotOfPosition, PositionOfSlot DEF SlotOf
  <1> HIDE DEF x
  <1>6. ObjectsInv' /\ CountersInv' /\ AbandonedInv'
    BY <1>1, <1>2 DEF IInv, ObjectsInv, CountersInv, ReadSlot, AbandonedInv
  <1>7. PositionsInv'
    <2>1. ASSUME NEW q \in Producers, pc'[q] = "publish"
          PROVE  TObject'[SlotOf(q)] = reserved[uiLogicalPosition[q] + 1]
      <3>1. CASE q = p
        BY <1>4, <3>1 DEF x
      <3>2. CASE q # p
        <4>1. pc[q] = "publish" /\ Accessing(q) /\ Holding(q)
          BY <1>1, <2>1, <3>2 DEF Accessing, Holding
        <4>2. uiLogicalPosition[q] # x /\ m_uiVersion[SlotOf(q)] = uiLogicalPosition[q]
          BY <1>1, <3>2, <4>1 DEF IInv, PositionsInv, x
        <4>3. SlotOf(q) # SlotOf(p) /\ SlotOf(q) \in Slots
          BY <1>3, <4>1, <4>2, HeldPosition
        <4> QED
          BY <1>4, <4>1, <4>3 DEF IInv, PositionsInv
      <3> QED
        BY <3>1, <3>2
    <2>2. \A q \in Producers : pc'[q] \in {"spin", "compare", "write"} => pc[q] = pc'[q] /\ q # p
      BY <1>1
    <2> QED
      BY <1>1, <1>2, <2>1, <2>2 DEF IInv, PositionsInv
  <1>8. WindowInv'
    <2> SUFFICES ASSUME NEW t \in m_uiHead .. m_uiHead + Size - 1
                 PROVE  InWindow(t)'
      BY DEF WindowInv
    <2>1. InWindow(t)
      BY DEF IInv, WindowInv
    <2>2. CASE t = x
      BY <1>1, <1>2, <1>3, <1>4, <2>1, <2>2 DEF InWindow, SlotOf, x
    <2>3. CASE t # x
      BY <1>1, <1>2, <1>4, <1>5, <2>1, <2>3 DEF InWindow
    <2> QED
      BY <2>2, <2>3
  <1> QED
    BY <1>6, <1>7, <1>8 DEF IInv
(* The version store turns the held position into a published one. *)
LEMMA PublishInv ==
    ASSUME NoWrap, IInv, TypeOK', NEW p \in Producers, Publish(p)
    PROVE  IInv'
  <1> USE DEF Publish, flagVars, popVars, historyVars
  <1> DEFINE x == uiLogicalPosition[p]
  <1>1. /\ pc[p] = "publish" /\ Holding(p) /\ Accessing(p)
        /\ pc'[p] = "idle"
        /\ \A q \in Producers \ {p} :
               /\ pc'[q] = pc[q]
               /\ uiLogicalPosition'[q] = uiLogicalPosition[q]
               /\ object'[q] = object[q]
    BY DEF IInv, TypeOK, Holding, Accessing, ReturnFromPush
  <1>2. \A q \in Producers : Holding(q)' =>
            /\ q # p
            /\ Holding(q)
            /\ Accessing(q)' => Accessing(q)
            /\ SlotOf(q)' = SlotOf(q)
            /\ uiLogicalPosition'[q] = uiLogicalPosition[q]
    BY <1>1 DEF Holding, Accessing, SlotOf
  <1>3. /\ x \in Nat /\ m_uiHead \in Nat /\ m_uiTail \in Nat /\ Size \in Nat \ {0}
        /\ m_uiHead <= x /\ x < m_uiHead + Size /\ x < m_uiTail
        /\ SlotOf(p) \in Slots
        /\ m_uiVersion[SlotOf(p)] = x
        /\ TObject[SlotOf(p)] = reserved[x + 1]
    BY <1>1, HeldPosition, TailBound, Sizes DEF IInv, PositionsInv
  <1>4. (x + 1) % Word = x + 1
    <2>1. x + 1 < Cardinality(Objects) + Size
      BY <1>3, TailBound, CountObjects
    <2> QED
      BY <1>3, <2>1, Small
  <1>5. /\ m_uiVersion'[SlotOf(p)] = x + 1
        /\ \A s \in Slots \ {SlotOf(p)} : m_uiVersion'[s] = m_uiVersion[s]
    BY <1>3, <1>4 DEF IInv, TypeOK
  <1>6. \A t \in m_uiHead .. m_uiHead + Size - 1 :
            /\ GetPositionWithinBounds(t) \in Slots
            /\ t \in Nat
            /\ GetPositionWithinBounds(t) = SlotOf(p) => t = x
    BY <1>3, SlotOfPosition, PositionOfSlot DEF SlotOf
  <1>7. popPc \in {"take", "release"} => ReadSlot # SlotOf(p)
    <2>1. GetPositionWithinBounds(m_uiHead) = SlotOf(p) => m_uiHead = x
      BY <1>3, <1>6
    <2> QED
      BY <1>3, <2>1 DEF IInv, CountersInv, ReadSlot
  <1>8. \A q \in Producers : Holding(q)' => uiLogicalPosition'[q] # x
    BY <1>1, <1>2 DEF IInv, PositionsInv
  <1> HIDE DEF x
  <1>9. ObjectsInv'
    BY <1>1 DEF IInv, ObjectsInv
  <1>10. CountersInv'
    <2>1. ReadSlot \in Slots /\ ReadSlot' = ReadSlot
      BY <1>3, SlotOfPosition DEF ReadSlot
    <2> QED
      BY <1>5, <1>7, <2>1 DEF IInv, CountersInv
  <1>11. PositionsInv'
    <2>1. ASSUME NEW q \in Producers, Accessing(q)'
          PROVE  /\ uiLogicalPosition'[q] < m_uiHead + Size
                 /\ m_uiVersion'[SlotOf(q)'] = uiLogicalPosition'[q]
      <3>1. Holding(q)' /\ Holding(q) /\ Accessing(q) /\ SlotOf(q)' = SlotOf(q)
        BY <1>2, <2>1 DEF Holding, Accessing
      <3>2. SlotOf(q) \in Slots /\ m_uiVersion[SlotOf(q)] = uiLogicalPosition[q]
        BY <3>1, HeldPosition DEF IInv, PositionsInv
      <3>3. SlotOf(q) # SlotOf(p)
        BY <1>2, <1>3, <1>8, <3>1, <3>2
      <3> QED
        BY <1>2, <1>5, <3>1, <3>2, <3>3 DEF IInv, PositionsInv
    <2>2. \A q \in Producers : pc'[q] \in {"spin", "compare", "write", "publish"} =>
              Holding(q)' /\ pc[q] = pc'[q] /\ q # p /\ object'[q] = object[q]
      BY <1>1 DEF Holding
    <2> QED
      BY <1>1, <1>2, <2>1, <2>2 DEF IInv, PositionsInv
  <1>12. WindowInv'
    <2> SUFFICES ASSUME NEW t \in m_uiHead .. m_uiHead + Size - 1
                 PROVE  InWindow(t)'
      BY DEF WindowInv
    <2>1. InWindow(t) /\ t \in Nat
      BY <1>6 DEF IInv, WindowInv
    <2>2. CASE t = x
      <3>1. GetPositionWithinBounds(t) = SlotOf(p) /\ t + 1 # t
        BY <2>1, <2>2 DEF SlotOf, x
      <3>2. ~(t = m_uiHead /\ popPc = "release")
        BY <1>7, <3>1 DEF ReadSlot
      <3> QED
        BY <1>3, <1>5, <1>8, <2>2, <3>1, <3>2 DEF InWindow
    <2>3. CASE t # x
      <3>1. m_uiVersion'[GetPositionWithinBounds(t)] = m_uiVersion[GetPositionWithinBounds(t)]
        BY <1>5, <1>6, <2>3
      <3>2. \A q \in Producers : pc[q] = "publish" /\ uiLogicalPosition[q] = t =>
                pc'[q] = "publish" /\ uiLogicalPosition'[q] = t
        BY <1>1, <2>3 DEF x
      <3> QED
        BY <1>2, <2>1, <3>1, <3>2 DEF InWindow
    <2> QED
      BY <2>2, <2>3
  <1>13. AbandonedInv'
    <2> SUFFICES ASSUME m_bIsReading, NEW t \in m_uiHead .. m_uiTail - 1
                 PROVE  \/ m_uiVersion'[GetPositionWithinBounds(t)] = t + 1
                        \/ \E q \in Producers : Holding(q)' /\ uiLogicalPosition'[q] = t
      BY DEF AbandonedInv
    <2>1. CASE t = x
      BY <1>5, <2>1 DEF SlotOf, x
    <2>2. CASE t # x /\ m_uiVersion[GetPositionWithinBounds(t)] = t + 1
      <3>1. GetPositionWithinBounds(t) \in Slots /\ t + 1 \in Nat
        BY <1>3, SlotOfPosition
      <3>2. GetPositionWithinBounds(t) = SlotOf(p) => x = t + 1
        BY <1>3, <2>2
      <3>3. GetPositionWithinBounds(t) # SlotOf(p)
        BY <1>3, <3>1, <3>2, PositionOfSlot DEF SlotOf, x, NoWrap
      <3> QED
        BY <1>5, <2>2, <3>1, <3>3
    <2>3. ASSUME t # x, NEW q \in Producers, Holding(q), uiLogicalPosition[q] = t
          PROVE  Holding(q)' /\ uiLogicalPosition'[q] = t
      BY <1>1, <2>3 DEF Holding, x
    <2> QED
      BY <2>1, <2>2, <2>3 DEF IInv, AbandonedInv
  <1> QED
    BY <1>9, <1>10, <1>11, <1>12, <1>13 DEF IInv
-----------------------------------------------------------------------------
(* Each step of the consumer, and stopping, keeps the invariant. *)

LEMMA PopLoadInv ==
    ASSUME NoWrap, IInv, TypeOK', PopLoadReading \/ PopLoadVersion
    PROVE  IInv'
  <1> USE DEF PopLoadReading, PopLoadVersion, ringVars, flagVars, pushVars, historyVars
  <1>1. \A p \in Producers : /\ Holding(p)' <=> Holding(p)
                             /\ Accessing(p)' <=> Accessing(p)
                             /\ SlotOf(p)' = SlotOf(p)
    BY DEF Holding, Accessing, SlotOf
  <1>2. popPc \notin {"take", "release"} /\ popPc' # "release"
    OBVIOUS
  <1>3. popPc' = "take" => m_uiVersion[ReadSlot] = m_uiHead + 1
    <2>1. (m_uiHead + 1) % Word = m_uiHead + 1
      <3>1. m_uiHead + 1 < Cardinality(Objects) + Size
        BY TailBound, CountObjects, Sizes DEF NoWrap
      <3> QED
        BY <3>1, TailBound, Small
    <2> QED
      BY <2>1
  <1>4. ObjectsInv' /\ AbandonedInv'
    BY <1>1 DEF IInv, ObjectsInv, AbandonedInv
  <1>5. CountersInv'
    BY <1>2, <1>3 DEF IInv, CountersInv, ReadSlot
  <1>6. PositionsInv'
    BY <1>1 DEF IInv, PositionsInv
  <1>7. WindowInv'
    BY <1>1, <1>2 DEF IInv, WindowInv, InWindow
  <1> QED
    BY <1>4, <1>5, <1>6, <1>7 DEF IInv

(* The object taken is the one of the next position. *)
LEMMA PopTakeInv ==
    ASSUME IInv, TypeOK', PopTake
    PROVE  IInv'
  <1> USE DEF PopTake, flagVars, pushVars
  <1>1. \A p \in Producers : /\ Holding(p)' <=> Holding(p)
                             /\ Accessing(p)' <=> Accessing(p)
                             /\ SlotOf(p)' = SlotOf(p)
    BY DEF Holding, Accessing, SlotOf
  <1>2. /\ m_uiHead \in Nat /\ m_uiTail \in Nat /\ Size \in Nat \ {0}
        /\ ReadSlot \in Slots
        /\ m_uiVersion[ReadSlot] = m_uiHead + 1
        /\ m_uiHead < m_uiTail
        /\ TObject[ReadSlot] = reserved[m_uiHead + 1]
        /\ Len(delivered) = m_uiHead
    BY TailBound, Sizes, SlotOfPosition, DeliveredBound DEF IInv, CountersInv, ReadSlot, InWindow
  <1>3. /\ Len(delivered') = m_uiHead + 1
        /\ delivered'[m_uiHead + 1] = reserved[m_uiHead + 1]
        /\ \A n \in 1 .. m_uiHead : delivered'[n] = delivered[n]
    BY <1>2 DEF IInv, TypeOK
  <1>4. /\ TObject'[ReadSlot] = NULL
        /\ \A s \in Slots \ {ReadSlot} : TObject'[s] = TObject[s]
    BY <1>2 DEF IInv, TypeOK
  <1>5. ObjectsInv' /\ AbandonedInv'
    BY <1>1 DEF IInv, ObjectsInv, AbandonedInv
  <1>6. CountersInv'
    BY <1>2, <1>3 DEF IInv, CountersInv, ReadSlot
  <1>7. PositionsInv'
    <2>1. ASSUME NEW p \in Producers, pc[p] = "publish"
          PROVE  TObject'[SlotOf(p)] = TObject[SlotOf(p)]
      <3>1. Holding(p) /\ Accessing(p)
        BY <2>1 DEF Holding, Accessing
      <3>2. /\ uiLogicalPosition[p] \in Nat
            /\ SlotOf(p) \in Slots
            /\ m_uiHead <= uiLogicalPosition[p]
            /\ uiLogicalPosition[p] < m_uiHead + Size
            /\ m_uiVersion[SlotOf(p)] = uiLogicalPosition[p]
        BY <1>2, <3>1, SlotOfPosition, Sizes DEF IInv, TypeOK, PositionsInv, SlotOf
      <3>3. SlotOf(p) # ReadSlot
        <4>1. SlotOf(p) = ReadSlot => uiLogicalPosition[p] = m_uiHead
          BY <1>2, <3>2, PositionOfSlot DEF SlotOf, ReadSlot
        <4> QED
          BY <1>2, <3>2, <4>1
      <3> QED
        BY <1>4, <3>2, <3>3
    <2> QED
      BY <1>1, <2>1 DEF IInv, PositionsInv
  <1>8. WindowInv'
    <2> SUFFICES ASSUME NEW t \in m_uiHead .. m_uiHead + Size - 1
                 PROVE  InWindow(t)'
      BY DEF WindowInv
    <2>1. InWindow(t) /\ t \in Nat
      BY <1>2 DEF IInv, WindowInv
    <2>2. CASE t = m_uiHead
      BY <1>1, <1>2, <1>4, <2>1, <2>2 DEF InWindow, ReadSlot
    <2>3. CASE t # m_uiHead
      <3>1. GetPositionWithinBounds(t) \in Slots \ {ReadSlot}
        BY <1>2, <2>1, <2>3, SlotOfPosition, PositionOfSlot DEF ReadSlot
      <3> QED
        BY <1>1, <1>4, <2>1, <2>3, <3>1 DEF InWindow
    <2> QED
      BY <2>2, <2>3
  <1> QED
    BY <1>5, <1>6, <1>7, <1>8 DEF IInv
(* The round moves on: the slot just emptied serves the position one round *)
(* later, and no other slot is touched.                                    *)
LEMMA PopReleaseInv ==
    ASSUME NoWrap, IInv, TypeOK', PopRelease
    PROVE  IInv'
  <1> USE DEF PopRelease, flagVars, pushVars, historyVars
  <1> DEFINE h == m_uiHead
  <1>1. \A p \in Producers : /\ Holding(p)' <=> Holding(p)
                             /\ Accessing(p)' <=> Accessing(p)
                             /\ SlotOf(p)' = SlotOf(p)
    BY DEF Holding, Accessing, SlotOf
  <1>2. /\ h \in Nat /\ m_uiTail \in Nat /\ Size \in Nat /\ Size > 1
        /\ ReadSlot \in Slots
        /\ m_uiVersion[ReadSlot] = h + 1
        /\ h < m_uiTail
        /\ TObject[ReadSlot] = NULL
        /\ \A p \in Producers : Holding(p) => uiLogicalPosition[p] # h
        /\ Len(delivered) = h + 1
    BY TailBound, Sizes, SlotOfPosition, DeliveredBound DEF IInv, CountersInv, ReadSlot, InWindow, NoWrap
  <1>3. (h + Size) % Word = h + Size /\ (h + 1) % Word = h + 1
    <2>1. h + Size < Cardinality(Objects) + Size /\ h + 1 < Cardinality(Objects) + Size
      BY <1>2, TailBound, CountObjects
    <2>2. (h + Size) % Word = h + Size
      BY <1>2, <2>1, Small
    <2>3. (h + 1) % Word = h + 1
      BY <1>2, <2>1, Small
    <2> QED
      BY <2>2, <2>3
  <1>4. /\ m_uiVersion'[ReadSlot] = h + Size
        /\ \A s \in Slots \ {ReadSlot} : m_uiVersion'[s] = m_uiVersion[s]
        /\ m_uiHead' = h + 1
    BY <1>2, <1>3 DEF IInv, TypeOK
  <1>5. \A t \in h + 1 .. h + Size - 1 : GetPositionWithinBounds(t) \in Slots \ {ReadSlot}
    BY <1>2, SlotOfPosition, PositionOfSlot DEF ReadSlot
  <1>6. GetPositionWithinBounds(h + Size) = ReadSlot
    BY <1>2, NextRound DEF ReadSlot
  <1> HIDE DEF h
  <1>7. ObjectsInv'
    BY DEF IInv, ObjectsInv
  <1>8. CountersInv'
    BY <1>2, <1>4 DEF IInv, CountersInv
  <1>9. PositionsInv'
    <2>1. ASSUME NEW p \in Producers, Holding(p)
          PROVE  h + 1 <= uiLogicalPosition[p] /\ uiLogicalPosition[p] \in Nat
      BY <1>2, <2>1, HeldPosition DEF IInv, PositionsInv, h
    <2>2. ASSUME NEW p \in Producers, Accessing(p)
          PROVE  /\ uiLogicalPosition[p] < h + 1 + Size
                 /\ m_uiVersion'[SlotOf(p)] = uiLogicalPosition[p]
      <3>1. Holding(p)
        BY <2>2 DEF Holding, Accessing
      <3>2. /\ uiLogicalPosition[p] \in h + 1 .. h + Size - 1
            /\ m_uiVersion[SlotOf(p)] = uiLogicalPosition[p]
        BY <1>2, <2>1, <2>2, <3>1 DEF IInv, PositionsInv, h
      <3> QED
        BY <1>2, <1>4, <1>5, <3>2 DEF SlotOf
    <2> QED
      BY <1>1, <1>2, <1>4, <2>1, <2>2 DEF IInv, PositionsInv
  <1>10. WindowInv'
    <2> SUFFICES ASSUME NEW t \in h + 1 .. h + Size
                 PROVE  InWindow(t)'
      BY <1>2, <1>4 DEF WindowInv
    <2>1. t \in Nat /\ t + 1 # t
      BY <1>2
    <2>2. CASE t = h + Size
      BY <1>2, <1>4, <1>6, <2>1, <2>2 DEF InWindow
    <2>3. CASE t # h + Size
      <3>1. t \in h + 1 .. h + Size - 1
        <4> HIDE DEF PopRelease
        <4> QED
          BY <1>2, <2>3
      <3>2. InWindow(t) /\ t # h /\ popPc' # "release"
        BY <1>2, <3>1 DEF IInv, WindowInv, h
      <3>3. m_uiVersion'[GetPositionWithinBounds(t)] = m_uiVersion[GetPositionWithinBounds(t)]
        BY <1>4, <1>5, <3>1
      <3> QED
        BY <1>1, <3>2, <3>3 DEF InWindow, h
    <2> QED
      BY <2>2, <2>3
  <1>11. AbandonedInv'
    <2> SUFFICES ASSUME m_bIsReading, NEW t \in h + 1 .. m_uiTail - 1,
                        m_uiVersion[GetPositionWithinBounds(t)] = t + 1
                 PROVE  m_uiVersion'[GetPositionWithinBounds(t)] = t + 1
      BY <1>1, <1>2, <1>4 DEF IInv, AbandonedInv, h
    <2>1. GetPositionWithinBounds(t) \in Slots
      BY <1>2, SlotOfPosition
    <2>2. GetPositionWithinBounds(t) # ReadSlot
      BY <1>2
    <2> QED
      BY <1>4, <2>1, <2>2
  <1> QED
    BY <1>7, <1>8, <1>9, <1>10, <1>11 DEF IInv

LEMMA StopInv ==
    ASSUME IInv, TypeOK', StopReading \/ StopWriting \/ UNCHANGED vars
    PROVE  IInv'
  <1> USE DEF StopReading, StopWriting, vars, ringVars, flagVars, pushVars, popVars, historyVars
  <1>1. ObjectsInv' /\ CountersInv' /\ AbandonedInv'
    BY DEF IInv, ObjectsInv, CountersInv, AbandonedInv, ReadSlot, Holding
  <1>2. PositionsInv' /\ WindowInv'
    BY DEF IInv, PositionsInv, WindowInv, InWindow, Holding, Accessing, SlotOf
  <1> QED
    BY <1>1, <1>2 DEF IInv
-----------------------------------------------------------------------------
LEMMA StepInv == NoWrap /\ IInv /\ [Next]_vars => IInv'
  <1> SUFFICES ASSUME NoWrap, IInv, [Next]_vars PROVE IInv'
    OBVIOUS
  <1>1. TypeOK'
    BY TypeStep DEF IInv
  <1>2. ASSUME NEW p \in Producers, NEW o \in Objects, PushBegin(p, o) \/ PushRefused(p, o)
        PROVE  IInv'
    BY <1>1, <1>2, PushBeginInv, PushRefusedInv
  <1>3. ASSUME NEW p \in Producers, PushStep(p)
        PROVE  IInv'
    BY <1>1, <1>3, ReserveInv, LoadReadingInv, LoadVersionInv, WriteObjectInv, PublishInv
       DEF PushStep
  <1>4. CASE Pop
    BY <1>1, <1>4, PopLoadInv, PopTakeInv, PopReleaseInv DEF Pop
  <1>5. CASE StopReading \/ StopWriting \/ UNCHANGED vars
    BY <1>1, <1>5, StopInv
  <1> QED
    BY <1>2, <1>3, <1>4, <1>5 DEF Next

LEMMA Invariance ==
    ASSUME NoWrap
    PROVE  Spec => []IInv
  <1>1. Init => IInv
    BY InitInv
  <1>2. IInv /\ [Next]_vars => IInv'
    BY StepInv
  <1> QED
    BY <1>1, <1>2, PTL DEF Spec

(* What the inductive invariant gives at the slots. *)
LEMMA SlotSafety == NoWrap /\ IInv => NoOverwrite /\ ExclusiveSlots
  <1> SUFFICES ASSUME NoWrap, IInv, NEW p \in Producers, Accessing(p)
               PROVE  /\ pc[p] = "write" => TObject[SlotOf(p)] = NULL
                      /\ \A q \in Producers \ {p} : Accessing(q) => SlotOf(q) # SlotOf(p)
                      /\ popPc \in {"take", "release"} => ReadSlot # SlotOf(p)
    BY DEF NoOverwrite, ExclusiveSlots, Accessing
  <1> DEFINE x == uiLogicalPosition[p]
  <1>1. Holding(p)
    BY DEF Holding, Accessing
  <1>2. /\ x \in Nat /\ m_uiHead \in Nat /\ Size \in Nat \ {0}
        /\ x \in m_uiHead .. m_uiHead + Size - 1
        /\ m_uiVersion[SlotOf(p)] = x
    BY <1>1, HeldPosition, TailBound, Sizes DEF IInv, PositionsInv
  <1>3. ASSUME NEW q \in Producers \ {p}, Accessing(q)
        PROVE  SlotOf(q) # SlotOf(p)
    BY <1>1, <1>2, <1>3 DEF IInv, PositionsInv, Holding, Accessing
  <1>4. popPc \in {"take", "release"} => ReadSlot # SlotOf(p)
    <2>1. GetPositionWithinBounds(m_uiHead) = SlotOf(p) => m_uiHead = x
      BY <1>2, PositionOfSlot DEF SlotOf
    <2> QED
      BY <1>2, <2>1 DEF IInv, CountersInv, ReadSlot
  <1>5. pc[p] = "write" => TObject[SlotOf(p)] = NULL
    BY <1>1, <1>2 DEF IInv, WindowInv, InWindow, PositionsInv, SlotOf, Holding
  <1> QED
    BY <1>3, <1>4, <1>5

(* However many producers race for the slots of the ring, none overwrites  *)
(* an object the consumer has not taken.                                   *)
THEOREM NothingOverwritten ==
    ASSUME NoWrap
    PROVE  Spec => []NoOverwrite
  <1>1. IInv => NoOverwrite
    BY SlotSafety
  <1>2. Spec => []IInv
    BY Invariance
  <1> QED
    BY <1>1, <1>2, PTL

(* Push and Pop never touch TObject of one slot at the same time: the code *)
(* has no data race on it although the object is not atomic.               *)
THEOREM NoDataRace ==
    ASSUME NoWrap
    PROVE  Spec => []ExclusiveSlots
  <1>1. IInv => ExclusiveSlots
    BY SlotSafety
  <1>2. Spec => []IInv
    BY Invariance
  <1> QED
    BY <1>1, <1>2, PTL

(* Pop hands out the objects in the order of the fetch_adds of Push, none  *)
(* of them lost, repeated or empty.                                        *)
THEOREM InOrder ==
    ASSUME NoWrap
    PROVE  Spec => []DeliveredInOrder
  <1>1. IInv => DeliveredInOrder
    BY DeliveredBound DEF IInv, CountersInv, DeliveredInOrder
  <1>2. Spec => []IInv
    BY Invariance
  <1> QED
    BY <1>1, <1>2, PTL

(* While the queue is read, the consumer never waits at a position whose   *)
(* producer is gone.                                                       *)
THEOREM NothingAbandoned ==
    ASSUME NoWrap
    PROVE  Spec => []NoAbandonedPosition
  <1>1. IInv => NoAbandonedPosition
    <2> SUFFICES ASSUME IInv, m_bIsReading,
                        NEW n \in Len(delivered) + 1 .. Len(reserved)
                 PROVE  \/ Published(n)
                        \/ \E p \in Producers : Holding(p) /\ uiLogicalPosition[p] = n - 1
      BY DEF NoAbandonedPosition, Holding
    <2>1. /\ m_uiHead \in Nat /\ m_uiTail \in Nat
          /\ m_uiHead <= Len(delivered) /\ Len(delivered) \in Nat
          /\ Len(reserved) = m_uiTail
          /\ m_uiTail <= Cardinality(Objects)
      BY TailBound, DeliveredBound DEF IInv, CountersInv
    <2>2. n - 1 \in m_uiHead .. m_uiTail - 1 /\ n \in Nat /\ (n - 1) + 1 = n
      BY <2>1
    <2>3. n % Word = n
      BY <2>1, <2>2, Small, CountObjects, Sizes
    <2> QED
      BY <2>2, <2>3 DEF IInv, AbandonedInv, Published
  <1>2. Spec => []IInv
    BY Invariance
  <1> QED
    BY <1>1, <1>2, PTL
-----------------------------------------------------------------------------
(* The refinement of the mailbox. *)

Visible == {n \in 1 .. Len(reserved) : n <= Len(delivered) \/ Published(n)}

(* Only a reserved position of the current round is ever published. *)
LEMMA PublishedPosition ==
    ASSUME NoWrap, IInv, NEW x \in Nat, m_uiHead <= x,
           m_uiVersion[GetPositionWithinBounds(x)] = x + 1
    PROVE  x < m_uiHead + Size /\ x < m_uiTail
  <1>1. m_uiHead \in Nat /\ m_uiTail \in Nat /\ Size \in Nat /\ Size > 1
    BY TailBound, Sizes DEF NoWrap
  <1>2. PICK t \in m_uiHead .. m_uiHead + Size - 1 :
            GetPositionWithinBounds(t) = GetPositionWithinBounds(x) /\ t <= x
    BY <1>1, PositionInRound
  <1>3. t \in Nat /\ x + 1 \in {t, t + 1}
    BY <1>1, <1>2 DEF IInv, WindowInv, InWindow
  <1>4. t = x
    BY <1>1, <1>2, <1>3
  <1>5. x < m_uiTail
    BY <1>2, <1>4 DEF IInv, WindowInv, InWindow
  <1> QED
    BY <1>1, <1>2, <1>4, <1>5

LEMMA PublishedWord ==
    ASSUME NoWrap, IInv, NEW n \in 1 .. Len(reserved)
    PROVE  /\ n \in Nat /\ n - 1 \in Nat /\ (n - 1) + 1 = n
           /\ n % Word = n
  <1>1. n \in Nat /\ n - 1 \in Nat /\ n < Cardinality(Objects) + Size
    BY TailBound, CountObjects, Sizes DEF IInv, CountersInv
  <1> QED
    BY <1>1, Small

LEMMA SameBox ==
    ASSUME UNCHANGED <<reserved, delivered, m_uiVersion>>
    PROVE  UNCHANGED <<reserved, Visible, delivered>>
  BY DEF Visible, Published

LEMMA ReserveTakesPlace ==
    ASSUME NoWrap, IInv, IInv', NEW p \in Producers, Reserve(p)
    PROVE  Box!TakePlace(object[p]) /\ object[p] \in Objects
  <1> DEFINE n == Len(reserved)
  <1>1. /\ object[p] \in Objects
        /\ n = m_uiTail
        /\ n \in Nat
        /\ reserved' = Append(reserved, object[p])
        /\ Len(reserved') = n + 1
        /\ delivered' = delivered /\ m_uiVersion' = m_uiVersion
    <2>1. pc[p] = "reserve" /\ object[p] \in Objects /\ reserved \in Seq(Objects) /\ n = m_uiTail
      BY DEF Reserve, IInv, ObjectsInv, CountersInv
    <2> QED
      BY <2>1 DEF Reserve
  <1>2. Len(reserved') <= Cardinality(Objects)
    BY NoRepetition DEF IInv, ObjectsInv
  <1>3. (n + 1) % Word = n + 1
    BY <1>1, <1>2, Small, CountObjects, Sizes
  <1>4. ~Published(n + 1)
    <2>1. m_uiVersion[GetPositionWithinBounds(n)] # n + 1
      BY <1>1, TailBound, PublishedPosition
    <2>2. (n + 1) - 1 = n
      BY <1>1
    <2> QED
      BY <1>3, <2>1, <2>2 DEF Published
  <1>5. ~(n + 1 <= Len(delivered))
    BY <1>1, DeliveredBound
  <1> HIDE DEF n
  <1>6. Visible' = Visible
    <2>1. \A m : Published(m)' <=> Published(m)
      BY <1>1 DEF Published
    <2>2. 1 .. n + 1 = (1 .. n) \cup {n + 1}
      BY <1>1
    <2>3. Visible' = {m \in 1 .. n + 1 : m <= Len(delivered) \/ Published(m)}
      BY <1>1, <2>1 DEF Visible
    <2> QED
      BY <1>4, <1>5, <2>2, <2>3 DEF Visible, n
  <1> QED
    BY <1>1, <1>6 DEF Box!TakePlace, Visible

LEMMA PublishShows ==
    ASSUME NoWrap, IInv, NEW p \in Producers, Publish(p)
    PROVE  Box!Show(uiLogicalPosition[p] + 1) /\ uiLogicalPosition[p] + 1 \in 1 .. Len(reserved)
  <1> DEFINE x == uiLogicalPosition[p]
  <1>1. Holding(p) /\ Accessing(p)
    BY DEF Publish, Holding, Accessing
  <1>2. /\ x \in Nat /\ m_uiHead \in Nat /\ m_uiTail \in Nat /\ Size \in Nat /\ Size > 1
        /\ m_uiHead <= x /\ x < m_uiHead + Size /\ x < m_uiTail
        /\ SlotOf(p) \in Slots
        /\ m_uiVersion[SlotOf(p)] = x
        /\ m_uiTail = Len(reserved)
    BY <1>1, HeldPosition, TailBound, Sizes DEF IInv, PositionsInv, CountersInv, NoWrap
  <1>3. x + 1 \in 1 .. Len(reserved)
    BY <1>2
  <1>4. /\ reserved' = reserved /\ delivered' = delivered
        /\ m_uiVersion'[SlotOf(p)] = x + 1
        /\ \A s \in Slots \ {SlotOf(p)} : m_uiVersion'[s] = m_uiVersion[s]
    BY <1>2, <1>3, PublishedWord DEF Publish, historyVars, IInv, TypeOK
  <1>5. /\ Len(delivered) \in Nat
        /\ m_uiHead <= Len(delivered)
        /\ Len(delivered) <= x
    <2>1. popPc = "release" => m_uiHead # x
      BY <1>2 DEF IInv, CountersInv, ReadSlot, SlotOf
    <2> QED
      BY <1>2, <2>1, DeliveredBound DEF IInv, CountersInv
  <1>6. SlotOf(p) = GetPositionWithinBounds(x)
    BY DEF SlotOf
  <1> HIDE DEF x
  <1>7. ASSUME NEW m \in 1 .. Len(reserved)
        PROVE  Published(m)' <=> (Published(m) \/ m = x + 1)
    <2>1. m \in Nat /\ m - 1 \in Nat /\ (m - 1) + 1 = m /\ m % Word = m
      BY PublishedWord
    <2>2. GetPositionWithinBounds(m - 1) \in Slots
      BY <2>1, SlotOfPosition
    <2>3. CASE GetPositionWithinBounds(m - 1) # SlotOf(p)
      <3>1. m # x + 1
        BY <1>2, <1>6, <2>1, <2>3
      <3> QED
        BY <1>4, <2>2, <2>3, <3>1 DEF Published
    <2>4. CASE GetPositionWithinBounds(m - 1) = SlotOf(p)
      <3>1. m # x
        <4> SUFFICES ASSUME m = x PROVE FALSE
          OBVIOUS
        <4>1. m - 1 = x
          BY <1>2, <1>6, <2>1, <2>4, PositionOfSlot
        <4> QED
          BY <1>2, <4>1
      <3> QED
        BY <1>2, <1>4, <2>1, <2>4, <3>1 DEF Published
    <2> QED
      BY <2>3, <2>4
  <1>8. Visible' = Visible \cup {x + 1}
    BY <1>3, <1>4, <1>7 DEF Visible
  <1>9. x + 1 \notin Visible
    <2>1. ~Published(x + 1)
      <3>1. (x + 1) - 1 = x /\ x # x + 1
        BY <1>2
      <3> QED
        BY <1>2, <1>3, <1>6, <3>1, PublishedWord DEF Published
    <2> QED
      BY <1>2, <1>5, <2>1 DEF Visible
  <1>10. x + 1 <= Len(delivered) + Size
    BY <1>2, <1>5
  <1> QED
    BY <1>3, <1>4, <1>8, <1>9, <1>10 DEF Box!Show, Visible, x

LEMMA TakeReceives ==
    ASSUME NoWrap, IInv, PopTake
    PROVE  Box!Receive
  <1>1. /\ m_uiHead \in Nat /\ m_uiTail \in Nat /\ m_uiHead < m_uiTail
        /\ m_uiVersion[ReadSlot] = m_uiHead + 1
        /\ TObject[ReadSlot] = reserved[m_uiHead + 1]
        /\ Len(delivered) = m_uiHead
        /\ m_uiTail = Len(reserved)
    BY TailBound, DeliveredBound DEF PopTake, IInv, CountersInv, ReadSlot, InWindow
  <1>2. m_uiHead + 1 \in 1 .. Len(reserved) /\ (m_uiHead + 1) - 1 = m_uiHead
    BY <1>1
  <1>3. Published(m_uiHead + 1)
    BY <1>1, <1>2, PublishedWord DEF Published, ReadSlot
  <1>4. /\ delivered' = Append(delivered, reserved[m_uiHead + 1])
        /\ Len(delivered') = m_uiHead + 1
        /\ reserved' = reserved /\ m_uiVersion' = m_uiVersion
    BY <1>1 DEF PopTake, IInv, TypeOK
  <1>5. Visible' = Visible
    <2>1. \A m \in 1 .. Len(reserved) :
              (m <= m_uiHead + 1 \/ Published(m)) <=> (m <= m_uiHead \/ Published(m))
      BY <1>1, <1>3
    <2> QED
      BY <1>1, <1>4, <2>1 DEF Visible, Published
  <1>6. m_uiHead + 1 \in Visible
    BY <1>2, <1>3 DEF Visible
  <1> QED
    BY <1>1, <1>4, <1>5, <1>6 DEF Box!Receive, Visible

LEMMA ReleaseStutters ==
    ASSUME NoWrap, IInv, PopRelease
    PROVE  UNCHANGED <<reserved, Visible, delivered>>
  <1> DEFINE h == m_uiHead
  <1>1. /\ h \in Nat /\ m_uiTail \in Nat /\ Size \in Nat /\ Size > 1
        /\ ReadSlot \in Slots
        /\ m_uiVersion[ReadSlot] = h + 1
        /\ h < m_uiTail
        /\ Len(delivered) = h + 1
        /\ m_uiTail = Len(reserved)
    BY TailBound, Sizes, SlotOfPosition, DeliveredBound
       DEF PopRelease, IInv, CountersInv, ReadSlot, NoWrap
  <1>2. (h + Size) % Word = h + Size
    <2>1. h + Size \in Nat /\ h + Size < Cardinality(Objects) + Size
      BY <1>1, TailBound, CountObjects
    <2> QED
      BY <2>1, Small
  <1>3. /\ reserved' = reserved /\ delivered' = delivered
        /\ m_uiVersion'[ReadSlot] = h + Size
        /\ \A s \in Slots \ {ReadSlot} : m_uiVersion'[s] = m_uiVersion[s]
    BY <1>1, <1>2 DEF PopRelease, historyVars, IInv, TypeOK
  <1> HIDE DEF h
  <1>4. ASSUME NEW m \in 1 .. Len(reserved), ~(m <= h + 1)
        PROVE  Published(m)' <=> Published(m)
    <2>1. m \in Nat /\ m - 1 \in Nat /\ m % Word = m
      BY PublishedWord
    <2>2. GetPositionWithinBounds(m - 1) \in Slots
      BY <2>1, SlotOfPosition
    <2>3. CASE GetPositionWithinBounds(m - 1) # ReadSlot
      BY <1>3, <2>2, <2>3 DEF Published
    <2>4. CASE GetPositionWithinBounds(m - 1) = ReadSlot
      <3>1. m # h + Size
        <4> SUFFICES ASSUME m = h + Size PROVE FALSE
          OBVIOUS
        <4>1. m - 1 < h + Size /\ h < (m - 1) + Size
          BY <1>1, <2>1
        <4>2. m - 1 = h
          BY <1>1, <2>1, <2>4, <4>1, PositionOfSlot DEF ReadSlot, h
        <4> QED
          BY <1>1, <1>4, <2>1, <4>2
      <3>2. m # h + 1
        BY <1>1, <1>4, <2>1
      <3> QED
        BY <1>1, <1>3, <2>1, <2>4, <3>1, <3>2 DEF Published
    <2> QED
      BY <2>3, <2>4
  <1>5. Visible' = Visible
    BY <1>1, <1>3, <1>4 DEF Visible
  <1> QED
    BY <1>3, <1>5

(* The ring implements the mailbox: whatever the interleaving of its       *)
(* atomic accesses, senders and receiver see a queue that orders objects   *)
(* when a position is reserved, shows them when they are published and     *)
(* never holds more than Size of them.                                     *)
THEOREM Refinement ==
    ASSUME NoWrap
    PROVE  Spec => ImplementsMailbox
  <1>1. Init => Box!Init
    BY DEF Init, Box!Init
  <1>2. IInv /\ IInv' /\ [Next]_vars => [Box!Next]_(Box!boxVars)
    <2> SUFFICES ASSUME IInv, IInv', [Next]_vars
                 PROVE  [Box!Next]_(Box!boxVars)
      OBVIOUS
    <2>1. UNCHANGED <<reserved, Visible, delivered>> => UNCHANGED Box!boxVars
      BY DEF Visible, Box!boxVars
    <2>2. ASSUME NEW p \in Producers, NEW o \in Objects, PushBegin(p, o) \/ PushRefused(p, o)
          PROVE  UNCHANGED <<reserved, Visible, delivered>>
      BY <2>2, SameBox DEF PushBegin, PushRefused, ringVars, historyVars
    <2>3. ASSUME NEW p \in Producers, LoadReading(p) \/ LoadVersion(p) \/ WriteObject(p)
          PROVE  UNCHANGED <<reserved, Visible, delivered>>
      BY <2>3, SameBox DEF LoadReading, LoadVersion, WriteObject, ringVars, historyVars
    <2>4. ASSUME NEW p \in Producers, Reserve(p)
          PROVE  Box!Next
      BY <2>4, ReserveTakesPlace DEF Box!Next
    <2>5. ASSUME NEW p \in Producers, Publish(p)
          PROVE  Box!Next
      <3>1. /\ Box!Show(uiLogicalPosition[p] + 1)
            /\ uiLogicalPosition[p] + 1 \in 1 .. Len(reserved)
        BY <2>5, PublishShows
      <3> QED
        BY <3>1 DEF Box!Next, Box!Show
    <2>6. CASE PopTake
      BY <2>6, TakeReceives DEF Box!Next
    <2>7. CASE PopLoadReading \/ PopLoadVersion
      BY <2>7, SameBox, <2>1 DEF PopLoadReading, PopLoadVersion, ringVars, historyVars
    <2>8. CASE PopRelease
      BY <2>8, <2>1, ReleaseStutters
    <2>9. CASE StopReading \/ StopWriting \/ UNCHANGED vars
      BY <2>9, <2>1, SameBox DEF StopReading, StopWriting, vars, ringVars, historyVars
    <2> QED
      BY <2>1, <2>2, <2>3, <2>4, <2>5, <2>6, <2>7, <2>8, <2>9 DEF Next, PushStep, Pop
  <1>3. Spec => []IInv
    BY Invariance
  <1> QED
    BY <1>1, <1>2, <1>3, PTL DEF Spec, ImplementsMailbox, Box!Spec
=============================================================================
