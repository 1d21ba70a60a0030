------------------------------ MODULE MPSCQueue ------------------------------
(***************************************************************************)
(* The lock-free multi-producer, single-consumer ring of                   *)
(* src/lib/Threads/MPSCQueue.h, at the grain of its atomic accesses: every *)
(* load, store and fetch_add of a shared word is a step of its own, so     *)
(* producers, the consumer and the thread that stops the queue interleave  *)
(* as threads do.  Slots are numbered 0 .. Size-1 and every counter is an  *)
(* unsigned machine word of Word values, which wraps.                      *)
(*                                                                         *)
(* An object is pushed at most once: the event loop moves unique_ptrs.     *)
(* The finite set Objects therefore also bounds the number of pushes.      *)
(***************************************************************************)
EXTENDS Naturals, Sequences, FiniteSets

CONSTANTS
    Producers,  \* threads that call Push
    Objects,    \* what they push
    Size,       \* m_uiMaxSize, the number of slots
    Word,       \* how many values an unsigned int has
    NULL        \* the empty unique_ptr of a slot nobody filled

ASSUME QueueAssumption ==
    /\ Size \in Nat \ {0}
    /\ Word \in Nat
    /\ Size < Word
    /\ IsFiniteSet(Objects)
    /\ NULL \notin Objects

VARIABLES
    m_uiHead,           \* next position to read; only the consumer uses it
    m_uiTail,           \* next position to reserve
    m_bIsReading,
    m_bIsWriting,
    m_uiVersion,        \* the version word of each slot
    TObject,            \* the object in each slot
    pc,                 \* where each producer is in Push
    uiLogicalPosition,  \* the position each producer reserved
    object,             \* the argument of each producer's Push
    popPc,              \* where the consumer is in Pop
    popState,           \* what the last Pop returned, or "None"
    fresh,              \* objects nobody pushed yet
    reserved,           \* history: objects in the order of their positions
    delivered           \* history: objects the consumer got, oldest first

ringVars == <<m_uiHead, m_uiTail, m_uiVersion, TObject>>
flagVars == <<m_bIsReading, m_bIsWriting>>
pushVars == <<pc, uiLogicalPosition, object, fresh>>
popVars == <<popPc, popState>>
historyVars == <<reserved, delivered>>
vars == <<ringVars, flagVars, pushVars, popVars, historyVars>>

Slots == 0 .. Size - 1
Words == 0 .. Word - 1

GetPositionWithinBounds(idx) == idx % Size

SlotOf(p) == GetPositionWithinBounds(uiLogicalPosition[p])
ReadSlot == GetPositionWithinBounds(m_uiHead)
-----------------------------------------------------------------------------
Init ==
    /\ m_uiHead = 0
    /\ m_uiTail = 0
    /\ m_bIsReading = TRUE
    /\ m_bIsWriting = TRUE
    /\ m_uiVersion = [s \in Slots |-> s]
    /\ TObject = [s \in Slots |-> NULL]
    /\ pc = [p \in Producers |-> "idle"]
    /\ uiLogicalPosition = [p \in Producers |-> 0]
    /\ object = [p \in Producers |-> NULL]
    /\ popPc = "idle"
    /\ popState = "None"
    /\ fresh = Objects
    /\ reserved = <<>>
    /\ delivered = <<>>

(* Push has returned and its locals are gone. *)
ReturnFromPush(p) ==
    /\ pc' = [pc EXCEPT ![p] = "idle"]
    /\ uiLogicalPosition' = [uiLogicalPosition EXCEPT ![p] = 0]
    /\ object' = [object EXCEPT ![p] = NULL]

(* Push(o) is called while the queue accepts writes. *)
PushBegin(p, o) ==
    /\ pc[p] = "idle"
    /\ o \in fresh
    /\ m_bIsWriting
    /\ fresh' = fresh \ {o}
    /\ object' = [object EXCEPT ![p] = o]
    /\ pc' = [pc EXCEPT ![p] = "reserve"]
    /\ UNCHANGED <<ringVars, flagVars, uiLogicalPosition, popVars, historyVars>>

(* Push(o) is called after StopWriting: it returns false, o is destroyed. *)
PushRefused(p, o) ==
    /\ pc[p] = "idle"
    /\ o \in fresh
    /\ ~m_bIsWriting
    /\ fresh' = fresh \ {o}
    /\ UNCHANGED <<ringVars, flagVars, pc, uiLogicalPosition, object, popVars, historyVars>>

(* m_uiTail.fetch_add(1): the race for a position. *)
Reserve(p) ==
    /\ pc[p] = "reserve"
    /\ uiLogicalPosition' = [uiLogicalPosition EXCEPT ![p] = m_uiTail]
    /\ m_uiTail' = (m_uiTail + 1) % Word
    /\ reserved' = Append(reserved, object[p])
    /\ pc' = [pc EXCEPT ![p] = "spin"]
    /\ UNCHANGED <<m_uiHead, m_uiVersion, TObject, flagVars, object, fresh, popVars, delivered>>

(* Mutant: a producer that waits for room gives up when writing stops. *)
LoadWriting(p) ==
    /\ pc[p] = "spin"
    /\ IF m_bIsWriting
       THEN /\ pc' = [pc EXCEPT ![p] = "compare"]
            /\ UNCHANGED <<uiLogicalPosition, object>>
       ELSE ReturnFromPush(p)
    /\ UNCHANGED <<ringVars, flagVars, fresh, popVars, historyVars>>

(* Mutant: a producer that waits for room never looks at m_bIsReading. *)
LoadNothing(p) ==
    /\ pc[p] = "spin"
    /\ pc' = [pc EXCEPT ![p] = "compare"]
    /\ UNCHANGED <<ringVars, flagVars, uiLogicalPosition, object, fresh, popVars, historyVars>>

(* First load of the spin loop.  Once reading has stopped the version load *)
(* that follows no longer matters: the loop ends and Push returns false.   *)
LoadReading(p) ==
    /\ pc[p] = "spin"
    /\ IF m_bIsReading
       THEN /\ pc' = [pc EXCEPT ![p] = "compare"]
            /\ UNCHANGED <<uiLogicalPosition, object>>
       ELSE ReturnFromPush(p)
    /\ UNCHANGED <<ringVars, flagVars, fresh, popVars, historyVars>>

(* Mutant: Push does not wait for its slot to be free. *)
NoSpin(p) ==
    /\ pc[p] = "compare"
    /\ pc' = [pc EXCEPT ![p] = "write"]
    /\ UNCHANGED <<ringVars, flagVars, uiLogicalPosition, object, fresh, popVars, historyVars>>

(* Mutant: Push takes the version of a published object for a free slot. *)
SpinOneShort(p) ==
    /\ pc[p] = "compare"
    /\ pc' = [pc EXCEPT ![p] =
                IF m_uiVersion[SlotOf(p)] + 1 < uiLogicalPosition[p] THEN "spin" ELSE "write"]
    /\ UNCHANGED <<ringVars, flagVars, uiLogicalPosition, object, fresh, popVars, historyVars>>

(* Second load of the spin loop: the slot is free once its version has     *)
(* reached the reserved position.                                          *)
LoadVersion(p) ==
    /\ pc[p] = "compare"
    /\ pc' = [pc EXCEPT ![p] =
                IF m_uiVersion[SlotOf(p)] < uiLogicalPosition[p] THEN "spin" ELSE "write"]
    /\ UNCHANGED <<ringVars, flagVars, uiLogicalPosition, object, fresh, popVars, historyVars>>

(* The object is moved into the slot; not an atomic access. *)
WriteObject(p) ==
    /\ pc[p] = "write"
    /\ TObject' = [TObject EXCEPT ![SlotOf(p)] = object[p]]
    /\ object' = [object EXCEPT ![p] = NULL]
    /\ pc' = [pc EXCEPT ![p] = "publish"]
    /\ UNCHANGED <<m_uiHead, m_uiTail, m_uiVersion, flagVars, uiLogicalPosition, fresh, popVars, historyVars>>

(* The version store makes the object visible; Push returns true. *)
Publish(p) ==
    /\ pc[p] = "publish"
    /\ m_uiVersion' = [m_uiVersion EXCEPT ![SlotOf(p)] = (uiLogicalPosition[p] + 1) % Word]
    /\ ReturnFromPush(p)
    /\ UNCHANGED <<m_uiHead, m_uiTail, TObject, flagVars, fresh, popVars, historyVars>>
-----------------------------------------------------------------------------
(* Pop loads m_bIsReading first; if it is down Pop returns Stopped         *)
(* whatever the version load that follows finds.                           *)
PopLoadReading ==
    /\ popPc = "idle"
    /\ IF m_bIsReading
       THEN popPc' = "load" /\ UNCHANGED popState
       ELSE popState' = "Stopped" /\ UNCHANGED popPc
    /\ UNCHANGED <<ringVars, flagVars, pushVars, historyVars>>

(* Mutant: Pop takes the version of a free slot for a published object. *)
PopTooEarly ==
    /\ popPc = "load"
    /\ IF m_uiVersion[ReadSlot] = m_uiHead
       THEN popPc' = "take" /\ UNCHANGED popState
       ELSE popPc' = "idle" /\ popState' = "Empty"
    /\ UNCHANGED <<ringVars, flagVars, pushVars, historyVars>>

PopLoadVersion ==
    /\ popPc = "load"
    /\ IF m_uiVersion[ReadSlot] = (m_uiHead + 1) % Word
       THEN popPc' = "take" /\ UNCHANGED popState
       ELSE popPc' = "idle" /\ popState' = "Empty"
    /\ UNCHANGED <<ringVars, flagVars, pushVars, historyVars>>

(* The object is moved out of the slot; not an atomic access. *)
PopTake ==
    /\ popPc = "take"
    /\ delivered' = Append(delivered, TObject[ReadSlot])
    /\ TObject' = [TObject EXCEPT ![ReadSlot] = NULL]
    /\ popPc' = "release"
    /\ UNCHANGED <<m_uiHead, m_uiTail, m_uiVersion, flagVars, pushVars, popState, reserved>>

(* Mutants: Pop hands the slot to a later round, or forgets to advance.    *)
ReleaseVersion(version, head) ==
    /\ popPc = "release"
    /\ m_uiVersion' = [m_uiVersion EXCEPT ![ReadSlot] = version]
    /\ m_uiHead' = head
    /\ popPc' = "idle"
    /\ popState' = "Success"
    /\ UNCHANGED <<m_uiTail, TObject, flagVars, pushVars, historyVars>>

ReleaseTooLate == ReleaseVersion(m_uiHead + 2 * Size, (m_uiHead + 1) % Word)
ReleaseKeepsHead == ReleaseVersion((m_uiHead + Size) % Word, m_uiHead)

(* The version store hands the slot to the producer one round later. *)
PopRelease ==
    /\ popPc = "release"
    /\ m_uiVersion' = [m_uiVersion EXCEPT ![ReadSlot] = (m_uiHead + Size) % Word]
    /\ m_uiHead' = (m_uiHead + 1) % Word
    /\ popPc' = "idle"
    /\ popState' = "Success"
    /\ UNCHANGED <<m_uiTail, TObject, flagVars, pushVars, historyVars>>

StopReading ==
    /\ m_bIsReading' = FALSE
    /\ UNCHANGED <<ringVars, m_bIsWriting, pushVars, popVars, historyVars>>

StopWriting ==
    /\ m_bIsWriting' = FALSE
    /\ UNCHANGED <<ringVars, m_bIsReading, pushVars, popVars, historyVars>>
-----------------------------------------------------------------------------
(* The steps of a Push that is under way. *)
PushStep(p) ==
    \/ Reserve(p)
    \/ LoadReading(p)
    \/ LoadVersion(p)
    \/ WriteObject(p)
    \/ Publish(p)

Pop ==
    \/ PopLoadReading
    \/ PopLoadVersion
    \/ PopTake
    \/ PopRelease

Next ==
    \/ \E p \in Producers, o \in Objects : PushBegin(p, o) \/ PushRefused(p, o)
    \/ \E p \in Producers : PushStep(p)
    \/ Pop
    \/ StopReading
    \/ StopWriting

Spec == Init /\ [][Next]_vars

(* Threads are preempted but not abandoned: a Push that has begun goes on, *)
(* and the event loop pops once per iteration.  Nobody has to push or stop.*)
Fairness ==
    /\ \A p \in Producers : WF_vars(PushStep(p))
    /\ WF_vars(Pop)

FairSpec == Spec /\ Fairness
-----------------------------------------------------------------------------
TypeOK ==
    /\ m_uiHead \in Words
    /\ m_uiTail \in Words
    /\ m_bIsReading \in BOOLEAN
    /\ m_bIsWriting \in BOOLEAN
    /\ m_uiVersion \in [Slots -> Words]
    /\ TObject \in [Slots -> Objects \cup {NULL}]
    /\ pc \in [Producers -> {"idle", "reserve", "spin", "compare", "write", "publish"}]
    /\ uiLogicalPosition \in [Producers -> Words]
    /\ object \in [Producers -> Objects \cup {NULL}]
    /\ popPc \in {"idle", "load", "take", "release"}
    /\ popState \in {"None", "Success", "Empty", "Stopped"}
    /\ fresh \in SUBSET Objects
    /\ reserved \in Seq(Objects \cup {NULL})
    /\ delivered \in Seq(Objects \cup {NULL})

(* A producer that has seen its slot free never overwrites an object the   *)
(* consumer has not taken: what the spin loop of Push is there for.        *)
NoOverwrite ==
    \A p \in Producers : pc[p] = "write" => TObject[SlotOf(p)] = NULL

Accessing(p) == pc[p] \in {"write", "publish"}

(* Push and Pop touch TObject without atomics, relying on the versions: no *)
(* two threads are ever at the same slot, which would be a data race.      *)
ExclusiveSlots ==
    \A p \in Producers : Accessing(p) =>
        /\ \A q \in Producers \ {p} : Accessing(q) => SlotOf(q) # SlotOf(p)
        /\ popPc \in {"take", "release"} => ReadSlot # SlotOf(p)

(* Pop returns the objects in the order in which Push reserved positions,  *)
(* without gap, loss or repetition, however the producers overtake each    *)
(* other between reserving and publishing.                                 *)
DeliveredInOrder ==
    /\ Len(delivered) <= Len(reserved)
    /\ \A i \in 1 .. Len(delivered) : delivered[i] = reserved[i]

Published(n) == m_uiVersion[GetPositionWithinBounds(n - 1)] = n % Word

(* A position is never abandoned while the queue is read: it has been      *)
(* published or its producer is still inside Push.  An abandoned position  *)
(* would block the consumer behind it for good.                            *)
NoAbandonedPosition ==
    m_bIsReading =>
        \A n \in Len(delivered) + 1 .. Len(reserved) :
            \/ Published(n)
            \/ \E p \in Producers : /\ pc[p] \in {"spin", "compare", "write", "publish"}
                                    /\ uiLogicalPosition[p] = n - 1

(* Every Push that has begun returns, whether the queue is drained or      *)
(* stopped in the meantime.                                                *)
PushReturns == \A p \in Producers : (pc[p] # "idle") ~> (pc[p] = "idle")

(* An object whose Push published it reaches the consumer unless reading   *)
(* is stopped: nothing is left behind in the ring.                         *)
PublishedIsDelivered ==
    \A o \in Objects :
        (\E n \in 1 .. Len(reserved) : reserved[n] = o /\ Published(n))
            ~> (~m_bIsReading \/ \E i \in 1 .. Len(delivered) : delivered[i] = o)

(* The ring implements the mailbox: reserving takes a place, publishing    *)
(* shows the object, and the consumer's move receives it.                  *)
Box == INSTANCE Mailbox WITH
    Items <- Objects,
    Capacity <- Size,
    order <- reserved,
    visible <- {n \in 1 .. Len(reserved) : n <= Len(delivered) \/ Published(n)},
    received <- delivered

ImplementsMailbox == Box!Spec
=============================================================================
