------------------------- MODULE EventLoopRegistery --------------------------
(***************************************************************************)
(* The registry of the event loop (EventLoop.h) and the two request        *)
(* handlers that change it (EventLoop.cpp).  A subscription is spread over *)
(* three containers: the vector handed to poll, an index from a descriptor *)
(* to its element of the vector, and the map of callbacks.  Removal moves  *)
(* the last element of the vector into the hole, so the three have to be   *)
(* kept in step by hand.                                                   *)
(*                                                                         *)
(* Event masks are sets of flags.  Vector positions are counted from 0, as *)
(* in the code; element idx of the vector is m_vecMonitoredFDs[idx + 1].   *)
(***************************************************************************)
EXTENDS Naturals, Sequences, FiniteSets

CONSTANTS
    FDs,        \* descriptors
    Callbacks,  \* what a ready descriptor runs
    Events      \* the event flags of poll

VARIABLES
    m_mapMonitoredFDsIndex,     \* descriptor -> position in the vector
    m_vecMonitoredFDs,          \* the pollfds
    m_mapCallBacks              \* descriptor -> callback

registryVars == <<m_mapMonitoredFDsIndex, m_vecMonitoredFDs, m_mapCallBacks>>

PollFD == [fd : FDs, events : SUBSET Events, revents : SUBSET Events]
Monitored == DOMAIN m_mapMonitoredFDsIndex

Init ==
    /\ m_mapMonitoredFDsIndex = [fd \in {} |-> 0]
    /\ m_vecMonitoredFDs = <<>>
    /\ m_mapCallBacks = [fd \in {} |-> fd]

(* map[key] = value *)
Assign(map, key, value) ==
    [k \in DOMAIN map \cup {key} |-> IF k = key THEN value ELSE map[k]]

(* map.erase(key) *)
Erase(map, key) == [k \in DOMAIN map \ {key} |-> map[k]]

(* Mutant: a second subscription replaces the events. *)
SubscribeReplaces(fd, callback, events) ==
    /\ m_mapCallBacks' = Assign(m_mapCallBacks, fd, callback)
    /\ IF fd \in Monitored
       THEN /\ m_vecMonitoredFDs' =
                   [m_vecMonitoredFDs EXCEPT ![m_mapMonitoredFDsIndex[fd] + 1].events = events]
            /\ UNCHANGED m_mapMonitoredFDsIndex
       ELSE /\ m_vecMonitoredFDs' =
                   Append(m_vecMonitoredFDs, [fd |-> fd, events |-> events, revents |-> {}])
            /\ m_mapMonitoredFDsIndex' =
                   Assign(m_mapMonitoredFDsIndex, fd, Len(m_vecMonitoredFDs))

(* SubscribeHandler: a second subscription of a descriptor replaces its    *)
(* callback and widens its events; a first one appends a pollfd.           *)
Subscribe(fd, callback, events) ==
    /\ m_mapCallBacks' = Assign(m_mapCallBacks, fd, callback)
    /\ IF fd \in Monitored
       THEN /\ m_vecMonitoredFDs' =
                   [m_vecMonitoredFDs EXCEPT ![m_mapMonitoredFDsIndex[fd] + 1].events = @ \cup events]
            /\ UNCHANGED m_mapMonitoredFDsIndex
       ELSE /\ m_vecMonitoredFDs' =
                   Append(m_vecMonitoredFDs, [fd |-> fd, events |-> events, revents |-> {}])
            /\ m_mapMonitoredFDsIndex' =
                   Assign(m_mapMonitoredFDsIndex, fd, Len(m_vecMonitoredFDs))

(* Mutants: the moved pollfd is indexed one position too low, or not       *)
(* indexed again, or the callback stays behind.                            *)
Remove(fd, movedTo(_, _), callbacks) ==
    IF fd \notin Monitored
    THEN UNCHANGED registryVars
    ELSE LET idx == m_mapMonitoredFDsIndex[fd]
             lastIdx == Len(m_vecMonitoredFDs) - 1
             last == m_vecMonitoredFDs[lastIdx + 1]
         IN  /\ m_vecMonitoredFDs' = SubSeq([m_vecMonitoredFDs EXCEPT ![idx + 1] = last], 1, lastIdx)
             /\ m_mapMonitoredFDsIndex' =
                    Erase([m_mapMonitoredFDsIndex EXCEPT ![last.fd] = movedTo(idx, lastIdx)], fd)
             /\ m_mapCallBacks' = callbacks

UnSubscribeIndexesTooLow(fd) == Remove(fd, LAMBDA idx, lastIdx : idx - 1, Erase(m_mapCallBacks, fd))
UnSubscribeKeepsIndex(fd) == Remove(fd, LAMBDA idx, lastIdx : lastIdx, Erase(m_mapCallBacks, fd))
UnSubscribeKeepsCallback(fd) == Remove(fd, LAMBDA idx, lastIdx : idx, m_mapCallBacks)

(* UnSubscribeHandler: the last pollfd takes the place of the removed one. *)
UnSubscribe(fd) ==
    IF fd \notin Monitored
    THEN UNCHANGED registryVars
    ELSE LET idx == m_mapMonitoredFDsIndex[fd]
             lastIdx == Len(m_vecMonitoredFDs) - 1
             last == m_vecMonitoredFDs[lastIdx + 1]
             reindexed == IF idx = lastIdx THEN m_mapMonitoredFDsIndex
                          ELSE [m_mapMonitoredFDsIndex EXCEPT ![last.fd] = idx]
         IN  /\ m_vecMonitoredFDs' = SubSeq([m_vecMonitoredFDs EXCEPT ![idx + 1] = last], 1, lastIdx)
             /\ m_mapMonitoredFDsIndex' = Erase(reindexed, fd)
             /\ m_mapCallBacks' = Erase(m_mapCallBacks, fd)

(* poll() stores what is ready in the revents of every element. *)
Poll(ready) ==
    /\ m_vecMonitoredFDs' = [i \in DOMAIN m_vecMonitoredFDs |->
                                [m_vecMonitoredFDs[i] EXCEPT !.revents = ready[m_vecMonitoredFDs[i].fd]]]
    /\ UNCHANGED <<m_mapMonitoredFDsIndex, m_mapCallBacks>>

Next ==
    \/ \E fd \in FDs, callback \in Callbacks, events \in SUBSET Events :
           Subscribe(fd, callback, events)
    \/ \E fd \in FDs : UnSubscribe(fd)
    \/ \E ready \in [FDs -> SUBSET Events] : Poll(ready)

Spec == Init /\ [][Next]_registryVars
-----------------------------------------------------------------------------
TypeOK ==
    /\ m_vecMonitoredFDs \in Seq(PollFD)
    /\ Monitored \subseteq FDs
    /\ m_mapMonitoredFDsIndex \in [Monitored -> Nat]
    /\ DOMAIN m_mapCallBacks \subseteq FDs
    /\ m_mapCallBacks \in [DOMAIN m_mapCallBacks -> Callbacks]

(* The index and the vector are inverse to each other: each descriptor has *)
(* exactly one pollfd and the index finds it, after any order of swaps.    *)
IndexMatchesVector ==
    /\ \A fd \in Monitored :
           /\ m_mapMonitoredFDsIndex[fd] < Len(m_vecMonitoredFDs)
           /\ m_vecMonitoredFDs[m_mapMonitoredFDsIndex[fd] + 1].fd = fd
    /\ \A i \in 1 .. Len(m_vecMonitoredFDs) :
           /\ m_vecMonitoredFDs[i].fd \in Monitored
           /\ m_mapMonitoredFDsIndex[m_vecMonitoredFDs[i].fd] = i - 1

(* A descriptor is polled exactly when it has a callback: the loop neither *)
(* polls for nobody nor keeps the callback of a forgotten descriptor.      *)
CallbackIffPolled == DOMAIN m_mapCallBacks = Monitored

(* The subscriptions that the three containers hold together. *)
Subscription(fd) ==
    [callback |-> m_mapCallBacks[fd],
     events |-> m_vecMonitoredFDs[m_mapMonitoredFDsIndex[fd] + 1].events]

subscriptions == [fd \in DOMAIN m_mapCallBacks |-> Subscription(fd)]

Subs == INSTANCE Subscriptions WITH subs <- subscriptions

(* The three containers together implement the subscriptions: removing or  *)
(* re-subscribing one descriptor leaves the events and the callback of     *)
(* every other descriptor as they were.                                    *)
ImplementsSubscriptions == Subs!Spec
=============================================================================
