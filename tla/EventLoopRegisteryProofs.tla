---------------------- MODULE EventLoopRegisteryProofs -----------------------
(***************************************************************************)
(* Proofs about the registry, for any descriptors, callbacks and events:   *)
(* the vector, the index and the callback map stay in step, and together   *)
(* they implement the subscriptions.                                       *)
(***************************************************************************)
EXTENDS EventLoopRegistery, SequenceTheorems, TLAPS

Consistent ==
    /\ TypeOK
    /\ IndexMatchesVector
    /\ CallbackIffPolled

LEMMA InitConsistent == Init => Consistent
  BY DEF Init, Consistent, TypeOK, IndexMatchesVector, CallbackIffPolled, Monitored, PollFD

(* A first subscription appends a pollfd and indexes it. *)
LEMMA SubscribeNew ==
    ASSUME Consistent, NEW fd \in FDs, NEW callback \in Callbacks, NEW events \in SUBSET Events,
           Subscribe(fd, callback, events), fd \notin Monitored
    PROVE  /\ Consistent'
           /\ Monitored' = Monitored \cup {fd}
           /\ m_vecMonitoredFDs'[m_mapMonitoredFDsIndex'[fd] + 1].events = events
           /\ \A f \in Monitored :
                  m_vecMonitoredFDs'[m_mapMonitoredFDsIndex'[f] + 1]
                      = m_vecMonitoredFDs[m_mapMonitoredFDsIndex[f] + 1]
  <1> DEFINE n == Len(m_vecMonitoredFDs)
             new == [fd |-> fd, events |-> events, revents |-> {}]
  <1>1. new \in PollFD
    BY DEF PollFD
  <1>2. /\ m_vecMonitoredFDs \in Seq(PollFD)
        /\ m_mapMonitoredFDsIndex \in [Monitored -> Nat]
        /\ n \in Nat
    BY DEF Consistent, TypeOK
  <1>3. /\ m_vecMonitoredFDs' = Append(m_vecMonitoredFDs, new)
        /\ m_mapMonitoredFDsIndex' = Assign(m_mapMonitoredFDsIndex, fd, n)
        /\ m_mapCallBacks' = Assign(m_mapCallBacks, fd, callback)
    BY DEF Subscribe
  <1> HIDE DEF n, new
  <1>4. /\ m_vecMonitoredFDs' \in Seq(PollFD)
        /\ Len(m_vecMonitoredFDs') = n + 1
        /\ m_vecMonitoredFDs'[n + 1] = new
        /\ \A i \in 1 .. n : m_vecMonitoredFDs'[i] = m_vecMonitoredFDs[i]
    BY <1>1, <1>2, <1>3 DEF n
  <1>5. /\ Monitored' = Monitored \cup {fd}
        /\ m_mapMonitoredFDsIndex' \in [Monitored' -> Nat]
        /\ m_mapMonitoredFDsIndex'[fd] = n
        /\ \A f \in Monitored : m_mapMonitoredFDsIndex'[f] = m_mapMonitoredFDsIndex[f]
    BY <1>2, <1>3 DEF Assign, Monitored
  <1>6. \A f \in Monitored : m_mapMonitoredFDsIndex[f] \in Nat /\ m_mapMonitoredFDsIndex[f] + 1 \in 1 .. n
    BY <1>2 DEF Consistent, IndexMatchesVector, n
  <1>7. TypeOK'
    BY <1>3, <1>4, <1>5 DEF Consistent, TypeOK, Assign
  <1>8. IndexMatchesVector'
    <2>1. ASSUME NEW f \in Monitored'
          PROVE  /\ m_mapMonitoredFDsIndex'[f] < n + 1
                 /\ m_vecMonitoredFDs'[m_mapMonitoredFDsIndex'[f] + 1].fd = f
      BY <1>2, <1>4, <1>5, <1>6 DEF Consistent, IndexMatchesVector, new
    <2>2. ASSUME NEW i \in 1 .. n + 1
          PROVE  /\ m_vecMonitoredFDs'[i].fd \in Monitored'
                 /\ m_mapMonitoredFDsIndex'[m_vecMonitoredFDs'[i].fd] = i - 1
      <3>1. CASE i = n + 1
        BY <1>2, <1>4, <1>5, <3>1 DEF new
      <3>2. CASE i \in 1 .. n
        BY <1>4, <1>5, <3>2 DEF Consistent, IndexMatchesVector, n
      <3> QED
        BY <1>2, <3>1, <3>2
    <2> QED
      BY <1>4, <2>1, <2>2 DEF IndexMatchesVector
  <1>9. CallbackIffPolled'
    BY <1>3, <1>5 DEF Consistent, CallbackIffPolled, Assign
  <1> QED
    BY <1>4, <1>5, <1>6, <1>7, <1>8, <1>9 DEF Consistent, new

(* A second one only widens the events of the pollfd the index finds. *)
LEMMA SubscribeAgain ==
    ASSUME Consistent, NEW fd \in FDs, NEW callback \in Callbacks, NEW events \in SUBSET Events,
           Subscribe(fd, callback, events), fd \in Monitored
    PROVE  /\ Consistent'
           /\ Monitored' = Monitored
           /\ m_vecMonitoredFDs'[m_mapMonitoredFDsIndex'[fd] + 1].events
                  = m_vecMonitoredFDs[m_mapMonitoredFDsIndex[fd] + 1].events \cup events
           /\ \A f \in Monitored \ {fd} :
                  m_vecMonitoredFDs'[m_mapMonitoredFDsIndex'[f] + 1]
                      = m_vecMonitoredFDs[m_mapMonitoredFDsIndex[f] + 1]
  <1> DEFINE at == m_mapMonitoredFDsIndex[fd] + 1
             wider == [m_vecMonitoredFDs[at] EXCEPT !.events = @ \cup events]
  <1>1. /\ m_vecMonitoredFDs \in Seq(PollFD)
        /\ m_mapMonitoredFDsIndex \in [Monitored -> Nat]
        /\ at \in 1 .. Len(m_vecMonitoredFDs)
        /\ m_vecMonitoredFDs[at] \in PollFD
        /\ m_vecMonitoredFDs[at].fd = fd
    BY DEF Consistent, TypeOK, IndexMatchesVector
  <1>2. /\ wider \in PollFD
        /\ wider.fd = fd
        /\ wider.events = m_vecMonitoredFDs[at].events \cup events
    BY <1>1 DEF PollFD
  <1>3. /\ m_vecMonitoredFDs' = [m_vecMonitoredFDs EXCEPT ![at] = wider]
        /\ m_mapMonitoredFDsIndex' = m_mapMonitoredFDsIndex
        /\ m_mapCallBacks' = Assign(m_mapCallBacks, fd, callback)
    BY DEF Subscribe
  <1> HIDE DEF at, wider
  <1>4. /\ m_vecMonitoredFDs' \in Seq(PollFD)
        /\ Len(m_vecMonitoredFDs') = Len(m_vecMonitoredFDs)
        /\ m_vecMonitoredFDs'[at] = wider
        /\ \A i \in 1 .. Len(m_vecMonitoredFDs) \ {at} : m_vecMonitoredFDs'[i] = m_vecMonitoredFDs[i]
    BY <1>1, <1>2, <1>3, ExceptSeq
  <1>5. Monitored' = Monitored
    BY <1>3 DEF Monitored
  <1>6. \A f \in Monitored : f # fd =>
            m_mapMonitoredFDsIndex[f] + 1 \in 1 .. Len(m_vecMonitoredFDs) \ {at}
    BY <1>1 DEF Consistent, IndexMatchesVector
  <1>7. TypeOK'
    BY <1>3, <1>4, <1>5 DEF Consistent, TypeOK, Assign
  <1>8. \A i \in 1 .. Len(m_vecMonitoredFDs) : m_vecMonitoredFDs'[i].fd = m_vecMonitoredFDs[i].fd
    BY <1>1, <1>2, <1>4
  <1>9. IndexMatchesVector'
    <2>1. \A f \in Monitored : m_mapMonitoredFDsIndex[f] + 1 \in 1 .. Len(m_vecMonitoredFDs)
      BY <1>1 DEF Consistent, IndexMatchesVector
    <2> QED
      BY <1>3, <1>4, <1>5, <1>8, <2>1 DEF Consistent, IndexMatchesVector
  <1>10. CallbackIffPolled'
    BY <1>3, <1>5 DEF Consistent, CallbackIffPolled, Assign
  <1> QED
    BY <1>2, <1>3, <1>4, <1>5, <1>6, <1>7, <1>9, <1>10 DEF Consistent, at

(* Removal moves the last pollfd into the hole and indexes it there. *)
LEMMA UnSubscribeMonitored ==
    ASSUME Consistent, NEW fd \in FDs, UnSubscribe(fd), fd \in Monitored
    PROVE  /\ Consistent'
           /\ Monitored' = Monitored \ {fd}
           /\ \A f \in Monitored' :
                  m_vecMonitoredFDs'[m_mapMonitoredFDsIndex'[f] + 1]
                      = m_vecMonitoredFDs[m_mapMonitoredFDsIndex[f] + 1]
  <1> DEFINE idx == m_mapMonitoredFDsIndex[fd]
             n == Len(m_vecMonitoredFDs)
             last == m_vecMonitoredFDs[n]
             moved == [m_vecMonitoredFDs EXCEPT ![idx + 1] = last]
             reindexed == IF idx = n - 1 THEN m_mapMonitoredFDsIndex
                          ELSE [m_mapMonitoredFDsIndex EXCEPT ![last.fd] = idx]
  <1>1. /\ m_vecMonitoredFDs \in Seq(PollFD)
        /\ m_mapMonitoredFDsIndex \in [Monitored -> Nat]
        /\ idx \in Nat /\ n \in Nat /\ idx < n
        /\ (n - 1) + 1 = n
    BY DEF Consistent, TypeOK, IndexMatchesVector
  <1>2. /\ n \in 1 .. n /\ idx + 1 \in 1 .. n
        /\ last \in PollFD
        /\ last.fd \in Monitored
        /\ m_mapMonitoredFDsIndex[last.fd] = n - 1
        /\ m_vecMonitoredFDs[idx + 1].fd = fd
    BY <1>1 DEF Consistent, IndexMatchesVector
  <1>3. /\ m_vecMonitoredFDs' = SubSeq(moved, 1, n - 1)
        /\ m_mapMonitoredFDsIndex' = Erase(reindexed, fd)
        /\ m_mapCallBacks' = Erase(m_mapCallBacks, fd)
    BY <1>1 DEF UnSubscribe
  <1>4. /\ moved \in Seq(PollFD)
        /\ Len(moved) = n
        /\ \A j \in 1 .. n : moved[j] = IF j = idx + 1 THEN last ELSE m_vecMonitoredFDs[j]
    BY <1>1, <1>2, ExceptSeq
  <1>5. /\ DOMAIN reindexed = Monitored
        /\ reindexed \in [Monitored -> Nat]
        /\ last.fd # fd => reindexed[last.fd] = idx
        /\ \A f \in Monitored \ {last.fd} : reindexed[f] = m_mapMonitoredFDsIndex[f]
    <2>1. last.fd # fd => idx # n - 1
      BY <1>1, <1>2
    <2> QED
      BY <1>1, <1>2, <2>1
  <1> HIDE DEF idx, n, last, moved, reindexed
  <1>6. /\ m_vecMonitoredFDs' \in Seq(PollFD)
        /\ Len(m_vecMonitoredFDs') = n - 1
        /\ \A j \in 1 .. n - 1 : m_vecMonitoredFDs'[j] = IF j = idx + 1 THEN last ELSE m_vecMonitoredFDs[j]
    <2>1. \A j \in 1 .. n - 1 : moved[j] \in PollFD
      BY <1>1, <1>4
    <2>2. /\ m_vecMonitoredFDs' \in Seq(PollFD)
          /\ Len(m_vecMonitoredFDs') = IF 1 <= n - 1 THEN (n - 1) - 1 + 1 ELSE 0
          /\ \A j \in 1 .. (n - 1) - 1 + 1 : m_vecMonitoredFDs'[j] = moved[1 + j - 1]
      BY <1>1, <1>3, <2>1, SubSeqProperties
    <2>3. \A j \in 1 .. n - 1 : m_vecMonitoredFDs'[j] = moved[j]
      BY <1>1, <2>2
    <2> QED
      BY <1>1, <1>4, <2>2, <2>3
  <1>7. /\ Monitored' = Monitored \ {fd}
        /\ m_mapMonitoredFDsIndex' \in [Monitored' -> Nat]
        /\ last.fd # fd => m_mapMonitoredFDsIndex'[last.fd] = idx
        /\ \A f \in Monitored' \ {last.fd} : m_mapMonitoredFDsIndex'[f] = m_mapMonitoredFDsIndex[f]
    BY <1>2, <1>3, <1>5 DEF Monitored, Erase
  (* The surviving descriptors are where the new index says. *)
  <1>8. ASSUME NEW f \in Monitored'
        PROVE  /\ m_mapMonitoredFDsIndex'[f] \in 0 .. n - 2
               /\ m_vecMonitoredFDs'[m_mapMonitoredFDsIndex'[f] + 1]
                      = m_vecMonitoredFDs[m_mapMonitoredFDsIndex[f] + 1]
    <2>1. /\ f \in Monitored /\ f # fd
          /\ m_mapMonitoredFDsIndex[f] \in Nat
          /\ m_mapMonitoredFDsIndex[f] < n
          /\ m_vecMonitoredFDs[m_mapMonitoredFDsIndex[f] + 1].fd = f
          /\ m_mapMonitoredFDsIndex[f] # idx
      BY <1>1, <1>2, <1>7 DEF Consistent, IndexMatchesVector, n
    <2>2. CASE f = last.fd
      <3>1. m_mapMonitoredFDsIndex'[f] = idx /\ m_mapMonitoredFDsIndex[f] = n - 1
        BY <1>2, <1>7, <2>1, <2>2
      <3>2. idx \in 0 .. n - 2 /\ idx + 1 \in 1 .. n - 1
        BY <1>1, <2>1, <3>1
      <3> QED
        BY <1>1, <1>6, <3>1, <3>2 DEF last
    <2>3. CASE f # last.fd
      <3>1. m_mapMonitoredFDsIndex'[f] = m_mapMonitoredFDsIndex[f]
        BY <1>7, <2>3
      <3>2. m_mapMonitoredFDsIndex[f] # n - 1
        BY <1>1, <2>1, <2>3 DEF last
      <3>3. m_mapMonitoredFDsIndex[f] \in 0 .. n - 2 /\ m_mapMonitoredFDsIndex[f] + 1 \in 1 .. n - 1
        BY <1>1, <2>1, <3>2
      <3> QED
        BY <1>1, <1>6, <2>1, <3>1, <3>3
    <2> QED
      BY <2>2, <2>3
  <1>9. TypeOK'
    BY <1>3, <1>6, <1>7 DEF Consistent, TypeOK, Erase
  <1>10. IndexMatchesVector'
    <2>1. ASSUME NEW f \in Monitored'
          PROVE  /\ m_mapMonitoredFDsIndex'[f] < n - 1
                 /\ m_vecMonitoredFDs'[m_mapMonitoredFDsIndex'[f] + 1].fd = f
      BY <1>1, <1>7, <1>8 DEF Consistent, IndexMatchesVector
    <2>2. ASSUME NEW j \in 1 .. n - 1
          PROVE  /\ m_vecMonitoredFDs'[j].fd \in Monitored'
                 /\ m_mapMonitoredFDsIndex'[m_vecMonitoredFDs'[j].fd] = j - 1
      <3>1. CASE j = idx + 1
        <4>1. m_vecMonitoredFDs'[j] = last
          BY <1>6, <3>1
        <4>2. last.fd # fd
          BY <1>1, <1>2, <3>1 DEF idx
        <4> QED
          BY <1>1, <1>2, <1>7, <3>1, <4>1, <4>2
      <3>2. CASE j # idx + 1
        <4>1. m_vecMonitoredFDs'[j] = m_vecMonitoredFDs[j]
          BY <1>6, <3>2
        <4>2. j \in 1 .. n
          BY <1>1
        <4>3. /\ m_vecMonitoredFDs[j].fd \in Monitored
              /\ m_mapMonitoredFDsIndex[m_vecMonitoredFDs[j].fd] = j - 1
          BY <4>2 DEF Consistent, IndexMatchesVector, n
        <4>4. m_vecMonitoredFDs[j].fd # fd /\ m_vecMonitoredFDs[j].fd # last.fd
          BY <1>1, <1>2, <3>2, <4>2, <4>3 DEF idx
        <4> QED
          BY <1>7, <4>1, <4>3, <4>4
      <3> QED
        BY <3>1, <3>2
    <2> QED
      BY <1>6, <2>1, <2>2 DEF IndexMatchesVector
  <1>11. CallbackIffPolled'
    BY <1>3, <1>7 DEF Consistent, CallbackIffPolled, Erase
  <1> QED
    BY <1>7, <1>8, <1>9, <1>10, <1>11 DEF Consistent

(* poll changes neither which descriptors are monitored nor their events. *)
LEMMA PollKeeps ==
    ASSUME Consistent, NEW ready \in [FDs -> SUBSET Events], Poll(ready)
    PROVE  /\ Consistent'
           /\ Monitored' = Monitored
           /\ \A f \in Monitored :
                  m_vecMonitoredFDs'[m_mapMonitoredFDsIndex'[f] + 1].events
                      = m_vecMonitoredFDs[m_mapMonitoredFDsIndex[f] + 1].events
  <1> DEFINE n == Len(m_vecMonitoredFDs)
             polled(j) == [m_vecMonitoredFDs[j] EXCEPT !.revents = ready[m_vecMonitoredFDs[j].fd]]
  <1>1. /\ m_vecMonitoredFDs \in Seq(PollFD)
        /\ m_mapMonitoredFDsIndex \in [Monitored -> Nat]
        /\ n \in Nat
        /\ DOMAIN m_vecMonitoredFDs = 1 .. n
    BY DEF Consistent, TypeOK
  <1>2. ASSUME NEW j \in 1 .. n
        PROVE  /\ polled(j) \in PollFD
               /\ polled(j).fd = m_vecMonitoredFDs[j].fd
               /\ polled(j).events = m_vecMonitoredFDs[j].events
    <2>1. m_vecMonitoredFDs[j] \in PollFD
      BY <1>1
    <2> QED
      BY <2>1 DEF PollFD
  <1>3. m_vecMonitoredFDs' = [j \in 1 .. n |-> polled(j)]
    BY <1>1 DEF Poll
  <1>4. m_mapMonitoredFDsIndex' = m_mapMonitoredFDsIndex /\ m_mapCallBacks' = m_mapCallBacks
    BY DEF Poll
  <1> HIDE DEF polled
  <1>5. /\ m_vecMonitoredFDs' \in Seq(PollFD)
        /\ Len(m_vecMonitoredFDs') = n
        /\ \A j \in 1 .. n : m_vecMonitoredFDs'[j] = polled(j)
    BY <1>1, <1>2, <1>3
  <1> HIDE DEF n
  <1>6. Monitored' = Monitored
    BY <1>4 DEF Monitored
  <1>7. \A f \in Monitored : m_mapMonitoredFDsIndex[f] + 1 \in 1 .. n
    BY <1>1 DEF Consistent, IndexMatchesVector, n
  <1>8. TypeOK'
    BY <1>4, <1>5, <1>6 DEF Consistent, TypeOK
  <1>9. IndexMatchesVector'
    BY <1>2, <1>4, <1>5, <1>6, <1>7 DEF Consistent, IndexMatchesVector, n
  <1>10. CallbackIffPolled'
    BY <1>4, <1>6 DEF Consistent, CallbackIffPolled
  <1> QED
    BY <1>2, <1>4, <1>5, <1>6, <1>7, <1>8, <1>9, <1>10 DEF Consistent

LEMMA StepConsistent == Consistent /\ [Next]_registryVars => Consistent'
  <1> SUFFICES ASSUME Consistent, [Next]_registryVars PROVE Consistent'
    OBVIOUS
  <1>1. ASSUME NEW fd \in FDs, NEW callback \in Callbacks, NEW events \in SUBSET Events,
               Subscribe(fd, callback, events)
        PROVE  Consistent'
    BY <1>1, SubscribeNew, SubscribeAgain
  <1>2. CASE UNCHANGED registryVars
    BY <1>2 DEF registryVars, Consistent, TypeOK, IndexMatchesVector, CallbackIffPolled, Monitored
  <1>3. ASSUME NEW fd \in FDs, UnSubscribe(fd)
        PROVE  Consistent'
    BY <1>2, <1>3, UnSubscribeMonitored DEF UnSubscribe
  <1>4. ASSUME NEW ready \in [FDs -> SUBSET Events], Poll(ready)
        PROVE  Consistent'
    BY <1>4, PollKeeps
  <1> QED
    BY <1>1, <1>2, <1>3, <1>4 DEF Next

LEMMA AlwaysConsistent == Spec => []Consistent
  BY InitConsistent, StepConsistent, PTL DEF Spec

(* The containers keep their types. *)
THEOREM TypeInvariant == Spec => []TypeOK
  BY AlwaysConsistent, PTL DEF Consistent

(* After any sequence of subscriptions, removals and polls the index and   *)
(* the vector are inverse to each other, whatever the removals moved.      *)
THEOREM IndexInvariant == Spec => []IndexMatchesVector
  BY AlwaysConsistent, PTL DEF Consistent

(* Exactly the descriptors that are polled have a callback. *)
THEOREM CallbackInvariant == Spec => []CallbackIffPolled
  BY AlwaysConsistent, PTL DEF Consistent
-----------------------------------------------------------------------------
(* A first subscription of a descriptor is a new subscription. *)
LEMMA SubscribeNewRefines ==
    ASSUME Consistent, NEW fd \in FDs, NEW callback \in Callbacks, NEW events \in SUBSET Events,
           Subscribe(fd, callback, events), fd \notin Monitored
    PROVE  Subs!Subscribe(fd, callback, events)
  <1>1. DOMAIN m_mapCallBacks = Monitored /\ DOMAIN m_mapCallBacks' = Monitored \cup {fd}
    BY SubscribeNew DEF Consistent, CallbackIffPolled
  <1>2. m_mapCallBacks'[fd] = callback /\ \A f \in Monitored : m_mapCallBacks'[f] = m_mapCallBacks[f]
    BY <1>1 DEF Subscribe, Assign
  <1>3. Subscription(fd)' = [callback |-> callback, events |-> events]
    BY <1>2, SubscribeNew DEF Subscription
  <1>4. \A f \in Monitored : Subscription(f)' = Subscription(f)
    BY <1>2, SubscribeNew DEF Subscription
  <1>5. events \cup {} = events
    OBVIOUS
  <1> QED
    BY <1>1, <1>3, <1>4, <1>5 DEF Subs!Subscribe, subscriptions

(* A later one replaces the callback and adds to the events. *)
LEMMA SubscribeAgainRefines ==
    ASSUME Consistent, NEW fd \in FDs, NEW callback \in Callbacks, NEW events \in SUBSET Events,
           Subscribe(fd, callback, events), fd \in Monitored
    PROVE  Subs!Subscribe(fd, callback, events)
  <1>1. DOMAIN m_mapCallBacks = Monitored /\ DOMAIN m_mapCallBacks' = Monitored
    BY SubscribeAgain DEF Consistent, CallbackIffPolled
  <1>2. m_mapCallBacks'[fd] = callback /\ \A f \in Monitored \ {fd} : m_mapCallBacks'[f] = m_mapCallBacks[f]
    BY <1>1 DEF Subscribe, Assign
  <1>3. Subscription(fd)' = [callback |-> callback, events |-> events \cup Subscription(fd).events]
    <2>1. Subscription(fd).events = m_vecMonitoredFDs[m_mapMonitoredFDsIndex[fd] + 1].events
      BY DEF Subscription
    <2>2. Subscription(fd)' = [callback |-> callback,
                               events |-> m_vecMonitoredFDs[m_mapMonitoredFDsIndex[fd] + 1].events \cup events]
      BY <1>2, SubscribeAgain DEF Subscription
    <2> QED
      BY <2>1, <2>2
  <1>4. \A f \in Monitored \ {fd} : Subscription(f)' = Subscription(f)
    BY <1>2, SubscribeAgain DEF Subscription
  <1>5. Monitored \cup {fd} = Monitored
    OBVIOUS
  <1> QED
    BY <1>1, <1>3, <1>4, <1>5 DEF Subs!Subscribe, subscriptions

(* A removal forgets one subscription and keeps every other. *)
LEMMA UnSubscribeRefines ==
    ASSUME Consistent, NEW fd \in FDs, UnSubscribe(fd), fd \in Monitored
    PROVE  Subs!UnSubscribe(fd)
  <1>1. DOMAIN m_mapCallBacks = Monitored /\ DOMAIN m_mapCallBacks' = Monitored \ {fd}
    BY UnSubscribeMonitored DEF Consistent, CallbackIffPolled
  <1>2. \A f \in Monitored \ {fd} : m_mapCallBacks'[f] = m_mapCallBacks[f]
    BY <1>1 DEF UnSubscribe, Erase
  <1>3. \A f \in Monitored \ {fd} : Subscription(f)' = Subscription(f)
    BY <1>1, <1>2, UnSubscribeMonitored DEF Subscription, Consistent, CallbackIffPolled
  <1> QED
    BY <1>1, <1>3 DEF Subs!UnSubscribe, subscriptions

LEMMA StepRefines == Consistent /\ [Next]_registryVars => [Subs!Next]_subscriptions
  <1> SUFFICES ASSUME Consistent, [Next]_registryVars PROVE [Subs!Next]_subscriptions
    OBVIOUS
  <1>1. ASSUME NEW fd \in FDs, NEW callback \in Callbacks, NEW events \in SUBSET Events,
               Subscribe(fd, callback, events)
        PROVE  Subs!Next
    <2>1. Subs!Subscribe(fd, callback, events)
      BY <1>1, SubscribeNewRefines, SubscribeAgainRefines
    <2> QED
      BY <2>1 DEF Subs!Next, Subs!Subscribe
  <1>2. CASE UNCHANGED registryVars
    BY <1>2 DEF registryVars, subscriptions, Subscription
  <1>3. ASSUME NEW fd \in FDs, UnSubscribe(fd)
        PROVE  [Subs!Next]_subscriptions
    <2>1. CASE fd \in Monitored
      <3>1. Subs!UnSubscribe(fd)
        BY <1>3, <2>1, UnSubscribeRefines
      <3> QED
        BY <3>1 DEF Subs!Next, Subs!UnSubscribe
    <2>2. CASE fd \notin Monitored
      BY <1>2, <1>3, <2>2 DEF UnSubscribe
    <2> QED
      BY <2>1, <2>2
  <1>4. ASSUME NEW ready \in [FDs -> SUBSET Events], Poll(ready)
        PROVE  UNCHANGED subscriptions
    <2>1. m_mapCallBacks' = m_mapCallBacks
      BY <1>4 DEF Poll
    <2>2. \A fd \in DOMAIN m_mapCallBacks : Subscription(fd)' = Subscription(fd)
      BY <1>4, <2>1, PollKeeps DEF Subscription, Consistent, CallbackIffPolled
    <2> QED
      BY <2>1, <2>2 DEF subscriptions
  <1> QED
    BY <1>1, <1>2, <1>3, <1>4 DEF Next

(* The registry implements the subscriptions: whatever is subscribed and   *)
(* removed, no descriptor's subscription is disturbed by another's.        *)
THEOREM Refinement == Spec => ImplementsSubscriptions
  <1>1. Init => Subs!Init
    BY DEF Init, Subs!Init, subscriptions
  <1> QED
    BY <1>1, StepRefines, AlwaysConsistent, PTL DEF Spec, ImplementsSubscriptions, Subs!Spec
=============================================================================
