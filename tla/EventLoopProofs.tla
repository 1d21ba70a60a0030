--------------------------- MODULE EventLoopProofs ---------------------------
(***************************************************************************)
(* Proofs about the event loop, for any descriptors, callbacks, threads,   *)
(* capacity and number of requests: the registry follows the requests in   *)
(* their order, and an iteration calls back each ready descriptor once.    *)
(***************************************************************************)
EXTENDS EventLoop, SequenceTheorems, FiniteSetTheorems, TLAPS

RP == INSTANCE EventLoopRegisteryProofs

(* How many elements of the vector the walk has dealt with. *)
Walked ==
    IF loopPc = "dispatch" THEN i
    ELSE IF loopPc = "callback" THEN i + 1
    ELSE Len(m_vecMonitoredFDs)

ReadyAmong(n) == {k \in 1 .. n : m_vecMonitoredFDs[k].revents # {}}

CallbackOf(k) == [fd |-> m_vecMonitoredFDs[k].fd, callback |-> m_mapCallBacks[m_vecMonitoredFDs[k].fd]]

(* The walk has called back the ready elements it has dealt with, once. *)
CalledSoFar(n) ==
    /\ n <= Len(m_vecMonitoredFDs)
    /\ Len(called) = Cardinality(ReadyAmong(n))
    /\ {called[k] : k \in DOMAIN called} = {CallbackOf(k) : k \in ReadyAmong(n)}

Walk == loopPc \in {"dispatch", "callback", "task"} => CalledSoFar(Walked)

IInv ==
    /\ TypeOK
    /\ RP!Consistent
    /\ RegistryFollowsRequests
    /\ Walk

Locations ==
    {"setup", "check", "pop", "receive", "stopped", "poll", "dispatch", "callback", "task", "done", "failed"}
Calls == {"none", "push", "stopWriting", "stopRunning"}

LEMMA SameRegistry ==
    /\ RP!TypeOK <=> Registery!TypeOK
    /\ RP!Consistent => RP!TypeOK /\ RP!Monitored = DOMAIN m_mapCallBacks /\ RP!Monitored \subseteq FDs
  BY DEF RP!Consistent, RP!TypeOK, RP!CallbackIffPolled, Registery!TypeOK,
         RP!Monitored, Registery!Monitored, RP!PollFD, Registery!PollFD

LEMMA SameRegistryNext ==
    (RP!TypeOK <=> Registery!TypeOK)'
  BY DEF RP!TypeOK, Registery!TypeOK, RP!Monitored, Registery!Monitored, RP!PollFD, Registery!PollFD

LEMMA RegistryUnchanged ==
    ASSUME RP!Consistent, UNCHANGED registryVars
    PROVE  RP!Consistent' /\ Registery!TypeOK'
  <1>1. RP!Consistent'
    BY DEF registryVars, RP!Consistent, RP!TypeOK, RP!IndexMatchesVector, RP!CallbackIffPolled,
           RP!Monitored, RP!PollFD
  <1> QED  BY <1>1, SameRegistryNext DEF RP!Consistent

(* The events that a monitored descriptor is polled for. *)
Polled(fd) == m_vecMonitoredFDs[m_mapMonitoredFDsIndex[fd] + 1].events

(* A request that is applied changes the subscription of its own           *)
(* descriptor only.                                                        *)
LEMMA HandleStep ==
    ASSUME RP!Consistent, NEW request \in Requests, HandleSubscriptionRequest(request)
    PROVE  /\ RP!Consistent'
           /\ request.op = "subscribe" =>
                  /\ DOMAIN m_mapCallBacks' = DOMAIN m_mapCallBacks \cup {request.fd}
                  /\ m_mapCallBacks'[request.fd] = request.callback
                  /\ Polled(request.fd)' =
                         IF request.fd \in DOMAIN m_mapCallBacks
                         THEN Polled(request.fd) \cup request.events ELSE request.events
           /\ request.op # "subscribe" => DOMAIN m_mapCallBacks' = DOMAIN m_mapCallBacks \ {request.fd}
           /\ \A fd \in DOMAIN m_mapCallBacks \ {request.fd} :
                  m_mapCallBacks'[fd] = m_mapCallBacks[fd] /\ Polled(fd)' = Polled(fd)
  <1>1. request.fd \in FDs
    BY DEF Requests
  <1>2. CASE request.op = "subscribe"
    <2>1. request.callback \in Callbacks /\ request.events \in SUBSET Events
      BY <1>2 DEF Requests
    <2>2. Registery!Subscribe(request.fd, request.callback, request.events)
      BY <1>2 DEF HandleSubscriptionRequest
    <2>3. RP!Subscribe(request.fd, request.callback, request.events)
      BY <2>2, Zenon DEF RP!Subscribe, Registery!Subscribe, RP!Monitored, Registery!Monitored,
                         RP!Assign, Registery!Assign
    <2>4. m_mapCallBacks' = [k \in DOMAIN m_mapCallBacks \cup {request.fd} |->
                                IF k = request.fd THEN request.callback ELSE m_mapCallBacks[k]]
      BY <2>2 DEF Registery!Subscribe, Registery!Assign
    <2>5. CASE request.fd \in RP!Monitored
      <3>1. /\ RP!Consistent' /\ Polled(request.fd)' = Polled(request.fd) \cup request.events
            /\ \A fd \in RP!Monitored \ {request.fd} : Polled(fd)' = Polled(fd)
        BY <1>1, <2>1, <2>3, <2>5, RP!SubscribeAgain DEF Polled
      <3> QED  BY <1>2, <2>4, <2>5, <3>1, SameRegistry
    <2>6. CASE request.fd \notin RP!Monitored
      <3>1. /\ RP!Consistent' /\ Polled(request.fd)' = request.events
            /\ \A fd \in RP!Monitored : Polled(fd)' = Polled(fd)
        BY <1>1, <2>1, <2>3, <2>6, RP!SubscribeNew DEF Polled
      <3> QED  BY <1>2, <2>4, <2>6, <3>1, SameRegistry
    <2> QED  BY <2>5, <2>6
  <1>3. CASE request.op # "subscribe"
    <2>1. Registery!UnSubscribe(request.fd)
      BY <1>3 DEF HandleSubscriptionRequest
    <2>2. CASE request.fd \in RP!Monitored
      <3>1. RP!UnSubscribe(request.fd)
        BY <2>1, Zenon DEF RP!UnSubscribe, Registery!UnSubscribe, RP!Monitored, Registery!Monitored,
                           RP!Erase, Registery!Erase, RP!registryVars, Registery!registryVars
      <3>2. /\ RP!Consistent' /\ RP!Monitored' = RP!Monitored \ {request.fd}
            /\ \A fd \in RP!Monitored' : Polled(fd)' = Polled(fd)
        BY <1>1, <2>2, <3>1, RP!UnSubscribeMonitored DEF Polled
      <3>3. m_mapCallBacks' = [k \in DOMAIN m_mapCallBacks \ {request.fd} |-> m_mapCallBacks[k]]
        BY <2>1, <2>2 DEF Registery!UnSubscribe, Registery!Erase, Registery!Monitored, RP!Monitored
      <3> QED  BY <1>3, <3>2, <3>3, SameRegistry
    <2>3. CASE request.fd \notin RP!Monitored
      <3>1. UNCHANGED registryVars
        BY <2>1, <2>3 DEF Registery!UnSubscribe, Registery!Monitored, RP!Monitored,
                          Registery!registryVars, registryVars
      <3>2. RP!Consistent'
        BY <3>1, RegistryUnchanged
      <3>3. m_mapCallBacks' = m_mapCallBacks /\ request.fd \notin DOMAIN m_mapCallBacks
        BY <3>1, <2>3, SameRegistry DEF registryVars
      <3>4. \A fd : Polled(fd)' = Polled(fd)
        BY <3>1 DEF registryVars, Polled
      <3> QED  BY <1>3, <3>2, <3>3, <3>4
    <2> QED  BY <2>2, <2>3
  <1> QED  BY <1>2, <1>3

LEMMA InitIInv == Init => IInv
  <1> SUFFICES ASSUME Init PROVE IInv
    OBVIOUS
  <1>1. /\ order = <<>> /\ visible = {} /\ received = <<>>
        /\ m_bIsReading = TRUE /\ m_bIsWriting = TRUE /\ m_bRunning = FALSE
        /\ loopPc = "setup" /\ i = 0 /\ called = <<>>
        /\ call = [t \in Threads |-> "none"] /\ place = [t \in Threads |-> 0]
        /\ m_mapMonitoredFDsIndex = [fd \in {} |-> 0]
        /\ m_vecMonitoredFDs = <<>>
        /\ m_mapCallBacks = [fd \in {} |-> fd]
    BY DEF Init, Queue!Init, Registery!Init
  <1>2. RP!Consistent
    BY <1>1, RP!InitConsistent DEF RP!Init
  <1>3. TypeOK
    <2>1. Registery!TypeOK
      BY <1>2, SameRegistry
    <2>2. /\ order \in Seq(Requests) /\ received \in Seq(Requests)
          /\ called \in Seq([fd : FDs, callback : Callbacks])
          /\ visible \subseteq 1 .. Len(order)
      BY <1>1
    <2>3. /\ call \in [Threads -> {"none", "push", "stopWriting", "stopRunning"}]
          /\ place \in [Threads -> Nat] /\ i \in Nat
      BY <1>1
    <2> QED  BY <1>1, <2>1, <2>2, <2>3 DEF TypeOK
  <1>4. RegistryFollowsRequests
    BY <1>1 DEF RegistryFollowsRequests, Standing
  <1> QED  BY <1>1, <1>2, <1>3, <1>4 DEF IInv, Walk

(* The oldest request is taken and applied. *)
LEMMA ApplyFollows ==
    ASSUME RP!Consistent, RegistryFollowsRequests, received \in Seq(Requests), NEW request \in Requests,
           HandleSubscriptionRequest(request), received' = Append(received, request)
    PROVE  RegistryFollowsRequests'
  <1> DEFINE l == Len(received)
  <1>1. /\ l \in Nat /\ DOMAIN received = 1 .. l /\ DOMAIN received' = 1 .. l + 1 /\ Len(received') = l + 1
        /\ \A k \in 1 .. l : received'[k] = received[k]
        /\ received'[l + 1] = request
    BY AppendProperties, LenProperties
  <1>2. \A n \in 1 .. l + 1 : n \in 1 .. l \/ n = l + 1
    BY <1>1
  <1>3. \A n \in 1 .. l : l + 1 \in n .. l + 1 /\ n .. l \subseteq 1 .. l /\ n .. l \subseteq n .. l + 1 /\ n <= l + 1
    BY <1>1
  <1>4. \A n \in 1 .. l : \A k \in n .. l + 1 : k \in n .. l \/ k = l + 1
    BY <1>1
  <1>5. /\ l + 1 \in 1 .. l + 1 /\ l + 1 \notin 1 .. l /\ l + 1 <= l + 1
        /\ \A k \in l + 1 .. l + 1 : k = l + 1
    BY <1>1
  <1>a. \A fd : Standing(fd)' =
                    {n \in 1 .. l + 1 :
                        /\ received'[n].fd = fd
                        /\ \A k \in n .. l + 1 : received'[k].fd = fd => received'[k].op = "subscribe"}
    BY <1>1 DEF Standing
  <1>b. \A fd : Standing(fd) =
                    {n \in 1 .. l :
                        /\ received[n].fd = fd
                        /\ \A k \in n .. l : received[k].fd = fd => received[k].op = "subscribe"}
    BY <1>1 DEF Standing
  <1> HIDE DEF l
  (* What stands after the request. *)
  <1>6. ASSUME NEW fd \in FDs
        PROVE  Standing(fd)' = IF fd # request.fd THEN Standing(fd)
                               ELSE IF request.op = "subscribe" THEN Standing(fd) \cup {l + 1}
                               ELSE {}
    <2>1. ASSUME NEW n \in 1 .. l
          PROVE  n \in Standing(fd)' <=>
                     n \in Standing(fd) /\ (fd = request.fd => request.op = "subscribe")
      <3>1. n \in Standing(fd)' <=>
                /\ received[n].fd = fd
                /\ \A k \in n .. l + 1 : received'[k].fd = fd => received'[k].op = "subscribe"
        BY <1>1, <1>2, <1>a
      <3>2. (\A k \in n .. l + 1 : received'[k].fd = fd => received'[k].op = "subscribe") <=>
                /\ \A k \in n .. l : received[k].fd = fd => received[k].op = "subscribe"
                /\ request.fd = fd => request.op = "subscribe"
        BY <1>1, <1>3, <1>4
      <3> QED  BY <1>b, <3>1, <3>2
    <2>2. l + 1 \in Standing(fd)' <=> fd = request.fd /\ request.op = "subscribe"
      BY <1>1, <1>5, <1>a
    <2>3. \A n \in Standing(fd)' : n \in 1 .. l \/ n = l + 1
      BY <1>2, <1>a
    <2>4. \A n \in Standing(fd) : n \in 1 .. l
      BY <1>b
    <2>5. CASE fd # request.fd
      <3>1. \A n \in Standing(fd)' : n \in Standing(fd)
        BY <2>1, <2>2, <2>3, <2>5
      <3>2. \A n \in Standing(fd) : n \in Standing(fd)'
        BY <2>1, <2>4, <2>5
      <3> QED  BY <2>5, <3>1, <3>2
    <2>6. CASE fd = request.fd /\ request.op = "subscribe"
      <3>1. \A n \in Standing(fd)' : n \in Standing(fd) \cup {l + 1}
        BY <2>1, <2>3
      <3>2. \A n \in Standing(fd) \cup {l + 1} : n \in Standing(fd)'
        BY <2>1, <2>2, <2>4, <2>6
      <3> QED  BY <2>6, <3>1, <3>2
    <2>7. CASE fd = request.fd /\ request.op # "subscribe"
      BY <2>1, <2>2, <2>3, <2>4, <2>7
    <2> QED  BY <2>5, <2>6, <2>7
  <1>7. \A fd : \A n \in Standing(fd) : received'[n] = received[n] /\ n <= l + 1 /\ n \in 1 .. l
    BY <1>1, <1>3, <1>b
  <1>8. /\ RP!Consistent'
        /\ request.op = "subscribe" =>
               /\ DOMAIN m_mapCallBacks' = DOMAIN m_mapCallBacks \cup {request.fd}
               /\ m_mapCallBacks'[request.fd] = request.callback
               /\ Polled(request.fd)' =
                      IF request.fd \in DOMAIN m_mapCallBacks
                      THEN Polled(request.fd) \cup request.events ELSE request.events
        /\ request.op # "subscribe" => DOMAIN m_mapCallBacks' = DOMAIN m_mapCallBacks \ {request.fd}
        /\ \A fd \in DOMAIN m_mapCallBacks \ {request.fd} :
               m_mapCallBacks'[fd] = m_mapCallBacks[fd] /\ Polled(fd)' = Polled(fd)
    BY HandleStep
  <1> SUFFICES ASSUME NEW fd \in FDs
               PROVE  /\ fd \in DOMAIN m_mapCallBacks' <=> Standing(fd)' # {}
                      /\ fd \in DOMAIN m_mapCallBacks' =>
                             /\ \E n \in Standing(fd)' :
                                    /\ \A k \in Standing(fd)' : k <= n
                                    /\ m_mapCallBacks'[fd] = received'[n].callback
                             /\ Polled(fd)' = UNION {received'[n].events : n \in Standing(fd)'}
    BY DEF RegistryFollowsRequests, Polled
  <1>9. /\ fd \in DOMAIN m_mapCallBacks <=> Standing(fd) # {}
        /\ fd \in DOMAIN m_mapCallBacks =>
               /\ \E n \in Standing(fd) :
                      /\ \A k \in Standing(fd) : k <= n
                      /\ m_mapCallBacks[fd] = received[n].callback
               /\ Polled(fd) = UNION {received[n].events : n \in Standing(fd)}
    BY DEF RegistryFollowsRequests, Polled
  <1>10. CASE fd # request.fd
    <2>1. Standing(fd)' = Standing(fd)
      BY <1>6, <1>10
    <2>2. {received'[n].events : n \in Standing(fd)'} = {received[n].events : n \in Standing(fd)}
      BY <1>7, <2>1
    <2>3. /\ fd \in DOMAIN m_mapCallBacks' <=> fd \in DOMAIN m_mapCallBacks
          /\ fd \in DOMAIN m_mapCallBacks => m_mapCallBacks'[fd] = m_mapCallBacks[fd] /\ Polled(fd)' = Polled(fd)
      BY <1>8, <1>10
    <2> QED  BY <1>7, <1>9, <2>1, <2>2, <2>3
  <1>11. CASE fd = request.fd /\ request.op = "subscribe"
    <2>1. Standing(fd)' = Standing(fd) \cup {l + 1}
      BY <1>6, <1>11
    <2>2. fd \in DOMAIN m_mapCallBacks' /\ m_mapCallBacks'[fd] = received'[l + 1].callback
      BY <1>1, <1>8, <1>11
    <2>3. \A k \in Standing(fd)' : k <= l + 1
      BY <1>5, <1>7, <2>1
    <2>4. UNION {received'[n].events : n \in Standing(fd)'} =
              (UNION {received[n].events : n \in Standing(fd)}) \cup request.events
      BY <1>1, <1>7, <2>1
    <2>5. Polled(fd)' = (UNION {received[n].events : n \in Standing(fd)}) \cup request.events
      BY <1>8, <1>9, <1>11
    <2> QED  BY <2>1, <2>2, <2>3, <2>4, <2>5
  <1>12. CASE fd = request.fd /\ request.op # "subscribe"
    <2>1. Standing(fd)' = {} /\ fd \notin DOMAIN m_mapCallBacks'
      BY <1>6, <1>8, <1>12
    <2> QED  BY <2>1
  <1> QED  BY <1>10, <1>11, <1>12
-----------------------------------------------------------------------------
(* Neither the registry nor what has been received changes. *)
LEMMA RegistryStays ==
    ASSUME IInv, UNCHANGED <<registryVars, received>>
    PROVE  RP!Consistent' /\ Registery!TypeOK' /\ RegistryFollowsRequests'
  <1>1. RP!Consistent' /\ Registery!TypeOK'
    BY RegistryUnchanged DEF IInv
  <1>2. \A fd : Standing(fd)' = Standing(fd)
    BY DEF Standing
  <1>3. RegistryFollowsRequests'
    BY <1>2 DEF IInv, RegistryFollowsRequests, registryVars
  <1> QED  BY <1>1, <1>3

(* The walk does not move. *)
LEMMA WalkStays ==
    ASSUME Walk, UNCHANGED <<registryVars, runVars>>
    PROVE  Walk'
  <1>1. /\ \A n : ReadyAmong(n)' = ReadyAmong(n)
        /\ \A k : CallbackOf(k)' = CallbackOf(k)
        /\ UNCHANGED <<m_vecMonitoredFDs, called, loopPc, i>>
    BY DEF ReadyAmong, CallbackOf, registryVars, runVars
  <1>2. Walked' = Walked
    BY <1>1 DEF Walked
  <1> QED  BY <1>1, <1>2 DEF Walk, CalledSoFar

(* A call on the loop changes the queue and the caller's place only. *)
LEMMA CallStepIInv ==
    ASSUME IInv, UNCHANGED <<registryVars, runVars, received>>,
           order' \in Seq(Requests), visible' \subseteq 1 .. Len(order'),
           m_bIsReading' \in BOOLEAN, m_bIsWriting' \in BOOLEAN, m_bRunning' \in BOOLEAN,
           call' \in [Threads -> Calls], place' \in [Threads -> Nat]
    PROVE  IInv'
  <1>1. RP!Consistent' /\ Registery!TypeOK' /\ RegistryFollowsRequests'
    BY RegistryStays
  <1>2. TypeOK'
    BY <1>1, Zenon DEF IInv, TypeOK, Calls, runVars
  <1>3. Walk'
    BY WalkStays DEF IInv
  <1> QED  BY <1>1, <1>2, <1>3 DEF IInv

(* A step of Run outside the walk. *)
LEMMA GotoIInv ==
    ASSUME IInv, UNCHANGED <<registryVars, boxVars, callVars, i, called>>,
           m_bIsReading' \in BOOLEAN, m_bIsWriting' \in BOOLEAN, m_bRunning' \in BOOLEAN,
           loopPc' \in Locations \ {"dispatch", "callback", "task"}
    PROVE  IInv'
  <1>1. RP!Consistent' /\ Registery!TypeOK' /\ RegistryFollowsRequests'
    BY RegistryStays DEF boxVars
  <1>2. TypeOK'
    <2>1. loopPc' \in Locations
      OBVIOUS
    <2> QED  BY <1>1, <2>1, Zenon DEF IInv, TypeOK, Locations, boxVars, callVars
  <1>3. Walk'
    BY DEF Walk
  <1> QED  BY <1>1, <1>2, <1>3 DEF IInv

LEMMA PopSuccessStep ==
    ASSUME IInv, PopSuccess
    PROVE  IInv'
  <1> DEFINE n == Len(received) + 1
             request == order[n]
  <1>1. /\ order \in Seq(Requests) /\ visible \subseteq 1 .. Len(order) /\ received \in Seq(Requests)
        /\ RP!Consistent /\ RegistryFollowsRequests
    BY Zenon DEF IInv, TypeOK
  <1>2. /\ n \in visible /\ received' = Append(received, request)
        /\ HandleSubscriptionRequest(request)
        /\ UNCHANGED <<order, visible, flagVars, i, called, callVars>> /\ loopPc' = "poll"
    BY DEF PopSuccess, Queue!Receive, Goto
  <1>3. request \in Requests
    BY <1>1, <1>2
  <1> HIDE DEF n, request
  <1>4. RP!Consistent' /\ RegistryFollowsRequests'
    BY <1>1, <1>2, <1>3, HandleStep, ApplyFollows
  <1>5. received' \in Seq(Requests)
    BY <1>1, <1>2, <1>3, AppendProperties
  <1>6. TypeOK'
    <2>1. Registery!TypeOK'
      BY <1>4, SameRegistryNext DEF RP!Consistent
    <2> QED  BY <1>2, <1>5, <2>1, Zenon DEF IInv, TypeOK, flagVars, callVars
  <1> QED  BY <1>2, <1>4, <1>6 DEF IInv, Walk

LEMMA PollStep ==
    ASSUME IInv, Poll
    PROVE  IInv'
  <1>1. PICK ready \in [FDs -> SUBSET Events] : Registery!Poll(ready)
    BY DEF Poll
  <1>2. /\ loopPc' = "dispatch" /\ i' = 0 /\ called' = <<>>
        /\ UNCHANGED <<boxVars, flagVars, callVars>>
    BY DEF Poll
  <1>3. RP!Poll(ready)
    BY <1>1 DEF RP!Poll, Registery!Poll
  <1>4. /\ RP!Consistent' /\ RP!Monitored' = RP!Monitored /\ m_mapCallBacks' = m_mapCallBacks
        /\ \A fd \in RP!Monitored : Polled(fd)' = Polled(fd)
    BY <1>3, RP!PollKeeps DEF IInv, RP!Poll, Polled
  <1>5. TypeOK'
    <2>1. Registery!TypeOK'
      BY <1>4, SameRegistryNext DEF RP!Consistent
    <2>2. called' \in Seq([fd : FDs, callback : Callbacks]) /\ i' \in Nat
      BY <1>2
    <2> QED  BY <1>2, <2>1, <2>2, Zenon DEF IInv, TypeOK, boxVars, flagVars, callVars
  <1>6. RegistryFollowsRequests'
    <2>1. \A fd : Standing(fd)' = Standing(fd)
      BY <1>2 DEF Standing, boxVars
    <2>2. received' = received
      BY <1>2 DEF boxVars
    <2>3. RP!Monitored = DOMAIN m_mapCallBacks
      BY SameRegistry DEF IInv
    <2> QED  BY <1>4, <2>1, <2>2, <2>3 DEF IInv, RegistryFollowsRequests, Polled
  <1>7. Walk'
    <2>1. Len(m_vecMonitoredFDs') \in Nat
      BY <1>4, LenProperties DEF RP!Consistent, RP!TypeOK
    <2>2. ReadyAmong(0)' = {}
      BY DEF ReadyAmong
    <2>3. CalledSoFar(0)'
      BY <1>2, <2>1, <2>2, FS_EmptySet DEF CalledSoFar
    <2> QED  BY <1>2, <2>3 DEF Walk, Walked
  <1> QED  BY <1>4, <1>5, <1>6, <1>7 DEF IInv

LEMMA VectorIsTyped ==
    ASSUME IInv
    PROVE  /\ Len(m_vecMonitoredFDs) \in Nat
           /\ DOMAIN m_vecMonitoredFDs = 1 .. Len(m_vecMonitoredFDs)
           /\ \A k \in 1 .. Len(m_vecMonitoredFDs) :
                  m_vecMonitoredFDs[k].fd \in DOMAIN m_mapCallBacks /\ CallbackOf(k) \in [fd : FDs, callback : Callbacks]
           /\ called \in Seq([fd : FDs, callback : Callbacks])
           /\ i \in Nat
  <1>1. /\ Len(m_vecMonitoredFDs) \in Nat
        /\ DOMAIN m_vecMonitoredFDs = 1 .. Len(m_vecMonitoredFDs)
        /\ \A k \in 1 .. Len(m_vecMonitoredFDs) : m_vecMonitoredFDs[k].fd \in DOMAIN m_mapCallBacks
    BY LenProperties DEF IInv, RP!Consistent, RP!TypeOK, RP!IndexMatchesVector, RP!CallbackIffPolled
  <1>2. DOMAIN m_mapCallBacks \subseteq FDs /\ m_mapCallBacks \in [DOMAIN m_mapCallBacks -> Callbacks]
    BY DEF IInv, RP!Consistent, RP!TypeOK
  <1>3. called \in Seq([fd : FDs, callback : Callbacks]) /\ i \in Nat
    BY Zenon DEF IInv, TypeOK
  <1> QED  BY <1>1, <1>2, <1>3 DEF CallbackOf

(* One more element, which is not ready. *)
LEMMA ReadyAmongSkips ==
    ASSUME NEW n \in Nat, m_vecMonitoredFDs[n + 1].revents = {}
    PROVE  ReadyAmong(n + 1) = ReadyAmong(n)
  <1>1. \A k \in 1 .. n + 1 : k \in 1 .. n \/ k = n + 1
    OBVIOUS
  <1>2. 1 .. n \subseteq 1 .. n + 1
    OBVIOUS
  <1> QED  BY <1>1, <1>2 DEF ReadyAmong

(* One more element, which is ready. *)
LEMMA ReadyAmongGrows ==
    ASSUME NEW n \in Nat, m_vecMonitoredFDs[n + 1].revents # {}
    PROVE  /\ ReadyAmong(n + 1) = ReadyAmong(n) \cup {n + 1}
           /\ Cardinality(ReadyAmong(n + 1)) = Cardinality(ReadyAmong(n)) + 1
  <1>1. \A k \in 1 .. n + 1 : k \in 1 .. n \/ k = n + 1
    OBVIOUS
  <1>2. 1 .. n \subseteq 1 .. n + 1 /\ n + 1 \in 1 .. n + 1 /\ n + 1 \notin 1 .. n
    OBVIOUS
  <1>3. ReadyAmong(n + 1) = ReadyAmong(n) \cup {n + 1} /\ n + 1 \notin ReadyAmong(n)
    BY <1>1, <1>2 DEF ReadyAmong
  <1>4. IsFiniteSet(ReadyAmong(n))
    <2>1. IsFiniteSet(1 .. n)
      BY FS_Interval
    <2>2. ReadyAmong(n) \subseteq 1 .. n
      BY DEF ReadyAmong
    <2> QED  BY <2>1, <2>2, FS_Subset
  <1> QED  BY <1>3, <1>4, FS_AddElement

LEMMA DispatchReadyStep ==
    ASSUME IInv, DispatchReady
    PROVE  IInv'
  <1> DEFINE entry == CallbackOf(i + 1)
  <1>1. /\ loopPc = "dispatch" /\ i < Len(m_vecMonitoredFDs)
        /\ m_vecMonitoredFDs[i + 1].revents # {}
        /\ called' = Append(called, entry)
        /\ loopPc' = "callback" /\ UNCHANGED <<i, boxVars, flagVars, registryVars, callVars>>
    BY DEF DispatchReady, At, MonitoredFD, CallbackOf
  <1>2. /\ called \in Seq([fd : FDs, callback : Callbacks]) /\ i \in Nat
        /\ i + 1 <= Len(m_vecMonitoredFDs) /\ entry \in [fd : FDs, callback : Callbacks]
    BY <1>1, VectorIsTyped
  <1>3. RP!Consistent' /\ Registery!TypeOK' /\ RegistryFollowsRequests'
    BY <1>1, RegistryStays DEF boxVars
  <1>4. TypeOK'
    <2>1. called' \in Seq([fd : FDs, callback : Callbacks])
      BY <1>1, <1>2, AppendProperties
    <2> QED  BY <1>1, <1>3, <2>1, Zenon DEF IInv, TypeOK, boxVars, flagVars, callVars
  <1>5. CalledSoFar(i)
    BY <1>1 DEF IInv, Walk, Walked
  <1>6. /\ ReadyAmong(i + 1) = ReadyAmong(i) \cup {i + 1}
        /\ Cardinality(ReadyAmong(i + 1)) = Cardinality(ReadyAmong(i)) + 1
    BY <1>1, <1>2, ReadyAmongGrows
  <1> HIDE DEF entry
  <1>7. /\ Len(called') = Len(called) + 1 /\ Len(called) \in Nat
        /\ DOMAIN called = 1 .. Len(called) /\ DOMAIN called' = 1 .. Len(called) + 1
        /\ \A k \in 1 .. Len(called) : called'[k] = called[k]
        /\ called'[Len(called) + 1] = entry
    BY <1>1, <1>2, AppendProperties, LenProperties
  <1>8. {called'[k] : k \in DOMAIN called'} = {called[k] : k \in DOMAIN called} \cup {entry}
    <2> DEFINE l == Len(called)
    <2>1. \A k \in 1 .. l + 1 : k \in 1 .. l \/ k = l + 1
      BY <1>7
    <2>2. 1 .. l \subseteq 1 .. l + 1 /\ l + 1 \in 1 .. l + 1
      BY <1>7
    <2> HIDE DEF l
    <2> QED  BY <1>7, <2>1, <2>2 DEF l
  <1>9. {CallbackOf(k) : k \in ReadyAmong(i + 1)} = {CallbackOf(k) : k \in ReadyAmong(i)} \cup {entry}
    BY <1>6 DEF entry
  <1>10. CalledSoFar(i + 1)'
    <2>1. /\ ReadyAmong(i + 1)' = ReadyAmong(i + 1)
          /\ \A k : CallbackOf(k)' = CallbackOf(k)
          /\ m_vecMonitoredFDs' = m_vecMonitoredFDs
      BY <1>1 DEF ReadyAmong, CallbackOf, registryVars
    <2>2. {CallbackOf(k)' : k \in ReadyAmong(i + 1)'} = {CallbackOf(k) : k \in ReadyAmong(i + 1)}
      BY <2>1
    <2>3. Len(called') = Cardinality(ReadyAmong(i + 1)')
      BY <1>5, <1>6, <1>7, <2>1 DEF CalledSoFar
    <2>4. {called'[k] : k \in DOMAIN called'} = {CallbackOf(k)' : k \in ReadyAmong(i + 1)'}
      BY <1>5, <1>8, <1>9, <2>2 DEF CalledSoFar
    <2>5. i' + 1 <= Len(m_vecMonitoredFDs')
      BY <1>1, <1>2, <2>1
    <2> QED  BY <2>3, <2>4, <2>5 DEF CalledSoFar
  <1>11. Walk'
    BY <1>1, <1>10 DEF Walk, Walked
  <1> QED  BY <1>3, <1>4, <1>11 DEF IInv

(* The walk goes on to the next element. *)
LEMMA NextElementStep ==
    ASSUME IInv, CalledSoFar(i + 1), i' = i + 1, loopPc' = "dispatch",
           UNCHANGED <<called, boxVars, flagVars, registryVars, callVars>>
    PROVE  IInv'
  <1>1. RP!Consistent' /\ Registery!TypeOK' /\ RegistryFollowsRequests'
    BY RegistryStays DEF boxVars
  <1>2. TypeOK'
    <2>1. i' \in Nat
      BY VectorIsTyped
    <2> QED  BY <1>1, <2>1, Zenon DEF IInv, TypeOK, boxVars, flagVars, callVars
  <1>3. Walk'
    BY Zenon DEF Walk, Walked, CalledSoFar, ReadyAmong, CallbackOf, registryVars
  <1> QED  BY <1>1, <1>2, <1>3 DEF IInv

LEMMA DispatchSkipStep ==
    ASSUME IInv, DispatchSkip
    PROVE  IInv'
  <1>1. /\ loopPc = "dispatch" /\ i < Len(m_vecMonitoredFDs)
        /\ m_vecMonitoredFDs[i + 1].revents = {} \/ m_vecMonitoredFDs[i + 1].fd \notin DOMAIN m_mapCallBacks
        /\ i' = i + 1 /\ UNCHANGED <<loopPc, called, boxVars, flagVars, registryVars, callVars>>
    BY DEF DispatchSkip, At, MonitoredFD
  <1>2. i + 1 \in 1 .. Len(m_vecMonitoredFDs) /\ i \in Nat
    BY <1>1, VectorIsTyped
  <1>3. m_vecMonitoredFDs[i + 1].revents = {}
    BY <1>1, <1>2, VectorIsTyped
  <1>4. CalledSoFar(i)
    BY <1>1 DEF IInv, Walk, Walked
  <1>5. CalledSoFar(i + 1)
    <2>1. ReadyAmong(i + 1) = ReadyAmong(i)
      BY <1>2, <1>3, ReadyAmongSkips
    <2>2. i + 1 <= Len(m_vecMonitoredFDs)
      BY <1>2, VectorIsTyped
    <2> QED  BY <1>4, <2>1, <2>2, Zenon DEF CalledSoFar
  <1> QED  BY <1>1, <1>5, NextElementStep

LEMMA CallbackReturnsStep ==
    ASSUME IInv, CallbackReturns
    PROVE  IInv'
  <1>1. /\ loopPc = "callback" /\ i' = i + 1 /\ loopPc' = "dispatch"
        /\ UNCHANGED <<called, boxVars, flagVars, registryVars, callVars>>
    BY DEF CallbackReturns, At
  <1>2. CalledSoFar(i + 1)
    BY <1>1 DEF IInv, Walk, Walked
  <1> QED  BY <1>1, <1>2, NextElementStep

LEMMA DispatchEndStep ==
    ASSUME IInv, DispatchEnd
    PROVE  IInv'
  <1>1. /\ loopPc = "dispatch" /\ i >= Len(m_vecMonitoredFDs) /\ loopPc' = "task"
        /\ UNCHANGED <<i, called, boxVars, flagVars, registryVars, callVars>>
    BY DEF DispatchEnd, At, Goto
  <1>2. CalledSoFar(i)
    BY <1>1 DEF IInv, Walk, Walked
  <1>3. i = Len(m_vecMonitoredFDs)
    BY <1>1, <1>2, VectorIsTyped DEF CalledSoFar
  <1>4. RP!Consistent' /\ Registery!TypeOK' /\ RegistryFollowsRequests'
    BY <1>1, RegistryStays DEF boxVars
  <1>5. TypeOK'
    BY <1>1, <1>4, Zenon DEF IInv, TypeOK, boxVars, flagVars, callVars
  <1>6. CalledSoFar(Len(m_vecMonitoredFDs))'
    BY <1>1, <1>2, <1>3, Zenon DEF CalledSoFar, ReadyAmong, CallbackOf, registryVars
  <1>7. Walk'
    BY <1>1, <1>6 DEF Walk, Walked
  <1> QED  BY <1>4, <1>5, <1>7 DEF IInv

LEMMA PushBeginStep ==
    ASSUME IInv, NEW t \in Threads, NEW request \in Requests, PushBegin(t, request)
    PROVE  IInv'
  <1>1. /\ order \in Seq(Requests) /\ visible \subseteq 1 .. Len(order)
        /\ call \in [Threads -> Calls] /\ place \in [Threads -> Nat]
        /\ m_bIsReading \in BOOLEAN /\ m_bIsWriting \in BOOLEAN /\ m_bRunning \in BOOLEAN
    BY Zenon DEF IInv, TypeOK, Calls
  <1>2. /\ order' = Append(order, request)
        /\ UNCHANGED <<visible, received, flagVars, registryVars, runVars>>
        /\ place' = [place EXCEPT ![t] = Len(order) + 1]
        /\ call' = [call EXCEPT ![t] = "push"]
    BY DEF PushBegin, Queue!TakePlace
  <1>3. order' \in Seq(Requests) /\ Len(order') = Len(order) + 1 /\ Len(order) \in Nat
    BY <1>1, <1>2, AppendProperties, LenProperties
  <1>4. visible' \subseteq 1 .. Len(order')
    BY <1>1, <1>2, <1>3
  <1>5. call' \in [Threads -> Calls] /\ place' \in [Threads -> Nat]
    BY <1>1, <1>2, <1>3 DEF Calls
  <1> QED  BY <1>1, <1>2, <1>3, <1>4, <1>5, CallStepIInv DEF flagVars

(* The rest of a call: the request is published or dropped, or Stop goes on. *)
LEMMA CallStepStep ==
    ASSUME IInv, NEW t \in Threads, StopReading(t) \/ CallStep(t)
    PROVE  IInv'
  <1>1. /\ order \in Seq(Requests) /\ visible \subseteq 1 .. Len(order)
        /\ call \in [Threads -> Calls] /\ place \in [Threads -> Nat]
        /\ m_bIsReading \in BOOLEAN /\ m_bIsWriting \in BOOLEAN /\ m_bRunning \in BOOLEAN
    BY Zenon DEF IInv, TypeOK, Calls
  <1>2. UNCHANGED <<registryVars, runVars, received, order>>
    BY DEF StopReading, CallStep, PushShow, PushReturns, PushGivesUp, StopWriting, StopRunning,
           Queue!Show, boxVars
  <1>3. visible' \subseteq 1 .. Len(order)
    BY <1>1 DEF StopReading, CallStep, PushShow, PushReturns, PushGivesUp, StopWriting, StopRunning,
                Queue!Show, boxVars
  <1>4. m_bIsReading' \in BOOLEAN /\ m_bIsWriting' \in BOOLEAN /\ m_bRunning' \in BOOLEAN
    BY <1>1, Zenon DEF StopReading, CallStep, PushShow, PushReturns, PushGivesUp, StopWriting,
                       StopRunning, flagVars
  <1>5. /\ \E next \in Calls : call' = [call EXCEPT ![t] = next]
        /\ place' = place \/ place' = [place EXCEPT ![t] = 0]
    BY DEF StopReading, CallStep, PushShow, PushReturns, PushGivesUp, StopWriting, StopRunning, Calls
  <1>6. call' \in [Threads -> Calls] /\ place' \in [Threads -> Nat]
    BY <1>1, <1>5
  <1> QED  BY <1>1, <1>2, <1>3, <1>4, <1>6, CallStepIInv

LEMMA StepIInv == IInv /\ [Next]_vars => IInv'
  <1> SUFFICES ASSUME IInv, [Next]_vars PROVE IInv'
    OBVIOUS
  <1>1. m_bIsReading \in BOOLEAN /\ m_bIsWriting \in BOOLEAN /\ m_bRunning \in BOOLEAN
    BY Zenon DEF IInv, TypeOK
  <1>2. ASSUME NEW t \in Threads, NEW request \in Requests, PushBegin(t, request) PROVE IInv'
    BY <1>2, PushBeginStep
  <1>3. ASSUME NEW t \in Threads, StopReading(t) \/ CallStep(t) PROVE IInv'
    BY <1>3, CallStepStep
  <1>4. CASE RunBegin \/ PopStopped \/ PollFails
    <2>1. /\ UNCHANGED <<registryVars, boxVars, callVars, i, called, m_bIsReading, m_bIsWriting>>
          /\ m_bRunning' \in BOOLEAN /\ loopPc' \in Locations \ {"dispatch", "callback", "task"}
      BY <1>4 DEF RunBegin, PopStopped, PollFails, Goto, Locations
    <2> QED  BY <1>1, <2>1, GotoIInv
  <1>5. CASE CheckRunning \/ PopLoadReading \/ PopEmpty \/ TaskReturns
    <2>1. /\ UNCHANGED <<registryVars, boxVars, callVars, i, called, flagVars>>
          /\ loopPc' \in Locations \ {"dispatch", "callback", "task"}
      BY <1>5 DEF CheckRunning, PopLoadReading, PopEmpty, TaskReturns, Goto, Locations
    <2> QED  BY <1>1, <2>1, GotoIInv DEF flagVars
  <1>6. CASE UNCHANGED vars
    <2>1. /\ order \in Seq(Requests) /\ visible \subseteq 1 .. Len(order)
          /\ call \in [Threads -> Calls] /\ place \in [Threads -> Nat]
      BY Zenon DEF IInv, TypeOK, Calls
    <2>2. UNCHANGED <<registryVars, runVars, order, visible, received, call, place,
                      m_bIsReading, m_bIsWriting, m_bRunning>>
      BY <1>6 DEF vars, boxVars, flagVars, callVars
    <2> QED  BY <1>1, <2>1, <2>2, CallStepIInv
  <1> QED
    BY <1>2, <1>3, <1>4, <1>5, <1>6, PopSuccessStep, PollStep, DispatchReadyStep, DispatchSkipStep,
       CallbackReturnsStep, DispatchEndStep
    DEF Next, RunStep

LEMMA AlwaysIInv == Spec => []IInv
  BY InitIInv, StepIInv, PTL DEF Spec
-----------------------------------------------------------------------------
(* The loop's variables keep their types, whatever is sent and whenever    *)
(* Stop is called (EventLoop.cpp).                                         *)
THEOREM TypeInvariant == Spec => []TypeOK
  BY AlwaysIInv, PTL DEF IInv

(* The registry is what the received requests say in their order, for any  *)
(* number of senders, requests and descriptors (HandleSubscriptionRequest).*)
THEOREM RegistryIsFollowing == Spec => []RegistryFollowsRequests
  BY AlwaysIInv, PTL DEF IInv

(* Run calls back each ready descriptor exactly once in an iteration,      *)
(* whatever the callbacks send and however many descriptors there are.     *)
THEOREM ReadyAreCalledOnce == Spec => []EachReadyCalledOnce
  <1>1. IInv => EachReadyCalledOnce
    <2> SUFFICES ASSUME IInv, loopPc = "task" PROVE EachReadyCalledOnce
      BY DEF EachReadyCalledOnce
    <2>1. CalledSoFar(Len(m_vecMonitoredFDs))
      BY DEF IInv, Walk, Walked
    <2>2. DOMAIN m_vecMonitoredFDs = 1 .. Len(m_vecMonitoredFDs)
      BY VectorIsTyped
    <2> QED  BY <2>1, <2>2 DEF EachReadyCalledOnce, CalledSoFar, ReadyAmong, CallbackOf
  <1> QED  BY <1>1, AlwaysIInv, PTL
=============================================================================
