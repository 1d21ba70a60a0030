-------------------------- MODULE ConnectionsProofs --------------------------
(***************************************************************************)
(* Proofs about the connections of a server, for any number of connections *)
(* and descriptor numbers: the kernel's table, the objects, the server's   *)
(* table and the registry stay in agreement however numbers are given out  *)
(* again while requests wait.                                              *)
(***************************************************************************)
EXTENDS Connections, SequenceTheorems, WellFoundedInduction, TLAPS

RP == INSTANCE EventLoopRegisteryProofs WITH Callbacks <- Owners

(* An object has no number before it exists, and it exists only for a      *)
(* connection.                                                             *)
UnbornIsNothing ==
    \A c \in Clients :
        /\ object[c] = "unborn" => m_iFD[c] = NoFD
        /\ object[c] # "unborn" => peer[c] # "none"

(* What the server's table has under a number has that number or none. *)
EntriesAreOld ==
    \A n \in DOMAIN connections :
        object[connections[n]] # "unborn" /\ m_iFD[connections[n]] \in {n, NoFD}

IInv ==
    /\ TypeOK
    /\ RP!Consistent
    /\ NumberIsOwn
    /\ OpenIsInTable
    /\ UnbornIsNothing
    /\ EntriesAreOld
    /\ RegistryCatchesUp

Request ==
    [op : {"subscribe"}, fd : FDs, owner : Owners] \cup [op : {"unsubscribe"}, fd : FDs \cup {NoFD}]

LEMMA NoFDIsNone == NoFD \notin FDs
  BY ConnectionsAssumption DEF NoFD

LEMMA MinIsIn ==
    ASSUME NEW S, S \subseteq Nat, S # {}
    PROVE  Min(S) \in S
  <1> DEFINE less == {p \in Nat \X Nat : p[1] < p[2]}
  <1>0. IsWellFoundedOn(less, Nat)
    BY NatLessThanWellFounded DEF OpToRel
  <1>a. \A m, n \in Nat : <<n, m>> \in less <=> n < m
    OBVIOUS
  <1> HIDE DEF less
  <1>1. PICK m \in S : \A n \in S : ~(<<n, m>> \in less)
    BY <1>0, WFMin
  <1>2. ASSUME NEW n \in S PROVE m <= n
    <2>1. n \in Nat /\ m \in Nat /\ <<n, m>> \notin less
      BY <1>1
    <2>2. ~(n < m)
      BY <2>1, <1>a
    <2> QED  BY <2>1, <2>2
  <1> QED  BY <1>2 DEF Min

LEMMA SameRegistry ==
    /\ RP!TypeOK <=> Registery!TypeOK
    /\ RP!Consistent => RP!TypeOK /\ RP!Monitored = DOMAIN m_mapCallBacks /\ RP!Monitored \subseteq FDs
    /\ RP!Consistent => DOMAIN m_mapMonitoredFDsIndex = DOMAIN m_mapCallBacks
  BY DEF RP!Consistent, RP!TypeOK, RP!CallbackIffPolled, Registery!TypeOK,
         RP!Monitored, Registery!Monitored, RP!PollFD, Registery!PollFD

LEMMA SameRegistryNext ==
    (RP!TypeOK <=> Registery!TypeOK)'
  BY DEF RP!TypeOK, Registery!TypeOK, RP!Monitored, Registery!Monitored, RP!PollFD, Registery!PollFD

(* A request that is applied keeps the registry consistent and changes the *)
(* callback of its own number only.                                        *)
LEMMA HandleStep ==
    ASSUME RP!Consistent, NEW request \in Request, Handle(request)
    PROVE  /\ RP!Consistent'
           /\ request.op = "subscribe" =>
                  /\ DOMAIN m_mapCallBacks' = DOMAIN m_mapCallBacks \cup {request.fd}
                  /\ m_mapCallBacks'[request.fd] = request.owner
           /\ request.op # "subscribe" =>
                  DOMAIN m_mapCallBacks' = DOMAIN m_mapCallBacks \ {request.fd}
           /\ \A n \in DOMAIN m_mapCallBacks :
                  n # request.fd => m_mapCallBacks'[n] = m_mapCallBacks[n]
  <1>1. CASE request.op = "subscribe"
    <2> DEFINE events == IF request.owner = Server THEN {"Read"} ELSE {"Read", "CLOSE"}
    <2>1. /\ request.fd \in FDs /\ request.owner \in Owners
          /\ events \in SUBSET Events
      BY <1>1 DEF Request, Events
    <2>2. Registery!Subscribe(request.fd, request.owner, events)
      BY <1>1 DEF Handle
    <2> HIDE DEF events
    <2>3. RP!Subscribe(request.fd, request.owner, events)
      BY <2>2, Zenon DEF RP!Subscribe, Registery!Subscribe, RP!Monitored, Registery!Monitored,
                         RP!Assign, Registery!Assign
    <2>4. RP!Consistent'
      BY <2>1, <2>3, RP!SubscribeAgain, RP!SubscribeNew
    <2>5. m_mapCallBacks' = [k \in DOMAIN m_mapCallBacks \cup {request.fd} |->
                                IF k = request.fd THEN request.owner ELSE m_mapCallBacks[k]]
      BY <2>2 DEF Registery!Subscribe, Registery!Assign
    <2> QED  BY <1>1, <2>4, <2>5
  <1>2. CASE request.op # "subscribe"
    <2>1. Registery!UnSubscribe(request.fd)
      BY <1>2 DEF Handle
    <2>2. CASE request.fd \in RP!Monitored
      <3>1. request.fd \in FDs
        BY <2>2, SameRegistry
      <3>2. RP!UnSubscribe(request.fd)
        BY <2>1, Zenon DEF RP!UnSubscribe, Registery!UnSubscribe, RP!Monitored, Registery!Monitored,
                           RP!Erase, Registery!Erase, RP!registryVars, Registery!registryVars
      <3>3. RP!Consistent'
        BY <2>2, <3>1, <3>2, RP!UnSubscribeMonitored
      <3>4. m_mapCallBacks' = [k \in DOMAIN m_mapCallBacks \ {request.fd} |-> m_mapCallBacks[k]]
        BY <2>1, <2>2 DEF Registery!UnSubscribe, Registery!Erase, Registery!Monitored, RP!Monitored
      <3> QED  BY <1>2, <3>3, <3>4
    <2>3. CASE request.fd \notin RP!Monitored
      <3>1. UNCHANGED registryVars
        BY <2>1, <2>3 DEF Registery!UnSubscribe, Registery!Monitored, RP!Monitored,
                          Registery!registryVars, registryVars
      <3>2. RP!Consistent'
        BY <3>1 DEF registryVars, RP!Consistent, RP!TypeOK, RP!IndexMatchesVector,
                    RP!CallbackIffPolled, RP!Monitored, RP!PollFD
      <3>3. m_mapCallBacks' = m_mapCallBacks /\ request.fd \notin DOMAIN m_mapCallBacks
        BY <3>1, <2>3, SameRegistry DEF registryVars
      <3> QED  BY <1>2, <3>2, <3>3
    <2> QED  BY <2>2, <2>3
  <1> QED  BY <1>1, <1>2

LEMMA InitIInv == Init => IInv
  <1> SUFFICES ASSUME Init PROVE IInv
    OBVIOUS
  <1> DEFINE m == Min(FDs)
  <1>1. m \in FDs /\ m \in Nat /\ m # NoFD /\ Server \notin Clients
    <2>1. FDs \subseteq Nat /\ FDs # {} /\ Server \notin Clients
      BY ConnectionsAssumption
    <2>2. m \in FDs
      BY <2>1, MinIsIn
    <2> QED  BY <2>1, <2>2, NoFDIsNone
  <1> HIDE DEF m
  <1>2. /\ sockets = [n \in {m} |-> Server]
        /\ peer = [c \in Clients |-> "none"]
        /\ m_iFD = [o \in Owners |-> IF o = Server THEN m ELSE NoFD]
        /\ object = [c \in Clients |-> "unborn"]
        /\ connections = [n \in {} |-> n]
        /\ m_oRequestQueue = <<SubScribeToEvent(m, Server)>>
        /\ loopPc = "pop" /\ i = 0 /\ exception = "none"
        /\ m_mapMonitoredFDsIndex = [fd \in {} |-> 0]
        /\ m_vecMonitoredFDs = <<>>
        /\ m_mapCallBacks = [fd \in {} |-> fd]
    BY DEF Init, m, Registery!Init
  <1>3. RP!Init
    BY <1>2 DEF RP!Init
  <1>4. RP!Consistent
    BY <1>3, RP!InitConsistent
  <1>5. \A c \in Clients : m_iFD[c] = NoFD
    BY <1>1, <1>2 DEF Owners
  <1>6. NumberIsOwn /\ OpenIsInTable /\ UnbornIsNothing /\ EntriesAreOld
    BY <1>2, <1>5 DEF NumberIsOwn, OpenIsInTable, UnbornIsNothing, EntriesAreOld
  <1>7. TypeOK
    <2>1. SubScribeToEvent(m, Server) \in Request
      BY <1>1 DEF SubScribeToEvent, Request, Owners
    <2>2. m_oRequestQueue \in Seq(Request)
      BY <1>2, <2>1
    <2>3. Registery!TypeOK
      BY <1>4, SameRegistry
    <2>4. sockets \in [DOMAIN sockets -> Owners] /\ DOMAIN sockets \subseteq FDs
      BY <1>1, <1>2 DEF Owners
    <2>5. m_iFD \in [Owners -> FDs \cup {NoFD}]
      BY <1>1, <1>2
    <2> QED  BY <1>2, <2>2, <2>3, <2>4, <2>5 DEF TypeOK, Request
  <1>8. RegistryCatchesUp
    <2>1. DOMAIN m_oRequestQueue = {1} /\ m_oRequestQueue[1] = SubScribeToEvent(m, Server)
      BY <1>2
    <2>2. DOMAIN sockets = {m} /\ sockets[m] = Server /\ DOMAIN m_mapCallBacks = {}
      BY <1>2
    <2>3. \A n : About(n) = IF n = m THEN {1} ELSE {}
      BY <2>1 DEF About, SubScribeToEvent
    <2> QED  BY <2>1, <2>2, <2>3 DEF RegistryCatchesUp, SubScribeToEvent
  <1> QED  BY <1>4, <1>6, <1>7, <1>8 DEF IInv

(* The queue, the callbacks and the kernel's table agree about a number.   *)
Agrees(n) ==
    /\ About(n) = {} =>
           /\ n \in DOMAIN m_mapCallBacks <=> n \in DOMAIN sockets
           /\ n \in DOMAIN sockets => m_mapCallBacks[n] = sockets[n]
    /\ \A k \in About(n) :
           (\A j \in About(n) : j <= k) =>
               IF m_oRequestQueue[k].op = "subscribe"
               THEN n \in DOMAIN sockets /\ sockets[n] = m_oRequestQueue[k].owner
               ELSE n \notin DOMAIN sockets

LEMMA CatchesUpIsAgrees ==
    /\ RegistryCatchesUp <=> \A n \in FDs : Agrees(n)
    /\ (RegistryCatchesUp <=> \A n \in FDs : Agrees(n))'
  BY DEF RegistryCatchesUp, Agrees

(* A request joins the queue. *)
LEMMA SendAgrees ==
    ASSUME m_oRequestQueue \in Seq(Request), NEW request \in Request, RegistryCatchesUp,
           m_oRequestQueue' = Append(m_oRequestQueue, request), UNCHANGED m_mapCallBacks,
           \A n \in FDs : n # request.fd =>
               /\ n \in DOMAIN sockets' <=> n \in DOMAIN sockets
               /\ n \in DOMAIN sockets => sockets'[n] = sockets[n],
           request.op = "subscribe" =>
               request.fd \in DOMAIN sockets' /\ sockets'[request.fd] = request.owner,
           request.op # "subscribe" => request.fd \notin DOMAIN sockets'
    PROVE  RegistryCatchesUp'
  <1> DEFINE l == Len(m_oRequestQueue)
  <1>1. /\ l \in Nat /\ DOMAIN m_oRequestQueue = 1 .. l /\ DOMAIN m_oRequestQueue' = 1 .. l + 1
        /\ \A k \in 1 .. l : m_oRequestQueue'[k] = m_oRequestQueue[k]
        /\ m_oRequestQueue'[l + 1] = request
    BY AppendProperties, LenProperties
  <1>2. \A k \in 1 .. l + 1 : k \in 1 .. l \/ k = l + 1
    BY <1>1
  <1> HIDE DEF l
  <1>3. ASSUME NEW n \in FDs, n # request.fd
        PROVE  Agrees(n)'
    <2>1. About(n)' = About(n)
      BY <1>1, <1>2, <1>3 DEF About
    <2>2. \A k \in About(n) : m_oRequestQueue'[k] = m_oRequestQueue[k]
      BY <1>1 DEF About
    <2>3. Agrees(n)
      BY CatchesUpIsAgrees
    <2> QED  BY <1>3, <2>1, <2>2, <2>3 DEF Agrees
  <1>4. ASSUME NEW n \in FDs, n = request.fd
        PROVE  Agrees(n)'
    <2>1. l + 1 \in About(n)'
      BY <1>1, <1>4 DEF About
    <2>2. \A k \in About(n)' : (\A j \in About(n)' : j <= k) => k = l + 1
      BY <1>1, <1>2, <2>1 DEF About
    <2> QED  BY <1>1, <1>4, <2>1, <2>2 DEF Agrees
  <1> QED  BY <1>3, <1>4, CatchesUpIsAgrees

(* The oldest request leaves the queue and is applied. *)
LEMMA ApplyAgrees ==
    ASSUME m_oRequestQueue \in Seq(Request), m_oRequestQueue # <<>>, RegistryCatchesUp, RP!Consistent,
           Handle(Head(m_oRequestQueue)), m_oRequestQueue' = Tail(m_oRequestQueue), UNCHANGED sockets
    PROVE  RegistryCatchesUp'
  <1> DEFINE l == Len(m_oRequestQueue)
  <1>1. /\ l \in Nat /\ DOMAIN m_oRequestQueue = 1 .. l /\ DOMAIN m_oRequestQueue' = 1 .. l - 1 /\ 1 <= l
        /\ \A k \in 1 .. l - 1 : m_oRequestQueue'[k] = m_oRequestQueue[k + 1]
    BY HeadTailProperties, LenProperties, EmptySeq
  <1> DEFINE first == m_oRequestQueue[1]
  <1>2. first \in Request /\ Handle(first)
    BY <1>1, ElementOfSeq
  <1> HIDE DEF l, first
  <1>3. /\ first.op = "subscribe" =>
               DOMAIN m_mapCallBacks' = DOMAIN m_mapCallBacks \cup {first.fd} /\ m_mapCallBacks'[first.fd] = first.owner
        /\ first.op # "subscribe" => DOMAIN m_mapCallBacks' = DOMAIN m_mapCallBacks \ {first.fd}
        /\ \A n \in DOMAIN m_mapCallBacks : n # first.fd => m_mapCallBacks'[n] = m_mapCallBacks[n]
    BY <1>2, HandleStep
  <1>4. ASSUME NEW n \in FDs
        PROVE  Agrees(n)'
    <2>1. Agrees(n)
      BY CatchesUpIsAgrees
    <2>2. \A k \in About(n)' : k + 1 \in About(n) /\ m_oRequestQueue'[k] = m_oRequestQueue[k + 1]
      BY <1>1 DEF About
    <2>3. \A k \in About(n) : k = 1 \/ (k - 1 \in About(n)' /\ k \in Nat)
      BY <1>1 DEF About
    <2>4. \A k \in About(n)' : k \in Nat /\ 1 <= k
      BY <1>1 DEF About
    <2>5. ASSUME NEW k \in About(n)', \A j \in About(n)' : j <= k
          PROVE  IF m_oRequestQueue'[k].op = "subscribe"
                 THEN n \in DOMAIN sockets' /\ sockets'[n] = m_oRequestQueue'[k].owner
                 ELSE n \notin DOMAIN sockets'
      <3>1. k + 1 \in About(n) /\ m_oRequestQueue'[k] = m_oRequestQueue[k + 1]
        BY <2>2
      <3>2. \A j \in About(n) : j <= k + 1
        BY <2>3, <2>4, <2>5
      <3> QED  BY <2>1, <3>1, <3>2 DEF Agrees
    <2>6. CASE About(n)' = {} /\ first.fd = n
      <3>1. 1 \in About(n) /\ \A j \in About(n) : j <= 1
        <4>1. 1 \in About(n)
          BY <1>1, <2>6 DEF About, first
        <4>2. \A j \in About(n) : j = 1
          BY <2>3, <2>6, Zenon
        <4> QED  BY <4>1, <4>2
      <3>2. IF first.op = "subscribe"
            THEN n \in DOMAIN sockets /\ sockets[n] = first.owner
            ELSE n \notin DOMAIN sockets
        BY <2>1, <3>1 DEF Agrees, first
      <3> QED  BY <1>3, <2>6, <3>2 DEF Agrees
    <2>7. CASE About(n)' = {} /\ first.fd # n
      <3>1. About(n) = {}
        BY <2>3, <2>7 DEF About, first
      <3>2. /\ n \in DOMAIN m_mapCallBacks <=> n \in DOMAIN sockets
            /\ n \in DOMAIN sockets => m_mapCallBacks[n] = sockets[n]
        BY <2>1, <3>1 DEF Agrees
      <3> QED  BY <1>3, <2>7, <3>2 DEF Agrees
    <2>8. CASE About(n)' # {}
      BY <2>5, <2>8 DEF Agrees
    <2> QED  BY <2>6, <2>7, <2>8
  <1> QED  BY <1>4, CatchesUpIsAgrees
-----------------------------------------------------------------------------
LEMMA RegistryUnchanged ==
    ASSUME RP!Consistent, UNCHANGED registryVars
    PROVE  RP!Consistent' /\ Registery!TypeOK'
  <1>1. RP!Consistent'
    BY DEF registryVars, RP!Consistent, RP!TypeOK, RP!IndexMatchesVector, RP!CallbackIffPolled,
           RP!Monitored, RP!PollFD
  <1> QED  BY <1>1, SameRegistryNext DEF RP!Consistent

(* Neither the sockets nor the registry change. *)
LEMMA SocketsUnchanged ==
    ASSUME IInv, UNCHANGED <<socketVars, registryVars>>,
           peer' \in [Clients -> {"none", "quiet", "data", "hangup"}],
           \A c \in Clients : peer[c] # "none" => peer'[c] # "none",
           loopPc' \in {"pop", "poll", "dispatch"}, i' \in Nat,
           exception' \in {"none", "accept", "read", "write", "destroyed"}
    PROVE  IInv'
  <1>1. RP!Consistent' /\ Registery!TypeOK'
    BY RegistryUnchanged DEF IInv
  <1>2. TypeOK'
    BY <1>1, Zenon DEF IInv, TypeOK, socketVars
  <1>3. NumberIsOwn' /\ OpenIsInTable' /\ UnbornIsNothing' /\ EntriesAreOld'
    BY DEF IInv, NumberIsOwn, OpenIsInTable, UnbornIsNothing, EntriesAreOld, socketVars
  <1>4. RegistryCatchesUp'
    BY DEF IInv, RegistryCatchesUp, About, socketVars, registryVars
  <1> QED  BY <1>1, <1>2, <1>3, <1>4 DEF IInv

LEMMA CloseStep ==
    ASSUME IInv, NEW c \in Clients, Close(c), UNCHANGED <<peer, registryVars, exception>>,
           loopPc' \in {"pop", "poll", "dispatch"}, i' \in Nat
    PROVE  IInv'
  <1>1. /\ sockets \in [DOMAIN sockets -> Owners] /\ DOMAIN sockets \subseteq FDs
        /\ m_iFD \in [Owners -> FDs \cup {NoFD}]
        /\ m_oRequestQueue \in Seq(Request)
        /\ peer \in [Clients -> {"none", "quiet", "data", "hangup"}]
        /\ exception \in {"none", "accept", "read", "write", "destroyed"}
    BY Zenon DEF IInv, TypeOK, Request
  <1>2. c \in Owners /\ c # Server
    BY ConnectionsAssumption DEF Owners
  <1>3. CASE m_iFD[c] = NoFD
    <2>1. UNCHANGED <<socketVars, registryVars>>
      BY <1>3 DEF Close
    <2> QED  BY <1>1, <2>1, SocketsUnchanged
  <1>4. CASE m_iFD[c] # NoFD
    <2> DEFINE fd == m_iFD[c]
               request == UnRegisterFromAllEvents(fd)
    <2>1. /\ m_oRequestQueue' = Append(m_oRequestQueue, request)
          /\ sockets' = [n \in DOMAIN sockets \ {fd} |-> sockets[n]]
          /\ m_iFD' = [m_iFD EXCEPT ![c] = NoFD]
          /\ object' = object /\ connections' = connections
      BY <1>4 DEF Close
    <2>2. fd \in DOMAIN sockets /\ sockets[fd] = c /\ fd \in FDs
      BY <1>1, <1>4 DEF IInv, NumberIsOwn
    <2>3. \A o \in Owners : m_iFD'[o] = IF o = c THEN NoFD ELSE m_iFD[o]
      BY <1>1, <2>1
    <2>4. /\ request \in Request /\ request.op # "subscribe" /\ request.fd = fd
      BY <2>2 DEF UnRegisterFromAllEvents, Request
    <2> HIDE DEF fd, request
    <2>5. /\ DOMAIN sockets' = DOMAIN sockets \ {fd}
          /\ \A n \in DOMAIN sockets' : sockets'[n] = sockets[n]
      BY <2>1
    <2>6. RP!Consistent' /\ Registery!TypeOK'
      BY RegistryUnchanged DEF IInv
    <2>7. TypeOK'
      <3>1. m_iFD' \in [Owners -> FDs \cup {NoFD}]
        BY <1>1, <2>1
      <3>2. sockets' \in [DOMAIN sockets' -> Owners] /\ DOMAIN sockets' \subseteq FDs
        BY <1>1, <2>1
      <3>3. m_oRequestQueue' \in Seq(Request)
        BY <1>1, <2>1, <2>4, AppendProperties
      <3> QED  BY <2>1, <2>6, <3>1, <3>2, <3>3, Zenon DEF IInv, TypeOK, Request
    <2>8. NumberIsOwn'
      <3>1. ASSUME NEW d \in Clients, m_iFD'[d] # NoFD
            PROVE  m_iFD'[d] \in DOMAIN sockets' /\ sockets'[m_iFD'[d]] = d
        <4>1. d # c /\ m_iFD'[d] = m_iFD[d] /\ m_iFD[d] # NoFD
          BY <2>3, <3>1 DEF Owners
        <4>2. m_iFD[d] \in DOMAIN sockets /\ sockets[m_iFD[d]] = d
          BY <4>1 DEF IInv, NumberIsOwn
        <4> QED  BY <2>2, <2>5, <4>1, <4>2
      <3>2. ASSUME NEW n \in DOMAIN sockets', sockets'[n] # Server
            PROVE  m_iFD'[sockets'[n]] = n
        <4>1. n \in DOMAIN sockets /\ n # fd /\ sockets'[n] = sockets[n] /\ sockets[n] \in Owners
          BY <1>1, <2>5
        <4>2. m_iFD[sockets[n]] = n
          BY <3>2, <4>1 DEF IInv, NumberIsOwn
        <4>3. sockets[n] # c
          BY <4>1, <4>2 DEF fd
        <4> QED  BY <2>3, <4>1, <4>2, <4>3
      <3> QED  BY <3>1, <3>2 DEF NumberIsOwn
    <2>9. OpenIsInTable' /\ UnbornIsNothing' /\ EntriesAreOld'
      <3>1. \A d \in Clients : m_iFD'[d] = m_iFD[d] \/ m_iFD'[d] = NoFD
        BY <2>3 DEF Owners
      <3>2. \A n \in DOMAIN connections : connections[n] \in Clients
        BY DEF IInv, TypeOK
      <3> QED  BY <2>1, <3>1, <3>2 DEF IInv, OpenIsInTable, UnbornIsNothing, EntriesAreOld
    <2>10. RegistryCatchesUp'
      <3>1. \A n \in FDs : n # request.fd =>
                /\ n \in DOMAIN sockets' <=> n \in DOMAIN sockets
                /\ n \in DOMAIN sockets => sockets'[n] = sockets[n]
        BY <2>4, <2>5
      <3>2. request.fd \notin DOMAIN sockets' /\ UNCHANGED m_mapCallBacks
        BY <2>4, <2>5 DEF registryVars
      <3> QED  BY <1>1, <2>1, <2>4, <3>1, <3>2, SendAgrees DEF IInv
    <2> QED  BY <2>6, <2>7, <2>8, <2>9, <2>10 DEF IInv
  <1> QED  BY <1>3, <1>4

LEMMA ServerClosesStep ==
    ASSUME IInv, ServerCloses
    PROVE  IInv'
  <1>1. /\ m_iFD \in [Owners -> FDs \cup {NoFD}]
        /\ m_oRequestQueue \in Seq(Request)
        /\ sockets \in [DOMAIN sockets -> Owners] /\ DOMAIN sockets \subseteq FDs
        /\ connections \in [DOMAIN connections -> Clients]
    BY Zenon DEF IInv, TypeOK, Request
  <1> DEFINE request == UnRegisterFromAllEvents(NoFD)
  <1>2. /\ m_iFD' = [m_iFD EXCEPT ![Server] = NoFD]
        /\ m_oRequestQueue' = Append(m_oRequestQueue, request)
        /\ UNCHANGED <<sockets, object, connections, peer, registryVars, loopPc, i, exception>>
    BY DEF ServerCloses
  <1>3. request \in Request /\ request.op # "subscribe" /\ request.fd = NoFD
    BY DEF UnRegisterFromAllEvents, Request
  <1> HIDE DEF request
  <1>4. \A o \in Owners : o # Server => m_iFD'[o] = m_iFD[o]
    BY <1>1, <1>2
  <1>5. \A c \in Clients : c \in Owners /\ c # Server
    BY ConnectionsAssumption DEF Owners
  <1>6. RP!Consistent' /\ Registery!TypeOK'
    BY <1>2, RegistryUnchanged DEF IInv
  <1>7. TypeOK'
    <2>1. m_iFD' \in [Owners -> FDs \cup {NoFD}]
      BY <1>1, <1>2
    <2>2. m_oRequestQueue' \in Seq(Request)
      BY <1>1, <1>2, <1>3, AppendProperties
    <2> QED  BY <1>2, <1>6, <2>1, <2>2, Zenon DEF IInv, TypeOK, Request
  <1>8. NumberIsOwn'
    <2>1. \A n \in DOMAIN sockets : sockets[n] # Server => m_iFD'[sockets[n]] = m_iFD[sockets[n]]
      BY <1>1, <1>4
    <2> QED  BY <1>2, <1>4, <1>5, <2>1 DEF IInv, NumberIsOwn
  <1>9. OpenIsInTable' /\ UnbornIsNothing' /\ EntriesAreOld'
    <2>1. \A n \in DOMAIN connections : connections[n] \in Clients
      BY <1>1
    <2> QED  BY <1>2, <1>4, <1>5, <2>1 DEF IInv, OpenIsInTable, UnbornIsNothing, EntriesAreOld
  <1>10. RegistryCatchesUp'
    <2>1. request.fd \notin DOMAIN sockets' /\ UNCHANGED m_mapCallBacks
      BY <1>1, <1>2, <1>3, NoFDIsNone DEF registryVars
    <2> QED  BY <1>1, <1>2, <1>3, <2>1, SendAgrees DEF IInv
  <1> QED  BY <1>6, <1>7, <1>8, <1>9, <1>10 DEF IInv

LEMMA OnAcceptStep ==
    ASSUME IInv, NEW c \in Clients, OnAccept(c)
    PROVE  IInv'
  <1> DEFINE fd == Min(FDs \ DOMAIN sockets)
             request == SubScribeToEvent(fd, c)
  <1>1. /\ m_iFD \in [Owners -> FDs \cup {NoFD}]
        /\ m_oRequestQueue \in Seq(Request)
        /\ sockets \in [DOMAIN sockets -> Owners] /\ DOMAIN sockets \subseteq FDs
        /\ connections \in [DOMAIN connections -> Clients] /\ DOMAIN connections \subseteq FDs
        /\ object \in [Clients -> {"unborn", "alive", "destroyed"}]
        /\ loopPc \in {"pop", "poll", "dispatch"} /\ i \in Nat
    BY Zenon DEF IInv, TypeOK, Request
  <1>2. fd \in FDs /\ fd \notin DOMAIN sockets /\ fd # NoFD
    <2>1. FDs \ DOMAIN sockets # {}
      BY Zenon DEF OnAccept
    <2>2. fd \in FDs \ DOMAIN sockets
      BY <2>1, MinIsIn, ConnectionsAssumption
    <2> QED  BY <2>2, NoFDIsNone
  <1>3. /\ sockets' = [n \in DOMAIN sockets \cup {fd} |-> IF n = fd THEN c ELSE sockets[n]]
        /\ m_iFD' = [m_iFD EXCEPT ![c] = fd]
        /\ m_oRequestQueue' = Append(m_oRequestQueue, request)
        /\ IF KeyedByDescriptor
           THEN /\ connections' = [n \in DOMAIN connections \cup {fd} |->
                                     IF n = fd THEN c ELSE connections[n]]
                /\ object' = [o \in Clients |->
                                 IF o = c THEN "alive"
                                 ELSE IF fd \in DOMAIN connections /\ o = connections[fd]
                                 THEN "destroyed" ELSE object[o]]
           ELSE /\ object' = [object EXCEPT ![c] = "alive"]
                /\ UNCHANGED connections
        /\ i' = i + 1
        /\ UNCHANGED <<registryVars, loopPc, peer, exception>>
    BY Zenon DEF OnAccept, NextElement, PutInTable
  <1>4. peer[c] # "none" /\ object[c] = "unborn" /\ m_iFD[c] = NoFD
    BY DEF OnAccept, Waiting, IInv, UnbornIsNothing
  <1>5. request \in Request /\ request.op = "subscribe" /\ request.fd = fd /\ request.owner = c
    BY <1>2 DEF SubScribeToEvent, Request, Owners
  <1>6. RP!Consistent' /\ Registery!TypeOK'
    BY <1>3, RegistryUnchanged DEF IInv
  <1> HIDE DEF fd, request
  <1>7. /\ DOMAIN sockets' = DOMAIN sockets \cup {fd} /\ sockets'[fd] = c
        /\ \A n \in DOMAIN sockets : sockets'[n] = sockets[n]
    BY <1>2, <1>3
  <1>8. c \in Owners /\ c # Server /\ \A d \in Clients : d \in Owners
    BY ConnectionsAssumption DEF Owners
  <1>9. m_iFD'[c] = fd /\ \A o \in Owners : o # c => m_iFD'[o] = m_iFD[o]
    BY <1>1, <1>3, <1>8
  (* What the table had under the number has none. *)
  <1>10. \A d \in Clients : m_iFD[d] # NoFD =>
             /\ m_iFD[d] \in DOMAIN sockets /\ m_iFD[d] # fd
             /\ (KeyedByDescriptor /\ fd \in DOMAIN connections) => connections[fd] # d
    <2>1. \A d \in Clients : m_iFD[d] # NoFD => m_iFD[d] \in DOMAIN sockets
      BY DEF IInv, NumberIsOwn
    <2>2. fd \in DOMAIN connections => m_iFD[connections[fd]] \in {fd, NoFD}
      BY DEF IInv, EntriesAreOld
    <2> QED  BY <1>2, <2>1, <2>2
  <1>11. /\ object' \in [Clients -> {"unborn", "alive", "destroyed"}]
         /\ object'[c] = "alive"
         /\ \A d \in Clients : d # c =>
                /\ object'[d] \in {object[d], "destroyed"}
                /\ m_iFD[d] # NoFD => object'[d] = object[d]
         /\ \A d \in Clients : object[d] # "unborn" => object'[d] # "unborn"
         /\ \A d \in Clients : object'[d] = "destroyed" =>
                object[d] # "unborn"
    <2>1. CASE KeyedByDescriptor
      <3>1. object' = [o \in Clients |->
                         IF o = c THEN "alive"
                         ELSE IF fd \in DOMAIN connections /\ o = connections[fd]
                         THEN "destroyed" ELSE object[o]]
        BY <2>1, <1>3
      <3>2. fd \in DOMAIN connections => object[connections[fd]] # "unborn"
        BY DEF IInv, EntriesAreOld
      <3> QED  BY <1>1, <1>4, <1>10, <2>1, <3>1, <3>2
    <2>2. CASE ~KeyedByDescriptor
      BY <1>1, <1>3, <1>4, <2>2
    <2> QED  BY <2>1, <2>2
  <1>12. TypeOK'
    <2>1. m_iFD' \in [Owners -> FDs \cup {NoFD}]
      BY <1>1, <1>2, <1>3
    <2>2. m_oRequestQueue' \in Seq(Request)
      BY <1>1, <1>3, <1>5, AppendProperties
    <2>3. sockets' \in [DOMAIN sockets' -> Owners] /\ DOMAIN sockets' \subseteq FDs
      BY <1>1, <1>2, <1>3, <1>8
    <2>4. connections' \in [DOMAIN connections' -> Clients] /\ DOMAIN connections' \subseteq FDs
      <3>1. CASE KeyedByDescriptor
        BY <1>1, <1>2, <1>3, <3>1
      <3>2. CASE ~KeyedByDescriptor
        BY <1>1, <1>3, <3>2
      <3> QED  BY <3>1, <3>2
    <2>5. i' \in Nat
      BY <1>1, <1>3
    <2> QED  BY <1>3, <1>6, <1>11, <2>1, <2>2, <2>3, <2>4, <2>5, Zenon DEF IInv, TypeOK, Request
  <1>13. NumberIsOwn'
    <2>1. ASSUME NEW d \in Clients, m_iFD'[d] # NoFD
          PROVE  m_iFD'[d] \in DOMAIN sockets' /\ sockets'[m_iFD'[d]] = d
      <3>1. CASE d = c
        BY <1>7, <1>9, <3>1
      <3>2. CASE d # c
        <4>1. m_iFD'[d] = m_iFD[d] /\ m_iFD[d] # NoFD
          BY <1>8, <1>9, <2>1, <3>2
        <4>2. m_iFD[d] \in DOMAIN sockets /\ sockets[m_iFD[d]] = d
          BY <4>1 DEF IInv, NumberIsOwn
        <4> QED  BY <1>7, <4>1, <4>2
      <3> QED  BY <3>1, <3>2
    <2>2. ASSUME NEW n \in DOMAIN sockets', sockets'[n] # Server
          PROVE  m_iFD'[sockets'[n]] = n
      <3>1. CASE n = fd
        BY <1>7, <1>9, <3>1
      <3>2. CASE n # fd
        <4>1. n \in DOMAIN sockets /\ sockets'[n] = sockets[n] /\ sockets[n] \in Owners
          BY <1>1, <1>7, <3>2
        <4>2. m_iFD[sockets[n]] = n
          BY <2>2, <4>1 DEF IInv, NumberIsOwn
        <4>3. sockets[n] # c
          BY <1>1, <1>2, <1>4, <4>1, <4>2, NoFDIsNone
        <4> QED  BY <1>9, <4>1, <4>2, <4>3
      <3> QED  BY <3>1, <3>2
    <2> QED  BY <2>1, <2>2 DEF NumberIsOwn
  <1>14. OpenIsInTable'
    <2> SUFFICES ASSUME KeyedByDescriptor, NEW d \in Clients, m_iFD'[d] # NoFD
                 PROVE  /\ object'[d] = "alive"
                        /\ m_iFD'[d] \in DOMAIN connections'
                        /\ connections'[m_iFD'[d]] = d
      BY DEF OpenIsInTable
    <2>1. /\ DOMAIN connections' = DOMAIN connections \cup {fd} /\ connections'[fd] = c
          /\ \A n \in DOMAIN connections : n # fd => connections'[n] = connections[n]
      BY <1>3
    <2>2. CASE d = c
      BY <1>9, <1>11, <2>1, <2>2
    <2>3. CASE d # c
      <3>1. m_iFD'[d] = m_iFD[d] /\ m_iFD[d] # NoFD /\ m_iFD[d] # fd
        BY <1>8, <1>9, <1>10, <2>3
      <3>2. object[d] = "alive" /\ m_iFD[d] \in DOMAIN connections /\ connections[m_iFD[d]] = d
        BY <3>1 DEF IInv, OpenIsInTable
      <3> QED  BY <1>11, <2>1, <2>3, <3>1, <3>2
    <2> QED  BY <2>2, <2>3
  <1>15. UnbornIsNothing'
    <2> SUFFICES ASSUME NEW d \in Clients
                 PROVE  /\ object'[d] = "unborn" => m_iFD'[d] = NoFD
                        /\ object'[d] # "unborn" => peer'[d] # "none"
      BY DEF UnbornIsNothing
    <2>1. CASE d = c
      BY <1>3, <1>4, <1>11, <2>1
    <2>2. CASE d # c
      <3>1. /\ object[d] = "unborn" => m_iFD[d] = NoFD
            /\ object[d] # "unborn" => peer[d] # "none"
        BY DEF IInv, UnbornIsNothing
      <3>2. m_iFD'[d] = m_iFD[d] /\ peer'[d] = peer[d]
        BY <1>3, <1>8, <1>9, <2>2
      <3>3. object'[d] = object[d] \/ (object'[d] = "destroyed" /\ object[d] # "unborn")
        BY <1>11, <2>2
      <3> QED  BY <3>1, <3>2, <3>3
    <2> QED  BY <2>1, <2>2
  <1>16. EntriesAreOld'
    <2> SUFFICES ASSUME NEW n \in DOMAIN connections'
                 PROVE  object'[connections'[n]] # "unborn" /\ m_iFD'[connections'[n]] \in {n, NoFD}
      BY DEF EntriesAreOld
    <2>1. \/ connections'[n] = c /\ n = fd
          \/ n \in DOMAIN connections /\ connections'[n] = connections[n]
      <3>1. CASE KeyedByDescriptor
        BY <1>3, <3>1
      <3>2. CASE ~KeyedByDescriptor
        BY <1>3, <3>2
      <3> QED  BY <3>1, <3>2
    <2>2. CASE connections'[n] = c /\ n = fd
      BY <1>9, <1>11, <2>2
    <2>3. CASE n \in DOMAIN connections /\ connections'[n] = connections[n]
      <3>1. object[connections[n]] # "unborn" /\ m_iFD[connections[n]] \in {n, NoFD}
        BY <2>3 DEF IInv, EntriesAreOld
      <3>2. connections[n] \in Clients /\ connections[n] # c
        BY <1>1, <1>4, <2>3, <3>1
      <3> QED  BY <1>8, <1>9, <1>11, <2>3, <3>1, <3>2
    <2> QED  BY <2>1, <2>2, <2>3
  <1>17. RegistryCatchesUp'
    <2>1. \A n \in FDs : n # request.fd =>
              /\ n \in DOMAIN sockets' <=> n \in DOMAIN sockets
              /\ n \in DOMAIN sockets => sockets'[n] = sockets[n]
      BY <1>5, <1>7
    <2>2. request.fd \in DOMAIN sockets' /\ sockets'[request.fd] = request.owner
      BY <1>5, <1>7
    <2>3. RegistryCatchesUp /\ UNCHANGED m_mapCallBacks
      BY <1>3 DEF IInv, registryVars
    <2> QED  BY <1>1, <1>3, <1>5, <2>1, <2>2, <2>3, SendAgrees
  <1> QED  BY <1>6, <1>12, <1>13, <1>14, <1>15, <1>16, <1>17 DEF IInv

LEMMA PopSuccessStep ==
    ASSUME IInv, PopSuccess
    PROVE  IInv'
  <1>1. /\ m_oRequestQueue \in Seq(Request) /\ m_oRequestQueue # <<>>
        /\ Handle(Head(m_oRequestQueue))
        /\ m_oRequestQueue' = Tail(m_oRequestQueue)
        /\ loopPc' = "poll"
        /\ UNCHANGED <<sockets, m_iFD, object, connections, peer, i, exception>>
    BY Zenon DEF IInv, TypeOK, Request, PopSuccess
  <1>2. Head(m_oRequestQueue) \in Request /\ Tail(m_oRequestQueue) \in Seq(Request)
    BY <1>1, HeadTailProperties
  <1>3. RP!Consistent'
    BY <1>1, <1>2, HandleStep DEF IInv
  <1>4. TypeOK'
    <2>1. Registery!TypeOK'
      BY <1>3, SameRegistryNext DEF RP!Consistent
    <2> QED  BY <1>1, <1>2, <2>1, Zenon DEF IInv, TypeOK, Request
  <1>5. NumberIsOwn' /\ OpenIsInTable' /\ UnbornIsNothing' /\ EntriesAreOld'
    BY <1>1 DEF IInv, NumberIsOwn, OpenIsInTable, UnbornIsNothing, EntriesAreOld
  <1>6. RegistryCatchesUp'
    BY <1>1, ApplyAgrees DEF IInv
  <1> QED  BY <1>3, <1>4, <1>5, <1>6 DEF IInv

LEMMA PollStep ==
    ASSUME IInv, Poll
    PROVE  IInv'
  <1> DEFINE ready == [fd \in FDs |-> Ready(fd)]
  <1>1. ready \in [FDs -> SUBSET Events]
    <2> SUFFICES ASSUME NEW fd \in FDs PROVE Ready(fd) \in SUBSET Events
      OBVIOUS
    <2>1. CASE fd \notin DOMAIN sockets \/ sockets[fd] = Server
      BY <2>1 DEF Ready, Events
    <2>2. CASE fd \in DOMAIN sockets /\ sockets[fd] # Server
      <3>1. sockets[fd] \in Clients /\ m_iFD[sockets[fd]] = fd
        BY <2>2, Zenon DEF IInv, TypeOK, NumberIsOwn, Owners
      <3>2. peer[sockets[fd]] \in {"quiet", "data", "hangup"}
        BY <3>1, NoFDIsNone DEF IInv, TypeOK, UnbornIsNothing
      <3> QED  BY <2>2, <3>2 DEF Ready, Events
    <2> QED  BY <2>1, <2>2
  <1>2. /\ Registery!Poll(ready) /\ loopPc' = "dispatch" /\ i' = 0
        /\ UNCHANGED <<socketVars, peer, exception>>
    BY DEF Poll
  <1> HIDE DEF ready
  <1>3. RP!Consistent' /\ UNCHANGED m_mapCallBacks
    <2>1. RP!Poll(ready)
      BY <1>2 DEF RP!Poll, Registery!Poll
    <2> QED  BY <1>1, <2>1, RP!PollKeeps DEF IInv, RP!Poll
  <1>4. TypeOK'
    <2>1. Registery!TypeOK'
      BY <1>3, SameRegistryNext DEF RP!Consistent
    <2>2. i' \in Nat
      BY <1>2
    <2> QED  BY <1>2, <2>1, <2>2, Zenon DEF IInv, TypeOK, socketVars
  <1>5. NumberIsOwn' /\ OpenIsInTable' /\ UnbornIsNothing' /\ EntriesAreOld'
    BY <1>2 DEF IInv, NumberIsOwn, OpenIsInTable, UnbornIsNothing, EntriesAreOld, socketVars
  <1>6. RegistryCatchesUp'
    BY <1>2, <1>3 DEF IInv, RegistryCatchesUp, About, socketVars
  <1> QED  BY <1>3, <1>4, <1>5, <1>6 DEF IInv

LEMMA StepIInv == IInv /\ [Next]_vars => IInv'
  <1> SUFFICES ASSUME IInv, [Next]_vars PROVE IInv'
    OBVIOUS
  <1>1. /\ peer \in [Clients -> {"none", "quiet", "data", "hangup"}]
        /\ loopPc \in {"pop", "poll", "dispatch"} /\ i \in Nat
        /\ exception \in {"none", "accept", "read", "write", "destroyed"}
    BY Zenon DEF IInv, TypeOK
  <1>2. i + 1 \in Nat
    BY <1>1
  <1>3. CASE PopSuccess
    BY <1>3, PopSuccessStep
  <1>4. CASE Poll
    BY <1>4, PollStep
  <1>5. ASSUME NEW c \in Clients, OnAccept(c) PROVE IInv'
    BY <1>5, OnAcceptStep
  <1>6. CASE ServerCloses
    BY <1>6, ServerClosesStep
  <1>7. ASSUME NEW c \in Clients, HandleClose(c) PROVE IInv'
    BY <1>1, <1>2, <1>7, CloseStep DEF HandleClose, NextElement
  <1>8. ASSUME NEW c \in Clients, ApplicationCloses(c) PROVE IInv'
    BY <1>1, <1>8, CloseStep DEF ApplicationCloses
  <1>9. ASSUME NEW c \in Clients, HandleReadEvent(c) PROVE IInv'
    <2>1. /\ peer' = [peer EXCEPT ![c] = IF @ = "data" THEN "quiet" ELSE @]
          /\ i' = i + 1 /\ UNCHANGED <<socketVars, registryVars, loopPc, exception>>
      BY <1>9 DEF HandleReadEvent, NextElement
    <2>2. /\ peer' \in [Clients -> {"none", "quiet", "data", "hangup"}]
          /\ \A d \in Clients : peer[d] # "none" => peer'[d] # "none"
      BY <1>1, <2>1
    <2> QED  BY <1>1, <1>2, <2>1, <2>2, SocketsUnchanged
  <1>10. CASE PopEmpty \/ DispatchEnd \/ DispatchSkip \/ HandleNothing
    <2>1. /\ UNCHANGED <<socketVars, registryVars, peer, exception>>
          /\ loopPc' \in {"pop", "poll", "dispatch"} /\ i' \in {i, i + 1}
      BY <1>1, <1>10 DEF PopEmpty, DispatchEnd, DispatchSkip, HandleNothing, NextElement
    <2> QED  BY <1>1, <1>2, <2>1, SocketsUnchanged
  <1>11. ASSUME OnAcceptFails \/ BroadcastFails \/ \E c \in Clients : HandleReadFails(c) \/ HandleDestroyed(c)
         PROVE  IInv'
    <2>1. /\ UNCHANGED <<socketVars, registryVars, peer, loopPc, i>>
          /\ exception' \in {"accept", "read", "write", "destroyed"}
      BY <1>11 DEF OnAcceptFails, BroadcastFails, HandleReadFails, HandleDestroyed, Fails
    <2> QED  BY <1>1, <2>1, SocketsUnchanged
  <1>12. ASSUME NEW c \in Clients, PeerConnects(c) \/ PeerSends(c) \/ PeerHangsUp(c)
         PROVE  IInv'
    <2>1. /\ \E to \in {"quiet", "data", "hangup"} : peer' = [peer EXCEPT ![c] = to]
          /\ UNCHANGED <<socketVars, registryVars, loopPc, i, exception>>
      BY <1>12 DEF PeerConnects, PeerSends, PeerHangsUp
    <2>2. /\ peer' \in [Clients -> {"none", "quiet", "data", "hangup"}]
          /\ \A d \in Clients : peer[d] # "none" => peer'[d] # "none"
      BY <1>1, <2>1
    <2> QED  BY <1>1, <2>1, <2>2, SocketsUnchanged
  <1>13. CASE UNCHANGED vars
    BY <1>1, <1>13, SocketsUnchanged DEF vars
  <1> QED
    BY <1>3, <1>4, <1>5, <1>6, <1>7, <1>8, <1>9, <1>10, <1>11, <1>12, <1>13
    DEF Next, RunStep, HandleEventReady

LEMMA AlwaysIInv == Spec => []IInv
  BY InitIInv, StepIInv, PTL DEF Spec
-----------------------------------------------------------------------------
(* The variables keep their types: every number that a socket, the         *)
(* server's table, a waiting request or the registry names is a descriptor *)
(* number (m_iFD and m_oRegistery of the code).                            *)
THEOREM TypeInvariant == Spec => []TypeOK
  BY AlwaysIInv, PTL DEF IInv

(* A connection that holds a number is the one the kernel has under it, so *)
(* that AsyncFdIO::Close, however late or often, never closes the number   *)
(* of another connection.                                                  *)
THEOREM NumbersAreOwn == Spec => []NumberIsOwn
  BY AlwaysIInv, PTL DEF IInv

(* Where the server keeps its connections by GetID(), every open one is in *)
(* the table, and one that connections[id] = replaces is closed.           *)
THEOREM OpenAreInTable == Spec => []OpenIsInTable
  BY AlwaysIInv, PTL DEF IInv

(* When the waiting requests are applied, the registry has a callback for  *)
(* exactly the open numbers, and that of the socket that has the number:   *)
(* no order of closing, accepting and applying, whatever numbers the       *)
(* kernel gives out again, leaves a connection unwatched.                  *)
THEOREM RegistryIsCaughtUp == Spec => []RegistryCatchesUp
  BY AlwaysIInv, PTL DEF IInv
=============================================================================
