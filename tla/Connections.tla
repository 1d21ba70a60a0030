----------------------------- MODULE Connections -----------------------------
(***************************************************************************)
(* A server's connections (TCPServerSocket.cpp, TCPClientSocket.cpp and    *)
(* AsyncFdIO.cpp) between the process's table of descriptors, the request  *)
(* queue, the registry and the server's own table, on the loop thread.     *)
(*                                                                         *)
(* The kernel gives the lowest free number to an accepted connection,      *)
(* while the request to forget the last owner of that number may still     *)
(* wait in the queue.  Only the loop thread sends requests here, so that   *)
(* the queue is a sequence; reading and closing are modelled, writing is   *)
(* the subject of AsyncFdIO.                                               *)
(***************************************************************************)
EXTENDS Integers, FiniteSetsExt, SequencesExt

CONSTANTS
    Clients,            \* connections, each also the TCPClientSocket for it
    Server,             \* the TCPServerSocket
    FDs,                \* descriptor numbers
    KeyedByDescriptor   \* TRUE if the server keeps its connections by GetID()

ASSUME ConnectionsAssumption ==
    /\ Server \notin Clients
    /\ FDs \subseteq Nat
    /\ FDs # {}
    /\ KeyedByDescriptor \in BOOLEAN

VARIABLES
    sockets,            \* the kernel's table: the socket of each open number
    peer,               \* what the other end of each connection has done
    m_iFD,              \* of each connection, and m_oSocketData.fd of the server
    object,             \* "unborn", "alive" or "destroyed"
    connections,        \* the server's table, by number
    m_oRequestQueue,
    m_mapMonitoredFDsIndex, m_vecMonitoredFDs, m_mapCallBacks,  \* m_oRegistery
    loopPc, i,          \* where Run is, and its position in the vector
    exception           \* what ended the process, or "none"

registryVars == <<m_mapMonitoredFDsIndex, m_vecMonitoredFDs, m_mapCallBacks>>
socketVars == <<sockets, m_iFD, object, connections, m_oRequestQueue>>
vars == <<socketVars, peer, registryVars, loopPc, i, exception>>

Owners == Clients \cup {Server}
Events == {"Read", "CLOSE", "NVAL"}
NoFD == -1

Registery == INSTANCE EventLoopRegistery WITH Callbacks <- Owners

SubScribeToEvent(fd, owner) == [op |-> "subscribe", fd |-> fd, owner |-> owner]
UnRegisterFromAllEvents(fd) == [op |-> "unsubscribe", fd |-> fd]

(* The server listens and has called OnAccept; Run begins. *)
Init ==
    /\ sockets = [n \in {Min(FDs)} |-> Server]
    /\ peer = [c \in Clients |-> "none"]
    /\ m_iFD = [o \in Owners |-> IF o = Server THEN Min(FDs) ELSE NoFD]
    /\ object = [c \in Clients |-> "unborn"]
    /\ connections = [n \in {} |-> n]
    /\ m_oRequestQueue = <<SubScribeToEvent(Min(FDs), Server)>>
    /\ Registery!Init
    /\ loopPc = "pop"
    /\ i = 0
    /\ exception = "none"

Running == exception = "none"
At(location) == Running /\ loopPc = location
-----------------------------------------------------------------------------
Handle(request) ==
    IF request.op = "subscribe"
    THEN Registery!Subscribe(request.fd, request.owner,
                             IF request.owner = Server THEN {"Read"} ELSE {"Read", "CLOSE"})
    ELSE Registery!UnSubscribe(request.fd)

(* Mutant: the queue is a stack. *)
PopNewest ==
    /\ At("pop")
    /\ m_oRequestQueue # <<>>
    /\ Handle(Last(m_oRequestQueue))
    /\ m_oRequestQueue' = Front(m_oRequestQueue)
    /\ loopPc' = "poll"
    /\ UNCHANGED <<sockets, m_iFD, object, connections, peer, i, exception>>

(* An iteration applies one request at most. *)
PopSuccess ==
    /\ At("pop")
    /\ m_oRequestQueue # <<>>
    /\ Handle(Head(m_oRequestQueue))
    /\ m_oRequestQueue' = Tail(m_oRequestQueue)
    /\ loopPc' = "poll"
    /\ UNCHANGED <<sockets, m_iFD, object, connections, peer, i, exception>>

PopEmpty ==
    /\ At("pop")
    /\ m_oRequestQueue = <<>>
    /\ loopPc' = "poll"
    /\ UNCHANGED <<socketVars, peer, registryVars, i, exception>>

Waiting == {c \in Clients : peer[c] # "none" /\ object[c] = "unborn"}

(* What poll reports for a number: POLLNVAL if it is not open. *)
Ready(fd) ==
    IF fd \notin DOMAIN sockets THEN {"NVAL"}
    ELSE IF sockets[fd] = Server THEN IF Waiting # {} THEN {"Read"} ELSE {}
    ELSE CASE peer[sockets[fd]] = "quiet" -> {}
           [] peer[sockets[fd]] = "data" -> {"Read"}
           [] peer[sockets[fd]] = "hangup" -> {"Read", "CLOSE"}

Poll ==
    /\ At("poll")
    /\ Registery!Poll([fd \in FDs |-> Ready(fd)])
    /\ loopPc' = "dispatch"
    /\ i' = 0
    /\ UNCHANGED <<socketVars, peer, exception>>

DispatchEnd ==
    /\ At("dispatch")
    /\ i >= Len(m_vecMonitoredFDs)
    /\ loopPc' = "pop"
    /\ UNCHANGED <<socketVars, peer, registryVars, i, exception>>
-----------------------------------------------------------------------------
(* Mutant: Read first. *)
HandledReadFirst(revents) ==
    IF "Read" \in revents THEN "Read" ELSE IF "CLOSE" \in revents THEN "CLOSE" ELSE "none"

(* HandleEventReady looks at POLLHUP first. *)
Handled(revents) ==
    IF "CLOSE" \in revents THEN "CLOSE" ELSE IF "Read" \in revents THEN "Read" ELSE "none"

(* The owner of the callback that Run calls for the element at i, and the  *)
(* event it handles.  It is registered for a number that it, and the       *)
(* kernel, may have given up since.                                        *)
Dispatch(owner, event) ==
    /\ At("dispatch")
    /\ i < Len(m_vecMonitoredFDs)
    /\ LET monitored == m_vecMonitoredFDs[i + 1]
       IN  /\ monitored.revents # {}
           /\ owner = m_mapCallBacks[monitored.fd]
           /\ event = Handled(monitored.revents)

NextElement ==
    /\ i' = i + 1
    /\ UNCHANGED <<registryVars, loopPc>>

Fails(reason) ==
    /\ exception' = reason
    /\ UNCHANGED <<socketVars, peer, registryVars, loopPc, i>>

(* Mutant: the walk steps back. *)
SkipStepsBack ==
    /\ At("dispatch")
    /\ i < Len(m_vecMonitoredFDs)
    /\ m_vecMonitoredFDs[i + 1].revents = {}
    /\ i' = i - 1
    /\ UNCHANGED <<socketVars, peer, registryVars, loopPc, exception>>

DispatchSkip ==
    /\ At("dispatch")
    /\ i < Len(m_vecMonitoredFDs)
    /\ m_vecMonitoredFDs[i + 1].revents = {}
    /\ NextElement
    /\ UNCHANGED <<socketVars, peer, exception>>

(* POLLNVAL alone: the handler finds none of its events. *)
HandleNothing ==
    /\ \E c \in Clients : Dispatch(c, "none")
    /\ NextElement
    /\ UNCHANGED <<socketVars, peer, exception>>

(* Mutant: the table keeps an entry it has, as insert does. *)
InsertInTable(fd, c) ==
    connections' = [n \in DOMAIN connections \cup {fd} |->
                       IF n \in DOMAIN connections THEN connections[n] ELSE c]

(* connections[id] = std::move(clientSocket) *)
PutInTable(fd, c) ==
    connections' = [n \in DOMAIN connections \cup {fd} |->
                       IF n = fd THEN c ELSE connections[n]]

(* The accepted connection becomes an object, which subscribes itself.     *)
(* The object that the table had under its number is destroyed: it has     *)
(* closed its own descriptor (OpenIsInTable), so its destructor does       *)
(* nothing more.                                                           *)
OnAccept(c) ==
    LET free == FDs \ DOMAIN sockets
        fd == Min(free)
    IN  /\ Dispatch(Server, "Read")
        /\ m_iFD[Server] # NoFD
        /\ free # {}
        /\ c \in Waiting
        /\ sockets' = [n \in DOMAIN sockets \cup {fd} |-> IF n = fd THEN c ELSE sockets[n]]
        /\ m_iFD' = [m_iFD EXCEPT ![c] = fd]
        /\ m_oRequestQueue' = Append(m_oRequestQueue, SubScribeToEvent(fd, c))
        /\ IF KeyedByDescriptor
           THEN /\ PutInTable(fd, c)
                /\ object' = [o \in Clients |->
                                 IF o = c THEN "alive"
                                 ELSE IF fd \in DOMAIN connections /\ o = connections[fd]
                                 THEN "destroyed" ELSE object[o]]
           ELSE /\ object' = [object EXCEPT ![c] = "alive"]
                /\ UNCHANGED connections
        /\ NextElement
        /\ UNCHANGED <<peer, exception>>

(* accept() fails on -1 or without a free number: "Unhandled". *)
OnAcceptFails ==
    /\ Dispatch(Server, "Read")
    /\ m_iFD[Server] = NoFD \/ DOMAIN sockets = FDs
    /\ Fails("accept")

(* Mutant: Close resets the number first, as TCPServerSocket::Close does. *)
CloseResetsFirst(c) ==
    IF m_iFD[c] = NoFD
    THEN UNCHANGED socketVars
    ELSE /\ m_oRequestQueue' = Append(m_oRequestQueue, UnRegisterFromAllEvents(NoFD))
         /\ m_iFD' = [m_iFD EXCEPT ![c] = NoFD]
         /\ UNCHANGED <<sockets, object, connections>>

(* AsyncFdIO::Close, which does nothing the second time. *)
Close(c) ==
    IF m_iFD[c] = NoFD
    THEN UNCHANGED socketVars
    ELSE /\ m_oRequestQueue' = Append(m_oRequestQueue, UnRegisterFromAllEvents(m_iFD[c]))
         /\ sockets' = [n \in DOMAIN sockets \ {m_iFD[c]} |-> sockets[n]]
         /\ m_iFD' = [m_iFD EXCEPT ![c] = NoFD]
         /\ UNCHANGED <<object, connections>>

HandleClose(c) ==
    /\ Dispatch(c, "CLOSE")
    /\ object[c] = "alive"
    /\ Close(c)
    /\ NextElement
    /\ UNCHANGED <<peer, exception>>

(* ReadSync takes all there is; a hung up peer stays so. *)
HandleReadEvent(c) ==
    /\ Dispatch(c, "Read")
    /\ object[c] = "alive"
    /\ m_iFD[c] # NoFD
    /\ peer' = [peer EXCEPT ![c] = IF @ = "data" THEN "quiet" ELSE @]
    /\ NextElement
    /\ UNCHANGED <<socketVars, exception>>

HandleReadFails(c) ==
    /\ Dispatch(c, "Read")
    /\ object[c] = "alive"
    /\ m_iFD[c] = NoFD
    /\ Fails("read")

(* The callback's object is gone.  What happens is undefined; here the     *)
(* process ends.                                                           *)
HandleDestroyed(c) ==
    /\ \E event \in {"CLOSE", "Read"} : Dispatch(c, event)
    /\ object[c] = "destroyed"
    /\ Fails("destroyed")

(* A callback or the main task closes a connection: a request that cannot  *)
(* be parsed, a file that has been sent, the exit command.                 *)
ApplicationCloses(c) ==
    /\ At("dispatch")
    /\ object[c] = "alive"
    /\ m_iFD[c] # NoFD
    /\ Close(c)
    /\ UNCHANGED <<peer, registryVars, loopPc, i, exception>>

(* The chat server's Broadcast writes to each entry of the table.  A client *)
(* that has left keeps its entry until its number is given out again, and  *)
(* WriteAll throws for it, unless it left with a write pending.            *)
BroadcastFails ==
    /\ At("dispatch")
    /\ KeyedByDescriptor
    /\ \E n \in DOMAIN connections : m_iFD[connections[n]] = NoFD
    /\ Fails("write")

(* TCPServerSocket::Close forgets the number before it unregisters and     *)
(* closes it.                                                              *)
ServerCloses ==
    /\ At("dispatch")
    /\ m_iFD[Server] # NoFD
    /\ m_iFD' = [m_iFD EXCEPT ![Server] = NoFD]
    /\ m_oRequestQueue' = Append(m_oRequestQueue, UnRegisterFromAllEvents(NoFD))
    /\ UNCHANGED <<sockets, object, connections, peer, registryVars, loopPc, i, exception>>
-----------------------------------------------------------------------------
(* The other ends.  The loop thread sees what they do in poll only, so     *)
(* that they need not act anywhere else.  A hang-up closes both directions *)
(* and leaves what was sent readable; a reset, which does not, is in       *)
(* AsyncFdIO.                                                              *)
PeerConnects(c) ==
    /\ At("poll")
    /\ peer[c] = "none"
    /\ peer' = [peer EXCEPT ![c] = "quiet"]
    /\ UNCHANGED <<socketVars, registryVars, loopPc, i, exception>>

PeerSends(c) ==
    /\ At("poll")
    /\ peer[c] = "quiet"
    /\ peer' = [peer EXCEPT ![c] = "data"]
    /\ UNCHANGED <<socketVars, registryVars, loopPc, i, exception>>

PeerHangsUp(c) ==
    /\ At("poll")
    /\ peer[c] \in {"quiet", "data"}
    /\ peer' = [peer EXCEPT ![c] = "hangup"]
    /\ UNCHANGED <<socketVars, registryVars, loopPc, i, exception>>
-----------------------------------------------------------------------------
HandleEventReady(c) ==
    \/ HandleClose(c)
    \/ HandleReadEvent(c)
    \/ HandleReadFails(c)
    \/ HandleDestroyed(c)

RunStep ==
    \/ PopSuccess
    \/ PopEmpty
    \/ Poll
    \/ DispatchSkip
    \/ HandleNothing
    \/ \E c \in Clients : OnAccept(c)
    \/ OnAcceptFails
    \/ \E c \in Clients : HandleEventReady(c)
    \/ DispatchEnd

Next ==
    \/ RunStep
    \/ \E c \in Clients : ApplicationCloses(c)
    \/ BroadcastFails
    \/ ServerCloses
    \/ \E c \in Clients : PeerConnects(c) \/ PeerSends(c) \/ PeerHangsUp(c)

Spec == Init /\ [][Next]_vars

(* Run goes on; nobody need close, connect, send or hang up. *)
FairSpec == Spec /\ WF_vars(RunStep)
-----------------------------------------------------------------------------
TypeOK ==
    /\ DOMAIN sockets \subseteq FDs
    /\ sockets \in [DOMAIN sockets -> Owners]
    /\ peer \in [Clients -> {"none", "quiet", "data", "hangup"}]
    /\ m_iFD \in [Owners -> FDs \cup {NoFD}]
    /\ object \in [Clients -> {"unborn", "alive", "destroyed"}]
    /\ DOMAIN connections \subseteq FDs
    /\ connections \in [DOMAIN connections -> Clients]
    /\ m_oRequestQueue \in Seq([op : {"subscribe"}, fd : FDs, owner : Owners]
                                   \cup [op : {"unsubscribe"}, fd : FDs \cup {NoFD}])
    /\ Registery!TypeOK
    /\ loopPc \in {"pop", "poll", "dispatch"}
    /\ i \in Nat
    /\ exception \in {"none", "accept", "read", "write", "destroyed"}

(* The requests in the queue about a number. *)
About(n) == {k \in DOMAIN m_oRequestQueue : m_oRequestQueue[k].fd = n}

(* Once the requests in the queue are applied, exactly the open numbers    *)
(* have callbacks, and each that of the socket which has the number now:   *)
(* the last request about a number says what has become of it, and if      *)
(* there is none the callbacks do.  The close of a former owner never      *)
(* removes its successor, and no open connection stays without a callback. *)
RegistryCatchesUp ==
    \A n \in FDs :
        /\ About(n) = {} =>
               /\ n \in DOMAIN m_mapCallBacks <=> n \in DOMAIN sockets
               /\ n \in DOMAIN sockets => m_mapCallBacks[n] = sockets[n]
        /\ \A k \in About(n) :
               (\A j \in About(n) : j <= k) =>
                   IF m_oRequestQueue[k].op = "subscribe"
                   THEN n \in DOMAIN sockets /\ sockets[n] = m_oRequestQueue[k].owner
                   ELSE n \notin DOMAIN sockets

(* A connection that holds a number is the one the kernel has under it:    *)
(* closing twice, or late, never closes the number of somebody else.       *)
NumberIsOwn ==
    /\ \A c \in Clients : m_iFD[c] # NoFD => m_iFD[c] \in DOMAIN sockets /\ sockets[m_iFD[c]] = c
    /\ \A n \in DOMAIN sockets : sockets[n] # Server => m_iFD[sockets[n]] = n

(* The server's table has every open connection under its number, so that  *)
(* a broadcast reaches it, and no entry that is replaced is still open.    *)
OpenIsInTable ==
    KeyedByDescriptor =>
        \A c \in Clients :
            m_iFD[c] # NoFD =>
                /\ object[c] = "alive"
                /\ m_iFD[c] \in DOMAIN connections
                /\ connections[m_iFD[c]] = c

(* A connection whose peer has hung up is closed in the end, even while    *)
(* events of its number go to the callback of the number's last owner.     *)
HangupIsNoticed ==
    \A c \in Clients :
        (peer[c] = "hangup" /\ m_iFD[c] # NoFD) ~> (m_iFD[c] = NoFD \/ ~Running)

(* Reading for an event never fails. *)
ReadNeverFails == exception # "read"
=============================================================================
