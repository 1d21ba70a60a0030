------------------------------ MODULE EventLoop ------------------------------
(***************************************************************************)
(* The event loop (EventLoop.cpp): the thread that calls Run, the threads  *)
(* that send it subscription requests, and Stop, called from anywhere.     *)
(*                                                                         *)
(* The request queue is the Mailbox, which MPSCQueue implements, with its  *)
(* two stop flags.  A callback is abstracted to the calls it makes on the  *)
(* loop: any number of requests, and Stop.  The loop thread itself makes   *)
(* such calls before Run, from callbacks and the main task, and after Run. *)
(***************************************************************************)
EXTENDS Naturals, FiniteSets, Sequences

CONSTANTS
    FDs,            \* descriptors
    Callbacks,      \* what a ready descriptor runs
    Events,         \* the event flags of poll
    Workers,        \* the other threads
    Loop,           \* the thread that calls Run
    Capacity,       \* slots of the request queue (1000 in the code)
    MaxRequests     \* bound: how many requests are ever sent

ASSUME LoopAssumption ==
    /\ Loop \notin Workers
    /\ Capacity \in Nat \ {0}
    /\ MaxRequests \in Nat

VARIABLES
    order, visible, received,       \* the request queue, a Mailbox
    m_bIsReading, m_bIsWriting,     \* its stop flags
    m_mapMonitoredFDsIndex, m_vecMonitoredFDs, m_mapCallBacks,  \* m_oRegistery
    m_bRunning,
    loopPc,         \* where the loop thread is in Run
    i,              \* the position Run's dispatch loop has reached
    called,         \* history: descriptors called back in this iteration
    call,           \* the call on the loop each thread is in
    place           \* the place in the queue each pushing thread reserved

boxVars == <<order, visible, received>>
flagVars == <<m_bIsReading, m_bIsWriting, m_bRunning>>
registryVars == <<m_mapMonitoredFDsIndex, m_vecMonitoredFDs, m_mapCallBacks>>
runVars == <<loopPc, i, called>>
callVars == <<call, place>>
vars == <<boxVars, flagVars, registryVars, runVars, callVars>>

Threads == Workers \cup {Loop}

Requests ==
    [op : {"subscribe"}, fd : FDs, callback : Callbacks, events : SUBSET Events]
        \cup [op : {"unsubscribe"}, fd : FDs]

Registery == INSTANCE EventLoopRegistery
Queue == INSTANCE Mailbox WITH Items <- Requests

Init ==
    /\ Queue!Init
    /\ Registery!Init
    /\ m_bIsReading = TRUE
    /\ m_bIsWriting = TRUE
    /\ m_bRunning = FALSE
    /\ loopPc = "setup"
    /\ i = 0
    /\ called = <<>>
    /\ call = [t \in Threads |-> "none"]
    /\ place = [t \in Threads |-> 0]
-----------------------------------------------------------------------------
(* A thread is free to call the loop; the loop thread only while it runs   *)
(* code of the application.                                                *)
CanCall(t) ==
    /\ call[t] = "none"
    /\ t = Loop => loopPc \in {"setup", "callback", "task", "done", "failed"}

(* SubScribeToEvent and UnRegisterFromAllEvents reserve a place for their  *)
(* request, unless StopWriting makes Push return without doing anything.   *)
(* MPSCQueue has the load of m_bIsWriting and the reservation apart.  Here *)
(* they are one step: a place reserved after StopWriting is reserved after *)
(* StopReading too, when no Push waits and the next Pop ends Run.          *)
PushBegin(t, request) ==
    /\ CanCall(t)
    /\ Len(order) < MaxRequests
    /\ m_bIsWriting
    /\ Queue!TakePlace(request)
    /\ place' = [place EXCEPT ![t] = Len(order) + 1]
    /\ call' = [call EXCEPT ![t] = "push"]
    /\ UNCHANGED <<flagVars, registryVars, runVars>>

PushReturns(t) ==
    /\ call' = [call EXCEPT ![t] = "none"]
    /\ place' = [place EXCEPT ![t] = 0]
    /\ UNCHANGED <<flagVars, registryVars, runVars>>

(* Push has found room and published the request. *)
PushShow(t) ==
    /\ call[t] = "push"
    /\ Queue!Show(place[t])
    /\ PushReturns(t)

(* Mutant: a sender waits for room even when reading has stopped. *)
PushInsists(t) ==
    /\ call[t] = "push"
    /\ ~m_bIsReading
    /\ Queue!Show(place[t])
    /\ PushReturns(t)

(* Push was waiting for room when reading stopped: the request is dropped. *)
PushGivesUp(t) ==
    /\ call[t] = "push"
    /\ ~m_bIsReading
    /\ PushReturns(t)
    /\ UNCHANGED boxVars

(* Stop is three stores. *)
StopReading(t) ==
    /\ CanCall(t)
    /\ m_bIsReading' = FALSE
    /\ call' = [call EXCEPT ![t] = "stopWriting"]
    /\ UNCHANGED <<m_bIsWriting, m_bRunning, boxVars, registryVars, runVars, place>>

StopWriting(t) ==
    /\ call[t] = "stopWriting"
    /\ m_bIsWriting' = FALSE
    /\ call' = [call EXCEPT ![t] = "stopRunning"]
    /\ UNCHANGED <<m_bIsReading, m_bRunning, boxVars, registryVars, runVars, place>>

StopRunning(t) ==
    /\ call[t] = "stopRunning"
    /\ m_bRunning' = FALSE
    /\ call' = [call EXCEPT ![t] = "none"]
    /\ UNCHANGED <<m_bIsReading, m_bIsWriting, boxVars, registryVars, runVars, place>>
-----------------------------------------------------------------------------
(* The loop thread is in Run and not inside a call that a callback made. *)
At(location) == loopPc = location /\ call[Loop] = "none"

Goto(location) ==
    /\ loopPc' = location
    /\ UNCHANGED <<i, called, callVars>>

RunBegin ==
    /\ At("setup")
    /\ m_bRunning' = TRUE
    /\ Goto("check")
    /\ UNCHANGED <<m_bIsReading, m_bIsWriting, boxVars, registryVars>>

CheckRunning ==
    /\ At("check")
    /\ Goto(IF m_bRunning THEN "pop" ELSE "done")
    /\ UNCHANGED <<boxVars, flagVars, registryVars>>

(* Mutant: Run relies on m_bRunning alone, which it has set itself. *)
PopIgnoresStop ==
    /\ At("pop")
    /\ Goto("receive")
    /\ UNCHANGED <<boxVars, flagVars, registryVars>>

(* Pop loads m_bIsReading before it looks at the slot. *)
PopLoadReading ==
    /\ At("pop")
    /\ Goto(IF m_bIsReading THEN "receive" ELSE "stopped")
    /\ UNCHANGED <<boxVars, flagVars, registryVars>>

PopStopped ==
    /\ At("stopped")
    /\ m_bRunning' = FALSE
    /\ Goto("done")
    /\ UNCHANGED <<m_bIsReading, m_bIsWriting, boxVars, registryVars>>

HandleSubscriptionRequest(request) ==
    IF request.op = "subscribe"
    THEN Registery!Subscribe(request.fd, request.callback, request.events)
    ELSE Registery!UnSubscribe(request.fd)

(* Mutant: the newest request is applied instead of the oldest. *)
PopNewest ==
    /\ At("receive")
    /\ Queue!Receive
    /\ HandleSubscriptionRequest(order[Len(order)])
    /\ Goto("poll")
    /\ UNCHANGED flagVars

(* Pop returns Success and the one request of this iteration is applied. *)
PopSuccess ==
    /\ At("receive")
    /\ Queue!Receive
    /\ HandleSubscriptionRequest(order[Len(received) + 1])
    /\ Goto("poll")
    /\ UNCHANGED flagVars

PopEmpty ==
    /\ At("receive")
    /\ Len(received) + 1 \notin visible
    /\ Goto("poll")
    /\ UNCHANGED <<boxVars, flagVars, registryVars>>

(* poll() with a zero timeout; any of the events may be ready. *)
Poll ==
    /\ At("poll")
    /\ \E ready \in [FDs -> SUBSET Events] : Registery!Poll(ready)
    /\ loopPc' = "dispatch"
    /\ i' = 0
    /\ called' = <<>>
    /\ UNCHANGED <<boxVars, flagVars, callVars>>

(* poll() returns -1, and so does Run, without stopping the queue. *)
PollFails ==
    /\ At("poll")
    /\ m_bRunning' = FALSE
    /\ Goto("failed")
    /\ UNCHANGED <<m_bIsReading, m_bIsWriting, boxVars, registryVars>>

MonitoredFD == m_vecMonitoredFDs[i + 1]

(* The element at i is ready and has a callback, which starts to run. *)
DispatchReady ==
    /\ At("dispatch")
    /\ i < Len(m_vecMonitoredFDs)
    /\ MonitoredFD.revents # {}
    /\ MonitoredFD.fd \in DOMAIN m_mapCallBacks
    /\ called' = Append(called, [fd |-> MonitoredFD.fd, callback |-> m_mapCallBacks[MonitoredFD.fd]])
    /\ loopPc' = "callback"
    /\ UNCHANGED <<i, boxVars, flagVars, registryVars, callVars>>

(* Mutant: the walk steps back, as if the element had been removed. *)
SkipStepsBack ==
    /\ At("dispatch")
    /\ i < Len(m_vecMonitoredFDs)
    /\ MonitoredFD.revents = {} \/ MonitoredFD.fd \notin DOMAIN m_mapCallBacks
    /\ i' = i - 1
    /\ UNCHANGED <<loopPc, called, boxVars, flagVars, registryVars, callVars>>

DispatchSkip ==
    /\ At("dispatch")
    /\ i < Len(m_vecMonitoredFDs)
    /\ MonitoredFD.revents = {} \/ MonitoredFD.fd \notin DOMAIN m_mapCallBacks
    /\ i' = i + 1
    /\ UNCHANGED <<loopPc, called, boxVars, flagVars, registryVars, callVars>>

(* Mutant: a callback unregisters its descriptor while Run walks the vector. *)
CallbackRemovesAtOnce ==
    /\ At("callback")
    /\ Registery!UnSubscribe(MonitoredFD.fd)
    /\ i' = i + 1
    /\ loopPc' = "dispatch"
    /\ UNCHANGED <<called, boxVars, flagVars, callVars>>

CallbackReturns ==
    /\ At("callback")
    /\ i' = i + 1
    /\ loopPc' = "dispatch"
    /\ UNCHANGED <<called, boxVars, flagVars, registryVars, callVars>>

DispatchEnd ==
    /\ At("dispatch")
    /\ i >= Len(m_vecMonitoredFDs)
    /\ Goto("task")
    /\ UNCHANGED <<boxVars, flagVars, registryVars>>

(* Mutant: Run takes a request in its first iteration only. *)
TaskReturnsToPoll ==
    /\ At("task")
    /\ Goto("poll")
    /\ UNCHANGED <<boxVars, flagVars, registryVars>>

TaskReturns ==
    /\ At("task")
    /\ Goto("check")
    /\ UNCHANGED <<boxVars, flagVars, registryVars>>
-----------------------------------------------------------------------------
CallStep(t) ==
    \/ PushShow(t)
    \/ PushGivesUp(t)
    \/ StopWriting(t)
    \/ StopRunning(t)

RunStep ==
    \/ CheckRunning
    \/ PopLoadReading
    \/ PopStopped
    \/ PopSuccess
    \/ PopEmpty
    \/ Poll
    \/ PollFails
    \/ DispatchReady
    \/ DispatchSkip
    \/ CallbackReturns
    \/ DispatchEnd
    \/ TaskReturns

Next ==
    \/ \E t \in Threads, request \in Requests : PushBegin(t, request)
    \/ \E t \in Threads : StopReading(t)
    \/ \E t \in Threads : CallStep(t)
    \/ RunBegin
    \/ RunStep

Spec == Init /\ [][Next]_vars

(* A thread that is inside a call or inside Run is not abandoned by the    *)
(* scheduler, and callbacks and the main task return after finitely many   *)
(* calls on the loop.  Run need never be called, and nobody need send a    *)
(* request or stop the loop.                                               *)
Fairness ==
    /\ \A t \in Threads : WF_vars(CallStep(t))
    /\ WF_vars(RunStep)
    /\ SF_vars(CallbackReturns)
    /\ SF_vars(TaskReturns)

FairSpec == Spec /\ Fairness
-----------------------------------------------------------------------------
TypeOK ==
    /\ order \in Seq(Requests)
    /\ visible \subseteq 1 .. Len(order)
    /\ received \in Seq(Requests)
    /\ m_bIsReading \in BOOLEAN
    /\ m_bIsWriting \in BOOLEAN
    /\ Registery!TypeOK
    /\ m_bRunning \in BOOLEAN
    /\ loopPc \in {"setup", "check", "pop", "receive", "stopped", "poll", "dispatch",
                   "callback", "task", "done", "failed"}
    /\ i \in Nat
    /\ called \in Seq([fd : FDs, callback : Callbacks])
    /\ call \in [Threads -> {"none", "push", "stopWriting", "stopRunning"}]
    /\ place \in [Threads -> Nat]

(* The received subscriptions of a descriptor that no later request undoes. *)
Standing(fd) ==
    {n \in DOMAIN received :
        /\ received[n].fd = fd
        /\ \A k \in n .. Len(received) : received[k].fd = fd => received[k].op = "subscribe"}

(* The registry is what the requests say, applied in the order in which    *)
(* their senders reserved places: exactly the descriptors with a standing  *)
(* subscription are monitored, with the callback of the newest one and the *)
(* events of all.  A subscription that follows the close of a descriptor   *)
(* with the same number is never undone by that close.                     *)
RegistryFollowsRequests ==
    \A fd \in FDs :
        /\ fd \in DOMAIN m_mapCallBacks <=> Standing(fd) # {}
        /\ fd \in DOMAIN m_mapCallBacks =>
               /\ \E n \in Standing(fd) :
                      /\ \A k \in Standing(fd) : k <= n
                      /\ m_mapCallBacks[fd] = received[n].callback
               /\ m_vecMonitoredFDs[m_mapMonitoredFDsIndex[fd] + 1].events =
                      UNION {received[n].events : n \in Standing(fd)}

(* An iteration calls back each ready descriptor exactly once, with the    *)
(* callback it has at that time, whatever the callbacks subscribe or       *)
(* unregister meanwhile: requests wait until the vector is not walked.     *)
EachReadyCalledOnce ==
    loopPc = "task" =>
        LET ready == {n \in DOMAIN m_vecMonitoredFDs : m_vecMonitoredFDs[n].revents # {}}
        IN  /\ Len(called) = Cardinality(ready)
            /\ {called[n] : n \in DOMAIN called} =
                   {[fd |-> m_vecMonitoredFDs[n].fd,
                     callback |-> m_mapCallBacks[m_vecMonitoredFDs[n].fd]] : n \in ready}

(* Stop ends Run wherever it strikes, even before Run has set m_bRunning,  *)
(* and even when the loop thread is waiting for room in its own queue.     *)
StopEndsRun == ~m_bIsReading /\ loopPc # "setup" ~> loopPc \in {"done", "failed"}

(* The loop thread itself waits for room that only it can make. *)
LoopWaitsForItself == call[Loop] = "push" /\ place[Loop] > Len(received) + Capacity

(* A request that is in the queue is applied, unless the loop has ended    *)
(* or waits for itself: one request per iteration does not starve any.     *)
RequestIsApplied ==
    \A n \in 1 .. MaxRequests :
        (n \in visible /\ loopPc # "setup")
            ~> (n <= Len(received) \/ loopPc \in {"done", "failed"} \/ LoopWaitsForItself)

(* A sender that waits for room gets it from the running loop or is sent   *)
(* away by Stop.  It waits for ever only behind a loop that failed in poll *)
(* without stopping its queue, or that waits for itself.                   *)
SendersReturn ==
    \A t \in Workers :
        (call[t] = "push" /\ loopPc # "setup")
            ~> (call[t] = "none" \/ loopPc = "failed" \/ LoopWaitsForItself)
=============================================================================
