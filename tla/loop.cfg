CONSTANTS
    f1 = f1
    f2 = f2
    c1 = c1
    e1 = e1
    w1 = w1
    loop = loop
    FDs = {f1, f2}
    Callbacks = {c1}
    Events = {e1}
    Workers = {w1}
    Loop = loop
    Capacity = 1
    MaxRequests = 3
SPECIFICATION FairSpec
INVARIANTS
    TypeOK
    RegistryFollowsRequests
    EachReadyCalledOnce
PROPERTIES
    StopEndsRun
    RequestIsApplied
    SendersReturn
\* The loop thread may wait for room in its own queue for ever, with everyone behind it.
CHECK_DEADLOCK FALSE
