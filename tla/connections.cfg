CONSTANTS
    c1 = c1
    c2 = c2
    c3 = c3
    server = server
    Clients = {c1, c2, c3}
    Server = server
    FDs = {0, 1, 2}
    KeyedByDescriptor = TRUE
SPECIFICATION FairSpec
INVARIANTS
    TypeOK
    RegistryCatchesUp
    NumberIsOwn
    OpenIsInTable
PROPERTY HangupIsNoticed
\* An exception that leaves Run ends the process.
CHECK_DEADLOCK FALSE
