CONSTANTS
    b1 = b1
    b2 = b2
    b3 = b3
    Buffers = {b1, b2, b3}
    BufferSize = 3
    NULL = NULL
    NestedWrites = TRUE
    HangupOnFin = TRUE
    MaxUnread = 1
SPECIFICATION FairSpec
INVARIANTS
    TypeOK
    StreamIntact
    PendingAccounted
    CompletedOnceSent
\* An exception that leaves Run ends the process.
CHECK_DEADLOCK FALSE
PROPERTY AcceptedCompletes
