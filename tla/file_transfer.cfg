CONSTANTS
    Buffers = {1, 2, 3, 4}
    BufferSize = 3
    NULL = NULL
    NestedWrites = FALSE
    HangupOnFin = TRUE
    MaxUnread = 1
SPECIFICATION FairTransferSpec
INVARIANTS
    TransferTypeOK
    OnlyLastChunkCut
    FailsForGoneClient
PROPERTIES
    ImplementsFileCopy
    SessionEnds
\* A transfer ends, and so does a process that an exception leaves.
CHECK_DEADLOCK FALSE
