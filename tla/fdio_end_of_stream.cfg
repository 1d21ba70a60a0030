CONSTANTS
    b1 = b1
    b2 = b2
    Buffers = {b1, b2}
    BufferSize = 2
    NULL = NULL
    NestedWrites = TRUE
    HangupOnFin = FALSE
    MaxUnread = 1
SPECIFICATION Spec
INVARIANT EndNeverRead
\* An exception that leaves Run ends the process.
CHECK_DEADLOCK FALSE
