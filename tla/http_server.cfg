CONSTANTS
    RequestLines = {"GET", "GETX"}
    HeaderLines = {"Host", "Length2", "Length3", "LengthX"}
    BodyBytes = {"b"}
    ContentLength <- MCContentLength
    NotNumbers = {"GETX", "LengthX"}
    Requests <- MCRequests
    Pipelining = FALSE
    MaxRequests = 3
    MAX_REQUEST_SIZE = 14
    ResponseSize = 2
    NULL = NULL
    HangupOnFin = TRUE
    MaxUnread = 40
SPECIFICATION FairServerSpec
INVARIANTS
    ServerTypeOK
    ResultsAreRequests
    BufferIsUnparsedInput
    OnlyBodiesStall
    RefusedForCause
    AnswersInOrder
PROPERTY
    RequestIsAnswered
\* A connection ends, and so does a process that an exception leaves.
CHECK_DEADLOCK FALSE
