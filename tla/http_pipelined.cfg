CONSTANTS
    RequestLines = {"GET"}
    HeaderLines = {"Host", "Length3"}
    BodyBytes = {"b"}
    ContentLength <- MCContentLength
    NotNumbers = {}
    Requests <- PlainRequests
    Pipelining = TRUE
    MaxRequests = 3
    MAX_REQUEST_SIZE = 20
SPECIFICATION Spec
INVARIANT BufferIsUnparsedInput
\* The client stops after MaxRequests requests.
CHECK_DEADLOCK FALSE
