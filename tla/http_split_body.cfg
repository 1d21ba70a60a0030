CONSTANTS
    RequestLines = {"GET"}
    HeaderLines = {"Host", "Length3"}
    BodyBytes = {"b"}
    ContentLength <- MCContentLength
    NotNumbers = {}
    Requests <- BodyRequests
    Pipelining = FALSE
    MaxRequests = 1
    MAX_REQUEST_SIZE = 20
SPECIFICATION Spec
INVARIANT BodyEndsWithItsLastByte
\* The client stops after MaxRequests requests.
CHECK_DEADLOCK FALSE
