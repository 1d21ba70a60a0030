CONSTANTS
    c1 = c1
    c2 = c2
    c3 = c3
    server = server
    Clients = {c1, c2, c3}
    Server = server
    FDs = {0, 1, 2}
    KeyedByDescriptor = FALSE
SPECIFICATION Spec
INVARIANT ReadNeverFails
\* An exception that leaves Run ends the process.
CHECK_DEADLOCK FALSE
