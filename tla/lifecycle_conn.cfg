SPECIFICATION FairSpec
CONSTANTS
    c1 = c1
    c2 = c2
    Conn = {c1}
    MaxConnections = 1
    MaxInput = 1
    Lines = {"idle", "done", "logout"}
INVARIANTS
    ShutdownByeIsLast
PROPERTIES
    ShutdownCompletes
    BackendByeUnparks
CHECK_DEADLOCK FALSE
