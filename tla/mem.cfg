SPECIFICATION Spec
CONSTANTS
    s1 = s1
    s2 = s2
    n1 = n1
    n2 = n2
    NoSession = NoSession
    Session = {s1, s2}
    Name = {n1, n2}
    Keyword = {}
    Does <- Busy
    Visits <- Nearby
    Volatile = {n1}
    NumSet <- Sets
    StoreFlags <- DeletedOnly
    AppendFlags <- Empty
    MaxBox = 2
    MaxUID = 2
    MaxChanges = 3
INVARIANTS
    CacheSound
PROPERTIES
    ResyncExact
    ConditionalStore
    NothingLost
    UIDIdentity
CHECK_DEADLOCK FALSE
