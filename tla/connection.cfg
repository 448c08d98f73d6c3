SPECIFICATION FairSpec
CONSTANTS
    box1 = box1
    box2 = box2
    p1 = p1
    p2 = p2
    Box = {box1, box2}
    NoBox = NoBox
    Pump = {p1, p2}
    NoPump = NoPump
    MaxQueued = 0
    MaxUpdates = 1
    ChanCap = 1
    Grants = {"rw"}
    Command = {"LOGIN", "UNAUTHENTICATE", "LOGOUT", "SELECT", "CLOSE", "UNSELECT", "NOTIFY", "FETCH", "EXPUNGE", "IDLE"}
INVARIANTS
    NoCrossDelivery
    OnePump
    WatchAlive
    NoPumpAfterBye
PROPERTIES
    FrozenView
    TeardownCompletes
    OverflowThaws
CHECK_DEADLOCK FALSE
