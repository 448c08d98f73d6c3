SPECIFICATION Spec
CONSTANTS
    box1 = box1
    box2 = box2
    p1 = p1
    p2 = p2
    Box = {box1}
    NoBox = NoBox
    Pump = {p1}
    NoPump = NoPump
    MaxQueued = 0
    MaxUpdates = 1
    ChanCap = 1
    Grants = {"rw", "ro", "private"}
    Command = {"LOGIN", "SELECT", "EXAMINE", "CLOSE", "FETCH", "STORE", "EXPUNGE", "MOVE"}
INVARIANTS
    ReadOnlyUnchanged
CHECK_DEADLOCK FALSE
