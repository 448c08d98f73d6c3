SPECIFICATION FairSpec
CONSTANTS
    c1 = c1
    c2 = c2
    Conn = {c1, c2}
    MaxConnections = 1
    MaxInput = 1
    Lines = {"logout"}
INVARIANTS
    NoSurvivor
    NothingLeft
PROPERTIES
    LostClientFreesSlot
CHECK_DEADLOCK FALSE
