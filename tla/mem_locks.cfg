SPECIFICATION Spec
CONSTANTS
    s1 = s1
    s2 = s2
    n1 = n1
    n2 = n2
    NoSession = NoSession
    Session = {s1, s2}
    Name = {n1, n2}
    Keyword = {}
    Does <- Copying
    Visits <- Everywhere
    Volatile = {}
    NumSet <- Sets
    StoreFlags <- DeletedOnly
    AppendFlags <- Empty
    MaxBox = 2
    MaxUID = 2
    MaxChanges = 4
SYMMETRY CopierSymmetry
INVARIANT NoLockCycle
CHECK_DEADLOCK FALSE
