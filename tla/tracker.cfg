SPECIFICATION FairSpec
CONSTANTS
    s1 = s1
    Session = {s1}
    NoSession = NoSession
    MaxUID = 2
    MaxQueue = 2
    ChanCap = 1
    Idler = {s1}
    QResyncOn = {TRUE, FALSE}
    UIDGiven = {TRUE, FALSE}
INVARIANTS
    ResponsesMeaningful
    ClientCountRight
    TranslationExact
    TrackerInv
    RegisteredSessionsCurrent
PROPERTIES
    IdleDelivers
    SharedMailboxImplemented
