SPECIFICATION FairSpec
CONSTANTS
    a = a
    b = b
    Caller = {a, b}
    Reader = Reader
    NoCaller = NoCaller
    Sends <- Concurrent
INVARIANTS
    CompletedOnce
    DeadlineRight
    ContinuationGoesHome
PROPERTY EveryCallReturns
