SPECIFICATION Spec
CONSTANTS
    ka = ka
    kb = kb
    Key = {ka, kb}
    NoKey = NoKey
    Root <- RootOf
    Plans <- SomePlans
    Closes = {TRUE, FALSE}
    MaxMsgs = 2
    MaxEvents = 2
INVARIANTS
    RepliesGoHome
    MirrorExact
CHECK_DEADLOCK FALSE
