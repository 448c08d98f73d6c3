SPECIFICATION FairSpec
CONSTANTS
    sel = sel
    seq = seq
    uid = uid
    Msg = {1, 2}
    Cmd = {sel, seq, uid}
    Kind <- KindOf
    Asks <- AsksFor
    NoCmd = NoCmd
    Shapes <- SomeShapes
    HasHandler = TRUE
    MsgsCap = 1
    ItemsCap = 1
    MaxBuffer = 1
    MaxResp = 2
INVARIANTS
    AnswersGoHome
    BudgetExact
CHECK_DEADLOCK FALSE
PROPERTIES
    ReaderProgresses
    ConsumersEnd
