SPECIFICATION Spec
CONSTANTS
    Topics = {"set", "mapping", "match", "framing"}
    Max = 7
    MaxUID = 4
    MaxPairs = 4
    Byte = {"a", "/", "b"}
    Delims <- ByteDelims
    References <- SomeReferences
    MaxName = 3
    MaxPattern = 4
    Shapes <- SomeShapes
    MaxCommands = 2
    LateErrors = FALSE
INVARIANTS
    SetExact
    MappingExact
    MatchExact
    AtBoundary
    NoStandstill
CHECK_DEADLOCK FALSE
