SPECIFICATION Spec
CONSTANTS
    Topics = {"framing"}
    Max = 7
    MaxUID = 4
    MaxPairs = 4
    Byte = {"a", "/", "b"}
    Delims <- ByteDelims
    References <- SomeReferences
    MaxName = 3
    MaxPattern = 4
    Shapes <- SomeShapes
    MaxCommands = 2
    LateErrors = TRUE
INVARIANTS
    AtBoundary
CHECK_DEADLOCK FALSE
