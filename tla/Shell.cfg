SPECIFICATION Spec
CONSTANTS
    MaxWrites = 2
    PipeCap = 1
    ChanCap = 2
    Window = 1
INVARIANTS
    InOrder
    NoConcurrentSend
    CleanReturn
PROPERTIES
    ShellReturns
CHECK_DEADLOCK FALSE
