SPECIFICATION Spec
CONSTANTS
    N = 3
    Copies = 2
    Inputs <- MCInputs
    Pipelines <- MCPipelines
    Faults = {"setup", "input", "output", "read", "diskFull", "crash", "cancel"}
INVARIANTS
    TypeOK
    SuccessMeansComplete
    ReturnLeavesNothing
    FifoOutlivesOpen
PROPERTIES
    ReturnsOnceOpened
CHECK_DEADLOCK FALSE
