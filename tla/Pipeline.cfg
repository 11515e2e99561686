SPECIFICATION Spec
CONSTANTS
    Depth = 3
    NumValues = 3
    ResultsCap = 3
    FlowCap = 1
    Methods = {"Increment", "Unknown"}
    Faults = {"fork", "root"}
INVARIANTS
    TypeOK
    TakenDownFromLeaf
PROPERTIES
    KeepsPromise
    Completes
    ChainExits
CHECK_DEADLOCK FALSE
