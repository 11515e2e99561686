SPECIFICATION Spec
CONSTANTS
    Depth = 3
    NumValues = 3
    ResultsCap = 3
    FlowCap = 1
    Methods = {"Unknown"}
    Faults = {}
PROPERTIES
    EveryLevelExits
CHECK_DEADLOCK FALSE
