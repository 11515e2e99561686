SPECIFICATION Spec
CONSTANTS
    ServerConfigs <- MCServerConfigs
    Interval = 2
    ExpiresIn = 10
    Latency = 1
    StreamTimeout = 12
INVARIANTS
    TypeOK
    SuccessMeansVerified
    OnTimeLogsIn
PROPERTIES
    DialogEnds
    ToldMeansStored
CHECK_DEADLOCK FALSE
