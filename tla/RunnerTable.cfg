SPECIFICATION Spec
CONSTANTS
    Procs = {p1, p2}
    Calls = {c1, c2}
    None = None
    Pids <- MCPids
INVARIANTS
    GracefulStopMeansReaped
    NoLiveConnLeaked
    LostOnlyToStop
    MisdirectedOnlyAfterReap
    ConnIsOwn
PROPERTIES
    StopReturns
CHECK_DEADLOCK FALSE
