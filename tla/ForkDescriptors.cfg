SPECIFICATION Spec
CONSTANTS
    Closers = {c1, c2}
    Keepers = {k1}
    Spawns = {s1}
    Parent = Parent
    MaxCalls = 3
INVARIANTS
    TypeOK
    InheritsOnlyFromLater
    ParentLeaksNothing
PROPERTIES
    ChildExits
CHECK_DEADLOCK FALSE
