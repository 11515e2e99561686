SPECIFICATION Spec
CONSTANTS
    sessions = sessions
    identities = identities
    Updates = {}
    FieldOf <- MCNoField
    Logins = {}
    Deletes = {}
    Paths = {"cli"}
    MaxPolls = 2
    MaxVersion = 1
INVARIANTS
    TokensKept
CHECK_DEADLOCK FALSE
