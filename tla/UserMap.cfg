SPECIFICATION Spec
CONSTANTS
    sessions = sessions
    identities = identities
    Updates <- MCUpdates
    FieldOf <- MCFieldOf
    Logins = {login}
    Deletes = {delete}
    Paths = {"cli", "token", "invitation"}
    MaxPolls = 2
    MaxVersion = 2
INVARIANTS
    TypeOK
    UpdatesSurvive
    InvitedOnce
CHECK_DEADLOCK FALSE
