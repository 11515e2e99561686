----------------------------- MODULE MCUserMap -----------------------------
(* An update of each list.                                                 *)
EXTENDS UserMap, TLC

CONSTANTS sessions, identities

MCUpdates == {sessions, identities}
MCFieldOf == sessions :> "Sessions" @@ identities :> "Identities"
MCNoField == [c \in {} |-> "Sessions"]
=============================================================================
