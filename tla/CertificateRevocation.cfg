SPECIFICATION FairSpec
CONSTANTS
    Requests <- OneRequest
    Replicas <- TwoReplicas
    MaxClock = 4
    MaxFaults = 1
INVARIANTS RevokedStaysPruned CopyIsRevoked
PROPERTIES PruneKeepsLeaves RevocationSettles
CHECK_DEADLOCK FALSE
