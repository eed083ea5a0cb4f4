SPECIFICATION FairSpec
CONSTANTS
    Worker = {w1, w2}
    Definition <- MCDefinition
    MaxAttempts = 2
    MaxMishaps = 2
    None = None
INVARIANTS
    StepsFollowDefinition
    ChildFollowsParent
PROPERTIES
    CancellationStops
    SettledIsFinal
    LiveLeaseIsKept
    Progress
CHECK_DEADLOCK FALSE
