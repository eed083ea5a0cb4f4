SPECIFICATION Spec
CONSTANTS
    r1 = r1
    r2 = r2
    s1 = s1
    s2 = s2
    daq = daq
    laser = laser
    Resource = {daq, laser}
    Run = {r1, r2}
    Guarded = {}
    Needs <- MCNeeds
    Executor = {e1}
    Key = {}
    PointCount = 0
    MaxSegments = 1
    MaxRuntime = 2
    MaxBeats = 1
    Owner = {r1, r2, s1}
    Session = {s1}
INVARIANTS
    ExclusiveClaims
    ClaimsFollowRows
    HardwareIsClaimed
PROPERTIES
    RenewedAreSpared
    UnfinishedNeedsAttention
    ImplementsOwnership
CHECK_DEADLOCK FALSE
