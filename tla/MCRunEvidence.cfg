SPECIFICATION Spec
CONSTANTS
    PointCount = 3
    Schedule <- MCSchedule
    ChunkLimit = 2
    MaxSegments = 2
    MaxMishaps = 1
INVARIANTS
    CoverageIsDurable
    GroupFromOneExecution
    ContinuationIsAccepted
    SealedIsComplete
PROPERTIES
    SelectionIsFinal
CHECK_DEADLOCK FALSE
