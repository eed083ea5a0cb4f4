SPECIFICATION RunSpec
SYMMETRY Executors
CONSTRAINT FewExecutions
CONSTANTS
    r1 = r1
    r2 = r2
    daq = daq
    laser = laser
    e1 = e1
    e2 = e2
    Resource = {daq, laser}
    Owner = {r1, r2}
    Run = {r1, r2}
    Guarded = {r2}
    Needs <- MCNeeds
    Executor = {e1, e2}
    Key = {key}
    PointCount = 1
    MaxSegments = 3
    MaxRuntime = 3
    MaxBeats = 0
INVARIANTS
    SingleExecution
    CoverageAttributed
    OutcomeFromLastExecutor
    CancelledNeverSucceeds
    WiringIsVouchedFor
PROPERTIES
    QuarantineNeedsDecision
CHECK_DEADLOCK FALSE
