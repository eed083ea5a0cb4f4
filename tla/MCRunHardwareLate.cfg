SPECIFICATION HardwareSpec
SYMMETRY CallsAndContexts
CONSTANTS
    r1 = r1
    daq = daq
    t1 = t1
    t2 = t2
    c1 = c1
    c2 = c2
    c3 = c3
    Resource = {daq}
    Owner = {r1}
    Run = {r1}
    Guarded = {}
    Needs <- MCNeeds
    Executor = {e1}
    Key = {}
    PointCount = 0
    MaxSegments = 3
    MaxRuntime = 1
    MaxBeats = 0
    Call = {t1, t2}
    Context = {c1, c2, c3, c4}
    Overlap = FALSE
    None = None
INVARIANTS
    ClosedRunLetsGo
CHECK_DEADLOCK FALSE
