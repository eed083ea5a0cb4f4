SPECIFICATION FairHardwareSpec
CONSTRAINT OverlapBound
ACTION_CONSTRAINT InOrder
CONSTANTS
    r1 = r1
    daq = daq
    t1 = t1
    t2 = t2
    c1 = c1
    c2 = c2
    c3 = c3
    Resource = {daq}
    Owner = {r1}
    Run = {r1}
    Guarded = {}
    Needs <- MCNeeds
    Executor = {e1}
    Key = {}
    PointCount = 0
    MaxSegments = 1
    MaxRuntime = 2
    MaxBeats = 1
    Call = {t1, t2}
    Context = {c1, c2, c3}
    Overlap = TRUE
    None = None
INVARIANTS
    StoredIsOwned
    OneDriver
PROPERTIES
    LiveIsSpared
    AttentionIsFreed
CHECK_DEADLOCK FALSE
