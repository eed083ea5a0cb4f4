SPECIFICATION FairSpec
CONSTRAINT PlainEnd
CONSTANTS
    r1 = r1
    r2 = r2
    s1 = s1
    s2 = s2
    daq = daq
    laser = laser
    Resource = {daq, laser}
    Run = {r1}
    Guarded = {}
    Needs <- MCSeparateNeeds
    Executor = {e1}
    Key = {}
    PointCount = 0
    MaxSegments = 1
    MaxRuntime = 1
    MaxBeats = 0
    Owner = {r1, s1, s2}
    Session = {s1, s2}
PROPERTIES
    ExpiredIsFenced
    UnknownEffectIsQuarantined
CHECK_DEADLOCK FALSE
