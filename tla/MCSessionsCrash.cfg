SPECIFICATION SessionSpec
CONSTANTS
    s1 = s1
    s2 = s2
    daq = daq
    laser = laser
    Resource = {daq, laser}
    Owner = {s1, s2}
    Session = {s1, s2}
    Needs <- MCNeeds
PROPERTIES
    UnknownEffectIsQuarantined
CHECK_DEADLOCK FALSE
