SPECIFICATION FairSpec
CONSTANTS
    Worker = {w1, w2}
    Definition <- MCDefinition
    MaxAttempts = 2
    MaxMishaps = 1
    None = None
PROPERTIES
    HaltedProcedureCloses
CHECK_DEADLOCK FALSE
