SPECIFICATION Spec
SYMMETRY Executors
CONSTANTS
    left = left
    right = right
    Regions <- MCRegions
    InitialPoints <- MCInitial
    PointLimit = 3
    RegionLimit = 2
    ProposalLimit = 1
    MaxSize = 1
    RequestId = {q1}
    Executor = {e1, e2}
    MaxMishaps = 1
    None = None
INVARIANTS
    PlanLeadsExecutors
    AnswersAreTrue
    SuccessIsWholePlan
CHECK_DEADLOCK FALSE
