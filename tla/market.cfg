CONSTANTS
    Threads = {t1, t2}
    t1 = t1
    t2 = t2
    Deployments <- MCDeployments
    MaxStale = 1
    LookBack = 1
    MaxRetries = 3
    DayTicks = 2
    CloseTick = 1
    TTL = 0
    MaxTick = 4
    MaxCalls = 2
SPECIFICATION Spec
SYMMETRY Symmetry
INVARIANTS
    TypeOK
    NoLookAhead
    PricesAreCurrent
    VerdictIsEarned
CHECK_DEADLOCK FALSE
