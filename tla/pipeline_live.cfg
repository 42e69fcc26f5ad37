SPECIFICATION FairSpec
CONSTANTS
    Jobs = {j1, j2}
    Workers = {w1, w2}
    Threads = {t1, t2}
    NoJob = NoJob
    Backend = "redis"
    SerialRetries = TRUE
    MaxFaults = 0
PROPERTIES
    CompletedStays
    EveryJobEnds
CHECK_DEADLOCK FALSE
