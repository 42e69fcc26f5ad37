SPECIFICATION Spec
CONSTANTS
    Jobs = {j1}
    Workers = {w1, w2}
    Threads = {t1, t2}
    NoJob = NoJob
    Backend = "postgres"
    SerialRetries = FALSE
    MaxFaults = 0
PROPERTIES
    CompletedStays
CHECK_DEADLOCK FALSE
