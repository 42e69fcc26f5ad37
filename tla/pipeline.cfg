SPECIFICATION Spec
CONSTANTS
    Jobs = {j1, j2}
    Workers = {w1, w2}
    Threads = {t1, t2}
    NoJob = NoJob
    Backend = "postgres"
    SerialRetries = TRUE
    MaxFaults = 1
SYMMETRY Symmetry
INVARIANTS
    TypeOK
    Exclusive
    NoLostUpdate
    NoGhostJobs
    NothingStranded
    OutcomeRecorded
    ChargedOnce
PROPERTIES
    LifecycleSpec
CHECK_DEADLOCK FALSE
