SPECIFICATION Spec
CONSTANTS
    Workers = {w1, w2}
    MaxAttempts = 2
    MaxWire = 2
    MaxDrops = 0
SYMMETRY Symmetry
INVARIANTS
    TypeOK
    FailureIsRecorded
    OutcomeHappened
CHECK_DEADLOCK FALSE
