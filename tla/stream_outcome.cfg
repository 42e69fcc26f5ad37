SPECIFICATION Spec
CONSTANTS
    Workers = {w1}
    MaxAttempts = 1
    MaxWire = 2
    MaxDrops = 0
INVARIANTS
    StreamsEndWithOutcome
CHECK_DEADLOCK FALSE
