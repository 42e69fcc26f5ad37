SPECIFICATION Spec
CONSTANTS
    Threads = {t1, t2}
    Admins = {a1, a2}
    NoOne = NoOne
    Costs = {1, 2}
    Limits = {2, 4}
    Settings = {0, 3}
    FirstLimit = 2
    MaxOps = 4
    MaxFaults = 1
SYMMETRY Symmetry
INVARIANTS
    TypeOK
    NeverOvercharged
    WithinLimits
CHECK_DEADLOCK FALSE
