SPECIFICATION Spec
CONSTANTS
    Threads = {t1, t2}
    Admins = {}
    NoOne = NoOne
    Costs = {1, 2}
    Limits = {4}
    Settings = {0}
    FirstLimit = 4
    MaxOps = 2
    MaxFaults = 0
INVARIANTS
    ChargesAddUp
CHECK_DEADLOCK FALSE
