SPECIFICATION Spec
CONSTANTS
    w1 = w1
    w2 = w2
    j1 = j1
    j2 = j2
    Workers = {w1, w2}
    Jobs = {j1, j2}
    TickerOf <- MCTickers
    DateOf <- MCDates
    MaxEntries = 1
    NSame = 1
    NCross = 1
    Files = {"2_research/bear.md", "complete_report.md"}
    TreeOf <- MCTreeOf
    DeleteLocal = TRUE
    MaxSecond = 3
    MaxAttempts = 2
    MaxRuns = 3
    MaxFaults = 1
SYMMETRY Symmetry
INVARIANTS
    TypeOK
    DecisionsKept
    ReflectionMatches
    ContextIsRecent
    ReportIsOwn
PROPERTIES
    WritesAreAtomic
CHECK_DEADLOCK FALSE
