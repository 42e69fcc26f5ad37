SPECIFICATION Spec
CONSTANTS
    Requests <- MCRequests
    RecursionLimit = 14
    MaxAttempts = 2
INVARIANTS
    TypeOK
    StepsAccounted
    FullDebates
    ShownIsDone
    ToolsAttributed
    VerdictShown
    CompletedIsComplete
PROPERTIES
    NoStepBack
CHECK_DEADLOCK FALSE
