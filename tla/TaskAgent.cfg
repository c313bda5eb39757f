SPECIFICATION Spec
CONSTANTS
    Run <- TwoRuns
    maxIterations = 2
    runTokenBudget = 3
    TokenUse = {0, 2}
    MaxCalls = 2
    KeepLast = 1
    Overlap = FALSE
INVARIANTS
    CallsAnswered
    StopReasonHonest
    EndsCleanly
PROPERTIES
    HistoryKept
    RunsEnd
CHECK_DEADLOCK FALSE
