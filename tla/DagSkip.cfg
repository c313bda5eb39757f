SPECIFICATION Spec
CONSTANTS
    Node <- Fan
    Deps <- FanDeps
    TopoPos <- FanTopo
    Priority <- FanPriority
    Retries <- FanRetries
    Optional = {"x", "z"}
    Conditional = {"y"}
    MayReject = {"w"}
    MayFail = {"w", "x", "z"}
    Compensatable <- No
    Idempotent <- No
    TagLimit <- TwoTags
    Tags <- FanTags
    MaxConcurrency = 2
    PriorityScheduling = TRUE
    ErrorStrategy = "Skip"
    CompensateStrategy = "none"
    MaxRetries = 0
    EarlyExit = {"y"}
    CheckpointStore = FALSE
    SaveMayFail = FALSE
    CallerMayCancel = TRUE
    ProcessMayCrash = FALSE
    MaxExecutions = 1
INVARIANTS
    CompletionsAccounted
    DependenciesFirst
    SelectNeverStarves
    ConcurrencyBounded
PROPERTIES
    ExecutionReturns
CHECK_DEADLOCK FALSE
