SPECIFICATION Spec
CONSTANTS
    Node <- Pair
    Deps <- PairDeps
    TopoPos <- PairTopo
    Priority <- PairZero
    Retries <- PairZero
    Optional <- No
    Conditional <- No
    MayReject <- No
    MayFail <- Pair
    Compensatable <- Pair
    Idempotent <- No
    TagLimit <- NoTags
    Tags <- PairNoTags
    MaxConcurrency = 0
    PriorityScheduling = FALSE
    ErrorStrategy = "Compensate"
    CompensateStrategy = "BackwardCompensate"
    MaxRetries = 0
    EarlyExit <- No
    CheckpointStore = FALSE
    SaveMayFail = FALSE
    CallerMayCancel = FALSE
    ProcessMayCrash = FALSE
    MaxExecutions = 1
INVARIANTS
    SagaComplete
CHECK_DEADLOCK FALSE
