SPECIFICATION Spec
CONSTANTS
    Node <- Diamond
    Deps <- DiamondDeps
    TopoPos <- DiamondTopo
    Priority <- DiamondZero
    Retries <- DiamondZero
    Optional <- No
    Conditional = {"b"}
    MayReject = {"c"}
    MayFail <- Diamond
    Compensatable = {"a", "b", "c"}
    Idempotent = {"a"}
    TagLimit <- NoTags
    Tags <- DiamondNoTags
    MaxConcurrency = 2
    PriorityScheduling = FALSE
    ErrorStrategy = "Compensate"
    CompensateStrategy = "ForwardRecovery"
    MaxRetries = 1
    EarlyExit <- No
    CheckpointStore = TRUE
    SaveMayFail = TRUE
    CallerMayCancel = FALSE
    ProcessMayCrash = TRUE
    MaxExecutions = 2
INVARIANTS
    RollbackInReverse
    CheckpointsStandForEffects
PROPERTIES
    ImplementsContract
    CheckpointedNotRerun
CHECK_DEADLOCK FALSE
