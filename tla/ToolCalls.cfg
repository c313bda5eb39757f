CONSTANTS
    Call <- Two
    ToolChoices <- Pairs
    PipeCap = 1
    MaxOutput = 2
    Outputs <- Mixed
SPECIFICATION Spec
INVARIANTS
    FilesKept
    NeverStuck
    SuccessIsWhole
PROPERTIES
    CallsReturn
CHECK_DEADLOCK FALSE
