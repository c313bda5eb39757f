CONSTANTS
    Node <- Three
    Child <- None
    Spawner <- None
    MaxSpawnCount = 2
    Tag = {1, 2, 3}
    TagChoices <- Plain
    TagLimit <- NoLimits
    Rate <- NoLimits
    InitialConcurrency = 1
    MinConcurrency = 1
    MaxConcurrency = 3
SPECIFICATION Spec
INVARIANTS
    NoIdleSlot
CHECK_DEADLOCK FALSE
