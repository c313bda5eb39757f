CONSTANTS
    Node <- Three
    Child <- Two
    Spawner <- OneSpawner
    MaxSpawnCount = 2
    Tag = {1, 2, 3}
    TagChoices <- Assignments
    TagLimit <- OneSlotEach
    Rate <- Buckets
    InitialConcurrency = 2
    MinConcurrency = 1
    MaxConcurrency = 3
SPECIFICATION Spec
INVARIANTS
    SlotsAccounted
    LeftoversCancelled
PROPERTIES
    NodesFinish
CHECK_DEADLOCK FALSE
