SPECIFICATION TaskSpec
CONSTANTS
    t1 = t1
    t2 = t2
    t3 = t3
    t4 = t4
    Task <- FourTasks
    MaxTasks = 2
INVARIANTS
    UnfinishedNeverEvicted
    NoTaskLeftRunning
PROPERTIES
    CancelSticksOnceRunning
    TasksEnd
CHECK_DEADLOCK FALSE
