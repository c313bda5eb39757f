CONSTANTS
    s1 = s1
    s2 = s2
    Sources = {s1, s2}
    Merged = Merged
    None = None
    BufSize = 1
    EventsCap = 1
SPECIFICATION Spec
INVARIANTS
    NothingLost
    EofMeansComplete
PROPERTIES
    GoroutinesEnd
    ShutdownCompletes
CHECK_DEADLOCK FALSE
