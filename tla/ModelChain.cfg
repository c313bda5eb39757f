SPECIFICATION ChainSpec
CONSTANTS
    Caller <- TwoCallers
    failureThreshold = 2
    Key = {"k1", "k2"}
    Window = 1
    requestsPerMin = 1
    tokensPerMin = 2
    TokenUse = {2}
    maxRetries = 1
    ttl = 1
    maxEntries = 1
INVARIANTS
    OpenIffThresholdReached
    WindowOvershootBounded
PROPERTIES
    LimiterReopens
    ChatsReturn
    ProbeDecides
CHECK_DEADLOCK FALSE
