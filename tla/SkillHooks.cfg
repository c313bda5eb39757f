CONSTANTS
    Caller <- TwoCallers
    Skill <- TwoSkills
    Async <- TwoHooks
    ChanCap = 1
    NoSkill = "none"
    MaxOps = 3
SPECIFICATION Spec
INVARIANTS
    EventsBalance
    LifecycleAccounted
PROPERTIES
    OpsReturn
CHECK_DEADLOCK FALSE
