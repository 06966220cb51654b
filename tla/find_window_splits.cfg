SPECIFICATION Spec
CONSTANTS
    Tools <- MCTools
    RequiredTools <- MCRequired
    DefaultAllowed <- MCDefaultAllowed
    CallNames <- MCCallNames
    CallIds = {c1}
    MaxCalls = 2
    MaxToolIterations = 1
    MaxNudges = 1
    HasMemory = FALSE
    Compactor = "window"
    Trigger = 2
    MinKeep = 1
    KeepPercent = 40
    FreshTail = 3
    QueueCapacity = 1
    MaxInterrupts = 2
INVARIANTS
    RequestsPaired
CHECK_DEADLOCK FALSE
