SPECIFICATION Spec
CONSTANTS
    Tools <- MCTools
    RequiredTools <- MCRequired
    DefaultAllowed <- MCDefaultAllowed
    CallNames <- MCCallNames
    CallIds = {c1}
    MaxCalls = 1
    MaxToolIterations = 1
    MaxNudges = 1
    HasMemory = FALSE
    Compactor = "lcm"
    Trigger = 2
    MinKeep = 1
    KeepPercent = 40
    FreshTail = 3
    QueueCapacity = 1
    MaxInterrupts = 3
INVARIANTS
    ResetForgets
CHECK_DEADLOCK FALSE
