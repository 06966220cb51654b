SPECIFICATION Spec
CONSTANTS
    Tools <- MCTools
    RequiredTools <- MCRequired
    DefaultAllowed <- MCDefaultAllowed
    CallNames <- MCRegisteredNames
    CallIds = {c1, c2}
    MaxCalls = 2
    MaxToolIterations = 1
    MaxNudges = 1
    HasMemory = FALSE
    Compactor = "lcm"
    Trigger = 2
    MinKeep = 1
    KeepPercent = 40
    FreshTail = 3
    QueueCapacity = 1
    MaxInterrupts = 2
INVARIANTS
    TypeOK
    RequestsPaired
    DeniedToolsNeverRun
PROPERTIES
    RequiredToolHonoured
CHECK_DEADLOCK FALSE
