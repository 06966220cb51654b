SPECIFICATION FairSpec
CONSTANTS
    Tools <- MCTools
    RequiredTools <- MCRequired
    DefaultAllowed <- MCDefaultAllowed
    CallNames <- MCCallNames
    CallIds = {c1}
    MaxCalls = 1
    MaxToolIterations = 2
    MaxNudges = 1
    HasMemory = TRUE
    Compactor = "window"
    Trigger = 2
    MinKeep = 1
    KeepPercent = 40
    FreshTail = 3
    QueueCapacity = 1
    MaxInterrupts = 3
INVARIANTS
    TurnLeavesAnswer
    RequestBudget
    ResetForgets
PROPERTIES
    InterruptsInOrder
    EveryInterruptBegun
CHECK_DEADLOCK FALSE
