SPECIFICATION Spec
CONSTANTS
    FreshTail = 1
    ChunkThreshold = 1
    CondensationCount = 2
    MaxDepth = 2
    MaxMessages = 4
    MaxTroubled = 0
    MaxForgets = 0
    MaxFails = 0
    MaxCrashes = 0
PROPERTIES
    ContextComplete
CHECK_DEADLOCK FALSE
