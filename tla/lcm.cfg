SPECIFICATION Spec
CONSTANTS
    FreshTail = 1
    ChunkThreshold = 1
    CondensationCount = 2
    MaxDepth = 2
    MaxMessages = 7
    MaxTroubled = 5
    MaxForgets = 1
    MaxFails = 1
    MaxCrashes = 1
INVARIANTS
    TypeOK
    DiskAgrees
    DiskInOrder
    SummarisedOnce
    Chronological
    ActiveBounded
CHECK_DEADLOCK FALSE
