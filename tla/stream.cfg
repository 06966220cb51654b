SPECIFICATION FairSpec
CONSTANTS
    BufferSize = 1
    ArgPieces = 2
    MaxCalls = 2
    MaxTexts = 2
    MaxEvents = 4
INVARIANTS
    TypeOK
    NothingLost
    ArgumentsAreOwn
PROPERTIES
    CompletionKept
    IterationEnds
CHECK_DEADLOCK FALSE
