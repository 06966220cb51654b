SPECIFICATION FairSpec
CONSTANTS
    c1 = c1
    c2 = c2
    Authors = {a1, a2}
    Admins = {a1}
    Channels = {c1, c2}
    Names <- MCNames
    ToolNames = {t1}
    QueueCapacity = 1
    MaxEvents = 3
    MaxFails = 1
    MaxCrashes = 1
CONSTRAINT FirstEvent
INVARIANTS
    TypeOK
    DispatchedIsRecorded
    NamesAreKept
    NothingShared
    GrantedByAdmin
PROPERTIES
    PersonForGood
    PromiseKept
CHECK_DEADLOCK FALSE
