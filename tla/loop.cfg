SPECIFICATION FairSpec
CONSTANTS
    Conversations = {c1, c2, c3}
    Capacity = 2
    QueueCapacity = 2
    MaxInterrupts = 4
    NoTurn = NoTurn
INVARIANTS
    DaemonTypeOK
    EndsDrained
PROPERTIES
    TranscriptsKept
    NoneGoesOnAlone
CHECK_DEADLOCK FALSE
