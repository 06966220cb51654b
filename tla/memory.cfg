CONSTANTS
    c1 = c1
    c2 = c2
    p1 = p1
    p2 = p2
    Conversations = {c1, c2}
    People = {p1, p2}
    NoPerson = NoPerson
    MaxTurns = 2
    MaxWork = 4
SPECIFICATION FairSpec
CONSTRAINT FirstTurn
INVARIANTS TypeOK CallerNeverOther CapturesFaithful ToldIsTrue
PROPERTIES NothingHangs
CHECK_DEADLOCK FALSE
