SPECIFICATION Spec
CONSTANTS
    Lines <- MCLines
    MaxLines = 3
    URLs = {"", "u1", "u2"}
    MaxResults = 3
    Limits = {0, 1, 2, 3}
INVARIANTS
    TypeOK
    ToolsReady
    SchemaFaithful
    AnswersFaithful
CHECK_DEADLOCK FALSE
