SPECIFICATION Spec
CONSTANTS
    Lines <- MCLines
    MaxLines = 1
    URLs = {"", "u1"}
    MaxResults = 1
    Limits = {0, 1}
INVARIANTS
    LengthInCharacters
CHECK_DEADLOCK FALSE
