SPECIFICATION Spec
CONSTANTS
    a = a
    Values = {a}
    Null = Null
    Empty = Empty
    None = None
    Configs <- MCConfigs
    MaxId = 3
    MaxEdits = 2
    MaxFailures = 1
    MaxChanges = 1
INVARIANTS
    StateIsExact
PROPERTIES
    NeverLost
    Converges
CHECK_DEADLOCK FALSE
