SPECIFICATION Spec
CONSTANTS
    Filters = {f1}
    Texts = {d1}
    Null = Null
    Empty = Empty
    NoAutomation = NoAutomation
    Others = 2
    OwnIds = 2
    MaxPriority = 3
    MaxLegacy = 2
    MaxEdits = 2
    MaxFailures = 1
    MaxOutside = 1
INVARIANTS
    RecordedPriorityIsHeld
PROPERTIES
    DescribedPriorityEditKeepsPaused
    Converges
CHECK_DEADLOCK FALSE
