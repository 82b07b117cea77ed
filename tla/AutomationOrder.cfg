SPECIFICATION OwnersSpec
CONSTANTS
    Count = 4
    MaxLegacy = 4
    MaxEntries = 3
    MaxFailures = 1
INVARIANTS
    FewApplies
PROPERTIES
    HeldListStays
    Converges
CHECK_DEADLOCK FALSE
