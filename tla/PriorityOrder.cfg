SPECIFICATION Spec
CONSTANTS
    MaxAutomations = 3
    MaxPriority = 3
    MaxListed = 3
    Lists <- UserLists
    MaxOutside = 1
    PageLimit = 2
INVARIANTS
    SavedOrderIsAchieved
    FullReorderConverges
    PrefixHeld

    
CHECK_DEADLOCK FALSE
