SPECIFICATION Spec
CONSTANTS
    a = a
    b = b
    own = own
    base = base
    other = other
    Names = {a, b, own}
    Values = {base, other}
    Base = base
    Null = Null
    Empty = Empty
    None = None
    Configs <- MCConfigs
    Catalogs <- MCCatalogs
    Strangers <- MCStrangers
    MaxId = 3
    MaxEdits = 2
    MaxFailures = 1
    MaxChanges = 1
INVARIANTS
    StateIsExact
PROPERTIES
    NeverLost
    
CHECK_DEADLOCK FALSE
