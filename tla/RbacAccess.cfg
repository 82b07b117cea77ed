SPECIFICATION Spec
CONSTANTS
    Resources = {r1, r2}
    Scopes = {s1, s2}
    NoScope = NoScope
    PageLimit = 1
    MaxId = 4
    MaxEdits = 3
    MaxFailures = 1
    MaxChanges = 1

    
PROPERTIES
    SnapshotFallbackOnlyWhenGone
    RecreatedOnlyWhenLost
    Converges
CHECK_DEADLOCK FALSE
