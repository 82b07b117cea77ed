SPECIFICATION ValueSpec
CONSTANTS
    Elements = {1, 2}
    Null = Null
    Nil = Nil
    MaxEdits = 3
    MaxChanges = 2
PROPERTIES
    Consistent
    ValueConverges
CHECK_DEADLOCK FALSE
