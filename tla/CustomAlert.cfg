SPECIFICATION Spec
CONSTANTS
    Rules = {r1, r2}
    Frameworks = {f1, f2}
    Texts = {t1}
    NoText = NoText
    Unset = Unset
    None = None
    MaxId = 2
    MaxEdits = 2
    MaxFailures = 1
    MaxChanges = 1
INVARIANTS
    StateIsExact
    NeverMixed
PROPERTIES
    NeverLost
    Converges
CHECK_DEADLOCK FALSE
