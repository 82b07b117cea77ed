SPECIFICATION Spec
CONSTANTS
    Users = {u1, u2}
    Attrs = {a1, a2}
    Absent = Absent
    NoGroup = NoGroup
    MaxId = 2
SYMMETRY Symmetry
INVARIANTS
    TrackedUnlessInDoubt
    ConsistentAfterApply
PROPERTIES
    KeptMembersStay
    NeverForgottenOnError
