CONSTANTS
    Member = {a, b}
    Request = {r1, r2}
    Mortal = {r1}
    Nobody = Nobody
    Quota = 2
    MaxMessage = 3
    MaxClock = 2
    PageSize = 1
SPECIFICATION Spec
INVARIANTS
    OneThread
    UntoldOverlapFirst
PROPERTIES
    PagesComplete
SYMMETRY Symmetry
CHECK_DEADLOCK FALSE
