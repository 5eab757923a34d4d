CONSTANTS
    Admin = {a1}
    Sponsor = s1
    Key = {k1}
    Batch <- Sent
    Request = {r1, r2}
    Mortal = {r1}
    Nobody = Nobody
    Limit = 2
    MaxWindow = 2
    MaxNote = 3
SPECIFICATION Spec
INVARIANTS
    AnswersHold
    LimitHolds
PROPERTIES
    DecidedIsQuiet
CHECK_DEADLOCK FALSE
