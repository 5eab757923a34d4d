CONSTANTS
    Sponsor = {s1}
    Founding <- OneHome
    Applicant = {m1}
    Outsider = {x1}
    Club = {c1, c2}
    Request = {r1, r2}
    Nobody = Nobody
    OpenCap = 1
    InFlightCap = 1
    MaxInvite = 2
    MaxApp = 2
SPECIFICATION Spec
INVARIANTS
    UsedOnce
    SponsorCapHolds
    OverCapNeedsOverlap
SYMMETRY Symmetry
CHECK_DEADLOCK FALSE
