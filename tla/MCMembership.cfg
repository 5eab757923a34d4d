CONSTANTS
    o = o
    x = x
    t1 = t1
    t2 = t2
    Nobody = Nobody
    Member = {o, x}
    Creator = o
    Request = {t1, t2}
    Applicant = {x}
    Caps = {1, 2}
    Ops = {"status", "role", "owner", "add", "cap", "apply", "settle", "accept"}
    MaxRow = 2
    MaxVersion = 3
    MaxClubVersion = 2
    MaxApp = 2
SPECIFICATION Spec
SYMMETRY Symmetry
INVARIANTS
    CapRespected
    OwnerStaysActive
    
PROPERTIES
    TransitionsLegal
    DecisionStands
CHECK_DEADLOCK FALSE
