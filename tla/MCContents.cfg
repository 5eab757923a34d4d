CONSTANTS
    a = a
    b = b
    Member = {a, b}
    Author = a
    Capacity = {1, 2}
    Asked = {"yes"}
    Request = {r1, r2}
    Mortal = {r1, r2}
    Nobody = Nobody
    Returner = {b}
    Retries = 1
    MaxVersion = 2
SPECIFICATION Spec
INVARIANTS
    NoOverbooking
    AttendeesInformed
PROPERTIES
    ArchiveComplete
SYMMETRY Symmetry
CHECK_DEADLOCK FALSE
