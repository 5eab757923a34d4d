SPECIFICATION Spec
CONSTANTS
    a = a
    b = b
    Member = {a, b}
    Reader = b
    Nobody = Nobody
    MaxContent = 5
    Initial = {1, 2, 3}
    AuthorOf <- MCAuthorOf
    Loopable = {2}
    Expiring = {1}
    day = day
    week = week
    Window = {day, week}
    Length <- MCLength
    Quota <- MCQuota
    InitialQuota <- MCInitialQuota
    Limit = 2
    MaxClock = 2
    Removable = {1, 4}
    Changing = {b}
    MaxEdit = 1
INVARIANTS
    WalkSound
    ActivityCoversContents
PROPERTIES
    OverQuotaNeedsOverlap
CHECK_DEADLOCK FALSE
