SPECIFICATION FairSpec
CONSTANTS
    Nobody = Nobody
    c1 = c1
    c2 = c2
    c3 = c3
    club = club
    day = day
    week = week
    Call <- MCCall
    Club <- MCClub
    ClubOf <- MCClubOf
    Window <- MCWindow
    WindowLen <- MCWindowLen
    WindowMax <- MCWindowMax
    Estimates <- MCEstimates
    Actuals <- MCActuals
    TTL = 1
    MaxTime = 3
INVARIANTS
    OverrunExplained
PROPERTIES
    CountStaysCurrent
    SettledIsFinal
    HeldCapacityReturns
CHECK_DEADLOCK FALSE
