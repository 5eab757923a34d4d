SPECIFICATION LiveSpec
CONSTANTS
    c1 = c1
    c2 = c2
    g1 = g1
    g2 = g2
    ta = ta
    tb = tb
    Empty = Empty
    Removed = Removed
    Content = {c1}
    Club = {g1}
    ClubOf <- MCClubOf
    MaxVersion = 3
    Text = {ta, tb, Empty}
    TextOf <- MCChainTextOf
    Worker = {w1}
    BatchSize = 2
    MaxAttempts = 1
    MaxFaults = 1
INVARIANTS
    EmbeddingMatchesVersion
    NoCurrentForgotten
    OnlyFaultsCount
PROPERTIES
    EveryVersionSettles
CHECK_DEADLOCK FALSE
