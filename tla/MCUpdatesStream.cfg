SPECIFICATION FairSpec
CONSTANTS
    None = None
    MaxRows <- MCMaxRows
    MaxConn = 2
    Hideable = {"inbox"}
    Limit = 2
    MaxStreams = 1
INVARIANTS
    NoDuplicates
    NothingSkipped
PROPERTIES
    CatchesUp
    RevokedStreamsEnd
CHECK_DEADLOCK FALSE
