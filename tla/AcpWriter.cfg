SPECIFICATION FairSpec
CONSTANTS
    c1 = c1
    c2 = c2
    w1 = w1
    w2 = w2
    Conn = {c1, c2}
    Task = {w1, w2}
    MaxConnections = 1
    MaxQueue = 2
    MaxWrites = 4
INVARIANTS
    SentinelFits
    NothingDropped
PROPERTIES
    DrainReturns
    FailureEnds
CHECK_DEADLOCK FALSE
