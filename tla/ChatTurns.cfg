SPECIFICATION FairTurns
CONSTANTS
    t1 = t1
    t2 = t2
    c1 = c1
    c2 = c2
    Turn = {t1, t2}
    Privileged = {t1}
    Call = {c1, c2}
    Delta = 1
    Amount = 10
    MaxFaults = 2
INVARIANTS
    ScoredOncePerWindow
    ScoreAccounted
    Settlement
PROPERTIES
    TurnEnds
CHECK_DEADLOCK FALSE
