SPECIFICATION MCSpec
CONSTANTS
    c1 = c1
    c2 = c2
    p1 = p1
    p2 = p2
    p3 = p3
    s1 = s1
    s2 = s2
    s3 = s3
    NoPrompt = NoPrompt
    NoConn = NoConn
    NoSession = NoSession
    Session = {s1, s2}
    Prompt = {p1, p2, p3}
    Conn = {c1, c2}
    MaxSessions = 1
    HistoryTurns = 1
INVARIANTS
    SawWholeConversation
    CancelTold
    CancelHolds
    NothingLeftBehind
    SlotsKept
PROPERTIES
    Answered
CHECK_DEADLOCK FALSE
