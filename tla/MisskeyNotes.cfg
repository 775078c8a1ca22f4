SPECIFICATION FairSpec
CONSTANTS
    a = a
    b = b
    h1 = h1
    h2 = h2
    h3 = h3
    NoHandler = NoHandler
    NoNote = NoNote
    Note = {a, b}
    Blank = {b}
    Handler = {h1, h2, h3}
    RecentLimit = 1
    Interval = 3
    Jitter = 1
    Persistent = TRUE
    MaxDeliveries = 3
    MaxTime = 4
    MaxStops = 1
INVARIANTS
    OneReply
PROPERTIES
    MentionProceeds
    AutoRepliesSpaced
    TasksEnd
CHECK_DEADLOCK FALSE
