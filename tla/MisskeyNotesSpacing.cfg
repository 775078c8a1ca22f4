SPECIFICATION Spec
CONSTANTS
    a = a
    b = b
    h1 = h1
    h2 = h2
    h3 = h3
    NoHandler = NoHandler
    NoNote = NoNote
    Note = {a}
    Blank = {}
    Handler = {h1}
    RecentLimit = 1
    Interval = 2
    Jitter = 1
    Persistent = TRUE
    MaxDeliveries = 2
    MaxTime = 4
    MaxStops = 0
PROPERTIES
    MinimumSeconds
CHECK_DEADLOCK FALSE
