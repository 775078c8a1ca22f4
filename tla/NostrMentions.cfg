SPECIFICATION MCSpec
CONSTANTS
    e1 = e1
    e2 = e2
    e3 = e3
    e4 = e4
    h1 = h1
    h2 = h2
    NoEvent = NoEvent
    Event = {e1, e2, e3, e4}
    Mention = {e2, e3, e4}
    Worlds <- MCWorlds
    Handler = {h1, h2}
    MaxContext = 2
    RecentLimit = 1
    MaxDeliveries = 4
    MaxStops = 1
SYMMETRY Slots
INVARIANTS
    SharedOnlyIfComplete
    AnsweredInScope
    OneReply
CHECK_DEADLOCK FALSE
