SPECIFICATION MCSpec
CONSTANTS
    lane = lane
    e1 = e1
    e2 = e2
    s1 = s1
    s2 = s2
    x = x
    y = y
    Member = Member
    Nobody = Nobody
    Client = {lane}
    Event = {e1, e2}
    Sub = {s1, s2}
    Channel = {x, y}
    MaxLive = 1
    MaxFaults = 1
    MaxChanges = 1
INVARIANTS
    ConfirmedIsStored
    ResultComplete
    ReadyIsLive
PROPERTIES
    Follows
CHECK_DEADLOCK FALSE
