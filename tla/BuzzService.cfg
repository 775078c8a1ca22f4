SPECIFICATION FairSpec
CONSTANTS
    c1 = c1
    c2 = c2
    ann = ann
    bob = bob
    ann1 = ann1
    ann2 = ann2
    bob1 = bob1
    Caller = {c1, c2}
    Owner = {ann, bob}
    Auth = {ann1, ann2, bob1}
    OwnerOf <- MCOwnerOf
    NoOwner = NoOwner
    NoAuth = NoAuth
    NoCaller = NoCaller
    MaxCalls = 5
    MaxStops = 1
INVARIANTS
    LaneOnlyActive
    ServedUnlessCut
    OneRunner
PROPERTIES
    LockFreed
CHECK_DEADLOCK FALSE
