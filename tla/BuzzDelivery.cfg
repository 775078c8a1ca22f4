SPECIFICATION FairDelivery
CONSTANTS
    m1 = m1
    m2 = m2
    m3 = m3
    thread = thread
    direct = direct
    NoEvent = NoEvent
    Event = {m1, m2, m3}
    Conversation = {thread, direct}
    ConversationOf <- MCConversationOf
    CreatedAt <- MCCreatedAt
    Provisioned = 1
    PendingLimit = 2
    DedupLimit = 2
    ConversationLimit = 1
    HistoryTurns = 2
    Slack = 1
    MaxStops = 1
    MaxDrops = 1
    MaxRemovals = 1
    MaxAdmissions = 1
INVARIANTS
    OneReplyPerAdmission
    HistoryConfirmed
    RecordedOnce
    HistoryOrdered
    Bounded
PROPERTIES
    NoRepublish
    ImplementsPromise
    EventuallySettled
CHECK_DEADLOCK FALSE
