SPECIFICATION DeliverySpec
CONSTANTS
    m1 = m1
    m2 = m2
    m3 = m3
    thread = thread
    direct = direct
    NoEvent = NoEvent
    Event = {m1}
    Conversation = {thread}
    ConversationOf <- MCConversationOf
    CreatedAt <- MCCreatedAt
    Provisioned = 0
    PendingLimit = 1
    DedupLimit = 1
    ConversationLimit = 1
    HistoryTurns = 1
    Slack = 1
    MaxStops = 1
    MaxDrops = 0
    MaxRemovals = 0
    MaxAdmissions = 1
INVARIANTS
    CrashNeverRegenerates
CHECK_DEADLOCK FALSE
