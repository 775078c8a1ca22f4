SPECIFICATION Spec
CONSTANTS
    misskey = misskey
    nostr = nostr
    Loop = {misskey, nostr}
    NostrLoop = {nostr}
    MaxHistory = 1
INVARIANTS
    OneImagePaid
    Presentable
    NotePostedOnce
CHECK_DEADLOCK FALSE
