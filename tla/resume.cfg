\* A first turn or a regenerate, watched over a connection lost once, at any point, by a user who may stop it and post.
SPECIFICATION ClientFairSpec
CONSTANTS
    None = None
    Anchor = Anchor
    OldReply = OldReply
    NewerUser = NewerUser
    LateUser = LateUser
    Regenerates = {TRUE, FALSE}
    MaxMessages = 2
    MaxText = 2
    MaxHops = 1
    PersistMayFail = FALSE
    MaxDrops = 1
    UserActs = TRUE
INVARIANTS ConvergesUnlessStale NoTextTwice LiveTailShown
PROPERTIES SpinnerStops
CHECK_DEADLOCK FALSE
