\* A turn at the tail or in the middle of the history: up to five messages, two hops.
SPECIFICATION FairSpec
CONSTANTS
    None = None
    Anchor = Anchor
    OldReply = OldReply
    NewerUser = NewerUser
    LateUser = LateUser
    Regenerates = {TRUE, FALSE}
    MaxMessages = 5
    MaxText = 2
    MaxHops = 2
    PersistMayFail = TRUE
INVARIANTS DurableOrder CatchUpComplete ReplayPlaceable NothingLost
PROPERTIES InterruptEnds
CHECK_DEADLOCK FALSE
