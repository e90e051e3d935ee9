\* A message finalized while the reconnecting client loads the session.
SPECIFICATION ClientSpec
CONSTANTS
    None = None
    Anchor = Anchor
    OldReply = OldReply
    NewerUser = NewerUser
    LateUser = LateUser
    Regenerates = {FALSE}
    MaxMessages = 2
    MaxText = 1
    MaxHops = 1
    PersistMayFail = FALSE
    MaxDrops = 1
    UserActs = FALSE
INVARIANTS ViewConverges
CHECK_DEADLOCK FALSE
