\* Any number of calls on channel threads, two at a time.
SPECIFICATION Spec
CONSTANTS
    u1 = u1
    u2 = u2
    c1 = c1
    c2 = c2
    Users = {u1}
    Channels = {c1, c2}
    Messages = {m1, m2, m3, m4}
    Txs = {t1, t2}
    None = None
    Owner <- OneOwner
    Faults = TRUE
    Ops = {"SendChannelMessage", "UpdateChannelMessage", "ReadSingleChannelMessage", "ReadChannelThreadReplies", "ReadChannelMessagePage", "DeleteChannelMessage", "DeleteWorkspace"}
SYMMETRY SymmWithChannels
INVARIANTS IInv ReplyCountsAreExact DeadlockTakesTwoDeletions
PROPERTY LinearizesToMessageStore
CHECK_DEADLOCK FALSE
