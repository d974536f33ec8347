\* Any number of calls on messages of two accounts, three at a time.
SPECIFICATION Spec
CONSTANTS
    u1 = u1
    u2 = u2
    c1 = c1
    c2 = c2
    Users = {u1, u2}
    Channels = {c1}
    Messages = {m1, m2}
    Txs = {t1, t2, t3}
    None = None
    Owner <- OwnerEach
    Faults = FALSE
    Ops = {"SendDirectMessage", "UpdateDirectMessage", "ReadSingleDirectMessage", "ReadDirectMessagePage", "DeleteDirectMessage", "SendChannelMessage", "DeleteChannelMessage", "DeleteWorkspace", "DeleteUser"}
SYMMETRY Symm
INVARIANTS NobodyStandsStill DeadlockTakesTwoDeletions DirectMessagesNeverAborted NoDanglingMessage
PROPERTY LinearizesToMessageStore
CHECK_DEADLOCK FALSE
