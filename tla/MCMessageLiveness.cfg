\* Two calls at once, one in each slot, on any store, under fairness; no symmetry.
SPECIFICATION LiveSpec
CONSTANTS
    u1 = u1
    u2 = u2
    c1 = c1
    c2 = c2
    Users = {u1}
    Channels = {c1, c2}
    Messages = {m1, m2, m3}
    Txs = {t1, t2}
    None = None
    Owner <- OneOwner
    Faults = TRUE
    Ops = {"SendChannelMessage", "UpdateChannelMessage", "DeleteChannelMessage", "DeleteWorkspace", "DeleteUser"}
PROPERTY EveryCallAnswered
