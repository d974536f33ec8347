\* Two calls at once, one in each slot, under fairness; no symmetry.
SPECIFICATION LiveSpec
CONSTANTS
    Users = {u1, u2}
    Workspaces = {w1, w2}
    Txs = {t1, t2}
    None = None
    Faults = TRUE
    Ops = {"CreateWorkspace", "ReadWorkspace", "AddWorkspaceMember", "RemoveWorkspaceMember", "DeleteWorkspace", "DeleteUser"}
PROPERTY EveryCallAnswered
