\* Three calls at once, one in each slot, against any directory.
SPECIFICATION OnceSpec
CONSTANTS
    Users = {u1, u2}
    Workspaces = {w1, w2}
    Txs = {t1, t2, t3}
    None = None
    Faults = FALSE
    Ops = {"CreateWorkspace", "ReadWorkspace", "AddWorkspaceMember", "RemoveWorkspaceMember", "DeleteWorkspace", "DeleteUser"}
SYMMETRY Symm
INVARIANTS NobodyStandsStill DeadlockTakesTwoAccountDeletions CreatesAndReadsNeverAborted
