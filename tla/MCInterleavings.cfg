\* Any number of calls, two at a time, statements and connections failing.
SPECIFICATION Spec
CONSTANTS
    Users = {u1, u2, u3}
    Workspaces = {w1, w2}
    Txs = {t1, t2}
    None = None
    Faults = TRUE
    Ops = {"CreateWorkspace", "ReadWorkspace", "AddWorkspaceMember", "RemoveWorkspaceMember", "DeleteWorkspace", "DeleteUser"}
SYMMETRY Symm
INVARIANTS IInv OneOwner OwnerCheckStillValid ReadListIsCurrent
PROPERTIES ChangesAreAuthorized LockedWorkspaceIsStable LinearizesToDirectory
CHECK_DEADLOCK FALSE
