\* Any number of calls on accounts, two at a time.
SPECIFICATION Spec
CONSTANTS
    blank = blank
    e1 = e1
    e1x = e1x
    e2 = e2
    n1 = n1
    n2 = n2
    d = d
    s1 = s1
    s1x = s1x
    Ids = {a1, a2, a3}
    Workspaces = {w1}
    Texts <- AllTexts
    Empty = blank
    Trim <- TrimBlanks
    Emails = {e1, e1x, e2}
    Names = {n1, n2, blank}
    DisplayNames = {d}
    Subjects = {s1, s1x}
    None = None
    Txs = {t1, t2}
    Ops = {"CreateUser", "ReadUser", "ListUsers", "ReadUserProfile", "DeleteUser"}
    Faults = TRUE
SYMMETRY Symm
INVARIANTS IInv AccountsAreComplete KeysAreUnique NobodyWaitsForEver
PROPERTIES LinearizesToRegistry ProfilesAreWhole OnlyOwnAccountDeleted
CHECK_DEADLOCK FALSE
