\* A thread from before migration 3.
SPECIFICATION Spec
CONSTANTS
    m = m
    s1 = s1
    s = s
    Procs = {m, s}
    CommandOf <- TwoKinds
    None = None
    MaxReplies = 2
    MaxOwners = 2
    Faults = TRUE
INVARIANT ReplyCountIsNumberOfReplies
