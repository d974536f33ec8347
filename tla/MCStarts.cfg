\* A migration and two servers, one of which migrates, start, fail, die and start again.
SPECIFICATION FairSpec
CONSTANTS
    m = m
    s1 = s1
    s = s
    Procs = {m, s1, s}
    CommandOf <- ThreeKinds
    None = None
    MaxReplies = 1
    MaxOwners = 2
    Faults = TRUE
INVARIANTS SchemaMatchesVersion ServesLatestSchema IInv
PROPERTIES SchemaMovesForward EveryStartEnds
