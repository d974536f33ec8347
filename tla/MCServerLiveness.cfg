\* Two requests on two connections.
SPECIFICATION FairSpec
CONSTANTS
    Requests = {r1, r2}
    Conns = {c1, c2}
    Identities = {i1}
    Routes <- LiveKinds
    None = None
    Faults = FALSE
PROPERTIES EveryRequestAnswered CloseReturns
