\* Requests with the token of nobody.
SPECIFICATION Spec
CONSTANTS
    Requests = {r1, r2}
    Conns = {c1}
    Identities = {i1}
    Routes <- AllRoutes
    None = None
    Faults = TRUE
INVARIANT UnmappedTokenIsForbidden
