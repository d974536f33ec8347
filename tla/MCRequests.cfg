\* All kinds of routes, three requests at a time, on two connections.
SPECIFICATION Spec
CONSTANTS
    Requests = {r1, r2, r3}
    Conns = {c1, c2}
    Identities = {i1}
    Routes <- Kinds
    None = None
    Faults = TRUE
SYMMETRY Symmetry
INVARIANTS ConnectionsAreReturned NobodyStandsStill EarliestFaultIsAnswered AnswerTellsCommit IInv
