------------------------------ MODULE MCMessages ------------------------------
(***************************************************************************)
(* Model checking of Messages.                                             *)
(***************************************************************************)
EXTENDS MessagesSafety, TLC

CONSTANTS u1, u2, c1, c2

\* One account owns every workspace, or each has one.
OneOwner  == [c \in Channels |-> u1]
OwnerEach == [c \in Channels |-> IF c = c1 THEN u1 ELSE u2]

Symm == Permutations(Messages) \cup Permutations(Txs)
SymmWithChannels == Symm \cup Permutations(Channels)

\* Any store with an unused id that calls can have left: no reply is older than its
\* root.
AnyStore ==
    \E sent \in SUBSET Messages \ {Messages} :
        /\ db = Users \cup Channels \cup sent
        /\ row \in [Messages -> {NoRow} \cup {NewRow(r) : r \in Requests}]
        /\ \A m \in Messages : row[m] = NoRow <=> m \notin sent
        /\ NoDanglingMessage
        /\ \A m \in sent : row[m].author # None /\ row[m].author # row[m].to
                           /\ m \notin Cascade(db, row, Replies(db, row, m))
        /\ count = [m \in Messages |-> Cardinality(Replies(db, row, m))]
        /\ call = [t \in Txs |-> NoCall]
        /\ tx = [t \in Txs |-> NoTx]

\* Bound: one call in each slot.
Finished == (\A t \in Txs : call[t].resp \in Responses) /\ UNCHANGED vars
OneCallEach == \E t \in Txs : Arrive(t) \/ Step(t) \/ Failure(t) \/ CommitLost(t)
LiveSpec == AnyStore /\ [][OneCallEach \/ Finished]_vars /\ Fairness
=============================================================================
