--------------------------- MODULE MCWorkspaceTxns ---------------------------
(***************************************************************************)
(* Model checking of WorkspaceTxns.                                        *)
(***************************************************************************)
EXTENDS WorkspaceSafety, Naturals, FiniteSets, TLC

Symm == Permutations(Users) \cup Permutations(Workspaces) \cup Permutations(Txs)

\* Any directory that the services can have left.
AnyDirectory ==
    /\ db \in {S \in SUBSET Rows : Consistent(S) /\ \A u \in Users : UserRow(u) \in S}
    /\ call = [t \in Txs |-> NoCall]
    /\ tx = [t \in Txs |-> NoTx]

\* Bound: there are as many unused ids as requests about to draw one, so that a
\* CreateWorkspace never waits for an id.
IdsLeft ==
    Cardinality({t \in Txs : tx[t].pc = "CreateWorkspace"})
        <= Cardinality({w \in Workspaces : Fresh(w)})

OneCallEach ==
    \E t \in Txs : (Arrive(t) /\ IdsLeft') \/ Step(t) \/ Failure(t) \/ CommitLost(t)

\* The server stops when every slot has had its call, or when nobody is left
\* who can make one.
Finished ==
    /\ \A t \in Txs : call[t].resp \in Responses \/ (call[t] = NoCall /\ ~ENABLED Arrive(t))
    /\ UNCHANGED vars

\* Bound: one call in each slot.
OnceSpec == AnyDirectory /\ [][OneCallEach \/ Finished]_vars

LiveSpec == OnceSpec /\ Fairness
=============================================================================
