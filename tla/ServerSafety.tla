----------------------------- MODULE ServerSafety -----------------------------
(***************************************************************************)
(* Correctness of Server.                                                  *)
(***************************************************************************)
EXTENDS Server

\* The variables have their types.
TypeOK ==
    /\ rq \in [Requests ->
          [place : Places, route : AllRoutes, id : Identities \cup {None}, good : BOOLEAN,
           found : BOOLEAN, conn : Conns \cup {None}, on : Requests \cup {None},
           gone : BOOLEAN, done : BOOLEAN, status : Statuses]]
    /\ idle \subseteq Conns
    /\ registered \subseteq Identities
    /\ server \in {"serving", "closing", "gone"}

Busy == {rq[r].conn : r \in Requests} \ {None}

\* Every connection is idle or with one request, which is in the middle of a query or a
\* transaction: no early return, lost client or failing statement keeps one (db.go:37-38,
\* "The caller must commit or roll back the transaction").
ConnectionsAreReturned ==
    /\ idle = Conns \ Busy
    /\ \A r \in Requests : rq[r].conn # None <=> rq[r].place \in Holding
    /\ \A r, s \in Requests : r # s /\ rq[r].conn # None => rq[r].conn # rq[s].conn

\* Who waits for a connection has none, and no transaction waits for it; who waits for a
\* transaction waits for one that has its connection. So requests that wait for the pool
\* and for each other's locks never form a circle, however small the pool.
NobodyHoldsAndWaits ==
    \A r \in Requests :
        /\ rq[r].place \in Waiting =>
              rq[r].conn = None /\ \A s \in Requests : rq[s].on # r
        /\ rq[r].on # None =>
              /\ rq[r].on # r
              /\ rq[rq[r].on].place \in {"tx", "blocked", "statements", "commit"}

\* However small the pool, and whatever waits for whom: requests never stand still
\* together. While one waits for a connection there is an idle one, or a request that has
\* one and goes on; while one waits for a transaction, another transaction goes on.
NobodyStandsStill ==
    /\ (\E r \in Requests : rq[r].place \in Waiting) /\ Conns # {} =>
          idle # {} \/ \E r \in Requests : rq[r].place \in Holding \ {"blocked"}
    /\ (\E r \in Requests : rq[r].place = "blocked") =>
          \E r \in Requests : rq[r].place \in {"tx", "statements", "commit"}

\* There is no circle among those who wait for transactions.
WaitsEnd == \A S \in SUBSET Requests : S # {} => \E r \in S : rq[r].on \notin S

\* "401: missing or invalid bearer token", "403: ... lacks a required local identity",
\* "400: ... invalid input" (docs/api/README.md:49-51): a bad token is answered with 401
\* whatever else is wrong, with the input or the database, and nothing but a bad token
\* is; bad input of a caller with an account is answered with 400 or, when the caller
\* could not be looked up, with 500.
EarliestFaultIsAnswered ==
    \A r \in Requests : rq[r].place = "answered" =>
        /\ rq[r].status = 401 <=> NeedsToken(rq[r].route) /\ rq[r].id = None
        /\ ~rq[r].good /\ (rq[r].found \/ (rq[r].route = "CreateUser" /\ rq[r].id # None)) =>
              rq[r].status = 400
        /\ rq[r].status = 400 => ~rq[r].good

\* A success is answered only after a commit, and a refusal only without one: when the
\* client goes away, a commit fails or the pool closes, the handler says 500.
AnswerTellsCommit ==
    \A r \in Requests : rq[r].place = "answered" /\ rq[r].status # 500 =>
        (rq[r].done <=> rq[r].status \in Successes /\ rq[r].route \in ByActor \cup {"CreateUser"})

\* A transaction runs only for a request with a valid token and good input and, but for a
\* registration, with an account that was found for the token.
OnlyCallersReachServices ==
    \A r \in Requests : rq[r].place \in {"tx", "blocked", "statements", "commit"} \/ rq[r].done =>
        /\ rq[r].id # None /\ rq[r].good
        /\ rq[r].found \/ rq[r].route = "CreateUser"

\* Every request is answered, or ends with its process.
EveryRequestAnswered ==
    \A r \in Requests : rq[r].place # "free" ~> rq[r].place \in {"answered", "free"}

\* Close waits for requests that have connections, and they do not wait for it.
CloseReturns == server = "closing" ~> server = "gone"

\* "A valid access token must map to a local user for the request to be authorized;
\* otherwise, the service returns `403 Forbidden`" (docs/api/README.md:26).
UnmappedTokenIsForbidden ==
    \A r \in Requests :
        /\ rq[r].place = "answered" /\ rq[r].status # 500
        /\ NeedsToken(rq[r].route) /\ rq[r].id # None /\ ~rq[r].found
        /\ rq[r].route # "CreateUser"
        => rq[r].status = 403

\* What keeps the above: the stages that a request has passed.
IInv ==
    /\ TypeOK
    /\ ConnectionsAreReturned
    /\ NobodyHoldsAndWaits
    /\ EarliestFaultIsAnswered
    /\ AnswerTellsCommit
    /\ OnlyCallersReachServices
    /\ \A r \in Requests :
          /\ rq[r].on # None <=> rq[r].place = "blocked"
          /\ rq[r].done => rq[r].place = "answered"
          /\ rq[r].good \/ rq[r].route \in HasInput
          /\ rq[r].place \in {"want identity", "identity"} =>
                rq[r].id # None /\ rq[r].route \in ByActor \cup {"Me"} /\ ~rq[r].found
          /\ rq[r].place = "token" => NeedsToken(rq[r].route) /\ ~rq[r].found
          /\ rq[r].place = "input" =>
                rq[r].route \in HasInput
                /\ (NeedsToken(rq[r].route) => rq[r].id # None)
                /\ (rq[r].route \in ByActor => rq[r].found)
          /\ rq[r].place \in {"want query", "query"} =>
                /\ rq[r].good /\ rq[r].route \notin ByActor \cup {"CreateUser"}
                /\ NeedsToken(rq[r].route) => rq[r].id # None
          /\ rq[r].place = "want tx" =>
                /\ rq[r].good /\ rq[r].id # None
                /\ rq[r].found \/ rq[r].route = "CreateUser"
          /\ rq[r].place \in {"want tx", "tx", "blocked", "statements", "commit"} =>
                rq[r].route \in ByActor \cup {"CreateUser"}
=============================================================================
