-------------------------------- MODULE Server --------------------------------
(***************************************************************************)
(* The HTTP server: the routes and their handlers, from the token to the   *)
(* status, over a pool of few connections, with clients that go away, a    *)
(* listener that fails, Close and a process that is killed.  What a        *)
(* transaction finds is left to the modules of the services: here it may   *)
(* be refused in any way its service can refuse it, and may wait once for  *)
(* any other transaction, never in a circle (PostgreSQL breaks those).     *)
(***************************************************************************)
EXTENDS Naturals

CONSTANTS
    Requests,    \* the requests in progress at one time
    Conns,       \* the connections of the pool
    Identities,  \* the identities in valid tokens
    Routes,      \* the routes that are requested
    None,        \* no token, no connection, nobody
    Faults       \* whether statements and connections can fail

Public  == {"Healthz", "Readyz", "ListUsers", "GetUser"}
ByActor == {"DeleteUser", "CreateWorkspace", "GetWorkspace", "AddWorkspaceMember",
            "RemoveWorkspaceMember", "DeleteWorkspace"}
HasInput == ByActor \cup {"GetUser", "CreateUser"}
AllRoutes == Public \cup ByActor \cup {"CreateUser", "Me"}

ASSUME RoutesAreKnown  == Routes \subseteq AllRoutes
ASSUME NoneIsNone      == None \notin Requests \cup Conns \cup Identities
ASSUME FaultsIsBoolean == Faults \in BOOLEAN

VARIABLES
    rq,          \* rq[r]: a request and how far its handler is
    idle,        \* the idle connections
    registered,  \* the identities that have an account
    server       \* the process: serving, closing its pool, or gone

vars == <<rq, idle, registered, server>>

NeedsToken(route) == route \notin Public

\* Places of a handler; in the last row it has a connection.
Waiting == {"want identity", "want query", "want tx"}
Holding == {"identity", "query", "tx", "blocked", "statements", "commit"}
Places  == {"free", "token", "input", "answered"} \cup Waiting \cup Holding
Successes == {200, 201, 204}
Statuses == {0, 400, 401, 403, 404, 409, 500, 503} \cup Successes

\* What the services refuse a transaction with, as writeError maps it.
Refusals(route) ==
    CASE route = "CreateUser"            -> {409}
      [] route = "DeleteUser"            -> {404, 500}
      [] route = "CreateWorkspace"       -> {500}
      [] route \in {"AddWorkspaceMember", "RemoveWorkspaceMember"} -> {403, 404, 409}
      [] OTHER                           -> {403, 404}
Success(route) ==
    CASE route \in {"CreateUser", "CreateWorkspace", "AddWorkspaceMember"} -> 201
      [] route \in {"DeleteUser", "RemoveWorkspaceMember", "DeleteWorkspace"} -> 204
      [] OTHER -> 200

NoRequest == [place |-> "free", route |-> "Healthz", id |-> None, good |-> TRUE,
              found |-> FALSE, conn |-> None, on |-> None, gone |-> FALSE, done |-> FALSE,
              status |-> 0]

Init ==
    /\ rq = [r \in Requests |-> NoRequest]
    /\ idle = Conns
    /\ registered \in SUBSET Identities
    /\ server = "serving"

Goto(r, place) == rq' = [rq EXCEPT ![r].place = place]

\* Who waits for a transaction goes on when it ends.
Wake(x) == [x EXCEPT !.on = None, !.place = "statements"]

Answered(x, status, done) ==
    [x EXCEPT !.place = "answered", !.status = status, !.done = done, !.on = None, !.conn = None]

WithAnswer(r, status, done) ==
    [q \in Requests |-> IF q = r            THEN Answered(rq[q], status, done)
                        ELSE IF rq[q].on = r THEN Wake(rq[q])
                                            ELSE rq[q]]

\* Mutant: an error path leaves without the rollback.
EndWithoutRollback(r, status, done) ==
    /\ rq' = WithAnswer(r, status, done)
    /\ idle' = IF status \in Successes THEN idle \cup ({rq[r].conn} \ {None}) ELSE idle

\* The handler writes its status; a transaction that is open is rolled back before, on a
\* connection that goes back to the pool, or is replaced when the rollback fails.
End(r, status, done) ==
    /\ rq' = WithAnswer(r, status, done)
    /\ idle' = idle \cup ({rq[r].conn} \ {None})

Answer(r, status) == End(r, status, FALSE)

\* The context is cancelled, or the database does not answer.
Broken(r) == Faults \/ rq[r].gone

-----------------------------------------------------------------------------
(* Requests and their checks. *)

FirstPlace(route) ==
    CASE NeedsToken(route) -> "token" [] route = "GetUser" -> "input" [] OTHER -> "want query"

\* The mux calls the handler; while the pool closes, on connections kept alive.
Arrive(r) ==
    /\ server # "gone" /\ rq[r].place = "free"
    /\ \E route \in Routes, id \in Identities \cup {None}, good \in BOOLEAN :
          /\ NeedsToken(route) \/ id = None
          /\ route \in HasInput \/ good
          /\ rq' = [rq EXCEPT ![r] =
                [NoRequest EXCEPT !.place = FirstPlace(route), !.route = route, !.id = id,
                                  !.good = good]]
    /\ UNCHANGED <<idle, registered, server>>

\* The client has its answer.
Return(r) ==
    /\ rq[r].place = "answered"
    /\ rq' = [rq EXCEPT ![r] = NoRequest]
    /\ UNCHANGED <<idle, registered, server>>

\* The client goes away, and its context is cancelled.
Cancel(r) ==
    /\ rq[r].place \notin {"free", "answered"} /\ ~rq[r].gone
    /\ rq' = [rq EXCEPT ![r].gone = TRUE]
    /\ UNCHANGED <<idle, registered, server>>

\* Mutant: CreateUser reads the body first.
ExtractAndValidateJWTAfterBody(r) ==
    /\ rq[r].place = "token"
    /\ \/ rq[r].id = None /\ ~rq[r].good /\ Answer(r, 400)
       \/ rq[r].id = None /\ rq[r].good /\ Answer(r, 401)
       \/ /\ rq[r].id # None /\ UNCHANGED idle
          /\ Goto(r, IF rq[r].route = "CreateUser" THEN "input" ELSE "want identity")
    /\ UNCHANGED <<registered, server>>

ExtractAndValidateJWT(r) ==
    /\ rq[r].place = "token"
    /\ \/ rq[r].id = None /\ Answer(r, 401)
       \/ /\ rq[r].id # None /\ UNCHANGED idle
          /\ Goto(r, IF rq[r].route = "CreateUser" THEN "input" ELSE "want identity")
    /\ UNCHANGED <<registered, server>>

\* PathID and ReadJSON, and what the service checks before it begins; DeleteUser
\* refuses an account that is not the actor's.
ReadInput(r) ==
    /\ rq[r].place = "input"
    /\ \/ ~rq[r].good /\ Answer(r, 400)
       \/ rq[r].good /\ rq[r].route = "DeleteUser" /\ Answer(r, 403)
       \/ /\ rq[r].good /\ UNCHANGED idle
          /\ Goto(r, IF rq[r].route = "GetUser" THEN "want query" ELSE "want tx")
    /\ UNCHANGED <<registered, server>>

-----------------------------------------------------------------------------
(* Connections. *)

\* Healthz asks for none.
Healthz(r) ==
    /\ rq[r].place = "want query" /\ rq[r].route = "Healthz"
    /\ Answer(r, 200)
    /\ UNCHANGED <<registered, server>>

WantsConnection(r) == rq[r].place \in Waiting /\ rq[r].route # "Healthz"
Unavailable(r) == IF rq[r].route = "Readyz" THEN 503 ELSE 500

\* The pool hands out an idle connection, for one query or for a transaction.
Acquire(r) ==
    /\ WantsConnection(r) /\ server = "serving"
    /\ \E c \in idle :
          /\ idle' = idle \ {c}
          /\ rq' = [rq EXCEPT ![r].conn = c, ![r].place =
                        CASE rq[r].place = "want identity" -> "identity"
                          [] rq[r].place = "want query"    -> "query"
                          [] OTHER                         -> "tx"]
    /\ UNCHANGED <<registered, server>>

\* No connection: the client is gone, connecting fails, or the pool is closed, which a
\* waiter sees when its turn comes.
AcquireFails(r) ==
    /\ WantsConnection(r)
    /\ Broken(r) \/ (server = "closing" /\ idle # {})
    /\ Answer(r, Unavailable(r))
    /\ UNCHANGED <<registered, server>>

\* Mutants: the rows stay open over the next query; an error is no reason to stop.
SelectUserByIdentityKeepingRows(r) ==
    /\ rq[r].place = "identity"
    /\ \/ Broken(r) /\ Answer(r, 500)
       \/ /\ ~rq[r].gone /\ rq[r].id \notin registered
          /\ Answer(r, IF rq[r].route = "Me" THEN 404 ELSE 403)
       \/ /\ ~rq[r].gone /\ rq[r].id \in registered
          /\ rq' = [rq EXCEPT ![r].found = TRUE,
                        ![r].place = IF rq[r].route = "Me" THEN "want query" ELSE "input"]
          /\ UNCHANGED idle
    /\ UNCHANGED <<registered, server>>
SelectUserByIdentityUnchecked(r) ==
    /\ rq[r].place = "identity"
    /\ rq' = [rq EXCEPT ![r].conn = None, ![r].found = rq[r].id \in registered,
                        ![r].place = IF rq[r].route = "Me" THEN "want query" ELSE "input"]
    /\ idle' = idle \cup {rq[r].conn}
    /\ UNCHANGED <<registered, server>>

\* The account of the token, for Me and GetActorID; its row is read, and the connection
\* goes back, before anything else.
SelectUserByIdentity(r) ==
    /\ rq[r].place = "identity"
    /\ \/ Broken(r) /\ Answer(r, 500)
       \/ /\ ~rq[r].gone /\ rq[r].id \notin registered
          /\ Answer(r, IF rq[r].route = "Me" THEN 404 ELSE 403)
       \/ /\ ~rq[r].gone /\ rq[r].id \in registered
          /\ rq' = [rq EXCEPT ![r].conn = None, ![r].found = TRUE,
                        ![r].place = IF rq[r].route = "Me" THEN "want query" ELSE "input"]
          /\ idle' = idle \cup {rq[r].conn}
    /\ UNCHANGED <<registered, server>>

\* The ping of Readyz, the query of ListUsers and GetUser, the second one of Me.
Query(r) ==
    /\ rq[r].place = "query"
    /\ \/ Broken(r) /\ Answer(r, Unavailable(r))
       \/ ~rq[r].gone /\ Answer(r, 200)
       \/ ~rq[r].gone /\ rq[r].route = "GetUser" /\ Answer(r, 404)
    /\ UNCHANGED <<registered, server>>

-----------------------------------------------------------------------------
(* Transactions. *)

\* A statement waits for a lock that s's transaction has.
Wait(r, s) ==
    /\ rq[r].place = "tx" /\ s # r
    /\ rq[s].place \in {"tx", "statements", "commit"}
    /\ rq' = [rq EXCEPT ![r].place = "blocked", ![r].on = s]
    /\ UNCHANGED <<idle, registered, server>>

\* Registering and deleting one identity exclude each other, from statement to commit.
KeyIsFree(r) ==
    rq[r].route \in {"CreateUser", "DeleteUser"} =>
        \A s \in Requests :
            ~(rq[s].place = "commit" /\ rq[s].id = rq[r].id
              /\ rq[s].route \in {"CreateUser", "DeleteUser"})

\* Its statements fail, are refused, or leave the transaction to be committed.
Statements(r) ==
    /\ \/ rq[r].place \in {"tx", "blocked", "statements"} /\ Broken(r) /\ Answer(r, 500)
       \/ /\ rq[r].place \in {"tx", "statements"} /\ ~rq[r].gone /\ KeyIsFree(r)
          /\ \E status \in Refusals(rq[r].route) :
                /\ rq[r].route = "DeleteUser" => (status = 404 <=> rq[r].id \notin registered)
                /\ Answer(r, status)
       \/ /\ rq[r].place \in {"tx", "statements"} /\ ~rq[r].gone /\ KeyIsFree(r)
          /\ rq[r].route = "CreateUser" => rq[r].id \notin registered
          /\ rq[r].route = "DeleteUser" => rq[r].id \in registered
          /\ Goto(r, "commit") /\ UNCHANGED idle
    /\ UNCHANGED <<registered, server>>

Committed(r) ==
    registered' = CASE rq[r].route = "CreateUser" -> registered \cup {rq[r].id}
                    [] rq[r].route = "DeleteUser" -> registered \ {rq[r].id}
                    [] OTHER                      -> registered

\* Mutant: the error of the commit is not looked at.
CommitUnchecked(r) ==
    /\ rq[r].place = "commit"
    /\ \/ ~rq[r].gone /\ Committed(r) /\ End(r, Success(rq[r].route), TRUE)
       \/ Broken(r) /\ UNCHANGED registered /\ End(r, Success(rq[r].route), FALSE)
    /\ UNCHANGED server

\* The commit succeeds, succeeds but its answer is lost, or fails.
Commit(r) ==
    /\ rq[r].place = "commit"
    /\ \/ ~rq[r].gone /\ Committed(r) /\ End(r, Success(rq[r].route), TRUE)
       \/ Broken(r) /\ Committed(r) /\ End(r, 500, TRUE)
       \/ Broken(r) /\ UNCHANGED registered /\ Answer(r, 500)
    /\ UNCHANGED server

-----------------------------------------------------------------------------
(* The process. *)

\* ListenAndServe returns, and Close closes the pool; handlers go on.
Stop ==
    /\ server = "serving" /\ server' = "closing"
    /\ UNCHANGED <<rq, idle, registered>>

\* The process ends, and with it what its requests were about.
Ended ==
    /\ rq' = [r \in Requests |-> NoRequest] /\ idle' = Conns
    /\ server' = "gone"
    /\ UNCHANGED registered

\* Close returns when all connections are back.
Closed == server = "closing" /\ idle = Conns /\ Ended

\* A signal ends the process at once; PostgreSQL rolls back.
Kill == Faults /\ server # "gone" /\ Ended

\* The program is started again.
Start ==
    /\ server = "gone" /\ server' = "serving"
    /\ UNCHANGED <<rq, idle, registered>>

-----------------------------------------------------------------------------
Step(r) ==
    \/ ExtractAndValidateJWT(r) \/ ReadInput(r) \/ Healthz(r) \/ SelectUserByIdentity(r)
    \/ Query(r) \/ Statements(r) \/ Commit(r)

Next ==
    \/ \E r \in Requests :
          \/ Arrive(r) \/ Return(r) \/ Cancel(r) \/ Step(r)
          \/ Acquire(r) \/ AcquireFails(r)
          \/ \E s \in Requests : Wait(r, s)
    \/ Stop \/ Closed \/ Kill \/ Start

Spec == Init /\ [][Next]_vars

\* A handler runs on, the pool and the locks serve their waiters in turn, Close returns.
Fairness ==
    /\ \A r \in Requests :
          WF_vars(Step(r)) /\ SF_vars(Statements(r)) /\ SF_vars(Acquire(r) \/ AcquireFails(r))
    /\ WF_vars(Closed)
=============================================================================
