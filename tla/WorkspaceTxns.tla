---------------------------- MODULE WorkspaceTxns ----------------------------
(***************************************************************************)
(* The transactions of internal/workspace/service.go and DeleteUser of     *)
(* internal/user/service.go, statement by statement, on PostgreSQL at its  *)
(* default isolation level READ COMMITTED:                                 *)
(*                                                                         *)
(*   - a statement reads the committed rows of the moment it runs;         *)
(*   - FOR UPDATE and DELETE lock a row exclusively, an INSERT its new     *)
(*     row, and the foreign-key check of an INSERT locks the referenced    *)
(*     row FOR KEY SHARE, all until the transaction ends;                  *)
(*   - a row that another transaction has locked is waited for, and        *)
(*     skipped if it is gone when the wait is over;                        *)
(*   - writes become visible when the transaction commits.                 *)
(*                                                                         *)
(* A DELETE goes through its rows one at a time, in an order that the      *)
(* query planner chooses, then through the rows its cascades reach.        *)
(* An error returns from the service method, whose deferred                *)
(* RollbackUnlessClosed ends the transaction: one step here.               *)
(***************************************************************************)
EXTENDS Calls

VARIABLES
    db,    \* the committed rows
    call,  \* call[t]: the request in slot t and its answer
    tx     \* tx[t]: the transaction that handles it

vars == <<db, call, tx>>

Statements ==
    {"CreateWorkspace", "AddWorkspaceOwner", "LockWorkspaceRow", "ListWorkspaceMembers",
     "SelectWorkspaceMember", "AddWorkspaceMember", "RemoveWorkspaceMember",
     "DeleteWorkspace", "LockUserRow", "DeleteWorkspacesOwnedByUser", "DeleteUser",
     "Commit", "CommitAborted"}

NoTx == [pc |-> "none", shared |-> {}, held |-> {}, puts |-> {}, gone |-> {},
         todo |-> {}, seen |-> {}]

TxRecords ==
    [pc     : Statements \cup {"none"},  \* the next statement
     shared : SUBSET Rows,               \* rows locked FOR KEY SHARE
     held   : SUBSET Rows,               \* rows locked FOR UPDATE
     puts   : SUBSET Rows,               \* rows inserted
     gone   : SUBSET Rows,               \* rows deleted
     todo   : SUBSET Rows,               \* rows the running DELETE has yet to visit
     seen   : SUBSET Rows]               \* the membership list that was read

First(op) ==
    CASE op = "CreateWorkspace" -> "CreateWorkspace"
      [] op = "DeleteUser"      -> "LockUserRow"
      [] OTHER                  -> "LockWorkspaceRow"

\* The statement that call[t] runs next is s, and the previous one is over.
At(t, s) == tx[t].pc = s /\ tx[t].todo = {}

Goto(t, s) == tx' = [tx EXCEPT ![t].pc = s] /\ UNCHANGED <<db, call>>

\* Mutant: no deferred RollbackUnlessClosed, the row locks stay.
AnswerKeepingLocks(t, resp) ==
    /\ call' = [call EXCEPT ![t].resp = resp]
    /\ tx' = [tx EXCEPT ![t].pc = "none"]

\* The service method returns and its transaction is over.
Answer(t, resp) ==
    /\ call' = [call EXCEPT ![t].resp = resp]
    /\ tx' = [tx EXCEPT ![t] = NoTx]

Refuse(t, resp) == Answer(t, resp) /\ UNCHANGED db

-----------------------------------------------------------------------------
(* Row locks. *)

Exclusive(t) == tx[t].held \cup tx[t].puts \cup tx[t].gone

\* The other transactions that keep t from locking row r FOR UPDATE, from
\* locking it FOR KEY SHARE, and from inserting a membership of u in w.
Lockers(t, r)    == {s \in Txs \ {t} : r \in Exclusive(s) \cup tx[s].shared}
Writers(t, r)    == {s \in Txs \ {t} : r \in Exclusive(s)}
KeyWriters(t, w, u) ==
    {s \in Txs \ {t} : \E r \in Exclusive(s) : r.kind \in Roles /\ r.ws = w /\ r.user = u}

\* A DELETE visits the rows it names before the rows its cascades reach.
Visitable(t) ==
    {r \in tx[t].todo : r.kind \in Roles => \A q \in tx[t].todo : q.kind \in Roles}

\* The transactions that transaction t is waiting for: statement by statement,
\* and in any case.
LockWorkspaceBlockers(t) ==
    IF WorkspaceRow(call[t].ws) \in db THEN Lockers(t, WorkspaceRow(call[t].ws)) ELSE {}

LockUserBlockers(t) ==
    IF UserRow(call[t].user) \in db THEN Lockers(t, UserRow(call[t].user)) ELSE {}

AddOwnerBlockers(t) == Writers(t, UserRow(call[t].actor))

\* The primary key is checked before the foreign key to users.
AddMemberBlockers(t) ==
    KeyWriters(t, call[t].ws, call[t].user)
    \cup (IF Membership(db, call[t].ws, call[t].user) = {}
          THEN Writers(t, UserRow(call[t].user)) ELSE {})

StatementBlockers(t) ==
    CASE tx[t].pc = "LockWorkspaceRow"   -> LockWorkspaceBlockers(t)
      [] tx[t].pc = "LockUserRow"        -> LockUserBlockers(t)
      [] tx[t].pc = "AddWorkspaceOwner"  -> AddOwnerBlockers(t)
      [] tx[t].pc = "AddWorkspaceMember" -> AddMemberBlockers(t)
      [] OTHER                           -> {}

\* Mutant: ReadWorkspace locks the reader's account after the workspace.
BlockersOfLockingRead(t) ==
    IF tx[t].pc = "ListWorkspaceMembers" THEN Writers(t, UserRow(call[t].actor))
    ELSE IF tx[t].todo # {} THEN UNION {Lockers(t, r) : r \in Visitable(t)}
    ELSE StatementBlockers(t)

Blockers(t) ==
    IF tx[t].todo # {} THEN UNION {Lockers(t, r) : r \in Visitable(t)}
    ELSE StatementBlockers(t)

\* t waits for itself through others, which is what PostgreSQL's deadlock detector
\* looks for: any set that contains whom t waits for, and whom they wait for,
\* contains t.
Deadlocked(t) ==
    \A S \in SUBSET Txs :
        Blockers(t) \subseteq S /\ (\A s \in S : Blockers(s) \subseteq S) => t \in S

-----------------------------------------------------------------------------
(* Requests. *)

Init ==
    /\ db = {UserRow(u) : u \in Users}
    /\ call = [t \in Txs |-> NoCall]
    /\ tx = [t \in Txs |-> NoTx]

\* The handler resolves the actor (GetActorID), validates the input and begins
\* a transaction.
Arrive(t) ==
    /\ call[t] = NoCall
    /\ \E r \in Requests :
          /\ UserRow(r.actor) \in db
          /\ call' = [call EXCEPT ![t] = Received(r)]
          /\ tx' = [tx EXCEPT ![t].pc =
                        IF Received(r).resp = "pending" THEN First(r.op) ELSE "none"]
    /\ UNCHANGED db

\* The answer is written and the slot is free again.
Return(t) ==
    /\ call[t].resp \in Responses
    /\ call' = [call EXCEPT ![t] = NoCall]
    /\ UNCHANGED <<db, tx>>

-----------------------------------------------------------------------------
(* CreateWorkspace. *)

\* uuid.NewV7: an id that no row, request or running statement knows.
Fresh(w) ==
    /\ \A r \in db : r.ws # w
    /\ \A s \in Txs : call[s].ws # w /\ \A r \in tx[s].puts \cup tx[s].todo : r.ws # w

CreateWorkspace(t) ==
    /\ At(t, "CreateWorkspace")
    /\ \E w \in Workspaces :
          /\ Fresh(w)
          /\ tx' = [tx EXCEPT ![t].pc = "AddWorkspaceOwner", ![t].puts = {WorkspaceRow(w)}]
    /\ UNCHANGED <<db, call>>

\* Mutant: the insert does not lock the row its foreign key refers to.
AddWorkspaceOwnerWithoutKeyLock(t) ==
    LET u == call[t].actor IN
    /\ At(t, "AddWorkspaceOwner")
    /\ UserRow(u) \in db
    /\ tx' = [tx EXCEPT ![t].pc = "Commit", ![t].puts = @ \cup {OwnerRow(r.ws, u) : r \in @}]
    /\ UNCHANGED <<db, call>>

AddWorkspaceOwner(t) ==
    LET u == call[t].actor IN
    /\ At(t, "AddWorkspaceOwner")
    /\ AddOwnerBlockers(t) = {}
    /\ \/ /\ UserRow(u) \in db
          /\ tx' = [tx EXCEPT ![t].pc = "Commit",
                              ![t].puts = @ \cup {OwnerRow(r.ws, u) : r \in @},
                              ![t].shared = {UserRow(u)}]
          /\ UNCHANGED <<db, call>>
       \/ UserRow(u) \notin db /\ Refuse(t, "ErrOwnerKey")

-----------------------------------------------------------------------------
(* The statements of the operations on an existing workspace. *)

AfterLock(op) == IF op = "ReadWorkspace" THEN "ListWorkspaceMembers" ELSE "SelectWorkspaceMember"

\* Mutant: SELECT without FOR UPDATE.
SelectWorkspace(t) ==
    /\ At(t, "LockWorkspaceRow")
    /\ WorkspaceRow(call[t].ws) \in db
    /\ Goto(t, AfterLock(call[t].op))

LockWorkspaceRow(t) ==
    LET w == WorkspaceRow(call[t].ws) IN
    /\ At(t, "LockWorkspaceRow")
    /\ LockWorkspaceBlockers(t) = {}
    /\ \/ /\ w \in db
          /\ tx' = [tx EXCEPT ![t].pc = AfterLock(call[t].op), ![t].held = {w}]
          /\ UNCHANGED <<db, call>>
       \/ w \notin db /\ Refuse(t, "ErrWorkspaceNotFound")

ListWorkspaceMembers(t) ==
    LET M == MembersOf(db, call[t].ws) IN
    /\ At(t, "ListWorkspaceMembers")
    /\ \/ /\ \E m \in M : m.user = call[t].actor
          /\ tx' = [tx EXCEPT ![t].pc = "Commit", ![t].seen = M]
          /\ UNCHANGED <<db, call>>
       \/ (\A m \in M : m.user # call[t].actor) /\ Refuse(t, "ErrForbidden")

\* The actor's role is checked, and that the owner does not remove themselves.
SelectWorkspaceMember(t) ==
    LET c == call[t] IN
    /\ At(t, "SelectWorkspaceMember")
    /\ \/ OwnerRow(c.ws, c.actor) \notin db /\ Refuse(t, "ErrForbidden")
       \/ /\ OwnerRow(c.ws, c.actor) \in db
          /\ IF c.op = "RemoveWorkspaceMember" /\ c.user = c.actor
             THEN Refuse(t, "ErrOwnerRemoval")
             ELSE Goto(t, c.op)

AddWorkspaceMember(t) ==
    LET c == call[t] IN
    /\ At(t, "AddWorkspaceMember")
    /\ AddMemberBlockers(t) = {}
    /\ \/ Membership(db, c.ws, c.user) # {} /\ Refuse(t, "ErrAlreadyMember")
       \/ /\ Membership(db, c.ws, c.user) = {}
          /\ UserRow(c.user) \notin db
          /\ Refuse(t, "ErrUserNotFound")
       \/ /\ Membership(db, c.ws, c.user) = {}
          /\ UserRow(c.user) \in db
          /\ tx' = [tx EXCEPT ![t].pc = "Commit",
                              ![t].puts = {MemberRow(c.ws, c.user)},
                              ![t].shared = {UserRow(c.user)}]
          /\ UNCHANGED <<db, call>>

-----------------------------------------------------------------------------
(* DELETE statements. *)

\* The rows R match the DELETE's condition when it starts.
StartDelete(t, R, next) ==
    /\ tx' = [tx EXCEPT ![t].pc = next, ![t].todo = R]
    /\ UNCHANGED <<db, call>>

RemoveWorkspaceMember(t) ==
    /\ At(t, "RemoveWorkspaceMember")
    /\ StartDelete(t, Membership(db, call[t].ws, call[t].user), "Commit")

DeleteWorkspace(t) ==
    /\ At(t, "DeleteWorkspace")
    /\ StartDelete(t, db \cap {WorkspaceRow(call[t].ws)}, "Commit")

\* Mutants: SELECT without FOR UPDATE; the account's memberships go first.
SelectUser(t) ==
    /\ At(t, "LockUserRow")
    /\ UserRow(call[t].user) \in db
    /\ Goto(t, "DeleteWorkspacesOwnedByUser")

LockUserRowDeletingMemberships(t) ==
    LET u == UserRow(call[t].user) IN
    /\ At(t, "LockUserRow")
    /\ u \in db /\ LockUserBlockers(t) = {}
    /\ tx' = [tx EXCEPT ![t].pc = "DeleteWorkspacesOwnedByUser", ![t].held = {u},
                        ![t].todo = Referencing(db, u)]
    /\ UNCHANGED <<db, call>>

LockUserRow(t) ==
    LET u == UserRow(call[t].user) IN
    /\ At(t, "LockUserRow")
    /\ LockUserBlockers(t) = {}
    /\ \/ /\ u \in db
          /\ tx' = [tx EXCEPT ![t].pc = "DeleteWorkspacesOwnedByUser", ![t].held = {u}]
          /\ UNCHANGED <<db, call>>
       \/ u \notin db /\ Refuse(t, "ErrNotFound")

\* Mutant: the owned workspaces are left to the cascade from the account.
DeleteNoWorkspaces(t) ==
    /\ At(t, "DeleteWorkspacesOwnedByUser")
    /\ Goto(t, "DeleteUser")

DeleteWorkspacesOwnedByUser(t) ==
    /\ At(t, "DeleteWorkspacesOwnedByUser")
    /\ StartDelete(t, OwnedWorkspaces(db, call[t].user), "DeleteUser")

DeleteUser(t) ==
    /\ At(t, "DeleteUser")
    /\ StartDelete(t, db \cap {UserRow(call[t].user)}, "Commit")

\* A running DELETE locks and deletes its next row, whose cascade it then has
\* to follow, or finds that the row is gone.
VisitRow(t) ==
    \E r \in Visitable(t) :
        /\ Lockers(t, r) = {}
        /\ LET rest == tx[t].todo \ {r} IN
           IF r \in db
           THEN LET gone == tx[t].gone \cup {r} IN
                tx' = [tx EXCEPT ![t].gone = gone,
                                 ![t].todo = rest \cup (Referencing(db, r) \ gone)]
           ELSE tx' = [tx EXCEPT ![t].todo = rest]
        /\ UNCHANGED <<db, call>>

\* The row that the service expects its DELETE to have removed.
Target(t) ==
    CASE call[t].op = "RemoveWorkspaceMember" ->
            {OwnerRow(call[t].ws, call[t].user), MemberRow(call[t].ws, call[t].user)}
      [] call[t].op = "DeleteWorkspace" -> {WorkspaceRow(call[t].ws)}
      [] call[t].op = "DeleteUser"      -> {UserRow(call[t].user)}
      [] OTHER                          -> {}

RemovedNone(t) ==
    /\ call[t].op \in {"RemoveWorkspaceMember", "DeleteWorkspace", "DeleteUser"}
    /\ tx[t].gone \cap Target(t) = {}

\* removed == 0.
NothingRemoved(t) ==
    /\ At(t, "Commit")
    /\ RemovedNone(t)
    /\ Refuse(t, CASE call[t].op = "RemoveWorkspaceMember" -> "ErrWorkspaceMemberNotFound"
                   [] call[t].op = "DeleteWorkspace"       -> "ErrWorkspaceNotFound"
                   [] call[t].op = "DeleteUser"            -> "ErrNotFound")

-----------------------------------------------------------------------------
(* The end of a transaction. *)

Apply(t) == db' = (db \ tx[t].gone) \cup tx[t].puts

Commit(t) == At(t, "Commit") /\ ~RemovedNone(t) /\ Apply(t) /\ Answer(t, "ok")

\* Mutant: the commit after a failed insert goes through.
CommitDespiteFailure(t) == At(t, "CommitAborted") /\ Apply(t) /\ Answer(t, "ok")

\* PostgreSQL answers COMMIT with a rollback when a statement has failed.
CommitAborted(t) == At(t, "CommitAborted") /\ Refuse(t, "ErrInternal")

\* A statement of t fails.  CreateWorkspace goes on to its commit when the
\* failed insert of the owner is no violation of the key to users.
StatementFails(t, resp) ==
    /\ call[t].resp = "pending"
    /\ IF At(t, "AddWorkspaceOwner") THEN Goto(t, "CommitAborted") ELSE Refuse(t, resp)

DeadlockAbort(t) == Deadlocked(t) /\ StatementFails(t, "ErrDeadlock")

\* The connection or the server fails before the commit, or under it, when the
\* client cannot tell that the transaction was committed.
Failure(t)  == Faults /\ StatementFails(t, "ErrInternal")
CommitLost(t) ==
    /\ Faults
    /\ At(t, "Commit") /\ ~RemovedNone(t)
    /\ Apply(t) /\ Answer(t, "ErrInternal")

-----------------------------------------------------------------------------
\* What the server and PostgreSQL do for call t once it has arrived.
Step(t) ==
    \/ CreateWorkspace(t) \/ AddWorkspaceOwner(t)
    \/ LockWorkspaceRow(t) \/ ListWorkspaceMembers(t) \/ SelectWorkspaceMember(t)
    \/ AddWorkspaceMember(t) \/ RemoveWorkspaceMember(t) \/ DeleteWorkspace(t)
    \/ LockUserRow(t) \/ DeleteWorkspacesOwnedByUser(t) \/ DeleteUser(t)
    \/ VisitRow(t) \/ NothingRemoved(t)
    \/ Commit(t) \/ CommitAborted(t) \/ DeadlockAbort(t)

Next == \E t \in Txs : Arrive(t) \/ Return(t) \/ Step(t) \/ Failure(t) \/ CommitLost(t)

Spec == Init /\ [][Next]_vars

\* A handler runs on its own goroutine until it answers, and PostgreSQL wakes
\* the transactions that wait for a lock when it is released.
Fairness == \A t \in Txs : WF_vars(Step(t))
=============================================================================
