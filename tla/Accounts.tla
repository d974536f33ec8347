------------------------------- MODULE Accounts -------------------------------
(***************************************************************************)
(* internal/user/service.go on PostgreSQL at READ COMMITTED: one action    *)
(* per statement, and per key of the INSERT into users, which enters its   *)
(* row in the index on emails first and in the index on user names next.   *)
(* An entry waits for the transaction that has inserted, or is deleting, a *)
(* row with the same value, and then finds the value taken or free.        *)
(* The rest of DeleteUser - owned workspaces, memberships and the locks    *)
(* they share with the workspace service - is in WorkspaceTxns.            *)
(***************************************************************************)
EXTENDS AccountCalls

VARIABLES
    users, identities, members,  \* the committed rows of the tables
    call,                        \* call[t]: the request in slot t and its answer
    tx                           \* tx[t]: the transaction that handles it

store == <<users, identities, members>>
vars == <<users, identities, members, call, tx>>

Keys == {"email", "name", "identity"}
Statements == Keys \cup {"SelectUser", "ListUsers", "SelectUserByIdentity",
                         "ListUserWorkspaces", "LockUserRow", "DeleteUser", "Commit"}

NoTx == [pc |-> "none", new |-> None, keys |-> {}, held |-> {}, gone |-> {}]

TxRecords ==
    [pc   : Statements \cup {"none"},  \* the next statement
     new  : Ids \cup {None},           \* the account inserted
     keys : SUBSET Keys,               \* the index entries made for it
     held : SUBSET Ids,                \* accounts locked FOR UPDATE
     gone : SUBSET Ids]                \* accounts deleted

First(op) ==
    CASE op = "CreateUser" -> "email"
      [] op = "ReadUser"   -> "SelectUser"
      [] op = "ListUsers"  -> "ListUsers"
      [] OTHER             -> "SelectUserByIdentity"

Goto(t, s) == tx' = [tx EXCEPT ![t].pc = s]

\* Mutant: the transaction is left open.
AnswerKeepingLocks(t, resp, us, wss) ==
    /\ call' = [call EXCEPT ![t].resp = resp, ![t].users = us, ![t].wss = wss]
    /\ Goto(t, "none")

\* The method returns and its transaction is over.
AnswerWith(t, resp, us, wss) ==
    /\ call' = [call EXCEPT ![t].resp = resp, ![t].users = us, ![t].wss = wss]
    /\ tx' = [tx EXCEPT ![t] = NoTx]

Refuse(t, resp) == AnswerWith(t, resp, {}, {}) /\ UNCHANGED store

Registered == {u.id : u \in users}

-----------------------------------------------------------------------------
(* Locks. *)

\* The committed accounts with value v for the unique key k.
OwnersOf(k, v) ==
    CASE k = "email" -> {u.id : u \in {x \in users : x.email = v}}
      [] k = "name"  -> {u.id : u \in {x \in users : x.name = v}}
      [] OTHER       -> {i.user : i \in {x \in identities : x.subject = v}}

\* Who keeps t waiting: at a key, who has inserted or is deleting its value; at a
\* row lock, who holds the account.
KeyBlockers(t, k) ==
    {s \in Txs \ {t} :
        \/ k \in tx[s].keys /\ KeyOf(call[s], k) = KeyOf(call[t], k)
        \/ tx[s].gone \cap OwnersOf(k, KeyOf(call[t], k)) # {}}
Lockers(t, u) == {s \in Txs \ {t} : u \in tx[s].held \cup tx[s].gone}

-----------------------------------------------------------------------------
(* Requests. *)

Init ==
    /\ users = {} /\ identities = {} /\ members = {}
    /\ call = [t \in Txs |-> NoCall]
    /\ tx = [t \in Txs |-> NoTx]

\* uuid.NewV7: an id that no row, request or transaction knows.
Fresh(u) ==
    /\ u \notin Registered
    /\ \A s \in Txs : u \notin {call[s].id, call[s].actor, tx[s].new} \cup call[s].users

Arrive(t) ==
    /\ call[t] = NoCall
    /\ \E r \in Requests :
          /\ call' = [call EXCEPT ![t] = Received(r)]
          /\ \/ Received(r).resp # "pending" /\ UNCHANGED tx
             \/ Received(r).resp = "pending" /\ r.op # "CreateUser" /\ Goto(t, First(r.op))
             \/ /\ Received(r).resp = "pending" /\ r.op = "CreateUser"
                /\ \E u \in Ids : /\ Fresh(u)
                                  /\ tx' = [tx EXCEPT ![t].pc = First(r.op), ![t].new = u]
    /\ UNCHANGED store

Return(t) ==
    /\ call[t].resp \in Responses
    /\ call' = [call EXCEPT ![t] = NoCall]
    /\ UNCHANGED <<store, tx>>

-----------------------------------------------------------------------------
(* CreateUser. *)

AfterKey == [email |-> "name", name |-> "identity", identity |-> "Commit"]

\* Mutant: the service looks for the value first, and inserts unless it is there.
InsertKeyAtOnce(t) ==
    LET k == tx[t].pc
        owners == OwnersOf(k, KeyOf(call[t], k))
    IN
    /\ k \in Keys
    /\ \/ owners # {} /\ Refuse(t, TakenErrors[k])
       \/ /\ owners = {}
          /\ tx' = [tx EXCEPT ![t].pc = AfterKey[k], ![t].keys = @ \cup {k}]
          /\ UNCHANGED <<store, call>>

InsertKey(t) ==
    LET k == tx[t].pc
        owners == OwnersOf(k, KeyOf(call[t], k))
    IN
    /\ k \in Keys
    /\ KeyBlockers(t, k) = {}
    /\ \/ owners # {} /\ Refuse(t, TakenErrors[k])
       \/ /\ owners = {}
          /\ tx' = [tx EXCEPT ![t].pc = AfterKey[k], ![t].keys = @ \cup {k}]
          /\ UNCHANGED <<store, call>>

-----------------------------------------------------------------------------
(* Reads. *)

SelectUser(t) ==
    LET u == call[t].id IN
    /\ tx[t].pc = "SelectUser"
    /\ \/ u \notin Registered /\ Refuse(t, "ErrNotFound")
       \/ u \in Registered /\ AnswerWith(t, "ok", {u}, {}) /\ UNCHANGED store

ListUsers(t) ==
    /\ tx[t].pc = "ListUsers"
    /\ AnswerWith(t, "ok", Registered, {}) /\ UNCHANGED store

\* Mutant: DeleteUser does not compare the account with the actor's.
SelectUserByIdentityUnchecked(t) ==
    LET found == {i \in identities : i.subject = call[t].subject /\ i.user \in Registered} IN
    /\ tx[t].pc = "SelectUserByIdentity"
    /\ \/ found = {} /\ Refuse(t, "ErrForbidden")
       \/ \E i \in found :
             /\ call' = [call EXCEPT ![t].actor = IF call[t].op = "DeleteUser"
                                                  THEN call[t].id ELSE i.user]
             /\ Goto(t, IF call[t].op = "DeleteUser" THEN "LockUserRow"
                        ELSE "ListUserWorkspaces")
             /\ UNCHANGED store

\* Mutant: the token's subject is compared up to blanks around it.
SelectUserByIdentityTrimmed(t) ==
    LET found == {i \in identities : Trim[i.subject] = Trim[call[t].subject]}
        deletes == call[t].op = "DeleteUser"
    IN
    /\ tx[t].pc = "SelectUserByIdentity"
    /\ \/ found = {} /\ Refuse(t, IF deletes THEN "ErrForbidden" ELSE "ErrNotFound")
       \/ \E i \in found :
             /\ deletes => i.user = call[t].id
             /\ call' = [call EXCEPT ![t].actor = i.user]
             /\ Goto(t, IF deletes THEN "LockUserRow" ELSE "ListUserWorkspaces")
             /\ UNCHANGED store

\* ReadUserByIdentity; for DeleteUser in GetActorID, before the service is called.
SelectUserByIdentity(t) ==
    LET found == {i \in identities : i.subject = call[t].subject /\ i.user \in Registered}
        deletes == call[t].op = "DeleteUser"
    IN
    /\ tx[t].pc = "SelectUserByIdentity"
    /\ \/ found = {} /\ Refuse(t, IF deletes THEN "ErrForbidden" ELSE "ErrNotFound")
       \/ \E i \in found : deletes /\ i.user # call[t].id /\ Refuse(t, "ErrForbidden")
       \/ \E i \in found :
             /\ deletes => i.user = call[t].id
             /\ call' = [call EXCEPT ![t].actor = i.user]
             /\ Goto(t, IF deletes THEN "LockUserRow" ELSE "ListUserWorkspaces")
             /\ UNCHANGED store

ListUserWorkspaces(t) ==
    LET u == call[t].actor IN
    /\ tx[t].pc = "ListUserWorkspaces"
    /\ AnswerWith(t, "ok", {u}, {m.ws : m \in {x \in members : x.user = u}})
    /\ UNCHANGED store

-----------------------------------------------------------------------------
(* DeleteUser. *)

LockUserRow(t) ==
    LET u == call[t].actor IN
    /\ tx[t].pc = "LockUserRow"
    /\ Lockers(t, u) = {}
    /\ \/ u \notin Registered /\ Refuse(t, "ErrNotFound")
       \/ /\ u \in Registered
          /\ tx' = [tx EXCEPT ![t].pc = "DeleteUser", ![t].held = {u}]
          /\ UNCHANGED <<store, call>>

\* The two DELETEs; the identity and the memberships go with the account's row.
DeleteUser(t) ==
    /\ tx[t].pc = "DeleteUser"
    /\ tx' = [tx EXCEPT ![t].pc = "Commit", ![t].gone = tx[t].held]
    /\ UNCHANGED <<store, call>>

-----------------------------------------------------------------------------
(* The end of a transaction. *)

\* Mutant: identities stay behind.
ApplyKeepingIdentities(t) ==
    LET x == tx[t] c == call[t] IN
    /\ users' = {u \in users : u.id \notin x.gone}
                \cup {[id |-> n, email |-> KeyOf(c, "email"), name |-> KeyOf(c, "name")]
                      : n \in {x.new} \ {None}}
    /\ identities' = identities
                \cup {[user |-> n, subject |-> KeyOf(c, "identity")] : n \in {x.new} \ {None}}
    /\ members' = {m \in members : m.user \notin x.gone}

Apply(t) ==
    LET x == tx[t] c == call[t] new == {x.new} \ {None} IN
    /\ users' = {u \in users : u.id \notin x.gone}
                \cup {[id |-> n, email |-> KeyOf(c, "email"), name |-> KeyOf(c, "name")] : n \in new}
    /\ identities' = {i \in identities : i.user \notin x.gone}
                \cup {[user |-> n, subject |-> KeyOf(c, "identity")] : n \in new}
    /\ members' = {m \in members : m.user \notin x.gone}

Commit(t) ==
    /\ tx[t].pc = "Commit"
    /\ Apply(t)
    /\ AnswerWith(t, "ok", {tx[t].new} \ {None}, {})

\* A statement or the connection fails; a commit is made while its answer is lost.
Failure(t) == Faults /\ call[t].resp = "pending" /\ Refuse(t, "ErrInternal")
CommitLost(t) ==
    /\ Faults
    /\ tx[t].pc = "Commit"
    /\ Apply(t)
    /\ AnswerWith(t, "ErrInternal", {}, {})

\* The workspace service adds and removes members; an insert waits for an account
\* that is locked.
ChangeMembers ==
    /\ \E m \in MemberRows :
          \/ /\ m.user \in Registered
             /\ \A s \in Txs : m.user \notin tx[s].held
             /\ members' = members \cup {m}
          \/ members' = members \ {m}
    /\ UNCHANGED <<users, identities, call, tx>>

-----------------------------------------------------------------------------
Step(t) ==
    \/ InsertKey(t) \/ SelectUser(t) \/ ListUsers(t) \/ SelectUserByIdentity(t)
    \/ ListUserWorkspaces(t) \/ LockUserRow(t) \/ DeleteUser(t) \/ Commit(t)

Next ==
    \/ ChangeMembers
    \/ \E t \in Txs : Arrive(t) \/ Return(t) \/ Step(t) \/ Failure(t) \/ CommitLost(t)

Spec == Init /\ [][Next]_vars
=============================================================================
