------------------------------- MODULE Messages -------------------------------
(***************************************************************************)
(* internal/message/service.go on PostgreSQL: each call is one statement   *)
(* that commits by itself, and most of what it does is done by the foreign *)
(* keys and the triggers of migration 5, row by row under row locks:       *)
(*                                                                         *)
(*   - a foreign-key check locks the referenced row FOR KEY SHARE;         *)
(*   - an UPDATE of a body or a reply count locks its row FOR NO KEY       *)
(*     UPDATE, which a key share does not conflict with, and then reads    *)
(*     the row's latest committed version;                                 *)
(*   - a DELETE conflicts with every lock, waits for it, and skips a row   *)
(*     that is gone when the wait is over; a deleted row takes the rows    *)
(*     that refer to it along, before its trigger decrements its root's    *)
(*     count, which finds nothing when the same statement has deleted the  *)
(*     root; what refers to those rows is deleted after that.              *)
(*                                                                         *)
(* DeleteUser (internal/user/service.go) and the deletion of a workspace   *)
(* are there for what they do to messages; WorkspaceTxns has the rest.     *)
(***************************************************************************)
EXTENDS MessageCalls

VARIABLES
    db,     \* the ids of the committed rows
    row,    \* row[m]: the row of message m
    count,  \* count[m]: its reply_count
    call,   \* call[t]: the request in slot t and its answer
    tx      \* tx[t]: the transaction that handles it

store == <<db, row, count>>
vars == <<db, row, count, call, tx>>

Statements == {"AuthorKey", "TargetKey", "RootKey", "Increment", "Update", "Read",
               "Delete", "LockUserRow", "DeleteWorkspacesOwnedByUser", "DeleteUser", "Commit"}

NoTx == [pc |-> "none", new |-> None, keys |-> {}, held |-> {}, upd |-> {},
         val |-> [m \in Messages |-> 0], gone |-> {}, todo |-> {}, dec |-> {}]

TxRecords ==
    [pc   : Statements \cup {"none"},  \* the next statement, check or trigger
     new  : Messages \cup {None},      \* the message inserted
     keys : SUBSET Ids,                \* rows locked FOR KEY SHARE
     held : SUBSET Users,              \* rows locked FOR UPDATE
     upd  : SUBSET Messages,           \* rows updated
     val  : [Messages -> Int],         \* and their new reply counts
     gone : SUBSET Ids,                \* rows deleted
     todo : SUBSET Ids,                \* rows the running DELETE has yet to visit
     dec  : SUBSET Messages]           \* deleted rows whose trigger has decremented a count

First(op) ==
    CASE op \in {"SendDirectMessage", "SendChannelMessage"}     -> "AuthorKey"
      [] op \in {"UpdateDirectMessage", "UpdateChannelMessage"} -> "Update"
      [] op \in {"DeleteDirectMessage", "DeleteChannelMessage", "DeleteWorkspace"} -> "Delete"
      [] op = "DeleteUser" -> "LockUserRow"
      [] OTHER             -> "Read"

\* Mutant: the transaction is left open.
AnswerKeepingLocks(t, resp, got) ==
    /\ call' = [call EXCEPT ![t].resp = resp, ![t].got = got]
    /\ tx' = [tx EXCEPT ![t].pc = "none"]

\* The method returns and its transaction is over.
AnswerWith(t, resp, got) ==
    /\ call' = [call EXCEPT ![t].resp = resp, ![t].got = got]
    /\ tx' = [tx EXCEPT ![t] = NoTx]

Refuse(t, resp) == AnswerWith(t, resp, 0) /\ UNCHANGED store

Named(t) == IsNamed(db, row, call[t])

-----------------------------------------------------------------------------
(* Row locks. *)

Exclusive(t) == tx[t].held \cup tx[t].gone

\* Mutant: the foreign-key check does not notice that the row is being deleted.
NoWriters(t, r) == {}

\* Who keeps t from locking row r FOR KEY SHARE, FOR NO KEY UPDATE, FOR UPDATE.
Writers(t, r)  == {s \in Txs \ {t} : r \in Exclusive(s)}
Updaters(t, r) == {s \in Txs \ {t} : r \in Exclusive(s) \cup tx[s].upd}
Lockers(t, r)  == {s \in Txs \ {t} : r \in Exclusive(s) \cup tx[s].upd \cup tx[s].keys}

\* Messages that t deletes with their channel, and the replies to those and to the
\* message that t deletes by name.
WithChannel(t) == {m \in Messages : row[m].chan \in tx[t].gone}
WithRoot(t)    == {m \in Messages : row[m].root \in WithChannel(t) \cup {call[t].id}}

\* Deleted replies whose trigger has a count to decrement: the root of any other one
\* is deleted as well.
ToDecrement(t) ==
    {d \in (tx[t].gone \cap Messages) \ tx[t].dec : row[d].root \in Messages \ tx[t].gone}

\* Cascades run in rounds: the rows that the DELETE names, the messages of deleted
\* channels, the replies to all these, and then, when the triggers of their roots are
\* through, the replies to replies.  Rows of one round come in any order.
Visitable(t) ==
    LET todo == tx[t].todo IN
    {r \in todo :
        /\ r \in Channels \/ todo \cap Channels = {}
        /\ r \in Channels \cup WithChannel(t) \/ todo \cap WithChannel(t) = {}
        /\ \/ r \in Channels \cup WithChannel(t) \cup WithRoot(t)
           \/ todo \cap WithRoot(t) = {} /\ ToDecrement(t) = {}}

\* A trigger runs after its row's own foreign keys have taken the replies to it.
Due(t) ==
    {d \in ToDecrement(t) : tx[t].todo \cap (WithChannel(t) \cup Replies(db, row, d)) = {}}

\* call[t] runs s next, and the previous statement and its triggers are over.
At(t, s) == tx[t].pc = s /\ tx[t].todo = {} /\ ToDecrement(t) = {}

\* The row that a Send's next foreign key refers to.
Key(t) ==
    CASE tx[t].pc = "AuthorKey" -> call[t].user
      [] tx[t].pc = "TargetKey" -> IF call[t].to # None THEN call[t].to ELSE call[t].chan
      [] OTHER                  -> call[t].id
KeyExists(t) == Key(t) \in db /\ (tx[t].pc = "RootKey" => Named(t))

\* The messages whose author or recipient t is deleting.
Restricting(t) == WrittenBy(db \ tx[t].gone, row, call[t].user)

\* The transactions that t can be waiting for.
Blockers(t) ==
    IF tx[t].todo # {} \/ ToDecrement(t) # {}
    THEN (UNION {Lockers(t, r) : r \in Visitable(t)})
         \cup (UNION {Updaters(t, row[d].root) : d \in Due(t)})
    ELSE CASE tx[t].pc \in {"AuthorKey", "TargetKey", "RootKey"} ->
                  IF KeyExists(t) THEN Writers(t, Key(t)) ELSE {}
           [] tx[t].pc \in {"Increment", "Update"} ->
                  IF Named(t) THEN Updaters(t, call[t].id) ELSE {}
           [] tx[t].pc = "LockUserRow" ->
                  IF call[t].user \in db THEN Lockers(t, call[t].user) ELSE {}
           [] tx[t].pc = "DeleteUser" -> UNION {Writers(t, m) : m \in Restricting(t)}
           [] OTHER -> {}

\* t waits for itself through others: any set that contains whom t waits for, and
\* whom they wait for, contains t.
Deadlocked(t) ==
    \A S \in SUBSET Txs :
        Blockers(t) \subseteq S /\ (\A s \in S : Blockers(s) \subseteq S) => t \in S

-----------------------------------------------------------------------------
(* Requests. *)

Init ==
    /\ db = Users \cup Channels
    /\ row = [m \in Messages |-> NoRow]
    /\ count = [m \in Messages |-> 0]
    /\ call = [t \in Txs |-> NoCall]
    /\ tx = [t \in Txs |-> NoTx]

\* uuid.NewV7: an id that no row, request or running statement knows.
Fresh(m) ==
    /\ m \notin db
    /\ \A s \in Txs : call[s].id # m /\ tx[s].new # m /\ m \notin tx[s].todo

Arrive(t) ==
    /\ call[t] = NoCall
    /\ \E r \in Requests :
          /\ call' = [call EXCEPT ![t] = Received(r)]
          /\ \/ Received(r).resp # "pending" /\ UNCHANGED tx
             \/ /\ Received(r).resp = "pending"
                /\ First(r.op) # "AuthorKey"
                /\ tx' = [tx EXCEPT ![t].pc = First(r.op)]
             \/ /\ Received(r).resp = "pending"
                /\ First(r.op) = "AuthorKey"
                /\ \E m \in Messages : Fresh(m) /\ m # r.id
                                       /\ tx' = [tx EXCEPT ![t].pc = "AuthorKey", ![t].new = m]
    /\ UNCHANGED store

Return(t) ==
    /\ call[t].resp \in Responses
    /\ call' = [call EXCEPT ![t] = NoCall]
    /\ UNCHANGED <<store, tx>>

-----------------------------------------------------------------------------
(* The INSERT of a Send, its foreign keys and its trigger. *)

\* Mutant: the thread root's key is declared, and checked, before the channel's.
AfterKeySwapped(t) ==
    CASE tx[t].pc = "AuthorKey" -> IF call[t].id = None THEN "TargetKey" ELSE "RootKey"
      [] tx[t].pc = "RootKey"   -> "TargetKey"
      [] OTHER                  -> IF call[t].id = None THEN "Commit" ELSE "Increment"

AfterKey(t) ==
    CASE tx[t].pc = "AuthorKey" -> "TargetKey"
      [] tx[t].pc = "TargetKey" -> IF call[t].id = None THEN "Commit" ELSE "RootKey"
      [] OTHER                  -> "Increment"

\* Mutant: the referenced rows are locked FOR UPDATE.
CheckKeyForUpdate(t) ==
    /\ tx[t].pc \in {"AuthorKey", "TargetKey", "RootKey"}
    /\ Blockers(t) = {}
    /\ \/ ~KeyExists(t) /\ Refuse(t, "ErrKey")
       \/ /\ KeyExists(t)
          /\ tx' = [tx EXCEPT ![t].pc = AfterKey(t), ![t].held = @ \cup {Key(t)}]
          /\ UNCHANGED <<store, call>>

CheckKey(t) ==
    /\ tx[t].pc \in {"AuthorKey", "TargetKey", "RootKey"}
    /\ Blockers(t) = {}
    /\ \/ ~KeyExists(t) /\ Refuse(t, "ErrKey")
       \/ /\ KeyExists(t)
          /\ tx' = [tx EXCEPT ![t].pc = AfterKey(t), ![t].keys = @ \cup {Key(t)}]
          /\ UNCHANGED <<store, call>>

\* The UPDATE of message m, whose reply count becomes n.
Write(t, m, n, next) ==
    /\ tx' = [tx EXCEPT ![t].pc = next, ![t].upd = @ \cup {m}, ![t].val[m] = n]
    /\ UNCHANGED <<store, call>>

\* Mutant: the count is read without waiting for the row's other writers.
IncrementAtOnce(t) ==
    At(t, "Increment") /\ Write(t, call[t].id, count[call[t].id] + 1, "Commit")

Increment(t) ==
    /\ At(t, "Increment")
    /\ Blockers(t) = {}
    /\ Write(t, call[t].id, count[call[t].id] + 1, "Commit")

-----------------------------------------------------------------------------
(* Updates of a body, and reads. *)

\* Mutant: the row is written back as it was read, whoever is updating it.
UpdateAtOnce(t) ==
    /\ At(t, "Update")
    /\ \/ Named(t) /\ Write(t, call[t].id, count[call[t].id], "Commit")
       \/ ~Named(t) /\ Refuse(t, "ErrNotFound")

Update(t) ==
    /\ At(t, "Update")
    /\ Blockers(t) = {}
    /\ \/ Named(t) /\ Write(t, call[t].id, count[call[t].id], "Commit")
       \/ ~Named(t) /\ Refuse(t, "ErrNotFound")

Read(t) ==
    LET replies == Replies(db, row, call[t].id)
        found   == IF call[t].op = "ReadChannelThreadReplies" THEN replies # {} ELSE Named(t)
    IN
    /\ At(t, "Read") /\ call[t].op \notin Pages
    /\ \/ ~found /\ Refuse(t, "ErrNotFound")
       \/ /\ found
          /\ AnswerWith(t, "ok", IF call[t].op = "ReadChannelThreadReplies"
                                 THEN Cardinality(replies) ELSE count[call[t].id])
          /\ UNCHANGED store

ReadPage(t) ==
    /\ At(t, "Read") /\ call[t].op \in Pages
    /\ \E n \in 0..Cardinality(Listed(db, row, call[t])) : AnswerWith(t, "ok", n)
    /\ UNCHANGED store

-----------------------------------------------------------------------------
(* DELETE statements. *)

StartDelete(t, R, next) ==
    /\ tx' = [tx EXCEPT ![t].pc = next, ![t].todo = R]
    /\ UNCHANGED <<store, call>>

\* rows == 0 when nothing matches, or what did is gone when its turn comes.
Delete(t) ==
    LET R == IF call[t].op = "DeleteWorkspace" THEN db \cap {call[t].chan}
             ELSE {m \in {call[t].id} : Named(t)}
    IN
    /\ At(t, "Delete")
    /\ \/ R # {} /\ StartDelete(t, R, "Commit")
       \/ R = {} /\ Refuse(t, "ErrNotFound")

LockUserRow(t) ==
    LET u == call[t].user IN
    /\ At(t, "LockUserRow")
    /\ Blockers(t) = {}
    /\ \/ u \notin db /\ Refuse(t, "ErrNotFound")
       \/ /\ u \in db
          /\ tx' = [tx EXCEPT ![t].pc = "DeleteWorkspacesOwnedByUser", ![t].held = {u}]
          /\ UNCHANGED <<store, call>>

DeleteWorkspacesOwnedByUser(t) ==
    /\ At(t, "DeleteWorkspacesOwnedByUser")
    /\ StartDelete(t, OwnedChannels(db, call[t].user), "DeleteUser")

\* Mutant: the author's foreign key restricts nothing.
DeleteUserUnrestricted(t) ==
    /\ At(t, "DeleteUser")
    /\ tx' = [tx EXCEPT ![t].pc = "Commit", ![t].gone = @ \cup {call[t].user}]
    /\ UNCHANGED <<store, call>>

\* ON DELETE RESTRICT looks for a message of the account's, and waits for one that
\* is being deleted.
DeleteUser(t) ==
    /\ At(t, "DeleteUser")
    /\ \/ (\E m \in Restricting(t) : Writers(t, m) = {}) /\ Refuse(t, "ErrKey")
       \/ /\ Restricting(t) = {}
          /\ tx' = [tx EXCEPT ![t].pc = "Commit", ![t].gone = @ \cup {call[t].user}]
          /\ UNCHANGED <<store, call>>

\* Mutant: the cascade stops at the rows the statement names.
VisitRowAlone(t) ==
    \E r \in Visitable(t) :
        /\ Lockers(t, r) = {}
        /\ tx' = [tx EXCEPT ![t].gone = @ \cup ({r} \cap db), ![t].todo = @ \ {r}]
        /\ UNCHANGED <<store, call>>

VisitRow(t) ==
    \E r \in Visitable(t) :
        /\ Lockers(t, r) = {}
        /\ LET rest == tx[t].todo \ {r}
               gone == tx[t].gone \cup {r}
           IN
           tx' = IF r \in db
                 THEN [tx EXCEPT ![t].gone = gone,
                                 ![t].todo = rest \cup (Referencing(db, row, r) \ gone)]
                 ELSE [tx EXCEPT ![t].todo = rest]
        /\ UNCHANGED <<store, call>>

\* Mutant: the second decrement of one statement starts from the committed count.
DecrementCommitted(t) ==
    \E d \in Due(t) :
        LET r == row[d].root IN
        /\ Updaters(t, r) = {}
        /\ tx' = [tx EXCEPT ![t].upd = @ \cup {r}, ![t].val[r] = count[r] - 1,
                            ![t].dec = @ \cup {d}]
        /\ UNCHANGED <<store, call>>

\* The trigger of deleted reply d, which sees the statement's earlier updates.
Decrement(t) ==
    \E d \in Due(t) :
        LET r == row[d].root
            n == (IF r \in tx[t].upd THEN tx[t].val[r] ELSE count[r]) - 1
        IN
        /\ Updaters(t, r) = {}
        /\ IF n < 0 THEN Refuse(t, "ErrCheck")
           ELSE /\ tx' = [tx EXCEPT ![t].upd = @ \cup {r}, ![t].val[r] = n,
                                    ![t].dec = @ \cup {d}]
                /\ UNCHANGED <<store, call>>

NothingDeleted(t) ==
    call[t].op \in {"DeleteDirectMessage", "DeleteChannelMessage", "DeleteWorkspace"}
    /\ tx[t].gone = {}

DeletedNone(t) == At(t, "Commit") /\ NothingDeleted(t) /\ Refuse(t, "ErrNotFound")

-----------------------------------------------------------------------------
(* The end of a transaction. *)

Apply(t) ==
    LET x == tx[t] IN
    /\ db' = (db \ x.gone) \cup ({x.new} \ {None})
    /\ row' = [m \in Messages |-> IF m = x.new THEN NewRow(call[t])
                                  ELSE IF m \in x.gone THEN NoRow ELSE row[m]]
    /\ count' = [m \in Messages |-> IF m \in x.gone \cup {x.new} THEN 0
                                    ELSE IF m \in x.upd THEN x.val[m] ELSE count[m]]

\* An UPDATE returns the reply count of its row.
Returned(t) == IF First(call[t].op) = "Update" THEN tx[t].val[call[t].id] ELSE 0

Commit(t) ==
    /\ At(t, "Commit") /\ ~NothingDeleted(t)
    /\ Apply(t)
    /\ AnswerWith(t, "ok", Returned(t))

\* The statement fails, is the victim of a deadlock, or is committed while the
\* caller loses its answer.
StatementFails(t, resp) == call[t].resp = "pending" /\ Refuse(t, resp)
DeadlockAbort(t) == Deadlocked(t) /\ StatementFails(t, "ErrDeadlock")
Failure(t)       == Faults /\ StatementFails(t, "ErrInternal")
CommitLost(t) ==
    /\ Faults
    /\ At(t, "Commit") /\ ~NothingDeleted(t)
    /\ Apply(t)
    /\ AnswerWith(t, "ErrInternal", 0)

-----------------------------------------------------------------------------
Step(t) ==
    \/ CheckKey(t) \/ Increment(t) \/ Update(t) \/ Read(t) \/ ReadPage(t)
    \/ Delete(t) \/ LockUserRow(t) \/ DeleteWorkspacesOwnedByUser(t) \/ DeleteUser(t)
    \/ VisitRow(t) \/ Decrement(t) \/ DeletedNone(t)
    \/ Commit(t) \/ DeadlockAbort(t)

Next == \E t \in Txs : Arrive(t) \/ Return(t) \/ Step(t) \/ Failure(t) \/ CommitLost(t)

Spec == Init /\ [][Next]_vars

\* A caller runs on its own goroutine and PostgreSQL wakes whoever waits for a lock.
Fairness == \A t \in Txs : WF_vars(Step(t))
=============================================================================
