---------------------------- MODULE MessagesSafety ----------------------------
(***************************************************************************)
(* Correctness of Messages: the properties, and the inductive invariant    *)
(* from which Messages_proofs derives them.                                *)
(***************************************************************************)
EXTENDS Messages

\* The variables have their types.
TypeOK ==
    /\ db \subseteq Ids
    /\ row \in [Messages -> MessageRows]
    /\ count \in [Messages -> Int]
    /\ call \in [Txs -> CallRecords]
    /\ tx \in [Txs -> TxRecords]

\* "ReplyCount is the number of replies in the thread" (message/model.go:60),
\* although sends, deletions and body updates of several callers change and
\* carry the stored counter.  It is never negative, in particular.
ReplyCountsAreExact ==
    \A m \in Messages \cap db : count[m] = Cardinality(Replies(db, row, m))

\* The CHECK (reply_count >= 0) of migration 3, which the decrement's comment warns
\* of (migration 5, line 21), never refuses a deletion.
CheckNeverFails == \A t \in Txs : call[t].resp # "ErrCheck"

\* No message outlives its author, recipient, channel or thread root, whatever
\* is deleted while it is being sent (migrations 1 and 2).
NoDanglingMessage ==
    \A m \in Messages \cap db :
        /\ {row[m].author, row[m].to, row[m].chan} \ {None} \subseteq db
        /\ row[m].root # None => row[m].root \in db /\ row[row[m].root].chan # None

\* The calls behave as if each ran alone at one moment (module MessageStore); the
\* reply counts they return are numbers of replies of that moment.
Abstract == INSTANCE MessageStore

LinearizesToMessageStore == Abstract!Spec

Deletions == {"DeleteChannelMessage", "DeleteWorkspace", "DeleteUser"}

\* No reply is, or is being sent, in another channel than its root.
ThreadsInOneChannel ==
    /\ \A m \in Messages \cap db : row[m].root # None => row[row[m].root].chan = row[m].chan
    /\ \A t \in Txs : call[t].op = "SendChannelMessage" /\ call[t].id \in db =>
          row[call[t].id].chan = call[t].chan

\* Calls wait for each other in a circle only if one of them deletes; two of them, as
\* long as threads stay in one channel, which no constraint and no check of
\* SendChannelMessage enforces: replies to one thread, and a reply against the
\* deletion of its thread, never end in 40P01.
DeadlockTakesTwoDeletions ==
    \A S \in SUBSET Txs :
        S # {} /\ (\A t \in S : Blockers(t) \cap S # {}) =>
            /\ \E a \in S : call[a].op \in Deletions
            /\ ThreadsInOneChannel =>
                  \E a, b \in S : a # b /\ {call[a].op, call[b].op} \subseteq Deletions

\* Direct messages are never the victim of a deadlock: a call that sends, changes
\* or deletes one can be repeated only for reasons of its own.
DirectMessagesNeverAborted ==
    \A t \in Txs :
        call[t].op \in {"SendDirectMessage", "UpdateDirectMessage", "DeleteDirectMessage"}
            => ~Deadlocked(t)

\* Whatever waits for whom, somebody can go on: among any calls that wait for each
\* other only, one waits for nobody, or for itself, and PostgreSQL aborts it.
NobodyStandsStill ==
    \A S \in SUBSET Txs :
        /\ \E t \in S : call[t].resp = "pending"
        /\ \A t \in S : Blockers(t) \subseteq S
        => \E t \in S : call[t].resp = "pending" /\ (Blockers(t) = {} \/ Deadlocked(t))

\* The statements of a call, its foreign-key checks and its trigger in their order.
Stage(s) ==
    CASE s \in {"AuthorKey", "Update", "Read", "Delete", "LockUserRow"} -> 1
      [] s \in {"TargetKey", "DeleteWorkspacesOwnedByUser"} -> 2
      [] s \in {"RootKey", "DeleteUser"} -> 3
      [] s = "Increment" -> 4
      [] OTHER -> 5

\* From x to y a transaction comes nearer to its end: its statement is a later one, or
\* is still running and has deleted one more row, or has one row less to visit, or one
\* trigger less to run.
Nearer(x, y) ==
    \/ Stage(x.pc) < Stage(y.pc)
    \/ /\ x.pc = y.pc
       /\ \/ x.gone \subseteq y.gone /\ x.gone # y.gone
          \/ x.gone = y.gone /\ y.todo \subseteq x.todo /\ x.todo # y.todo
          \/ /\ x.gone = y.gone /\ x.todo = y.todo
             /\ x.dec \subseteq y.dec /\ x.dec # y.dec

\* Locks and writes are kept from x to y.
Keeps(x, y) ==
    /\ x.keys \subseteq y.keys /\ x.held \subseteq y.held /\ x.upd \subseteq y.upd
    /\ x.gone \subseteq y.gone /\ x.dec \subseteq y.dec /\ y.new = x.new

\* A running transaction keeps all that it has locked and written until it ends (two-phase
\* locking), and whatever it does brings it nearer to its end: no cascade and no
\* trigger runs for ever, or twice for a row, while others send and delete.
TransactionsAdvance ==
    [][\A t \in Txs :
          call[t].resp = "pending" /\ call'[t].resp = "pending" /\ tx'[t] # tx[t] =>
              Nearer(tx[t], tx'[t]) /\ Keeps(tx[t], tx'[t])]_vars

\* Every call is answered, whatever chain of locks it waits for.
EveryCallAnswered ==
    \A t \in Txs : call[t].resp = "pending" ~> call[t].resp # "pending"

-----------------------------------------------------------------------------
(* The inductive invariant. *)

\* A row written or locked FOR UPDATE by one transaction is locked by no other; a
\* row updated by one is updated by no other.
LockedApart(s, t) ==
    /\ Exclusive(s) \cap (Exclusive(t) \cup tx[t].upd \cup tx[t].keys) = {}
    /\ tx[s].upd \cap tx[t].upd = {}

\* Rows locked, updated and deleted are committed rows, a row inserted is not, and
\* nobody else knows its id.
WriteSetFits(t) ==
    /\ Exclusive(t) \cup tx[t].upd \cup tx[t].keys \subseteq db
    /\ tx[t].new \notin db
NewIdApart(s, t) ==
    /\ tx[s].new \notin tx[t].todo
    /\ s # t /\ tx[s].new # None => tx[s].new # tx[t].new

\* What a deletion takes along is deleted or still to be visited.
CascadeFollows(t) ==
    /\ \A r \in tx[t].gone : Referencing(db, row, r) \subseteq tx[t].gone \cup tx[t].todo
    /\ \A u \in tx[t].gone \cap Users : WrittenBy(db, row, u) \subseteq tx[t].gone

\* The reply counts that t has written: each accounts for the deleted replies that
\* the trigger has seen, and for the reply that t sends.
Decremented(t, m) == {d \in tx[t].dec : row[d].root = m}
Added(t, m) == IF tx[t].new # None /\ call[t].id = m THEN 1 ELSE 0
Accounts(t) ==
    /\ tx[t].dec \subseteq tx[t].gone \cap Messages
    /\ \A d \in tx[t].dec : row[d].root \in tx[t].upd
    /\ \A m \in tx[t].upd :
          tx[t].val[m] = count[m] - Cardinality(Decremented(t, m)) + Added(t, m)

\* Where a transaction of each operation stands.
Idle(t) == tx[t] = NoTx

SendInv(t) ==
    LET c == call[t] x == tx[t] IN
    /\ x.new \in Messages
    /\ x.held = {} /\ x.gone = {} /\ x.todo = {} /\ x.dec = {}
    /\ c.user \in Users /\ (IF c.to = None THEN c.chan ELSE c.to) \in Ids
    /\ c.to # None => c.chan = None /\ c.id = None
    /\ x.pc \in {"AuthorKey", "TargetKey", "RootKey", "Increment", "Commit"}
    /\ x.pc # "AuthorKey" => c.user \in x.keys
    /\ x.pc \in {"RootKey", "Increment", "Commit"} => {c.to, c.chan} \ {None} \subseteq x.keys
    /\ x.pc \in {"RootKey", "Increment"} => c.id \in Messages
    /\ x.pc \in {"Increment", "Commit"} /\ c.id # None =>
          c.id \in x.keys /\ row[c.id].chan # None
    /\ x.upd = IF x.pc = "Commit" THEN {c.id} \ {None} ELSE {}

\* Nothing written yet, or a single row updated.
UpdateInv(t) ==
    LET x == tx[t] IN
    /\ x.new = None /\ x.keys = {} /\ x.held = {} /\ x.gone = {} /\ x.todo = {} /\ x.dec = {}
    /\ x.pc \in {"Update", "Read", "Commit"}
    /\ x.pc # "Commit" => x.upd = {}
    /\ x.pc # "Read" => call[t].id \in Messages

DeleteInv(t) ==
    LET x == tx[t] IN
    /\ x.new = None /\ x.keys = {} /\ x.held = {}
    /\ x.gone \cup x.todo \subseteq Channels \cup Messages
    /\ x.pc \in {"Delete", "Commit"}
    /\ x.pc = "Delete" => x.upd = {} /\ x.gone = {} /\ x.todo = {} /\ x.dec = {}

DeleteUserInv(t) ==
    LET x == tx[t] IN
    /\ x.new = None /\ x.keys = {}
    /\ call[t].user \in Users
    /\ x.todo \subseteq Channels \cup Messages
    /\ x.gone \subseteq Channels \cup Messages \cup x.held
    /\ x.pc \in {"LockUserRow", "DeleteWorkspacesOwnedByUser", "DeleteUser", "Commit"}
    /\ x.held = IF x.pc = "LockUserRow" THEN {} ELSE {call[t].user}
    /\ x.pc \in {"LockUserRow", "DeleteWorkspacesOwnedByUser"} =>
          x.upd = {} /\ x.gone = {} /\ x.todo = {} /\ x.dec = {}

TxInv(t) ==
    \/ call[t].resp # "pending" /\ Idle(t)
    \/ /\ call[t].resp = "pending"
       /\ \/ First(call[t].op) = "AuthorKey"          /\ SendInv(t)
          \/ First(call[t].op) \in {"Update", "Read"} /\ UpdateInv(t)
          \/ First(call[t].op) = "Delete"             /\ DeleteInv(t)
          \/ First(call[t].op) = "LockUserRow"        /\ DeleteUserInv(t)

Local(t) == WriteSetFits(t) /\ CascadeFollows(t) /\ Accounts(t) /\ TxInv(t)

IInv ==
    /\ TypeOK
    /\ ReplyCountsAreExact
    /\ CheckNeverFails
    /\ NoDanglingMessage
    /\ \A t \in Txs : Local(t)
    /\ \A s, t \in Txs : (s # t => LockedApart(s, t)) /\ NewIdApart(s, t)
=============================================================================
