-------------------------- MODULE MessageLocks_proofs --------------------------
(***************************************************************************)
(* Who waits for whom in Messages, and why circles take two deletions.     *)
(***************************************************************************)
EXTENDS MessageStore_proofs

\* Whoever is waited for holds something, and more than keys of accounts unless by a
\* deletion that is about to lock its account.
LEMMA HoldersAreWaitedFor ==
    ASSUME IInv, NEW s \in Txs, NEW x \in Blockers(s)
    PROVE  /\ x \in Txs \ {s}
           /\ tx[s].pc = "LockUserRow" => Exclusive(x) \cup tx[x].upd \cup tx[x].keys # {}
           /\ tx[s].pc # "LockUserRow" =>
                 Exclusive(x) \cup tx[x].upd \cup (tx[x].keys \ Users) # {}
<1>1. CASE x \in UNION {Lockers(s, r) : r \in Visitable(s)} /\ tx[s].todo # {}
    <2>1. tx[s].todo \subseteq Channels \cup Messages /\ tx[s].pc # "LockUserRow"
        BY <1>1, DeletingInv
    <2>2. PICK r \in tx[s].todo : x \in Lockers(s, r)
        BY <1>1 DEF Visitable
    <2> QED BY <2>1, <2>2, IdsAreDisjoint DEF Lockers
<1>2. CASE \E r : x \in Updaters(s, r) \/ x \in Writers(s, r)
    BY <1>2 DEF Updaters, Writers
<1>3. CASE tx[s].pc = "LockUserRow" /\ x \in Lockers(s, call[s].user)
    BY <1>3 DEF Lockers
<1>4. \/ x \in UNION {Lockers(s, r) : r \in Visitable(s)} /\ tx[s].todo # {}
      \/ \E r : x \in Updaters(s, r) \/ x \in Writers(s, r)
      \/ tx[s].pc = "LockUserRow" /\ x \in Lockers(s, call[s].user)
    BY DEF Blockers, Visitable
<1> QED BY <1>1, <1>2, <1>3, <1>4

\* A deletion that has not begun, or a call that is over, waits for nobody.
LEMMA WaitsForNobody ==
    ASSUME NEW t \in Txs, At(t, "Commit") \/ At(t, "Delete") \/ At(t, "none") \/ At(t, "Read")
    PROVE  Blockers(t) = {}
BY DEF Blockers, At


-----------------------------------------------------------------------------
(* The order in which a call locks its rows. *)

\* A Send has locked its channel before its thread root, and both before it counts.
KeysFit(t) ==
    /\ call[t].op = "SendDirectMessage" => call[t].to # None
    /\ \A r \in tx[t].keys \ Users :
          \/ r = call[t].chan /\ tx[t].pc \in {"RootKey", "Increment", "Commit"}
          \/ r = call[t].id /\ tx[t].pc \in {"Increment", "Commit"}

\* A deletion visits channels first, then what refers to a row that is gone; a count it
\* has decremented is in a channel it does not delete, as long as the thread is in one
\* channel.
Ordered(t) ==
    /\ tx[t].todo \cap Channels # {} => tx[t].gone \cap Messages = {}
    /\ \A m \in (tx[t].gone \cup (tx[t].todo \cap db)) \cap Messages :
          m \in Target(t) \/ row[m].root \in tx[t].gone \/ row[m].chan \in tx[t].gone
    /\ \A d \in tx[t].dec :
          row[d].chan \in tx[t].gone => row[row[d].root].chan # row[d].chan

\* A message is younger than its thread root.
ThreadsAreTrees ==
    \A C \in SUBSET (Messages \cap db) : C # {} => \E m \in C : row[m].root \notin C

Orderly == Stands /\ ThreadsAreTrees /\ \A t \in Txs : KeysFit(t) /\ Ordered(t)

LEMMA EmptyOrdered ==
    ASSUME NEW t, tx'[t].gone = {}, tx'[t].dec = {}, tx'[t].todo = {}
    PROVE  Ordered(t)'
BY DEF Ordered

LEMMA OtherOrdered ==
    ASSUME Orderly, NEW t \in Txs, NEW s \in Txs \ {t},
           tx'[s] = tx[s], call'[s] = call[s],
           UNCHANGED store \/ (At(t, "Commit") /\ Apply(t))
    PROVE  (KeysFit(s) /\ Ordered(s))'
<1>1. IInv /\ KeysFit(s) /\ Ordered(s) /\ Target(s)' = Target(s)
    BY DEF Orderly, Stands, Target
<1>2. KeysFit(s)'
    BY <1>1 DEF KeysFit
<1>3. CASE UNCHANGED store
    BY <1>1, <1>2, <1>3 DEF Ordered, store
<1>4. CASE At(t, "Commit") /\ Apply(t)
    <2> DEFINE x == tx[t]
               y == tx[s]
    <2>1. /\ \A m \in Messages \cap db' : m # x.new => m \in db \ x.gone /\ row'[m] = row[m]
          /\ db \ x.gone \subseteq db'
        BY <1>1, <1>4, AppliedRows
    <2>2. /\ WriteSetFits(s) /\ LockedApart(s, t) /\ LockedApart(t, s) /\ NewIdApart(t, s)
          /\ Accounts(s) /\ x.new \notin db /\ y \in TxRecords
        BY <1>1 DEF IInv, Local, WriteSetFits, TypeOK
    <2>3. \A m \in y.upd \cup y.gone : m \in db' /\ m # x.new
        BY <2>1, <2>2 DEF WriteSetFits, LockedApart, Exclusive
    <2>4. \A m \in (y.gone \cup (y.todo \cap db')) \cap Messages :
              m \in (y.gone \cup (y.todo \cap db)) \cap Messages /\ row'[m] = row[m]
        BY <2>1, <2>2, <2>3 DEF NewIdApart
    <2>5. \A d \in y.dec : row'[d] = row[d] /\ row'[row[d].root] = row[row[d].root]
        BY <2>1, <2>2, <2>3 DEF Accounts, TxRecords
    <2> QED BY <1>1, <1>2, <2>4, <2>5 DEF Ordered
<1> QED BY <1>3, <1>4

LEMMA TreesStep ==
    ASSUME Orderly, NEW t \in Txs, UNCHANGED store \/ (At(t, "Commit") /\ Apply(t))
    PROVE  ThreadsAreTrees'
<1>1. CASE UNCHANGED store
    BY <1>1 DEF Orderly, ThreadsAreTrees, store
<1>2. CASE At(t, "Commit") /\ Apply(t)
    <2> DEFINE new == tx[t].new
    <2>1. IInv
        BY DEF Orderly, Stands
    <2>2. /\ \A m \in Messages \cap db' : m # new => m \in db /\ row'[m] = row[m]
          /\ new # None => row'[new] = NewRow(call[t])
        BY <1>2, <2>1, AppliedRows
    <2>3. new \notin db /\ (new # None /\ call[t].id # None => call[t].id \in tx[t].keys)
        BY <1>2, <2>1, WritesOfCommit
    <2>4. tx[t].keys \subseteq db
        BY <2>1 DEF IInv, Local, WriteSetFits
    <2>5. SUFFICES ASSUME NEW C \in SUBSET (Messages \cap db'), C # {}
                   PROVE  \E m \in C : row'[m].root \notin C
        BY DEF ThreadsAreTrees
    <2>6. None \notin C
        BY <2>5, NoneIsNoId DEF Ids
    <2>7. CASE C \subseteq {new}
        <3>1. new \in C /\ new # None
            BY <2>5, <2>6, <2>7
        <3>2. row'[new].root = call[t].id
            BY <2>2, <3>1 DEF NewRow
        <3>3. call[t].id # new
            BY <2>3, <2>4, <3>1
        <3> QED BY <2>7, <3>1, <3>2, <3>3
    <2>8. CASE ~(C \subseteq {new})
        <3>1. C \ {new} \in SUBSET (Messages \cap db) /\ C \ {new} # {}
            BY <2>2, <2>5, <2>8
        <3>2. PICK m \in C \ {new} : row[m].root \notin C \ {new}
            BY <3>1 DEF Orderly, ThreadsAreTrees
        <3>3. row'[m] = row[m] /\ m \in Messages \cap db
            BY <2>2, <3>1, <3>2
        <3>4. row[m].root = None \/ row[m].root \in db
            BY <2>1, <3>3 DEF IInv, NoDanglingMessage
        <3> QED BY <2>3, <2>6, <3>2, <3>3, <3>4
    <2> QED BY <2>7, <2>8
<1> QED BY <1>1, <1>2

-----------------------------------------------------------------------------
(* t's own steps keep its order. *)

\* A call that is over, or has just arrived, has locked nothing.
LEMMA OverOrdered ==
    ASSUME Orderly, NEW t \in Txs, tx'[t] = NoTx, call'[t].op = call[t].op, call'[t].to = call[t].to
    PROVE  (KeysFit(t) /\ Ordered(t))'
<1>1. KeysFit(t)
    BY DEF Orderly
<1>2. KeysFit(t)'
    BY <1>1 DEF KeysFit, NoTx
<1>3. Ordered(t)'
    BY EmptyOrdered DEF NoTx
<1> QED BY <1>2, <1>3

LEMMA NotAnswered ==
    ASSUME IInv, NEW t \in Txs, UNCHANGED call, call[t].resp = "pending"
    PROVE  /\ ~Refuse(t, "ErrKey") /\ ~Refuse(t, "ErrNotFound") /\ ~Refuse(t, "ErrCheck")
<1>1. call \in [Txs -> CallRecords]
    BY DEF IInv, TypeOK
<1>2. ASSUME NEW resp, resp # "pending" PROVE ~Refuse(t, resp)
    BY <1>1, <1>2 DEF Refuse, AnswerWith, CallRecords
<1> QED BY <1>2

\* A step that deletes nothing, of a call that deletes nothing.
LEMMA QuietOrdered ==
    ASSUME Orderly, NEW t \in Txs, UNCHANGED <<store, call>>,
           tx'[t].gone = {}, tx'[t].dec = {}, tx'[t].todo = {},
           \/ tx'[t].keys = {}
           \/ tx[t].pc = "Increment" /\ tx'[t].pc = "Commit" /\ tx'[t].keys = tx[t].keys
    PROVE  (KeysFit(t) /\ Ordered(t))'
<1>1. KeysFit(t)
    BY DEF Orderly
<1>2. KeysFit(t)'
    BY <1>1 DEF KeysFit
<1> QED BY <1>2, EmptyOrdered

LEMMA ArriveOrdered ==
    ASSUME Orderly, NEW t \in Txs, Arrive(t) \/ Return(t)
    PROVE  (KeysFit(t) /\ Ordered(t))'
<1>1. /\ IInv /\ call \in [Txs -> CallRecords] /\ tx \in [Txs -> TxRecords] /\ TxInv(t)
    BY DEF Orderly, Stands, IInv, TypeOK, Local
<1>2. tx[t] = NoTx
    BY <1>1 DEF Arrive, Return, NoCall, Responses, TxInv, Idle
<1>3. /\ tx'[t].gone = {} /\ tx'[t].dec = {} /\ tx'[t].todo = {} /\ tx'[t].keys = {}
    BY <1>1, <1>2 DEF Arrive, Return, NoTx
<1>4. call'[t].op = "SendDirectMessage" => call'[t].to # None
    <2>1. CASE Return(t)
        BY <1>1, <2>1 DEF Return, NoCall
    <2>2. CASE Arrive(t)
        <3>1. PICK r \in Requests : call' = [call EXCEPT ![t] = Received(r)]
            BY <2>2 DEF Arrive
        <3>2. call'[t].op = r.op /\ call'[t].to = r.to
            BY <1>1, <3>1 DEF Received
        <3>3. r.op = "SendDirectMessage" => r.to \in Users
            BY DEF Requests, OnMessage
        <3> QED BY <3>2, <3>3, NoneIsNoId DEF Ids
    <2> QED BY <2>1, <2>2
<1> QED BY <1>3, <1>4, EmptyOrdered DEF KeysFit

LEMMA CheckKeyOrdered ==
    ASSUME Orderly, NEW t \in Txs, CheckKey(t), UNCHANGED <<store, call>>
    PROVE  (KeysFit(t) /\ Ordered(t))'
<1>1. /\ IInv /\ tx[t].pc \in {"AuthorKey", "TargetKey", "RootKey"} /\ KeysFit(t)
      /\ tx \in [Txs -> TxRecords] /\ call \in [Txs -> CallRecords] /\ tx[t] \in TxRecords
    BY DEF Orderly, Stands, IInv, TypeOK, CheckKey
<1>2. SendInv(t) /\ call[t].resp = "pending"
    BY <1>1, OperationAt
<1>3. tx' = [tx EXCEPT ![t].pc = AfterKey(t), ![t].keys = @ \cup {Key(t)}]
    BY <1>1, <1>2, NotAnswered DEF CheckKey
<1>4. /\ tx'[t].pc = AfterKey(t) /\ tx'[t].keys = tx[t].keys \cup {Key(t)}
      /\ tx'[t].gone = {} /\ tx'[t].dec = {} /\ tx'[t].todo = {}
    BY <1>1, <1>2, <1>3 DEF SendInv
<1>5. ASSUME NEW r \in (tx[t].keys \cup {Key(t)}) \ Users
      PROVE  \/ r = call[t].chan /\ AfterKey(t) \in {"RootKey", "Increment", "Commit"}
             \/ r = call[t].id /\ AfterKey(t) \in {"Increment", "Commit"}
    <2>1. CASE tx[t].pc = "AuthorKey"
        BY <1>1, <1>2, <1>5, <2>1 DEF KeysFit, SendInv, Key
    <2>2. CASE tx[t].pc = "TargetKey"
        <3>1. AfterKey(t) \in {"RootKey", "Commit"}
            BY <2>2 DEF AfterKey
        <3>2. r \in tx[t].keys => FALSE
            BY <1>1, <1>5, <2>2 DEF KeysFit
        <3>3. r = Key(t)
            BY <1>5, <3>2
        <3>4. call[t].to # None => call[t].to \in Users
            BY <1>1 DEF CallRecords
        <3> QED BY <1>5, <2>2, <3>1, <3>3, <3>4 DEF Key
    <2>3. CASE tx[t].pc = "RootKey"
        BY <1>1, <1>5, <2>3 DEF KeysFit, Key, AfterKey
    <2> QED BY <1>1, <2>1, <2>2, <2>3
<1>6. KeysFit(t)'
    BY <1>1, <1>4, <1>5 DEF KeysFit
<1> QED BY <1>4, <1>6, EmptyOrdered

LEMMA StartOrdered ==
    ASSUME Orderly, NEW t \in Txs, Delete(t) \/ DeleteWorkspacesOwnedByUser(t),
           UNCHANGED <<store, call>>
    PROVE  (KeysFit(t) /\ Ordered(t))'
<1>1. /\ IInv /\ tx[t].pc \in {"Delete", "DeleteWorkspacesOwnedByUser"} /\ KeysFit(t)
      /\ tx \in [Txs -> TxRecords] /\ call \in [Txs -> CallRecords] /\ tx[t] \in TxRecords
    BY DEF Orderly, Stands, IInv, TypeOK, Delete, DeleteWorkspacesOwnedByUser, At
<1>2. /\ call[t].resp = "pending" /\ tx[t].gone = {} /\ tx[t].dec = {} /\ tx[t].keys = {}
      /\ tx[t].pc = "Delete" => call[t].op # "DeleteUser"
    BY <1>1, OperationAt, FirstOf DEF DeleteInv, DeleteUserInv
<1>3. PICK R, next : /\ StartDelete(t, R, next)
                     /\ \A m \in R \cap Messages : m \in Target(t)
    <2>1. CASE DeleteWorkspacesOwnedByUser(t)
        <3>1. OwnedChannels(db, call[t].user) \cap Messages = {}
            BY IdsAreDisjoint DEF OwnedChannels
        <3> QED BY <2>1, <3>1 DEF DeleteWorkspacesOwnedByUser
    <2>2. CASE Delete(t) /\ call[t].op = "DeleteWorkspace"
        <3>1. StartDelete(t, db \cap {call[t].chan}, "Commit")
            BY <1>1, <1>2, <2>2, NotAnswered DEF Delete
        <3> QED BY <2>2, <3>1 DEF Target
    <2>3. CASE Delete(t) /\ call[t].op # "DeleteWorkspace"
        <3>1. StartDelete(t, {m \in {call[t].id} : Named(t)}, "Commit")
            BY <1>1, <1>2, <2>3, NotAnswered DEF Delete
        <3>2. tx[t].pc = "Delete"
            BY <2>3 DEF Delete, At
        <3> QED BY <1>2, <2>3, <3>1, <3>2 DEF Target
    <2> QED BY <2>1, <2>2, <2>3
<1>4. /\ tx'[t].gone = {} /\ tx'[t].dec = {} /\ tx'[t].keys = {} /\ tx'[t].todo = R
    BY <1>1, <1>2, <1>3 DEF StartDelete
<1>5. Target(t)' = Target(t)
    BY DEF Target
<1> QED BY <1>1, <1>3, <1>4, <1>5 DEF KeysFit, Ordered

LEMMA DeleteUserOrdered ==
    ASSUME Orderly, NEW t \in Txs, DeleteUser(t), UNCHANGED <<store, call>>
    PROVE  (KeysFit(t) /\ Ordered(t))'
<1>1. /\ IInv /\ tx[t].pc = "DeleteUser" /\ tx[t].todo = {} /\ KeysFit(t) /\ Ordered(t)
      /\ tx \in [Txs -> TxRecords] /\ call \in [Txs -> CallRecords]
      /\ row \in [Messages -> MessageRows] /\ tx[t] \in TxRecords
    BY DEF Orderly, Stands, IInv, TypeOK, DeleteUser, At
<1>2. call[t].resp = "pending" /\ DeleteUserInv(t)
    BY <1>1, OperationAt
<1>3. tx' = [tx EXCEPT ![t].pc = "Commit", ![t].gone = @ \cup {call[t].user}]
    BY <1>1, <1>2, NotAnswered DEF DeleteUser
<1>4. /\ tx'[t].gone = tx[t].gone \cup {call[t].user} /\ tx'[t].todo = {}
      /\ tx'[t].dec = tx[t].dec /\ tx'[t].keys = {} /\ call[t].user \in Users
      /\ Target(t)' = Target(t)
    BY <1>1, <1>2, <1>3 DEF DeleteUserInv, Target
<1>5. KeysFit(t)'
    BY <1>1, <1>4 DEF KeysFit
<1>6. \A m \in (tx[t].gone \cup {call[t].user}) \cap Messages : m \in tx[t].gone
    BY <1>4, IdsAreDisjoint
<1>7. \A d \in tx[t].dec : row[d].chan \in tx'[t].gone => row[d].chan \in tx[t].gone
    BY <1>1, <1>4, IdsAreDisjoint, NoneIsNoId DEF TxRecords, MessageRows, Ids
<1>8. Ordered(t)'
    BY <1>1, <1>4, <1>6, <1>7 DEF Ordered, store
<1> QED BY <1>5, <1>8

LEMMA VisitRowOrdered ==
    ASSUME Orderly, NEW t \in Txs, VisitRow(t)
    PROVE  (KeysFit(t) /\ Ordered(t))'
<1>1. PICK r \in Visitable(t) :
        /\ LET rest == tx[t].todo \ {r}
               gone == tx[t].gone \cup {r}
           IN
           tx' = IF r \in db
                 THEN [tx EXCEPT ![t].gone = gone,
                                 ![t].todo = rest \cup (Referencing(db, row, r) \ gone)]
                 ELSE [tx EXCEPT ![t].todo = rest]
        /\ UNCHANGED <<store, call>>
    BY DEF VisitRow
<1>2. /\ IInv /\ KeysFit(t) /\ Ordered(t) /\ Accounts(t)
      /\ tx \in [Txs -> TxRecords] /\ row \in [Messages -> MessageRows] /\ tx[t] \in TxRecords
      /\ r \in tx[t].todo /\ (r \in Channels \/ tx[t].todo \cap Channels = {})
    BY DEF Orderly, Stands, IInv, TypeOK, Local, Visitable
<1>3. tx[t].keys = {} /\ r \in Channels \cup Messages
    BY <1>2, DeletingInv
<1> DEFINE gone == tx'[t].gone
           todo == tx'[t].todo
<1>4. tx'[t].keys = {} /\ tx'[t].dec = tx[t].dec /\ Target(t)' = Target(t)
    BY <1>1, <1>2, <1>3 DEF Target
<1>5. KeysFit(t)'
    BY <1>1, <1>2, <1>4 DEF KeysFit
<1>6. CASE r \in db
    <2>1. /\ gone = tx[t].gone \cup {r}
          /\ todo = (tx[t].todo \ {r}) \cup (Referencing(db, row, r) \ gone)
        BY <1>1, <1>2, <1>6
    <2> HIDE DEF gone, todo
    <2>2. Referencing(db, row, r) \subseteq Messages
        BY DEF Referencing
    <2>3. todo \cap Channels # {} => gone \cap Messages = {}
        BY <1>2, <2>1, <2>2, IdsAreDisjoint DEF Ordered
    <2>4. \A m \in (gone \cup (todo \cap db)) \cap Messages :
              m \in Target(t) \/ row[m].root \in gone \/ row[m].chan \in gone
        BY <1>2, <1>6, <2>1 DEF Ordered, Referencing
    <2>5. \A d \in tx[t].dec : row[d].chan \in gone => row[d].chan \in tx[t].gone
        <3>1. CASE r \in Channels
            BY <1>2, <3>1 DEF Accounts, Ordered
        <3>2. CASE r \in Messages
            BY <1>2, <2>1, <3>2, IdsAreDisjoint, NoneIsNoId DEF TxRecords, MessageRows, Ids
        <3> QED BY <1>3, <3>1, <3>2
    <2>6. Ordered(t)'
        BY <1>1, <1>2, <1>4, <2>3, <2>4, <2>5 DEF Ordered, store, gone, todo
    <2> QED BY <1>5, <2>6
<1>7. CASE r \notin db
    <2>1. gone = tx[t].gone /\ todo = tx[t].todo \ {r}
        BY <1>1, <1>2, <1>7
    <2> HIDE DEF gone, todo
    <2>2. Ordered(t)'
        BY <1>1, <1>2, <1>4, <2>1 DEF Ordered, store, gone, todo
    <2> QED BY <1>5, <2>2
<1> QED BY <1>6, <1>7

LEMMA DecrementOrdered ==
    ASSUME Orderly, NEW t \in Txs, Decrement(t), UNCHANGED <<store, call>>
    PROVE  (KeysFit(t) /\ Ordered(t))'
<1>1. /\ IInv /\ KeysFit(t) /\ Ordered(t) /\ Accounts(t) /\ CascadeFollows(t) /\ WriteSetFits(t)
      /\ tx \in [Txs -> TxRecords] /\ call \in [Txs -> CallRecords]
      /\ row \in [Messages -> MessageRows] /\ tx[t] \in TxRecords
    BY DEF Orderly, Stands, IInv, TypeOK, Local
<1>2. PICK d \in Due(t) :
        \/ Refuse(t, "ErrCheck")
        \/ \E n : tx' = [tx EXCEPT ![t].upd = @ \cup {row[d].root}, ![t].val[row[d].root] = n,
                                   ![t].dec = @ \cup {d}]
    BY DEF Decrement
<1>3. /\ d \in tx[t].gone \cap Messages /\ row[d].root \in Messages \ tx[t].gone
      /\ \A m \in tx[t].todo \cap Messages :
            ~(row[m].chan \in tx[t].gone /\ row[m].chan = row[d].chan)
    BY <1>2 DEF Due, ToDecrement, WithChannel
<1>4. tx[t].keys = {} /\ call[t].resp = "pending"
    BY <1>1, <1>3, DeletingInv
<1>5. PICK n : tx' = [tx EXCEPT ![t].upd = @ \cup {row[d].root}, ![t].val[row[d].root] = n,
                                ![t].dec = @ \cup {d}]
    BY <1>1, <1>2, <1>4, NotAnswered
<1>6. /\ tx'[t].gone = tx[t].gone /\ tx'[t].todo = tx[t].todo /\ tx'[t].keys = {}
      /\ tx'[t].dec = tx[t].dec \cup {d} /\ Target(t)' = Target(t)
    BY <1>1, <1>4, <1>5 DEF Target
<1>7. row[d].chan \in tx[t].gone => row[row[d].root].chan # row[d].chan
    <2> SUFFICES ASSUME row[d].chan \in tx[t].gone, row[row[d].root].chan = row[d].chan
                 PROVE  FALSE
        OBVIOUS
    <2>1. row[d].root \in db
        BY <1>1, <1>3, NoneIsNoId DEF IInv, NoDanglingMessage, WriteSetFits, Exclusive, Ids
    <2>2. row[d].root \in Referencing(db, row, row[d].chan)
        BY <1>3, <2>1 DEF Referencing
    <2>3. row[d].root \in tx[t].todo
        BY <1>1, <1>3, <2>2 DEF CascadeFollows
    <2> QED BY <1>3, <2>3
<1>8. KeysFit(t)'
    BY <1>1, <1>6 DEF KeysFit
<1>9. Ordered(t)'
    BY <1>1, <1>6, <1>7 DEF Ordered, store
<1> QED BY <1>8, <1>9

LEMMA StepOrdered ==
    ASSUME Orderly, NEW t \in Txs, Arrive(t) \/ Return(t) \/ Step(t) \/ Failure(t) \/ CommitLost(t)
    PROVE  (KeysFit(t) /\ Ordered(t))'
<1>1. /\ IInv /\ KeysFit(t) /\ Ordered(t)
      /\ tx \in [Txs -> TxRecords] /\ call \in [Txs -> CallRecords] /\ tx[t] \in TxRecords
    BY DEF Orderly, Stands, IInv, TypeOK
<1>2. ASSUME NEW resp, NEW got, AnswerWith(t, resp, got) PROVE (KeysFit(t) /\ Ordered(t))'
    <2>1. tx'[t] = NoTx /\ call'[t].op = call[t].op /\ call'[t].to = call[t].to
        BY <1>1, <1>2 DEF AnswerWith, CallRecords
    <2> QED BY <2>1, OverOrdered
<1>3. ASSUME NEW resp, Refuse(t, resp) PROVE (KeysFit(t) /\ Ordered(t))'
    BY <1>2, <1>3 DEF Refuse
<1>4. CASE Arrive(t) \/ Return(t)
    BY <1>4, ArriveOrdered
<1>5. CASE CheckKey(t)
    BY <1>3, <1>5, CheckKeyOrdered DEF CheckKey
<1>6. CASE Increment(t)
    <2>1. tx[t].pc = "Increment" /\ UNCHANGED <<store, call>> /\ SendInv(t)
        BY <1>1, <1>6, OperationAt DEF Increment, At, Write
    <2>2. /\ tx'[t].pc = "Commit" /\ tx'[t].keys = tx[t].keys
          /\ tx'[t].gone = {} /\ tx'[t].dec = {} /\ tx'[t].todo = {}
        BY <1>1, <1>6, <2>1 DEF Increment, Write, SendInv
    <2> QED BY <2>1, <2>2, QuietOrdered
<1>7. CASE Update(t)
    <2>1. CASE Write(t, call[t].id, count[call[t].id], "Commit")
        <3>1. UpdateInv(t) /\ UNCHANGED <<store, call>>
            BY <1>1, <1>7, <2>1, OperationAt DEF Update, At, Write
        <3>2. /\ tx'[t].keys = {} /\ tx'[t].gone = {} /\ tx'[t].dec = {} /\ tx'[t].todo = {}
            BY <1>1, <2>1, <3>1 DEF Write, UpdateInv
        <3> QED BY <3>1, <3>2, QuietOrdered
    <2> QED BY <1>3, <1>7, <2>1 DEF Update
<1>8. CASE Read(t) \/ ReadPage(t) \/ DeletedNone(t) \/ DeadlockAbort(t) \/ Failure(t)
    <2>1. \E resp, got : AnswerWith(t, resp, got)
        BY <1>8 DEF Read, ReadPage, DeletedNone, DeadlockAbort, Failure, StatementFails, Refuse
    <2> QED BY <1>2, <2>1
<1>9. CASE Delete(t) \/ DeleteWorkspacesOwnedByUser(t)
    <2>1. Refuse(t, "ErrNotFound") \/ UNCHANGED <<store, call>>
        BY <1>9 DEF Delete, DeleteWorkspacesOwnedByUser, StartDelete
    <2> QED BY <1>3, <1>9, <2>1, StartOrdered
<1>10. CASE LockUserRow(t)
    <2>1. CASE /\ tx' = [tx EXCEPT ![t].pc = "DeleteWorkspacesOwnedByUser",
                                   ![t].held = {call[t].user}]
               /\ UNCHANGED <<store, call>>
        <3>1. DeleteUserInv(t) /\ tx[t].pc = "LockUserRow"
            BY <1>1, <1>10, OperationAt DEF LockUserRow, At
        <3>2. /\ tx'[t].keys = {} /\ tx'[t].gone = {} /\ tx'[t].dec = {} /\ tx'[t].todo = {}
            BY <1>1, <2>1, <3>1 DEF DeleteUserInv
        <3> QED BY <2>1, <3>2, QuietOrdered
    <2> QED BY <1>3, <1>10, <2>1 DEF LockUserRow
<1>11. CASE DeleteUser(t)
    BY <1>3, <1>11, DeleteUserOrdered DEF DeleteUser
<1>12. CASE VisitRow(t)
    BY <1>12, VisitRowOrdered
<1>13. CASE Decrement(t)
    <2>1. Refuse(t, "ErrCheck") \/ UNCHANGED <<store, call>>
        BY <1>13 DEF Decrement
    <2> QED BY <1>3, <1>13, <2>1, DecrementOrdered
<1>14. CASE Commit(t) \/ CommitLost(t)
    BY <1>2, <1>14 DEF Commit, CommitLost
<1> QED BY <1>4, <1>5, <1>6, <1>7, <1>8, <1>9, <1>10, <1>11, <1>12, <1>13, <1>14 DEF Step

LEMMA OrderlyInvariant == Spec => []Orderly
<1>1. Init /\ Stands => Orderly
    <2> SUFFICES ASSUME Init, Stands PROVE Orderly
        OBVIOUS
    <2>1. ThreadsAreTrees
        BY IdsAreDisjoint DEF Init, ThreadsAreTrees
    <2>2. ASSUME NEW t \in Txs PROVE KeysFit(t) /\ Ordered(t)
        BY DEF Init, KeysFit, Ordered, NoTx, NoCall
    <2> QED BY <2>1, <2>2 DEF Orderly
<1>2. ASSUME Orderly, Stands', [Next]_vars PROVE Orderly'
    <2>1. CASE UNCHANGED vars
        <3>1. ThreadsAreTrees'
            BY <1>2, <2>1 DEF vars, store, Orderly, ThreadsAreTrees
        <3>2. ASSUME NEW t \in Txs PROVE KeysFit(t)' /\ Ordered(t)'
            <4>1. KeysFit(t) /\ Ordered(t) /\ Target(t)' = Target(t)
                BY <1>2, <2>1 DEF vars, Orderly, Target
            <4> QED BY <2>1, <4>1 DEF vars, store, KeysFit, Ordered
        <3> QED BY <1>2, <3>1, <3>2 DEF Orderly
    <2>2. ASSUME NEW t \in Txs, Arrive(t) \/ Return(t) \/ Step(t) \/ Failure(t) \/ CommitLost(t)
          PROVE  Orderly'
        <3>1. Stands
            BY <1>2 DEF Orderly
        <3>2. /\ \A q \in Txs \ {t} : tx'[q] = tx[q] /\ call'[q] = call[q]
              /\ UNCHANGED store \/ (At(t, "Commit") /\ Apply(t))
            BY <2>2, <3>1, ActsAlone
        <3>3. ThreadsAreTrees'
            BY <1>2, <3>2, TreesStep
        <3>4. \A s \in Txs \ {t} : (KeysFit(s) /\ Ordered(s))'
            BY <1>2, <3>2, OtherOrdered
        <3>5. (KeysFit(t) /\ Ordered(t))'
            BY <1>2, <2>2, StepOrdered
        <3> QED BY <1>2, <3>3, <3>4, <3>5 DEF Orderly
    <2> QED BY <1>2, <2>1, <2>2 DEF Next
<1> QED BY <1>1, <1>2, StandsInvariant, PTL DEF Spec

-----------------------------------------------------------------------------
(* Direct messages. *)

Direct == {"SendDirectMessage", "UpdateDirectMessage", "DeleteDirectMessage"}

\* Nothing but the message itself goes with a direct message.
LEMMA DirectMessageAlone ==
    ASSUME Stands, NEW t \in Txs, call[t].op = "DeleteDirectMessage", DeletionInv(t)
    PROVE  /\ Cascade(db, row, Target(t)) \subseteq {call[t].id}
           /\ call[t].id \in db => row[call[t].id].root = None
<1>1. Target(t) = {call[t].id} /\ IInv /\ call[t].id \in Ids /\ call[t] \in CallRecords
    BY DEF Target, DeletionInv, Stands, IInv, TypeOK
<1>2. call[t].id \in Messages
    BY <1>1, NoneIsNoId DEF CallRecords
<1>3. call[t].id \in db => row[call[t].id].root = None /\ row[call[t].id].chan = None
    BY <1>2 DEF DeletionInv, Named, IsNamed, Stands, RowsFit
<1>4. Referencing(db, row, call[t].id) = {}
    <2>1. CASE call[t].id \notin db
        BY <1>1, <2>1, NoReferences
    <2>2. ASSUME call[t].id \in db, NEW m \in Referencing(db, row, call[t].id)
          PROVE  FALSE
        <3>1. m \in Messages \cap db /\ row[m].chan \in Channels \cup {None}
            BY <1>1, <2>2 DEF Referencing, IInv, TypeOK, MessageRows
        <3>2. row[m].root = call[t].id
            BY <1>2, <2>2, <3>1, IdsAreDisjoint, NoneIsNoId DEF Referencing, Ids
        <3> QED BY <1>1, <1>3, <2>2, <3>1, <3>2, NoneIsNoId DEF IInv, NoDanglingMessage
    <2> QED BY <2>1, <2>2
<1>5. Cascade(db, row, {call[t].id}) \subseteq {call[t].id} \cup Cascade(db, row, {})
    BY <1>4, CascadeOfMore
<1>6. Cascade(db, row, {}) = {}
    BY NothingCascades
<1> QED BY <1>1, <1>3, <1>5, <1>6

\* A call on a direct message waits while it holds no more than keys of accounts.
LEMMA DirectHolds ==
    ASSUME Orderly, NEW t \in Txs, call[t].op \in Direct, Blockers(t) # {}
    PROVE  Exclusive(t) \cup tx[t].upd \cup (tx[t].keys \ Users) = {}
<1>1. IInv /\ StandsFor(t) /\ TxInv(t) /\ WriteSetFits(t) /\ Accounts(t) /\ call[t] \in CallRecords
    BY DEF Orderly, Stands, IInv, Local, TypeOK
<1>2. tx[t].pc # "none" /\ call[t].resp = "pending"
    <2>1. tx[t] # NoTx
        <3>1. tx[t] = NoTx => At(t, "none")
            BY DEF NoTx, At, ToDecrement
        <3> QED BY <3>1, WaitsForNobody
    <2>2. TxInv(t) /\ ~Idle(t)
        BY <1>1, <2>1 DEF Idle
    <2> QED BY <2>2 DEF TxInv, SendInv, UpdateInv, DeleteInv, DeleteUserInv
<1>3. CASE call[t].op = "SendDirectMessage"
    <2>1. SendInv(t) /\ KeysFit(t)
        BY <1>1, <1>2, <1>3, OperationAt, FirstOf DEF Orderly
    <2>2. tx[t].pc # "Commit" => tx[t].upd = {}
        BY <2>1 DEF SendInv
    <2>3. tx[t].pc # "Commit"
        BY <2>1, WaitsForNobody DEF SendInv, At, ToDecrement
    <2>4. tx[t].keys \subseteq Users
        BY <1>1, <1>3, <2>1, NoneIsNoId DEF KeysFit, SendInv, WriteSetFits, IInv, TypeOK
    <2> QED BY <2>1, <2>2, <2>3, <2>4 DEF SendInv, Exclusive
<1>4. CASE call[t].op = "UpdateDirectMessage"
    <2>1. UpdateInv(t)
        BY <1>1, <1>2, <1>4, OperationAt, FirstOf
    <2>2. tx[t].pc # "Commit"
        BY <2>1, WaitsForNobody DEF UpdateInv, At, ToDecrement
    <2> QED BY <2>1, <2>2 DEF UpdateInv, Exclusive
<1>5. CASE call[t].op = "DeleteDirectMessage"
    <2>1. DeleteInv(t) /\ First(call[t].op) = "Delete"
        BY <1>1, <1>2, <1>5, OperationAt, FirstOf
    <2>2. CASE tx[t].pc = "Delete"
        BY <2>1, <2>2 DEF DeleteInv, Exclusive
    <2>3. CASE tx[t].pc = "Commit"
        <3>1. DeletionInv(t)
            BY <1>1, <1>2, <2>1, <2>3 DEF StandsFor
        <3>2. CASE tx[t].gone = {}
            <4>1. tx[t].upd = {}
                BY <1>1, <3>1, <3>2 DEF Accounts, DeletionInv
            <4> QED BY <2>1, <3>2, <4>1 DEF DeleteInv, Exclusive
        <3>3. CASE tx[t].gone # {}
            <4>1. /\ tx[t].gone = {call[t].id} /\ tx[t].todo \cap db = {}
                  /\ row[call[t].id].root = None
                BY <1>1, <1>5, <3>1, <3>3, DirectMessageAlone
                   DEF Orderly, DeletionInv, WriteSetFits, Exclusive
            <4>2. ToDecrement(t) = {} /\ Due(t) = {}
                BY <4>1, NoneIsNoId DEF ToDecrement, Due, Ids
            <4>3. \A r \in tx[t].todo : Lockers(t, r) = {}
                BY <1>1, <4>1 DEF Lockers, IInv, Local, WriteSetFits
            <4>4. Blockers(t) = {}
                BY <2>3, <4>2, <4>3 DEF Blockers, Visitable
            <4> QED BY <4>4
        <3> QED BY <3>2, <3>3
    <2> QED BY <2>1, <2>2, <2>3 DEF DeleteInv
<1> QED BY <1>3, <1>4, <1>5 DEF Direct

\* A call on a direct message is not waited for, but by a deletion that is about to
\* lock its account, for which nobody waits.
LEMMA DirectNotDeadlocked ==
    ASSUME Orderly, NEW t \in Txs, call[t].op \in Direct
    PROVE  ~Deadlocked(t)
<1>1. CASE Blockers(t) = {}
    BY <1>1, SMT DEF Deadlocked
<1>2. CASE Blockers(t) # {}
    <2> DEFINE W == {s \in Txs : tx[s].pc = "LockUserRow"}
               S == Txs \ ({t} \cup W)
    <2>1. IInv /\ Exclusive(t) \cup tx[t].upd \cup (tx[t].keys \ Users) = {}
        BY <1>2, DirectHolds DEF Orderly, Stands
    <2>2. \A s \in W : Exclusive(s) \cup tx[s].upd \cup tx[s].keys = {}
        BY <2>1, RunningInv DEF DeleteUserInv, Exclusive
    <2>3. \A s \in Txs \ W : Blockers(s) \subseteq S
        BY <2>1, <2>2, HoldersAreWaitedFor
    <2>4. t \notin W
        BY <2>1, OperationAt, FirstOf DEF Direct
    <2>5. Blockers(t) \subseteq S /\ (\A s \in S : Blockers(s) \subseteq S) /\ t \notin S
        BY <2>3, <2>4
    <2>6. S \in SUBSET Txs
        OBVIOUS
    <2> HIDE DEF S
    <2> QED BY <2>5, <2>6 DEF Deadlocked
<1> QED BY <1>1, <1>2

\* Direct messages are never the victim of a deadlock: a call on one holds nothing that
\* others wait for while it waits itself, keys of accounts apart.
THEOREM DirectMessagesGoOn == Spec => []DirectMessagesNeverAborted
<1>1. Orderly => DirectMessagesNeverAborted
    BY DirectNotDeadlocked DEF Direct, DirectMessagesNeverAborted
<1> QED BY <1>1, OrderlyInvariant, PTL

-----------------------------------------------------------------------------
(* Circles. *)

\* A call that is no deletion waits while it holds no more than keys.
LEMMA OthersHoldKeys ==
    ASSUME Orderly, NEW t \in Txs, call[t].op \notin Deletions, Blockers(t) # {}
    PROVE  Exclusive(t) \cup tx[t].upd = {}
<1>1. IInv /\ TxInv(t) /\ StandsFor(t)
    BY DEF Orderly, Stands, IInv, Local
<1>2. tx[t] # NoTx
    <2>1. tx[t] = NoTx => At(t, "none")
        BY DEF NoTx, At, ToDecrement
    <2> QED BY <2>1, WaitsForNobody
<1>3. CASE First(call[t].op) = "AuthorKey" /\ SendInv(t)
    <2>1. tx[t].pc # "Commit"
        BY <1>3, WaitsForNobody DEF SendInv, At, ToDecrement
    <2> QED BY <1>3, <2>1 DEF SendInv, Exclusive
<1>4. CASE First(call[t].op) \in {"Update", "Read"} /\ UpdateInv(t)
    <2>1. tx[t].pc # "Commit"
        BY <1>4, WaitsForNobody DEF UpdateInv, At, ToDecrement
    <2> QED BY <1>4, <2>1 DEF UpdateInv, Exclusive
<1>5. CASE call[t].op = "DeleteDirectMessage"
    BY <1>5, DirectHolds DEF Direct
<1>6. \/ First(call[t].op) = "AuthorKey" /\ SendInv(t)
      \/ First(call[t].op) \in {"Update", "Read"} /\ UpdateInv(t)
      \/ First(call[t].op) \in {"Delete", "LockUserRow"}
    BY <1>1, <1>2 DEF TxInv, Idle
<1>7. First(call[t].op) \in {"Delete", "LockUserRow"} => call[t].op = "DeleteDirectMessage"
    BY FirstOf DEF Deletions
<1> QED BY <1>3, <1>4, <1>5, <1>6, <1>7

\* Keys are held by calls that send, and those that wait hold the key of their channel
\* when they wait for their thread root, and both when they wait to count.
LEMMA KeyHolders ==
    ASSUME Orderly, NEW t \in Txs, NEW r \in tx[t].keys \ Users, Blockers(t) # {}
    PROVE  /\ SendInv(t) /\ r \in db
           /\ \/ /\ r \in Channels /\ tx[t].pc \in {"RootKey", "Increment"}
              \/ /\ r \in Messages /\ r = call[t].id /\ row[r].chan # None
                 /\ tx[t].pc = "Increment"
<1>1. IInv /\ TxInv(t) /\ KeysFit(t) /\ call[t] \in CallRecords /\ r \in db
    BY DEF Orderly, Stands, IInv, TypeOK, Local, WriteSetFits
<1>2. SendInv(t)
    BY <1>1 DEF TxInv, Idle, NoTx, UpdateInv, DeleteInv, DeleteUserInv
<1>3. tx[t].pc # "Commit"
    BY <1>2, WaitsForNobody DEF SendInv, At, ToDecrement
<1>4. r # None
    BY <1>1, NoneIsNoId DEF IInv, TypeOK
<1>5. \/ r = call[t].chan /\ tx[t].pc \in {"RootKey", "Increment"}
      \/ r = call[t].id /\ tx[t].pc = "Increment"
    BY <1>1, <1>3 DEF KeysFit
<1>6. (r = call[t].chan => r \in Channels) /\ (r = call[t].id => r \in Messages)
    BY <1>1, <1>4 DEF CallRecords
<1>7. r = call[t].id /\ tx[t].pc = "Increment" => row[r].chan # None
    BY <1>2, <1>4 DEF SendInv
<1> QED BY <1>1, <1>2, <1>5, <1>6, <1>7

\* Whom a call waits for when it runs a DELETE, and when it does not.
LEMMA WaitsFor ==
    ASSUME Orderly, NEW s \in Txs, NEW x \in Blockers(s), Exclusive(x) \cup tx[x].upd = {}
    PROVE  \/ tx[s].pc = "LockUserRow" /\ Exclusive(s) \cup tx[s].upd = {}
           \/ \E r \in tx[s].todo : r \in tx[x].keys \ Users
<1>1. IInv
    BY DEF Orderly, Stands
<1>2. ASSUME NEW r, x \in Updaters(s, r) \/ x \in Writers(s, r) PROVE FALSE
    BY <1>2 DEF Updaters, Writers
<1>3. CASE x \in UNION {Lockers(s, r) : r \in Visitable(s)}
    <2>1. PICK r \in tx[s].todo : x \in Lockers(s, r)
        BY <1>3 DEF Visitable
    <2>2. tx[s].todo \subseteq Channels \cup Messages
        BY <1>1, <2>1, DeletingInv
    <2> QED BY <2>1, <2>2, IdsAreDisjoint DEF Lockers
<1>4. CASE tx[s].pc = "LockUserRow"
    BY <1>1, <1>4, OperationAt DEF DeleteUserInv, Exclusive
<1>5. \/ x \in UNION {Lockers(s, r) : r \in Visitable(s)}
      \/ \E r : x \in Updaters(s, r) \/ x \in Writers(s, r)
      \/ tx[s].pc = "LockUserRow"
    BY DEF Blockers
<1> QED BY <1>2, <1>3, <1>4, <1>5

\* A call that is no deletion waits for deletions only, of those who wait themselves.
LEMMA OthersWaitForDeletions ==
    ASSUME Orderly, NEW s \in Txs, call[s].op \notin Deletions, NEW x \in Blockers(s),
           Blockers(x) # {}
    PROVE  call[x].op \in Deletions
<1> SUFFICES ASSUME call[x].op \notin Deletions PROVE FALSE
    OBVIOUS
<1>1. IInv /\ x \in Txs
    BY HoldersAreWaitedFor DEF Orderly, Stands
<1>2. Exclusive(x) \cup tx[x].upd = {}
    BY <1>1, OthersHoldKeys
<1>3. tx[s].pc # "LockUserRow"
    BY <1>1, OperationAt, FirstOf DEF Deletions
<1>4. PICK r \in tx[s].todo : r \in tx[x].keys \ Users
    BY <1>2, <1>3, WaitsFor
<1>5. /\ call[s].op = "DeleteDirectMessage" /\ DeletionInv(s) /\ Stands
      /\ r \in Channels \cup Messages
    BY <1>4, DeletingStands, FirstOf DEF Deletions, Orderly
<1>6. /\ r \in db
      /\ r \in Channels \/ (r \in Messages /\ row[r].chan # None)
    BY <1>1, <1>4, KeyHolders
<1>7. r = call[s].id
    <2>1. Cascade(db, row, Target(s)) \subseteq {call[s].id}
        BY <1>5, DirectMessageAlone
    <2> QED BY <1>4, <1>5, <1>6, <2>1 DEF DeletionInv
<1>8. Named(s) /\ r \in Messages
    BY <1>1, <1>5, <1>6, <1>7, IdsAreDisjoint, NoneIsNoId
       DEF DeletionInv, IInv, TypeOK, CallRecords, Ids
<1>9. row[r].chan = None
    BY <1>5, <1>6, <1>7, <1>8 DEF Named, IsNamed, Stands, RowsFit
<1> QED BY <1>6, <1>8, <1>9, IdsAreDisjoint

\* Whoever keeps a Send from its thread root, or from counting there, has taken the root.
LEMMA RootTaken ==
    ASSUME IInv, NEW t \in Txs, SendInv(t), tx[t].pc \in {"RootKey", "Increment"},
           NEW s \in Blockers(t)
    PROVE  call[t].id \in Messages /\ call[t].id \in Exclusive(s) \cup tx[s].upd
<1>1. tx[t].todo = {} /\ ToDecrement(t) = {} /\ call[t].id \in Messages
    BY DEF SendInv, ToDecrement
<1>2. CASE tx[t].pc = "RootKey"
    <2>1. s \in Writers(t, call[t].id)
        BY <1>1, <1>2 DEF Blockers, Key
    <2> QED BY <1>1, <2>1 DEF Writers
<1>3. CASE tx[t].pc = "Increment"
    <2>1. s \in Updaters(t, call[t].id)
        BY <1>1, <1>3 DEF Blockers
    <2> QED BY <1>1, <2>1 DEF Updaters
<1> QED BY <1>2, <1>3

\* The count of a thread root that goes with the same statement is not touched: a reply
\* whose channel stays is the message that the statement names, or goes with its root.
LEMMA RootGoesFirst ==
    ASSUME Orderly, ThreadsInOneChannel, NEW t \in Txs, NEW d \in tx[t].dec,
           row[d].root \in tx[t].todo
    PROVE  FALSE
<1> DEFINE r == row[d].root
           gone == tx[t].gone
           C == (gone \cap Messages) \cup {r}
<1>1. /\ Stands /\ IInv /\ Ordered(t) /\ Accounts(t) /\ WriteSetFits(t) /\ ThreadsAreTrees
      /\ tx[t] \in TxRecords /\ call[t] \in CallRecords /\ row \in [Messages -> MessageRows]
    BY DEF Orderly, Stands, IInv, TypeOK, Local
<1>2. DeletionInv(t)
    BY <1>1, DeletingStands
<1>3. /\ d \in gone \cap Messages /\ gone \subseteq db /\ None \notin gone
      /\ r \in Messages \cap db /\ r \notin gone
    BY <1>1, <1>2, NoneIsNoId DEF Accounts, WriteSetFits, Exclusive, TxRecords, DeletionInv, IInv, TypeOK
<1>4. row[r].chan = row[d].chan /\ r # None
    BY <1>3, NoneIsNoId DEF ThreadsInOneChannel, Ids
<1>5. d \in Target(t)
    BY <1>1, <1>3, <1>4 DEF Ordered
<1>6. Target(t) = {d}
    <2>1. d \notin Users \cup Channels \cup {None}
        BY <1>3, IdsAreDisjoint, NoneIsNoId DEF Ids
    <2> QED BY <1>1, <1>5, <2>1 DEF Target, CallRecords
<1>7. gone \subseteq Messages
    <2>1. gone \subseteq Cascade(db, row, {d})
        BY <1>2, <1>6 DEF DeletionInv
    <2> QED BY <1>3, <2>1 DEF Cascade
<1>8. C \in SUBSET (Messages \cap db) /\ C # {}
    BY <1>3
<1>9. ASSUME NEW m \in C PROVE row[m].root \in C
    <2>1. CASE m = d
        BY <2>1
    <2>2. CASE m # d
        <3>1. m \in (gone \cup (tx[t].todo \cap db)) \cap Messages
            BY <1>3, <1>9
        <3>2. row[m].root \in gone \/ row[m].chan \in gone
            BY <1>1, <1>6, <2>2, <3>1 DEF Ordered
        <3>3. row[m].chan \notin gone
            BY <1>1, <1>3, <1>7, <3>1, IdsAreDisjoint DEF MessageRows
        <3> QED BY <1>7, <3>2, <3>3
    <2> QED BY <2>1, <2>2
<1> HIDE DEF C
<1> QED BY <1>1, <1>8, <1>9 DEF ThreadsAreTrees

\* A deletion and a call that is none do not wait for each other.
LEMMA NoCircleOfTwo ==
    ASSUME Orderly, ThreadsInOneChannel, NEW t \in Txs, NEW x \in Txs,
           call[t].op \in Deletions, call[x].op \notin Deletions,
           x \in Blockers(t), t \in Blockers(x)
    PROVE  FALSE
<1>1. /\ Stands /\ IInv /\ Ordered(t) /\ Accounts(t) /\ WriteSetFits(t)
      /\ tx[t] \in TxRecords
    BY DEF Orderly, Stands, IInv, TypeOK, Local
<1>2. Exclusive(x) \cup tx[x].upd = {}
    BY OthersHoldKeys
<1>3. ~(tx[t].pc = "LockUserRow" /\ Exclusive(t) \cup tx[t].upd = {})
    <2>1. tx[x].pc # "LockUserRow"
        BY <1>1, OperationAt, FirstOf DEF Deletions
    <2>2. Exclusive(t) \cup tx[t].upd \cup (tx[t].keys \ Users) # {}
        BY <1>1, <2>1, HoldersAreWaitedFor
    <2>3. tx[t].pc = "LockUserRow" => tx[t].keys = {}
        BY <1>1, OperationAt DEF DeleteUserInv
    <2> QED BY <2>2, <2>3
<1>4. PICK r \in tx[t].todo : r \in tx[x].keys \ Users
    BY <1>2, <1>3, WaitsFor
<1>5. DeletionInv(t)
    BY <1>1, <1>4, DeletingStands
<1>6. /\ SendInv(x) /\ r \in db
      /\ \/ r \in Channels /\ tx[x].pc \in {"RootKey", "Increment"}
         \/ r \in Messages /\ r = call[x].id /\ tx[x].pc = "Increment"
    BY <1>4, KeyHolders
<1>7. /\ call[x].id \in Messages /\ call[x].id \in Exclusive(t) \cup tx[t].upd
      /\ call[x].id \notin tx[t].held
    <2>1. call[x].id \in Messages /\ call[x].id \in Exclusive(t) \cup tx[t].upd
        BY <1>1, <1>6, RootTaken
    <2> QED BY <1>1, <2>1, IdsAreDisjoint DEF TxRecords
<1>8. call[x].id \in tx[t].gone \/ \E d \in tx[t].dec : row[d].root = call[x].id
    BY <1>5, <1>7 DEF Exclusive, DeletionInv
<1>9. CASE r \in Channels
    <2>1. tx[t].gone \cap Messages # {}
        BY <1>1, <1>7, <1>8 DEF Accounts
    <2> QED BY <1>1, <1>4, <1>9, <2>1 DEF Ordered
<1>10. CASE r = call[x].id
    <2>1. r \notin tx[t].gone
        BY <1>4, <1>5 DEF DeletionInv
    <2> QED BY <1>4, <1>8, <1>10, <2>1, RootGoesFirst
<1> QED BY <1>6, <1>9, <1>10

\* A circle of waiting calls has a deletion, since a call that is none waits, of those who
\* wait themselves, for deletions only. As long as threads stay in one channel it has
\* two: a deletion that such a call waits for does not wait for that call.
THEOREM CirclesTakeTwoDeletions == Spec => []DeadlockTakesTwoDeletions
<1>1. Orderly => DeadlockTakesTwoDeletions
    <2> SUFFICES ASSUME Orderly, NEW S \in SUBSET Txs, S # {},
                        \A t \in S : Blockers(t) \cap S # {}
                 PROVE  /\ \E a \in S : call[a].op \in Deletions
                        /\ ThreadsInOneChannel =>
                              \E a, b \in S : a # b /\ {call[a].op, call[b].op} \subseteq Deletions
        BY DEF DeadlockTakesTwoDeletions
    <2>1. IInv
        BY DEF Orderly, Stands
    <2>2. ASSUME NEW s \in S, call[s].op \notin Deletions
          PROVE  \E x \in Blockers(s) \cap S : call[x].op \in Deletions
        BY <2>2, OthersWaitForDeletions
    <2>3. PICK t \in S : call[t].op \in Deletions
        BY <2>2
    <2>4. PICK x \in Blockers(t) \cap S : TRUE
        BY <2>3
    <2>5. x # t
        BY <2>1, <2>4, HoldersAreWaitedFor
    <2>6. CASE call[x].op \in Deletions
        BY <2>3, <2>4, <2>5, <2>6
    <2>7. CASE call[x].op \notin Deletions
        <3>1. PICK y \in Blockers(x) \cap S : call[y].op \in Deletions
            BY <2>2, <2>7
        <3>2. ThreadsInOneChannel => y # t
            BY <2>3, <2>4, <2>7, <3>1, NoCircleOfTwo
        <3> QED BY <2>3, <3>1, <3>2
    <2> QED BY <2>6, <2>7
<1> QED BY <1>1, OrderlyInvariant, PTL

-----------------------------------------------------------------------------
(* Somebody goes on. *)

\* Among sets of a finite set there is one that contains no smaller one of them.
LEMMA SmallestSet ==
    ASSUME NEW S, IsFiniteSet(S), NEW F \in SUBSET SUBSET S, F # {}
    PROVE  \E C \in F : \A D \in F : D \subseteq C => D = C
<1>1. IsWellFoundedOn(StrictSubsetOrdering(S), SUBSET S)
    BY FS_StrictSubsetOrderingWellFounded, FS_FiniteSubsetsOfFinite
<1>2. PICK C \in F : \A D \in F : <<D, C>> \notin StrictSubsetOrdering(S)
    <2> HIDE DEF StrictSubsetOrdering
    <2> QED BY <1>1, WFMin
<1> QED BY <1>2 DEF StrictSubsetOrdering

\* Who is waited for is in the middle of a call.
LEMMA BlockersArePending ==
    ASSUME IInv, NEW t \in Txs, NEW s \in Blockers(t)
    PROVE  s \in Txs /\ call[s].resp = "pending"
<1>1. s \in Txs /\ Exclusive(s) \cup tx[s].upd \cup tx[s].keys # {}
    BY HoldersAreWaitedFor
<1>2. ~Idle(s)
    BY <1>1 DEF Idle, NoTx, Exclusive
<1> QED BY <1>1, <1>2 DEF IInv, Local, TxInv

LEMMA SomebodyMoves == ASSUME IsFiniteSet(Txs), IInv PROVE NobodyStandsStill
<1> SUFFICES ASSUME NEW S \in SUBSET Txs, \E t \in S : call[t].resp = "pending",
                    \A t \in S : Blockers(t) \subseteq S,
                    \A t \in S : call[t].resp = "pending" => Blockers(t) # {} /\ ~Deadlocked(t)
             PROVE  FALSE
    BY DEF NobodyStandsStill
<1> DEFINE Closed(C) == \A t \in C : Blockers(t) \subseteq C
           Live(C) == \E t \in C : call[t].resp = "pending"
           F == {C \in SUBSET S : Closed(C) /\ Live(C)}
<1>1. PICK C \in F : \A D \in F : D \subseteq C => D = C
    <2>1. S \in F /\ IsFiniteSet(S)
        BY FS_Subset
    <2> HIDE DEF F
    <2>2. F \in SUBSET SUBSET S
        BY DEF F
    <2> QED BY <2>1, <2>2, SmallestSet
<1>2. PICK t \in C : call[t].resp = "pending"
    BY <1>1
<1>3. PICK s \in Blockers(t) : s \in C /\ call[s].resp = "pending"
    BY <1>1, <1>2, BlockersArePending
\* The circle that t is not in is closed, and smaller.
<1>4. PICK D \in SUBSET Txs : Blockers(t) \subseteq D /\ Closed(D) /\ t \notin D
    BY <1>1, <1>2 DEF Deadlocked
<1>5. Closed(C \cap D) /\ Live(C \cap D)
    BY <1>1, <1>3, <1>4
<1>6. C \cap D \in F
    BY <1>1, <1>5
<1> QED BY <1>1, <1>2, <1>4, <1>6

\* However many calls wait for each other, one of them can go on or is aborted as the
\* victim of a deadlock: the locks alone never stop the service.
THEOREM SomebodyGoesOn ==
    ASSUME IsFiniteSet(Txs)
    PROVE  Spec => []NobodyStandsStill
<1>1. IInv => NobodyStandsStill
    BY SomebodyMoves
<1> QED BY <1>1, Invariance, PTL

-----------------------------------------------------------------------------
(* Transactions come to an end. *)

\* A visit deletes the row, or strikes it off if it is gone or a cascade came across it
\* twice.
LEMMA VisitAdvances ==
    ASSUME IInv, NEW t \in Txs, VisitRow(t)
    PROVE  Nearer(tx[t], tx'[t]) /\ Keeps(tx[t], tx'[t])
<1>1. PICK r \in tx[t].todo :
        LET rest == tx[t].todo \ {r}
            gone == tx[t].gone \cup {r}
        IN
        \/ r \in db /\ tx' = [tx EXCEPT ![t].gone = gone,
                                        ![t].todo = rest \cup (Referencing(db, row, r) \ gone)]
        \/ tx' = [tx EXCEPT ![t].todo = rest]
    BY DEF VisitRow, Visitable
<1>2. tx \in [Txs -> TxRecords] /\ tx[t] \in TxRecords
    BY DEF IInv, TypeOK
<1>3. r \in tx[t].gone => Referencing(db, row, r) \subseteq tx[t].gone \cup tx[t].todo
    BY DEF IInv, Local, CascadeFollows
<1>4. /\ tx'[t].pc = tx[t].pc /\ tx'[t].keys = tx[t].keys /\ tx'[t].held = tx[t].held
      /\ tx'[t].upd = tx[t].upd /\ tx'[t].dec = tx[t].dec /\ tx'[t].new = tx[t].new
    BY <1>1, <1>2 DEF TxRecords
<1>5. CASE tx' = [tx EXCEPT ![t].todo = tx[t].todo \ {r}]
    <2>1. tx'[t].gone = tx[t].gone /\ tx'[t].todo = tx[t].todo \ {r}
        BY <1>2, <1>5
    <2> QED BY <1>1, <1>4, <2>1 DEF Nearer, Keeps
<1>6. CASE tx' = [tx EXCEPT ![t].gone = tx[t].gone \cup {r},
                            ![t].todo = (tx[t].todo \ {r})
                                        \cup (Referencing(db, row, r) \ (tx[t].gone \cup {r}))]
    <2>1. /\ tx'[t].gone = tx[t].gone \cup {r}
          /\ tx'[t].todo = (tx[t].todo \ {r})
                           \cup (Referencing(db, row, r) \ (tx[t].gone \cup {r}))
        BY <1>2, <1>6
    <2>2. CASE r \in tx[t].gone
        <3>1. tx'[t].gone = tx[t].gone
            BY <2>1, <2>2
        <3>2. tx'[t].todo \subseteq tx[t].todo /\ r \notin tx'[t].todo
            BY <1>3, <2>1, <2>2
        <3> QED BY <1>1, <1>4, <3>1, <3>2 DEF Nearer, Keeps
    <2>3. CASE r \notin tx[t].gone
        <3>1. tx[t].gone \subseteq tx'[t].gone /\ tx[t].gone # tx'[t].gone
            BY <2>1, <2>3
        <3> QED BY <1>4, <3>1 DEF Nearer, Keeps
    <2> QED BY <2>2, <2>3
<1> QED BY <1>1, <1>5, <1>6

\* The trigger of a deleted reply runs once.
LEMMA DecrementAdvances ==
    ASSUME IInv, NEW t \in Txs, Decrement(t), ~Refuse(t, "ErrCheck")
    PROVE  Nearer(tx[t], tx'[t]) /\ Keeps(tx[t], tx'[t])
<1>1. tx \in [Txs -> TxRecords] /\ tx[t] \in TxRecords
    BY DEF IInv, TypeOK
<1>2. PICK d \in Due(t) :
        \/ Refuse(t, "ErrCheck")
        \/ \E n : tx' = [tx EXCEPT ![t].upd = @ \cup {row[d].root}, ![t].val[row[d].root] = n,
                                   ![t].dec = @ \cup {d}]
    BY DEF Decrement
<1>3. PICK n :
        tx' = [tx EXCEPT ![t].upd = @ \cup {row[d].root}, ![t].val[row[d].root] = n,
                         ![t].dec = @ \cup {d}]
    BY <1>2
<1>4. /\ tx'[t].pc = tx[t].pc /\ tx'[t].keys = tx[t].keys /\ tx'[t].held = tx[t].held
      /\ tx'[t].gone = tx[t].gone /\ tx'[t].todo = tx[t].todo /\ tx'[t].new = tx[t].new
      /\ tx'[t].upd = tx[t].upd \cup {row[d].root} /\ tx'[t].dec = tx[t].dec \cup {d}
    BY <1>1, <1>3
<1>5. d \notin tx[t].dec
    BY DEF Due, ToDecrement
<1> QED BY <1>4, <1>5 DEF Nearer, Keeps

LEMMA StepAdvances ==
    ASSUME IInv, NEW t \in Txs, Step(t) \/ Failure(t) \/ CommitLost(t),
           call'[t].resp = "pending"
    PROVE  Nearer(tx[t], tx'[t]) /\ Keeps(tx[t], tx'[t])
<1>1. /\ \A resp, got : AnswerWith(t, resp, got) => resp = "pending"
      /\ \A resp : Refuse(t, resp) => resp = "pending"
    BY DEF IInv, TypeOK, Refuse, AnswerWith, CallRecords
<1>2. tx \in [Txs -> TxRecords] /\ tx[t] \in TxRecords
    BY DEF IInv, TypeOK
<1>3. CASE CheckKey(t)
    <2>1. tx[t].pc \in {"AuthorKey", "TargetKey", "RootKey"}
        BY <1>3 DEF CheckKey
    <2>2. PICK K : tx' = [tx EXCEPT ![t].pc = AfterKey(t), ![t].keys = @ \cup K]
        BY <1>1, <1>3 DEF CheckKey
    <2>3. Stage(tx[t].pc) < Stage(AfterKey(t))
        BY <2>1 DEF Stage, AfterKey
    <2> QED BY <1>2, <2>2, <2>3 DEF Nearer, Keeps, TxRecords
<1>4. CASE Increment(t) \/ Update(t)
    <2>1. PICK m, n : Write(t, m, n, "Commit")
        BY <1>1, <1>4 DEF Increment, Update
    <2>2. tx[t].pc \in {"Increment", "Update"}
        BY <1>4 DEF Increment, Update, At
    <2>3. Stage(tx[t].pc) < Stage("Commit")
        BY <2>2 DEF Stage
    <2> QED BY <1>2, <2>1, <2>3 DEF Write, Nearer, Keeps, TxRecords
<1>5. CASE Read(t) \/ ReadPage(t) \/ DeletedNone(t)
    BY <1>1, <1>5 DEF Read, ReadPage, DeletedNone
<1>6. CASE Delete(t) \/ DeleteWorkspacesOwnedByUser(t)
    <2>1. PICK R, next : /\ StartDelete(t, R, next)
                         /\ <<tx[t].pc, next>> \in {<<"Delete", "Commit">>,
                                <<"DeleteWorkspacesOwnedByUser", "DeleteUser">>}
        BY <1>1, <1>6 DEF Delete, DeleteWorkspacesOwnedByUser, At
    <2>2. Stage(tx[t].pc) < Stage(next)
        BY <2>1 DEF Stage
    <2> QED BY <1>2, <2>1, <2>2 DEF StartDelete, Nearer, Keeps, TxRecords
<1>7. CASE LockUserRow(t)
    <2>1. tx[t].pc = "LockUserRow" /\ tx[t].held = {}
        BY <1>7, OperationAt DEF LockUserRow, At, DeleteUserInv
    <2>2. PICK H : tx' = [tx EXCEPT ![t].pc = "DeleteWorkspacesOwnedByUser", ![t].held = H]
        BY <1>1, <1>7 DEF LockUserRow
    <2> QED BY <1>2, <2>1, <2>2 DEF Stage, Nearer, Keeps, TxRecords
<1>8. CASE DeleteUser(t)
    <2>1. tx[t].pc = "DeleteUser"
        BY <1>8 DEF DeleteUser, At
    <2>2. PICK U : tx' = [tx EXCEPT ![t].pc = "Commit", ![t].gone = @ \cup U]
        BY <1>1, <1>8 DEF DeleteUser
    <2> QED BY <1>2, <2>1, <2>2 DEF Stage, Nearer, Keeps, TxRecords
<1>9. CASE VisitRow(t)
    BY <1>9, VisitAdvances
<1>10. CASE Decrement(t)
    BY <1>1, <1>10, DecrementAdvances
<1>11. CASE Commit(t) \/ CommitLost(t) \/ DeadlockAbort(t) \/ Failure(t)
    BY <1>1, <1>11 DEF Commit, CommitLost, DeadlockAbort, Failure, StatementFails
<1> QED BY <1>3, <1>4, <1>5, <1>6, <1>7, <1>8, <1>9, <1>10, <1>11 DEF Step

\* Every step of a transaction brings it nearer to its end, and gives no lock and no
\* write back, whatever the others do.
THEOREM Advance == Spec => TransactionsAdvance
<1> DEFINE Advances == \A t \in Txs :
              call[t].resp = "pending" /\ call'[t].resp = "pending" /\ tx'[t] # tx[t] =>
                  Nearer(tx[t], tx'[t]) /\ Keeps(tx[t], tx'[t])
<1>1. Stands /\ [Next]_vars => [Advances]_vars
    <2> SUFFICES ASSUME Stands, Next, NEW t \in Txs,
                        call[t].resp = "pending", call'[t].resp = "pending", tx'[t] # tx[t]
                 PROVE  Nearer(tx[t], tx'[t]) /\ Keeps(tx[t], tx'[t])
        OBVIOUS
    <2>1. PICK s \in Txs : Arrive(s) \/ Return(s) \/ Step(s) \/ Failure(s) \/ CommitLost(s)
        BY DEF Next
    <2>2. CASE s = t /\ (Step(s) \/ Failure(s) \/ CommitLost(s))
        BY <2>2, StepAdvances DEF Stands
    <2>3. CASE s = t /\ (Arrive(s) \/ Return(s))
        BY <2>3 DEF Arrive, Return, NoCall, Responses
    <2>4. CASE s # t
        BY <2>1, <2>4, ActsAlone
    <2> QED BY <2>1, <2>2, <2>3, <2>4
<1> QED BY <1>1, StandsInvariant, PTL DEF Spec, TransactionsAdvance
==============================================================================
