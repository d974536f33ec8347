------------------------- MODULE MessageStore_proofs -------------------------
(***************************************************************************)
(* Messages implements MessageStore: each statement maps to the one moment *)
(* of its call or to nothing at all, and what a deletion has taken along   *)
(* row by row is the cascade that MessageStore deletes at once.            *)
(***************************************************************************)
EXTENDS Messages_proofs

\* The rows that the deletion t names.
Target(t) ==
    CASE call[t].op = "DeleteWorkspace" -> {call[t].chan}
      [] call[t].op = "DeleteUser" -> {call[t].user} \cup {c \in Channels : Owner[c] = call[t].user}
      [] OTHER -> {call[t].id}

\* A deletion that has begun has deleted, or is going to visit, the rows it names; of
\* others it reaches those of their cascade only.
DeletionInv(t) ==
    /\ Target(t) \subseteq Ids
    /\ \A s \in Txs : tx[s].new \notin Target(t)
    /\ (Target(t) \cap db) \ Users \subseteq tx[t].gone \cup tx[t].todo
    /\ tx[t].gone \cap tx[t].todo = {}
    /\ \A m \in tx[t].upd : \E d \in tx[t].dec : row[d].root = m
    /\ tx[t].gone \cup (tx[t].todo \cap db) \subseteq Cascade(db, row, Target(t))
    /\ call[t].op \in {"DeleteDirectMessage", "DeleteChannelMessage"} /\ call[t].id \in db =>
          Named(t)
    /\ call[t].op = "DeleteUser" =>
          tx[t].gone \cap Users = IF tx[t].pc = "Commit" THEN {call[t].user} ELSE {}

\* What IInv leaves open of a call that is handled: a read is a single step, an update
\* commits the row it has found, a deletion what it names.
StandsFor(t) ==
    call[t].resp = "pending" =>
        /\ call[t].op \in Ops
        /\ First(call[t].op) = "Read" => tx[t].pc = "Read"
        /\ First(call[t].op) = "Update" =>
              \/ tx[t].pc = "Update"
              \/ tx[t].pc = "Commit" /\ call[t].id \in tx[t].upd /\ Named(t)
        /\ First(call[t].op) \in {"Delete", "LockUserRow"} /\ tx[t].pc \in {"DeleteUser", "Commit"} =>
              DeletionInv(t)

\* A direct message is in no channel and in no thread.
RowsFit == \A m \in Messages \cap db : row[m].to # None => row[m].chan = None /\ row[m].root = None

Stands == IInv /\ RowsFit /\ \A t \in Txs : StandsFor(t)

-----------------------------------------------------------------------------
(* The cascade is the least set that has the rows named and what refers to *)
(* a row of it.                                                            *)

LEMMA CascadeClosed ==
    ASSUME NEW S, NEW rows, NEW R, NEW r \in Cascade(S, rows, R)
    PROVE  Referencing(S, rows, r) \subseteq Cascade(S, rows, R)
<1> SUFFICES ASSUME NEW q \in Referencing(S, rows, r)
             PROVE  q \in Cascade(S, rows, R)
    OBVIOUS
<1>1. q \in S \cap Messages
    BY DEF Referencing
<1>2. ASSUME NEW C \in SUBSET (S \cap Messages),
             \A x \in R \cup C : Referencing(S, rows, x) \subseteq C
      PROVE  q \in C
    <2>1. r \in R \cup C
        BY <1>2 DEF Cascade
    <2> QED BY <1>2, <2>1
<1> QED BY <1>1, <1>2 DEF Cascade

LEMMA CascadeLeast ==
    ASSUME NEW S, NEW rows, NEW R, NEW C \in SUBSET (S \cap Messages),
           \A r \in R \cup C : Referencing(S, rows, r) \subseteq C
    PROVE  Cascade(S, rows, R) \subseteq R \cup C
BY DEF Cascade

\* What a cascade reaches stays in reach while others commit, unless they delete it.
LEMMA CascadeSurvives ==
    ASSUME IInv, NEW t \in Txs, At(t, "Commit"), Apply(t), NEW R, tx[t].new \notin R,
           NEW m \in Cascade(db, row, R), m \notin tx[t].gone
    PROVE  m \in Cascade(db', row', R)
<1> DEFINE x == tx[t]
<1>1. x.gone \subseteq db /\ x.new \notin db
      /\ \A r \in x.gone : Referencing(db, row, r) \subseteq x.gone
    BY WritesOfCommit
<1>2. /\ \A q \in Messages \cap db' : q # x.new => q \in db \ x.gone /\ row'[q] = row[q]
      /\ db \ x.gone \subseteq db'
      /\ \A q \in db' : q = x.new \/ q \in db \ x.gone
    BY AppliedRows
<1>3. CASE m \in R
    BY <1>3 DEF Cascade
<1>4. CASE m \notin R
    <2>1. m \in db' \cap Messages
        BY <1>2, <1>4 DEF Cascade
    <2>2. ASSUME NEW D \in SUBSET (db' \cap Messages),
                 \A r \in R \cup D : Referencing(db', row', r) \subseteq D
          PROVE  m \in D
        <3> DEFINE C == (D \ {x.new}) \cup (x.gone \cap Messages)
        <3>1. C \in SUBSET (db \cap Messages)
            BY <1>1, <1>2
        <3>2. ASSUME NEW r \in R \cup C, NEW q \in Referencing(db, row, r), q \notin x.gone
              PROVE  q \in C
            <4>1. q \in db \cap Messages /\ q \in db' /\ q # x.new /\ row'[q] = row[q]
                BY <1>1, <1>2, <3>2 DEF Referencing
            <4>2. q \in Referencing(db', row', r)
                BY <4>1 DEF Referencing
            <4>3. r \notin x.gone
                BY <1>1, <3>2
            <4>4. r \in R \cup D
                BY <4>3
            <4> QED BY <2>2, <4>1, <4>2, <4>4
        <3>3. \A r \in R \cup C : Referencing(db, row, r) \subseteq C
            BY <3>2 DEF Referencing
        <3>4. m \in R \cup C
            <4> HIDE DEF C
            <4> QED BY <3>1, <3>3, CascadeLeast
        <3> QED BY <1>4, <3>4
    <2> QED BY <2>1, <2>2 DEF Cascade
<1> QED BY <1>3, <1>4

\* Nothing refers to an account by a key that cascades, or to a row that is gone.
LEMMA NoReferences ==
    ASSUME IInv, NEW r \in Ids, r \in Users \/ r \notin db
    PROVE  Referencing(db, row, r) = {}
<1>1. \A m \in Messages : row[m].chan \in Channels \cup {None} /\ row[m].root \in Messages \cup {None}
    BY DEF IInv, TypeOK, MessageRows
<1>2. CASE r \in Users
    BY <1>1, <1>2, IdsAreDisjoint, NoneIsNoId DEF Referencing, Ids
<1>3. CASE r \notin db
    BY <1>3, NoneIsNoId DEF Referencing, IInv, NoDanglingMessage
<1> QED BY <1>2, <1>3

-----------------------------------------------------------------------------
(* Which operation a statement belongs to. *)

LEMMA FirstOf ==
    \A op :
        /\ First(op) = "AuthorKey" <=> op \in {"SendDirectMessage", "SendChannelMessage"}
        /\ First(op) = "Update" <=> op \in {"UpdateDirectMessage", "UpdateChannelMessage"}
        /\ First(op) = "Delete" <=>
              op \in {"DeleteDirectMessage", "DeleteChannelMessage", "DeleteWorkspace"}
        /\ First(op) = "LockUserRow" <=> op = "DeleteUser"
        /\ First(op) \in {"AuthorKey", "Update", "Delete", "LockUserRow", "Read"}
BY DEF First

LEMMA OperationAt ==
    ASSUME IInv, NEW t \in Txs, tx[t].pc # "none"
    PROVE  /\ call[t].resp = "pending"
           /\ tx[t].pc \in {"AuthorKey", "TargetKey", "RootKey", "Increment"} =>
                 First(call[t].op) = "AuthorKey" /\ SendInv(t)
           /\ tx[t].pc \in {"Update", "Read"} =>
                 First(call[t].op) \in {"Update", "Read"} /\ UpdateInv(t)
           /\ tx[t].pc = "Delete" => First(call[t].op) = "Delete" /\ DeleteInv(t)
           /\ tx[t].pc \in {"LockUserRow", "DeleteWorkspacesOwnedByUser", "DeleteUser"} =>
                 First(call[t].op) = "LockUserRow" /\ DeleteUserInv(t)
           /\ First(call[t].op) = "AuthorKey" => SendInv(t)
           /\ First(call[t].op) \in {"Update", "Read"} => UpdateInv(t)
           /\ First(call[t].op) = "Delete" => DeleteInv(t)
           /\ First(call[t].op) = "LockUserRow" => DeleteUserInv(t)
<1>1. TxInv(t) /\ call[t].resp = "pending"
    BY RunningInv
<1>2. \/ First(call[t].op) = "AuthorKey" /\ SendInv(t)
      \/ First(call[t].op) \in {"Update", "Read"} /\ UpdateInv(t)
      \/ First(call[t].op) = "Delete" /\ DeleteInv(t)
      \/ First(call[t].op) = "LockUserRow" /\ DeleteUserInv(t)
    BY <1>1 DEF TxInv
<1>3. /\ SendInv(t) => tx[t].pc \in {"AuthorKey", "TargetKey", "RootKey", "Increment", "Commit"}
      /\ UpdateInv(t) => tx[t].pc \in {"Update", "Read", "Commit"}
      /\ DeleteInv(t) => tx[t].pc \in {"Delete", "Commit"}
      /\ DeleteUserInv(t) =>
            tx[t].pc \in {"LockUserRow", "DeleteWorkspacesOwnedByUser", "DeleteUser", "Commit"}
    BY DEF SendInv, UpdateInv, DeleteInv, DeleteUserInv
<1> QED BY <1>1, <1>2, <1>3

-----------------------------------------------------------------------------
(* StandsFor holds in every state. *)

\* Whoever has no call that is handled, or has just begun one, stands.
LEMMA OverStands ==
    ASSUME NEW t \in Txs, call'[t].resp # "pending"
    PROVE  StandsFor(t)'
BY DEF StandsFor

\* A step of t that leaves the store alone is nothing to the others.
LEMMA QuietStands ==
    ASSUME Stands, NEW t \in Txs, NEW s \in Txs \ {t}, UNCHANGED store,
           \A q \in Txs \ {t} : tx'[q] = tx[q] /\ call'[q] = call[q],
           \/ tx'[t].new \in {tx[t].new, None}
           \/ tx'[t].new \in Messages /\ tx'[t].new # call[s].id
    PROVE  StandsFor(s)'
<1>1. tx'[s] = tx[s] /\ call'[s] = call[s] /\ StandsFor(s) /\ call[s] \in CallRecords
      /\ Target(s)' = Target(s)
    BY DEF Stands, IInv, TypeOK, Target
<1>2. ASSUME DeletionInv(s) PROVE DeletionInv(s)'
    <2>1. Target(s) \cap Messages \subseteq {call[s].id} /\ None \notin Target(s)
        BY <1>1, <1>2, IdsAreDisjoint, NoneIsNoId DEF DeletionInv, Target, CallRecords, Ids
    <2>2. \A q \in Txs : tx'[q].new \notin Target(s)
        BY <1>2, <2>1 DEF DeletionInv
    <2> QED BY <1>1, <1>2, <2>2 DEF DeletionInv, store, Named
<1> QED BY <1>1, <1>2 DEF StandsFor, store, Named

LEMMA CommitStands ==
    ASSUME Stands, NEW t \in Txs, NEW s \in Txs \ {t}, At(t, "Commit"), Apply(t),
           tx'[t] = NoTx, \A q \in Txs \ {t} : tx'[q] = tx[q] /\ call'[q] = call[q]
    PROVE  StandsFor(s)'
<1> DEFINE x == tx[t]
           y == tx[s]
<1>1. /\ tx'[s] = y /\ call'[s] = call[s] /\ StandsFor(s) /\ call[s] \in CallRecords
      /\ Target(s)' = Target(s) /\ IInv
    BY DEF Stands, IInv, TypeOK, Target
<1>2. /\ \A m \in Messages \cap db' : m # x.new => m \in db \ x.gone /\ row'[m] = row[m]
      /\ db \ x.gone \subseteq db'
      /\ \A r \in db' : r = x.new \/ r \in db \ x.gone
    BY <1>1, AppliedRows
<1>3. /\ WriteSetFits(s) /\ LockedApart(s, t) /\ LockedApart(t, s) /\ NewIdApart(t, s)
      /\ x.new \notin db /\ Accounts(s)
    BY <1>1 DEF IInv, Local, WriteSetFits
<1>4. \A m \in y.upd \cup y.gone : m \in db \ x.gone /\ m # x.new
    BY <1>3 DEF WriteSetFits, LockedApart, Exclusive
<1>5. ASSUME DeletionInv(s) PROVE DeletionInv(s)'
    <2>1. x.new \notin Target(s)
        BY <1>5 DEF DeletionInv
    <2>2. \A q \in Txs : tx'[q].new \notin Target(s)
        BY <1>5, NoneIsNoId DEF DeletionInv, NoTx
    <2>3. (Target(s) \cap db') \ Users \subseteq y.gone \cup y.todo
        BY <1>2, <1>5, <2>1 DEF DeletionInv
    <2>4. \A m \in y.upd : \E d \in y.dec : row'[d].root = m
        <3>1. \A d \in y.dec : row'[d] = row[d]
            BY <1>2, <1>3, <1>4 DEF Accounts
        <3> QED BY <1>5, <3>1 DEF DeletionInv
    <2>5. y.gone \cup (y.todo \cap db') \subseteq Cascade(db', row', Target(s))
        <3> SUFFICES ASSUME NEW m \in y.gone \cup (y.todo \cap db')
                     PROVE  m \in Cascade(db', row', Target(s))
            OBVIOUS
        <3>1. m \in y.gone \cup (y.todo \cap db) /\ m \notin x.gone
            BY <1>2, <1>3, <1>4 DEF NewIdApart
        <3>2. m \in Cascade(db, row, Target(s))
            BY <1>5, <3>1 DEF DeletionInv
        <3> QED BY <1>1, <2>1, <3>1, <3>2, CascadeSurvives
    <2>6. ASSUME call[s].op \in {"DeleteDirectMessage", "DeleteChannelMessage"}, call[s].id \in db'
          PROVE  Named(s)'
        <3>1. call[s].id \in Target(s) /\ call[s].id \in Messages
            BY <1>1, <1>2, <1>5, <2>1, <2>6, NoneIsNoId
               DEF Target, DeletionInv, CallRecords
        <3>2. call[s].id \in db /\ row'[call[s].id] = row[call[s].id]
            BY <1>2, <2>1, <2>6, <3>1
        <3> QED BY <1>1, <1>5, <2>6, <3>2 DEF DeletionInv, Named, IsNamed
    <2> QED BY <1>1, <1>5, <2>2, <2>3, <2>4, <2>5, <2>6 DEF DeletionInv
<1>6. ASSUME call[s].id \in y.upd, Named(s) PROVE Named(s)'
    <2>1. call[s].id \in Messages \cap db'
        BY <1>1, <1>2, <1>4, <1>6 DEF IInv, TypeOK, TxRecords
    <2> QED BY <1>1, <1>2, <1>4, <1>6, <2>1 DEF Named, IsNamed
<1> QED BY <1>1, <1>5, <1>6 DEF StandsFor

\* t's own step, which leaves its call alone.
LEMMA SendStands ==
    ASSUME Stands, NEW t \in Txs, tx[t].pc # "none", call'[t] = call[t],
           First(call[t].op) = "AuthorKey" \/ tx'[t].pc = "DeleteWorkspacesOwnedByUser",
           tx[t].pc # "LockUserRow" => First(call[t].op) = "AuthorKey",
           tx[t].pc = "LockUserRow" => First(call[t].op) = "LockUserRow"
    PROVE  StandsFor(t)'
<1>1. StandsFor(t) /\ call[t].resp = "pending"
    BY OperationAt DEF Stands
<1> QED BY <1>1 DEF StandsFor

LEMMA UpdateStands ==
    ASSUME Stands, NEW t \in Txs, Update(t)
    PROVE  StandsFor(t)'
<1>1. /\ At(t, "Update") /\ tx[t].pc = "Update" /\ StandsFor(t) /\ IInv
      /\ tx[t] \in TxRecords /\ tx \in [Txs -> TxRecords] /\ call \in [Txs -> CallRecords]
    BY DEF Update, At, Stands, IInv, TypeOK
<1>2. call[t].resp = "pending" /\ First(call[t].op) \in {"Update", "Read"}
    BY <1>1, OperationAt
<1>3. CASE Refuse(t, "ErrNotFound")
    <2>1. call'[t].resp # "pending"
        BY <1>1, <1>3, AnswerTypes DEF Refuse, Responses
    <2> QED BY <2>1, OverStands
<1>4. CASE Named(t) /\ Write(t, call[t].id, count[call[t].id], "Commit")
    <2>1. /\ tx'[t].pc = "Commit" /\ call[t].id \in tx'[t].upd /\ UNCHANGED <<store, call>>
        BY <1>1, <1>4 DEF Write
    <2>2. Named(t)'
        BY <1>4, <2>1 DEF Named, store
    <2> QED BY <1>1, <1>2, <2>1, <2>2 DEF StandsFor
<1> QED BY <1>3, <1>4 DEF Update

LEMMA StartStands ==
    ASSUME Stands, NEW t \in Txs, tx[t].pc \in {"Delete", "DeleteWorkspacesOwnedByUser"},
           NEW R, R = (Target(t) \cap db) \ Users, Target(t) \subseteq Ids,
           \A s \in Txs : tx[s].new \notin Target(t),
           StartDelete(t, R, IF tx[t].pc = "Delete" THEN "Commit" ELSE "DeleteUser"),
           call[t].op \in {"DeleteDirectMessage", "DeleteChannelMessage"} => Named(t)
    PROVE  StandsFor(t)'
<1>1. /\ StandsFor(t) /\ IInv /\ tx[t] \in TxRecords /\ tx \in [Txs -> TxRecords]
      /\ call[t].resp = "pending"
      /\ tx[t].pc = "Delete" => First(call[t].op) = "Delete" /\ DeleteInv(t)
      /\ tx[t].pc # "Delete" => First(call[t].op) = "LockUserRow" /\ DeleteUserInv(t)
    BY OperationAt DEF Stands, IInv, TypeOK
<1>2. /\ tx'[t].todo = R /\ tx'[t].gone = {} /\ tx'[t].upd = {} /\ tx'[t].new = tx[t].new
      /\ tx'[t].pc = IF tx[t].pc = "Delete" THEN "Commit" ELSE "DeleteUser"
      /\ \A s \in Txs : tx'[s].new = tx[s].new
      /\ UNCHANGED <<store, call>>
    BY <1>1 DEF StartDelete, DeleteInv, DeleteUserInv
<1>3. Target(t)' = Target(t) /\ Named(t)' = Named(t)
    BY <1>2 DEF Target, Named, store
<1>4. R \subseteq Cascade(db, row, Target(t))
    BY DEF Cascade
<1>5. call[t].op = "DeleteUser" => tx[t].pc # "Delete"
    BY <1>1, FirstOf
<1>6. DeletionInv(t)'
    BY <1>2, <1>3, <1>4, <1>5 DEF DeletionInv, store
<1>7. First(call[t].op) \notin {"Read", "Update"}
    BY <1>1
<1> QED BY <1>1, <1>2, <1>6, <1>7 DEF StandsFor

LEMMA DeleteStands ==
    ASSUME Stands, NEW t \in Txs, Delete(t) \/ DeleteWorkspacesOwnedByUser(t)
    PROVE  StandsFor(t)'
<1>1. /\ IInv /\ db \subseteq Ids /\ call \in [Txs -> CallRecords] /\ tx \in [Txs -> TxRecords]
      /\ \A s \in Txs : tx[s].new \notin db /\ tx[s].new \in Messages \cup {None}
    BY DEF Stands, IInv, TypeOK, Local, WriteSetFits, TxRecords
<1>2. CASE Refuse(t, "ErrNotFound")
    <2>1. call'[t].resp # "pending"
        BY <1>1, <1>2, AnswerTypes DEF Refuse, Responses
    <2> QED BY <2>1, OverStands
<1>3. CASE /\ Delete(t) /\ call[t].op = "DeleteWorkspace"
           /\ db \cap {call[t].chan} # {}
           /\ StartDelete(t, db \cap {call[t].chan}, "Commit")
    <2>1. tx[t].pc = "Delete"
        BY <1>3 DEF Delete, At
    <2>2. Target(t) = {call[t].chan} /\ call[t].chan \in db /\ call[t].chan \in Channels \cup {None}
        BY <1>1, <1>3 DEF Target, CallRecords
    <2>3. db \cap {call[t].chan} = (Target(t) \cap db) \ Users
        BY <1>1, <2>2, IdsAreDisjoint, NoneIsNoId
    <2>4. Target(t) \subseteq Ids /\ \A s \in Txs : tx[s].new \notin Target(t)
        BY <1>1, <2>2
    <2> QED BY <1>3, <2>1, <2>3, <2>4, StartStands
<1>4. CASE /\ Delete(t) /\ call[t].op # "DeleteWorkspace"
           /\ {m \in {call[t].id} : Named(t)} # {}
           /\ StartDelete(t, {m \in {call[t].id} : Named(t)}, "Commit")
    <2>1. tx[t].pc = "Delete" /\ Named(t)
        BY <1>4 DEF Delete, At
    <2>2. call[t].op # "DeleteUser"
        BY <1>1, <2>1, OperationAt, FirstOf
    <2>3. Target(t) = {call[t].id} /\ call[t].id \in db /\ call[t].id \in Messages \cup {None}
        BY <1>1, <1>4, <2>1, <2>2 DEF Target, CallRecords, Named, IsNamed
    <2>4. {m \in {call[t].id} : Named(t)} = (Target(t) \cap db) \ Users
        BY <1>1, <2>1, <2>3, IdsAreDisjoint, NoneIsNoId
    <2>5. Target(t) \subseteq Ids /\ \A s \in Txs : tx[s].new \notin Target(t)
        BY <1>1, <2>3
    <2> QED BY <1>4, <2>1, <2>4, <2>5, StartStands
<1>5. CASE DeleteWorkspacesOwnedByUser(t)
    <2>1. tx[t].pc = "DeleteWorkspacesOwnedByUser"
          /\ StartDelete(t, OwnedChannels(db, call[t].user), "DeleteUser")
        BY <1>5 DEF DeleteWorkspacesOwnedByUser, At
    <2>2. call[t].op = "DeleteUser" /\ call[t].user \in Users
        <3>1. First(call[t].op) = "LockUserRow" /\ DeleteUserInv(t)
            BY <1>1, <2>1, OperationAt
        <3> QED BY <3>1, FirstOf DEF DeleteUserInv
    <2>3. Target(t) = {call[t].user} \cup {c \in Channels : Owner[c] = call[t].user}
        BY <2>2 DEF Target
    <2>4. OwnedChannels(db, call[t].user) = (Target(t) \cap db) \ Users
        BY <2>2, <2>3, IdsAreDisjoint DEF OwnedChannels
    <2>5. Target(t) \subseteq Ids /\ \A s \in Txs : tx[s].new \notin Target(t)
        BY <1>1, <2>2, <2>3, IdsAreDisjoint, NoneIsNoId DEF Ids
    <2> QED BY <2>1, <2>2, <2>4, <2>5, StartStands
<1> QED BY <1>2, <1>3, <1>4, <1>5 DEF Delete

LEMMA DeleteUserStands ==
    ASSUME Stands, NEW t \in Txs, DeleteUser(t)
    PROVE  StandsFor(t)'
<1>1. /\ At(t, "DeleteUser") /\ tx[t].pc = "DeleteUser" /\ StandsFor(t) /\ IInv
      /\ tx[t] \in TxRecords /\ tx \in [Txs -> TxRecords]
    BY DEF DeleteUser, At, Stands, IInv, TypeOK
<1>2. call[t].resp = "pending" /\ call[t].op = "DeleteUser" /\ DeleteUserInv(t)
      /\ First(call[t].op) = "LockUserRow"
    BY <1>1, OperationAt, FirstOf
<1>3. CASE Refuse(t, "ErrKey")
    <2>1. call'[t].resp # "pending"
        BY <1>1, <1>3, AnswerTypes DEF Refuse, Responses
    <2> QED BY <2>1, OverStands
<1>4. CASE /\ tx' = [tx EXCEPT ![t].pc = "Commit", ![t].gone = @ \cup {call[t].user}]
           /\ UNCHANGED <<store, call>>
    <2>1. /\ tx'[t].gone = tx[t].gone \cup {call[t].user} /\ tx'[t].pc = "Commit"
          /\ tx'[t].upd = tx[t].upd /\ tx'[t].dec = tx[t].dec
          /\ tx'[t].todo = {} /\ tx[t].todo = {}
          /\ \A s \in Txs : tx'[s].new = tx[s].new
        BY <1>1, <1>4 DEF At
    <2>2. Target(t)' = Target(t) /\ Named(t)' = Named(t) /\ DeletionInv(t)
        BY <1>1, <1>2, <1>4 DEF Target, Named, store, StandsFor
    <2>3. call[t].user \in Target(t) /\ call[t].user \in Users
        BY <1>2 DEF Target, DeleteUserInv
    <2>4. call[t].user \in Cascade(db, row, Target(t))
        BY <2>3 DEF Cascade
    <2>5. tx'[t].gone \cap Users = {call[t].user}
        BY <1>1, <1>2, <2>1, <2>2, <2>3 DEF DeletionInv
    <2>6. DeletionInv(t)'
        <3>1. \A m \in tx'[t].upd : \E d \in tx'[t].dec : row'[d].root = m
            BY <1>4, <2>1, <2>2 DEF DeletionInv, store
        <3>2. tx'[t].gone \cup (tx'[t].todo \cap db') \subseteq Cascade(db', row', Target(t)')
            BY <1>4, <2>1, <2>2, <2>4 DEF DeletionInv, store
        <3>3. /\ Target(t)' \subseteq Ids /\ \A s \in Txs : tx'[s].new \notin Target(t)'
              /\ (Target(t)' \cap db') \ Users \subseteq tx'[t].gone \cup tx'[t].todo
              /\ tx'[t].gone \cap tx'[t].todo = {}
            BY <1>4, <2>1, <2>2 DEF DeletionInv, store
        <3>4. call'[t].op = "DeleteUser" /\ call'[t].user = call[t].user
            BY <1>2, <1>4
        <3> QED BY <2>1, <2>5, <3>1, <3>2, <3>3, <3>4 DEF DeletionInv
    <2> QED BY <1>1, <1>2, <1>4, <2>1, <2>6 DEF StandsFor
<1> QED BY <1>3, <1>4 DEF DeleteUser

\* Who is in the middle of a DELETE.
LEMMA DeletingStands ==
    ASSUME Stands, NEW t \in Txs, tx[t].todo # {} \/ tx[t].gone # {}
    PROVE  /\ call[t].resp = "pending" /\ tx[t].pc \in {"DeleteUser", "Commit"}
           /\ First(call[t].op) \in {"Delete", "LockUserRow"}
           /\ DeletionInv(t) /\ tx[t].todo \subseteq Channels \cup Messages
           /\ (call[t].op = "DeleteUser" \/ First(call[t].op) = "Delete")
<1>1. IInv /\ StandsFor(t)
    BY DEF Stands
<1>2. /\ tx[t].pc # "none" /\ call[t].resp = "pending"
      /\ tx[t].todo \subseteq Channels \cup Messages
      /\ \/ First(call[t].op) = "Delete" /\ tx[t].pc = "Commit"
         \/ /\ First(call[t].op) = "LockUserRow"
            /\ tx[t].pc \in {"DeleteUser", "Commit"}
    BY <1>1, DeletingInv
<1>3. First(call[t].op) = "LockUserRow" => call[t].op = "DeleteUser"
    BY FirstOf
<1> QED BY <1>1, <1>2, <1>3 DEF StandsFor

\* What a deletion has to restore when a row of its cascade is deleted or updated.
LEMMA DeletionGoesOn ==
    ASSUME NEW t \in Txs, DeletionInv(t), UNCHANGED <<store, call>>, tx'[t].pc = tx[t].pc,
           \A s \in Txs : tx'[s].new = tx[s].new,
           tx'[t].gone \cap tx'[t].todo = {},
           \A m \in tx'[t].upd : \E d \in tx'[t].dec : row[d].root = m,
           tx'[t].gone \cup (tx'[t].todo \cap db) \subseteq Cascade(db, row, Target(t)),
           (Target(t) \cap db) \ Users \subseteq tx'[t].gone \cup tx'[t].todo,
           tx'[t].gone \cap Users = tx[t].gone \cap Users
    PROVE  DeletionInv(t)'
<1>1. Target(t)' = Target(t) /\ (Named(t)' <=> Named(t))
    BY DEF Target, Named, store
<1>2. db' = db /\ row' = row /\ call'[t] = call[t]
    BY DEF store
<1>3. /\ Target(t) \subseteq Ids
      /\ call[t].op \in {"DeleteDirectMessage", "DeleteChannelMessage"} /\ call[t].id \in db =>
            Named(t)
      /\ call[t].op = "DeleteUser" =>
            tx[t].gone \cap Users = IF tx[t].pc = "Commit" THEN {call[t].user} ELSE {}
      /\ \A s \in Txs : tx[s].new \notin Target(t)
    BY DEF DeletionInv
<1> HIDE DEF DeletionInv
<1>4. /\ Target(t)' \subseteq Ids
      /\ \A s \in Txs : tx'[s].new \notin Target(t)'
      /\ (Target(t)' \cap db') \ Users \subseteq tx'[t].gone \cup tx'[t].todo
      /\ tx'[t].gone \cup (tx'[t].todo \cap db') \subseteq Cascade(db', row', Target(t)')
      /\ \A m \in tx'[t].upd : \E d \in tx'[t].dec : row'[d].root = m
    BY <1>1, <1>2, <1>3
<1>5. /\ call'[t].op \in {"DeleteDirectMessage", "DeleteChannelMessage"} /\ call'[t].id \in db' =>
            Named(t)'
      /\ call'[t].op = "DeleteUser" =>
            tx'[t].gone \cap Users = IF tx'[t].pc = "Commit" THEN {call'[t].user} ELSE {}
    BY <1>1, <1>2, <1>3
<1> QED BY <1>4, <1>5 DEF DeletionInv

LEMMA VisitRowStands ==
    ASSUME Stands, NEW t \in Txs, VisitRow(t)
    PROVE  StandsFor(t)'
<1>1. PICK r \in Visitable(t) :
        /\ LET rest == tx[t].todo \ {r}
               gone == tx[t].gone \cup {r}
           IN
           tx' = IF r \in db
                 THEN [tx EXCEPT ![t].gone = gone,
                                 ![t].todo = rest \cup (Referencing(db, row, r) \ gone)]
                 ELSE [tx EXCEPT ![t].todo = rest]
        /\ UNCHANGED <<store, call>>
    BY DEF VisitRow
<1>2. /\ tx[t] \in TxRecords /\ tx \in [Txs -> TxRecords] /\ r \in tx[t].todo
      /\ StandsFor(t)
    BY DEF Stands, IInv, TypeOK, Visitable
<1>3. /\ call[t].resp = "pending" /\ tx[t].pc \in {"DeleteUser", "Commit"}
      /\ First(call[t].op) \in {"Delete", "LockUserRow"}
      /\ DeletionInv(t) /\ tx[t].todo \subseteq Channels \cup Messages
    BY <1>2, DeletingStands
<1>4. /\ tx'[t].pc = tx[t].pc /\ tx'[t].upd = tx[t].upd /\ tx'[t].dec = tx[t].dec
      /\ \A s \in Txs : tx'[s].new = tx[s].new
    BY <1>1, <1>2
<1>5. Target(t)' = Target(t) /\ Named(t)' = Named(t) /\ call'[t] = call[t]
      /\ Target(t) \subseteq Ids
    BY <1>1, <1>3 DEF Target, Named, store, DeletionInv
<1> DEFINE gone == tx'[t].gone
           todo == tx'[t].todo
<1>6. /\ gone \cap todo = {}
      /\ gone \cup (todo \cap db) \subseteq Cascade(db, row, Target(t))
      /\ (Target(t) \cap db) \ Users \subseteq gone \cup todo
      /\ gone \cap Users = tx[t].gone \cap Users
    <2>1. CASE r \in db
        <3>1. /\ gone = tx[t].gone \cup {r}
              /\ todo = (tx[t].todo \ {r}) \cup (Referencing(db, row, r) \ gone)
            BY <1>1, <1>2, <2>1
        <3>2. r \in Cascade(db, row, Target(t)) /\ r \notin Users
            BY <1>2, <1>3, <2>1, IdsAreDisjoint DEF DeletionInv
        <3>3. Referencing(db, row, r) \subseteq Cascade(db, row, Target(t))
            BY <3>2, CascadeClosed
        <3> HIDE DEF gone, todo
        <3> QED BY <1>3, <3>1, <3>2, <3>3 DEF DeletionInv
    <2>2. CASE r \notin db
        <3>1. gone = tx[t].gone /\ todo = tx[t].todo \ {r}
            BY <1>1, <1>2, <2>2
        <3> HIDE DEF gone, todo
        <3> QED BY <1>3, <2>2, <3>1 DEF DeletionInv
    <2> QED BY <2>1, <2>2
<1> HIDE DEF gone, todo
<1>7. DeletionInv(t)'
    <2>1. \A m \in tx'[t].upd : \E d \in tx'[t].dec : row[d].root = m
        BY <1>3, <1>4 DEF DeletionInv
    <2> QED BY <1>1, <1>3, <1>4, <1>6, <2>1, DeletionGoesOn DEF gone, todo
<1> QED BY <1>2, <1>3, <1>4, <1>5, <1>7 DEF StandsFor

LEMMA DecrementStands ==
    ASSUME Stands, NEW t \in Txs, Decrement(t)
    PROVE  StandsFor(t)'
<1>1. PICK d \in Due(t) :
        \/ Refuse(t, "ErrCheck")
        \/ \E n : /\ tx' = [tx EXCEPT ![t].upd = @ \cup {row[d].root}, ![t].val[row[d].root] = n,
                                      ![t].dec = @ \cup {d}]
                  /\ UNCHANGED <<store, call>>
    BY DEF Decrement
<1>2. /\ tx[t] \in TxRecords /\ tx \in [Txs -> TxRecords] /\ call \in [Txs -> CallRecords]
      /\ d \in tx[t].gone /\ StandsFor(t)
    BY DEF Stands, IInv, TypeOK, Due, ToDecrement
<1>3. CASE Refuse(t, "ErrCheck")
    <2>1. call'[t].resp # "pending"
        BY <1>2, <1>3 DEF Refuse, AnswerWith
    <2> QED BY <2>1, OverStands
<1>4. ASSUME NEW n,
             tx' = [tx EXCEPT ![t].upd = @ \cup {row[d].root}, ![t].val[row[d].root] = n,
                              ![t].dec = @ \cup {d}],
             UNCHANGED <<store, call>>
      PROVE  StandsFor(t)'
    <2>1. /\ call[t].resp = "pending" /\ tx[t].pc \in {"DeleteUser", "Commit"}
          /\ First(call[t].op) \in {"Delete", "LockUserRow"} /\ DeletionInv(t)
        BY <1>2, DeletingStands
    <2>2. /\ tx'[t].pc = tx[t].pc /\ tx'[t].upd = tx[t].upd \cup {row[d].root}
          /\ tx'[t].dec = tx[t].dec \cup {d}
          /\ tx'[t].gone = tx[t].gone /\ tx'[t].todo = tx[t].todo
          /\ \A s \in Txs : tx'[s].new = tx[s].new
        BY <1>2, <1>4
    <2>3. Target(t)' = Target(t) /\ Named(t)' = Named(t) /\ call'[t] = call[t]
        BY <1>4 DEF Target, Named, store
    <2>4. /\ \A m \in tx'[t].upd : \E e \in tx'[t].dec : row[e].root = m
          /\ tx'[t].gone \cap tx'[t].todo = {}
          /\ tx'[t].gone \cup (tx'[t].todo \cap db) \subseteq Cascade(db, row, Target(t))
          /\ (Target(t) \cap db) \ Users \subseteq tx'[t].gone \cup tx'[t].todo
        BY <2>1, <2>2 DEF DeletionInv
    <2>5. DeletionInv(t)'
        BY <1>4, <2>1, <2>2, <2>4, DeletionGoesOn
    <2> QED BY <1>2, <2>1, <2>2, <2>3, <2>5 DEF StandsFor
<1> QED BY <1>1, <1>3, <1>4

\* A step of t leaves the records of the others alone, and the store unless it commits.
LEMMA ActsAlone ==
    ASSUME Stands, NEW t \in Txs, Arrive(t) \/ Return(t) \/ Step(t) \/ Failure(t) \/ CommitLost(t)
    PROVE  /\ \A q \in Txs \ {t} : tx'[q] = tx[q] /\ call'[q] = call[q]
           /\ \/ /\ UNCHANGED store
                 /\ \A s \in Txs \ {t} : \/ tx'[t].new \in {tx[t].new, None}
                                         \/ tx'[t].new \in Messages /\ tx'[t].new # call[s].id
              \/ At(t, "Commit") /\ Apply(t) /\ tx'[t] = NoTx
<1> USE DEF store
<1>1. call \in [Txs -> CallRecords] /\ tx \in [Txs -> TxRecords] /\ NoTx.new = None
    BY DEF Stands, IInv, TypeOK, NoTx
<1>2. \A resp, got : AnswerWith(t, resp, got) =>
          /\ \A q \in Txs \ {t} : tx'[q] = tx[q] /\ call'[q] = call[q]
          /\ tx'[t] = NoTx
    BY <1>1 DEF AnswerWith
<1>3. CASE Arrive(t)
    <2>1. \/ UNCHANGED tx
          \/ \E pc : tx' = [tx EXCEPT ![t].pc = pc]
          \/ \E m \in Messages : Fresh(m) /\ tx' = [tx EXCEPT ![t].pc = "AuthorKey", ![t].new = m]
        BY <1>3 DEF Arrive
    <2>2. UNCHANGED store /\ \A q \in Txs \ {t} : call'[q] = call[q]
        BY <1>1, <1>3 DEF Arrive
    <2>3. CASE UNCHANGED tx
        BY <2>2, <2>3
    <2>4. ASSUME NEW pc, tx' = [tx EXCEPT ![t].pc = pc]
          PROVE  tx'[t].new = tx[t].new /\ \A q \in Txs \ {t} : tx'[q] = tx[q]
        BY <1>1, <2>4
    <2>5. ASSUME NEW m \in Messages, Fresh(m),
                 tx' = [tx EXCEPT ![t].pc = "AuthorKey", ![t].new = m]
          PROVE  /\ tx'[t].new \in Messages /\ \A s \in Txs : tx'[t].new # call[s].id
                 /\ \A q \in Txs \ {t} : tx'[q] = tx[q]
        BY <1>1, <2>5 DEF Fresh
    <2> QED BY <2>1, <2>2, <2>3, <2>4, <2>5
<1>4. CASE Return(t)
    BY <1>1, <1>4 DEF Return
<1>5. ASSUME \/ \E resp : Refuse(t, resp)
             \/ \E resp, got : AnswerWith(t, resp, got) /\ UNCHANGED store
      PROVE  /\ \A q \in Txs \ {t} : tx'[q] = tx[q] /\ call'[q] = call[q]
             /\ tx'[t].new = None /\ UNCHANGED store
    BY <1>1, <1>2, <1>5 DEF Refuse
<1>13. CASE Read(t) \/ ReadPage(t) \/ DeletedNone(t) \/ DeadlockAbort(t) \/ Failure(t)
    <2>1. \/ \E resp : Refuse(t, resp)
          \/ \E resp, got : AnswerWith(t, resp, got) /\ UNCHANGED store
        BY <1>13 DEF Read, ReadPage, DeletedNone, DeadlockAbort, Failure, StatementFails
    <2> QED BY <1>5, <2>1
<1>6. CASE CheckKey(t)
    <2>1. CASE /\ tx' = [tx EXCEPT ![t].pc = AfterKey(t), ![t].keys = @ \cup {Key(t)}]
               /\ UNCHANGED <<store, call>>
        BY <1>1, <2>1
    <2> QED BY <1>5, <1>6, <2>1 DEF CheckKey
<1>7. CASE Increment(t) \/ Update(t)
    <2>1. ASSUME NEW m, NEW n, Write(t, m, n, "Commit")
          PROVE  /\ tx'[t].new = tx[t].new /\ UNCHANGED <<store, call>>
                 /\ \A q \in Txs \ {t} : tx'[q] = tx[q]
        BY <1>1, <2>1 DEF Write
    <2> QED BY <1>5, <1>7, <2>1 DEF Increment, Update
<1>8. CASE Delete(t) \/ DeleteWorkspacesOwnedByUser(t)
    <2>1. ASSUME NEW R, NEW next, StartDelete(t, R, next)
          PROVE  /\ tx'[t].new = tx[t].new /\ UNCHANGED <<store, call>>
                 /\ \A q \in Txs \ {t} : tx'[q] = tx[q]
        BY <1>1, <2>1 DEF StartDelete
    <2>2. Refuse(t, "ErrNotFound") \/ \E R, next : StartDelete(t, R, next)
        BY <1>8 DEF Delete, DeleteWorkspacesOwnedByUser
    <2>3. CASE \E R, next : StartDelete(t, R, next)
        <3>1. /\ tx'[t].new = tx[t].new /\ UNCHANGED <<store, call>>
              /\ \A q \in Txs \ {t} : tx'[q] = tx[q]
            BY <2>1, <2>3
        <3> QED BY <3>1
    <2> QED BY <1>5, <2>2, <2>3
<1>9. CASE LockUserRow(t)
    <2>1. CASE /\ tx' = [tx EXCEPT ![t].pc = "DeleteWorkspacesOwnedByUser",
                                   ![t].held = {call[t].user}]
               /\ UNCHANGED <<store, call>>
        BY <1>1, <2>1
    <2> QED BY <1>5, <1>9, <2>1 DEF LockUserRow
<1>14. CASE DeleteUser(t)
    <2>1. CASE /\ tx' = [tx EXCEPT ![t].pc = "Commit", ![t].gone = @ \cup {call[t].user}]
               /\ UNCHANGED <<store, call>>
        BY <1>1, <2>1
    <2> QED BY <1>5, <1>14, <2>1 DEF DeleteUser
<1>11. CASE VisitRow(t)
    BY <1>1, <1>11 DEF VisitRow
<1>12. CASE Decrement(t)
    <2>1. ASSUME NEW r, NEW n, NEW d,
                 tx' = [tx EXCEPT ![t].upd = @ \cup {r}, ![t].val[r] = n, ![t].dec = @ \cup {d}],
                 UNCHANGED <<store, call>>
          PROVE  tx'[t].new = tx[t].new /\ \A q \in Txs \ {t} : tx'[q] = tx[q]
        BY <1>1, <2>1
    <2> QED BY <1>5, <1>12, <2>1 DEF Decrement
<1>10. CASE Commit(t) \/ CommitLost(t)
    BY <1>1, <1>2, <1>10 DEF Commit, CommitLost
<1> QED BY <1>3, <1>4, <1>6, <1>7, <1>8, <1>9, <1>10, <1>11, <1>12, <1>13,
          <1>14 DEF Step

LEMMA StepStands ==
    ASSUME Stands, NEW t \in Txs, Arrive(t) \/ Return(t) \/ Step(t) \/ Failure(t) \/ CommitLost(t)
    PROVE  StandsFor(t)'
<1>1. call \in [Txs -> CallRecords] /\ tx \in [Txs -> TxRecords] /\ IInv
    BY DEF Stands, IInv, TypeOK
<1>2. ASSUME NEW resp \in Responses, NEW got, AnswerWith(t, resp, got) PROVE StandsFor(t)'
    <2>1. call'[t].resp # "pending"
        BY <1>1, <1>2 DEF AnswerWith, Responses
    <2> QED BY <2>1, OverStands
<1>3. CASE Arrive(t)
    <2>1. PICK r \in Requests :
              /\ call' = [call EXCEPT ![t] = Received(r)]
              /\ \/ Received(r).resp # "pending" /\ UNCHANGED tx
                 \/ \E new : tx' = [tx EXCEPT ![t].pc = First(r.op), ![t].new = new]
                 \/ tx' = [tx EXCEPT ![t].pc = First(r.op)]
        BY <1>3 DEF Arrive
    <2>2. call'[t] = Received(r) /\ Received(r).op = r.op /\ r.op \in Ops
        BY <1>1, <2>1 DEF Received, Requests
    <2>3. Received(r).resp # "pending" \/ tx'[t].pc = First(r.op)
        <3>1. ASSUME NEW new, tx' = [tx EXCEPT ![t].pc = First(r.op), ![t].new = new]
              PROVE  tx'[t].pc = First(r.op)
            BY <1>1, <3>1 DEF TxRecords
        <3>2. tx' = [tx EXCEPT ![t].pc = First(r.op)] => tx'[t].pc = First(r.op)
            BY <1>1 DEF TxRecords
        <3> QED BY <2>1, <3>1, <3>2
    <2>4. CASE Received(r).resp # "pending"
        BY <2>2, <2>4, OverStands
    <2>5. CASE tx'[t].pc = First(r.op)
        BY <2>2, <2>5, FirstOf DEF StandsFor
    <2> QED BY <2>3, <2>4, <2>5
<1>4. CASE Return(t)
    <2>1. call'[t].resp # "pending"
        BY <1>1, <1>4 DEF Return, NoCall
    <2> QED BY <2>1, OverStands
<1>5. CASE CheckKey(t) \/ Increment(t)
    <2>1. tx[t].pc \in {"AuthorKey", "TargetKey", "RootKey", "Increment"}
        BY <1>5 DEF CheckKey, Increment, At
    <2>2. CASE UNCHANGED call
        BY <1>1, <2>1, <2>2, OperationAt, SendStands
    <2>3. CASE Refuse(t, "ErrKey")
        BY <1>2, <2>3 DEF Refuse, Responses
    <2> QED BY <1>5, <2>2, <2>3 DEF CheckKey, Increment, Write
<1>6. CASE Update(t)
    BY <1>6, UpdateStands
<1>7. CASE Read(t) \/ ReadPage(t) \/ DeletedNone(t) \/ DeadlockAbort(t) \/ Failure(t)
    BY <1>2, <1>7 DEF Read, ReadPage, DeletedNone, DeadlockAbort, Failure, StatementFails,
                      Refuse, Responses
<1>8. CASE Delete(t) \/ DeleteWorkspacesOwnedByUser(t)
    BY <1>8, DeleteStands
<1>9. CASE LockUserRow(t)
    <2>1. tx[t].pc = "LockUserRow"
        BY <1>9 DEF LockUserRow, At
    <2>2. CASE Refuse(t, "ErrNotFound")
        BY <1>2, <2>2 DEF Refuse, Responses
    <2>3. CASE UNCHANGED call /\ tx'[t].pc = "DeleteWorkspacesOwnedByUser"
        BY <1>1, <2>1, <2>3, OperationAt, SendStands
    <2>4. Refuse(t, "ErrNotFound") \/ (UNCHANGED call /\ tx'[t].pc = "DeleteWorkspacesOwnedByUser")
        <3>1. tx' = [tx EXCEPT ![t].pc = "DeleteWorkspacesOwnedByUser", ![t].held = {call[t].user}]
              => tx'[t].pc = "DeleteWorkspacesOwnedByUser"
            BY <1>1 DEF TxRecords
        <3> QED BY <1>9, <3>1 DEF LockUserRow
    <2> QED BY <2>2, <2>3, <2>4
<1>10. CASE DeleteUser(t)
    BY <1>10, DeleteUserStands
<1>11. CASE VisitRow(t)
    BY <1>11, VisitRowStands
<1>12. CASE Decrement(t)
    BY <1>12, DecrementStands
<1>13. CASE Commit(t) \/ CommitLost(t)
    BY <1>2, <1>13 DEF Commit, CommitLost, Responses
<1> QED BY <1>3, <1>4, <1>5, <1>6, <1>7, <1>8, <1>9, <1>10, <1>11, <1>12, <1>13 DEF Step

LEMMA RowsFitStep ==
    ASSUME Stands, NEW t \in Txs,
           UNCHANGED store \/ (At(t, "Commit") /\ Apply(t))
    PROVE  RowsFit'
<1>1. CASE UNCHANGED store
    BY <1>1 DEF Stands, RowsFit, store
<1>2. CASE At(t, "Commit") /\ Apply(t)
    <2>1. IInv /\ RowsFit
        BY DEF Stands
    <2>2. /\ \A m \in Messages \cap db' : m # tx[t].new => m \in db /\ row'[m] = row[m]
          /\ tx[t].new # None => row'[tx[t].new] = NewRow(call[t])
        BY <1>2, <2>1, AppliedRows
    <2>3. tx[t].new # None => SendInv(t)
        BY <1>2, <2>1, RunningInv DEF At, UpdateInv, DeleteInv, DeleteUserInv
    <2>4. ASSUME NEW m \in Messages \cap db', row'[m].to # None
          PROVE  row'[m].chan = None /\ row'[m].root = None
        <3>1. CASE m = tx[t].new
            BY <2>2, <2>3, <2>4, <3>1, NoneIsNoId DEF SendInv, NewRow, Ids
        <3>2. CASE m # tx[t].new
            BY <2>1, <2>2, <2>4, <3>2 DEF RowsFit
        <3> QED BY <3>1, <3>2
    <2> QED BY <2>4 DEF RowsFit
<1> QED BY <1>1, <1>2

LEMMA StandsInvariant == Spec => []Stands
<1>1. Init => Stands
    <2> SUFFICES ASSUME Init PROVE Stands
        OBVIOUS
    <2>1. \A t \in Txs : StandsFor(t)
        BY DEF Init, StandsFor, NoCall
    <2>2. RowsFit
        BY IdsAreDisjoint DEF Init, RowsFit
    <2> QED BY <2>1, <2>2, InitInv DEF Stands
<1>2. ASSUME Stands, [Next]_vars PROVE Stands'
    <2>1. IInv'
        BY <1>2, NextInv DEF Stands
    <2>2. CASE UNCHANGED vars
        <3>1. RowsFit'
            BY <1>2, <2>2 DEF vars, store, Stands, RowsFit
        <3>2. ASSUME NEW t \in Txs PROVE StandsFor(t)'
            <4>1. Target(t)' = Target(t) /\ (Named(t)' <=> Named(t)) /\ StandsFor(t)
                BY <1>2, <2>2 DEF vars, store, Stands, Target, Named
            <4>2. DeletionInv(t) => DeletionInv(t)'
                BY <2>2, <4>1, DeletionGoesOn DEF vars, store, DeletionInv
            <4> QED BY <2>2, <4>1, <4>2 DEF vars, store, StandsFor
        <3> QED BY <2>1, <3>1, <3>2 DEF Stands
    <2>3. ASSUME NEW t \in Txs, Arrive(t) \/ Return(t) \/ Step(t) \/ Failure(t) \/ CommitLost(t)
          PROVE  Stands'
        <3>1. /\ \A q \in Txs \ {t} : tx'[q] = tx[q] /\ call'[q] = call[q]
              /\ \/ /\ UNCHANGED store
                    /\ \A s \in Txs \ {t} : \/ tx'[t].new \in {tx[t].new, None}
                                            \/ tx'[t].new \in Messages /\ tx'[t].new # call[s].id
                 \/ At(t, "Commit") /\ Apply(t) /\ tx'[t] = NoTx
            BY <1>2, <2>3, ActsAlone
        <3>2. RowsFit'
            BY <1>2, <3>1, RowsFitStep
        <3>3. \A s \in Txs \ {t} : StandsFor(s)'
            BY <1>2, <3>1, QuietStands, CommitStands
        <3>4. StandsFor(t)'
            BY <1>2, <2>3, StepStands
        <3> QED BY <2>1, <3>2, <3>3, <3>4 DEF Stands
    <2> QED BY <1>2, <2>2, <2>3 DEF Next
<1> QED BY <1>1, <1>2, PTL DEF Spec

-----------------------------------------------------------------------------
(* The mapping: what MessageStore and Messages have in common. *)

LEMMA SameStore ==
    /\ \A S, rows, r : Abstract!Replies(S, rows, r) = Replies(S, rows, r)
    /\ \A S, rows, R : Abstract!Cascade(S, rows, R) = Cascade(S, rows, R)
    /\ \A S : Abstract!Cardinality(S) = Cardinality(S)
    /\ \A S, u : Abstract!OwnedChannels(S, u) = OwnedChannels(S, u)
    /\ \A S, rows, u : Abstract!WrittenBy(S, rows, u) = WrittenBy(S, rows, u)
    /\ \A S, rows, c : Abstract!Listed(S, rows, c) = Listed(S, rows, c)
    /\ \A t : Abstract!Named(t) = Named(t)
BY DEF Abstract!Cardinality, Cardinality, Abstract!IsFiniteSet, IsFiniteSet,
       Abstract!Replies, Replies, Abstract!Referencing, Referencing, Abstract!Cascade, Cascade,
       Abstract!OwnedChannels, OwnedChannels, Abstract!WrittenBy, WrittenBy,
       Abstract!Listed, Listed, Abstract!Named, Named, Abstract!IsNamed, IsNamed

LEMMA SameRequests ==
    /\ Abstract!NoCall = NoCall /\ Abstract!Responses = Responses /\ Abstract!NoRow = NoRow
    /\ Abstract!Requests = Requests /\ Abstract!Pages = Pages
    /\ \A r : Abstract!Received(r) = Received(r)
    /\ \A c : Abstract!NewRow(c) = NewRow(c)
BY DEF Abstract!NoCall, NoCall, Abstract!Responses, Responses, Abstract!NoRow, NoRow,
       Abstract!Requests, Requests, Abstract!OnMessage, OnMessage, Abstract!Pages, Pages,
       Abstract!Received, Received, Abstract!NewRow, NewRow

LEMMA RefuseMaps ==
    ASSUME NEW t, NEW resp, Refuse(t, resp)
    PROVE  Abstract!Refuse(t, resp)
BY DEF Refuse, AnswerWith, store, Abstract!Refuse, Abstract!AnswerWith

\* A success of a call that leaves the store alone.
LEMMA ReadOf ==
    ASSUME NEW t, NEW got, AnswerWith(t, "ok", got), UNCHANGED store
    PROVE  Abstract!Succeed(t, db, row, got)
BY DEF AnswerWith, store, Abstract!Succeed, Abstract!AnswerWith

LEMMA CommitOf ==
    ASSUME NEW t, Commit(t) \/ CommitLost(t)
    PROVE  Abstract!Succeed(t, db', row', Returned(t))
BY DEF Commit, CommitLost, AnswerWith, Abstract!Succeed, Abstract!AnswerWith

\* A statement that answers nothing and changes no row is no abstract step.
LEMMA QuietMaps ==
    ASSUME UNCHANGED <<store, call>>
    PROVE  UNCHANGED Abstract!vars
BY DEF store, Abstract!vars

\* A call whose statements run is pending in MessageStore too.
LEMMA PendingAt ==
    ASSUME Stands, NEW t \in Txs, tx[t].pc # "none"
    PROVE  /\ Abstract!Pending(t, call[t].op) /\ call[t].op \in Operations
           /\ call[t].id \in db => call[t].id \in Messages
           /\ IInv /\ StandsFor(t)
<1>1. IInv /\ StandsFor(t) /\ call[t].resp = "pending" /\ call[t] \in CallRecords
      /\ db \subseteq Ids
    BY RunningInv DEF Stands, IInv, TypeOK
<1> QED BY <1>1, OpsAreOperations, NoneIsNoId DEF Abstract!Pending, StandsFor, CallRecords

LEMMA RequestsMap ==
    ASSUME NEW t \in Txs, Arrive(t) \/ Return(t)
    PROVE  Abstract!Arrive(t) \/ Abstract!Return(t)
BY SameRequests DEF Arrive, Return, store, Abstract!Arrive, Abstract!Return

LEMMA CheckKeyMaps ==
    ASSUME Stands, NEW t \in Txs, CheckKey(t)
    PROVE  Abstract!Send(t) \/ UNCHANGED Abstract!vars
<1>1. tx[t].pc \in {"AuthorKey", "TargetKey", "RootKey"}
    BY DEF CheckKey
<1>2. First(call[t].op) = "AuthorKey" /\ SendInv(t)
    BY <1>1, OperationAt DEF Stands
<1>3. Abstract!Pending(t, "SendDirectMessage") \/ Abstract!Pending(t, "SendChannelMessage")
    BY <1>1, <1>2, PendingAt, FirstOf
<1>4. CASE ~KeyExists(t) /\ Refuse(t, "ErrKey")
    <2>1. ~(/\ {call[t].user, call[t].to, call[t].chan} \ {None} \subseteq db
            /\ call[t].id # None => Named(t))
        <3>1. CASE tx[t].pc = "AuthorKey"
            BY <1>2, <1>4, <3>1, NoneIsNoId DEF KeyExists, Key, SendInv, Ids
        <3>2. CASE tx[t].pc = "TargetKey"
            BY <1>2, <1>4, <3>2, NoneIsNoId DEF KeyExists, Key, SendInv, Ids
        <3>3. CASE tx[t].pc = "RootKey"
            <4>1. call[t].id # None /\ Key(t) = call[t].id
                BY <1>2, <3>3, NoneIsNoId DEF SendInv, Ids, Key
            <4> QED BY <1>4, <3>3, <4>1 DEF KeyExists, Named, IsNamed
        <3> QED BY <1>1, <3>1, <3>2, <3>3
    <2> QED BY <1>3, <1>4, <2>1, RefuseMaps, SameStore DEF Abstract!Send
<1>5. CASE UNCHANGED <<store, call>>
    BY <1>5, QuietMaps
<1> QED BY <1>4, <1>5 DEF CheckKey

LEMMA UpdateMaps ==
    ASSUME Stands, NEW t \in Txs, Update(t)
    PROVE  Abstract!ReadOrUpdate(t) \/ UNCHANGED Abstract!vars
<1>1. tx[t].pc = "Update"
    BY DEF Update, At
<1>2. call[t].op \in {"UpdateDirectMessage", "UpdateChannelMessage"}
    <2>1. First(call[t].op) \in {"Update", "Read"} /\ StandsFor(t) /\ call[t].resp = "pending"
        BY <1>1, OperationAt DEF Stands
    <2> QED BY <1>1, <2>1, FirstOf DEF StandsFor
<1>3. CASE ~Named(t) /\ Refuse(t, "ErrNotFound")
    BY <1>1, <1>2, <1>3, PendingAt, RefuseMaps, SameStore DEF Abstract!ReadOrUpdate
<1>4. CASE UNCHANGED <<store, call>>
    BY <1>4, QuietMaps
<1> QED BY <1>3, <1>4 DEF Update, Write

LEMMA ReadMaps ==
    ASSUME Stands, NEW t \in Txs, Read(t) \/ ReadPage(t)
    PROVE  \/ Abstract!ReadOrUpdate(t) \/ Abstract!ReadChannelThreadReplies(t)
           \/ Abstract!ReadPage(t)
<1>1. tx[t].pc = "Read"
    BY DEF Read, ReadPage, At
<1>2. /\ Abstract!Pending(t, call[t].op) /\ call[t].op \in Operations /\ IInv
      /\ call[t].id \in db => call[t].id \in Messages
    BY <1>1, PendingAt
<1>3. call[t].op \in {"ReadSingleDirectMessage", "ReadSingleChannelMessage",
                      "ReadChannelThreadReplies"} \cup Pages
    <2>1. First(call[t].op) = "Read"
        BY <1>1, OperationAt, FirstOf DEF Stands, StandsFor
    <2> QED BY <1>2, <2>1, FirstOf DEF Operations, OnMessage
<1>4. CASE ReadPage(t)
    <2>1. PICK n \in 0..Cardinality(Listed(db, row, call[t])) : AnswerWith(t, "ok", n)
        BY <1>4 DEF ReadPage
    <2>2. Abstract!Succeed(t, db, row, n)
        BY <1>4, <2>1, ReadOf DEF ReadPage
    <2>3. call[t].op \in Pages
        BY <1>4 DEF ReadPage
    <2>4. n \in 0..Abstract!Cardinality(Abstract!Listed(db, row, call[t])) /\ call[t].op \in Abstract!Pages
        BY <2>1, <2>3, SameStore, SameRequests
    <2>5. Abstract!ReadPage(t)
        BY <1>2, <2>2, <2>4 DEF Abstract!ReadPage
    <2> QED BY <2>5
<1>5. CASE Read(t) /\ call[t].op = "ReadChannelThreadReplies"
    <2>1. \/ Replies(db, row, call[t].id) = {} /\ Refuse(t, "ErrNotFound")
          \/ /\ Replies(db, row, call[t].id) # {}
             /\ AnswerWith(t, "ok", Cardinality(Replies(db, row, call[t].id)))
             /\ UNCHANGED store
        BY <1>5 DEF Read
    <2>2. /\ Abstract!Replies(db, row, call[t].id) = Replies(db, row, call[t].id)
          /\ Abstract!Cardinality(Replies(db, row, call[t].id)) =
                Cardinality(Replies(db, row, call[t].id))
        BY SameStore
    <2>3. Abstract!ReadChannelThreadReplies(t)
        BY <1>2, <1>5, <2>1, <2>2, RefuseMaps, ReadOf DEF Abstract!ReadChannelThreadReplies
    <2> QED BY <2>3
<1>6. CASE Read(t) /\ call[t].op # "ReadChannelThreadReplies"
    <2>1. \/ ~Named(t) /\ Refuse(t, "ErrNotFound")
          \/ Named(t) /\ AnswerWith(t, "ok", count[call[t].id]) /\ UNCHANGED store
        BY <1>6 DEF Read
    <2>2. Named(t) => count[call[t].id] = Cardinality(Replies(db, row, call[t].id))
        BY <1>2 DEF Named, IsNamed, IInv, ReplyCountsAreExact
    <2>3. call[t].op \in {"ReadSingleDirectMessage", "ReadSingleChannelMessage"}
        BY <1>3, <1>6 DEF Read
    <2>4. /\ Abstract!Replies(db, row, call[t].id) = Replies(db, row, call[t].id)
          /\ Abstract!Cardinality(Replies(db, row, call[t].id)) =
                Cardinality(Replies(db, row, call[t].id))
          /\ Abstract!Named(t) <=> Named(t)
        BY SameStore
    <2>5. Abstract!ReadOrUpdate(t)
        BY <1>2, <2>1, <2>2, <2>3, <2>4, RefuseMaps, ReadOf DEF Abstract!ReadOrUpdate
    <2> QED BY <2>5
<1> QED BY <1>4, <1>5, <1>6

-----------------------------------------------------------------------------
(* A deletion that is over has deleted the cascade of what it names. *)

\* Rows that nothing refers to add only themselves to a cascade.
LEMMA CascadeOfMore ==
    ASSUME NEW S, NEW rows, NEW T, NEW R \in SUBSET T,
           \A r \in T \ R : Referencing(S, rows, r) = {}
    PROVE  Cascade(S, rows, T) \subseteq T \cup Cascade(S, rows, R)
<1> DEFINE C == Cascade(S, rows, R) \cap S \cap Messages
<1>1. C \in SUBSET (S \cap Messages)
    OBVIOUS
<1>2. ASSUME NEW r \in T \cup C PROVE Referencing(S, rows, r) \subseteq C
    <2>1. CASE r \in Cascade(S, rows, R)
        <3>1. Referencing(S, rows, r) \subseteq Cascade(S, rows, R)
            BY <2>1, CascadeClosed
        <3> QED BY <3>1 DEF Referencing
    <2>2. CASE r \notin Cascade(S, rows, R)
        BY <1>2, <2>2 DEF Cascade
    <2> QED BY <2>1, <2>2
<1>3. Cascade(S, rows, T) \subseteq T \cup C
    <2> HIDE DEF C
    <2> QED BY <1>1, <1>2, CascadeLeast
<1> QED BY <1>3

LEMMA NothingCascades == \A S, rows : Cascade(S, rows, {}) = {}
<1> SUFFICES ASSUME NEW S, NEW rows PROVE Cascade(S, rows, {}) \subseteq {} \cup {}
    OBVIOUS
<1> QED BY CascadeLeast

LEMMA WholeCascade ==
    ASSUME IInv, NEW t \in Txs, tx[t].todo = {}, NEW T \in SUBSET Ids,
           tx[t].gone \subseteq Cascade(db, row, T),
           NEW R \in SUBSET T, R \subseteq tx[t].gone,
           \A r \in T \ R : r \notin tx[t].gone /\ (r \in Users \/ r \notin db)
    PROVE  tx[t].gone = Cascade(db, row, R)
<1> DEFINE gone == tx[t].gone
<1>1. gone \subseteq db /\ \A r \in gone : Referencing(db, row, r) \subseteq gone
    BY DEF IInv, Local, WriteSetFits, CascadeFollows, Exclusive
<1>2. Cascade(db, row, R) \subseteq gone
    <2> DEFINE C == gone \cap Messages
    <2>1. C \in SUBSET (db \cap Messages)
        BY <1>1
    <2>2. \A r \in R \cup C : Referencing(db, row, r) \subseteq C
        BY <1>1 DEF Referencing
    <2>3. Cascade(db, row, R) \subseteq R \cup C
        <3> HIDE DEF C
        <3> QED BY <2>1, <2>2, CascadeLeast
    <2> QED BY <2>3
<1>3. \A r \in T \ R : Referencing(db, row, r) = {}
    BY NoReferences
<1>4. Cascade(db, row, T) \subseteq T \cup Cascade(db, row, R)
    BY <1>3, CascadeOfMore
<1>5. R \subseteq Cascade(db, row, R)
    BY DEF Cascade
<1> QED BY <1>2, <1>4, <1>5

\* The channels that a DeleteUser names, and their messages.
LEMMA AccountCascade ==
    ASSUME Stands, NEW t \in Txs, tx[t].pc \in {"DeleteUser", "Commit"}, tx[t].todo = {},
           call[t].op = "DeleteUser"
    PROVE  LET u == call[t].user
               R == OwnedChannels(db, u)
           IN  /\ u \in Users \cap db /\ R \subseteq tx[t].gone
               /\ tx[t].pc = "DeleteUser" => tx[t].gone = Cascade(db, row, R)
               /\ tx[t].pc = "Commit" => tx[t].gone = Cascade(db, row, {u} \cup R)
<1> DEFINE u == call[t].user
           R == OwnedChannels(db, u)
<1>1. First(call[t].op) = "LockUserRow" /\ DeleteUserInv(t) /\ DeletionInv(t) /\ IInv
    BY OperationAt, FirstOf DEF Stands, StandsFor
<1>2. u \in Users \cap db
    BY <1>1 DEF DeleteUserInv, IInv, Local, WriteSetFits, Exclusive
<1>3. Target(t) = {u} \cup {c \in Channels : Owner[c] = u}
    BY DEF Target
<1>4. R \subseteq tx[t].gone /\ R \subseteq Target(t)
    BY <1>1, <1>2, <1>3, IdsAreDisjoint DEF DeletionInv, OwnedChannels
<1>5. tx[t].gone \subseteq db
    BY <1>1 DEF IInv, Local, WriteSetFits, Exclusive
<1>6. \A r \in Target(t) \ ({u} \cup R) : r \notin db
    BY <1>3 DEF OwnedChannels
<1>7. CASE tx[t].pc = "DeleteUser"
    <2>1. u \notin tx[t].gone
        BY <1>1, <1>2, <1>7 DEF DeletionInv
    <2>2. \A r \in Target(t) \ R : r \notin tx[t].gone /\ (r \in Users \/ r \notin db)
        BY <1>2, <1>5, <1>6, <2>1
    <2>3. tx[t].gone = Cascade(db, row, R)
        <3> HIDE DEF R
        <3> QED BY <1>1, <1>4, <2>2, WholeCascade DEF DeletionInv
    <2> QED BY <1>2, <1>4, <1>7, <2>3
<1>8. CASE tx[t].pc = "Commit"
    <2> DEFINE Q == {u} \cup R
    <2>1. u \in tx[t].gone
        BY <1>1, <1>8 DEF DeletionInv
    <2>2. /\ \A r \in Target(t) \ Q : r \notin tx[t].gone /\ (r \in Users \/ r \notin db)
          /\ Q \subseteq tx[t].gone /\ Q \subseteq Target(t)
        BY <1>3, <1>4, <1>5, <1>6, <2>1
    <2>3. tx[t].gone = Cascade(db, row, Q)
        <3> HIDE DEF Q
        <3> QED BY <1>1, <2>2, WholeCascade DEF DeletionInv
    <2> QED BY <1>2, <1>4, <1>8, <2>3
<1> QED BY <1>7, <1>8

\* What a DeleteWorkspace, or the deletion of a message, names and deletes.
LEMMA NamedCascade ==
    ASSUME Stands, NEW t \in Txs, tx[t].pc = "Commit", tx[t].todo = {},
           First(call[t].op) = "Delete"
    PROVE  LET r == IF call[t].op = "DeleteWorkspace" THEN call[t].chan ELSE call[t].id
           IN  /\ r \in db <=> tx[t].gone # {}
               /\ tx[t].gone # {} => tx[t].gone = Cascade(db, row, {r})
               /\ call[t].op # "DeleteWorkspace" => (Named(t) <=> r \in db)
<1> DEFINE r == IF call[t].op = "DeleteWorkspace" THEN call[t].chan ELSE call[t].id
           gone == tx[t].gone
<1>1. DeleteInv(t) /\ DeletionInv(t) /\ IInv /\ call[t] \in CallRecords
    BY OperationAt DEF Stands, StandsFor, IInv, TypeOK
<1>2. call[t].op \in {"DeleteDirectMessage", "DeleteChannelMessage", "DeleteWorkspace"}
    BY FirstOf
<1>3. Target(t) = {r} /\ r \in Ids
    BY <1>1, <1>2 DEF Target, DeletionInv
<1>4. r \notin Users
    BY <1>1, <1>3, IdsAreDisjoint, NoneIsNoId DEF CallRecords, Ids
<1>5. gone \subseteq db
    BY <1>1 DEF IInv, Local, WriteSetFits, Exclusive
<1>6. CASE r \in db
    <2>1. r \in gone
        BY <1>1, <1>3, <1>4, <1>6 DEF DeletionInv
    <2>2. gone = Cascade(db, row, {r})
        <3> HIDE DEF r
        <3> QED BY <1>1, <1>3, <2>1, WholeCascade DEF DeletionInv
    <2>3. call[t].op # "DeleteWorkspace" => Named(t)
        BY <1>1, <1>2, <1>6 DEF DeletionInv
    <2> QED BY <1>6, <2>1, <2>2, <2>3
<1>7. CASE r \notin db
    <2>1. r \notin gone
        BY <1>5, <1>7
    <2>2. gone = Cascade(db, row, {})
        <3> HIDE DEF r
        <3> QED BY <1>1, <1>3, <1>7, <2>1, WholeCascade DEF DeletionInv
    <2>3. Cascade(db, row, {}) = {}
        BY NothingCascades
    <2>4. call[t].op # "DeleteWorkspace" => ~Named(t)
        BY <1>7 DEF Named, IsNamed
    <2> QED BY <1>7, <2>2, <2>3, <2>4
<1> QED BY <1>6, <1>7

-----------------------------------------------------------------------------
LEMMA DeleteMaps ==
    ASSUME Stands, NEW t \in Txs, Delete(t) \/ DeletedNone(t)
    PROVE  Abstract!DeleteMessage(t) \/ Abstract!DeleteWorkspace(t) \/ UNCHANGED Abstract!vars
<1>1. tx[t].pc \in {"Delete", "Commit"} /\ tx[t].todo = {}
    BY DEF Delete, DeletedNone, At
<1>2. call[t].op \in {"DeleteDirectMessage", "DeleteChannelMessage", "DeleteWorkspace"}
    BY <1>1, OperationAt, FirstOf DEF Stands, Delete, DeletedNone, At, NothingDeleted
<1>3. Abstract!Pending(t, call[t].op) /\ IInv
    BY <1>1, PendingAt
<1>4. CASE /\ Refuse(t, "ErrNotFound")
           /\ IF call[t].op = "DeleteWorkspace" THEN call[t].chan \notin db ELSE ~Named(t)
    <2>1. Abstract!Refuse(t, "ErrNotFound") /\ (Abstract!Named(t) <=> Named(t))
        BY <1>4, RefuseMaps, SameStore
    <2> QED BY <1>2, <1>3, <1>4, <2>1 DEF Abstract!DeleteMessage, Abstract!DeleteWorkspace
<1>5. CASE Delete(t)
    <2>1. CASE UNCHANGED <<store, call>>
        BY <2>1, QuietMaps
    <2>2. CASE ~UNCHANGED <<store, call>>
        BY <1>4, <1>5, <2>2 DEF Delete, StartDelete
    <2> QED BY <2>1, <2>2
<1>6. CASE DeletedNone(t)
    <2>1. tx[t].pc = "Commit" /\ tx[t].gone = {} /\ Refuse(t, "ErrNotFound")
        BY <1>6 DEF DeletedNone, At, NothingDeleted
    <2>2. First(call[t].op) = "Delete"
        BY <1>2, FirstOf
    <2> QED BY <1>1, <1>4, <2>1, <2>2, NamedCascade
<1> QED BY <1>5, <1>6

LEMMA DeleteUserMaps ==
    ASSUME Stands, NEW t \in Txs, LockUserRow(t) \/ DeleteUser(t)
    PROVE  Abstract!DeleteUser(t) \/ UNCHANGED Abstract!vars
<1> DEFINE u == call[t].user
<1>1. tx[t].pc \in {"LockUserRow", "DeleteUser"} /\ (DeleteUser(t) => At(t, "DeleteUser"))
    BY DEF LockUserRow, DeleteUser, At
<1>2. call[t].op = "DeleteUser"
    BY <1>1, OperationAt, FirstOf DEF Stands
<1>3. Abstract!Pending(t, "DeleteUser")
    BY <1>1, <1>2, PendingAt
<1>4. CASE UNCHANGED <<store, call>>
    BY <1>4, QuietMaps
<1>5. CASE u \notin db /\ Refuse(t, "ErrNotFound")
    BY <1>3, <1>5, RefuseMaps DEF Abstract!DeleteUser
<1>6. CASE DeleteUser(t) /\ (\E m \in Restricting(t) : Writers(t, m) = {}) /\ Refuse(t, "ErrKey")
    <2>1. u \in db /\ tx[t].gone = Cascade(db, row, OwnedChannels(db, u))
        BY <1>1, <1>2, <1>6, AccountCascade DEF At
    <2>2. WrittenBy(db \ Cascade(db, row, OwnedChannels(db, u)), row, u) # {}
        BY <1>6, <2>1 DEF Restricting
    <2>3. Abstract!Refuse(t, "ErrKey")
        BY <1>6, RefuseMaps
    <2> QED BY <1>3, <2>1, <2>2, <2>3, SameStore DEF Abstract!DeleteUser
<1> QED BY <1>4, <1>5, <1>6 DEF LockUserRow, DeleteUser

\* The store that a commit without an insert leaves.
LEMMA RowsLeft ==
    ASSUME Stands, NEW t \in Txs, Apply(t), tx[t].new = None
    PROVE  /\ db' = db \ tx[t].gone
           /\ row' = [m \in Messages |-> IF m \in tx[t].gone THEN NoRow ELSE row[m]]
<1>1. \A m \in Messages : m # tx[t].new
    BY NoneIsNoId DEF Ids
<1> QED BY <1>1 DEF Apply

LEMMA CommitMaps ==
    ASSUME Stands, NEW t \in Txs, Commit(t) \/ CommitLost(t)
    PROVE  Abstract!Next
<1> DEFINE c == call[t]
           gone == tx[t].gone
<1>1. /\ tx[t].pc = "Commit" /\ tx[t].todo = {} /\ ~NothingDeleted(t) /\ Apply(t)
      /\ Abstract!Succeed(t, db', row', Returned(t))
    BY CommitOf DEF Commit, CommitLost, At
<1>2. /\ Abstract!Pending(t, c.op) /\ c.op \in Operations /\ IInv /\ StandsFor(t)
      /\ c.id \in db => c.id \in Messages
      /\ c.resp = "pending"
    BY <1>1, PendingAt, OperationAt
<1>3. Abstract!Named(t) <=> Named(t)
    BY SameStore
<1>4. CASE First(c.op) = "AuthorKey"
    <2>1. SendInv(t) /\ tx[t].keys \subseteq db /\ tx[t].new \in Messages \ db
        BY <1>1, <1>2, <1>4, OperationAt DEF SendInv, IInv, Local, WriteSetFits
    <2>2. c.op \in {"SendDirectMessage", "SendChannelMessage"}
        BY <1>4, FirstOf
    <2>3. {c.user, c.to, c.chan} \ {None} \subseteq db
        BY <1>1, <2>1 DEF SendInv
    <2>4. c.id # None => Named(t)
        BY <1>1, <2>1, <2>2 DEF SendInv, Named, IsNamed
    <2>5. db' = db \cup {tx[t].new} /\ row' = [row EXCEPT ![tx[t].new] = Abstract!NewRow(c)]
        <3>1. gone = {} /\ tx[t].new # None
            BY <2>1, NoneIsNoId DEF SendInv, Ids
        <3>2. row = [m \in Messages |-> row[m]]
            BY <1>2 DEF IInv, TypeOK
        <3>3. Abstract!NewRow(c) = NewRow(c)
            BY SameRequests
        <3> QED BY <1>1, <3>1, <3>2, <3>3 DEF Apply
    <2>6. Returned(t) = 0
        BY <1>4 DEF Returned
    <2>7. Abstract!Send(t)
        BY <1>1, <1>2, <1>3, <2>1, <2>2, <2>3, <2>4, <2>5, <2>6 DEF Abstract!Send
    <2> QED BY <2>7 DEF Abstract!Next
<1>5. CASE First(c.op) = "Update"
    <2>1. UpdateInv(t) /\ c.id \in tx[t].upd /\ Named(t) /\ Accounts(t)
        BY <1>1, <1>2, <1>5, OperationAt DEF StandsFor, IInv, Local
    <2>2. c.op \in {"UpdateDirectMessage", "UpdateChannelMessage"}
        BY <1>5, FirstOf
    <2>3. db' = db /\ row' = row
        <3>1. gone = {} /\ tx[t].new = None
            BY <2>1 DEF UpdateInv
        <3>2. row = [m \in Messages |-> row[m]]
            BY <1>2 DEF IInv, TypeOK
        <3> QED BY <1>1, <3>1, <3>2, RowsLeft
    <2>4. Returned(t) = Abstract!Cardinality(Abstract!Replies(db, row, c.id))
        <3>1. c.id \in Messages \cap db
            BY <1>2, <2>1 DEF Named, IsNamed
        <3>2. count[c.id] = Cardinality(Replies(db, row, c.id)) /\ count[c.id] \in Int
            BY <1>2, <3>1 DEF IInv, ReplyCountsAreExact, TypeOK
        <3>3. Decremented(t, c.id) = {} /\ Added(t, c.id) = 0
            BY <2>1 DEF UpdateInv, Decremented, Added
        <3>4. tx[t].val[c.id] = count[c.id] - Cardinality({}) + 0
            BY <2>1, <3>3 DEF Accounts
        <3>5. tx[t].val[c.id] = count[c.id]
            BY <3>2, <3>4, FS_EmptySet
        <3> QED BY <1>5, <3>2, <3>5, SameStore DEF Returned
    <2>5. Abstract!ReadOrUpdate(t)
        BY <1>1, <1>2, <1>3, <2>1, <2>2, <2>3, <2>4 DEF Abstract!ReadOrUpdate
    <2> QED BY <2>5 DEF Abstract!Next
<1>6. CASE First(c.op) = "Delete"
    <2> DEFINE r == IF c.op = "DeleteWorkspace" THEN c.chan ELSE c.id
    <2>1. DeleteInv(t) /\ c.op \in {"DeleteDirectMessage", "DeleteChannelMessage", "DeleteWorkspace"}
        BY <1>1, <1>2, <1>6, OperationAt, FirstOf
    <2>2. gone # {}
        BY <1>1, <2>1 DEF NothingDeleted
    <2>3. /\ r \in db /\ gone = Cascade(db, row, {r})
          /\ c.op # "DeleteWorkspace" => Named(t)
        BY <1>1, <1>6, <2>2, NamedCascade
    <2>4. Abstract!Delete(t, {r})
        <3>1. Abstract!Cascade(db, row, {r}) = gone /\ Abstract!NoRow = NoRow
            BY <2>3, SameStore, SameRequests
        <3>2. Returned(t) = 0
            BY <1>6 DEF Returned
        <3>3. tx[t].new = None
            BY <2>1 DEF DeleteInv
        <3> HIDE DEF r
        <3> QED BY <1>1, <3>1, <3>2, <3>3, RowsLeft DEF Abstract!Delete
    <2>5. Abstract!DeleteMessage(t) \/ Abstract!DeleteWorkspace(t)
        BY <1>2, <1>3, <2>1, <2>3, <2>4 DEF Abstract!DeleteMessage, Abstract!DeleteWorkspace
    <2> QED BY <2>5 DEF Abstract!Next
<1>7. CASE First(c.op) = "LockUserRow"
    <2> DEFINE R == OwnedChannels(db, c.user)
    <2>1. DeleteUserInv(t) /\ c.op = "DeleteUser"
        BY <1>1, <1>2, <1>7, OperationAt, FirstOf
    <2>2. c.user \in Users \cap db /\ R \subseteq gone /\ gone = Cascade(db, row, {c.user} \cup R)
        BY <1>1, <2>1, AccountCascade
    <2>3. Abstract!Delete(t, {c.user} \cup R)
        <3>1. Abstract!Cascade(db, row, {c.user} \cup R) = gone /\ Abstract!NoRow = NoRow
            BY <2>2, SameStore, SameRequests
        <3>2. Returned(t) = 0
            BY <1>7 DEF Returned
        <3>3. tx[t].new = None
            BY <2>1 DEF DeleteUserInv
        <3> HIDE DEF R
        <3> QED BY <1>1, <3>1, <3>2, <3>3, RowsLeft DEF Abstract!Delete
    <2>4. WrittenBy(db \ Cascade(db, row, R), row, c.user) = {}
        <3>1. WrittenBy(db, row, c.user) \subseteq gone
            <4>1. c.user \in gone
                BY <2>2 DEF Cascade
            <4> QED BY <1>2, <2>2, <4>1 DEF IInv, Local, CascadeFollows
        <3>2. Referencing(db, row, c.user) = {}
            BY <1>2, <2>2, NoReferences DEF Ids
        <3>3. gone \subseteq ({c.user} \cup R) \cup Cascade(db, row, R)
            <4>1. \A q \in ({c.user} \cup R) \ R : Referencing(db, row, q) = {}
                BY <3>2
            <4> HIDE DEF R
            <4> QED BY <2>2, <4>1, CascadeOfMore
        <3>4. R \subseteq Cascade(db, row, R)
            BY DEF Cascade
        <3>5. c.user \notin Messages
            BY <2>2, IdsAreDisjoint
        <3> QED BY <3>1, <3>3, <3>4, <3>5 DEF WrittenBy
    <2>5. /\ Abstract!OwnedChannels(db, c.user) = R
          /\ Abstract!WrittenBy(db \ Abstract!Cascade(db, row, R), row, c.user) = {}
        BY <2>4, SameStore
    <2>6. Abstract!DeleteUser(t)
        <3> HIDE DEF R
        <3> QED BY <1>2, <2>1, <2>2, <2>3, <2>5 DEF Abstract!DeleteUser
    <2> QED BY <2>6 DEF Abstract!Next
<1>8. First(c.op) # "Read"
    BY <1>1, <1>2 DEF StandsFor
<1> QED BY <1>4, <1>5, <1>6, <1>7, <1>8, FirstOf

\* Messages implements MessageStore: every call of the message service, and every
\* deletion of an account or a workspace, behaves as if it had run alone at one
\* moment, whatever runs beside it, fails or loses its answer; and the reply counts
\* that calls return are those of that moment.
THEOREM Linearizes == Spec => LinearizesToMessageStore
<1>1. Init => Abstract!Init
    BY SameRequests DEF Init, Abstract!Init
<1>2. ASSUME Stands, [Next]_vars
      PROVE  [Abstract!Next]_(Abstract!vars)
    <2>1. CASE UNCHANGED vars
        BY <2>1 DEF vars, store, Abstract!vars
    <2>2. ASSUME NEW t \in Txs, Arrive(t) \/ Return(t) \/ Step(t) \/ Failure(t) \/ CommitLost(t)
          PROVE  Abstract!Next \/ UNCHANGED Abstract!vars
        <3>1. CASE Arrive(t) \/ Return(t)
            BY <3>1, RequestsMap DEF Abstract!Next
        <3>2. CASE CheckKey(t)
            BY <1>2, <3>2, CheckKeyMaps DEF Abstract!Next
        <3>3. CASE Update(t)
            BY <1>2, <3>3, UpdateMaps DEF Abstract!Next
        <3>4. CASE Read(t) \/ ReadPage(t)
            BY <1>2, <3>4, ReadMaps DEF Abstract!Next
        <3>5. CASE Delete(t) \/ DeletedNone(t)
            BY <1>2, <3>5, DeleteMaps DEF Abstract!Next
        <3>6. CASE LockUserRow(t) \/ DeleteUser(t)
            BY <1>2, <3>6, DeleteUserMaps DEF Abstract!Next
        <3>7. CASE Increment(t) \/ DeleteWorkspacesOwnedByUser(t) \/ VisitRow(t)
            BY <3>7, QuietMaps
               DEF Increment, Write, DeleteWorkspacesOwnedByUser, StartDelete, VisitRow
        <3>8. CASE Decrement(t)
            <4>1. CASE UNCHANGED <<store, call>>
                BY <4>1, QuietMaps
            <4>2. ~Refuse(t, "ErrCheck")
                <5>1. CheckNeverFails' /\ call \in [Txs -> CallRecords]
                    BY <1>2, NextInv DEF Stands, IInv, TypeOK
                <5> QED BY <5>1 DEF Refuse, AnswerWith, CheckNeverFails, CallRecords
            <4> QED BY <3>8, <4>1, <4>2 DEF Decrement
        <3>9. CASE Commit(t) \/ CommitLost(t)
            BY <1>2, <3>9, CommitMaps
        <3>10. CASE DeadlockAbort(t) \/ Failure(t)
            BY <3>10, RefuseMaps
               DEF DeadlockAbort, Failure, StatementFails, Abstract!Fail, Abstract!Next
        <3> QED BY <2>2, <3>1, <3>2, <3>3, <3>4, <3>5, <3>6, <3>7, <3>8, <3>9, <3>10 DEF Step
    <2> QED BY <1>2, <2>1, <2>2 DEF Next
<1> QED BY <1>1, <1>2, StandsInvariant, PTL DEF Spec, LinearizesToMessageStore, Abstract!Spec

-----------------------------------------------------------------------------
(* MessageStore on its own keeps the references of all messages. *)

StoreInv ==
    /\ row \in [Messages -> MessageRows]
    /\ call \in [Txs -> CallRecords]
    /\ NoDanglingMessage

LEMMA CascadeGrows ==
    ASSUME NEW S, NEW rows, NEW T, NEW R \in SUBSET T
    PROVE  Cascade(S, rows, R) \subseteq Cascade(S, rows, T)
<1> SUFFICES ASSUME NEW m \in Cascade(S, rows, R), m \notin R
             PROVE  m \in Cascade(S, rows, T)
    BY DEF Cascade
<1>1. ASSUME NEW C \in SUBSET (S \cap Messages),
             \A r \in T \cup C : Referencing(S, rows, r) \subseteq C
      PROVE  m \in C
    BY <1>1 DEF Cascade
<1> QED BY <1>1 DEF Cascade

\* An answer keeps the types.
LEMMA StoreAnswers ==
    ASSUME StoreInv, NEW t \in Txs, NEW resp \in Responses, NEW got \in Int,
           Abstract!AnswerWith(t, resp, got)
    PROVE  call' \in [Txs -> CallRecords]
<1>1. call[t] \in CallRecords /\ call \in [Txs -> CallRecords]
    BY DEF StoreInv
<1>2. [call[t] EXCEPT !.resp = resp, !.got = got] \in CallRecords
    BY <1>1 DEF CallRecords
<1> QED BY <1>1, <1>2 DEF Abstract!AnswerWith

LEMMA StoreRefuses ==
    ASSUME StoreInv, NEW t \in Txs, NEW resp \in Responses, Abstract!Refuse(t, resp)
    PROVE  StoreInv'
<1>1. call' \in [Txs -> CallRecords] /\ db' = db /\ row' = row
    BY StoreAnswers DEF Abstract!Refuse
<1> QED BY <1>1 DEF StoreInv, NoDanglingMessage

LEMMA StoreSucceeds ==
    ASSUME StoreInv, NEW t \in Txs, NEW S, NEW rows, NEW got \in Int,
           Abstract!Succeed(t, S, rows, got)
    PROVE  call' \in [Txs -> CallRecords] /\ db' = S /\ row' = rows
<1>1. {"ok", "ErrInternal"} \subseteq Responses
    BY DEF Responses
<1> QED BY <1>1, StoreAnswers DEF Abstract!Succeed

LEMMA StoreRequests ==
    ASSUME StoreInv, NEW t \in Txs, Abstract!Arrive(t) \/ Abstract!Return(t)
    PROVE  StoreInv'
<1>1. db' = db /\ row' = row /\ call \in [Txs -> CallRecords]
    BY DEF StoreInv, Abstract!Arrive, Abstract!Return
<1>2. PICK c \in CallRecords : call' = [call EXCEPT ![t] = c]
    <2>1. CASE Abstract!Arrive(t)
        <3>1. PICK r \in Requests : call' = [call EXCEPT ![t] = Received(r)]
            BY <2>1, SameRequests DEF Abstract!Arrive
        <3>2. Received(r) \in CallRecords
            BY DEF Received, Requests, CallRecords, Responses
        <3> QED BY <3>1, <3>2
    <2>2. CASE Abstract!Return(t)
        <3>1. NoCall \in CallRecords
            BY DEF NoCall, CallRecords
        <3> QED BY <2>2, <3>1, SameRequests DEF Abstract!Return
    <2> QED BY <2>1, <2>2
<1>3. call' \in [Txs -> CallRecords]
    BY <1>1, <1>2
<1> QED BY <1>1, <1>3 DEF StoreInv, NoDanglingMessage

LEMMA StoreSends ==
    ASSUME StoreInv, NEW t \in Txs, Abstract!Send(t)
    PROVE  StoreInv'
<1> DEFINE c == call[t]
<1>1. c \in CallRecords /\ row \in [Messages -> MessageRows] /\ "ErrKey" \in Responses
    BY DEF StoreInv, Responses
<1>2. CASE Abstract!Refuse(t, "ErrKey")
    BY <1>1, <1>2, StoreRefuses
<1>3. CASE ~Abstract!Refuse(t, "ErrKey")
    <2>1. PICK m \in Messages \ db :
            /\ {c.user, c.to, c.chan} \ {None} \subseteq db
            /\ c.id # None => Named(t)
            /\ c.op \in {"SendDirectMessage", "SendChannelMessage"}
            /\ Abstract!Succeed(t, db \cup {m}, [row EXCEPT ![m] = NewRow(c)], 0)
        BY <1>3, SameStore, SameRequests DEF Abstract!Send, Abstract!Pending
    <2>2. /\ call' \in [Txs -> CallRecords]
          /\ db' = db \cup {m} /\ row' = [row EXCEPT ![m] = NewRow(c)]
        BY <2>1, StoreSucceeds
    <2>3. NewRow(c) \in MessageRows
        BY <1>1 DEF NewRow, MessageRows, CallRecords
    <2>4. row' \in [Messages -> MessageRows]
        BY <1>1, <2>2, <2>3
    <2>5. c.id # None => c.id \in Messages /\ c.id \in db /\ row[c.id].chan # None
        BY <1>1, <2>1 DEF Named, IsNamed, CallRecords
    <2>6. ASSUME NEW n \in Messages \cap db'
          PROVE  /\ {row'[n].author, row'[n].to, row'[n].chan} \ {None} \subseteq db'
                 /\ row'[n].root # None => row'[n].root \in db' /\ row'[row'[n].root].chan # None
        <3>1. CASE n = m
            <4>1. row'[n] = NewRow(c)
                BY <1>1, <2>2, <3>1
            <4> QED BY <1>1, <2>1, <2>2, <2>5, <4>1 DEF NewRow
        <3>2. CASE n # m
            <4>1. n \in db /\ row'[n] = row[n] /\ row[n] \in MessageRows
                BY <1>1, <2>2, <3>2
            <4>2. /\ {row[n].author, row[n].to, row[n].chan} \ {None} \subseteq db
                  /\ row[n].root # None => row[n].root \in db /\ row[row[n].root].chan # None
                BY <4>1 DEF StoreInv, NoDanglingMessage
            <4>3. row[n].root # None => row[n].root \in Messages /\ row'[row[n].root] = row[row[n].root]
                BY <1>1, <2>1, <2>2, <4>1, <4>2 DEF MessageRows
            <4> QED BY <2>2, <4>1, <4>2, <4>3
        <3> QED BY <3>1, <3>2
    <2> QED BY <2>2, <2>4, <2>6 DEF StoreInv, NoDanglingMessage
<1> QED BY <1>2, <1>3

\* Messages go with the cascade that reaches them, and accounts when nothing is left
\* that was written by or to them.
LEMMA StoreDeletes ==
    ASSUME StoreInv, NEW t \in Txs, NEW R, Abstract!Delete(t, R),
           \A u \in R \cap Users : WrittenBy(db \ Cascade(db, row, R), row, u) = {}
    PROVE  StoreInv'
<1> DEFINE gone == Cascade(db, row, R)
           rows == [m \in Messages |-> IF m \in gone THEN NoRow ELSE row[m]]
<1>1. row \in [Messages -> MessageRows]
    BY DEF StoreInv
<1>2. Abstract!Succeed(t, db \ gone, rows, 0)
    BY SameStore, SameRequests DEF Abstract!Delete
<1>3. call' \in [Txs -> CallRecords] /\ db' = db \ gone /\ row' = rows
    BY <1>2, StoreSucceeds
<1>4. NoRow \in MessageRows
    BY DEF NoRow, MessageRows
<1>5. row' \in [Messages -> MessageRows]
    BY <1>1, <1>3, <1>4
<1>6. ASSUME NEW n \in Messages \cap db'
      PROVE  /\ {row'[n].author, row'[n].to, row'[n].chan} \ {None} \subseteq db'
             /\ row'[n].root # None => row'[n].root \in db' /\ row'[row'[n].root].chan # None
    <2>1. n \in db /\ n \notin gone /\ row'[n] = row[n] /\ row[n] \in MessageRows
        BY <1>1, <1>3
    <2>2. /\ {row[n].author, row[n].to, row[n].chan} \ {None} \subseteq db
          /\ row[n].root # None => row[n].root \in db /\ row[row[n].root].chan # None
        BY <2>1 DEF StoreInv, NoDanglingMessage
    <2>3. row[n].chan \notin gone /\ row[n].root \notin gone
        <3>1. ASSUME NEW r \in gone PROVE n \notin Referencing(db, row, r)
            BY <2>1, CascadeClosed
        <3> QED BY <2>1, <3>1 DEF Referencing
    <2>4. ASSUME NEW u \in {row[n].author, row[n].to} \ {None} PROVE u \notin gone
        <3>1. u \in Users /\ u \notin Messages
            BY <2>1, IdsAreDisjoint DEF MessageRows
        <3>2. u \in gone => u \in R
            BY <3>1 DEF Cascade
        <3> QED BY <2>1, <3>1, <3>2 DEF WrittenBy
    <2>5. row[n].root # None => row'[row[n].root] = row[row[n].root]
        BY <1>3, <2>1, <2>3 DEF MessageRows
    <2> HIDE DEF gone
    <2> QED BY <1>3, <2>1, <2>2, <2>3, <2>4, <2>5
<1> QED BY <1>3, <1>5, <1>6 DEF StoreInv, NoDanglingMessage

\* Nothing is read into the store.
LEMMA StoreReads ==
    ASSUME StoreInv, NEW t \in Txs,
           \/ Abstract!ReadOrUpdate(t) \/ Abstract!ReadChannelThreadReplies(t)
           \/ Abstract!ReadPage(t)
    PROVE  StoreInv'
<1>1. "ErrNotFound" \in Responses
    BY DEF Responses
<1>2. ASSUME NEW r PROVE Cardinality(Replies(db, row, r)) \in Int
    <2>1. IsFiniteSet(Replies(db, row, r))
        BY MessagesAreFinite, FS_Subset DEF Replies
    <2> QED BY <2>1, FS_CardinalityType
<1>3. Abstract!Refuse(t, "ErrNotFound") \/ \E got \in Int : Abstract!Succeed(t, db, row, got)
    BY <1>2, SameStore
       DEF Abstract!ReadOrUpdate, Abstract!ReadChannelThreadReplies, Abstract!ReadPage
<1>4. CASE \E got \in Int : Abstract!Succeed(t, db, row, got)
    <2>1. call' \in [Txs -> CallRecords] /\ db' = db /\ row' = row
        BY <1>4, StoreSucceeds
    <2> QED BY <2>1 DEF StoreInv, NoDanglingMessage
<1> QED BY <1>1, <1>3, <1>4, StoreRefuses

LEMMA StoreDeletions ==
    ASSUME StoreInv, NEW t \in Txs,
           \/ Abstract!DeleteMessage(t) \/ Abstract!DeleteWorkspace(t) \/ Abstract!DeleteUser(t)
    PROVE  StoreInv'
<1> DEFINE c == call[t]
<1>1. {"ErrNotFound", "ErrKey"} \subseteq Responses /\ c \in CallRecords
    BY DEF StoreInv, Responses
<1>2. \A resp \in Responses : Abstract!Refuse(t, resp) => StoreInv'
    BY StoreRefuses
<1>3. CASE Abstract!DeleteMessage(t) \/ Abstract!DeleteWorkspace(t)
    <2>1. (\E resp \in Responses : Abstract!Refuse(t, resp))
          \/ \E r \in {c.id, c.chan} : Abstract!Delete(t, {r})
        BY <1>1, <1>3 DEF Abstract!DeleteMessage, Abstract!DeleteWorkspace
    <2>2. c.id \notin Users /\ c.chan \notin Users
        BY <1>1, IdsAreDisjoint, NoneIsNoId DEF CallRecords, Ids
    <2> QED BY <1>2, <2>1, <2>2, StoreDeletes
<1>4. CASE Abstract!DeleteUser(t)
    <2> DEFINE owned == OwnedChannels(db, c.user)
               R == {c.user} \cup owned
    <2>1. \/ \E resp \in Responses : Abstract!Refuse(t, resp)
          \/ /\ WrittenBy(db \ Cascade(db, row, owned), row, c.user) = {}
             /\ Abstract!Delete(t, R)
        BY <1>1, <1>4, SameStore DEF Abstract!DeleteUser
    <2>2. ASSUME WrittenBy(db \ Cascade(db, row, owned), row, c.user) = {}, NEW u \in R \cap Users
          PROVE  WrittenBy(db \ Cascade(db, row, R), row, u) = {}
        <3>1. u = c.user
            BY <2>2, IdsAreDisjoint DEF OwnedChannels
        <3>2. Cascade(db, row, owned) \subseteq Cascade(db, row, R)
            BY CascadeGrows
        <3> QED BY <2>2, <3>1, <3>2 DEF WrittenBy
    <2> HIDE DEF R
    <2> QED BY <1>2, <2>1, <2>2, StoreDeletes
<1> QED BY <1>3, <1>4

\* The contract itself leaves no message without its author, recipient, channel or
\* thread root: calls that behave as if each ran alone cannot.
THEOREM ContractKeepsReferences == Abstract!Spec => []NoDanglingMessage
<1>1. Abstract!Init => StoreInv
    <2> SUFFICES ASSUME Abstract!Init PROVE StoreInv
        OBVIOUS
    <2>1. /\ db = Users \cup Channels /\ row = [m \in Messages |-> NoRow]
          /\ call = [t \in Txs |-> NoCall]
        BY SameRequests DEF Abstract!Init
    <2>2. NoRow \in MessageRows /\ NoCall \in CallRecords
        BY DEF NoRow, MessageRows, NoCall, CallRecords
    <2>3. Messages \cap db = {}
        BY <2>1, IdsAreDisjoint
    <2> QED BY <2>1, <2>2, <2>3 DEF StoreInv, NoDanglingMessage
<1>2. StoreInv /\ [Abstract!Next]_(Abstract!vars) => StoreInv'
    <2> SUFFICES ASSUME StoreInv, [Abstract!Next]_(Abstract!vars) PROVE StoreInv'
        OBVIOUS
    <2>1. CASE UNCHANGED Abstract!vars
        BY <2>1 DEF Abstract!vars, StoreInv, NoDanglingMessage
    <2>2. ASSUME NEW t \in Txs, Abstract!Fail(t) PROVE StoreInv'
        <3>1. PICK resp \in Responses : Abstract!Refuse(t, resp)
            BY <2>2 DEF Abstract!Fail, Responses
        <3> QED BY <3>1, StoreRefuses
    <2> QED BY <2>1, <2>2, StoreRequests, StoreSends, StoreReads, StoreDeletions
            DEF Abstract!Next
<1>3. StoreInv => NoDanglingMessage
    BY DEF StoreInv
<1> QED BY <1>1, <1>2, <1>3, PTL DEF Abstract!Spec
=============================================================================
