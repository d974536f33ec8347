--------------------------- MODULE Messages_proofs ---------------------------
(***************************************************************************)
(* Proofs about Messages: the inductive invariant IInv of MessagesSafety,  *)
(* and from it the properties of every finite store.                       *)
(***************************************************************************)
EXTENDS MessagesSafety, FiniteSetTheorems, TLAPS

\* What a step of transaction t has to restore when it leaves the store alone.
ApartFrom(t) ==
    \A s \in Txs :
        /\ s # t => LockedApart(s, t) /\ LockedApart(t, s)
        /\ NewIdApart(s, t) /\ NewIdApart(t, s)

\* A step of t that leaves the store alone disturbs only what concerns t.
LEMMA QuietStep ==
    ASSUME IInv, NEW t \in Txs, UNCHANGED store, TypeOK', CheckNeverFails',
           \A s \in Txs \ {t} : tx'[s] = tx[s] /\ call'[s] = call[s],
           Local(t)', ApartFrom(t)'
    PROVE  IInv'
<1>1. ReplyCountsAreExact' /\ NoDanglingMessage'
    BY DEF IInv, store, ReplyCountsAreExact, NoDanglingMessage
<1>2. ASSUME NEW s \in Txs, s # t PROVE Local(s)'
    <2>1. tx'[s] = tx[s] /\ call'[s] = call[s]
        BY <1>2
    <2>2. Local(s)
        BY <1>2 DEF IInv
    <2>3. WriteSetFits(s)' /\ CascadeFollows(s)' /\ Accounts(s)'
        BY <2>1, <2>2 DEF Local, store, WriteSetFits, CascadeFollows, Accounts, Exclusive,
                          Decremented, Added
    <2>4. TxInv(s)'
        <3>1. /\ SendInv(s) => SendInv(s)'
              /\ UpdateInv(s) => UpdateInv(s)'
              /\ DeleteInv(s) => DeleteInv(s)'
              /\ DeleteUserInv(s) => DeleteUserInv(s)'
            BY <2>1 DEF store, SendInv, UpdateInv, DeleteInv, DeleteUserInv
        <3> QED BY <2>1, <2>2, <3>1 DEF Local, TxInv, Idle
    <2> QED BY <2>3, <2>4 DEF Local
<1>3. ASSUME NEW r \in Txs, NEW s \in Txs
      PROVE  ((r # s => LockedApart(r, s)) /\ NewIdApart(r, s))'
    <2>1. CASE r = t \/ s = t
        BY <1>3, <2>1 DEF ApartFrom
    <2>2. CASE r # t /\ s # t
        <3>1. tx'[r] = tx[r] /\ tx'[s] = tx[s]
            BY <2>2, <1>3
        <3>2. (r # s => LockedApart(r, s)) /\ NewIdApart(r, s)
            BY <1>3 DEF IInv
        <3> QED BY <3>1, <3>2 DEF LockedApart, NewIdApart, Exclusive
    <2> QED BY <2>1, <2>2
<1> QED BY <1>1, <1>2, <1>3 DEF IInv

\* A method returns without having changed the store.
LEMMA RefuseStep ==
    ASSUME IInv, NEW t \in Txs, NEW resp \in Responses \ {"ErrCheck"}, NEW got \in Int,
           AnswerWith(t, resp, got), UNCHANGED store
    PROVE  IInv'
<1>1. /\ call' = [call EXCEPT ![t].resp = resp, ![t].got = got]
      /\ tx' = [tx EXCEPT ![t] = NoTx]
      /\ call \in [Txs -> CallRecords] /\ tx \in [Txs -> TxRecords]
    BY DEF AnswerWith, IInv, TypeOK
<1>2. NoTx \in TxRecords
    BY DEF NoTx, TxRecords, Statements
<1>3. call' \in [Txs -> CallRecords] /\ tx' \in [Txs -> TxRecords]
    <2>1. [call[t] EXCEPT !.resp = resp, !.got = got] \in CallRecords
        BY <1>1 DEF CallRecords
    <2>2. call' = [call EXCEPT ![t] = [call[t] EXCEPT !.resp = resp, !.got = got]]
        BY <1>1
    <2> QED BY <1>1, <1>2, <2>1, <2>2
<1>4. TypeOK' /\ CheckNeverFails'
    BY <1>1, <1>3 DEF IInv, TypeOK, CheckNeverFails, store, CallRecords
<1>5. tx'[t] = NoTx /\ call'[t].resp = resp
    BY <1>1 DEF CallRecords
<1>6. \A s \in Txs \ {t} : tx'[s] = tx[s] /\ call'[s] = call[s]
    BY <1>1
<1>7. None \notin db
    BY NoneIsNoId DEF IInv, TypeOK
<1>8. Local(t)'
    <2>1. resp # "pending"
        BY DEF Responses
    <2>2. TxInv(t)'
        BY <1>5, <2>1 DEF TxInv, Idle
    <2>3. WriteSetFits(t)' /\ CascadeFollows(t)' /\ Accounts(t)'
        BY <1>5, <1>7 DEF WriteSetFits, CascadeFollows, Accounts, Exclusive, NoTx, store
    <2> QED BY <2>2, <2>3 DEF Local
<1>9. ApartFrom(t)'
    <2> SUFFICES ASSUME NEW s \in Txs
                 PROVE  (/\ s # t => LockedApart(s, t) /\ LockedApart(t, s)
                         /\ NewIdApart(s, t) /\ NewIdApart(t, s))'
        BY DEF ApartFrom
    <2>1. CASE s = t
        BY <2>1, <1>5 DEF NewIdApart, NoTx
    <2>2. CASE s # t
        <3>1. tx'[s] = tx[s] /\ WriteSetFits(s) /\ tx[s] \in TxRecords
            BY <2>2, <1>1 DEF IInv, Local
        <3>2. LockedApart(s, t)' /\ LockedApart(t, s)'
            BY <3>1, <1>5 DEF LockedApart, Exclusive, NoTx
        <3>3. NewIdApart(s, t)'
            BY <3>1, <1>5 DEF NewIdApart, NoTx
        <3>4. NewIdApart(t, s)'
            <4>1. tx[s].todo \subseteq Ids
                BY <3>1 DEF TxRecords
            <4> QED BY <3>1, <4>1, <1>5, NoneIsNoId DEF NewIdApart, NoTx
        <3> QED BY <3>2, <3>3, <3>4
    <2> QED BY <2>1, <2>2
<1> QED BY <1>4, <1>6, <1>8, <1>9, QuietStep

-----------------------------------------------------------------------------
(* Steps inside a transaction. *)

\* No other transaction keeps t from turning its record into x.
MayHold(t, x) ==
    \A s \in Txs \ {t} :
        /\ (x.keys \ tx[t].keys) \cap Exclusive(s) = {}
        /\ (x.upd \ tx[t].upd) \cap (Exclusive(s) \cup tx[s].upd) = {}
        /\ ((x.held \cup x.gone) \ Exclusive(t))
              \cap (Exclusive(s) \cup tx[s].upd \cup tx[s].keys) = {}

\* t may lock a row FOR KEY SHARE, update it, or lock it FOR UPDATE or delete it,
\* when no other transaction holds a conflicting lock.
LEMMA LocksGrow ==
    ASSUME IInv, NEW t \in Txs, NEW x \in TxRecords, tx' = [tx EXCEPT ![t] = x],
           x.new = tx[t].new, x.todo \subseteq tx[t].todo \cup db,
           MayHold(t, x)
    PROVE  ApartFrom(t)'
<1> SUFFICES ASSUME NEW s \in Txs
             PROVE  (/\ s # t => LockedApart(s, t) /\ LockedApart(t, s)
                     /\ NewIdApart(s, t) /\ NewIdApart(t, s))'
    BY DEF ApartFrom
<1>1. tx \in [Txs -> TxRecords]
    BY DEF IInv, TypeOK
<1>2. tx'[t] = x /\ (s # t => tx'[s] = tx[s])
    BY <1>1
<1>3. ASSUME s # t PROVE (LockedApart(s, t) /\ LockedApart(t, s))'
    <2>1. LockedApart(s, t) /\ LockedApart(t, s)
        BY <1>3 DEF IInv
    <2>2. /\ (x.keys \ tx[t].keys) \cap Exclusive(s) = {}
          /\ (x.upd \ tx[t].upd) \cap (Exclusive(s) \cup tx[s].upd) = {}
          /\ ((x.held \cup x.gone) \ Exclusive(t))
                \cap (Exclusive(s) \cup tx[s].upd \cup tx[s].keys) = {}
        BY <1>3 DEF MayHold
    <2> QED BY <1>2, <1>3, <2>1, <2>2 DEF LockedApart, Exclusive
<1>4. (NewIdApart(s, t) /\ NewIdApart(t, s))'
    <2>1. NewIdApart(s, t) /\ NewIdApart(t, s) /\ tx[s].new \notin db
        BY DEF IInv, Local, WriteSetFits
    <2> QED BY <1>2, <2>1 DEF NewIdApart
<1> QED BY <1>3, <1>4

\* A step of t that changes nothing but its transaction.
LEMMA TxStep ==
    ASSUME IInv, NEW t \in Txs, NEW x \in TxRecords, tx' = [tx EXCEPT ![t] = x],
           UNCHANGED <<store, call>>, Local(t)', ApartFrom(t)'
    PROVE  IInv'
<1>1. TypeOK /\ CheckNeverFails
    BY DEF IInv
<1>2. TypeOK' /\ CheckNeverFails'
    BY <1>1 DEF TypeOK, CheckNeverFails, store
<1>3. \A s \in Txs \ {t} : tx'[s] = tx[s] /\ call'[s] = call[s]
    BY <1>1
<1> QED BY <1>2, <1>3, QuietStep DEF store

\* What IInv says of t while its statements run.
LEMMA RunningInv ==
    ASSUME IInv, NEW t \in Txs, tx[t].pc # "none"
    PROVE  /\ call[t].resp = "pending"
           /\ call[t] \in CallRecords /\ tx[t] \in TxRecords /\ tx \in [Txs -> TxRecords]
           /\ WriteSetFits(t) /\ CascadeFollows(t) /\ Accounts(t)
           /\ tx[t].pc \in {"AuthorKey", "TargetKey", "RootKey", "Increment"} => SendInv(t)
           /\ tx[t].pc \in {"Update", "Read"} => UpdateInv(t)
           /\ tx[t].pc = "Delete" => DeleteInv(t)
           /\ tx[t].pc \in {"LockUserRow", "DeleteWorkspacesOwnedByUser", "DeleteUser"} =>
                 DeleteUserInv(t)
           /\ SendInv(t) \/ UpdateInv(t) \/ DeleteInv(t) \/ DeleteUserInv(t)
           /\ SendInv(t) => First(call[t].op) = "AuthorKey"
           /\ TxInv(t)
<1>1. call[t] \in CallRecords /\ tx[t] \in TxRecords /\ tx \in [Txs -> TxRecords]
    BY DEF IInv, TypeOK
<1>2. WriteSetFits(t) /\ CascadeFollows(t) /\ Accounts(t) /\ TxInv(t)
    BY DEF IInv, Local
<1>3. call[t].resp = "pending" /\ (SendInv(t) \/ UpdateInv(t) \/ DeleteInv(t) \/ DeleteUserInv(t))
    BY <1>2 DEF TxInv, Idle, NoTx
<1>4. SendInv(t) => First(call[t].op) = "AuthorKey"
    BY <1>2, <1>3, NoneIsNoId DEF TxInv, SendInv, UpdateInv, DeleteInv, DeleteUserInv, Ids
<1>5. /\ tx[t].pc \in {"AuthorKey", "TargetKey", "RootKey", "Increment"} => SendInv(t)
      /\ tx[t].pc \in {"Update", "Read"} => UpdateInv(t)
      /\ tx[t].pc = "Delete" => DeleteInv(t)
      /\ tx[t].pc \in {"LockUserRow", "DeleteWorkspacesOwnedByUser", "DeleteUser"} =>
            DeleteUserInv(t)
    BY <1>3 DEF SendInv, UpdateInv, DeleteInv, DeleteUserInv
<1> QED BY <1>1, <1>2, <1>3, <1>4, <1>5

-----------------------------------------------------------------------------
(* The actions. *)

LEMMA ArriveInv == ASSUME IInv, NEW t \in Txs, Arrive(t) PROVE IInv'
<1>1. PICK r \in Requests :
          /\ call' = [call EXCEPT ![t] = Received(r)]
          /\ \/ Received(r).resp # "pending" /\ UNCHANGED tx
             \/ /\ Received(r).resp = "pending"
                /\ First(r.op) # "AuthorKey"
                /\ tx' = [tx EXCEPT ![t].pc = First(r.op)]
             \/ /\ Received(r).resp = "pending"
                /\ First(r.op) = "AuthorKey"
                /\ \E m \in Messages : Fresh(m) /\ m # r.id
                                       /\ tx' = [tx EXCEPT ![t].pc = "AuthorKey", ![t].new = m]
    BY DEF Arrive
<1>2. UNCHANGED store /\ call[t].resp = "none"
    BY DEF Arrive, NoCall
<1>3. tx \in [Txs -> TxRecords] /\ call \in [Txs -> CallRecords] /\ TypeOK /\ CheckNeverFails
    BY DEF IInv, TypeOK
<1>4. tx[t] = NoTx
    BY <1>2 DEF IInv, Local, TxInv, Idle
<1>5. /\ Received(r) \in CallRecords /\ Received(r).resp # "ErrCheck"
      /\ Received(r).op = r.op /\ Received(r).id = r.id /\ Received(r).user = r.user
      /\ Received(r).to = r.to /\ Received(r).chan = r.chan
    BY DEF Received, CallRecords, Responses, Requests
<1>6. call'[t] = Received(r) /\ \A s \in Txs \ {t} : call'[s] = call[s]
    BY <1>1, <1>3
<1>7. CheckNeverFails'
    BY <1>3, <1>5, <1>6 DEF CheckNeverFails
<1>8. call' \in [Txs -> CallRecords]
    BY <1>1, <1>3, <1>5
<1>9. CASE UNCHANGED tx /\ Received(r).resp # "pending"
    <2>1. TypeOK'
        BY <1>2, <1>3, <1>8, <1>9 DEF TypeOK, store
    <2>2. Local(t)
        BY DEF IInv
    <2>3. TxInv(t)'
        BY <1>4, <1>6, <1>9 DEF TxInv, Idle
    <2>4. WriteSetFits(t)' /\ CascadeFollows(t)' /\ Accounts(t)'
        BY <1>2, <1>4, <1>9, <2>2 DEF Local, store, WriteSetFits, CascadeFollows, Accounts,
              Exclusive, Decremented, Added, NoTx
    <2>5. ApartFrom(t)'
        BY <1>9 DEF IInv, ApartFrom, LockedApart, NewIdApart, Exclusive
    <2> QED BY <1>2, <1>6, <1>7, <1>9, <2>1, <2>3, <2>4, <2>5, QuietStep DEF Local
<1>10. CASE \E x \in TxRecords :
               /\ tx' = [tx EXCEPT ![t] = x]
               /\ Received(r).resp = "pending"
               /\ x.keys = {} /\ x.held = {} /\ x.upd = {} /\ x.gone = {} /\ x.todo = {} /\ x.dec = {}
               /\ x.pc = First(r.op)
               /\ \/ First(r.op) # "AuthorKey" /\ x.new = None
                  \/ First(r.op) = "AuthorKey" /\ x.new \in Messages /\ Fresh(x.new)
    <2>1. PICK x \in TxRecords :
               /\ tx' = [tx EXCEPT ![t] = x]
               /\ Received(r).resp = "pending"
               /\ x.keys = {} /\ x.held = {} /\ x.upd = {} /\ x.gone = {} /\ x.todo = {} /\ x.dec = {}
               /\ x.pc = First(r.op)
               /\ \/ First(r.op) # "AuthorKey" /\ x.new = None
                  \/ First(r.op) = "AuthorKey" /\ x.new \in Messages /\ Fresh(x.new)
        BY <1>10
    <2>2. tx'[t] = x /\ \A s \in Txs \ {t} : tx'[s] = tx[s]
        BY <1>3, <2>1
    <2>3. TypeOK'
        BY <1>2, <1>3, <1>8, <2>1 DEF TypeOK, store
    <2>4. x.new \notin db
        BY <1>3, <2>1, NoneIsNoId DEF Fresh, TypeOK
    <2>5. WriteSetFits(t)' /\ CascadeFollows(t)' /\ Accounts(t)'
        BY <1>2, <2>1, <2>2, <2>4 DEF store, WriteSetFits, CascadeFollows, Accounts, Exclusive
    <2>6. TxInv(t)'
        <3>1. CASE First(r.op) = "AuthorKey"
            <4>1. r.op \in {"SendDirectMessage", "SendChannelMessage"}
                BY <3>1 DEF First
            <4>2. /\ r.user \in Users /\ (IF r.to = None THEN r.chan ELSE r.to) \in Ids
                  /\ r.to # None => r.chan = None /\ r.id = None
                BY <4>1, NoneIsNoId DEF Requests, OnMessage, Ids
            <4> QED BY <1>5, <1>6, <2>1, <2>2, <3>1, <4>2 DEF TxInv, SendInv
        <3>2. CASE First(r.op) \in {"Update", "Read"}
            <4>1. r.op \in Operations
                BY OpsAreOperations DEF Requests, OnMessage
            <4>2. r.op \in OnMessage \cup Pages
                BY <3>2, <4>1 DEF First, Operations
            <4>3. First(r.op) = "Update" => r.id \in Messages
                BY <4>2 DEF Requests, OnMessage, Pages, First
            <4> QED BY <1>5, <1>6, <2>1, <2>2, <3>2, <4>3 DEF TxInv, UpdateInv
        <3>3. CASE First(r.op) = "Delete"
            BY <1>5, <1>6, <2>1, <2>2, <3>3 DEF TxInv, DeleteInv
        <3>4. CASE First(r.op) = "LockUserRow"
            <4>1. r.op = "DeleteUser"
                BY <3>4 DEF First
            <4>2. r.user \in Users
                BY <4>1 DEF Requests, OnMessage
            <4> QED BY <1>5, <1>6, <2>1, <2>2, <3>4, <4>2 DEF TxInv, DeleteUserInv
        <3>5. First(r.op) \in {"AuthorKey", "Update", "Delete", "LockUserRow", "Read"}
            BY DEF First
        <3> QED BY <3>1, <3>2, <3>3, <3>4, <3>5
    <2>7. ApartFrom(t)'
        <3> SUFFICES ASSUME NEW s \in Txs
                     PROVE  (/\ s # t => LockedApart(s, t) /\ LockedApart(t, s)
                             /\ NewIdApart(s, t) /\ NewIdApart(t, s))'
            BY DEF ApartFrom
        <3>1. (s # t => LockedApart(s, t) /\ LockedApart(t, s))'
            BY <2>1, <2>2 DEF LockedApart, Exclusive
        <3>2. NewIdApart(s, t)' /\ (s = t => NewIdApart(t, s)')
            BY <2>1, <2>2, NoneIsNoId DEF NewIdApart, Fresh, Ids
        <3>3. s # t => NewIdApart(t, s)'
            <4>1. tx[s].todo \subseteq Ids
                BY <1>3 DEF TxRecords
            <4> QED BY <2>1, <2>2, <4>1, NoneIsNoId DEF NewIdApart, Fresh
        <3> QED BY <3>1, <3>2, <3>3
    <2> QED BY <1>2, <1>6, <1>7, <2>2, <2>3, <2>5, <2>6, <2>7, QuietStep DEF Local
<1>11. ASSUME Received(r).resp = "pending", First(r.op) # "AuthorKey",
              tx' = [tx EXCEPT ![t].pc = First(r.op)]
       PROVE  IInv'
    <2> DEFINE x == [tx[t] EXCEPT !.pc = First(r.op)]
    <2>0. tx[t] \in TxRecords
        BY <1>3
    <2>1. x \in TxRecords
        <3>1. First(r.op) \in Statements
            BY DEF Statements, First
        <3> QED BY <2>0, <3>1 DEF TxRecords
    <2>2. tx' = [tx EXCEPT ![t] = x]
        BY <1>3, <1>11
    <2>3. /\ x.keys = {} /\ x.held = {} /\ x.upd = {} /\ x.gone = {} /\ x.todo = {} /\ x.dec = {}
          /\ x.pc = First(r.op) /\ x.new = None
        BY <1>4, <2>0 DEF NoTx, TxRecords
    <2> QED BY <1>10, <1>11, <2>1, <2>2, <2>3
<1>12. ASSUME Received(r).resp = "pending", First(r.op) = "AuthorKey",
              NEW m \in Messages, Fresh(m),
              tx' = [tx EXCEPT ![t].pc = "AuthorKey", ![t].new = m]
       PROVE  IInv'
    <2> DEFINE x == [tx[t] EXCEPT !.pc = "AuthorKey", !.new = m]
    <2>0. tx[t] \in TxRecords
        BY <1>3
    <2>1. x \in TxRecords
        BY <2>0 DEF TxRecords, Statements
    <2>2. tx' = [tx EXCEPT ![t] = x]
        BY <1>3, <1>12
    <2>3. /\ x.keys = {} /\ x.held = {} /\ x.upd = {} /\ x.gone = {} /\ x.todo = {} /\ x.dec = {}
          /\ x.pc = "AuthorKey" /\ x.new = m
        BY <1>4, <2>0 DEF NoTx, TxRecords
    <2> QED BY <1>10, <1>12, <2>1, <2>2, <2>3
<1> QED BY <1>1, <1>9, <1>11, <1>12

LEMMA ReturnInv == ASSUME IInv, NEW t \in Txs, Return(t) PROVE IInv'
<1>1. /\ call' = [call EXCEPT ![t] = NoCall] /\ UNCHANGED <<store, tx>>
      /\ call[t].resp \in Responses
      /\ call \in [Txs -> CallRecords] /\ TypeOK /\ CheckNeverFails /\ Local(t)
    BY DEF Return, IInv, TypeOK
<1>2. NoCall \in CallRecords /\ NoCall.resp = "none"
    BY DEF NoCall, CallRecords
<1>3. call'[t] = NoCall /\ \A s \in Txs \ {t} : call'[s] = call[s]
    BY <1>1
<1>4. TypeOK' /\ CheckNeverFails'
    BY <1>1, <1>2, <1>3 DEF TypeOK, CheckNeverFails, store
<1>5. tx[t] = NoTx
    BY <1>1 DEF Local, TxInv, Idle, Responses
<1>6. Local(t)'
    BY <1>1, <1>2, <1>3, <1>5 DEF Local, TxInv, Idle, WriteSetFits, CascadeFollows, Accounts,
          Exclusive, NoTx, store
<1>7. ApartFrom(t)'
    BY <1>1 DEF IInv, ApartFrom, LockedApart, NewIdApart, Exclusive
<1> QED BY <1>1, <1>3, <1>4, <1>6, <1>7, QuietStep

\* Row r may be locked FOR KEY SHARE when nobody writes it.
LEMMA CheckKeyInv == ASSUME IInv, NEW t \in Txs, CheckKey(t) PROVE IInv'
<1>1. tx[t].pc \in {"AuthorKey", "TargetKey", "RootKey"} /\ Blockers(t) = {}
    BY DEF CheckKey
<1>2. CASE ~KeyExists(t) /\ Refuse(t, "ErrKey")
    BY <1>2, RefuseStep DEF Refuse, Responses
<1>3. CASE /\ KeyExists(t)
           /\ tx' = [tx EXCEPT ![t].pc = AfterKey(t), ![t].keys = @ \cup {Key(t)}]
           /\ UNCHANGED <<store, call>>
    <2> DEFINE x == [tx[t] EXCEPT !.pc = AfterKey(t), !.keys = @ \cup {Key(t)}]
    <2>1. /\ call[t].resp = "pending" /\ SendInv(t) /\ First(call[t].op) = "AuthorKey"
          /\ call[t] \in CallRecords /\ tx[t] \in TxRecords /\ tx \in [Txs -> TxRecords]
          /\ WriteSetFits(t) /\ CascadeFollows(t) /\ Accounts(t)
        BY <1>1, RunningInv
    <2>2. Key(t) \in db /\ Key(t) \in Ids
        BY <1>3 DEF KeyExists, IInv, TypeOK
    <2>3. x \in TxRecords
        <3>1. AfterKey(t) \in Statements
            BY <1>1 DEF AfterKey, Statements
        <3> QED BY <2>1, <2>2, <3>1 DEF TxRecords
    <2>4. tx' = [tx EXCEPT ![t] = x] /\ tx'[t] = x
        BY <1>3, <2>1
    <2>5. \A s \in Txs \ {t} : Key(t) \notin Exclusive(s)
        <3>1. tx[t].todo = {} /\ ToDecrement(t) = {}
            BY <2>1 DEF SendInv, ToDecrement
        <3>2. Writers(t, Key(t)) = {}
            BY <1>1, <1>3, <3>1 DEF Blockers
        <3> QED BY <3>2 DEF Writers
    <2>6. ApartFrom(t)'
        <3>1. /\ x.new = tx[t].new /\ x.todo = tx[t].todo /\ x.keys = tx[t].keys \cup {Key(t)}
              /\ x.upd = tx[t].upd /\ x.held = tx[t].held /\ x.gone = tx[t].gone
            BY <2>1 DEF TxRecords
        <3>2. MayHold(t, x)
            BY <2>5, <3>1 DEF MayHold, Exclusive
        <3> QED BY <2>3, <2>4, <3>1, <3>2, LocksGrow
    <2>7. WriteSetFits(t)' /\ CascadeFollows(t)' /\ Accounts(t)'
        <3>1. WriteSetFits(t)' /\ CascadeFollows(t)'
            BY <1>3, <2>1, <2>2, <2>4 DEF WriteSetFits, CascadeFollows, Exclusive, store
        <3>2. x.dec = {} /\ x.upd = {}
            BY <1>1, <2>1 DEF SendInv
        <3> QED BY <2>4, <3>1, <3>2 DEF Accounts
    <2>8. SendInv(t)'
        <3>1. CASE tx[t].pc = "AuthorKey"
            BY <1>3, <2>1, <2>4, <3>1 DEF SendInv, store, AfterKey, Key
        <3>2. CASE tx[t].pc = "TargetKey"
            BY <1>3, <2>1, <2>4, <3>2 DEF SendInv, store, AfterKey, Key, CallRecords
        <3>3. CASE tx[t].pc = "RootKey"
            <4>1. row[call[t].id].chan # None
                <5>1. First("ReadSingleDirectMessage") = "Read" /\ First("UpdateDirectMessage") = "Update"
                      /\ First("DeleteDirectMessage") = "Delete"
                    BY DEF First
                <5> QED BY <1>3, <2>1, <3>3, <5>1 DEF KeyExists, Named, IsNamed
            <4> QED BY <1>3, <2>1, <2>4, <3>3, <4>1 DEF SendInv, store, AfterKey, Key
        <3> QED BY <1>1, <3>1, <3>2, <3>3
    <2>9. TxInv(t)'
        BY <1>3, <2>1, <2>8 DEF TxInv
    <2> QED BY <1>3, <2>3, <2>4, <2>6, <2>7, <2>9, TxStep DEF Local
<1> QED BY <1>2, <1>3 DEF CheckKey

\* A Send or an Update writes the count of row m, which nobody else is writing.
LEMMA WriteInv ==
    ASSUME IInv, NEW t \in Txs, NEW m \in Messages \cap db, NEW n \in Int,
           call[t].resp = "pending", tx[t] \in TxRecords, tx \in [Txs -> TxRecords],
           WriteSetFits(t), CascadeFollows(t), Accounts(t),
           tx[t].todo = {}, tx[t].dec = {}, tx[t].gone = {}, tx[t].upd = {},
           n = count[m] + Added(t, m),
           Updaters(t, m) = {}, Write(t, m, n, "Commit"), TxInv(t)'
    PROVE  IInv'
<1> DEFINE x == [tx[t] EXCEPT !.pc = "Commit", !.upd = @ \cup {m},
                              !.val = [tx[t].val EXCEPT ![m] = n]]
<1>1. x \in TxRecords
    BY DEF TxRecords, Statements
<1>2. tx' = [tx EXCEPT ![t] = x] /\ tx'[t] = x /\ UNCHANGED <<store, call>>
    BY DEF Write
<1>3. \A s \in Txs \ {t} : {m} \cap (Exclusive(s) \cup tx[s].upd) = {}
    BY DEF Updaters
<1>4. ApartFrom(t)'
    <2>1. /\ x.new = tx[t].new /\ x.todo = tx[t].todo /\ x.keys = tx[t].keys
          /\ x.upd = {m} /\ x.held = tx[t].held /\ x.gone = tx[t].gone
        BY DEF TxRecords
    <2>2. MayHold(t, x)
        BY <1>3, <2>1 DEF MayHold, Exclusive
    <2> QED BY <1>1, <1>2, <2>1, <2>2, LocksGrow
<1>5. WriteSetFits(t)' /\ CascadeFollows(t)'
    BY <1>2 DEF WriteSetFits, CascadeFollows, Exclusive, store
<1>6. Accounts(t)'
    <2>1. x.upd = {m} /\ x.val[m] = n /\ x.dec = {} /\ x.new = tx[t].new
        BY DEF TxRecords
    <2>2. Cardinality({}) = 0
        BY FS_EmptySet
    <2>3. Decremented(t, m)' = {}
        BY <1>2, <2>1 DEF Decremented
    <2>4. count[m] \in Int /\ Added(t, m)' = Added(t, m) /\ Added(t, m) \in Int
        BY <1>2, <2>1 DEF Added, IInv, TypeOK
    <2>5. count'[m] = count[m] /\ tx'[t].val[m] = n /\ tx'[t].upd = {m} /\ tx'[t].dec = {}
        BY <1>2, <2>1 DEF store
    <2>6. tx'[t].val[m] = count'[m] - Cardinality(Decremented(t, m)') + Added(t, m)'
        BY <2>2, <2>3, <2>4, <2>5
    <2> QED BY <2>5, <2>6 DEF Accounts
<1> QED BY <1>1, <1>2, <1>4, <1>5, <1>6, TxStep DEF Local

LEMMA IncrementInv == ASSUME IInv, NEW t \in Txs, Increment(t) PROVE IInv'
<1>1. /\ At(t, "Increment") /\ Blockers(t) = {}
      /\ Write(t, call[t].id, count[call[t].id] + 1, "Commit")
    BY DEF Increment
<1>2. /\ call[t].resp = "pending" /\ SendInv(t) /\ First(call[t].op) = "AuthorKey"
      /\ call[t] \in CallRecords /\ tx[t] \in TxRecords /\ tx \in [Txs -> TxRecords]
      /\ WriteSetFits(t) /\ CascadeFollows(t) /\ Accounts(t)
    BY <1>1, RunningInv DEF At
<1>3. call[t].id \in Messages \cap db /\ call[t].id # None /\ row[call[t].id].chan # None
    BY <1>1, <1>2, NoneIsNoId DEF SendInv, At, WriteSetFits, Ids
<1>4. Named(t)
    <2>1. First("ReadSingleDirectMessage") = "Read" /\ First("UpdateDirectMessage") = "Update"
          /\ First("DeleteDirectMessage") = "Delete"
        BY DEF First
    <2> QED BY <1>2, <1>3, <2>1 DEF Named, IsNamed
<1>5. Updaters(t, call[t].id) = {}
    BY <1>1, <1>4 DEF Blockers, At
<1>6. count[call[t].id] \in Int /\ Added(t, call[t].id) = 1
    BY <1>2, <1>3, NoneIsNoId DEF Added, SendInv, IInv, TypeOK, Ids
<1>7. TxInv(t)'
    <2>1. /\ UNCHANGED <<store, call>> /\ tx'[t].pc = "Commit" /\ tx'[t].upd = {call[t].id}
          /\ tx'[t].new = tx[t].new /\ tx'[t].keys = tx[t].keys /\ tx'[t].held = {}
          /\ tx'[t].gone = {} /\ tx'[t].todo = {} /\ tx'[t].dec = {}
        BY <1>1, <1>2 DEF Write, SendInv, At, TxRecords
    <2>2. SendInv(t)'
        BY <1>1, <1>2, <1>3, <2>1 DEF SendInv, At, store
    <2> QED BY <1>2, <2>1, <2>2 DEF TxInv
<1> QED BY <1>1, <1>2, <1>3, <1>5, <1>6, <1>7, WriteInv DEF SendInv, At

LEMMA UpdateActionInv == ASSUME IInv, NEW t \in Txs, Update(t) PROVE IInv'
<1>1. At(t, "Update") /\ Blockers(t) = {}
    BY DEF Update
<1>2. CASE Refuse(t, "ErrNotFound")
    BY <1>2, RefuseStep DEF Refuse, Responses
<1>3. CASE Named(t) /\ Write(t, call[t].id, count[call[t].id], "Commit")
    <2>1. /\ call[t].resp = "pending" /\ UpdateInv(t) /\ TxInv(t)
          /\ call[t] \in CallRecords /\ tx[t] \in TxRecords /\ tx \in [Txs -> TxRecords]
          /\ WriteSetFits(t) /\ CascadeFollows(t) /\ Accounts(t)
        BY <1>1, RunningInv DEF At
    <2>2. call[t].id \in Messages \cap db
        BY <1>1, <1>3, <2>1 DEF Named, IsNamed, UpdateInv, At
    <2>3. Updaters(t, call[t].id) = {}
        BY <1>1, <1>3 DEF Blockers, At
    <2>4. count[call[t].id] \in Int /\ Added(t, call[t].id) = 0
        BY <2>1, <2>2 DEF Added, UpdateInv, IInv, TypeOK
    <2>5. TxInv(t)'
        <3>1. /\ UNCHANGED <<store, call>> /\ tx'[t].pc = "Commit" /\ call[t].id \in Messages
              /\ tx'[t].new = None /\ tx'[t].keys = {} /\ tx'[t].held = {}
              /\ tx'[t].gone = {} /\ tx'[t].todo = {} /\ tx'[t].dec = {}
            BY <1>1, <1>3, <2>1 DEF Write, UpdateInv, TxRecords, At
        <3>2. UpdateInv(t)'
            BY <2>1, <3>1 DEF UpdateInv
        <3>3. First(call[t].op) \in {"Update", "Read"}
            BY <1>1, <2>1 DEF TxInv, SendInv, DeleteInv, DeleteUserInv, At
        <3> QED BY <2>1, <3>1, <3>2, <3>3 DEF TxInv
    <2> QED BY <1>1, <1>3, <2>1, <2>2, <2>3, <2>4, <2>5, WriteInv DEF UpdateInv, At
<1> QED BY <1>2, <1>3 DEF Update

LEMMA ReadActionInv == ASSUME IInv, NEW t \in Txs, Read(t) PROVE IInv'
<1>1. CASE Refuse(t, "ErrNotFound")
    BY <1>1, RefuseStep DEF Refuse, Responses
<1>2. CASE \E got \in Int : AnswerWith(t, "ok", got) /\ UNCHANGED store
    BY <1>2, RefuseStep DEF Responses
<1>3. At(t, "Read")
    BY DEF Read
<1>5. Named(t) => count[call[t].id] \in Int
    BY <1>3, NoneIsNoId DEF Named, IsNamed, IInv, TypeOK, CallRecords, Ids
<1>6. Cardinality(Replies(db, row, call[t].id)) \in Int
    <2>1. Replies(db, row, call[t].id) \subseteq Messages
        BY DEF Replies
    <2> QED BY <2>1, MessagesAreFinite, FS_Subset, FS_CardinalityType
<1> QED BY <1>1, <1>2, <1>5, <1>6 DEF Read

LEMMA ReadPageInv == ASSUME IInv, NEW t \in Txs, ReadPage(t) PROVE IInv'
<1>1. PICK n \in 0..Cardinality(Listed(db, row, call[t])) :
          AnswerWith(t, "ok", n) /\ UNCHANGED store
    BY DEF ReadPage
<1>2. n \in Int
    OBVIOUS
<1> QED BY <1>1, <1>2, RefuseStep DEF Responses

\* A DELETE collects rows R.
LEMMA StartDeleteInv ==
    ASSUME IInv, NEW t \in Txs, NEW R, R \subseteq db \cap (Channels \cup Messages),
           NEW next \in {"Commit", "DeleteUser"}, StartDelete(t, R, next),
           tx[t].gone = {}, tx[t].dec = {}, tx[t].upd = {},
           \/ DeleteInv(t) /\ First(call[t].op) = "Delete" /\ next = "Commit"
           \/ /\ DeleteUserInv(t) /\ First(call[t].op) = "LockUserRow"
              /\ next = "DeleteUser" /\ tx[t].pc = "DeleteWorkspacesOwnedByUser",
           tx[t].pc # "none"
    PROVE  IInv'
<1> DEFINE x == [tx[t] EXCEPT !.pc = next, !.todo = R]
<1>1. /\ call[t].resp = "pending"
      /\ tx[t] \in TxRecords /\ tx \in [Txs -> TxRecords] /\ db \subseteq Ids
      /\ WriteSetFits(t) /\ CascadeFollows(t) /\ Accounts(t)
    BY RunningInv DEF IInv, TypeOK
<1>2. x \in TxRecords
    BY <1>1 DEF TxRecords, Statements
<1>3. tx' = [tx EXCEPT ![t] = x] /\ tx'[t] = x /\ UNCHANGED <<store, call>>
    BY <1>1 DEF StartDelete
<1>4. /\ x.new = tx[t].new /\ x.todo = R /\ x.keys = tx[t].keys /\ x.pc = next
      /\ x.upd = {} /\ x.held = tx[t].held /\ x.gone = {} /\ x.dec = {}
    BY <1>1 DEF TxRecords
<1>5. ApartFrom(t)'
    <2>1. MayHold(t, x)
        BY <1>4 DEF MayHold, Exclusive
    <2> QED BY <1>2, <1>3, <1>4, <2>1, LocksGrow
<1>6. WriteSetFits(t)' /\ CascadeFollows(t)' /\ Accounts(t)'
    BY <1>1, <1>3, <1>4 DEF WriteSetFits, CascadeFollows, Accounts, Exclusive, store
<1>7. TxInv(t)'
    <2>1. CASE DeleteInv(t) /\ First(call[t].op) = "Delete" /\ next = "Commit"
        <3>1. DeleteInv(t)'
            BY <1>3, <1>4, <2>1 DEF DeleteInv
        <3> QED BY <1>1, <1>3, <2>1, <3>1 DEF TxInv
    <2>2. CASE /\ DeleteUserInv(t) /\ First(call[t].op) = "LockUserRow"
               /\ next = "DeleteUser" /\ tx[t].pc = "DeleteWorkspacesOwnedByUser"
        <3>1. DeleteUserInv(t)'
            BY <1>3, <1>4, <2>2 DEF DeleteUserInv
        <3> QED BY <1>1, <1>3, <2>2, <3>1 DEF TxInv
    <2> QED BY <2>1, <2>2
<1> QED BY <1>2, <1>3, <1>5, <1>6, <1>7, TxStep DEF Local

LEMMA DeleteActionInv == ASSUME IInv, NEW t \in Txs, Delete(t) PROVE IInv'
<1> DEFINE R == IF call[t].op = "DeleteWorkspace" THEN db \cap {call[t].chan}
                ELSE {m \in {call[t].id} : Named(t)}
<1>1. At(t, "Delete")
    BY DEF Delete
<1>2. CASE Refuse(t, "ErrNotFound")
    BY <1>2, RefuseStep DEF Refuse, Responses
<1>3. CASE StartDelete(t, R, "Commit")
    <2>1. DeleteInv(t) /\ TxInv(t) /\ call[t] \in CallRecords /\ tx[t].pc = "Delete"
        BY <1>1, RunningInv DEF At
    <2>2. First(call[t].op) = "Delete"
        BY <2>1 DEF TxInv, SendInv, UpdateInv, DeleteUserInv, Idle, NoTx
    <2>3. R \subseteq db \cap (Channels \cup Messages)
        BY <2>1, NoneIsNoId DEF Named, IsNamed, CallRecords, IInv, TypeOK
    <2> QED BY <1>3, <2>1, <2>2, <2>3, StartDeleteInv DEF DeleteInv
<1> QED BY <1>2, <1>3 DEF Delete

LEMMA DeleteWorkspacesInv ==
    ASSUME IInv, NEW t \in Txs, DeleteWorkspacesOwnedByUser(t) PROVE IInv'
<1>1. /\ At(t, "DeleteWorkspacesOwnedByUser")
      /\ StartDelete(t, OwnedChannels(db, call[t].user), "DeleteUser")
    BY DEF DeleteWorkspacesOwnedByUser
<1>2. DeleteUserInv(t) /\ TxInv(t) /\ tx[t].pc = "DeleteWorkspacesOwnedByUser"
    BY <1>1, RunningInv DEF At
<1>3. First(call[t].op) = "LockUserRow"
    BY <1>2 DEF TxInv, SendInv, UpdateInv, DeleteInv, Idle, NoTx
<1>4. OwnedChannels(db, call[t].user) \subseteq db \cap (Channels \cup Messages)
    BY DEF OwnedChannels
<1> QED BY <1>1, <1>2, <1>3, <1>4, StartDeleteInv DEF DeleteUserInv

LEMMA LockUserRowInv == ASSUME IInv, NEW t \in Txs, LockUserRow(t) PROVE IInv'
<1> DEFINE u == call[t].user
           x == [tx[t] EXCEPT !.pc = "DeleteWorkspacesOwnedByUser", !.held = {u}]
<1>1. At(t, "LockUserRow") /\ Blockers(t) = {}
    BY DEF LockUserRow
<1>2. CASE Refuse(t, "ErrNotFound")
    BY <1>2, RefuseStep DEF Refuse, Responses
<1>3. CASE /\ u \in db
           /\ tx' = [tx EXCEPT ![t].pc = "DeleteWorkspacesOwnedByUser", ![t].held = {u}]
           /\ UNCHANGED <<store, call>>
    <2>1. /\ call[t].resp = "pending" /\ DeleteUserInv(t) /\ TxInv(t) /\ tx[t].pc = "LockUserRow"
          /\ tx[t] \in TxRecords /\ tx \in [Txs -> TxRecords]
          /\ WriteSetFits(t) /\ CascadeFollows(t) /\ Accounts(t)
        BY <1>1, RunningInv DEF At
    <2>2. First(call[t].op) = "LockUserRow" /\ u \in Users
        BY <2>1 DEF TxInv, SendInv, UpdateInv, DeleteInv, DeleteUserInv, Idle, NoTx
    <2>3. x \in TxRecords
        BY <2>1, <2>2 DEF TxRecords, Statements
    <2>4. tx' = [tx EXCEPT ![t] = x] /\ tx'[t] = x
        BY <1>3, <2>1
    <2>5. /\ x.new = None /\ x.todo = {} /\ x.keys = {} /\ x.pc = "DeleteWorkspacesOwnedByUser"
          /\ x.upd = {} /\ x.held = {u} /\ x.gone = {} /\ x.dec = {}
          /\ tx[t].new = None
        BY <2>1 DEF TxRecords, DeleteUserInv
    <2>6. ApartFrom(t)'
        <3>1. Lockers(t, u) = {}
            BY <1>1, <1>3 DEF Blockers, At
        <3>2. MayHold(t, x)
            BY <2>5, <3>1 DEF MayHold, Lockers
        <3> QED BY <2>3, <2>4, <2>5, <3>2, LocksGrow
    <2>7. WriteSetFits(t)' /\ CascadeFollows(t)' /\ Accounts(t)'
        BY <1>3, <2>1, <2>4, <2>5 DEF WriteSetFits, CascadeFollows, Accounts, Exclusive, store
    <2>8. DeleteUserInv(t)'
        BY <1>3, <2>2, <2>4, <2>5 DEF DeleteUserInv
    <2> QED BY <1>3, <2>1, <2>2, <2>3, <2>4, <2>6, <2>7, <2>8, TxStep DEF Local, TxInv
<1> QED BY <1>2, <1>3 DEF LockUserRow

\* The account is deleted when no message of its user's is left.
LEMMA DeleteUserActionInv == ASSUME IInv, NEW t \in Txs, DeleteUser(t) PROVE IInv'
<1> DEFINE u == call[t].user
           x == [tx[t] EXCEPT !.pc = "Commit", !.gone = @ \cup {u}]
<1>1. At(t, "DeleteUser")
    BY DEF DeleteUser
<1>2. CASE Refuse(t, "ErrKey")
    BY <1>2, RefuseStep DEF Refuse, Responses
<1>3. CASE /\ Restricting(t) = {}
           /\ tx' = [tx EXCEPT ![t].pc = "Commit", ![t].gone = @ \cup {u}]
           /\ UNCHANGED <<store, call>>
    <2>1. /\ call[t].resp = "pending" /\ DeleteUserInv(t) /\ TxInv(t) /\ tx[t].pc = "DeleteUser"
          /\ tx[t] \in TxRecords /\ tx \in [Txs -> TxRecords]
          /\ WriteSetFits(t) /\ CascadeFollows(t) /\ Accounts(t)
        BY <1>1, RunningInv DEF At
    <2>2. /\ First(call[t].op) = "LockUserRow" /\ u \in Users /\ tx[t].held = {u}
          /\ tx[t].gone \subseteq Channels \cup Messages \cup {u}
          /\ tx[t].new = None /\ tx[t].keys = {} /\ tx[t].todo = {}
        BY <1>1, <2>1 DEF TxInv, SendInv, UpdateInv, DeleteInv, DeleteUserInv, Idle, NoTx, At
    <2>3. x \in TxRecords
        BY <2>1, <2>2 DEF TxRecords, Statements, Ids
    <2>4. tx' = [tx EXCEPT ![t] = x] /\ tx'[t] = x
        BY <1>3, <2>1
    <2>5. /\ x.new = None /\ x.todo = {} /\ x.keys = {} /\ x.pc = "Commit"
          /\ x.upd = tx[t].upd /\ x.held = {u} /\ x.gone = tx[t].gone \cup {u}
          /\ x.dec = tx[t].dec /\ x.val = tx[t].val
        BY <2>1, <2>2 DEF TxRecords
    <2>6. ApartFrom(t)'
        <3>2. MayHold(t, x)
            BY <2>2, <2>5 DEF MayHold, Exclusive
        <3> QED BY <2>2, <2>3, <2>4, <2>5, <3>2, LocksGrow
    <2>7. WriteSetFits(t)'
        BY <1>3, <2>1, <2>2, <2>4, <2>5 DEF WriteSetFits, Exclusive, store
    <2>8. CascadeFollows(t)'
        <3>1. Referencing(db, row, u) = {}
            BY <2>2, IdsAreDisjoint, NoneIsNoId DEF Referencing, IInv, TypeOK, MessageRows, Ids
        <3>2. WrittenBy(db, row, u) \subseteq tx[t].gone
            BY <1>3 DEF Restricting, WrittenBy
        <3>3. /\ \A r \in x.gone : Referencing(db, row, r) \subseteq x.gone
              /\ \A v \in x.gone \cap Users : WrittenBy(db, row, v) \subseteq x.gone
            BY <2>1, <2>2, <2>5, <3>1, <3>2 DEF CascadeFollows
        <3> QED BY <1>3, <2>4, <2>5, <3>3 DEF CascadeFollows, store
    <2>9. Accounts(t)'
        <3>1. /\ tx'[t].dec = tx[t].dec /\ tx'[t].upd = tx[t].upd /\ tx'[t].val = tx[t].val
              /\ tx'[t].new = tx[t].new /\ tx[t].gone \subseteq tx'[t].gone
            BY <2>2, <2>4, <2>5
        <3> QED BY <1>3, <2>1, <3>1 DEF Accounts, Decremented, Added, store
    <2>10. DeleteUserInv(t)'
        BY <1>3, <2>2, <2>4, <2>5 DEF DeleteUserInv
    <2> QED BY <1>3, <2>1, <2>2, <2>3, <2>4, <2>6, <2>7, <2>8, <2>9, <2>10, TxStep DEF Local, TxInv
<1> QED BY <1>2, <1>3 DEF DeleteUser

\* Who has deleted something, or is about to, runs a DELETE.
LEMMA DeletingInv ==
    ASSUME IInv, NEW t \in Txs, tx[t].todo # {} \/ tx[t].gone # {}
    PROVE  /\ tx[t].pc # "none" /\ call[t].resp = "pending"
           /\ tx[t].new = None /\ tx[t].keys = {}
           /\ tx[t].todo \subseteq Channels \cup Messages
           /\ \/ DeleteInv(t) /\ First(call[t].op) = "Delete" /\ tx[t].pc = "Commit"
              \/ /\ DeleteUserInv(t) /\ First(call[t].op) = "LockUserRow"
                 /\ tx[t].pc \in {"DeleteUser", "Commit"}
<1>1. TxInv(t)
    BY DEF IInv, Local
<1>2. \/ DeleteInv(t) /\ First(call[t].op) = "Delete"
      \/ DeleteUserInv(t) /\ First(call[t].op) = "LockUserRow"
    BY <1>1 DEF TxInv, Idle, NoTx, SendInv, UpdateInv
<1>3. call[t].resp = "pending"
    BY <1>1 DEF TxInv, Idle, NoTx
<1> QED BY <1>2, <1>3 DEF DeleteInv, DeleteUserInv

LEMMA VisitRowInv == ASSUME IInv, NEW t \in Txs, VisitRow(t) PROVE IInv'
<1>1. PICK r \in Visitable(t) :
        /\ Lockers(t, r) = {}
        /\ LET rest == tx[t].todo \ {r}
               gone == tx[t].gone \cup {r}
           IN
           tx' = IF r \in db
                 THEN [tx EXCEPT ![t].gone = gone,
                                 ![t].todo = rest \cup (Referencing(db, row, r) \ gone)]
                 ELSE [tx EXCEPT ![t].todo = rest]
        /\ UNCHANGED <<store, call>>
    BY DEF VisitRow
<1>2. r \in tx[t].todo
    BY DEF Visitable
<1>3. /\ tx[t] \in TxRecords /\ tx \in [Txs -> TxRecords] /\ db \subseteq Ids
      /\ WriteSetFits(t) /\ CascadeFollows(t) /\ Accounts(t)
    BY DEF IInv, TypeOK, Local
<1>4. /\ tx[t].pc # "none" /\ call[t].resp = "pending"
      /\ tx[t].new = None /\ tx[t].keys = {}
      /\ tx[t].todo \subseteq Channels \cup Messages
      /\ \/ DeleteInv(t) /\ First(call[t].op) = "Delete" /\ tx[t].pc = "Commit"
         \/ /\ DeleteUserInv(t) /\ First(call[t].op) = "LockUserRow"
            /\ tx[t].pc \in {"DeleteUser", "Commit"}
    BY <1>2, DeletingInv
<1>5. CASE r \in db
    <2> DEFINE gone == tx[t].gone \cup {r}
               todo == (tx[t].todo \ {r}) \cup (Referencing(db, row, r) \ gone)
               x == [tx[t] EXCEPT !.gone = gone, !.todo = todo]
    <2>1. /\ gone \subseteq db /\ todo \subseteq Channels \cup Messages
          /\ todo \subseteq tx[t].todo \cup db /\ r \notin Users
        BY <1>2, <1>3, <1>4, <1>5, IdsAreDisjoint DEF WriteSetFits, Exclusive, Referencing
    <2>2. x \in TxRecords
        <3>1. gone \in SUBSET Ids /\ todo \in SUBSET Ids
            BY <1>3, <2>1 DEF Ids
        <3> QED BY <1>3, <3>1 DEF TxRecords
    <2>3. tx' = [tx EXCEPT ![t] = x] /\ tx'[t] = x
        BY <1>1, <1>3, <1>5
    <2>4. /\ x.new = None /\ x.todo = todo /\ x.keys = {} /\ x.pc = tx[t].pc
          /\ x.upd = tx[t].upd /\ x.held = tx[t].held /\ x.gone = gone
          /\ x.dec = tx[t].dec /\ x.val = tx[t].val
        BY <1>3, <1>4 DEF TxRecords
    <2>5. ApartFrom(t)'
        <3>1. MayHold(t, x)
            BY <1>1, <1>4, <2>4 DEF MayHold, Lockers, Exclusive
        <3>2. x.new = tx[t].new /\ x.todo \subseteq tx[t].todo \cup db
            BY <1>4, <2>1, <2>4
        <3>3. tx' = [tx EXCEPT ![t] = x]
            BY <2>3
        <3> HIDE DEF x, todo, gone
        <3> QED BY <2>2, <3>1, <3>2, <3>3, LocksGrow
    <2>6. WriteSetFits(t)'
        BY <1>1, <1>3, <1>4, <1>5, <2>3, <2>4 DEF WriteSetFits, Exclusive, store
    <2>7. CascadeFollows(t)'
        <3>1. \A q \in gone : Referencing(db, row, q) \subseteq gone \cup todo
            BY <1>3 DEF CascadeFollows
        <3>2. \A u \in gone \cap Users : WrittenBy(db, row, u) \subseteq gone
            BY <1>3, <2>1 DEF CascadeFollows
        <3> QED BY <1>1, <2>3, <2>4, <3>1, <3>2 DEF CascadeFollows, store
    <2>8. Accounts(t)'
        <3>1. /\ tx'[t].dec = tx[t].dec /\ tx'[t].upd = tx[t].upd /\ tx'[t].val = tx[t].val
              /\ tx'[t].new = tx[t].new /\ tx[t].gone \subseteq tx'[t].gone
            BY <1>4, <2>3, <2>4
        <3> QED BY <1>1, <1>3, <3>1 DEF Accounts, Decremented, Added, store
    <2>9. TxInv(t)'
        <3>1. r \in Channels \cup Messages
            BY <1>2, <1>4
        <3>2. DeleteInv(t) /\ tx[t].pc = "Commit" => DeleteInv(t)'
            BY <1>1, <2>1, <2>3, <2>4, <3>1 DEF DeleteInv
        <3>3. DeleteUserInv(t) /\ tx[t].pc \in {"DeleteUser", "Commit"} => DeleteUserInv(t)'
            BY <1>1, <2>1, <2>3, <2>4, <3>1 DEF DeleteUserInv
        <3> QED BY <1>1, <1>4, <3>2, <3>3 DEF TxInv
    <2> QED BY <1>1, <2>2, <2>3, <2>5, <2>6, <2>7, <2>8, <2>9, TxStep DEF Local
<1>6. CASE r \notin db
    <2> DEFINE x == [tx[t] EXCEPT !.todo = tx[t].todo \ {r}]
    <2>1. x \in TxRecords
        BY <1>3 DEF TxRecords
    <2>2. tx' = [tx EXCEPT ![t] = x] /\ tx'[t] = x
        BY <1>1, <1>3, <1>6
    <2>3. /\ x.new = None /\ x.todo = tx[t].todo \ {r} /\ x.keys = {} /\ x.pc = tx[t].pc
          /\ x.upd = tx[t].upd /\ x.held = tx[t].held /\ x.gone = tx[t].gone
          /\ x.dec = tx[t].dec /\ x.val = tx[t].val
        BY <1>3, <1>4 DEF TxRecords
    <2>4. ApartFrom(t)'
        <3>1. MayHold(t, x)
            BY <1>4, <2>3 DEF MayHold, Exclusive
        <3>2. x.new = tx[t].new /\ x.todo \subseteq tx[t].todo \cup db
            BY <1>4, <2>3
        <3> QED BY <2>1, <2>2, <3>1, <3>2, LocksGrow
    <2>5. WriteSetFits(t)'
        BY <1>1, <1>3, <1>4, <2>2, <2>3 DEF WriteSetFits, Exclusive, store
    <2>6. CascadeFollows(t)'
        <3>1. \A q \in tx[t].gone : Referencing(db, row, q) \subseteq tx[t].gone \cup x.todo
            BY <1>3, <1>6, <2>3 DEF CascadeFollows, Referencing
        <3> QED BY <1>1, <1>3, <2>2, <2>3, <3>1 DEF CascadeFollows, store
    <2>7. Accounts(t)'
        <3>1. /\ tx'[t].dec = tx[t].dec /\ tx'[t].upd = tx[t].upd /\ tx'[t].val = tx[t].val
              /\ tx'[t].new = tx[t].new /\ tx[t].gone \subseteq tx'[t].gone
            BY <1>4, <2>2, <2>3
        <3> QED BY <1>1, <1>3, <3>1 DEF Accounts, Decremented, Added, store
    <2>8. TxInv(t)'
        <3>1. DeleteInv(t) /\ tx[t].pc = "Commit" => DeleteInv(t)'
            BY <1>1, <2>2, <2>3 DEF DeleteInv
        <3>2. DeleteUserInv(t) /\ tx[t].pc \in {"DeleteUser", "Commit"} => DeleteUserInv(t)'
            BY <1>1, <2>2, <2>3 DEF DeleteUserInv
        <3> QED BY <1>1, <1>4, <3>1, <3>2 DEF TxInv
    <2> QED BY <1>1, <2>1, <2>2, <2>4, <2>5, <2>6, <2>7, <2>8, TxStep DEF Local
<1> QED BY <1>5, <1>6

\* A set of messages has a number of members, which grows by one with a member.
LEMMA CountMessages ==
    /\ \A S \in SUBSET Messages : IsFiniteSet(S) /\ Cardinality(S) \in Nat
    /\ \A S \in SUBSET Messages : \A m \in Messages \ S :
           Cardinality(S \cup {m}) = Cardinality(S) + 1
    /\ \A S \in SUBSET Messages : \A T \in SUBSET S :
           Cardinality(S \ T) = Cardinality(S) - Cardinality(T)
<1>1. \A S \in SUBSET Messages : IsFiniteSet(S) /\ Cardinality(S) \in Nat
    BY MessagesAreFinite, FS_Subset, FS_CardinalityType
<1>2. ASSUME NEW S \in SUBSET Messages, NEW m \in Messages \ S
      PROVE  Cardinality(S \cup {m}) = Cardinality(S) + 1
    BY <1>1, FS_AddElement
<1>3. ASSUME NEW S \in SUBSET Messages, NEW T \in SUBSET S
      PROVE  Cardinality(S \ T) = Cardinality(S) - Cardinality(T)
    <2>1. Cardinality(S \ T) = Cardinality(S) - Cardinality(S \cap T)
        BY <1>1, FS_Difference
    <2>2. S \cap T = T
        OBVIOUS
    <2> QED BY <2>1, <2>2
<1> QED BY <1>1, <1>2, <1>3

\* A decrement stands for one more of the replies that the root still counts: the
\* CHECK holds.
LEMMA DecrementInv == ASSUME IInv, NEW t \in Txs, Decrement(t) PROVE IInv'
<1> DEFINE n(d) == (IF row[d].root \in tx[t].upd THEN tx[t].val[row[d].root]
                    ELSE count[row[d].root]) - 1
<1>1. PICK d \in Due(t) :
        /\ Updaters(t, row[d].root) = {}
        /\ IF n(d) < 0 THEN Refuse(t, "ErrCheck")
           ELSE /\ tx' = [tx EXCEPT ![t].upd = @ \cup {row[d].root}, ![t].val[row[d].root] = n(d),
                                    ![t].dec = @ \cup {d}]
                /\ UNCHANGED <<store, call>>
    BY DEF Decrement
<1> DEFINE r == row[d].root
           D == Decremented(t, r)
<1>2. d \in tx[t].gone \cap Messages /\ d \notin tx[t].dec /\ r \in Messages /\ r \notin tx[t].gone
    BY DEF Due, ToDecrement
<1>3. /\ tx[t] \in TxRecords /\ tx \in [Txs -> TxRecords] /\ db \subseteq Ids
      /\ WriteSetFits(t) /\ CascadeFollows(t) /\ Accounts(t)
      /\ count \in [Messages -> Int] /\ NoDanglingMessage /\ ReplyCountsAreExact
    BY DEF IInv, TypeOK, Local
<1>4. /\ tx[t].pc # "none" /\ call[t].resp = "pending"
      /\ tx[t].new = None /\ tx[t].keys = {}
      /\ tx[t].todo \subseteq Channels \cup Messages
      /\ \/ DeleteInv(t) /\ First(call[t].op) = "Delete" /\ tx[t].pc = "Commit"
         \/ /\ DeleteUserInv(t) /\ First(call[t].op) = "LockUserRow"
            /\ tx[t].pc \in {"DeleteUser", "Commit"}
    BY <1>2, DeletingInv
<1>5. d \in db /\ r \in db
    BY <1>2, <1>3, NoneIsNoId DEF WriteSetFits, Exclusive, NoDanglingMessage, Ids
<1>6. D \in SUBSET Messages /\ d \in Messages \ D
    BY <1>2, <1>3 DEF Decremented, Accounts
<1>7. n(d) = count[r] - Cardinality(D) - 1
    <2>1. CASE r \in tx[t].upd
        <3>1. tx[t].val[r] = count[r] - Cardinality(D) + Added(t, r) /\ Added(t, r) = 0
            BY <1>3, <1>4, <2>1 DEF Accounts, Added
        <3> QED BY <1>2, <1>3, <1>6, <2>1, <3>1, CountMessages
    <2>2. CASE r \notin tx[t].upd
        <3>1. D = {}
            BY <1>3, <2>2 DEF Accounts, Decremented
        <3>2. Cardinality(D) = 0
            BY <3>1, FS_EmptySet
        <3> QED BY <1>2, <1>3, <2>2, <3>2
    <2> QED BY <2>1, <2>2
<1>8. ~(n(d) < 0)
    <2>1. D \cup {d} \in SUBSET Replies(db, row, r) /\ Replies(db, row, r) \in SUBSET Messages
        BY <1>2, <1>3, <1>5 DEF Decremented, Accounts, WriteSetFits, Exclusive, Replies
    <2>2. count[r] = Cardinality(Replies(db, row, r))
        BY <1>2, <1>3, <1>5 DEF ReplyCountsAreExact
    <2>3. /\ Cardinality(Replies(db, row, r) \ (D \cup {d}))
               = Cardinality(Replies(db, row, r)) - Cardinality(D \cup {d})
          /\ Cardinality(Replies(db, row, r) \ (D \cup {d})) \in Nat
          /\ Cardinality(Replies(db, row, r)) \in Nat
        BY <2>1, CountMessages
    <2>4. Cardinality(D \cup {d}) = Cardinality(D) + 1 /\ Cardinality(D) \in Nat
        BY <1>6, CountMessages
    <2> HIDE DEF n, D, r
    <2> QED BY <1>7, <2>2, <2>3, <2>4
<1>9. /\ tx' = [tx EXCEPT ![t].upd = @ \cup {r}, ![t].val[r] = n(d), ![t].dec = @ \cup {d}]
      /\ UNCHANGED <<store, call>> /\ Updaters(t, r) = {}
    BY <1>1, <1>8
<1> DEFINE x == [tx[t] EXCEPT !.upd = @ \cup {r}, !.val = [tx[t].val EXCEPT ![r] = n(d)],
                              !.dec = @ \cup {d}]
<1>10. n(d) \in Int
    <2>1. count[r] \in Int /\ Cardinality(D) \in Int
        BY <1>2, <1>3, <1>6, CountMessages
    <2> HIDE DEF n, D, r
    <2> QED BY <1>7, <2>1
<1>11. x \in TxRecords
    <2> HIDE DEF n
    <2> QED BY <1>2, <1>3, <1>10 DEF TxRecords
<1>12. tx' = [tx EXCEPT ![t] = x] /\ tx'[t] = x
    <2> HIDE DEF n
    <2> QED BY <1>3, <1>9
<1>13. /\ x.new = None /\ x.todo = tx[t].todo /\ x.keys = {} /\ x.pc = tx[t].pc
       /\ x.upd = tx[t].upd \cup {r} /\ x.held = tx[t].held /\ x.gone = tx[t].gone
       /\ x.dec = tx[t].dec \cup {d} /\ x.val = [tx[t].val EXCEPT ![r] = n(d)]
    <2> HIDE DEF n
    <2> QED BY <1>3, <1>4 DEF TxRecords
<1> HIDE DEF n, x
<1>14. ApartFrom(t)'
    <2>1. MayHold(t, x)
        BY <1>4, <1>9, <1>13 DEF MayHold, Updaters, Exclusive
    <2> QED BY <1>4, <1>11, <1>12, <1>13, <2>1, LocksGrow
<1>15. WriteSetFits(t)' /\ CascadeFollows(t)'
    BY <1>3, <1>4, <1>5, <1>9, <1>12, <1>13 DEF WriteSetFits, CascadeFollows, Exclusive, store
<1>16. Accounts(t)'
    <2>1. tx'[t].dec \subseteq tx'[t].gone \cap Messages
        BY <1>2, <1>3, <1>12, <1>13 DEF Accounts
    <2>2. \A e \in tx'[t].dec : row'[e].root \in tx'[t].upd
        BY <1>3, <1>9, <1>12, <1>13 DEF Accounts, store
    <2>3. ASSUME NEW m \in tx'[t].upd
          PROVE  tx'[t].val[m] = count'[m] - Cardinality(Decremented(t, m)') + Added(t, m)'
        <3>1. count'[m] = count[m] /\ Added(t, m)' = 0 /\ Added(t, m) = 0
            BY <1>4, <1>9, <1>12, <1>13 DEF store, Added
        <3>2. CASE m = r
            <4>1. Decremented(t, m)' = D \cup {d}
                BY <1>9, <1>12, <1>13, <3>2 DEF Decremented, store
            <4>2. Cardinality(D \cup {d}) = Cardinality(D) + 1 /\ Cardinality(D) \in Nat
                BY <1>6, CountMessages
            <4>3. tx'[t].val[m] = n(d) /\ count[r] \in Int
                BY <1>2, <1>3, <1>12, <1>13, <3>2 DEF TxRecords
            <4> HIDE DEF r, D
            <4> QED BY <1>7, <3>1, <3>2, <4>1, <4>2, <4>3
        <3>3. CASE m # r
            <4>1. Decremented(t, m)' = Decremented(t, m)
                BY <1>9, <1>12, <1>13, <3>3 DEF Decremented, store
            <4>2. m \in tx[t].upd /\ tx'[t].val[m] = tx[t].val[m]
                BY <1>3, <1>12, <1>13, <3>3 DEF TxRecords
            <4>3. tx[t].val[m] = count[m] - Cardinality(Decremented(t, m)) + Added(t, m)
                BY <1>3, <4>2 DEF Accounts
            <4> QED BY <3>1, <4>1, <4>2, <4>3
        <3> QED BY <3>2, <3>3
    <2> QED BY <2>1, <2>2, <2>3 DEF Accounts
<1>17. TxInv(t)'
    <2>1. DeleteInv(t) /\ tx[t].pc = "Commit" => DeleteInv(t)'
        BY <1>9, <1>12, <1>13 DEF DeleteInv
    <2>2. DeleteUserInv(t) /\ tx[t].pc \in {"DeleteUser", "Commit"} => DeleteUserInv(t)'
        BY <1>9, <1>12, <1>13 DEF DeleteUserInv
    <2> QED BY <1>4, <1>9, <2>1, <2>2 DEF TxInv
<1> QED BY <1>9, <1>11, <1>12, <1>14, <1>15, <1>16, <1>17, TxStep DEF Local

-----------------------------------------------------------------------------
(* The commit. *)

\* What a transaction has written, and under which locks, when it commits.
LEMMA WritesOfCommit ==
    ASSUME IInv, NEW t \in Txs, At(t, "Commit")
    PROVE  /\ tx[t].gone \subseteq db /\ tx[t].new \notin db
           /\ \A r \in tx[t].gone : Referencing(db, row, r) \subseteq tx[t].gone
           /\ \A u \in tx[t].gone \cap Users : WrittenBy(db, row, u) \subseteq tx[t].gone
           /\ \A d \in tx[t].gone \cap Messages :
                 row[d].root \in Messages \ tx[t].gone => d \in tx[t].dec
           /\ tx[t].new # None =>
                 /\ tx[t].gone = {} /\ tx[t].new \in Messages
                 /\ NewRow(call[t]) \in MessageRows
                 /\ {call[t].user, call[t].to, call[t].chan} \ {None} \subseteq tx[t].keys
                 /\ call[t].id # None =>
                       /\ call[t].id \in tx[t].keys /\ row[call[t].id].chan # None
                       /\ call[t].id \in tx[t].upd
<1>1. /\ call[t] \in CallRecords /\ tx[t] \in TxRecords
      /\ WriteSetFits(t) /\ CascadeFollows(t) /\ tx[t].todo = {} /\ ToDecrement(t) = {}
    BY RunningInv DEF At
<1>2. /\ tx[t].gone \subseteq db /\ tx[t].new \notin db
      /\ \A r \in tx[t].gone : Referencing(db, row, r) \subseteq tx[t].gone
      /\ \A u \in tx[t].gone \cap Users : WrittenBy(db, row, u) \subseteq tx[t].gone
    BY <1>1 DEF WriteSetFits, Exclusive, CascadeFollows
<1>3. \A d \in tx[t].gone \cap Messages :
          row[d].root \in Messages \ tx[t].gone => d \in tx[t].dec
    BY <1>1 DEF ToDecrement
<1>4. ASSUME tx[t].new # None
      PROVE  /\ tx[t].gone = {} /\ tx[t].new \in Messages
             /\ NewRow(call[t]) \in MessageRows
             /\ {call[t].user, call[t].to, call[t].chan} \ {None} \subseteq tx[t].keys
             /\ call[t].id # None =>
                   /\ call[t].id \in tx[t].keys /\ row[call[t].id].chan # None
                   /\ call[t].id \in tx[t].upd
    <2>1. tx[t].pc = "Commit"
        BY DEF At
    <2>2. SendInv(t)
        BY <1>4, <2>1, RunningInv DEF UpdateInv, DeleteInv, DeleteUserInv
    <2>3. NewRow(call[t]) \in MessageRows
        BY <1>1 DEF CallRecords, NewRow, MessageRows
    <2> QED BY <2>1, <2>2, <2>3 DEF SendInv
<1> QED BY <1>2, <1>3, <1>4

\* The rows that a commit leaves.
LEMMA AppliedRows ==
    ASSUME IInv, NEW t \in Txs, At(t, "Commit"), Apply(t)
    PROVE  /\ \A m \in Messages \cap db' : m # tx[t].new =>
                 m \in db \ tx[t].gone /\ row'[m] = row[m]
           /\ tx[t].new # None => row'[tx[t].new] = NewRow(call[t])
           /\ db \ tx[t].gone \subseteq db'
           /\ \A r \in db' : r = tx[t].new \/ r \in db \ tx[t].gone
           /\ tx[t].new # None => tx[t].new \in db'
<1>1. /\ tx[t].gone \subseteq db /\ tx[t].new \notin db
      /\ tx[t].new # None => tx[t].new \in Messages
    BY WritesOfCommit
<1>2. /\ db' = (db \ tx[t].gone) \cup ({tx[t].new} \ {None})
      /\ row' = [m \in Messages |-> IF m = tx[t].new THEN NewRow(call[t])
                                    ELSE IF m \in tx[t].gone THEN NoRow ELSE row[m]]
    BY DEF Apply
<1> QED BY <1>1, <1>2

LEMMA CommitKeepsKeys ==
    ASSUME IInv, NEW t \in Txs, At(t, "Commit"), Apply(t)
    PROVE  NoDanglingMessage'
<1> DEFINE x == tx[t]
           c == call[t]
<1>1. /\ \A r \in x.gone : Referencing(db, row, r) \subseteq x.gone
      /\ \A u \in x.gone \cap Users : WrittenBy(db, row, u) \subseteq x.gone
      /\ x.new # None =>
            /\ x.gone = {} /\ x.new \in Messages
            /\ {c.user, c.to, c.chan} \ {None} \subseteq x.keys
            /\ c.id # None => c.id \in x.keys /\ row[c.id].chan # None
    BY WritesOfCommit
<1>2. /\ \A m \in Messages \cap db' : m # x.new => m \in db \ x.gone /\ row'[m] = row[m]
      /\ x.new # None => row'[x.new] = NewRow(c)
      /\ db \ x.gone \subseteq db'
    BY AppliedRows
<1>3. /\ NoDanglingMessage /\ db \subseteq Ids /\ row \in [Messages -> MessageRows]
      /\ x.keys \subseteq db /\ x.new \notin db /\ None \notin db
    BY NoneIsNoId DEF IInv, Local, WriteSetFits, TypeOK
<1> SUFFICES ASSUME NEW m \in Messages \cap db'
             PROVE  /\ {row'[m].author, row'[m].to, row'[m].chan} \ {None} \subseteq db'
                    /\ row'[m].root # None =>
                          row'[m].root \in db' /\ row'[row'[m].root].chan # None
    BY DEF NoDanglingMessage
<1>4. CASE m = x.new
    <2>1. x.new # None
        BY <1>4, NoneIsNoId DEF Ids
    <2>2. /\ row'[m].author = c.user /\ row'[m].to = c.to /\ row'[m].chan = c.chan
          /\ row'[m].root = c.id
        BY <1>2, <1>4, <2>1 DEF NewRow
    <2>3. x.keys \subseteq db'
        BY <1>1, <1>2, <1>3, <2>1
    <2>4. ASSUME c.id # None PROVE c.id \in db' /\ row'[c.id].chan # None
        <3>1. c.id \in db /\ c.id \in db' /\ c.id # x.new /\ row[c.id].chan # None
            BY <1>1, <1>3, <2>1, <2>3, <2>4
        <3>2. c.id \in Messages
            BY <2>4, <3>1 DEF IInv, TypeOK, CallRecords
        <3> QED BY <1>2, <3>1, <3>2
    <2> QED BY <1>1, <2>1, <2>2, <2>3, <2>4
<1>5. CASE m # x.new
    <2>1. m \in db \ x.gone /\ row'[m] = row[m] /\ row[m] \in MessageRows
        BY <1>2, <1>3, <1>5
    <2>2. /\ {row[m].author, row[m].to, row[m].chan} \ {None} \subseteq db
          /\ row[m].root # None => row[m].root \in db /\ row[row[m].root].chan # None
        BY <1>3, <2>1 DEF NoDanglingMessage
    <2>3. row[m].chan \notin x.gone /\ row[m].root \notin x.gone
        BY <1>1, <2>1 DEF Referencing
    <2>4. row[m].author \notin x.gone /\ row[m].to \notin x.gone
        <3>1. row[m].author \in Users \cup {None} /\ row[m].to \in Users \cup {None}
            BY <2>1 DEF MessageRows
        <3>2. None \notin x.gone
            BY <1>3, WritesOfCommit
        <3> QED BY <1>1, <2>1, <3>1, <3>2 DEF WrittenBy
    <2>5. ASSUME row[m].root # None PROVE row[m].root \in db' /\ row'[row[m].root].chan # None
        <3>1. row[m].root \in db' /\ row[m].root \in Messages /\ row[m].root # x.new
            BY <1>2, <1>3, <2>1, <2>2, <2>3, <2>5 DEF MessageRows
        <3> QED BY <1>2, <2>2, <2>5, <3>1
    <2> QED BY <1>2, <2>1, <2>2, <2>3, <2>4, <2>5
<1> QED BY <1>4, <1>5

LEMMA CommitKeepsCounts ==
    ASSUME IInv, NEW t \in Txs, At(t, "Commit"), Apply(t)
    PROVE  ReplyCountsAreExact'
<1> DEFINE x == tx[t]
           c == call[t]
<1>1. /\ x.gone \subseteq db /\ x.new \notin db
      /\ \A d \in x.gone \cap Messages : row[d].root \in Messages \ x.gone => d \in x.dec
      /\ x.new # None =>
            /\ x.gone = {} /\ x.new \in Messages
            /\ c.id # None => c.id \in x.keys /\ c.id \in x.upd
    BY WritesOfCommit
<1>2. /\ \A m \in Messages \cap db' : m # x.new => m \in db \ x.gone /\ row'[m] = row[m]
      /\ x.new # None => row'[x.new] = NewRow(c) /\ x.new \in db'
      /\ db \ x.gone \subseteq db'
    BY AppliedRows
<1>3. /\ NoDanglingMessage /\ db \subseteq Ids /\ row \in [Messages -> MessageRows]
      /\ x.keys \subseteq db /\ None \notin db /\ Accounts(t) /\ ReplyCountsAreExact
      /\ count \in [Messages -> Int]
    BY NoneIsNoId DEF IInv, Local, WriteSetFits, TypeOK
<1>4. count' = [m \in Messages |-> IF m \in x.gone \cup {x.new} THEN 0
                                  ELSE IF m \in x.upd THEN x.val[m] ELSE count[m]]
    BY DEF Apply
<1> SUFFICES ASSUME NEW m \in Messages \cap db'
             PROVE  count'[m] = Cardinality(Replies(db', row', m))
    BY DEF ReplyCountsAreExact
<1>5. m # None
    BY NoneIsNoId DEF Ids
<1>6. CASE m = x.new
    <2>1. c.id # m
        BY <1>1, <1>3, <1>5, <1>6
    <2>2. \A d \in Messages \cap db' : row'[d].root # m
        BY <1>1, <1>2, <1>3, <1>5, <1>6, <2>1 DEF NoDanglingMessage, NewRow
    <2>3. Replies(db', row', m) = {}
        BY <2>2 DEF Replies
    <2> QED BY <1>4, <1>6, <2>3, FS_EmptySet
<1>7. CASE m # x.new
    <2> DEFINE R == Replies(db, row, m)
               G == Decremented(t, m)
               N == IF x.new # None /\ c.id = m THEN {x.new} ELSE {}
    <2>1. m \in db \ x.gone
        BY <1>2, <1>7
    <2>2. G \in SUBSET R /\ R \in SUBSET Messages
        BY <1>1, <1>3 DEF Decremented, Accounts, Replies
    <2>3. Replies(db', row', m) = (R \ G) \cup N
        <3>1. ASSUME NEW d \in Messages \cap db', row'[d].root = m PROVE d \in (R \ G) \cup N
            <4>1. CASE d = x.new
                BY <1>2, <1>5, <3>1, <4>1, NoneIsNoId DEF NewRow, Ids
            <4>2. CASE d # x.new
                BY <1>2, <1>3, <3>1, <4>2 DEF Replies, Decremented, Accounts
            <4> QED BY <4>1, <4>2
        <3>2. ASSUME NEW d \in R \ G PROVE d \in Messages \cap db' /\ row'[d].root = m
            <4>1. d \in Messages \cap db /\ row[d].root = m
                BY DEF Replies
            <4>2. d \notin x.gone
                BY <1>1, <2>1, <3>2, <4>1 DEF Decremented
            <4>3. d # x.new
                BY <1>1, <4>1
            <4> QED BY <1>2, <4>1, <4>2, <4>3
        <3>3. ASSUME NEW d \in N PROVE d \in Messages \cap db' /\ row'[d].root = m
            BY <1>1, <1>2 DEF NewRow
        <3> HIDE DEF R, G, N
        <3> QED BY <3>1, <3>2, <3>3 DEF Replies
    <2>4. count[m] = Cardinality(R) /\ count[m] \in Int
        BY <1>3, <2>1 DEF ReplyCountsAreExact
    <2>5. Cardinality(R \ G) = Cardinality(R) - Cardinality(G) /\ R \ G \in SUBSET Messages
          /\ Cardinality(G) \in Nat
        BY <2>2, CountMessages
    <2>6. Cardinality((R \ G) \cup N) = Cardinality(R) - Cardinality(G) + Added(t, m)
        <3>1. CASE x.new # None /\ c.id = m
            <4>1. N = {x.new} /\ Added(t, m) = 1 /\ x.new \in Messages \ (R \ G)
                BY <1>1, <3>1 DEF Added, Replies
            <4> HIDE DEF N, R, G
            <4> QED BY <2>5, <4>1, CountMessages
        <3>2. CASE ~(x.new # None /\ c.id = m)
            <4>1. N = {} /\ Added(t, m) = 0
                BY <3>2 DEF Added
            <4>2. (R \ G) \cup N = R \ G
                BY <4>1
            <4> HIDE DEF N, R, G
            <4> QED BY <2>4, <2>5, <4>1, <4>2
        <3> QED BY <3>1, <3>2
    <2>7. CASE m \in x.upd
        <3>1. count'[m] = x.val[m]
            BY <1>4, <1>7, <2>1, <2>7
        <3>2. x.val[m] = count[m] - Cardinality(G) + Added(t, m)
            BY <1>3, <2>7 DEF Accounts
        <3> QED BY <2>3, <2>4, <2>6, <3>1, <3>2
    <2>8. CASE m \notin x.upd
        <3>1. count'[m] = count[m]
            BY <1>4, <1>7, <2>1, <2>8
        <3>2. G = {}
            BY <1>3, <2>8 DEF Accounts, Decremented
        <3>3. Added(t, m) = 0
            BY <1>1, <1>5, <2>8 DEF Added
        <3>4. Cardinality(G) = 0
            BY <3>2, FS_EmptySet
        <3> HIDE DEF R, G, N
        <3> QED BY <2>3, <2>4, <2>6, <3>1, <3>3, <3>4
    <2> QED BY <2>7, <2>8
<1> QED BY <1>6, <1>7

\* Who answers holds no lock any more.
LEMMA AnswerTypes ==
    ASSUME IInv, NEW t \in Txs, NEW resp \in Responses \ {"ErrCheck"}, NEW got \in Int,
           AnswerWith(t, resp, got)
    PROVE  /\ call' \in [Txs -> CallRecords] /\ tx' \in [Txs -> TxRecords]
           /\ CheckNeverFails'
           /\ tx'[t] = NoTx /\ call'[t].resp # "pending"
           /\ \A s \in Txs \ {t} : tx'[s] = tx[s] /\ call'[s] = call[s]
<1>1. /\ call' = [call EXCEPT ![t].resp = resp, ![t].got = got]
      /\ tx' = [tx EXCEPT ![t] = NoTx]
      /\ call \in [Txs -> CallRecords] /\ tx \in [Txs -> TxRecords]
    BY DEF AnswerWith, IInv, TypeOK
<1>2. NoTx \in TxRecords
    BY DEF NoTx, TxRecords, Statements
<1>3. [call[t] EXCEPT !.resp = resp, !.got = got] \in CallRecords
    BY <1>1 DEF CallRecords
<1>4. call' = [call EXCEPT ![t] = [call[t] EXCEPT !.resp = resp, !.got = got]]
    BY <1>1
<1>5. call' \in [Txs -> CallRecords] /\ tx' \in [Txs -> TxRecords]
    BY <1>1, <1>2, <1>3, <1>4
<1>6. tx'[t] = NoTx /\ \A s \in Txs \ {t} : tx'[s] = tx[s] /\ call'[s] = call[s]
    BY <1>1
<1>7. call'[t].resp = resp
    BY <1>1 DEF CallRecords
<1>8. CheckNeverFails'
    BY <1>6, <1>7 DEF IInv, CheckNeverFails
<1> QED BY <1>5, <1>6, <1>7, <1>8 DEF Responses

LEMMA AnswerApart ==
    ASSUME IInv, NEW t \in Txs, tx'[t] = NoTx, \A s \in Txs \ {t} : tx'[s] = tx[s]
    PROVE  \A r, s \in Txs : ((r # s => LockedApart(r, s)) /\ NewIdApart(r, s))'
<1> SUFFICES ASSUME NEW r \in Txs, NEW s \in Txs
             PROVE  ((r # s => LockedApart(r, s)) /\ NewIdApart(r, s))'
    OBVIOUS
<1>1. (r # s => LockedApart(r, s)) /\ NewIdApart(r, s)
    BY DEF IInv
<1>2. tx[s].todo \subseteq Ids
    BY DEF IInv, TypeOK, TxRecords
<1>3. CASE r = t
    BY <1>1, <1>2, <1>3, NoneIsNoId DEF LockedApart, NewIdApart, Exclusive, NoTx
<1>4. CASE r # t /\ s = t
    BY <1>1, <1>4 DEF LockedApart, NewIdApart, Exclusive, NoTx
<1>5. CASE r # t /\ s # t
    BY <1>1, <1>5 DEF LockedApart, NewIdApart, Exclusive
<1> QED BY <1>3, <1>4, <1>5

\* The commit of t leaves the rows, counts and keys that another transaction works
\* with.
LEMMA CommitSpares ==
    ASSUME IInv, NEW t \in Txs, At(t, "Commit"), Apply(t), NEW s \in Txs \ {t},
           tx'[s] = tx[s], call'[s] = call[s]
    PROVE  Local(s)'
<1> DEFINE x == tx[t]
           y == tx[s]
           c == call[t]
           locked == Exclusive(s) \cup y.upd \cup y.keys
<1>1. /\ x.gone \subseteq db /\ x.new \notin db
      /\ x.new # None =>
            /\ x.new \in Messages
            /\ {c.user, c.to, c.chan} \ {None} \subseteq x.keys
            /\ c.id # None => c.id \in x.keys
    BY WritesOfCommit
<1>2. /\ \A m \in Messages \cap db' : m # x.new => m \in db \ x.gone /\ row'[m] = row[m]
      /\ x.new # None => row'[x.new] = NewRow(c)
      /\ db \ x.gone \subseteq db'
      /\ \A r \in db' : r = x.new \/ r \in db \ x.gone
    BY AppliedRows
<1>3. /\ WriteSetFits(s) /\ CascadeFollows(s) /\ Accounts(s) /\ TxInv(s)
      /\ LockedApart(s, t) /\ LockedApart(t, s) /\ NewIdApart(s, t) /\ NewIdApart(t, s)
      /\ y \in TxRecords /\ call[s] \in CallRecords /\ None \notin db
    BY NoneIsNoId DEF IInv, Local, TypeOK
<1>4. locked \subseteq db \ x.gone /\ x.new \notin locked
    BY <1>1, <1>3 DEF WriteSetFits, LockedApart, Exclusive
<1>5. \A m \in Messages \cap locked : row'[m] = row[m]
    BY <1>2, <1>4
<1>6. \A m \in Messages \cap db' : m = x.new \/ (m \in db /\ row'[m] = row[m])
    BY <1>2
<1>7. WriteSetFits(s)'
    <2>1. y.new \notin db'
        <3>1. y.new \notin db
            BY <1>3 DEF WriteSetFits
        <3>2. x.new # None => y.new # x.new
            BY <1>3 DEF NewIdApart
        <3>3. None \notin db'
            BY <1>2, <1>3 DEF Apply
        <3> QED BY <1>2, <3>1, <3>2, <3>3
    <2> QED BY <1>2, <1>4, <2>1 DEF WriteSetFits, Exclusive
<1>8. x.new # None => {c.user, c.to, c.chan, c.id} \cap y.gone = {}
    <2>1. y.gone \cap x.keys = {} /\ None \notin y.gone
        BY <1>3, <1>4 DEF LockedApart, Exclusive
    <2> QED BY <1>1, <2>1
<1>9. x.new \in Messages \cap db' => row'[x.new] = NewRow(c) /\ x.new # None
    BY <1>2, NoneIsNoId DEF Ids
<1>10. CascadeFollows(s)'
    <2>1. ASSUME NEW r \in y.gone, NEW m \in Referencing(db', row', r)
          PROVE  m \in y.gone \cup y.todo
        <3>1. m \in Messages \cap db' /\ r \in {row'[m].chan, row'[m].root}
            BY <2>1 DEF Referencing
        <3>2. m # x.new
            BY <1>8, <1>9, <3>1 DEF NewRow
        <3>3. m \in Referencing(db, row, r)
            BY <1>6, <3>1, <3>2 DEF Referencing
        <3> QED BY <1>3, <3>3 DEF CascadeFollows
    <2>2. ASSUME NEW u \in y.gone \cap Users, NEW m \in WrittenBy(db', row', u)
          PROVE  m \in y.gone
        <3>1. m \in Messages \cap db' /\ u \in {row'[m].author, row'[m].to}
            BY <2>2 DEF WrittenBy
        <3>2. m # x.new
            BY <1>8, <1>9, <3>1 DEF NewRow
        <3>3. m \in WrittenBy(db, row, u)
            BY <1>6, <3>1, <3>2 DEF WrittenBy
        <3> QED BY <1>3, <3>3 DEF CascadeFollows
    <2> QED BY <2>1, <2>2 DEF CascadeFollows
<1>11. Accounts(s)'
    <2>1. y.dec \subseteq y.gone \cap Messages /\ \A d \in y.dec : row[d].root \in y.upd
        BY <1>3 DEF Accounts
    <2>2. \A d \in y.dec : row'[d] = row[d]
        BY <1>5, <2>1 DEF Exclusive
    <2>3. ASSUME NEW m \in y.upd
          PROVE  y.val[m] = count'[m] - Cardinality(Decremented(s, m)') + Added(s, m)'
        <3>1. Decremented(s, m)' = Decremented(s, m) /\ Added(s, m)' = Added(s, m)
            BY <2>2 DEF Decremented, Added
        <3>2. m \in Messages /\ m \notin x.gone \cup {x.new} /\ m \notin x.upd
            BY <1>3, <1>4 DEF LockedApart, TxRecords
        <3>3. count'[m] = count[m]
            BY <3>2 DEF Apply
        <3> QED BY <1>3, <3>1, <3>3 DEF Accounts
    <2> QED BY <2>1, <2>2, <2>3 DEF Accounts
<1>12. TxInv(s)'
    <2>1. SendInv(s) => SendInv(s)'
        <3>1. ASSUME SendInv(s), y.pc \in {"Increment", "Commit"}, call[s].id # None
              PROVE  row'[call[s].id] = row[call[s].id]
            <4>1. call[s].id \in y.keys /\ call[s].id \in Messages
                BY <1>3, <3>1 DEF SendInv, CallRecords
            <4> QED BY <1>5, <4>1
        <3> QED BY <3>1 DEF SendInv
    <2>2. /\ UpdateInv(s) => UpdateInv(s)'
          /\ DeleteInv(s) => DeleteInv(s)'
          /\ DeleteUserInv(s) => DeleteUserInv(s)'
        BY DEF UpdateInv, DeleteInv, DeleteUserInv
    <2> QED BY <1>3, <2>1, <2>2 DEF TxInv, Idle
<1> QED BY <1>7, <1>10, <1>11, <1>12 DEF Local

LEMMA CommitStep ==
    ASSUME IInv, NEW t \in Txs, NEW resp \in Responses \ {"ErrCheck"}, NEW got \in Int,
           At(t, "Commit"), Apply(t), AnswerWith(t, resp, got)
    PROVE  IInv'
<1>1. /\ call' \in [Txs -> CallRecords] /\ tx' \in [Txs -> TxRecords]
      /\ CheckNeverFails'
      /\ tx'[t] = NoTx /\ call'[t].resp # "pending"
      /\ \A s \in Txs \ {t} : tx'[s] = tx[s] /\ call'[s] = call[s]
    BY AnswerTypes
<1>2. /\ db \subseteq Ids /\ row \in [Messages -> MessageRows] /\ count \in [Messages -> Int]
      /\ tx[t] \in TxRecords
    BY DEF IInv, TypeOK
<1>3. tx[t].new # None => tx[t].new \in Messages /\ NewRow(call[t]) \in MessageRows
    BY WritesOfCommit
<1>4. db' \subseteq Ids
    BY <1>2, <1>3 DEF Apply, Ids
<1>5. row' \in [Messages -> MessageRows]
    <2>1. NoRow \in MessageRows
        BY DEF NoRow, MessageRows
    <2>2. \A m \in Messages : m = tx[t].new => NewRow(call[t]) \in MessageRows
        BY <1>3, NoneIsNoId DEF Ids
    <2> QED BY <1>2, <2>1, <2>2 DEF Apply
<1>6. count' \in [Messages -> Int]
    BY <1>2 DEF Apply, TxRecords
<1>7. TypeOK'
    BY <1>1, <1>4, <1>5, <1>6 DEF TypeOK
<1>8. Local(t)'
    <2>1. None \notin db'
        BY <1>4, NoneIsNoId
    <2>2. TxInv(t)'
        BY <1>1 DEF TxInv, Idle
    <2>3. WriteSetFits(t)' /\ CascadeFollows(t)' /\ Accounts(t)'
        BY <1>1, <2>1 DEF WriteSetFits, CascadeFollows, Accounts, Exclusive, NoTx
    <2> QED BY <2>2, <2>3 DEF Local
<1>9. \A s \in Txs : Local(s)'
    BY <1>1, <1>8, CommitSpares
<1>10. \A r, s \in Txs : ((r # s => LockedApart(r, s)) /\ NewIdApart(r, s))'
    BY <1>1, AnswerApart
<1>11. ReplyCountsAreExact' /\ NoDanglingMessage'
    BY CommitKeepsCounts, CommitKeepsKeys
<1> QED BY <1>1, <1>7, <1>9, <1>10, <1>11 DEF IInv

-----------------------------------------------------------------------------
(* The theorems. *)

LEMMA InitInv == ASSUME Init PROVE IInv
<1> USE DEF Init
<1>1. NoTx \in TxRecords /\ NoCall \in CallRecords /\ NoRow \in MessageRows
    BY DEF NoTx, TxRecords, Statements, NoCall, CallRecords, NoRow, MessageRows
<1>2. TypeOK
    BY <1>1 DEF TypeOK, Ids
<1>3. Messages \cap db = {} /\ None \notin db
    BY IdsAreDisjoint, NoneIsNoId DEF Ids
<1>4. ReplyCountsAreExact /\ NoDanglingMessage
    BY <1>3 DEF ReplyCountsAreExact, NoDanglingMessage
<1>5. CheckNeverFails
    BY DEF CheckNeverFails, NoCall
<1>6. ASSUME NEW t \in Txs PROVE Local(t)
    BY <1>3 DEF Local, WriteSetFits, CascadeFollows, Accounts, TxInv, Idle, NoTx, NoCall,
                Exclusive
<1>7. \A s, t \in Txs : LockedApart(s, t) /\ NewIdApart(s, t)
    BY DEF LockedApart, NewIdApart, NoTx, Exclusive
<1> QED BY <1>2, <1>4, <1>5, <1>6, <1>7 DEF IInv

LEMMA NextInv == ASSUME IInv, [Next]_vars PROVE IInv'
<1>1. CASE UNCHANGED vars
    <2>1. TypeOK' /\ ReplyCountsAreExact' /\ CheckNeverFails' /\ NoDanglingMessage'
        BY <1>1 DEF vars, store, IInv, TypeOK, ReplyCountsAreExact, CheckNeverFails,
                    NoDanglingMessage
    <2>2. ASSUME NEW t \in Txs PROVE Local(t)'
        <3>1. Local(t)
            BY DEF IInv
        <3>2. WriteSetFits(t)' /\ CascadeFollows(t)' /\ Accounts(t)'
            BY <1>1, <3>1 DEF vars, store, Local, WriteSetFits, CascadeFollows, Accounts,
                              Exclusive, Decremented, Added
        <3>3. TxInv(t)'
            BY <1>1, <3>1 DEF vars, store, Local, TxInv, Idle, SendInv, UpdateInv, DeleteInv,
                              DeleteUserInv
        <3> QED BY <3>2, <3>3 DEF Local
    <2>3. \A s, t \in Txs : ((s # t => LockedApart(s, t)) /\ NewIdApart(s, t))'
        BY <1>1 DEF vars, store, IInv, LockedApart, NewIdApart, Exclusive
    <2> QED BY <2>1, <2>2, <2>3 DEF IInv
<1>2. ASSUME NEW t \in Txs, Arrive(t) \/ Return(t) \/ Step(t) \/ Failure(t) \/ CommitLost(t)
      PROVE  IInv'
    <2>1. CASE Arrive(t) \/ Return(t)
        BY <2>1, ArriveInv, ReturnInv
    <2>2. CASE CheckKey(t) \/ Increment(t) \/ Update(t) \/ Read(t) \/ ReadPage(t)
        BY <2>2, CheckKeyInv, IncrementInv, UpdateActionInv, ReadActionInv, ReadPageInv
    <2>3. CASE \/ Delete(t) \/ LockUserRow(t) \/ DeleteWorkspacesOwnedByUser(t)
               \/ DeleteUser(t) \/ VisitRow(t) \/ Decrement(t)
        BY <2>3, DeleteActionInv, LockUserRowInv, DeleteWorkspacesInv, DeleteUserActionInv,
           VisitRowInv, DecrementInv
    <2>4. CASE DeletedNone(t) \/ DeadlockAbort(t) \/ Failure(t)
        BY <2>4, RefuseStep DEF DeletedNone, DeadlockAbort, Failure, StatementFails, Refuse,
                                Responses
    <2>5. CASE Commit(t)
        <3>1. Returned(t) \in Int
            <4>1. First(call[t].op) = "Update" => call[t].id \in Messages
                <5>1. TxInv(t) /\ tx[t].pc = "Commit"
                    BY <2>5 DEF IInv, Local, Commit, At
                <5> QED BY <5>1 DEF TxInv, Idle, NoTx, UpdateInv
            <4>2. tx[t].val \in [Messages -> Int]
                BY DEF IInv, TypeOK, TxRecords
            <4> QED BY <4>1, <4>2 DEF Returned
        <3> QED BY <2>5, <3>1, CommitStep DEF Commit, Responses
    <2>6. CASE CommitLost(t)
        BY <2>6, CommitStep DEF CommitLost, Responses
    <2> QED BY <1>2, <2>1, <2>2, <2>3, <2>4, <2>5, <2>6 DEF Step
<1> QED BY <1>1, <1>2 DEF Next

\* IInv holds in every state of every behaviour.
THEOREM Invariance == Spec => []IInv
BY InitInv, NextInv, PTL DEF Spec

\* The tables, calls and transactions keep the types of the columns and fields that
\* they stand for.
THEOREM TypeCorrect == Spec => []TypeOK
<1>1. IInv => TypeOK
    BY DEF IInv
<1> QED BY <1>1, Invariance, PTL

\* The stored reply count of every message is the number of its replies (what
\* message/model.go:60 says of ReplyCount), however many calls change a thread.
THEOREM ReplyCounts == Spec => []ReplyCountsAreExact
<1>1. IInv => ReplyCountsAreExact
    BY DEF IInv
<1> QED BY <1>1, Invariance, PTL

\* The decrement of migration 5 never runs into the CHECK of migration 3.
THEOREM NoFailedCheck == Spec => []CheckNeverFails
<1>1. IInv => CheckNeverFails
    BY DEF IInv
<1> QED BY <1>1, Invariance, PTL

\* Foreign keys hold: nothing a message refers to is deleted without it.
THEOREM ReferencesHold == Spec => []NoDanglingMessage
<1>1. IInv => NoDanglingMessage
    BY DEF IInv
<1> QED BY <1>1, Invariance, PTL
=============================================================================
