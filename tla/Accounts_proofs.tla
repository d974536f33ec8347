--------------------------- MODULE Accounts_proofs ---------------------------
(***************************************************************************)
(* Proofs about Accounts: the inductive invariant IInv of AccountsSafety,  *)
(* and from it the properties of every set of accounts.                    *)
(***************************************************************************)
EXTENDS AccountsSafety, TLAPS

Local(t) == Entered(t) /\ TxInv(t)

\* What a step of transaction t has to restore when it leaves the tables alone.
ApartFrom(t) == \A s \in Txs \ {t} : TxsApart(s, t) /\ TxsApart(t, s)

\* A step of t that leaves the accounts alone disturbs only what concerns t.
LEMMA QuietStep ==
    ASSUME IInv, NEW t \in Txs, UNCHANGED <<users, identities>>, TypeOK',
           \A s \in Txs \ {t} : tx'[s] = tx[s] /\ call'[s] = call[s],
           Local(t)', ApartFrom(t)'
    PROVE  IInv'
<1>1. AccountsAreComplete' /\ KeysAreUnique' /\ StoredTrimmed'
    BY DEF IInv, AccountsAreComplete, KeysAreUnique, StoredTrimmed, Registered
<1>2. ASSUME NEW s \in Txs, s # t PROVE Local(s)'
    <2>1. tx'[s] = tx[s] /\ call'[s] = call[s]
        BY <1>2
    <2>2. Entered(s) /\ TxInv(s)
        BY DEF IInv
    <2>3. Entered(s)'
        BY <2>1, <2>2 DEF Entered, Registered, OwnersOf
    <2>4. TxInv(s)'
        <3>1. /\ CreateInv(s) => CreateInv(s)'
              /\ OtherInv(s) => OtherInv(s)'
            BY <2>1 DEF CreateInv, OtherInv, Resolved, Registered
        <3> QED BY <2>1, <2>2, <3>1 DEF TxInv
    <2> QED BY <2>3, <2>4 DEF Local
<1>3. ASSUME NEW r \in Txs, NEW s \in Txs, r # s PROVE TxsApart(r, s)'
    <2>1. CASE r = t \/ s = t
        BY <1>3, <2>1 DEF ApartFrom
    <2>2. CASE r # t /\ s # t
        <3>1. /\ tx'[r] = tx[r] /\ tx'[s] = tx[s]
              /\ call'[r] = call[r] /\ call'[s] = call[s]
              /\ TxsApart(r, s)
            BY <2>2, <1>3 DEF IInv
        <3> QED BY <3>1 DEF TxsApart
    <2> QED BY <2>1, <2>2
<1> QED BY <1>1, <1>2, <1>3 DEF IInv, Local

\* An answer keeps the types.
LEMMA AnswerTypes ==
    ASSUME TypeOK, NEW t \in Txs, NEW resp \in Responses, NEW us \in SUBSET Ids,
           NEW wss \in SUBSET Workspaces, AnswerWith(t, resp, us, wss)
    PROVE  /\ call' \in [Txs -> CallRecords] /\ tx' \in [Txs -> TxRecords]
           /\ tx'[t] = NoTx /\ call'[t].resp = resp
           /\ call'[t].actor = call[t].actor
           /\ \A s \in Txs \ {t} : tx'[s] = tx[s] /\ call'[s] = call[s]
<1>1. /\ call' = [call EXCEPT ![t].resp = resp, ![t].users = us, ![t].wss = wss]
      /\ tx' = [tx EXCEPT ![t] = NoTx]
      /\ call \in [Txs -> CallRecords] /\ tx \in [Txs -> TxRecords]
    BY DEF AnswerWith, TypeOK
<1>2. NoTx \in TxRecords
    BY DEF NoTx, TxRecords
<1>3. call' = [call EXCEPT ![t] = [call[t] EXCEPT !.resp = resp, !.users = us, !.wss = wss]]
    BY <1>1
<1>4. [call[t] EXCEPT !.resp = resp, !.users = us, !.wss = wss] \in CallRecords
    BY <1>1 DEF CallRecords
<1>5. call'[t].resp = resp /\ call'[t].actor = call[t].actor
    BY <1>1, <1>3 DEF CallRecords
<1> QED BY <1>1, <1>2, <1>3, <1>4, <1>5

\* A finished transaction stands in nobody's way.
LEMMA DoneApart ==
    ASSUME IInv, NEW t \in Txs, tx'[t] = NoTx, call'[t].actor = call[t].actor,
           \A s \in Txs \ {t} : tx'[s] = tx[s] /\ call'[s] = call[s]
    PROVE  ApartFrom(t)'
<1> SUFFICES ASSUME NEW s \in Txs \ {t} PROVE (TxsApart(s, t) /\ TxsApart(t, s))'
    BY DEF ApartFrom
<1>1. /\ TxsApart(s, t) /\ tx'[s] = tx[s] /\ call'[s] = call[s]
    BY DEF IInv
<1>2. (tx[s].new # None => tx[s].new \notin {tx'[t].new, call'[t].actor})
    BY <1>1 DEF TxsApart, NoTx
<1>3. tx'[t].keys = {} /\ tx'[t].held = {} /\ tx'[t].new = None
    BY DEF NoTx
<1> QED BY <1>1, <1>2, <1>3 DEF TxsApart

\* A method returns without having changed the tables.
LEMMA RefuseStep ==
    ASSUME IInv, NEW t \in Txs, NEW resp \in Responses, NEW us \in SUBSET Ids,
           NEW wss \in SUBSET Workspaces, AnswerWith(t, resp, us, wss), UNCHANGED store
    PROVE  IInv'
<1>1. TypeOK
    BY DEF IInv
<1>2. /\ call' \in [Txs -> CallRecords] /\ tx' \in [Txs -> TxRecords]
      /\ tx'[t] = NoTx /\ call'[t].resp = resp
      /\ call'[t].actor = call[t].actor
      /\ \A s \in Txs \ {t} : tx'[s] = tx[s] /\ call'[s] = call[s]
    BY <1>1, AnswerTypes
<1>3. TypeOK'
    BY <1>1, <1>2 DEF TypeOK, store
<1>4. Local(t)'
    <2>1. resp # "pending"
        BY DEF Responses
    <2>2. None \notin Registered'
        BY <1>3, NoneIsNoId DEF TypeOK, UserRows, Registered
    <2> QED BY <1>2, <2>1, <2>2 DEF Local, TxInv, Entered, NoTx
<1>5. ApartFrom(t)'
    BY <1>2, DoneApart
<1> QED BY <1>2, <1>3, <1>4, <1>5, QuietStep DEF store

\* What IInv says of t while its statements run.
LEMMA RunningInv ==
    ASSUME IInv, NEW t \in Txs, tx[t].pc # "none"
    PROVE  /\ call[t].resp = "pending" /\ Entered(t) /\ TxInv(t)
           /\ call[t] \in CallRecords /\ tx[t] \in TxRecords
           /\ call \in [Txs -> CallRecords] /\ tx \in [Txs -> TxRecords]
           /\ tx[t].pc \in Keys => CreateInv(t)
           /\ tx[t].pc \notin Keys \cup {"Commit"} => OtherInv(t)
           /\ CreateInv(t) \/ OtherInv(t)
<1>1. /\ call[t] \in CallRecords /\ tx[t] \in TxRecords /\ Entered(t) /\ TxInv(t)
      /\ call \in [Txs -> CallRecords] /\ tx \in [Txs -> TxRecords]
    BY DEF IInv, TypeOK
<1>2. call[t].resp = "pending" /\ (CreateInv(t) \/ OtherInv(t))
    BY <1>1 DEF TxInv, NoTx
<1>3. /\ tx[t].pc \in Keys => CreateInv(t)
      /\ tx[t].pc \notin Keys \cup {"Commit"} => OtherInv(t)
    BY <1>2 DEF CreateInv, OtherInv, Keys
<1> QED BY <1>1, <1>2, <1>3

-----------------------------------------------------------------------------
(* The actions. *)

\* A step of t that changes nothing but its transaction.
LEMMA TxStep ==
    ASSUME IInv, NEW t \in Txs, NEW x \in TxRecords, tx' = [tx EXCEPT ![t] = x],
           UNCHANGED <<store, call>>, Local(t)', ApartFrom(t)'
    PROVE  IInv'
<1>1. TypeOK
    BY DEF IInv
<1>2. TypeOK'
    BY <1>1 DEF TypeOK, store
<1>3. \A s \in Txs \ {t} : tx'[s] = tx[s] /\ call'[s] = call[s]
    BY <1>1 DEF TypeOK
<1> QED BY <1>2, <1>3, QuietStep DEF store

LEMMA InsertKeyInv == ASSUME IInv, NEW t \in Txs, InsertKey(t) PROVE IInv'
<1> DEFINE k == tx[t].pc
           x == [tx[t] EXCEPT !.pc = AfterKey[k], !.keys = @ \cup {k}]
<1>1. k \in Keys /\ KeyBlockers(t, k) = {} /\ k # "none"
    BY DEF InsertKey, Keys
<1>2. /\ call[t].resp = "pending" /\ Entered(t) /\ CreateInv(t)
      /\ call[t] \in CallRecords /\ tx[t] \in TxRecords
      /\ call \in [Txs -> CallRecords] /\ tx \in [Txs -> TxRecords]
    BY <1>1, RunningInv
<1>3. CASE OwnersOf(k, KeyOf(call[t], k)) # {} /\ Refuse(t, TakenErrors[k])
    <2>1. TakenErrors[k] \in Responses
        BY <1>1 DEF TakenErrors, Responses, Keys
    <2> QED BY <1>3, <2>1, RefuseStep DEF Refuse
<1>4. CASE /\ OwnersOf(k, KeyOf(call[t], k)) = {}
           /\ tx' = [tx EXCEPT ![t].pc = AfterKey[k], ![t].keys = @ \cup {k}]
           /\ UNCHANGED <<store, call>>
    <2>1. /\ x \in TxRecords /\ tx' = [tx EXCEPT ![t] = x]
          /\ x.new = tx[t].new /\ x.held = tx[t].held /\ x.gone = tx[t].gone
          /\ x.keys = tx[t].keys \cup {k} /\ x.pc = AfterKey[k]
        <3>1. AfterKey[k] \in Statements /\ k \in Keys
            BY <1>1 DEF Keys, Statements, AfterKey
        <3>2. x \in TxRecords
            BY <1>2, <3>1 DEF TxRecords
        <3>3. tx' = [tx EXCEPT ![t] = x]
            BY <1>4
        <3> QED BY <1>2, <3>2, <3>3 DEF TxRecords
    <2>2. tx'[t] = x /\ call' = call
        BY <1>2, <1>4, <2>1
    <2>3. Entered(t)'
        <3>1. \A j \in x.keys : OwnersOf(j, KeyOf(call[t], j))' = {}
            <4> SUFFICES ASSUME NEW j \in x.keys
                         PROVE  OwnersOf(j, KeyOf(call[t], j))' = {}
                OBVIOUS
            <4>1. OwnersOf(j, KeyOf(call[t], j)) = {}
                BY <1>2, <1>4, <2>1 DEF Entered
            <4>2. OwnersOf(j, KeyOf(call[t], j))' = OwnersOf(j, KeyOf(call[t], j))
                BY <1>4 DEF OwnersOf, store
            <4> QED BY <4>1, <4>2
        <3>2. (tx[t].new \notin Registered)' /\ (tx[t].held \subseteq Registered)'
            BY <1>2, <1>4, <2>1, <2>2 DEF Entered, Registered, store
        <3> QED BY <3>1, <3>2, <2>2 DEF Entered
    <2>4. TxInv(t)'
        BY <1>1, <1>2, <2>1, <2>2 DEF TxInv, CreateInv, AfterKey, Keys
    <2>5. ApartFrom(t)'
        <3> SUFFICES ASSUME NEW s \in Txs \ {t} PROVE (TxsApart(s, t) /\ TxsApart(t, s))'
            BY DEF ApartFrom
        <3>1. TxsApart(s, t) /\ TxsApart(t, s) /\ tx'[s] = tx[s]
            BY <1>2, <2>1 DEF IInv
        <3>2. k \in tx[s].keys => KeyOf(call[s], k) # KeyOf(call[t], k)
            BY <1>1 DEF KeyBlockers
        <3> QED BY <3>1, <3>2, <2>1, <2>2 DEF TxsApart
    <2> HIDE DEF x
    <2> QED BY <1>4, <2>1, <2>3, <2>4, <2>5, TxStep DEF Local
<1> QED BY <1>3, <1>4 DEF InsertKey

LEMMA ReadsInv ==
    ASSUME IInv, NEW t \in Txs, SelectUser(t) \/ ListUsers(t) \/ ListUserWorkspaces(t)
    PROVE  IInv'
<1>1. /\ users \subseteq UserRows /\ members \subseteq MemberRows /\ call[t] \in CallRecords
    BY DEF IInv, TypeOK
<1>2. CASE SelectUser(t)
    <2>1. /\ call[t].id \notin Registered /\ Refuse(t, "ErrNotFound")
          \/ /\ call[t].id \in Registered
             /\ AnswerWith(t, "ok", {call[t].id}, {}) /\ UNCHANGED store
        BY <1>2 DEF SelectUser
    <2>2. call[t].id \in Registered => {call[t].id} \in SUBSET Ids
        BY <1>1 DEF Registered, UserRows
    <2> QED BY <2>1, <2>2, RefuseStep DEF Refuse, Responses
<1>3. CASE ListUsers(t)
    <2>1. Registered \in SUBSET Ids
        BY <1>1 DEF Registered, UserRows
    <2> QED BY <1>3, <2>1, RefuseStep DEF ListUsers, Responses
<1>4. CASE ListUserWorkspaces(t)
    <2>1. tx[t].pc = "ListUserWorkspaces"
        BY <1>4 DEF ListUserWorkspaces
    <2>2. OtherInv(t)
        BY <2>1, RunningInv DEF Keys
    <2>3. {call[t].actor} \in SUBSET Ids
        BY <2>1, <2>2 DEF OtherInv
    <2>4. {m.ws : m \in {y \in members : y.user = call[t].actor}} \in SUBSET Workspaces
        BY <1>1 DEF MemberRows
    <2> HIDE DEF OtherInv
    <2> QED BY <1>4, <2>3, <2>4, RefuseStep DEF ListUserWorkspaces, Responses
<1> QED BY <1>2, <1>3, <1>4

LEMMA SelectUserByIdentityInv ==
    ASSUME IInv, NEW t \in Txs, SelectUserByIdentity(t) PROVE IInv'
<1>1. tx[t].pc = "SelectUserByIdentity"
    BY DEF SelectUserByIdentity
<1>2. /\ call[t].resp = "pending" /\ Entered(t) /\ OtherInv(t)
      /\ call[t] \in CallRecords /\ tx[t] \in TxRecords
      /\ call \in [Txs -> CallRecords] /\ tx \in [Txs -> TxRecords]
    BY <1>1, RunningInv DEF Keys
<1>3. CASE \E resp \in {"ErrForbidden", "ErrNotFound"} : Refuse(t, resp)
    BY <1>3, RefuseStep DEF Refuse, Responses
<1>4. ASSUME NEW i \in identities, i.subject = call[t].subject, i.user \in Registered,
             call[t].op = "DeleteUser" => i.user = call[t].id,
             call' = [call EXCEPT ![t].actor = i.user],
             Goto(t, IF call[t].op = "DeleteUser" THEN "LockUserRow" ELSE "ListUserWorkspaces"),
             UNCHANGED store
      PROVE  IInv'
    <2> DEFINE c == [call[t] EXCEPT !.actor = i.user]
               pc == IF call[t].op = "DeleteUser" THEN "LockUserRow" ELSE "ListUserWorkspaces"
               x == [tx[t] EXCEPT !.pc = pc]
    <2>1. i \in IdentityRows /\ i = [user |-> i.user, subject |-> call[t].subject]
        BY <1>4 DEF IInv, TypeOK, IdentityRows
    <2>2. /\ c \in CallRecords /\ call' = [call EXCEPT ![t] = c]
          /\ c.actor = i.user /\ c.op = call[t].op /\ c.resp = call[t].resp
          /\ c.id = call[t].id /\ c.subject = call[t].subject
          /\ c.email = call[t].email /\ c.name = call[t].name
        BY <1>2, <1>4, <2>1 DEF CallRecords, IdentityRows
    <2>3. /\ x \in TxRecords /\ tx' = [tx EXCEPT ![t] = x]
          /\ x.pc = pc /\ x.new = tx[t].new /\ x.keys = tx[t].keys
          /\ x.held = tx[t].held /\ x.gone = tx[t].gone
        BY <1>2, <1>4 DEF TxRecords, Statements, Goto
    <2> HIDE DEF c, x
    <2>4. tx'[t] = x /\ call'[t] = c /\ \A s \in Txs \ {t} : tx'[s] = tx[s] /\ call'[s] = call[s]
        BY <1>2, <2>2, <2>3
    <2>5. TypeOK'
        <3>1. TypeOK
            BY DEF IInv
        <3>2. call' \in [Txs -> CallRecords] /\ tx' \in [Txs -> TxRecords]
            BY <1>2, <2>2, <2>3
        <3> QED BY <1>4, <3>1, <3>2 DEF TypeOK, store
    <2>6. tx[t].new = None /\ tx[t].keys = {} /\ tx[t].held = {} /\ tx[t].gone = {}
        BY <1>1, <1>2 DEF OtherInv
    <2>7. Local(t)'
        <3>1. Entered(t)'
            BY <1>2, <1>4, <2>3, <2>4, <2>6 DEF Entered, Registered, store
        <3>2. Resolved(t)'
            BY <1>4, <2>1, <2>2, <2>4 DEF Resolved, store
        <3>3. OtherInv(t)'
            <4>1. call[t].op \in NeedsActor /\ call[t].op # "CreateUser"
                BY <1>1, <1>2 DEF OtherInv
            <4>2. call'[t].actor \in Ids
                BY <2>1, <2>2, <2>4 DEF IdentityRows
            <4>3. CASE call[t].op = "DeleteUser"
                BY <1>4, <2>2, <2>3, <2>4, <2>6, <3>2, <4>1, <4>2, <4>3 DEF OtherInv
            <4>4. CASE call[t].op = "ReadUserProfile"
                BY <2>2, <2>3, <2>4, <2>6, <3>2, <4>1, <4>2, <4>4 DEF OtherInv
            <4> QED BY <4>1, <4>3, <4>4 DEF NeedsActor
        <3> QED BY <1>2, <2>2, <2>4, <3>1, <3>3 DEF Local, TxInv
    <2>8. ApartFrom(t)'
        <3> SUFFICES ASSUME NEW s \in Txs \ {t} PROVE (TxsApart(s, t) /\ TxsApart(t, s))'
            BY DEF ApartFrom
        <3>1. TxsApart(s, t) /\ Entered(s) /\ tx'[s] = tx[s] /\ call'[s] = call[s]
            BY <2>4 DEF IInv
        <3>2. tx[s].new # i.user
            BY <1>4, <3>1 DEF Entered
        <3> QED BY <2>2, <2>3, <2>4, <2>6, <3>1, <3>2 DEF TxsApart
    <2> QED BY <1>4, <2>4, <2>5, <2>7, <2>8, QuietStep DEF store
<1> QED BY <1>3, <1>4 DEF SelectUserByIdentity

LEMMA LockUserRowInv == ASSUME IInv, NEW t \in Txs, LockUserRow(t) PROVE IInv'
<1> DEFINE u == call[t].actor
           x == [tx[t] EXCEPT !.pc = "DeleteUser", !.held = {u}]
<1>1. tx[t].pc = "LockUserRow" /\ Lockers(t, u) = {}
    BY DEF LockUserRow
<1>2. /\ call[t].resp = "pending" /\ Entered(t) /\ OtherInv(t)
      /\ tx[t] \in TxRecords /\ tx \in [Txs -> TxRecords]
    BY <1>1, RunningInv DEF Keys
<1>3. CASE Refuse(t, "ErrNotFound")
    BY <1>3, RefuseStep DEF Refuse, Responses
<1>4. CASE /\ u \in Registered
           /\ tx' = [tx EXCEPT ![t].pc = "DeleteUser", ![t].held = {u}]
           /\ UNCHANGED <<store, call>>
    <2>1. u \in Ids /\ tx[t].new = None /\ tx[t].keys = {} /\ tx[t].gone = {}
        BY <1>1, <1>2 DEF OtherInv
    <2>2. /\ x \in TxRecords /\ tx' = [tx EXCEPT ![t] = x]
          /\ x.pc = "DeleteUser" /\ x.new = None /\ x.keys = {} /\ x.held = {u} /\ x.gone = {}
        BY <1>2, <1>4, <2>1 DEF TxRecords, Statements
    <2> HIDE DEF x
    <2>3. tx'[t] = x /\ call' = call
        BY <1>2, <1>4, <2>2
    <2>4. Local(t)'
        <3>1. Entered(t)'
            BY <1>2, <1>4, <2>1, <2>2, <2>3 DEF Entered, Registered, store
        <3>2. Resolved(t)'
            BY <1>1, <1>2, <1>4 DEF OtherInv, Resolved, Registered, store
        <3>3. OtherInv(t)'
            BY <1>1, <1>2, <2>2, <2>3, <3>2 DEF OtherInv
        <3> QED BY <1>2, <2>3, <3>1, <3>3 DEF Local, TxInv
    <2>5. ApartFrom(t)'
        <3> SUFFICES ASSUME NEW s \in Txs \ {t} PROVE (TxsApart(s, t) /\ TxsApart(t, s))'
            BY DEF ApartFrom
        <3>1. TxsApart(s, t) /\ TxsApart(t, s) /\ tx'[s] = tx[s]
            BY <1>2, <2>2 DEF IInv
        <3>2. u \notin tx[s].held
            BY <1>1 DEF Lockers
        <3> QED BY <2>1, <2>2, <2>3, <3>1, <3>2 DEF TxsApart
    <2> QED BY <1>4, <2>2, <2>4, <2>5, TxStep
<1> QED BY <1>3, <1>4 DEF LockUserRow

LEMMA DeleteUserActionInv == ASSUME IInv, NEW t \in Txs, DeleteUser(t) PROVE IInv'
<1> DEFINE x == [tx[t] EXCEPT !.pc = "Commit", !.gone = tx[t].held]
<1>1. /\ tx[t].pc = "DeleteUser" /\ UNCHANGED <<store, call>>
      /\ tx' = [tx EXCEPT ![t].pc = "Commit", ![t].gone = tx[t].held]
    BY DEF DeleteUser
<1>2. /\ call[t].resp = "pending" /\ Entered(t) /\ OtherInv(t)
      /\ tx[t] \in TxRecords /\ tx \in [Txs -> TxRecords]
    BY <1>1, RunningInv DEF Keys
<1>3. /\ x \in TxRecords /\ tx' = [tx EXCEPT ![t] = x]
      /\ x.pc = "Commit" /\ x.new = tx[t].new /\ x.keys = tx[t].keys
      /\ x.held = tx[t].held /\ x.gone = tx[t].held
    BY <1>1, <1>2 DEF TxRecords, Statements
<1> HIDE DEF x
<1>4. tx'[t] = x /\ call' = call
    BY <1>1, <1>2, <1>3
<1>5. tx[t].new = None /\ tx[t].keys = {}
    BY <1>2 DEF OtherInv
<1>6. Local(t)'
    <2>1. Entered(t)'
        BY <1>1, <1>2, <1>3, <1>4, <1>5 DEF Entered, Registered, store
    <2>2. Resolved(t)'
        BY <1>1, <1>2 DEF OtherInv, Resolved, Registered, store
    <2>3. OtherInv(t)'
        BY <1>1, <1>2, <1>3, <1>4, <2>2 DEF OtherInv
    <2> QED BY <1>2, <1>4, <2>1, <2>3 DEF Local, TxInv
<1>7. ApartFrom(t)'
    <2> SUFFICES ASSUME NEW s \in Txs \ {t} PROVE (TxsApart(s, t) /\ TxsApart(t, s))'
        BY DEF ApartFrom
    <2>1. TxsApart(s, t) /\ TxsApart(t, s) /\ tx'[s] = tx[s]
        BY <1>2, <1>3 DEF IInv
    <2> QED BY <1>3, <1>4, <1>5, <2>1 DEF TxsApart
<1> QED BY <1>1, <1>3, <1>6, <1>7, TxStep

LEMMA ReturnInv == ASSUME IInv, NEW t \in Txs, Return(t) PROVE IInv'
<1>1. /\ call[t].resp \in Responses /\ call' = [call EXCEPT ![t] = NoCall]
      /\ UNCHANGED <<store, tx>>
      /\ call \in [Txs -> CallRecords] /\ tx \in [Txs -> TxRecords] /\ TypeOK
    BY DEF Return, IInv, TypeOK
<1>2. NoCall \in CallRecords
    BY DEF NoCall, CallRecords
<1>3. TypeOK'
    BY <1>1, <1>2 DEF TypeOK, store
<1>4. tx[t] = NoTx /\ Entered(t)
    BY <1>1 DEF IInv, TxInv, Responses
<1>5. tx'[t] = NoTx /\ call'[t] = NoCall /\ \A s \in Txs \ {t} : tx'[s] = tx[s] /\ call'[s] = call[s]
    BY <1>1, <1>4
<1>6. Local(t)'
    BY <1>1, <1>4, <1>5 DEF Local, Entered, TxInv, NoTx, NoCall, Registered, store
<1>7. ApartFrom(t)'
    <2> SUFFICES ASSUME NEW s \in Txs \ {t} PROVE (TxsApart(s, t) /\ TxsApart(t, s))'
        BY DEF ApartFrom
    <2>1. TxsApart(s, t) /\ tx'[s] = tx[s] /\ call'[s] = call[s]
        BY <1>5 DEF IInv
    <2> QED BY <1>4, <1>5, <2>1 DEF TxsApart, NoTx, NoCall
<1> QED BY <1>1, <1>3, <1>5, <1>6, <1>7, QuietStep DEF store

LEMMA ArriveInv == ASSUME IInv, NEW t \in Txs, Arrive(t) PROVE IInv'
<1>1. PICK r \in Requests :
          /\ call' = [call EXCEPT ![t] = Received(r)]
          /\ \/ Received(r).resp # "pending" /\ UNCHANGED tx
             \/ /\ Received(r).resp = "pending" /\ r.op # "CreateUser"
                /\ Goto(t, First(r.op))
             \/ /\ Received(r).resp = "pending" /\ r.op = "CreateUser"
                /\ \E u \in Ids : /\ Fresh(u)
                                  /\ tx' = [tx EXCEPT ![t].pc = First(r.op), ![t].new = u]
    BY DEF Arrive
<1>2. /\ TypeOK /\ call[t] = NoCall /\ UNCHANGED store
      /\ call \in [Txs -> CallRecords] /\ tx \in [Txs -> TxRecords]
    BY DEF Arrive, IInv, TypeOK
<1>3. Entered(t) /\ tx[t] = NoTx
    BY <1>2 DEF IInv, TxInv, NoCall
<1> DEFINE c == Received(r)
<1>4. /\ c \in CallRecords /\ c.op = r.op /\ c.actor = None /\ c.resp = IF Invalid(r) = "none" THEN "pending" ELSE Invalid(r)
      /\ c.email = r.email /\ c.name = r.name /\ c.subject = r.subject
    <2>1. /\ r.op \in Ops /\ r.id \in Ids \cup {None} /\ r.email \in Texts \cup {None}
          /\ r.name \in Texts \cup {None} /\ r.subject \in Texts \cup {None}
        BY FieldsAreTexts DEF Requests
    <2>2. Invalid(r) = "none" \/ Invalid(r) \in Responses
        BY DEF Invalid, Responses
    <2> QED BY <2>1, <2>2 DEF Received, CallRecords
<1>5. r.op \in Operations
    BY OpsAreOperations DEF Requests
<1>6. c.resp = "pending" /\ r.op = "CreateUser" =>
          /\ {c.email, c.name, c.subject} \subseteq Texts
          /\ Trim[c.email] # Empty /\ Trim[c.name] # Empty
    BY <1>4, FieldsAreTexts DEF Invalid, Requests
<1> HIDE DEF c
<1>7. call'[t] = c /\ \A s \in Txs \ {t} : call'[s] = call[s]
    BY <1>1, <1>2 DEF c
<1>8. ASSUME NEW x \in TxRecords, tx' = [tx EXCEPT ![t] = x],
             x.keys = {}, x.held = {}, x.gone = {},
             x.new # None => Fresh(x.new),
             TxInv(t)'
      PROVE  IInv'
    <2>1. tx'[t] = x /\ \A s \in Txs \ {t} : tx'[s] = tx[s] /\ call'[s] = call[s]
        BY <1>2, <1>7, <1>8
    <2>2. TypeOK'
        <3>1. call' \in [Txs -> CallRecords]
            BY <1>1, <1>2, <1>4 DEF c
        <3>2. tx' \in [Txs -> TxRecords]
            BY <1>2, <1>8
        <3> QED BY <1>2, <3>1, <3>2 DEF TypeOK, store
    <2>3. Entered(t)'
        <3>1. None \notin Registered
            BY <1>2, NoneIsNoId DEF TypeOK, UserRows, Registered
        <3>2. x.new \notin Registered
            BY <1>8, <3>1 DEF Fresh
        <3> QED BY <1>2, <1>8, <2>1, <3>2 DEF Entered, Registered, store
    <2>4. ApartFrom(t)'
        <3> SUFFICES ASSUME NEW s \in Txs \ {t} PROVE (TxsApart(s, t) /\ TxsApart(t, s))'
            BY DEF ApartFrom
        <3>1. tx[s].new = None \/ tx[s].new \in Ids
            BY <1>2 DEF TxRecords
        <3>2. x.new # None => x.new \notin {tx[s].new, call[s].actor}
            BY <1>8 DEF Fresh
        <3> QED BY <1>4, <1>7, <1>8, <2>1, <3>1, <3>2 DEF TxsApart
    <2> QED BY <1>2, <1>8, <2>1, <2>2, <2>3, <2>4, QuietStep DEF Local, store
<1>9. NoTx \in TxRecords
    BY DEF NoTx, TxRecords
<1>10. CASE c.resp # "pending" /\ UNCHANGED tx
    <2>1. tx' = [tx EXCEPT ![t] = NoTx]
        BY <1>2, <1>3, <1>10
    <2>2. tx'[t] = NoTx
        BY <1>3, <1>10
    <2>3. TxInv(t)'
        BY <1>7, <1>10, <2>2 DEF TxInv
    <2> QED BY <1>8, <1>9, <2>1, <2>3 DEF NoTx
<1>11. CASE c.resp = "pending" /\ r.op # "CreateUser" /\ Goto(t, First(r.op))
    <2> DEFINE x == [NoTx EXCEPT !.pc = First(r.op)]
    <2>1. First(r.op) \in {"SelectUser", "ListUsers", "SelectUserByIdentity"}
        BY <1>11 DEF First
    <2>2. /\ x \in TxRecords /\ tx' = [tx EXCEPT ![t] = x]
          /\ x.pc = First(r.op) /\ x.new = None /\ x.keys = {} /\ x.held = {} /\ x.gone = {}
        BY <1>2, <1>3, <1>11, <2>1 DEF TxRecords, NoTx, Goto, Statements
    <2> HIDE DEF x
    <2>3. tx'[t] = x
        BY <1>2, <2>2
    <2>4. TxInv(t)'
        <3>1. \/ r.op = "ReadUser" /\ First(r.op) = "SelectUser"
              \/ r.op = "ListUsers" /\ First(r.op) = "ListUsers"
              \/ r.op \in NeedsActor /\ First(r.op) = "SelectUserByIdentity"
            BY <1>5, <1>11 DEF First, Operations, NeedsActor
        <3> QED BY <1>4, <1>7, <1>11, <2>2, <2>3, <3>1 DEF TxInv, OtherInv
    <2> QED BY <1>8, <2>2, <2>4
<1>12. CASE /\ c.resp = "pending" /\ r.op = "CreateUser"
            /\ \E u \in Ids : /\ Fresh(u)
                              /\ tx' = [tx EXCEPT ![t].pc = First(r.op), ![t].new = u]
    <2>1. PICK u \in Ids : Fresh(u) /\ tx' = [tx EXCEPT ![t].pc = "email", ![t].new = u]
        BY <1>12 DEF First
    <2> DEFINE x == [NoTx EXCEPT !.pc = "email", !.new = u]
    <2>2. /\ x \in TxRecords /\ tx' = [tx EXCEPT ![t] = x]
          /\ x.pc = "email" /\ x.new = u /\ x.keys = {} /\ x.held = {} /\ x.gone = {}
        BY <1>2, <1>3, <2>1 DEF TxRecords, NoTx, Statements, Keys
    <2> HIDE DEF x
    <2>3. tx'[t] = x
        BY <1>2, <2>2
    <2>4. TxInv(t)'
        BY <1>4, <1>6, <1>7, <1>12, <2>2, <2>3 DEF TxInv, CreateInv
    <2> QED BY <1>8, <2>1, <2>2, <2>4
<1> QED BY <1>1, <1>10, <1>11, <1>12 DEF c

LEMMA ChangeMembersInv == ASSUME IInv, ChangeMembers PROVE IInv'
<1>1. UNCHANGED <<users, identities, call, tx>> /\ TypeOK
    BY DEF ChangeMembers, IInv
<1>2. TypeOK'
    BY <1>1 DEF TypeOK, ChangeMembers
<1>3. AccountsAreComplete' /\ KeysAreUnique' /\ StoredTrimmed'
    BY <1>1 DEF IInv, AccountsAreComplete, KeysAreUnique, StoredTrimmed, Registered
<1>4. ASSUME NEW t \in Txs PROVE (Entered(t) /\ TxInv(t))'
    <2>1. Entered(t) /\ TxInv(t)
        BY DEF IInv
    <2>2. Entered(t)'
        BY <1>1, <2>1 DEF Entered, Registered, OwnersOf
    <2>3. /\ CreateInv(t) => CreateInv(t)'
          /\ OtherInv(t) => OtherInv(t)'
        BY <1>1 DEF CreateInv, OtherInv, Resolved, Registered
    <2> QED BY <1>1, <2>1, <2>2, <2>3 DEF TxInv
<1>5. \A s, t \in Txs : s # t => TxsApart(s, t)'
    BY <1>1 DEF IInv, TxsApart
<1> QED BY <1>2, <1>3, <1>4, <1>5 DEF IInv

-----------------------------------------------------------------------------
(* Commits. *)

\* The account and the identity that the CreateUser of t makes.
NewUser(t) ==
    [id |-> tx[t].new, email |-> Trim[call[t].email], name |-> Trim[call[t].name]]
NewIdentity(t) == [user |-> tx[t].new, subject |-> call[t].subject]

\* What a commit applies: the account of a CreateUser, or the deletion of one.
LEMMA AppliedCreate ==
    ASSUME TypeOK, NEW t \in Txs, CreateInv(t), Apply(t)
    PROVE  /\ users' = users \cup {NewUser(t)}
           /\ identities' = identities \cup {NewIdentity(t)}
           /\ members' = members
           /\ NewUser(t) \in UserRows /\ NewIdentity(t) \in IdentityRows
<1>1. tx[t].gone = {} /\ tx[t].new \in Ids /\ {tx[t].new} \ {None} = {tx[t].new}
    BY NoneIsNoId DEF CreateInv
<1>2. /\ users' = users \cup {NewUser(t)}
      /\ identities' = identities \cup {NewIdentity(t)}
      /\ members' = members
    BY <1>1 DEF Apply, KeyOf, NewUser, NewIdentity
<1>3. NewUser(t) \in UserRows /\ NewIdentity(t) \in IdentityRows
    BY <1>1, TrimTrims DEF CreateInv, NewUser, NewIdentity, UserRows, IdentityRows
<1> QED BY <1>2, <1>3

LEMMA AppliedDelete ==
    ASSUME NEW t \in Txs, OtherInv(t), tx[t].pc = "Commit", Apply(t)
    PROVE  /\ users' = {u \in users : u.id # call[t].actor}
           /\ identities' = {i \in identities : i.user # call[t].actor}
           /\ members' = {m \in members : m.user # call[t].actor}
<1>1. tx[t].gone = {call[t].actor} /\ {tx[t].new} \ {None} = {}
    BY DEF OtherInv
<1> QED BY <1>1 DEF Apply

\* A commit disturbs no other transaction.
LEMMA CommitSpares ==
    ASSUME IInv, NEW t \in Txs, tx[t].pc = "Commit", Apply(t),
           NEW s \in Txs \ {t}, tx'[s] = tx[s], call'[s] = call[s]
    PROVE  Local(s)'
<1>1. /\ TypeOK /\ Entered(s) /\ TxInv(s) /\ TxsApart(s, t) /\ TxsApart(t, s)
      /\ tx[s] \in TxRecords
    BY DEF IInv, TypeOK
<1>2. CreateInv(t) \/ OtherInv(t)
    BY RunningInv
<1>3. CASE CreateInv(t)
    <2>1. /\ users' = users \cup {NewUser(t)}
          /\ identities' = identities \cup {NewIdentity(t)}
        BY <1>1, <1>3, AppliedCreate
    <2>2. tx[t].keys = Keys /\ tx[t].new \in Ids /\ tx[t].new # None
        BY <1>3, NoneIsNoId DEF CreateInv, Keys
    <2>3. /\ NewUser(t).id = tx[t].new /\ NewUser(t).email = KeyOf(call[t], "email")
          /\ NewUser(t).name = KeyOf(call[t], "name")
          /\ NewIdentity(t).user = tx[t].new
          /\ NewIdentity(t).subject = KeyOf(call[t], "identity")
        BY DEF NewUser, NewIdentity, KeyOf
    <2> HIDE DEF NewUser, NewIdentity
    <2>4. Registered' = Registered \cup {tx[t].new}
        BY <2>1, <2>3 DEF Registered
    <2>5. Entered(s)'
        <3>1. ASSUME NEW k \in tx[s].keys PROVE OwnersOf(k, KeyOf(call[s], k))' = {}
            <4>1. k \in Keys /\ KeyOf(call[s], k) # KeyOf(call[t], k)
                BY <1>1, <2>2 DEF TxsApart, TxRecords
            <4>2. OwnersOf(k, KeyOf(call[s], k)) = {}
                BY <1>1 DEF Entered
            <4> HIDE DEF KeyOf
            <4>3. CASE k = "email"
                BY <2>1, <2>3, <4>1, <4>2, <4>3 DEF OwnersOf
            <4>4. CASE k = "name"
                BY <2>1, <2>3, <4>1, <4>2, <4>4 DEF OwnersOf
            <4>5. CASE k = "identity"
                BY <2>1, <2>3, <4>1, <4>2, <4>5 DEF OwnersOf
            <4> QED BY <4>1, <4>3, <4>4, <4>5 DEF Keys
        <3>2. tx[s].new \notin Registered'
            BY <1>1, <2>2, <2>4 DEF TxsApart, Entered
        <3>3. tx[s].held \subseteq Registered'
            BY <1>1, <2>4 DEF Entered
        <3> QED BY <3>1, <3>2, <3>3 DEF Entered
    <2>6. TxInv(s)'
        <3>1. Resolved(s) => Resolved(s)'
            BY <1>1, <2>1, <2>2, <2>4 DEF Resolved, TxsApart
        <3>2. CreateInv(s) => CreateInv(s)'
            BY DEF CreateInv
        <3>3. OtherInv(s) => OtherInv(s)'
            BY <3>1 DEF OtherInv
        <3> QED BY <1>1, <3>2, <3>3 DEF TxInv
    <2> QED BY <2>5, <2>6 DEF Local
<1>4. CASE OtherInv(t)
    <2>1. /\ users' = {u \in users : u.id # call[t].actor}
          /\ identities' = {i \in identities : i.user # call[t].actor}
        BY <1>4, AppliedDelete
    <2>2. tx[t].held = {call[t].actor}
        BY <1>4 DEF OtherInv
    <2>3. Registered' = Registered \ {call[t].actor}
        BY <2>1 DEF Registered
    <2>4. Entered(s)'
        <3>1. ASSUME NEW k \in tx[s].keys PROVE OwnersOf(k, KeyOf(call[s], k))' = {}
            <4>1. OwnersOf(k, KeyOf(call[s], k)) = {}
                BY <1>1 DEF Entered
            <4> HIDE DEF KeyOf
            <4> QED BY <2>1, <4>1 DEF OwnersOf
        <3>2. tx[s].new \notin Registered'
            BY <1>1, <2>3 DEF Entered
        <3>3. tx[s].held \subseteq Registered'
            BY <1>1, <2>2, <2>3 DEF TxsApart, Entered
        <3> QED BY <3>1, <3>2, <3>3 DEF Entered
    <2>5. TxInv(s)'
        <3>1. Resolved(s) => Resolved(s)'
            BY <2>1, <2>3 DEF Resolved
        <3>2. CreateInv(s) => CreateInv(s)'
            BY DEF CreateInv
        <3>3. OtherInv(s) => OtherInv(s)'
            BY <3>1 DEF OtherInv
        <3> QED BY <1>1, <3>2, <3>3 DEF TxInv
    <2> QED BY <2>4, <2>5 DEF Local
<1> QED BY <1>2, <1>3, <1>4

\* A commit keeps accounts complete and their keys unique.
LEMMA CommitKeepsTables ==
    ASSUME IInv, NEW t \in Txs, tx[t].pc = "Commit", Apply(t)
    PROVE  AccountsAreComplete' /\ KeysAreUnique' /\ StoredTrimmed'
<1>1. TypeOK /\ Entered(t) /\ AccountsAreComplete /\ KeysAreUnique /\ StoredTrimmed
    BY DEF IInv
<1>2. CreateInv(t) \/ OtherInv(t)
    BY RunningInv
<1>3. CASE CreateInv(t)
    <2>1. /\ users' = users \cup {NewUser(t)}
          /\ identities' = identities \cup {NewIdentity(t)}
        BY <1>1, <1>3, AppliedCreate
    <2>2. /\ NewUser(t).id = tx[t].new /\ NewUser(t).email = Trim[call[t].email]
          /\ NewUser(t).name = Trim[call[t].name]
          /\ NewIdentity(t).user = tx[t].new /\ NewIdentity(t).subject = call[t].subject
        BY DEF NewUser, NewIdentity
    <2> HIDE DEF NewUser, NewIdentity
    <2>3. Registered' = Registered \cup {tx[t].new} /\ tx[t].new \notin Registered
        BY <1>1, <2>1, <2>2 DEF Registered, Entered
    <2>4. AccountsAreComplete'
        <3>1. \A i \in identities : i.user # tx[t].new
            BY <1>1, <2>3 DEF AccountsAreComplete
        <3> QED BY <1>1, <2>1, <2>2, <2>3, <3>1 DEF AccountsAreComplete
    <2>5. /\ \A u \in users : /\ u.id # tx[t].new
                              /\ u.email # Trim[call[t].email] /\ u.name # Trim[call[t].name]
          /\ \A i \in identities : i.subject # call[t].subject
        <3>1. \A k \in Keys : OwnersOf(k, KeyOf(call[t], k)) = {}
            BY <1>1, <1>3 DEF Entered, CreateInv, Keys
        <3>2. /\ OwnersOf("email", Trim[call[t].email]) = {}
              /\ OwnersOf("name", Trim[call[t].name]) = {}
              /\ OwnersOf("identity", call[t].subject) = {}
            BY <3>1 DEF Keys, KeyOf
        <3>3. \A u \in users : u.id # tx[t].new
            BY <2>3 DEF Registered
        <3>4. \A u \in users : u.email # Trim[call[t].email]
            BY <3>2 DEF OwnersOf
        <3>5. \A u \in users : u.name # Trim[call[t].name]
            BY <3>2 DEF OwnersOf
        <3>6. \A i \in identities : i.subject # call[t].subject
            BY <3>2 DEF OwnersOf
        <3> QED BY <3>3, <3>4, <3>5, <3>6
    <2>6. /\ Trim[Trim[call[t].email]] = Trim[call[t].email] /\ Trim[call[t].email] # Empty
          /\ Trim[Trim[call[t].name]] = Trim[call[t].name] /\ Trim[call[t].name] # Empty
        BY <1>3, TrimTrims DEF CreateInv
    <2>7. StoredTrimmed'
        BY <1>1, <2>1, <2>2, <2>6 DEF StoredTrimmed
    <2>8. KeysAreUnique'
        BY <1>1, <2>1, <2>2, <2>5, <2>6 DEF StoredTrimmed, KeysAreUnique
    <2> QED BY <2>4, <2>7, <2>8
<1>4. CASE OtherInv(t)
    <2>1. /\ users' = {u \in users : u.id # call[t].actor}
          /\ identities' = {i \in identities : i.user # call[t].actor}
        BY <1>4, AppliedDelete
    <2>2. Registered' = Registered \ {call[t].actor}
        BY <2>1 DEF Registered
    <2>3. AccountsAreComplete'
        BY <1>1, <2>1, <2>2 DEF AccountsAreComplete
    <2>4. KeysAreUnique' /\ StoredTrimmed'
        BY <1>1, <2>1 DEF KeysAreUnique, StoredTrimmed
    <2> QED BY <2>3, <2>4
<1> QED BY <1>2, <1>3, <1>4

LEMMA CommitStep ==
    ASSUME IInv, NEW t \in Txs, tx[t].pc = "Commit", Apply(t),
           NEW resp \in {"ok", "ErrInternal"}, NEW us \in SUBSET Ids,
           AnswerWith(t, resp, us, {})
    PROVE  IInv'
<1>1. TypeOK /\ resp \in Responses /\ resp # "pending"
    BY DEF IInv, Responses
<1>2. /\ call' \in [Txs -> CallRecords] /\ tx' \in [Txs -> TxRecords]
      /\ tx'[t] = NoTx /\ call'[t].resp = resp
      /\ call'[t].actor = call[t].actor
      /\ \A s \in Txs \ {t} : tx'[s] = tx[s] /\ call'[s] = call[s]
    <2>1. {} \in SUBSET Workspaces
        OBVIOUS
    <2> QED BY <1>1, <2>1, AnswerTypes
<1>3. users' \subseteq UserRows /\ identities' \subseteq IdentityRows /\ members' \subseteq MemberRows
    <2>1. CreateInv(t) \/ OtherInv(t)
        BY RunningInv
    <2>2. CASE CreateInv(t)
        BY <1>1, <2>2, AppliedCreate DEF TypeOK
    <2>3. CASE OtherInv(t)
        BY <1>1, <2>3, AppliedDelete DEF TypeOK
    <2> QED BY <2>1, <2>2, <2>3
<1>4. TypeOK'
    BY <1>2, <1>3 DEF TypeOK
<1>5. Local(t)'
    <2>1. None \notin Registered'
        BY <1>3, NoneIsNoId DEF UserRows, Registered
    <2> QED BY <1>1, <1>2, <2>1 DEF Local, TxInv, Entered, NoTx
<1>6. \A s \in Txs : Local(s)'
    BY <1>2, <1>5, CommitSpares
<1>7. ApartFrom(t)'
    BY <1>2, DoneApart
<1>8. \A r, s \in Txs : r # s => TxsApart(r, s)'
    <2> SUFFICES ASSUME NEW r \in Txs, NEW s \in Txs, r # s PROVE TxsApart(r, s)'
        OBVIOUS
    <2>1. CASE r = t \/ s = t
        BY <1>7, <2>1 DEF ApartFrom
    <2>2. CASE r # t /\ s # t
        BY <1>2, <2>2 DEF IInv, TxsApart
    <2> QED BY <2>1, <2>2
<1>9. AccountsAreComplete' /\ KeysAreUnique' /\ StoredTrimmed'
    BY CommitKeepsTables
<1> QED BY <1>4, <1>6, <1>8, <1>9 DEF IInv, Local

-----------------------------------------------------------------------------
(* The theorems. *)

LEMMA InitInv == ASSUME Init PROVE IInv
<1> USE DEF Init
<1>1. NoTx \in TxRecords /\ NoCall \in CallRecords
    BY DEF NoTx, TxRecords, NoCall, CallRecords
<1>2. TypeOK
    BY <1>1 DEF TypeOK
<1>3. AccountsAreComplete /\ KeysAreUnique /\ StoredTrimmed
    BY DEF AccountsAreComplete, KeysAreUnique, StoredTrimmed
<1>4. ASSUME NEW t \in Txs PROVE Entered(t) /\ TxInv(t)
    BY DEF Entered, TxInv, NoTx, NoCall, Registered
<1>5. \A s, t \in Txs : TxsApart(s, t)
    BY DEF TxsApart, NoTx
<1> QED BY <1>2, <1>3, <1>4, <1>5 DEF IInv

LEMMA NextInv == ASSUME IInv, [Next]_vars PROVE IInv'
<1>1. CASE UNCHANGED vars
    <2>1. UNCHANGED <<users, identities, members, call, tx>>
        BY <1>1 DEF vars
    <2>2. TypeOK' /\ AccountsAreComplete' /\ KeysAreUnique' /\ StoredTrimmed'
        BY <2>1 DEF IInv, TypeOK, AccountsAreComplete, KeysAreUnique, StoredTrimmed, Registered
    <2>3. ASSUME NEW t \in Txs PROVE (Entered(t) /\ TxInv(t))'
        <3>1. Entered(t) /\ TxInv(t)
            BY DEF IInv
        <3>2. Entered(t)'
            BY <2>1, <3>1 DEF Entered, Registered, OwnersOf
        <3>3. /\ CreateInv(t) => CreateInv(t)'
              /\ OtherInv(t) => OtherInv(t)'
            BY <2>1 DEF CreateInv, OtherInv, Resolved, Registered
        <3> QED BY <2>1, <3>1, <3>2, <3>3 DEF TxInv
    <2>4. \A s, t \in Txs : s # t => TxsApart(s, t)'
        BY <2>1 DEF IInv, TxsApart
    <2> QED BY <2>2, <2>3, <2>4 DEF IInv
<1>2. CASE ChangeMembers
    BY <1>2, ChangeMembersInv
<1>3. ASSUME NEW t \in Txs, Arrive(t) \/ Return(t) \/ Step(t) \/ Failure(t) \/ CommitLost(t)
      PROVE  IInv'
    <2>1. CASE Arrive(t) \/ Return(t)
        BY <2>1, ArriveInv, ReturnInv
    <2>2. CASE InsertKey(t) \/ SelectUserByIdentity(t) \/ LockUserRow(t) \/ DeleteUser(t)
        BY <2>2, InsertKeyInv, SelectUserByIdentityInv, LockUserRowInv, DeleteUserActionInv
    <2>3. CASE SelectUser(t) \/ ListUsers(t) \/ ListUserWorkspaces(t)
        BY <2>3, ReadsInv
    <2>4. CASE Failure(t)
        BY <2>4, RefuseStep DEF Failure, Refuse, Responses
    <2>5. CASE Commit(t)
        <3>1. tx[t].new \in Ids \cup {None}
            BY DEF IInv, TypeOK, TxRecords
        <3> QED BY <2>5, <3>1, CommitStep DEF Commit
    <2>6. CASE CommitLost(t)
        BY <2>6, CommitStep DEF CommitLost
    <2> QED BY <1>3, <2>1, <2>2, <2>3, <2>4, <2>5, <2>6 DEF Step
<1> QED BY <1>1, <1>2, <1>3 DEF Next

\* IInv holds in every state of every behaviour.
THEOREM Invariance == Spec => []IInv
BY InitInv, NextInv, PTL DEF Spec

\* The tables, calls and transactions keep the types of the columns and fields that
\* they stand for.
THEOREM TypeCorrect == Spec => []TypeOK
<1>1. IInv => TypeOK
    BY DEF IInv
<1> QED BY <1>1, Invariance, PTL

\* What user/service.go:31 promises: every account has its one identity, every
\* identity its account, whatever fails or runs at the same time.
THEOREM CompleteAccounts == Spec => []AccountsAreComplete
<1>1. IInv => AccountsAreComplete
    BY DEF IInv
<1> QED BY <1>1, Invariance, PTL

\* However many registrations race, no two accounts share an email, a user name or
\* an identity.
THEOREM UniqueKeys == Spec => []KeysAreUnique
<1>1. IInv => KeysAreUnique
    BY DEF IInv
<1> QED BY <1>1, Invariance, PTL

-----------------------------------------------------------------------------
(* Who waits for whom. *)

\* Who waits for an index entry waits for a call that has made it, and is further on
\* than the one that waits; who deletes an account has stopped waiting.
LEMMA WaitsAhead ==
    ASSUME IInv, NEW t \in Txs, NEW s \in WaitsFor(t)
    PROVE  /\ s \in Txs /\ call[s].resp = "pending"
           /\ tx[t].pc = "email" => tx[s].pc \notin {"email", "LockUserRow"}
           /\ tx[t].pc = "name" => tx[s].pc \notin {"email", "name", "LockUserRow"}
           /\ tx[t].pc = "identity" => tx[s].pc \notin {"email", "name", "identity", "LockUserRow"}
           /\ tx[t].pc = "LockUserRow" => tx[s].pc \notin {"email", "name", "identity", "LockUserRow"}
           /\ tx[t].pc \in {"email", "name", "identity", "LockUserRow"}
<1>1. s \in Txs /\ TxInv(s)
    BY DEF WaitsFor, KeyBlockers, Lockers, IInv
<1>2. tx[t].pc \in {"email", "name", "identity", "LockUserRow"}
    BY DEF WaitsFor, Keys
<1>3. \/ tx[t].pc \in Keys /\ tx[t].pc \in tx[s].keys
      \/ tx[s].held \cup tx[s].gone # {}
    BY DEF WaitsFor, KeyBlockers, Lockers
<1>4. call[s].resp = "pending"
    BY <1>1, <1>3 DEF TxInv, NoTx
<1>5. CreateInv(s) \/ OtherInv(s)
    BY <1>1, <1>4 DEF TxInv
<1>6. CASE tx[s].held \cup tx[s].gone # {}
    <2>1. OtherInv(s) /\ tx[s].pc \in {"DeleteUser", "Commit"}
        BY <1>5, <1>6 DEF CreateInv, OtherInv
    <2> QED BY <1>1, <1>2, <1>4, <2>1
<1>7. CASE tx[t].pc \in Keys /\ tx[t].pc \in tx[s].keys
    <2>1. CreateInv(s)
        BY <1>5, <1>7 DEF OtherInv
    <2> QED BY <1>1, <1>2, <1>4, <1>7, <2>1 DEF CreateInv, Keys
<1> QED BY <1>3, <1>6, <1>7

\* No circle of waiting calls, and no waiting for a call that is over.
THEOREM NoDeadlock == Spec => []NobodyWaitsForEver
<1>1. IInv => NobodyWaitsForEver
    <2> SUFFICES ASSUME IInv PROVE NobodyWaitsForEver
        OBVIOUS
    <2>1. ASSUME NEW t \in Txs, NEW s \in WaitsFor(t) PROVE call[s].resp = "pending"
        BY WaitsAhead
    <2>2. ASSUME NEW S \in SUBSET Txs, S # {} PROVE \E t \in S : WaitsFor(t) \cap S = {}
        <3>1. CASE \E t \in S : tx[t].pc \notin {"email", "name", "identity", "LockUserRow"}
            BY <3>1, WaitsAhead
        <3>2. CASE /\ \A t \in S : tx[t].pc \in {"email", "name", "identity", "LockUserRow"}
                   /\ \E t \in S : tx[t].pc \in {"identity", "LockUserRow"}
            BY <3>2, WaitsAhead
        <3>3. CASE /\ \A t \in S : tx[t].pc \in {"email", "name"}
                   /\ \E t \in S : tx[t].pc = "name"
            BY <3>3, WaitsAhead
        <3>4. CASE \A t \in S : tx[t].pc = "email"
            BY <2>2, <3>4, WaitsAhead
        <3> QED BY <3>1, <3>2, <3>3, <3>4
    <2> QED BY <2>1, <2>2 DEF NobodyWaitsForEver
<1> QED BY <1>1, Invariance, PTL

-----------------------------------------------------------------------------
(* What one step may do. *)

\* An account is deleted for the bearer of its own token only (user/service.go:163).
THEOREM OwnDeletions == Spec => OnlyOwnAccountDeleted
<1>1. ASSUME IInv, Next PROVE DeletesOwnAccount
    <2>1. CASE UNCHANGED identities
        BY <2>1 DEF DeletesOwnAccount
    <2>2. ASSUME NEW t \in Txs, Commit(t) \/ CommitLost(t) PROVE DeletesOwnAccount
        <3>1. /\ tx[t].pc = "Commit" /\ Apply(t)
              /\ \E resp \in {"ok", "ErrInternal"}, us \in SUBSET Ids :
                    AnswerWith(t, resp, us, {})
            <4>1. {tx[t].new} \ {None} \in SUBSET Ids /\ {} \in SUBSET Ids
                BY <1>1 DEF IInv, TypeOK, TxRecords
            <4> QED BY <2>2, <4>1 DEF Commit, CommitLost
        <3>2. TypeOK /\ {} \in SUBSET Workspaces
            BY <1>1 DEF IInv
        <3>3. call'[t].resp \in {"ok", "ErrInternal"}
            <4>1. PICK resp \in {"ok", "ErrInternal"}, us \in SUBSET Ids :
                      AnswerWith(t, resp, us, {})
                BY <3>1
            <4>2. resp \in Responses
                BY DEF Responses
            <4> QED BY <3>2, <4>1, <4>2, AnswerTypes
        <3>4. call[t].resp = "pending" /\ (CreateInv(t) \/ OtherInv(t))
            BY <1>1, <3>1, RunningInv
        <3>5. CASE CreateInv(t)
            BY <3>1, <3>2, <3>5, AppliedCreate DEF DeletesOwnAccount
        <3>6. CASE OtherInv(t)
            <4> SUFFICES ASSUME NEW i \in identities \ identities'
                         PROVE  /\ call[t].op = "DeleteUser"
                                /\ call[t].subject = i.subject /\ call[t].id = i.user
                BY <3>3, <3>4 DEF DeletesOwnAccount
            <4>1. i.user = call[t].actor
                BY <3>1, <3>6, AppliedDelete
            <4>2. call[t].op = "DeleteUser" /\ call[t].id = call[t].actor /\ Resolved(t)
                BY <3>1, <3>6 DEF OtherInv
            <4>3. i.user \in Registered
                BY <1>1 DEF IInv, AccountsAreComplete
            <4>4. i = [user |-> call[t].actor, subject |-> call[t].subject]
                BY <1>1, <4>1, <4>2, <4>3 DEF Resolved, IInv, AccountsAreComplete
            <4> QED BY <4>1, <4>2, <4>4
        <3> QED BY <3>4, <3>5, <3>6
    <2>3. \/ UNCHANGED identities
          \/ \E t \in Txs : Commit(t) \/ CommitLost(t)
        BY <1>1 DEF Next, ChangeMembers, Arrive, Return, Step, InsertKey, SelectUser, ListUsers,
                    SelectUserByIdentity, ListUserWorkspaces, LockUserRow, DeleteUser, Failure,
                    Refuse, store
    <2> QED BY <2>1, <2>2, <2>3
<1>2. IInv /\ [Next]_vars => [DeletesOwnAccount]_vars
    BY <1>1
<1> QED BY <1>2, Invariance, PTL DEF Spec, OnlyOwnAccountDeleted

\* Memberships belong to accounts (migration 1: user_id REFERENCES users ON DELETE
\* CASCADE), whatever runs at the same time.
LEMMA MembersStep ==
    ASSUME IInv, MembersAreRegistered, [Next]_vars PROVE MembersAreRegistered'
<1> USE DEF MembersAreRegistered
<1>1. CASE UNCHANGED store
    BY <1>1 DEF store, Registered
<1>2. CASE ChangeMembers
    <2>1. UNCHANGED users
        BY <1>2 DEF ChangeMembers
    <2>2. Registered' = Registered
        BY <2>1 DEF Registered
    <2> QED BY <1>2, <2>2 DEF ChangeMembers
<1>3. CASE \E t \in Txs : Apply(t)
    <2>1. PICK t \in Txs : Apply(t)
        BY <1>3
    <2>2. \A m \in members' : m \in members /\ m.user \notin tx[t].gone
        BY <2>1 DEF Apply
    <2>3. \A u \in Registered : u \notin tx[t].gone => u \in Registered'
        BY <2>1 DEF Apply, Registered
    <2> QED BY <2>2, <2>3
<1>4. UNCHANGED store \/ ChangeMembers \/ \E t \in Txs : Apply(t)
    BY DEF Next, Arrive, Return, Step, InsertKey, SelectUser, ListUsers,
           SelectUserByIdentity, ListUserWorkspaces, LockUserRow, DeleteUser, Commit, CommitLost,
           Failure, Refuse, store, vars
<1> QED BY <1>1, <1>2, <1>3, <1>4

\* A profile read in two statements is one of a single moment (user/service.go:121).
THEOREM WholeProfiles == Spec => ProfilesAreWhole
<1>1. Init => MembersAreRegistered
    BY DEF Init, MembersAreRegistered
<1>2. Spec => []MembersAreRegistered
    BY <1>1, MembersStep, Invariance, PTL DEF Spec
<1>3. ASSUME IInv, MembersAreRegistered, Next PROVE ShowsWholeProfiles
    <2> SUFFICES ASSUME NEW t \in Txs, call[t].op = "ReadUserProfile",
                        call[t].resp = "pending", call'[t].resp = "ok",
                        NEW u \in call'[t].users
                 PROVE  IF u \in Registered
                        THEN [user |-> u, subject |-> call[t].subject] \in identities
                        ELSE call'[t].wss = {}
        BY DEF ShowsWholeProfiles
    <2>1. ListUserWorkspaces(t)
        <3>1. call \in [Txs -> CallRecords] /\ tx \in [Txs -> TxRecords] /\ OtherInv(t)
            BY <1>3 DEF IInv, TypeOK, TxInv, CreateInv
        <3>2. tx[t].pc \in {"SelectUserByIdentity", "ListUserWorkspaces"}
            BY <3>1 DEF OtherInv
        <3>3. PICK s \in Txs : Arrive(s) \/ Return(s) \/ Step(s) \/ Failure(s) \/ CommitLost(s)
            BY <1>3 DEF Next, ChangeMembers
        <3>4. s = t
            BY <3>1, <3>3 DEF Arrive, Return, Step, InsertKey, SelectUser, ListUsers,
                   SelectUserByIdentity, ListUserWorkspaces, LockUserRow, DeleteUser, Commit,
                   CommitLost, Failure, Refuse, AnswerWith
        <3>5. ~Arrive(t) /\ ~Return(t) /\ ~CommitLost(t) /\ ~Commit(t) /\ ~InsertKey(t)
              /\ ~SelectUser(t) /\ ~ListUsers(t) /\ ~LockUserRow(t) /\ ~DeleteUser(t)
            BY <3>2 DEF Arrive, Return, CommitLost, Commit, InsertKey, SelectUser, ListUsers,
                        LockUserRow, DeleteUser, Keys, NoCall, Responses
        <3>6. ASSUME NEW resp \in {"ErrForbidden", "ErrNotFound", "ErrInternal"}
              PROVE  ~Refuse(t, resp)
            <4>1. resp \in Responses /\ {} \in SUBSET Ids /\ {} \in SUBSET Workspaces /\ TypeOK
                BY <1>3 DEF Responses, IInv
            <4>2. AnswerWith(t, resp, {}, {}) => call'[t].resp = resp
                BY <4>1, AnswerTypes
            <4> QED BY <4>2 DEF Refuse
        <3>7. ~Failure(t) /\ ~SelectUserByIdentity(t)
            <4>1. ASSUME NEW a, call' = [call EXCEPT ![t].actor = a] PROVE FALSE
                BY <3>1, <4>1 DEF CallRecords
            <4> QED BY <3>6, <4>1 DEF Failure, SelectUserByIdentity
        <3> QED BY <3>3, <3>4, <3>5, <3>6, <3>7 DEF Step
    <2>2. /\ call'[t].users = {call[t].actor}
          /\ call'[t].wss = {m.ws : m \in {x \in members : x.user = call[t].actor}}
          /\ Resolved(t)
        BY <1>3, <2>1 DEF ListUserWorkspaces, AnswerWith, IInv, TypeOK, CallRecords, TxInv,
                          CreateInv, OtherInv, Keys, NoTx
    <2>3. CASE u \in Registered
        BY <2>2, <2>3 DEF Resolved
    <2>4. CASE u \notin Registered
        BY <1>3, <2>2, <2>4 DEF MembersAreRegistered
    <2> QED BY <2>3, <2>4
<1>4. IInv /\ MembersAreRegistered /\ [Next]_vars => [ShowsWholeProfiles]_vars
    BY <1>3
<1> QED BY <1>2, <1>4, Invariance, PTL DEF Spec, ProfilesAreWhole

-----------------------------------------------------------------------------
(* Accounts implements Registry. *)

\* The accounts of Registry are users joined with their identities.
LEMMA JoinedRows ==
    ASSUME NEW us, NEW is
    PROVE  \A a : a \in Joined(us, is) <=>
                 \E u \in us, i \in is : i.user = u.id /\ a = Merged(u, i)
<1> SUFFICES ASSUME NEW a
             PROVE  a \in Joined(us, is) <=>
                        \E u \in us, i \in is : i.user = u.id /\ a = Merged(u, i)
    OBVIOUS
<1> HIDE DEF Merged
<1>1. ASSUME NEW u \in us, NEW i \in is, i.user = u.id, a = Merged(u, i)
      PROVE  a \in Joined(us, is)
    <2>1. <<u, i>> \in {q \in us \X is : q[2].user = q[1].id}
        BY <1>1
    <2> QED BY <1>1, <2>1 DEF Joined
<1>2. ASSUME a \in Joined(us, is)
      PROVE  \E u \in us, i \in is : i.user = u.id /\ a = Merged(u, i)
    <2>1. PICK p \in us \X is : p[2].user = p[1].id /\ a = Merged(p[1], p[2])
        BY <1>2 DEF Joined
    <2> QED BY <2>1
<1> QED BY <1>1, <1>2

\* In IInv every account and every identity is in the join, and the operators of
\* Registry mean what those of Accounts do.
LEMMA JoinIsTotal ==
    ASSUME IInv
    PROVE  /\ \A u \in users : \E i \in identities :
                 i.user = u.id /\ Merged(u, i) \in Joined(users, identities)
           /\ \A i \in identities : \E u \in users :
                 i.user = u.id /\ Merged(u, i) \in Joined(users, identities)
           /\ Accts!Registered = Registered
           /\ \A t \in Txs, k \in Keys :
                 Accts!Taken(t, k) <=> OwnersOf(k, KeyOf(call[t], k)) # {}
<1> DEFINE J == Joined(users, identities)
<1>1. AccountsAreComplete
    BY DEF IInv
<1>2. \A u \in users : \E i \in identities : i.user = u.id /\ Merged(u, i) \in J
    BY <1>1, JoinedRows DEF AccountsAreComplete
<1>3. \A i \in identities : \E u \in users : i.user = u.id /\ Merged(u, i) \in J
    BY <1>1, JoinedRows DEF AccountsAreComplete, Registered
<1>4. \A a \in J : \E u \in users, i \in identities :
          /\ i.user = u.id /\ a.id = u.id /\ a.email = u.email /\ a.name = u.name
          /\ a.subject = i.subject
    BY JoinedRows DEF Merged
<1>5. \A u \in users, i \in identities :
          /\ Merged(u, i).id = u.id /\ Merged(u, i).email = u.email
          /\ Merged(u, i).name = u.name /\ Merged(u, i).subject = i.subject
    BY DEF Merged
<1> HIDE DEF J, Merged
<1>6. Accts!Registered = Registered
    <2>1. Accts!Registered = {a.id : a \in J}
        BY DEF Accts!Registered, J
    <2> QED BY <1>2, <1>4, <1>5, <2>1 DEF Registered
<1>7. ASSUME NEW t \in Txs, NEW k \in Keys
      PROVE  Accts!Taken(t, k) <=> OwnersOf(k, KeyOf(call[t], k)) # {}
    <2>1. Accts!Taken(t, k) <=>
              \E a \in J : KeyOf(call[t], k) = CASE k = "email" -> a.email
                                                 [] k = "name" -> a.name [] OTHER -> a.subject
        BY DEF Accts!Taken, Accts!KeyOf, KeyOf, J
    <2> HIDE DEF KeyOf
    <2>2. CASE k = "email"
        BY <1>2, <1>4, <1>5, <2>1, <2>2 DEF OwnersOf
    <2>3. CASE k = "name"
        BY <1>2, <1>4, <1>5, <2>1, <2>3 DEF OwnersOf
    <2>4. CASE k = "identity"
        BY <1>3, <1>4, <1>5, <2>1, <2>4 DEF OwnersOf
    <2> QED BY <2>2, <2>3, <2>4 DEF Keys
<1> QED BY <1>2, <1>3, <1>6, <1>7 DEF J

\* What Registry and Accounts have in common.
LEMMA SameCalls ==
    /\ Accts!NoCall = NoCall /\ Accts!Responses = Responses /\ Accts!NeedsActor = NeedsActor
    /\ Accts!Requests = Requests /\ Accts!MemberRows = MemberRows
    /\ \A r : Accts!Received(r) = Received(r)
    /\ \A c, k : Accts!KeyOf(c, k) = KeyOf(c, k)
<1>1. /\ Accts!NoCall = NoCall /\ Accts!Responses = Responses
      /\ Accts!NeedsActor = NeedsActor /\ Accts!MemberRows = MemberRows
    BY DEF Accts!NoCall, NoCall, Accts!Responses, Responses, Accts!NeedsActor, NeedsActor,
           Accts!MemberRows, MemberRows
<1>2. Accts!Requests = Requests
    BY DEF Accts!Requests, Requests
<1>3. \A r : Accts!Invalid(r) = Invalid(r)
    BY DEF Accts!Invalid, Invalid
<1>4. \A r : Accts!Received(r) = Received(r)
    BY <1>3 DEF Accts!Received, Received
<1>5. \A c, k : Accts!KeyOf(c, k) = KeyOf(c, k)
    BY DEF Accts!KeyOf, KeyOf
<1> QED BY <1>1, <1>2, <1>4, <1>5

LEMMA JoinKept ==
    ASSUME UNCHANGED <<users, identities>> PROVE UNCHANGED Joined(users, identities)
BY DEF Joined

\* An error is refused, and a success answered, alike.
LEMMA RefuseRefines ==
    ASSUME NEW t, NEW resp, Refuse(t, resp)
    PROVE  Accts!Refuse(t, resp)
BY JoinKept DEF Refuse, AnswerWith, store, Accts!Refuse, Accts!AnswerWith

LEMMA AnswerRefines ==
    ASSUME NEW t, NEW us, NEW wss, NEW resp,
           resp = "ok" \/ (Faults /\ resp = "ErrInternal" /\ us = {} /\ wss = {}),
           AnswerWith(t, resp, us, wss)
    PROVE  /\ resp = "ok" => Accts!AnswerWith(t, "ok", us, wss)
           /\ \A us2, wss2 : resp = "ErrInternal" => Accts!Succeed(t, us2, wss2)
           /\ resp = "ok" => Accts!Succeed(t, us, wss)
BY DEF AnswerWith, Accts!AnswerWith, Accts!Succeed

LEMMA InsertKeyRefines ==
    ASSUME IInv, NEW t \in Txs, InsertKey(t)
    PROVE  Accts!CreateUser(t) \/ UNCHANGED Accts!vars
<1> DEFINE k == tx[t].pc
<1>1. k \in Keys /\ k # "none"
    BY DEF InsertKey, Keys
<1>2. call[t].resp = "pending" /\ Entered(t) /\ CreateInv(t)
    BY <1>1, RunningInv
<1>3. CASE OwnersOf(k, KeyOf(call[t], k)) # {} /\ Refuse(t, TakenErrors[k])
    <2>1. Accts!Taken(t, k) /\ \A j \in tx[t].keys : j \in Keys => ~Accts!Taken(t, j)
        BY <1>1, <1>2, <1>3, JoinIsTotal DEF Entered
    <2>2. Accts!Refuse(t, TakenErrors[k])
        BY <1>3, RefuseRefines
    <2>3. Accts!Pending(t, "CreateUser")
        BY <1>2 DEF Accts!Pending, CreateInv
    <2>4. \/ k = "email" /\ tx[t].keys = {}
          \/ k = "name" /\ tx[t].keys = {"email"}
          \/ k = "identity" /\ tx[t].keys = {"email", "name"}
        BY <1>1, <1>2 DEF CreateInv, Keys
    <2>5. \/ k = "email" /\ Accts!Taken(t, "email") /\ Accts!Refuse(t, "ErrEmailTaken")
          \/ /\ ~Accts!Taken(t, "email") /\ Accts!Taken(t, "name")
             /\ Accts!Refuse(t, "ErrUserNameTaken")
          \/ /\ ~Accts!Taken(t, "email") /\ ~Accts!Taken(t, "name")
             /\ Accts!Taken(t, "identity") /\ Accts!Refuse(t, "ErrIdentityTaken")
        BY <2>1, <2>2, <2>4 DEF TakenErrors, Keys
    <2> QED BY <2>3, <2>5 DEF Accts!CreateUser
<1>4. CASE UNCHANGED <<store, call>>
    BY <1>4, JoinKept DEF store, Accts!vars
<1> QED BY <1>3, <1>4 DEF InsertKey

LEMMA ReadsRefine ==
    ASSUME IInv, NEW t \in Txs, SelectUser(t) \/ ListUsers(t) \/ ListUserWorkspaces(t)
    PROVE  Accts!ReadUser(t) \/ Accts!ListUsers(t) \/ Accts!ReadUserProfile(t)
<1>1. tx[t].pc \notin Keys \cup {"Commit", "none"}
    BY DEF SelectUser, ListUsers, ListUserWorkspaces, Keys
<1>2. call[t].resp = "pending" /\ OtherInv(t)
    BY <1>1, RunningInv
<1>3. CASE SelectUser(t)
    <2>1. Accts!Pending(t, "ReadUser")
        BY <1>2, <1>3 DEF Accts!Pending, OtherInv, SelectUser
    <2>2. CASE call[t].id \notin Registered /\ Refuse(t, "ErrNotFound")
        BY <2>1, <2>2, JoinIsTotal, RefuseRefines DEF Accts!ReadUser
    <2>3. CASE /\ call[t].id \in Registered
               /\ AnswerWith(t, "ok", {call[t].id}, {}) /\ UNCHANGED store
        BY <2>1, <2>3, JoinIsTotal, JoinKept, AnswerRefines DEF Accts!ReadUser, store
    <2> QED BY <1>3, <2>2, <2>3 DEF SelectUser
<1>4. CASE ListUsers(t)
    <2>1. Accts!Pending(t, "ListUsers")
        BY <1>2, <1>4 DEF Accts!Pending, OtherInv, ListUsers
    <2> QED BY <1>4, <2>1, JoinIsTotal, JoinKept, AnswerRefines
            DEF ListUsers, Accts!ListUsers, store
<1>5. CASE ListUserWorkspaces(t)
    <2>1. Accts!Pending(t, "ReadUserProfile") /\ call[t].actor # None
        BY <1>2, <1>5, NoneIsNoId DEF Accts!Pending, OtherInv, ListUserWorkspaces
    <2> QED BY <1>5, <2>1, JoinKept, AnswerRefines
            DEF ListUserWorkspaces, Accts!ReadUserProfile, Accts!WorkspacesOf, store
<1> QED BY <1>3, <1>4, <1>5

LEMMA SelectUserByIdentityRefines ==
    ASSUME IInv, NEW t \in Txs, SelectUserByIdentity(t) PROVE Accts!ResolveActor(t)
<1> DEFINE J == Joined(users, identities)
           deletes == call[t].op = "DeleteUser"
<1>1. tx[t].pc = "SelectUserByIdentity"
    BY DEF SelectUserByIdentity
<1>2. call[t].resp = "pending" /\ OtherInv(t)
    BY <1>1, RunningInv DEF Keys
<1>3. /\ call[t].op \in Accts!NeedsActor /\ call[t].resp = "pending"
      /\ call[t].actor = None
    BY <1>1, <1>2, SameCalls DEF OtherInv
<1>4. /\ \A a \in J : \E i \in identities : i.subject = a.subject /\ i.user = a.id
      /\ \A i \in identities : /\ i.user \in Registered
                              /\ \E a \in J : a.id = i.user /\ a.subject = i.subject
    <2>1. \A a \in J : \E i \in identities : i.subject = a.subject /\ i.user = a.id
        BY JoinedRows DEF Merged
    <2>2. \A i \in identities : \E u \in users : i.user = u.id /\ Merged(u, i) \in J
        BY JoinIsTotal
    <2>3. \A u, i : Merged(u, i).id = u.id /\ Merged(u, i).subject = i.subject
        BY DEF Merged
    <2> HIDE DEF J
    <2> QED BY <2>1, <2>2, <2>3 DEF Registered
<1> HIDE DEF J
<1>5. CASE /\ {i \in identities : i.subject = call[t].subject /\ i.user \in Registered} = {}
           /\ Refuse(t, IF deletes THEN "ErrForbidden" ELSE "ErrNotFound")
    <2>1. \A a \in J : a.subject # call[t].subject
        BY <1>4, <1>5
    <2> QED BY <1>3, <1>5, <2>1, RefuseRefines DEF Accts!ResolveActor, J
<1>6. ASSUME NEW i \in identities, i.subject = call[t].subject,
             deletes, i.user # call[t].id, Refuse(t, "ErrForbidden")
      PROVE  Accts!ResolveActor(t)
    <2>1. PICK a \in J : a.id = i.user /\ a.subject = i.subject
        BY <1>4
    <2> QED BY <1>3, <1>6, <2>1, RefuseRefines DEF Accts!ResolveActor, J
<1>7. ASSUME NEW i \in identities, i.subject = call[t].subject,
             deletes => i.user = call[t].id,
             call' = [call EXCEPT ![t].actor = i.user], UNCHANGED store
      PROVE  Accts!ResolveActor(t)
    <2>1. PICK a \in J : a.id = i.user /\ a.subject = i.subject
        BY <1>4
    <2> QED BY <1>3, <1>7, <2>1, JoinKept DEF Accts!ResolveActor, J, store
<1> QED BY <1>5, <1>6, <1>7 DEF SelectUserByIdentity

LEMMA DeletesRefine ==
    ASSUME IInv, NEW t \in Txs, LockUserRow(t) \/ DeleteUser(t)
    PROVE  Accts!DeleteUser(t) \/ UNCHANGED Accts!vars
<1>1. CASE UNCHANGED <<store, call>>
    BY <1>1, JoinKept DEF store, Accts!vars
<1>2. CASE LockUserRow(t) /\ call[t].actor \notin Registered /\ Refuse(t, "ErrNotFound")
    <2>1. tx[t].pc = "LockUserRow"
        BY <1>2 DEF LockUserRow
    <2>2. call[t].resp = "pending" /\ OtherInv(t)
        BY <2>1, RunningInv DEF Keys
    <2>3. Accts!Pending(t, "DeleteUser") /\ call[t].actor # None
        BY <2>1, <2>2, NoneIsNoId DEF OtherInv, Accts!Pending
    <2> QED BY <1>2, <2>3, JoinIsTotal, RefuseRefines DEF Accts!DeleteUser
<1> QED BY <1>1, <1>2 DEF LockUserRow, DeleteUser

LEMMA CommitRefines ==
    ASSUME IInv, NEW t \in Txs, Commit(t) \/ CommitLost(t)
    PROVE  Accts!CreateUser(t) \/ Accts!DeleteUser(t)
<1> DEFINE J == Joined(users, identities)
<1>1. /\ tx[t].pc = "Commit" /\ Apply(t)
      /\ \/ AnswerWith(t, "ok", {tx[t].new} \ {None}, {})
         \/ Faults /\ AnswerWith(t, "ErrInternal", {}, {})
    BY DEF Commit, CommitLost
<1>2. /\ call[t].resp = "pending" /\ Entered(t) /\ (CreateInv(t) \/ OtherInv(t)) /\ TypeOK
      /\ AccountsAreComplete
    BY <1>1, RunningInv DEF IInv
<1>3. Accts!Succeed(t, {tx[t].new} \ {None}, {})
    BY <1>1, AnswerRefines
<1>4. CASE CreateInv(t)
    <2> DEFINE new == Merged(NewUser(t), NewIdentity(t))
    <2>1. /\ users' = users \cup {NewUser(t)}
          /\ identities' = identities \cup {NewIdentity(t)}
          /\ members' = members
        BY <1>1, <1>2, <1>4, AppliedCreate
    <2>2. tx[t].new \in Ids \ Registered /\ {tx[t].new} \ {None} = {tx[t].new}
        BY <1>2, <1>4, NoneIsNoId DEF CreateInv, Entered
    <2>3. NewUser(t).id = tx[t].new /\ NewIdentity(t).user = tx[t].new
        BY DEF NewUser, NewIdentity
    <2>4. new = [id |-> tx[t].new, email |-> KeyOf(call[t], "email"),
                 name |-> KeyOf(call[t], "name"), subject |-> KeyOf(call[t], "identity")]
        BY DEF Merged, NewUser, NewIdentity, KeyOf
    <2>5. Joined(users', identities') = J \cup {new}
        <3> HIDE DEF NewUser, NewIdentity, Merged
        <3>1. /\ \A u \in users : u.id # tx[t].new
              /\ \A i \in identities : i.user # tx[t].new
            BY <1>2, <2>2 DEF AccountsAreComplete, Registered
        <3>2. ASSUME NEW a PROVE a \in Joined(users', identities') <=> a \in J \cup {new}
            <4>1. a \in Joined(users', identities') <=>
                      \E u \in users', i \in identities' : i.user = u.id /\ a = Merged(u, i)
                BY JoinedRows
            <4>2. a \in J <=>
                      \E u \in users, i \in identities : i.user = u.id /\ a = Merged(u, i)
                BY JoinedRows
            <4>3. ASSUME NEW u \in users', NEW i \in identities', i.user = u.id
                  PROVE  \/ u \in users /\ i \in identities
                         \/ u = NewUser(t) /\ i = NewIdentity(t)
                BY <2>1, <2>3, <3>1, <4>3
            <4>4. a \in Joined(users', identities') => a \in J \cup {new}
                BY <4>1, <4>2, <4>3
            <4>5. a \in J \cup {new} => a \in Joined(users', identities')
                BY <2>1, <2>3, <4>1, <4>2
            <4> QED BY <4>4, <4>5
        <3> QED BY <3>2
    <2>6. /\ Accts!Pending(t, "CreateUser") /\ tx[t].new \in Ids \ Accts!Registered
          /\ ~Accts!Taken(t, "email") /\ ~Accts!Taken(t, "name") /\ ~Accts!Taken(t, "identity")
        <3>1. tx[t].keys = Keys
            BY <1>1, <1>4 DEF CreateInv, Keys
        <3>2. \A k \in Keys : ~Accts!Taken(t, k)
            BY <1>2, <3>1, JoinIsTotal DEF Entered
        <3>3. Accts!Pending(t, "CreateUser")
            BY <1>2, <1>4 DEF CreateInv, Accts!Pending
        <3> QED BY <2>2, <3>2, <3>3, JoinIsTotal DEF Keys
    <2> HIDE DEF J, new
    <2> QED BY <1>3, <2>1, <2>2, <2>4, <2>5, <2>6, SameCalls DEF Accts!CreateUser, J
<1>5. CASE OtherInv(t)
    <2> DEFINE v == call[t].actor
    <2>1. /\ users' = {u \in users : u.id # v}
          /\ identities' = {i \in identities : i.user # v}
          /\ members' = {m \in members : m.user # v}
        BY <1>1, <1>5, AppliedDelete
    <2>2. /\ call[t].op = "DeleteUser" /\ v \in Ids /\ tx[t].held = {v} /\ tx[t].new = None
        BY <1>1, <1>5 DEF OtherInv
    <2>3. v \in Registered /\ v # None /\ {tx[t].new} \ {None} = {}
        BY <1>2, <2>2, NoneIsNoId DEF Entered
    <2>4. Joined(users', identities') = {a \in J : a.id # v}
        <3>1. \A u, i : Merged(u, i).id = u.id
            BY DEF Merged
        <3> HIDE DEF Merged
        <3>2. ASSUME NEW a
              PROVE  a \in Joined(users', identities') <=> a \in {b \in J : b.id # v}
            <4>1. a \in Joined(users', identities') <=>
                      \E u \in users', i \in identities' : i.user = u.id /\ a = Merged(u, i)
                BY JoinedRows
            <4>2. a \in J <=>
                      \E u \in users, i \in identities : i.user = u.id /\ a = Merged(u, i)
                BY JoinedRows
            <4> QED BY <2>1, <3>1, <4>1, <4>2
        <3> QED BY <3>2
    <2>5. Accts!Pending(t, "DeleteUser")
        BY <1>2, <2>2 DEF Accts!Pending
    <2> HIDE DEF J
    <2> QED BY <1>3, <2>1, <2>3, <2>4, <2>5, JoinIsTotal DEF Accts!DeleteUser, J
<1> QED BY <1>2, <1>4, <1>5

LEMMA RequestsRefine ==
    ASSUME IInv, NEW t \in Txs, Arrive(t) \/ Return(t) \/ Failure(t)
    PROVE  Accts!Arrive(t) \/ Accts!Return(t) \/ Accts!Fail(t)
<1>1. CASE Arrive(t)
    BY <1>1, SameCalls, JoinKept DEF Arrive, store, Accts!Arrive
<1>2. CASE Return(t)
    BY <1>2, SameCalls, JoinKept DEF Return, store, Accts!Return
<1>3. CASE Failure(t)
    BY <1>3, RefuseRefines DEF Failure, Accts!Fail
<1> QED BY <1>1, <1>2, <1>3

LEMMA ChangeMembersRefines ==
    ASSUME IInv, ChangeMembers PROVE Accts!ChangeMembers
<1>1. UNCHANGED <<users, identities, call>>
    BY DEF ChangeMembers
<1> QED BY <1>1, JoinKept, JoinIsTotal, SameCalls DEF ChangeMembers, Accts!ChangeMembers

\* Accounts implements Registry: every call takes effect as a whole, at one moment.
THEOREM Linearizes == Spec => LinearizesToRegistry
<1>1. Init => Accts!Init
    BY SameCalls DEF Init, Accts!Init, Joined
<1>2. ASSUME IInv, [Next]_vars PROVE [Accts!Next]_(Accts!vars)
    <2>1. CASE UNCHANGED vars
        BY <2>1, JoinKept DEF vars, Accts!vars
    <2>2. CASE ChangeMembers
        BY <1>2, <2>2, ChangeMembersRefines DEF Accts!Next
    <2>3. ASSUME NEW t \in Txs, Arrive(t) \/ Return(t) \/ Step(t) \/ Failure(t) \/ CommitLost(t)
          PROVE  [Accts!Next]_(Accts!vars)
        <3>1. CASE Arrive(t) \/ Return(t) \/ Failure(t)
            BY <1>2, <3>1, RequestsRefine DEF Accts!Next
        <3>2. CASE InsertKey(t)
            BY <1>2, <3>2, InsertKeyRefines DEF Accts!Next
        <3>3. CASE SelectUser(t) \/ ListUsers(t) \/ ListUserWorkspaces(t)
            BY <1>2, <3>3, ReadsRefine DEF Accts!Next
        <3>4. CASE SelectUserByIdentity(t)
            BY <1>2, <3>4, SelectUserByIdentityRefines DEF Accts!Next
        <3>5. CASE LockUserRow(t) \/ DeleteUser(t)
            BY <1>2, <3>5, DeletesRefine DEF Accts!Next
        <3>6. CASE Commit(t) \/ CommitLost(t)
            BY <1>2, <3>6, CommitRefines DEF Accts!Next
        <3> QED BY <2>3, <3>1, <3>2, <3>3, <3>4, <3>5, <3>6 DEF Step
    <2> QED BY <1>2, <2>1, <2>2, <2>3 DEF Next
<1> QED BY <1>1, <1>2, Invariance, PTL DEF Spec, LinearizesToRegistry, Accts!Spec

-----------------------------------------------------------------------------
(* Registry on its own keeps the accounts apart. *)

A == Joined(users, identities)

\* No two accounts share an id, an email, a user name or an identity, none has a blank
\* email or user name, and only accounts are members.
AccountsApart ==
    /\ \A a, b \in A :
          a.id = b.id \/ a.email = b.email \/ a.name = b.name \/ a.subject = b.subject => a = b
    /\ \A a \in A : a.email # Empty /\ a.name # Empty
    /\ \A m \in members : m.user \in Accts!Registered

\* A registration that is handled has a name and an email.
Registrable(c) ==
    c.op = "CreateUser" /\ c.resp = "pending" =>
        /\ {c.email, c.name, c.subject} \subseteq Texts
        /\ Trim[c.email] # Empty /\ Trim[c.name] # Empty

RegistryInv ==
    /\ A \subseteq [id : Ids, email : Texts, name : Texts, subject : Texts]
    /\ members \subseteq MemberRows
    /\ call \in [Txs -> CallRecords]
    /\ AccountsApart
    /\ \A t \in Txs : Registrable(call[t])

LEMMA RegistryCalls ==
    ASSUME RegistryInv, NEW t \in Txs, NEW c \in CallRecords, Registrable(c),
           call' = [call EXCEPT ![t] = c]
    PROVE  call' \in [Txs -> CallRecords] /\ \A s \in Txs : Registrable(call'[s])
<1>1. call \in [Txs -> CallRecords] /\ \A s \in Txs : Registrable(call[s])
    BY DEF RegistryInv
<1> HIDE DEF Registrable
<1> QED BY <1>1

\* An answer changes nothing else about the call.
LEMMA RegistryAnswers ==
    ASSUME RegistryInv, NEW t \in Txs, NEW resp \in Responses, NEW us \in SUBSET Ids,
           NEW wss \in SUBSET Workspaces, Accts!AnswerWith(t, resp, us, wss)
    PROVE  call' \in [Txs -> CallRecords] /\ \A s \in Txs : Registrable(call'[s])
<1> DEFINE c == [call[t] EXCEPT !.resp = resp, !.users = us, !.wss = wss]
<1>1. call \in [Txs -> CallRecords] /\ call[t] \in CallRecords
    BY DEF RegistryInv
<1>2. c \in CallRecords /\ c.resp = resp
    BY <1>1 DEF CallRecords
<1>3. Registrable(c)
    BY <1>2 DEF Registrable, Responses
<1>4. call' = [call EXCEPT ![t] = c]
    BY <1>1 DEF Accts!AnswerWith
<1> HIDE DEF c
<1> QED BY <1>2, <1>3, <1>4, RegistryCalls

\* Nothing but the calls changes.
LEMMA RegistryKept ==
    ASSUME RegistryInv, A' = A, members' = members,
           call' \in [Txs -> CallRecords], \A s \in Txs : Registrable(call'[s])
    PROVE  RegistryInv'
<1>1. Accts!Registered' = Accts!Registered
    BY DEF Accts!Registered, A
<1> HIDE DEF A
<1>2. AccountsApart'
    BY <1>1 DEF RegistryInv, AccountsApart
<1>3. /\ A' \subseteq [id : Ids, email : Texts, name : Texts, subject : Texts]
      /\ members' \subseteq MemberRows
    BY DEF RegistryInv
<1>4. \A s \in Txs : Registrable(call[s])'
    BY DEF Registrable
<1> QED BY <1>2, <1>3, <1>4 DEF RegistryInv

LEMMA RegistryRefuses ==
    ASSUME RegistryInv, NEW t \in Txs, NEW resp \in Responses, Accts!Refuse(t, resp)
    PROVE  RegistryInv'
<1>1. A' = A /\ members' = members /\ Accts!AnswerWith(t, resp, {}, {})
    BY DEF Accts!Refuse, A
<1> QED BY <1>1, RegistryAnswers, RegistryKept

LEMMA RegistrySucceeds ==
    ASSUME RegistryInv, NEW t \in Txs, NEW us \in SUBSET Ids, NEW wss \in SUBSET Workspaces,
           Accts!Succeed(t, us, wss)
    PROVE  call' \in [Txs -> CallRecords] /\ \A s \in Txs : Registrable(call'[s])
<1>1. {"ok", "ErrInternal"} \subseteq Responses
    BY DEF Responses
<1> QED BY <1>1, RegistryAnswers DEF Accts!Succeed

LEMMA RegistryRequests ==
    ASSUME RegistryInv, NEW t \in Txs, Accts!Arrive(t) \/ Accts!Return(t)
    PROVE  RegistryInv'
<1>1. A' = A /\ members' = members
    BY DEF Accts!Arrive, Accts!Return, A
<1>2. CASE Accts!Arrive(t)
    <2>1. PICK r \in Requests : call' = [call EXCEPT ![t] = Received(r)]
        BY <1>2, SameCalls DEF Accts!Arrive
    <2>2. Received(r) \in CallRecords
        BY FieldsAreTexts DEF Received, Invalid, Requests, CallRecords, Responses
    <2>3. Registrable(Received(r))
        BY FieldsAreTexts DEF Received, Invalid, Requests, Registrable
    <2> QED BY <1>1, <2>1, <2>2, <2>3, RegistryCalls, RegistryKept
<1>3. CASE Accts!Return(t)
    <2>1. call' = [call EXCEPT ![t] = NoCall]
        BY <1>3, SameCalls DEF Accts!Return
    <2>2. NoCall \in CallRecords /\ Registrable(NoCall)
        BY DEF NoCall, CallRecords, Registrable
    <2> QED BY <1>1, <2>1, <2>2, RegistryCalls, RegistryKept
<1> QED BY <1>2, <1>3

LEMMA RegistryCreates ==
    ASSUME RegistryInv, NEW t \in Txs, Accts!CreateUser(t)
    PROVE  RegistryInv'
<1> DEFINE c == call[t]
           New(u) == [id |-> u, email |-> KeyOf(c, "email"), name |-> KeyOf(c, "name"),
                      subject |-> KeyOf(c, "identity")]
<1>1. {"ErrEmailTaken", "ErrUserNameTaken", "ErrIdentityTaken"} \subseteq Responses
    BY DEF Responses
<1>2. CASE \E resp \in Responses : Accts!Refuse(t, resp)
    BY <1>2, RegistryRefuses
<1>3. CASE ~\E resp \in Responses : Accts!Refuse(t, resp)
    <2>1. PICK u \in Ids \ Accts!Registered :
            /\ ~Accts!Taken(t, "email") /\ ~Accts!Taken(t, "name") /\ ~Accts!Taken(t, "identity")
            /\ A' = A \cup {New(u)} /\ members' = members
            /\ Accts!Succeed(t, {u}, {}) /\ Accts!Pending(t, "CreateUser")
        BY <1>1, <1>3, SameCalls DEF Accts!CreateUser, A
    <2>2. call' \in [Txs -> CallRecords] /\ \A s \in Txs : Registrable(call'[s])
        BY <2>1, RegistrySucceeds
    <2>3. /\ {c.email, c.name, c.subject} \subseteq Texts
          /\ Trim[c.email] # Empty /\ Trim[c.name] # Empty
        BY <2>1 DEF RegistryInv, Registrable, Accts!Pending
    <2>4. /\ New(u).id = u /\ New(u).email = Trim[c.email] /\ New(u).name = Trim[c.name]
          /\ New(u).subject = c.subject
          /\ New(u) \in [id : Ids, email : Texts, name : Texts, subject : Texts]
        BY <2>3, TrimTrims DEF KeyOf
    <2>5. \A a \in A : /\ a.id # u /\ a.email # Trim[c.email] /\ a.name # Trim[c.name]
                       /\ a.subject # c.subject
        BY <2>1, SameCalls DEF Accts!Taken, Accts!Registered, A, KeyOf
    <2>6. /\ Accts!Registered = {a.id : a \in A} /\ Accts!Registered' = {a.id : a \in A'}
        BY DEF Accts!Registered, A
    <2> HIDE DEF A, New
    <2>7. AccountsApart'
        <3>1. \A a, b \in A' :
                a.id = b.id \/ a.email = b.email \/ a.name = b.name \/ a.subject = b.subject => a = b
            BY <2>1, <2>4, <2>5 DEF RegistryInv, AccountsApart
        <3>2. \A a \in A' : a.email # Empty /\ a.name # Empty
            BY <2>1, <2>3, <2>4 DEF RegistryInv, AccountsApart
        <3>3. \A m \in members' : m.user \in Accts!Registered'
            BY <2>1, <2>6 DEF RegistryInv, AccountsApart
        <3> QED BY <3>1, <3>2, <3>3 DEF AccountsApart
    <2>8. /\ A' \subseteq [id : Ids, email : Texts, name : Texts, subject : Texts]
          /\ members' \subseteq MemberRows
        BY <2>1, <2>4 DEF RegistryInv
    <2>9. \A s \in Txs : Registrable(call[s])'
        BY <2>2 DEF Registrable
    <2> QED BY <2>2, <2>7, <2>8, <2>9 DEF RegistryInv
<1> QED BY <1>2, <1>3

LEMMA RegistryReads ==
    ASSUME RegistryInv, NEW t \in Txs,
           \/ Accts!ReadUser(t) \/ Accts!ListUsers(t) \/ Accts!ReadUserProfile(t)
    PROVE  RegistryInv'
<1>1. Accts!Registered \subseteq Ids
    BY DEF RegistryInv, Accts!Registered, A
<1>2. \A u : Accts!WorkspacesOf(u) \in SUBSET Workspaces
    BY DEF RegistryInv, Accts!WorkspacesOf, MemberRows
<1>3. "ErrNotFound" \in Responses /\ call[t] \in CallRecords
    BY DEF Responses, RegistryInv
<1>4. \/ Accts!Refuse(t, "ErrNotFound")
      \/ /\ A' = A /\ members' = members
         /\ \E us \in SUBSET Ids, wss \in SUBSET Workspaces : Accts!Succeed(t, us, wss)
    <2>1. CASE Accts!ReadUser(t)
        BY <1>1, <1>3, <2>1 DEF Accts!ReadUser, A
    <2>2. CASE Accts!ListUsers(t)
        BY <1>1, <2>2 DEF Accts!ListUsers, A
    <2>3. CASE Accts!ReadUserProfile(t)
        <3>1. call[t].actor \in Ids
            BY <1>3, <2>3 DEF Accts!ReadUserProfile, CallRecords
        <3> QED BY <1>2, <2>3, <3>1 DEF Accts!ReadUserProfile, A
    <2> QED BY <2>1, <2>2, <2>3
<1> QED BY <1>3, <1>4, RegistryRefuses, RegistrySucceeds, RegistryKept

LEMMA RegistryResolves ==
    ASSUME RegistryInv, NEW t \in Txs, Accts!ResolveActor(t)
    PROVE  RegistryInv'
<1>1. {"ErrForbidden", "ErrNotFound"} \subseteq Responses /\ call[t] \in CallRecords
    BY DEF Responses, RegistryInv
<1>2. CASE \E resp \in Responses : Accts!Refuse(t, resp)
    BY <1>2, RegistryRefuses
<1>3. CASE ~\E resp \in Responses : Accts!Refuse(t, resp)
    <2>1. PICK a \in A : call' = [call EXCEPT ![t].actor = a.id] /\ A' = A /\ members' = members
        BY <1>1, <1>3 DEF Accts!ResolveActor, A
    <2>2. a.id \in Ids /\ call[t].op # "CreateUser"
        BY <1>1, SameCalls DEF RegistryInv, Accts!ResolveActor, NeedsActor
    <2> DEFINE c == [call[t] EXCEPT !.actor = a.id]
    <2>3. c \in CallRecords /\ Registrable(c)
        BY <1>1, <2>2 DEF CallRecords, Registrable
    <2>4. call' = [call EXCEPT ![t] = c]
        BY <2>1 DEF RegistryInv
    <2> HIDE DEF c
    <2> QED BY <2>1, <2>3, <2>4, RegistryCalls, RegistryKept
<1> QED BY <1>2, <1>3

LEMMA RegistryDeletes ==
    ASSUME RegistryInv, NEW t \in Txs, Accts!DeleteUser(t)
    PROVE  RegistryInv'
<1> DEFINE u == call[t].actor
<1>1. "ErrNotFound" \in Responses
    BY DEF Responses
<1>2. CASE Accts!Refuse(t, "ErrNotFound")
    BY <1>1, <1>2, RegistryRefuses
<1>3. CASE ~Accts!Refuse(t, "ErrNotFound")
    <2>1. /\ A' = {a \in A : a.id # u} /\ members' = {m \in members : m.user # u}
          /\ Accts!Succeed(t, {}, {})
        BY <1>3 DEF Accts!DeleteUser, A
    <2>2. call' \in [Txs -> CallRecords] /\ \A s \in Txs : Registrable(call'[s])
        BY <2>1, RegistrySucceeds
    <2>3. Accts!Registered = {a.id : a \in A} /\ Accts!Registered' = {a.id : a \in A'}
        BY DEF Accts!Registered, A
    <2> HIDE DEF A
    <2>4. AccountsApart'
        BY <2>1, <2>3 DEF RegistryInv, AccountsApart
    <2>5. /\ A' \subseteq [id : Ids, email : Texts, name : Texts, subject : Texts]
          /\ members' \subseteq MemberRows
        BY <2>1 DEF RegistryInv
    <2>6. \A s \in Txs : Registrable(call[s])'
        BY <2>2 DEF Registrable
    <2> QED BY <2>2, <2>4, <2>5, <2>6 DEF RegistryInv
<1> QED BY <1>2, <1>3

LEMMA RegistryMembers ==
    ASSUME RegistryInv, Accts!ChangeMembers
    PROVE  RegistryInv'
<1>1. PICK m \in MemberRows : \/ m.user \in Accts!Registered /\ members' = members \cup {m}
                              \/ members' = members \ {m}
    BY SameCalls DEF Accts!ChangeMembers
<1>2. A' = A /\ call' = call /\ Accts!Registered' = Accts!Registered
    BY DEF Accts!ChangeMembers, Accts!Registered, A
<1> HIDE DEF A
<1>3. AccountsApart'
    BY <1>1, <1>2 DEF RegistryInv, AccountsApart
<1>4. /\ A' \subseteq [id : Ids, email : Texts, name : Texts, subject : Texts]
      /\ members' \subseteq MemberRows /\ call' \in [Txs -> CallRecords]
      /\ \A s \in Txs : Registrable(call[s])'
    BY <1>1, <1>2 DEF RegistryInv, Registrable
<1> QED BY <1>3, <1>4 DEF RegistryInv

\* The contract itself keeps accounts apart: calls that behave as if each ran alone
\* never register a name, an email or an identity twice or leave a member without an
\* account.
THEOREM ContractKeepsAccountsApart == Accts!Spec => []AccountsApart
<1>1. Accts!Init => RegistryInv
    <2> SUFFICES ASSUME Accts!Init PROVE RegistryInv
        OBVIOUS
    <2>1. A = {} /\ members = {} /\ call = [t \in Txs |-> NoCall]
        BY SameCalls DEF Accts!Init, A
    <2>2. NoCall \in CallRecords /\ Registrable(NoCall)
        BY DEF NoCall, CallRecords, Registrable
    <2> HIDE DEF A
    <2> QED BY <2>1, <2>2 DEF RegistryInv, AccountsApart
<1>2. RegistryInv /\ [Accts!Next]_(Accts!vars) => RegistryInv'
    <2> SUFFICES ASSUME RegistryInv, [Accts!Next]_(Accts!vars) PROVE RegistryInv'
        OBVIOUS
    <2>1. CASE UNCHANGED Accts!vars
        <3>1. A' = A /\ members' = members /\ call' = call
            BY <2>1 DEF Accts!vars, A
        <3> HIDE DEF A
        <3>2. call' \in [Txs -> CallRecords] /\ \A s \in Txs : Registrable(call'[s])
            BY <3>1 DEF RegistryInv
        <3> QED BY <3>1, <3>2, RegistryKept
    <2>2. ASSUME NEW t \in Txs, Accts!Fail(t) PROVE RegistryInv'
        <3>1. "ErrInternal" \in Responses /\ Accts!Refuse(t, "ErrInternal")
            BY <2>2 DEF Accts!Fail, Responses
        <3> QED BY <3>1, RegistryRefuses
    <2> QED BY <2>1, <2>2, RegistryMembers, RegistryRequests, RegistryCreates, RegistryReads,
               RegistryResolves, RegistryDeletes DEF Accts!Next
<1>3. RegistryInv => AccountsApart
    BY DEF RegistryInv
<1> QED BY <1>1, <1>2, <1>3, PTL DEF Accts!Spec
=============================================================================
