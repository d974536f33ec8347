------------------------- MODULE WorkspaceTxns_proofs -------------------------
(***************************************************************************)
(* Proofs about WorkspaceTxns: IInv (module WorkspaceSafety) is inductive. *)
(* One lemma frames the steps that leave the database alone, one treats    *)
(* those that end a transaction without effect, and the others go through  *)
(* the actions, the commits last.                                          *)
(***************************************************************************)
EXTENDS WorkspaceSafety, FiniteSetTheorems, TLAPS

\* A step of t that does not touch the database, and leaves every other
\* transaction and call as it was, only has to restore what IInv says of t.
LEMMA QuietStep ==
    ASSUME IInv, NEW t \in Txs, TypeOK',
           db' = db,
           \A s \in Txs \ {t} : tx'[s] = tx[s] /\ call'[s] = call[s],
           \A s \in Txs \ {t} : LockedApart(s, t)' /\ LockedApart(t, s)',
           WriteSetFits(t)', CascadeFollows(t)', TxInv(t)',
           \A s \in Txs : NewIdsUnknown(s, t)' /\ NewIdsUnknown(t, s)'
    PROVE  IInv'
<1>1. Consistent(db)'
  BY DEF IInv, Consistent, ForeignKeysHold, MembershipKeysUnique, AtMostOneOwner, EveryWorkspaceHasOwner
<1>2. ASSUME NEW s \in Txs, NEW r \in Txs, s # r
      PROVE  LockedApart(s, r)'
  <2>1. CASE s = t \/ r = t
    BY <1>2, <2>1
  <2>2. CASE s # t /\ r # t
    BY <1>2, <2>2 DEF IInv, LocksExclude, LockedApart, Exclusive
  <2>. QED  BY <2>1, <2>2
<1>3. ASSUME NEW s \in Txs
      PROVE  (WriteSetFits(s) /\ CascadeFollows(s) /\ TxInv(s))'
  <2>1. CASE s = t
    BY <2>1
  <2>2. CASE s # t
    <3>1. tx'[s] = tx[s] /\ call'[s] = call[s] /\ db' = db
      BY <2>2
    <3>2. WriteSetFits(s) /\ CascadeFollows(s) /\ TxInv(s)
      BY DEF IInv
    <3>3. WriteSetFits(s)' /\ CascadeFollows(s)'
      BY <3>1, <3>2 DEF WriteSetFits, CascadeFollows
    <3>4. /\ Idle(s) => Idle(s)'
          /\ CreateInv(s) => CreateInv(s)'
          /\ LockInv(s) => LockInv(s)'
      BY <3>1 DEF Idle, CreateInv, LockInv
    <3>5. /\ ReadInv(s) => ReadInv(s)'
          /\ AddInv(s) => AddInv(s)'
          /\ RemoveInv(s) => RemoveInv(s)'
          /\ DeleteWorkspaceInv(s) => DeleteWorkspaceInv(s)'
      BY <3>1, <3>4 DEF ReadInv, AddInv, RemoveInv, DeleteWorkspaceInv
    <3>6. DeleteUserInv(s) => DeleteUserInv(s)'
      BY <3>1 DEF DeleteUserInv
    <3>7. TxInv(s)'
      BY <3>1, <3>2, <3>4, <3>5, <3>6 DEF TxInv
    <3>. QED  BY <3>3, <3>7
  <2>. QED  BY <2>1, <2>2
<1>4. ASSUME NEW s \in Txs, NEW r \in Txs
      PROVE  NewIdsUnknown(s, r)'
  <2>1. CASE s = t \/ r = t
    BY <2>1
  <2>2. CASE s # t /\ r # t
    BY <2>2 DEF IInv, NewIdsUnknown
  <2>. QED  BY <2>1, <2>2
<1>. QED  BY <1>1, <1>2, <1>3, <1>4 DEF IInv, LocksExclude

\* A transaction that has no rows is no obstacle to anything.
LEMMA EmptyTx ==
    ASSUME IInv, NEW t \in Txs, TypeOK', db' = db, tx' = [tx EXCEPT ![t] = NoTx],
           \A s \in Txs \ {t} : call'[s] = call[s],
           call'[t].resp # "pending"
    PROVE  IInv'
<1>1. tx'[t] = NoTx /\ \A s \in Txs \ {t} : tx'[s] = tx[s]
  BY DEF IInv, TypeOK
<1>2. \A s \in Txs \ {t} : LockedApart(s, t)' /\ LockedApart(t, s)'
  BY <1>1 DEF LockedApart, Exclusive, NoTx
<1>3. WriteSetFits(t)' /\ CascadeFollows(t)'
  BY <1>1 DEF WriteSetFits, CascadeFollows, NoTx
<1>4. TxInv(t)'
  BY <1>1 DEF TxInv, Idle
<1>5. \A s \in Txs : NewIdsUnknown(s, t)' /\ NewIdsUnknown(t, s)'
  BY <1>1 DEF NewIdsUnknown, NoTx
<1>. QED  BY <1>1, <1>2, <1>3, <1>4, <1>5, QuietStep

\* An answer keeps the types.
LEMMA AnswerTypes ==
    ASSUME TypeOK, NEW t \in Txs, NEW resp \in Responses, Answer(t, resp)
    PROVE  call' \in [Txs -> CallRecords] /\ tx' \in [Txs -> TxRecords]
<1>1. NoTx \in TxRecords
  BY DEF NoTx, TxRecords
<1>2. tx' \in [Txs -> TxRecords]
  BY <1>1 DEF Answer, TypeOK
<1>3. resp \in Responses \cup {"none", "pending"}
  OBVIOUS
<1>4. call[t] \in CallRecords
  BY DEF TypeOK
<1>5. [call[t] EXCEPT !.resp = resp] \in CallRecords
  BY <1>3, <1>4 DEF CallRecords
<1>6. call' \in [Txs -> CallRecords]
  BY <1>5 DEF Answer, TypeOK
<1>. QED  BY <1>2, <1>6

LEMMA RefuseStep ==
    ASSUME IInv, NEW t \in Txs, NEW resp \in Responses, Refuse(t, resp)
    PROVE  IInv'
<1>1. TypeOK'
  BY AnswerTypes DEF IInv, TypeOK, Refuse
<1>2. call'[t].resp # "pending" /\ \A s \in Txs \ {t} : call'[s] = call[s]
  BY DEF IInv, TypeOK, Refuse, Answer, CallRecords, Responses, Sentinels, Unexpected
<1>. QED  BY <1>1, <1>2, EmptyTx DEF Refuse, Answer

\* What the statement a transaction stands at says of its call.
LEMMA StatementOfCall ==
    ASSUME IInv, NEW t \in Txs, tx[t].pc # "none"
    PROVE  /\ call[t].resp = "pending" /\ call[t].actor \in Users
           /\ tx[t].pc \in {"CreateWorkspace", "AddWorkspaceOwner", "CommitAborted"} =>
                 call[t].op = "CreateWorkspace" /\ CreateInv(t)
           /\ tx[t].pc = "ListWorkspaceMembers" => call[t].op = "ReadWorkspace" /\ ReadInv(t)
           /\ tx[t].pc = "AddWorkspaceMember" => call[t].op = "AddWorkspaceMember" /\ AddInv(t)
           /\ tx[t].pc = "RemoveWorkspaceMember" =>
                 call[t].op = "RemoveWorkspaceMember" /\ RemoveInv(t)
           /\ tx[t].pc = "DeleteWorkspace" =>
                 call[t].op = "DeleteWorkspace" /\ DeleteWorkspaceInv(t)
           /\ tx[t].pc \in {"LockUserRow", "DeleteWorkspacesOwnedByUser", "DeleteUser"} =>
                 call[t].op = "DeleteUser" /\ DeleteUserInv(t)
           /\ tx[t].pc = "LockWorkspaceRow" =>
                 \/ call[t].op = "ReadWorkspace"         /\ ReadInv(t)
                 \/ call[t].op = "AddWorkspaceMember"    /\ AddInv(t)
                 \/ call[t].op = "RemoveWorkspaceMember" /\ RemoveInv(t)
                 \/ call[t].op = "DeleteWorkspace"       /\ DeleteWorkspaceInv(t)
           /\ tx[t].pc = "SelectWorkspaceMember" =>
                 \/ call[t].op = "AddWorkspaceMember"    /\ AddInv(t)
                 \/ call[t].op = "RemoveWorkspaceMember" /\ RemoveInv(t)
                 \/ call[t].op = "DeleteWorkspace"       /\ DeleteWorkspaceInv(t)
<1>1. TxInv(t) /\ ~Idle(t)
  BY DEF IInv, Idle, NoTx
<1>2. CreateInv(t) => tx[t].pc \in {"CreateWorkspace", "AddWorkspaceOwner", "Commit", "CommitAborted"}
  BY DEF CreateInv
<1>3. ReadInv(t) => tx[t].pc \in {"LockWorkspaceRow", "ListWorkspaceMembers", "Commit"}
  BY DEF ReadInv
<1>4. AddInv(t) => tx[t].pc \in {"LockWorkspaceRow", "SelectWorkspaceMember", "AddWorkspaceMember", "Commit"}
  BY DEF AddInv
<1>5. RemoveInv(t) => tx[t].pc \in {"LockWorkspaceRow", "SelectWorkspaceMember", "RemoveWorkspaceMember", "Commit"}
  BY DEF RemoveInv
<1>6. DeleteWorkspaceInv(t) => tx[t].pc \in {"LockWorkspaceRow", "SelectWorkspaceMember", "DeleteWorkspace", "Commit"}
  BY DEF DeleteWorkspaceInv
<1>7. DeleteUserInv(t) => tx[t].pc \in {"LockUserRow", "DeleteWorkspacesOwnedByUser", "DeleteUser", "Commit"}
  BY DEF DeleteUserInv
<1>. QED  BY <1>1, <1>2, <1>3, <1>4, <1>5, <1>6, <1>7 DEF TxInv

LEMMA RowTypes ==
    /\ \A u \in Users : UserRow(u) \in Rows
    /\ \A w \in Workspaces : WorkspaceRow(w) \in Rows
    /\ \A w \in Workspaces, u \in Users : OwnerRow(w, u) \in Rows /\ MemberRow(w, u) \in Rows
BY DEF Rows, Roles, UserRow, WorkspaceRow, OwnerRow, MemberRow

\* A step that changes only the statement, or the list that was read.
LEMMA SameRowsStep ==
    ASSUME IInv, NEW t \in Txs, NEW pc \in Statements, NEW seen \in SUBSET Rows,
           tx' = [tx EXCEPT ![t].pc = pc, ![t].seen = seen],
           call' = call, db' = db, TxInv(t)'
    PROVE  IInv'
<1>1. TypeOK'
  BY ZenonT(60) DEF IInv, TypeOK, TxRecords
<1>2. /\ tx'[t].held = tx[t].held /\ tx'[t].puts = tx[t].puts /\ tx'[t].gone = tx[t].gone
      /\ tx'[t].shared = tx[t].shared /\ tx'[t].todo = tx[t].todo
      /\ \A s \in Txs \ {t} : tx'[s] = tx[s] /\ call'[s] = call[s]
  BY DEF IInv, TypeOK, TxRecords
<1>3. \A s \in Txs \ {t} : LockedApart(s, t)' /\ LockedApart(t, s)'
  BY <1>2, ZenonT(60) DEF IInv, LocksExclude, LockedApart, Exclusive
<1>4. WriteSetFits(t)' /\ CascadeFollows(t)'
  BY <1>2 DEF IInv, WriteSetFits, CascadeFollows
<1>5. \A s \in Txs : NewIdsUnknown(s, t)' /\ NewIdsUnknown(t, s)'
  BY <1>2 DEF IInv, NewIdsUnknown
<1>. QED  BY <1>1, <1>2, <1>3, <1>4, <1>5, QuietStep

LEMMA ArriveStep ==
    ASSUME IInv, NEW t \in Txs, Arrive(t)
    PROVE  IInv'
<1>. PICK r \in Requests :
        /\ call' = [call EXCEPT ![t] = Received(r)]
        /\ tx' = [tx EXCEPT ![t].pc = IF Received(r).resp = "pending" THEN First(r.op) ELSE "none"]
  BY DEF Arrive
<1>1. tx[t] = NoTx /\ db' = db
  BY DEF IInv, TxInv, Idle, Arrive, NoCall
<1>2. /\ r.op \in Ops /\ r.actor \in Users
      /\ r.ws \in Workspaces \cup {None} /\ r.user \in Users \cup {None}
      /\ r.op \in Operations
  BY OpsAreOperations DEF Requests
<1>3. /\ Received(r) \in CallRecords
      /\ Received(r).resp \in {"pending", "ErrForbidden"}
      /\ Received(r).op = r.op /\ Received(r).actor = r.actor
      /\ Received(r).ws = r.ws /\ Received(r).user = r.user
  BY <1>2 DEF Received, CallRecords, Responses, Sentinels
<1>4. CASE Received(r).resp # "pending"
  <2>1. tx' = [tx EXCEPT ![t] = NoTx]
    <3>1. [tx[t] EXCEPT !.pc = "none"] = NoTx
      BY <1>1 DEF NoTx
    <3>2. tx' = [tx EXCEPT ![t].pc = "none"]
      BY <1>4
    <3>3. tx' = [tx EXCEPT ![t] = [tx[t] EXCEPT !.pc = "none"]]
      BY <3>2
    <3>. QED  BY <3>1, <3>3
  <2>2. TypeOK'
    BY <1>1, <1>3, <2>1 DEF IInv, TypeOK
  <2>3. call'[t].resp # "pending" /\ \A s \in Txs \ {t} : call'[s] = call[s]
    BY <1>3, <1>4 DEF IInv, TypeOK
  <2>. QED  BY <1>1, <2>1, <2>2, <2>3, EmptyTx
<1>5. CASE Received(r).resp = "pending"
  <2>1. /\ tx'[t] = [NoTx EXCEPT !.pc = First(r.op)]
        /\ \A s \in Txs \ {t} : tx'[s] = tx[s] /\ call'[s] = call[s]
        /\ call'[t] = Received(r)
    BY <1>1, <1>5 DEF IInv, TypeOK
  <2>2. First(r.op) \in Statements
    BY DEF First, Statements
  <2>3. TypeOK'
    BY <1>1, <1>3, <2>1, <2>2 DEF IInv, TypeOK, TxRecords, NoTx
  <2>4. \A s \in Txs \ {t} : LockedApart(s, t)' /\ LockedApart(t, s)'
    BY <2>1 DEF LockedApart, Exclusive, NoTx
  <2>5. WriteSetFits(t)' /\ CascadeFollows(t)'
    BY <2>1 DEF WriteSetFits, CascadeFollows, NoTx
  <2>6. \A s \in Txs : NewIdsUnknown(s, t)' /\ NewIdsUnknown(t, s)'
    BY <2>1 DEF NewIdsUnknown, NoTx
  <2>7. TxInv(t)'
    <3>1. /\ call'[t].resp = "pending" /\ call'[t].actor \in Users /\ call'[t].op = r.op
          /\ call'[t].ws = r.ws /\ call'[t].user = r.user
          /\ tx'[t].pc = First(r.op)
          /\ tx'[t].held = {} /\ tx'[t].puts = {} /\ tx'[t].gone = {} /\ tx'[t].todo = {}
      BY <1>2, <1>3, <1>5, <2>1 DEF NoTx
    <3>2. CASE r.op = "CreateWorkspace"
      BY <3>1, <3>2 DEF TxInv, CreateInv, First
    <3>3. CASE r.op = "DeleteUser"
      <4>1. r.user \in Users
        BY <3>3, <1>2 DEF Requests
      <4>2. DeleteUserInv(t)'
        BY <3>1, <3>3, <4>1 DEF DeleteUserInv, First
      <4>. QED  BY <3>1, <3>3, <4>2 DEF TxInv
    <3>4. CASE r.op \notin {"CreateWorkspace", "DeleteUser"}
      <4>1. r.ws \in Workspaces /\ tx'[t].pc = "LockWorkspaceRow"
        BY <3>1, <3>4, <1>2 DEF Requests, First
      <4>2. LockInv(t)'
        BY <3>1, <4>1 DEF LockInv
      <4>3. r.op \in {"AddWorkspaceMember", "RemoveWorkspaceMember"} => r.user \in Users
        BY <1>2 DEF Requests
      <4>. QED  BY <1>2, <3>1, <3>4, <4>1, <4>2, <4>3 
                DEF TxInv, Operations, ReadInv, AddInv, RemoveInv, DeleteWorkspaceInv
    <3>. QED  BY <3>2, <3>3, <3>4
  <2>. QED  BY <1>1, <2>1, <2>3, <2>4, <2>5, <2>6, <2>7, QuietStep
<1>. QED  BY <1>4, <1>5

LEMMA ReturnStep ==
    ASSUME IInv, NEW t \in Txs, Return(t)
    PROVE  IInv'
<1>1. call[t].resp # "pending"
  BY DEF Return, Responses, Sentinels, Unexpected
<1>2. tx[t] = NoTx
  BY <1>1 DEF IInv, TxInv, Idle
<1>3. tx' = [tx EXCEPT ![t] = NoTx] /\ db' = db
  BY <1>2 DEF IInv, TypeOK, Return
<1>4. TypeOK'
  BY <1>3 DEF IInv, TypeOK, Return, CallRecords, NoCall
<1>5. call'[t].resp # "pending" /\ \A s \in Txs \ {t} : call'[s] = call[s]
  BY DEF IInv, TypeOK, Return, NoCall
<1>. QED  BY <1>3, <1>4, <1>5, EmptyTx

LEMMA CreateWorkspaceStep ==
    ASSUME IInv, NEW t \in Txs, CreateWorkspace(t)
    PROVE  IInv'
<1>0. PICK w \in Workspaces :
        /\ Fresh(w)
        /\ tx' = [tx EXCEPT ![t].pc = "AddWorkspaceOwner", ![t].puts = {WorkspaceRow(w)}]
  BY DEF CreateWorkspace
<1>1. db' = db /\ call' = call /\ tx[t].pc = "CreateWorkspace"
  BY DEF CreateWorkspace, At
<1>2. call[t].resp = "pending" /\ call[t].actor \in Users /\ call[t].op = "CreateWorkspace" /\ CreateInv(t)
  BY <1>1, StatementOfCall
<1>3. tx[t].held = {} /\ tx[t].gone = {} /\ tx[t].todo = {} /\ tx[t].puts = {}
  BY <1>1, <1>2 DEF CreateInv
<1>4. /\ tx'[t] = [tx[t] EXCEPT !.pc = "AddWorkspaceOwner", !.puts = {WorkspaceRow(w)}]
      /\ \A s \in Txs \ {t} : tx'[s] = tx[s] /\ call'[s] = call[s]
  BY <1>0, <1>1 DEF IInv, TypeOK
<1>5. /\ tx'[t].puts = {WorkspaceRow(w)} /\ tx'[t].shared = tx[t].shared
      /\ tx'[t].held = {} /\ tx'[t].gone = {} /\ tx'[t].todo = {}
      /\ tx'[t].pc = "AddWorkspaceOwner"
  BY <1>3, <1>4 DEF IInv, TypeOK, TxRecords
<1>6. TypeOK'
  <2>1. {WorkspaceRow(w)} \in SUBSET Rows /\ "AddWorkspaceOwner" \in Statements
    BY RowTypes DEF Statements
  <2>2. tx'[t] \in TxRecords
    <3>1. tx[t] \in TxRecords
      BY DEF IInv, TypeOK
    <3>2. tx'[t] = [tx[t] EXCEPT !.pc = "AddWorkspaceOwner", !.puts = {WorkspaceRow(w)}]
      BY <1>4
    <3>. QED  BY <2>1, <3>1, <3>2 DEF TxRecords
  <2>. QED  BY <1>0, <1>1, <1>4, <2>2 DEF IInv, TypeOK
<1>7. WorkspaceRow(w).ws = w
  BY DEF WorkspaceRow
<1>8. \A s \in Txs \ {t} : LockedApart(s, t)' /\ LockedApart(t, s)'
  <2>. SUFFICES ASSUME NEW s \in Txs \ {t}
                PROVE  LockedApart(s, t)' /\ LockedApart(t, s)'
    OBVIOUS
  <2>1. WorkspaceRow(w) \notin db /\ WorkspaceRow(w) \notin tx[s].puts
    BY <1>0, <1>7 DEF Fresh
  <2>2. WorkspaceRow(w) \notin Exclusive(s) \cup tx[s].shared
    BY <2>1 DEF IInv, WriteSetFits, Exclusive
  <2>3. LockedApart(s, t) /\ LockedApart(t, s)
    BY DEF IInv, LocksExclude
  <2>. QED  BY <1>4, <1>5, <2>2, <2>3 DEF LockedApart, Exclusive
<1>9. WriteSetFits(t)' /\ CascadeFollows(t)'
  <2>1. WorkspaceRow(w) \notin db
    BY <1>0, <1>7 DEF Fresh
  <2>2. tx[t].shared \subseteq db
    BY DEF IInv, WriteSetFits
  <2>. QED  BY <1>1, <1>5, <2>1, <2>2 DEF WriteSetFits, CascadeFollows
<1>10. TxInv(t)'
  BY <1>1, <1>2, <1>5 DEF TxInv, CreateInv
<1>11. \A s \in Txs : NewIdsUnknown(s, t)' /\ NewIdsUnknown(t, s)'
  <2>. SUFFICES ASSUME NEW s \in Txs
                PROVE  NewIdsUnknown(s, t)' /\ NewIdsUnknown(t, s)'
    OBVIOUS
  <2>1. NewIdsUnknown(t, s)'
    BY <1>5 DEF NewIdsUnknown
  <2>2. \A r \in tx'[s].todo : r.ws # w
    BY <1>0, <1>3, <1>4, <1>5 DEF Fresh
  <2>3. NewIdsUnknown(s, t)'
    BY <1>5, <2>2 DEF NewIdsUnknown, WorkspaceRow
  <2>. QED  BY <2>1, <2>3
<1>. QED  BY <1>1, <1>4, <1>6, <1>8, <1>9, <1>10, <1>11, QuietStep

LEMMA AddWorkspaceOwnerStep ==
    ASSUME IInv, NEW t \in Txs, AddWorkspaceOwner(t)
    PROVE  IInv'
<1>. DEFINE u == call[t].actor
<1>1. tx[t].pc = "AddWorkspaceOwner" /\ AddOwnerBlockers(t) = {}
  BY DEF AddWorkspaceOwner, At
<1>2. call[t].resp = "pending" /\ u \in Users /\ call[t].op = "CreateWorkspace" /\ CreateInv(t)
  BY <1>1, StatementOfCall
<1>3. tx[t].held = {} /\ tx[t].gone = {} /\ tx[t].todo = {}
  BY <1>2 DEF CreateInv
<1>4. PICK w \in Workspaces : tx[t].puts = {WorkspaceRow(w)}
  BY <1>1, <1>2 DEF CreateInv
<1>5. CASE Refuse(t, "ErrOwnerKey")
  BY <1>5, RefuseStep DEF Responses, Unexpected
<1>6. CASE /\ UserRow(u) \in db
           /\ tx' = [tx EXCEPT ![t].pc = "Commit",
                               ![t].puts = @ \cup {OwnerRow(r.ws, u) : r \in @},
                               ![t].shared = {UserRow(u)}]
           /\ UNCHANGED <<db, call>>
  <2>1. {OwnerRow(r.ws, u) : r \in tx[t].puts} = {OwnerRow(w, u)}
    BY <1>4 DEF WorkspaceRow
  <2>2. tx'[t] = [tx[t] EXCEPT !.pc = "Commit", !.puts = {WorkspaceRow(w), OwnerRow(w, u)},
                               !.shared = {UserRow(u)}]
    BY <1>4, <1>6, <2>1 DEF IInv, TypeOK
  <2>3. \A s \in Txs \ {t} : tx'[s] = tx[s] /\ call'[s] = call[s]
    BY <1>6 DEF IInv, TypeOK
  <2>4. /\ tx'[t].pc = "Commit" /\ tx'[t].puts = {WorkspaceRow(w), OwnerRow(w, u)}
        /\ tx'[t].shared = {UserRow(u)}
        /\ tx'[t].held = {} /\ tx'[t].gone = {} /\ tx'[t].todo = {}
    BY <1>3, <2>2 DEF IInv, TypeOK, TxRecords
  <2>5. TypeOK'
    <3>1. /\ {WorkspaceRow(w), OwnerRow(w, u)} \in SUBSET Rows /\ {UserRow(u)} \in SUBSET Rows
          /\ "Commit" \in Statements
      BY <1>2, RowTypes DEF Statements
    <3>2. tx'[t] \in TxRecords
      BY <2>2, <3>1 DEF IInv, TypeOK, TxRecords
    <3>. QED  BY <1>6, <2>3, <3>2 DEF IInv, TypeOK
  <2>6. WorkspaceRow(w) \notin db /\ OwnerRow(w, u) \notin db
    <3>1. WorkspaceRow(w) \notin db
      BY <1>4 DEF IInv, WriteSetFits
    <3>. QED  BY <3>1 DEF IInv, Consistent, ForeignKeysHold, OwnerRow, Roles
  <2>7. \A s \in Txs \ {t} : LockedApart(s, t)' /\ LockedApart(t, s)'
    <3>. SUFFICES ASSUME NEW s \in Txs \ {t}
                  PROVE  LockedApart(s, t)' /\ LockedApart(t, s)'
      OBVIOUS
    <3>1. LockedApart(s, t) /\ LockedApart(t, s)
      BY DEF IInv, LocksExclude
    <3>2. UserRow(u) \notin Exclusive(s)
      BY <1>1 DEF AddOwnerBlockers, Writers
    <3>3. OwnerRow(w, u) \notin Exclusive(s) \cup tx[s].shared
      <4>1. OwnerRow(w, u) \notin tx[s].held \cup tx[s].gone \cup tx[s].shared
        BY <2>6 DEF IInv, WriteSetFits
      <4>2. OwnerRow(w, u) \in tx[s].puts => WorkspaceRow(w) \in tx[s].puts
        <5>1. TxInv(s)
          BY DEF IInv
        <5>2. ASSUME OwnerRow(w, u) \in tx[s].puts
              PROVE  CreateInv(s)
          <6>1. tx[s].puts # {} /\ tx[s].puts # {MemberRow(call[s].ws, call[s].user)}
            BY <5>2 DEF OwnerRow, MemberRow
          <6>2. ~Idle(s) /\ ~ReadInv(s) /\ ~RemoveInv(s) /\ ~DeleteWorkspaceInv(s) /\ ~DeleteUserInv(s)
            BY <6>1 DEF Idle, NoTx, ReadInv, RemoveInv, DeleteWorkspaceInv, DeleteUserInv
          <6>3. ~AddInv(s)
            BY <6>1 DEF AddInv, LockInv
          <6>. QED  BY <5>1, <6>2, <6>3 DEF TxInv
        <5>. QED  BY <5>2 DEF CreateInv, OwnerRow, WorkspaceRow
      <4>3. WorkspaceRow(w) \notin tx[s].puts
        BY <1>4, <3>1 DEF LockedApart, Exclusive
      <4>. QED  BY <4>1, <4>2, <4>3 DEF Exclusive
    <3>4. WorkspaceRow(w) \notin Exclusive(s) \cup tx[s].shared
      BY <1>4, <3>1 DEF LockedApart, Exclusive
    <3>. QED  BY <2>3, <2>4, <3>2, <3>3, <3>4 DEF LockedApart, Exclusive
  <2>8. WriteSetFits(t)' /\ CascadeFollows(t)'
    BY <1>6, <2>4, <2>6 DEF WriteSetFits, CascadeFollows
  <2>9. TxInv(t)'
    BY <1>2, <1>6, <2>4 DEF TxInv, CreateInv
  <2>10. \A s \in Txs : NewIdsUnknown(s, t)' /\ NewIdsUnknown(t, s)'
    <3>. SUFFICES ASSUME NEW s \in Txs
                  PROVE  NewIdsUnknown(s, t)' /\ NewIdsUnknown(t, s)'
      OBVIOUS
    <3>1. NewIdsUnknown(s, t)
      BY DEF IInv
    <3>2. tx'[s].todo = tx[s].todo
      BY <1>3, <2>3, <2>4
    <3>3. \A r \in tx[s].todo : WorkspaceRow(r.ws) # OwnerRow(w, u)
      BY DEF WorkspaceRow, OwnerRow
    <3>. QED  BY <1>4, <2>4, <3>1, <3>2, <3>3 DEF NewIdsUnknown
  <2>. QED  BY <1>6, <2>3, <2>5, <2>7, <2>8, <2>9, <2>10, QuietStep
<1>. QED  BY <1>5, <1>6 DEF AddWorkspaceOwner

\* A transaction without rows locks the row h that nobody else has locked.
LEMMA LockRowStep ==
    ASSUME IInv, NEW t \in Txs, NEW h \in Rows, NEW pc \in Statements,
           h \in db, Lockers(t, h) = {},
           tx[t].held = {}, tx[t].puts = {}, tx[t].gone = {}, tx[t].todo = {},
           tx' = [tx EXCEPT ![t].pc = pc, ![t].held = {h}],
           UNCHANGED <<db, call>>, TxInv(t)'
    PROVE  IInv'
<1>1. tx'[t] = [tx[t] EXCEPT !.pc = pc, !.held = {h}]
  BY DEF IInv, TypeOK
<1>2. \A s \in Txs \ {t} : tx'[s] = tx[s] /\ call'[s] = call[s]
  BY DEF IInv, TypeOK
<1>3. /\ tx'[t].held = {h} /\ tx'[t].puts = {} /\ tx'[t].gone = {} /\ tx'[t].todo = {}
      /\ tx'[t].shared = tx[t].shared
  BY <1>1 DEF IInv, TypeOK, TxRecords
<1>4. TypeOK'
  <2>1. tx'[t] \in TxRecords
    BY <1>1 DEF IInv, TypeOK, TxRecords
  <2>. QED  BY <1>2, <2>1 DEF IInv, TypeOK
<1>5. \A s \in Txs \ {t} : LockedApart(s, t)' /\ LockedApart(t, s)'
  <2>. SUFFICES ASSUME NEW s \in Txs \ {t}
                PROVE  LockedApart(s, t)' /\ LockedApart(t, s)'
    OBVIOUS
  <2>1. LockedApart(s, t) /\ LockedApart(t, s)
    BY DEF IInv, LocksExclude
  <2>2. h \notin Exclusive(s) \cup tx[s].shared
    BY DEF Lockers
  <2>. QED  BY <1>2, <1>3, <2>1, <2>2, ZenonT(60) DEF LockedApart, Exclusive
<1>6. WriteSetFits(t)' /\ CascadeFollows(t)'
  <2>1. tx[t].shared \subseteq db
    BY DEF IInv, WriteSetFits
  <2>. QED  BY <1>3, <2>1 DEF WriteSetFits, CascadeFollows
<1>7. \A s \in Txs : NewIdsUnknown(s, t)' /\ NewIdsUnknown(t, s)'
  BY <1>3 DEF NewIdsUnknown
<1>. QED  BY <1>2, <1>4, <1>5, <1>6, <1>7, QuietStep

LEMMA LockWorkspaceRowStep ==
    ASSUME IInv, NEW t \in Txs, LockWorkspaceRow(t)
    PROVE  IInv'
<1>. DEFINE w == WorkspaceRow(call[t].ws)
<1>1. tx[t].pc = "LockWorkspaceRow" /\ LockWorkspaceBlockers(t) = {}
  BY DEF LockWorkspaceRow, At
<1>2. /\ call[t].resp = "pending" /\ call[t].actor \in Users
      /\ \/ call[t].op = "ReadWorkspace"         /\ ReadInv(t)
         \/ call[t].op = "AddWorkspaceMember"    /\ AddInv(t)
         \/ call[t].op = "RemoveWorkspaceMember" /\ RemoveInv(t)
         \/ call[t].op = "DeleteWorkspace"       /\ DeleteWorkspaceInv(t)
  BY <1>1, StatementOfCall
<1>3. LockInv(t)
  BY <1>2 DEF ReadInv, AddInv, RemoveInv, DeleteWorkspaceInv
<1>4. /\ call[t].ws \in Workspaces
      /\ tx[t].held = {} /\ tx[t].puts = {} /\ tx[t].gone = {} /\ tx[t].todo = {}
  BY <1>1, <1>3 DEF LockInv
<1>5. CASE Refuse(t, "ErrWorkspaceNotFound")
  BY <1>5, RefuseStep DEF Responses, Sentinels
<1>6. CASE /\ w \in db
           /\ tx' = [tx EXCEPT ![t].pc = AfterLock(call[t].op), ![t].held = {w}]
           /\ UNCHANGED <<db, call>>
  <2>1. AfterLock(call[t].op) \in Statements /\ w \in Rows
    BY <1>4, RowTypes DEF AfterLock, Statements
  <2>2. Lockers(t, w) = {}
    BY <1>1, <1>6 DEF LockWorkspaceBlockers
  <2>3. /\ tx'[t].pc = AfterLock(call[t].op) /\ tx'[t].held = {w}
        /\ tx'[t].puts = {} /\ tx'[t].gone = {} /\ tx'[t].todo = {}
        /\ call' = call /\ db' = db
    BY <1>4, <1>6 DEF IInv, TypeOK, TxRecords
  <2>4. LockInv(t)'
    BY <1>4, <2>3 DEF LockInv, AfterLock
  <2>5. TxInv(t)'
    <3>1. CASE call[t].op = "ReadWorkspace"
      <4>1. ReadInv(t)'
        BY <2>3, <2>4, <3>1 DEF ReadInv, AfterLock
      <4>. QED  BY <1>2, <2>3, <3>1, <4>1 DEF TxInv
    <3>2. CASE call[t].op = "AddWorkspaceMember"
      <4>1. AddInv(t)'
        BY <1>2, <2>3, <2>4, <3>2 DEF AddInv, AfterLock
      <4>. QED  BY <1>2, <2>3, <3>2, <4>1 DEF TxInv
    <3>3. CASE call[t].op = "RemoveWorkspaceMember"
      <4>1. RemoveInv(t)'
        BY <1>2, <2>3, <2>4, <3>3 DEF RemoveInv, AfterLock
      <4>. QED  BY <1>2, <2>3, <3>3, <4>1 DEF TxInv
    <3>4. CASE call[t].op = "DeleteWorkspace"
      <4>1. DeleteWorkspaceInv(t)'
        BY <1>2, <2>3, <2>4, <3>4 DEF DeleteWorkspaceInv, AfterLock
      <4>. QED  BY <1>2, <2>3, <3>4, <4>1 DEF TxInv
    <3>. QED  BY <1>2, <3>1, <3>2, <3>3, <3>4
  <2>. HIDE DEF w
  <2>. QED  BY <1>4, <1>6, <2>1, <2>2, <2>5, LockRowStep
<1>. QED  BY <1>5, <1>6 DEF LockWorkspaceRow

LEMMA LockUserRowStep ==
    ASSUME IInv, NEW t \in Txs, LockUserRow(t)
    PROVE  IInv'
<1>. DEFINE u == UserRow(call[t].user)
<1>1. tx[t].pc = "LockUserRow" /\ LockUserBlockers(t) = {}
  BY DEF LockUserRow, At
<1>2. call[t].resp = "pending" /\ call[t].actor \in Users /\ call[t].op = "DeleteUser" /\ DeleteUserInv(t)
  BY <1>1, StatementOfCall
<1>3. /\ call[t].user \in Users
      /\ tx[t].held = {} /\ tx[t].puts = {} /\ tx[t].gone = {} /\ tx[t].todo = {}
  BY <1>1, <1>2 DEF DeleteUserInv
<1>4. CASE Refuse(t, "ErrNotFound")
  BY <1>4, RefuseStep DEF Responses, Sentinels
<1>5. CASE /\ u \in db
           /\ tx' = [tx EXCEPT ![t].pc = "DeleteWorkspacesOwnedByUser", ![t].held = {u}]
           /\ UNCHANGED <<db, call>>
  <2>1. "DeleteWorkspacesOwnedByUser" \in Statements /\ u \in Rows
    BY <1>3, RowTypes DEF Statements
  <2>2. Lockers(t, u) = {}
    BY <1>1, <1>5 DEF LockUserBlockers
  <2>3. /\ tx'[t].pc = "DeleteWorkspacesOwnedByUser" /\ tx'[t].held = {u}
        /\ tx'[t].puts = {} /\ tx'[t].gone = {} /\ tx'[t].todo = {}
        /\ call' = call /\ db' = db
    BY <1>3, <1>5 DEF IInv, TypeOK, TxRecords
  <2>4. DeleteUserInv(t)'
    BY <1>3, <2>3 DEF DeleteUserInv
  <2>5. TxInv(t)'
    BY <1>2, <2>3, <2>4 DEF TxInv
  <2>. HIDE DEF u
  <2>. QED  BY <1>3, <1>5, <2>1, <2>2, <2>5, LockRowStep
<1>. QED  BY <1>4, <1>5 DEF LockUserRow

LEMMA ListWorkspaceMembersStep ==
    ASSUME IInv, NEW t \in Txs, ListWorkspaceMembers(t)
    PROVE  IInv'
<1>. DEFINE M == MembersOf(db, call[t].ws)
<1>1. tx[t].pc = "ListWorkspaceMembers"
  BY DEF ListWorkspaceMembers, At
<1>2. call[t].resp = "pending" /\ call[t].actor \in Users /\ call[t].op = "ReadWorkspace" /\ ReadInv(t)
  BY <1>1, StatementOfCall
<1>3. CASE Refuse(t, "ErrForbidden")
  BY <1>3, RefuseStep DEF Responses, Sentinels
<1>4. CASE /\ tx' = [tx EXCEPT ![t].pc = "Commit", ![t].seen = M]
           /\ UNCHANGED <<db, call>>
  <2>1. M \in SUBSET Rows /\ "Commit" \in Statements
    BY DEF IInv, TypeOK, MembersOf, Statements
  <2>2. /\ tx'[t].pc = "Commit" /\ tx'[t].seen = M /\ tx'[t].held = tx[t].held
        /\ tx'[t].puts = tx[t].puts /\ tx'[t].gone = tx[t].gone /\ tx'[t].todo = tx[t].todo
        /\ call' = call /\ db' = db
    BY <1>4 DEF IInv, TypeOK, TxRecords
  <2>3. LockInv(t)'
    BY <1>1, <1>2, <2>2 DEF ReadInv, LockInv
  <2>4. ReadInv(t)'
    BY <1>2, <2>2, <2>3 DEF ReadInv, MembersOf
  <2>5. TxInv(t)'
    BY <1>2, <2>2, <2>4 DEF TxInv
  <2>. QED  BY <1>4, <2>1, <2>5, SameRowsStep
<1>. QED  BY <1>3, <1>4 DEF ListWorkspaceMembers

LEMMA GotoStep ==
    ASSUME IInv, NEW t \in Txs, NEW pc \in Statements, Goto(t, pc), TxInv(t)'
    PROVE  IInv'
<1>1. tx' = [tx EXCEPT ![t].pc = pc, ![t].seen = tx[t].seen]
  BY DEF Goto, IInv, TypeOK, TxRecords
<1>2. tx[t].seen \in SUBSET Rows
  BY DEF IInv, TypeOK, TxRecords
<1>. QED  BY <1>1, <1>2, SameRowsStep DEF Goto

LEMMA SelectWorkspaceMemberStep ==
    ASSUME IInv, NEW t \in Txs, SelectWorkspaceMember(t)
    PROVE  IInv'
<1>. DEFINE c == call[t]
<1>1. tx[t].pc = "SelectWorkspaceMember"
  BY DEF SelectWorkspaceMember, At
<1>2. /\ call[t].resp = "pending" /\ call[t].actor \in Users
      /\ \/ call[t].op = "AddWorkspaceMember"    /\ AddInv(t)
         \/ call[t].op = "RemoveWorkspaceMember" /\ RemoveInv(t)
         \/ call[t].op = "DeleteWorkspace"       /\ DeleteWorkspaceInv(t)
  BY <1>1, StatementOfCall
<1>3. CASE Refuse(t, "ErrForbidden") \/ Refuse(t, "ErrOwnerRemoval")
  BY <1>3, RefuseStep DEF Responses, Sentinels
<1>4. CASE /\ OwnerRow(c.ws, c.actor) \in db
           /\ ~(c.op = "RemoveWorkspaceMember" /\ c.user = c.actor)
           /\ Goto(t, c.op)
  <2>1. c.op \in Statements
    BY <1>2 DEF Statements
  <2>2. /\ tx'[t].pc = c.op /\ tx'[t].held = tx[t].held
        /\ tx'[t].puts = tx[t].puts /\ tx'[t].gone = tx[t].gone /\ tx'[t].todo = tx[t].todo
        /\ call' = call /\ db' = db
    BY <1>4 DEF Goto, IInv, TypeOK, TxRecords
  <2>3. LockInv(t) /\ tx[t].puts = {} /\ tx[t].gone = {} /\ tx[t].todo = {}
    BY <1>1, <1>2 DEF AddInv, RemoveInv, DeleteWorkspaceInv, LockInv
  <2>4. LockInv(t)'
    BY <1>1, <1>2, <1>4, <2>2, <2>3 DEF LockInv
  <2>5. TxInv(t)'
    <3>1. CASE c.op = "AddWorkspaceMember"
      <4>1. AddInv(t)'
        BY <1>2, <2>2, <2>3, <2>4, <3>1 DEF AddInv
      <4>. QED  BY <1>2, <2>2, <3>1, <4>1 DEF TxInv
    <3>2. CASE c.op = "RemoveWorkspaceMember"
      <4>1. RemoveInv(t)'
        BY <1>2, <1>4, <2>2, <2>3, <2>4, <3>2 DEF RemoveInv
      <4>. QED  BY <1>2, <2>2, <3>2, <4>1 DEF TxInv
    <3>3. CASE c.op = "DeleteWorkspace"
      <4>1. DeleteWorkspaceInv(t)'
        BY <1>2, <2>2, <2>3, <2>4, <3>3 DEF DeleteWorkspaceInv
      <4>. QED  BY <1>2, <2>2, <3>3, <4>1 DEF TxInv
    <3>. QED  BY <1>2, <3>1, <3>2, <3>3
  <2>. QED  BY <1>4, <2>1, <2>5, GotoStep
<1>. QED  BY <1>3, <1>4 DEF SelectWorkspaceMember

LEMMA AddWorkspaceMemberStep ==
    ASSUME IInv, NEW t \in Txs, AddWorkspaceMember(t)
    PROVE  IInv'
<1>. DEFINE m == MemberRow(call[t].ws, call[t].user)
            u == UserRow(call[t].user)
<1>1. tx[t].pc = "AddWorkspaceMember" /\ AddMemberBlockers(t) = {}
  BY DEF AddWorkspaceMember, At
<1>2. call[t].resp = "pending" /\ call[t].actor \in Users /\ call[t].op = "AddWorkspaceMember" /\ AddInv(t)
  BY <1>1, StatementOfCall
<1>3. /\ call[t].user \in Users /\ call[t].ws \in Workspaces
      /\ tx[t].held = {WorkspaceRow(call[t].ws)}
      /\ tx[t].puts = {} /\ tx[t].gone = {} /\ tx[t].todo = {}
  BY <1>1, <1>2 DEF AddInv, LockInv
<1>4. CASE Refuse(t, "ErrAlreadyMember") \/ Refuse(t, "ErrUserNotFound")
  BY <1>4, RefuseStep DEF Responses, Sentinels
<1>5. CASE /\ Membership(db, call[t].ws, call[t].user) = {}
           /\ u \in db
           /\ tx' = [tx EXCEPT ![t].pc = "Commit", ![t].puts = {m}, ![t].shared = {u}]
           /\ UNCHANGED <<db, call>>
  <2>1. tx'[t] = [tx[t] EXCEPT !.pc = "Commit", !.puts = {m}, !.shared = {u}]
    BY <1>5 DEF IInv, TypeOK
  <2>2. \A s \in Txs \ {t} : tx'[s] = tx[s] /\ call'[s] = call[s]
    BY <1>5 DEF IInv, TypeOK
  <2>3. /\ tx'[t].pc = "Commit" /\ tx'[t].puts = {m} /\ tx'[t].shared = {u}
        /\ tx'[t].held = tx[t].held /\ tx'[t].gone = {} /\ tx'[t].todo = {}
    BY <1>3, <2>1 DEF IInv, TypeOK, TxRecords
  <2>4. TypeOK'
    <3>1. {m} \in SUBSET Rows /\ {u} \in SUBSET Rows /\ "Commit" \in Statements
      BY <1>3, RowTypes DEF Statements
    <3>. HIDE DEF m, u
    <3>2. tx'[t] \in TxRecords
      BY <2>1, <3>1 DEF IInv, TypeOK, TxRecords
    <3>. QED  BY <1>5, <2>2, <3>2 DEF IInv, TypeOK
  <2>5. m.kind \in Roles /\ m.ws = call[t].ws /\ m.user = call[t].user
    BY DEF MemberRow, Roles
  <2>6. m \notin db
    BY <1>5, <2>5 DEF Membership, MembersOf
  <2>7. \A s \in Txs \ {t} : LockedApart(s, t)' /\ LockedApart(t, s)'
    <3>. SUFFICES ASSUME NEW s \in Txs \ {t}
                  PROVE  LockedApart(s, t)' /\ LockedApart(t, s)'
      OBVIOUS
    <3>1. LockedApart(s, t) /\ LockedApart(t, s)
      BY DEF IInv, LocksExclude
    <3>2. u \notin Exclusive(s)
      BY <1>1, <1>5 DEF AddMemberBlockers, Writers
    <3>3. m \notin Exclusive(s)
      BY <1>1, <2>5 DEF AddMemberBlockers, KeyWriters
    <3>4. m \notin tx[s].shared
      BY <2>6 DEF IInv, WriteSetFits
    <3>. HIDE DEF m, u
    <3>. QED  BY <1>3, <2>2, <2>3, <3>1, <3>2, <3>3, <3>4 DEF LockedApart, Exclusive
  <2>8. WriteSetFits(t)' /\ CascadeFollows(t)'
    <3>1. tx[t].held \subseteq db
      BY DEF IInv, WriteSetFits
    <3>. HIDE DEF m, u
    <3>. QED  BY <1>5, <2>3, <2>6, <3>1 DEF WriteSetFits, CascadeFollows
  <2>9. TxInv(t)'
    <3>1. LockInv(t)'
      BY <1>1, <1>2, <1>5, <2>3 DEF AddInv, LockInv
    <3>2. AddInv(t)'
      BY <1>3, <1>5, <2>3, <3>1 DEF AddInv
    <3>. QED  BY <1>2, <1>5, <3>2 DEF TxInv
  <2>10. \A s \in Txs : NewIdsUnknown(s, t)' /\ NewIdsUnknown(t, s)'
    BY <2>3 DEF NewIdsUnknown, WorkspaceRow, MemberRow
  <2>. QED  BY <1>5, <2>2, <2>4, <2>7, <2>8, <2>9, <2>10, QuietStep
<1>. QED  BY <1>4, <1>5 DEF AddWorkspaceMember

LEMMA RowShapes ==
    ASSUME NEW r \in Rows
    PROVE  /\ r.kind \in {"user", "workspace", "owner", "member"}
           /\ r.kind = "user" => r.user \in Users /\ r = UserRow(r.user)
           /\ r.kind = "workspace" => r.ws \in Workspaces /\ r = WorkspaceRow(r.ws)
           /\ r.kind = "owner" => r.ws \in Workspaces /\ r.user \in Users /\ r = OwnerRow(r.ws, r.user)
           /\ r.kind = "member" => r.ws \in Workspaces /\ r.user \in Users /\ r = MemberRow(r.ws, r.user)
<1>1. CASE \E u \in Users : r = UserRow(u)
  BY <1>1 DEF UserRow
<1>2. CASE \E w \in Workspaces : r = WorkspaceRow(w)
  BY <1>2 DEF WorkspaceRow
<1>3. CASE r \in [kind : Roles, ws : Workspaces, user : Users]
  BY <1>3 DEF Roles, OwnerRow, MemberRow
<1>. QED  BY <1>1, <1>2, <1>3 DEF Rows

\* No row of the database belongs to a workspace that is still being created.
LEMMA NewIdsHaveNoRows ==
    ASSUME IInv, NEW t \in Txs, NEW r \in db
    PROVE  WorkspaceRow(r.ws) \notin tx[t].puts
<1>1. r \in Rows
  BY DEF IInv, TypeOK
<1>2. CASE r.kind \in Roles
  BY <1>2 DEF IInv, Consistent, ForeignKeysHold, WriteSetFits
<1>3. CASE r.kind = "workspace"
  BY <1>1, <1>3, RowShapes DEF IInv, WriteSetFits
<1>4. CASE r.kind = "user"
  <2>1. r.ws = None
    BY <1>1, <1>4, RowShapes DEF UserRow
  <2>2. tx[t].puts \subseteq Rows
    BY DEF IInv, TypeOK, TxRecords
  <2>3. WorkspaceRow(None) \notin Rows
    BY NoneIsNoId, RowShapes DEF WorkspaceRow
  <2>. QED  BY <2>1, <2>2, <2>3
<1>. QED  BY <1>1, <1>2, <1>3, <1>4, RowShapes DEF Roles

LEMMA StartDeleteStep ==
    ASSUME IInv, NEW t \in Txs, NEW R \in SUBSET db, NEW pc \in Statements,
           tx[t].todo = {},
           \A r \in R : r.kind # "owner",
           StartDelete(t, R, pc), TxInv(t)'
    PROVE  IInv'
<1>1. tx' = [tx EXCEPT ![t].pc = pc, ![t].todo = R] /\ UNCHANGED <<db, call>>
  BY DEF StartDelete
<1>2. /\ tx'[t] = [tx[t] EXCEPT !.pc = pc, !.todo = R]
      /\ \A s \in Txs \ {t} : tx'[s] = tx[s] /\ call'[s] = call[s]
  BY <1>1 DEF IInv, TypeOK
<1>3. /\ tx'[t].todo = R /\ tx'[t].held = tx[t].held /\ tx'[t].puts = tx[t].puts
      /\ tx'[t].gone = tx[t].gone /\ tx'[t].shared = tx[t].shared
  BY <1>2 DEF IInv, TypeOK, TxRecords
<1>4. TypeOK'
  <2>1. R \in SUBSET Rows
    BY DEF IInv, TypeOK
  <2>2. tx'[t] \in TxRecords
    <3>1. tx[t] \in TxRecords
      BY DEF IInv, TypeOK
    <3>2. tx'[t] = [tx[t] EXCEPT !.pc = pc, !.todo = R]
      BY <1>2
    <3>. QED  BY <2>1, <3>1, <3>2 DEF TxRecords
  <2>. QED  BY <1>1, <1>2, <2>2 DEF IInv, TypeOK
<1>5. \A s \in Txs \ {t} : LockedApart(s, t)' /\ LockedApart(t, s)'
  BY <1>2, <1>3 DEF IInv, LocksExclude, LockedApart, Exclusive
<1>6. WriteSetFits(t)' /\ CascadeFollows(t)'
  <2>1. WriteSetFits(t)'
    BY <1>1, <1>3 DEF IInv, WriteSetFits
  <2>2. CascadeFollows(t)
    BY DEF IInv
  <2>3. CascadeFollows(t)'
    BY <1>1, <1>3, <2>2 DEF CascadeFollows
  <2>. QED  BY <2>1, <2>3
<1>7. \A s \in Txs : NewIdsUnknown(s, t)' /\ NewIdsUnknown(t, s)'
  <2>. SUFFICES ASSUME NEW s \in Txs
                PROVE  NewIdsUnknown(s, t)' /\ NewIdsUnknown(t, s)'
    OBVIOUS
  <2>1. \A r \in R : WorkspaceRow(r.ws) \notin tx[s].puts /\ WorkspaceRow(r.ws) \notin tx[t].puts
    BY NewIdsHaveNoRows
  <2>2. NewIdsUnknown(s, t) /\ NewIdsUnknown(t, s)
    BY DEF IInv
  <2>. QED  BY <1>2, <1>3, <2>1, <2>2 DEF NewIdsUnknown
<1>. QED  BY <1>1, <1>2, <1>4, <1>5, <1>6, <1>7, QuietStep

\* What StartDelete does to t, for the lemmas about its four uses.
LEMMA StartedDelete ==
    ASSUME IInv, NEW t \in Txs, NEW R, NEW pc, StartDelete(t, R, pc)
    PROVE  /\ tx'[t].pc = pc /\ tx'[t].todo = R /\ tx'[t].held = tx[t].held
           /\ tx'[t].puts = tx[t].puts /\ tx'[t].gone = tx[t].gone
           /\ call' = call /\ db' = db
BY DEF StartDelete, IInv, TypeOK, TxRecords

LEMMA RemoveWorkspaceMemberStep ==
    ASSUME IInv, NEW t \in Txs, RemoveWorkspaceMember(t)
    PROVE  IInv'
<1>. DEFINE R == Membership(db, call[t].ws, call[t].user)
<1>1. /\ tx[t].pc = "RemoveWorkspaceMember" /\ tx[t].todo = {}
      /\ StartDelete(t, R, "Commit")
  BY DEF RemoveWorkspaceMember, At
<1>2. /\ call[t].resp = "pending" /\ call[t].actor \in Users
      /\ call[t].op = "RemoveWorkspaceMember" /\ RemoveInv(t)
  BY <1>1, StatementOfCall
<1>3. /\ call[t].user \in Users /\ call[t].ws \in Workspaces /\ call[t].user # call[t].actor
      /\ OwnerRow(call[t].ws, call[t].actor) \in db /\ tx[t].puts = {} /\ tx[t].gone = {}
  BY <1>1, <1>2 DEF RemoveInv, LockInv
<1>4. R \in SUBSET db
  BY DEF Membership, MembersOf
<1>5. \A r \in R : r = MemberRow(call[t].ws, call[t].user)
  <2>. SUFFICES ASSUME NEW r \in R
                PROVE  r = MemberRow(call[t].ws, call[t].user)
    OBVIOUS
  <2>1. r \in db /\ r \in Rows /\ r.kind \in Roles /\ r.ws = call[t].ws /\ r.user = call[t].user
    BY DEF Membership, MembersOf, IInv, TypeOK
  <2>2. r.kind # "owner"
    BY <1>2, <1>3, <2>1, RowShapes DEF IInv, Consistent, AtMostOneOwner
  <2>. QED  BY <2>1, <2>2, RowShapes DEF Roles
<1>6. TxInv(t)'
  <2>1. /\ tx'[t].pc = "Commit" /\ tx'[t].todo = R /\ tx'[t].held = tx[t].held
        /\ tx'[t].puts = {} /\ tx'[t].gone = {} /\ call' = call /\ db' = db
    BY <1>1, <1>3, StartedDelete
  <2>2. LockInv(t)'
    BY <1>1, <1>2, <1>3, <2>1 DEF RemoveInv, LockInv
  <2>3. RemoveInv(t)'
    BY <1>3, <1>5, <2>1, <2>2 DEF RemoveInv
  <2>. QED  BY <1>2, <2>1, <2>3 DEF TxInv
<1>. QED  BY <1>1, <1>4, <1>5, <1>6, StartDeleteStep DEF MemberRow, Statements

LEMMA DeleteWorkspaceStep ==
    ASSUME IInv, NEW t \in Txs, DeleteWorkspace(t)
    PROVE  IInv'
<1>. DEFINE R == db \cap {WorkspaceRow(call[t].ws)}
<1>1. /\ tx[t].pc = "DeleteWorkspace" /\ tx[t].todo = {}
      /\ StartDelete(t, R, "Commit")
  BY DEF DeleteWorkspace, At
<1>2. /\ call[t].resp = "pending" /\ call[t].actor \in Users
      /\ call[t].op = "DeleteWorkspace" /\ DeleteWorkspaceInv(t)
  BY <1>1, StatementOfCall
<1>3. /\ tx[t].held = {WorkspaceRow(call[t].ws)} /\ tx[t].puts = {} /\ tx[t].gone = {}
      /\ LockInv(t)
  BY <1>1, <1>2 DEF DeleteWorkspaceInv, LockInv
<1>4. WorkspaceRow(call[t].ws) \in db
  BY <1>3 DEF IInv, WriteSetFits
<1>5. R \in SUBSET db /\ \A r \in R : r.kind # "owner" /\ r.ws = call[t].ws
  BY DEF WorkspaceRow
<1>6. TxInv(t)'
  <2>1. /\ tx'[t].pc = "Commit" /\ tx'[t].todo = R /\ tx'[t].held = tx[t].held
        /\ tx'[t].puts = {} /\ tx'[t].gone = {} /\ call' = call /\ db' = db
    BY <1>1, <1>3, StartedDelete
  <2>2. LockInv(t)'
    BY <1>1, <1>2, <1>3, <2>1 DEF LockInv
  <2>3. DeleteWorkspaceInv(t)'
    BY <1>4, <1>5, <2>1, <2>2 DEF DeleteWorkspaceInv
  <2>. QED  BY <1>2, <2>1, <2>3 DEF TxInv
<1>. QED  BY <1>1, <1>5, <1>6, StartDeleteStep DEF Statements

LEMMA DeleteWorkspacesOwnedByUserStep ==
    ASSUME IInv, NEW t \in Txs, DeleteWorkspacesOwnedByUser(t)
    PROVE  IInv'
<1>. DEFINE R == OwnedWorkspaces(db, call[t].user)
<1>1. /\ tx[t].pc = "DeleteWorkspacesOwnedByUser" /\ tx[t].todo = {}
      /\ StartDelete(t, R, "DeleteUser")
  BY DEF DeleteWorkspacesOwnedByUser, At
<1>2. call[t].resp = "pending" /\ call[t].actor \in Users /\ call[t].op = "DeleteUser" /\ DeleteUserInv(t)
  BY <1>1, StatementOfCall
<1>3. /\ call[t].user \in Users /\ tx[t].held = {UserRow(call[t].user)}
      /\ tx[t].puts = {} /\ tx[t].gone = {}
  BY <1>1, <1>2 DEF DeleteUserInv
<1>4. R \in SUBSET db /\ \A r \in R : r.kind = "workspace" /\ OwnerRow(r.ws, call[t].user) \in db
  BY DEF OwnedWorkspaces
<1>5. ASSUME NEW w \in Workspaces, OwnerRow(w, call[t].user) \in db
      PROVE  WorkspaceRow(w) \in R
  <2>1. WorkspaceRow(w) \in db
    BY <1>5 DEF IInv, Consistent, ForeignKeysHold, OwnerRow, Roles
  <2>. QED  BY <1>5, <2>1 DEF OwnedWorkspaces, WorkspaceRow
<1>6. TxInv(t)'
  <2>1. /\ tx'[t].pc = "DeleteUser" /\ tx'[t].todo = R /\ tx'[t].held = tx[t].held
        /\ tx'[t].puts = {} /\ tx'[t].gone = {} /\ call' = call /\ db' = db
    BY <1>1, <1>3, StartedDelete
  <2>. HIDE DEF R
  <2>3. DeleteUserInv(t)'
    BY <1>3, <1>4, <1>5, <2>1 DEF DeleteUserInv
  <2>. QED  BY <1>2, <2>1, <2>3 DEF TxInv
<1>. QED  BY <1>1, <1>4, <1>6, StartDeleteStep DEF Statements

LEMMA DeleteUserStep ==
    ASSUME IInv, NEW t \in Txs, DeleteUser(t)
    PROVE  IInv'
<1>. DEFINE R == db \cap {UserRow(call[t].user)}
<1>1. /\ tx[t].pc = "DeleteUser" /\ tx[t].todo = {}
      /\ StartDelete(t, R, "Commit")
  BY DEF DeleteUser, At
<1>2. call[t].resp = "pending" /\ call[t].actor \in Users /\ call[t].op = "DeleteUser" /\ DeleteUserInv(t)
  BY <1>1, StatementOfCall
<1>3. /\ call[t].user \in Users /\ tx[t].held = {UserRow(call[t].user)} /\ tx[t].puts = {}
  BY <1>1, <1>2 DEF DeleteUserInv
<1>4. UserRow(call[t].user) \in db
  BY <1>3 DEF IInv, WriteSetFits
<1>5. R \in SUBSET db /\ \A r \in R : r.kind = "user"
  BY DEF UserRow
<1>6. TxInv(t)'
  <2>1. /\ tx'[t].pc = "Commit" /\ tx'[t].todo = R /\ tx'[t].held = tx[t].held
        /\ tx'[t].puts = {} /\ tx'[t].gone = tx[t].gone /\ call' = call /\ db' = db
    BY <1>1, <1>3, StartedDelete
  <2>2. R = {UserRow(call[t].user)}
    BY <1>4
  <2>3. DeleteUserInv(t)'
    BY <1>1, <1>2, <1>3, <1>5, <2>1, <2>2 DEF DeleteUserInv
  <2>. QED  BY <1>2, <2>1, <2>3 DEF TxInv
<1>. QED  BY <1>1, <1>5, <1>6, StartDeleteStep DEF Statements

\* Only these transactions have rows to visit.
LEMMA DeletingTx ==
    ASSUME IInv, NEW t \in Txs, tx[t].todo # {}
    PROVE  /\ call[t].resp = "pending" /\ call[t].actor \in Users
           /\ \/ /\ call[t].op = "RemoveWorkspaceMember" /\ RemoveInv(t)
                 /\ tx[t].pc = "Commit" /\ LockInv(t)
              \/ /\ call[t].op = "DeleteWorkspace" /\ DeleteWorkspaceInv(t)
                 /\ tx[t].pc = "Commit" /\ LockInv(t)
              \/ /\ call[t].op = "DeleteUser" /\ DeleteUserInv(t)
                 /\ tx[t].pc \in {"DeleteUser", "Commit"}
<1>1. TxInv(t) /\ ~Idle(t)
  BY DEF IInv, Idle, NoTx
<1>2. ~CreateInv(t) /\ ~ReadInv(t) /\ ~AddInv(t)
  BY DEF CreateInv, ReadInv, AddInv
<1>3. RemoveInv(t) => tx[t].pc = "Commit" /\ LockInv(t)
  BY DEF RemoveInv, LockInv
<1>4. DeleteWorkspaceInv(t) => tx[t].pc = "Commit" /\ LockInv(t)
  BY DEF DeleteWorkspaceInv, LockInv
<1>5. DeleteUserInv(t) => tx[t].pc \in {"DeleteUser", "Commit"}
  BY DEF DeleteUserInv
<1>. QED  BY <1>1, <1>2, <1>3, <1>4, <1>5 DEF TxInv

\* The next row is gone: it was deleted while the DELETE waited for it.
LEMMA VisitGoneRowStep ==
    ASSUME IInv, NEW t \in Txs, NEW r \in tx[t].todo, r \notin db,
           tx' = [tx EXCEPT ![t].todo = tx[t].todo \ {r}],
           UNCHANGED <<db, call>>
    PROVE  IInv'
<1>1. /\ tx'[t] = [tx[t] EXCEPT !.todo = tx[t].todo \ {r}]
      /\ \A s \in Txs \ {t} : tx'[s] = tx[s] /\ call'[s] = call[s]
  BY DEF IInv, TypeOK
<1>2. /\ tx'[t].todo = tx[t].todo \ {r} /\ tx'[t].held = tx[t].held /\ tx'[t].puts = tx[t].puts
      /\ tx'[t].gone = tx[t].gone /\ tx'[t].shared = tx[t].shared /\ tx'[t].pc = tx[t].pc
  BY <1>1 DEF IInv, TypeOK, TxRecords
<1>3. TypeOK'
  <2>1. tx[t] \in TxRecords /\ tx[t].todo \ {r} \in SUBSET Rows
    BY DEF IInv, TypeOK, TxRecords
  <2>2. tx'[t] = [tx[t] EXCEPT !.todo = tx[t].todo \ {r}]
    BY <1>1
  <2>3. tx'[t] \in TxRecords
    BY <2>1, <2>2 DEF TxRecords
  <2>. QED  BY <1>1, <2>3 DEF IInv, TypeOK
<1>4. \A s \in Txs \ {t} : LockedApart(s, t)' /\ LockedApart(t, s)'
  BY <1>1, <1>2 DEF IInv, LocksExclude, LockedApart, Exclusive
<1>5. WriteSetFits(t)' /\ CascadeFollows(t)'
  <2>1. WriteSetFits(t)'
    BY <1>2 DEF IInv, WriteSetFits
  <2>2. CascadeFollows(t)
    BY DEF IInv
  <2>3. CascadeFollows(t)'
    BY <1>2, <2>2 DEF CascadeFollows, Referencing
  <2>. QED  BY <2>1, <2>3
<1>6. \A s \in Txs : NewIdsUnknown(s, t)' /\ NewIdsUnknown(t, s)'
  BY <1>1, <1>2 DEF IInv, NewIdsUnknown
<1>7. TxInv(t)'
  <2>0. /\ call[t].resp = "pending" /\ call[t].actor \in Users /\ call' = call /\ db' = db
        /\ tx[t].held \subseteq db
    BY DeletingTx DEF IInv, WriteSetFits
  <2>1. CASE call[t].op = "RemoveWorkspaceMember"
    <3>1. RemoveInv(t) /\ LockInv(t) /\ tx[t].pc = "Commit"
      BY <2>1, DeletingTx
    <3>2. LockInv(t)'
      BY <1>2, <2>0, <3>1 DEF LockInv
    <3>3. RemoveInv(t)'
      BY <1>2, <2>0, <3>1, <3>2 DEF RemoveInv, Membership, MembersOf
    <3>. QED  BY <2>0, <2>1, <3>3 DEF TxInv
  <2>2. CASE call[t].op = "DeleteWorkspace"
    <3>1. DeleteWorkspaceInv(t) /\ LockInv(t) /\ tx[t].pc = "Commit"
      BY <2>2, DeletingTx
    <3>2. LockInv(t)'
      BY <1>2, <2>0, <3>1 DEF LockInv
    <3>3. r # WorkspaceRow(call[t].ws)
      BY <2>0, <3>1 DEF LockInv
    <3>4. DeleteWorkspaceInv(t)'
      BY <1>2, <2>0, <3>1, <3>2, <3>3 DEF DeleteWorkspaceInv
    <3>. QED  BY <2>0, <2>2, <3>4 DEF TxInv
  <2>3. CASE call[t].op = "DeleteUser"
    <3>1. DeleteUserInv(t) /\ tx[t].pc \in {"DeleteUser", "Commit"}
      BY <2>3, DeletingTx
    <3>2. r # UserRow(call[t].user)
      BY <2>0, <3>1 DEF DeleteUserInv
    <3>3. \A w \in Workspaces : OwnerRow(w, call[t].user) \in db => WorkspaceRow(w) # r
      BY DEF IInv, Consistent, ForeignKeysHold, OwnerRow, Roles
    <3>4. DeleteUserInv(t)'
      BY <1>2, <2>0, <3>1, <3>2, <3>3 DEF DeleteUserInv
    <3>. QED  BY <2>0, <2>3, <3>4 DEF TxInv
  <2>. QED  BY <2>1, <2>2, <2>3, DeletingTx
<1>. QED  BY <1>1, <1>3, <1>4, <1>5, <1>6, <1>7, QuietStep

LEMMA DeletingRecord ==
    ASSUME NEW x \in TxRecords, NEW A \in SUBSET Rows, NEW B \in SUBSET Rows,
           NEW y, y = [x EXCEPT !.gone = A, !.todo = B]
    PROVE  y \in TxRecords
BY DEF TxRecords

\* The next row is there: it is deleted, and its cascade remains to be followed.
LEMMA VisitLiveRowStep ==
    ASSUME IInv, NEW t \in Txs, NEW r \in Visitable(t), r \in db, Lockers(t, r) = {},
           NEW G, G = tx[t].gone \cup {r},
           NEW D, D = (tx[t].todo \ {r}) \cup (Referencing(db, r) \ G),
           tx' = [tx EXCEPT ![t].gone = G, ![t].todo = D],
           UNCHANGED <<db, call>>
    PROVE  IInv'
<1>1. /\ tx'[t] = [tx[t] EXCEPT !.gone = G, !.todo = D]
      /\ \A s \in Txs \ {t} : tx'[s] = tx[s] /\ call'[s] = call[s]
  BY DEF IInv, TypeOK
<1>2. /\ tx'[t].gone = G /\ tx'[t].todo = D /\ tx'[t].held = tx[t].held
      /\ tx'[t].puts = tx[t].puts /\ tx'[t].shared = tx[t].shared /\ tx'[t].pc = tx[t].pc
  BY <1>1 DEF IInv, TypeOK, TxRecords
<1>3. r \in tx[t].todo /\ r \in Rows /\ (r.kind \in Roles => \A q \in tx[t].todo : q.kind \in Roles)
  BY DEF Visitable, IInv, TypeOK
<1>4. /\ tx[t].gone \cup tx[t].todo \subseteq G \cup D /\ tx[t].gone \subseteq G /\ r \in G
      /\ Referencing(db, r) \subseteq G \cup D
      /\ G \cup D \subseteq tx[t].gone \cup tx[t].todo \cup Referencing(db, r)
      /\ D \subseteq tx[t].todo \cup Referencing(db, r)
  BY <1>3
<1>5. \A q \in Referencing(db, r) :
        /\ q \in db /\ q \in Rows /\ q.kind \in Roles
        /\ r.kind \notin Roles
        /\ \/ r.kind = "workspace" /\ r = WorkspaceRow(q.ws)
           \/ r.kind = "user" /\ r = UserRow(q.user)
  BY DEF IInv, TypeOK, Referencing, WorkspaceRow, UserRow, Roles
<1>6. TypeOK'
  <2>1. tx[t] \in TxRecords /\ G \in SUBSET Rows /\ D \in SUBSET Rows
    BY <1>3, <1>4, <1>5 DEF IInv, TypeOK, TxRecords
  <2>2. tx'[t] = [tx[t] EXCEPT !.gone = G, !.todo = D]
    BY <1>1
  <2>3. [tx[t] EXCEPT !.gone = G, !.todo = D] \in TxRecords
    BY <2>1, DeletingRecord, Zenon
  <2>4. tx'[t] \in TxRecords
    BY <2>2, <2>3, Zenon
  <2>. QED  BY <1>1, <2>4 DEF IInv, TypeOK
<1>7. \A s \in Txs \ {t} : LockedApart(s, t)' /\ LockedApart(t, s)'
  <2>. SUFFICES ASSUME NEW s \in Txs \ {t}
                PROVE  LockedApart(s, t)' /\ LockedApart(t, s)'
    OBVIOUS
  <2>1. LockedApart(s, t) /\ LockedApart(t, s)
    BY DEF IInv, LocksExclude
  <2>2. r \notin Exclusive(s) \cup tx[s].shared
    BY DEF Lockers
  <2>3. Exclusive(t)' = Exclusive(t) \cup {r} /\ Exclusive(s)' = Exclusive(s)
    BY <1>1, <1>2 DEF Exclusive
  <2>4. tx'[s].shared = tx[s].shared /\ tx'[t].shared = tx[t].shared
    BY <1>1, <1>2
  <2>. QED  BY <2>1, <2>2, <2>3, <2>4 DEF LockedApart
<1>8. TxInv(t)' /\ CascadeFollows(t)'
  <2>0. /\ call[t].resp = "pending" /\ call[t].actor \in Users /\ call' = call /\ db' = db
        /\ CascadeFollows(t)
    BY DeletingTx, <1>3 DEF IInv
  <2>1. ASSUME \A q \in Referencing(db, r) : q.kind = "owner" => WorkspaceRow(q.ws) \in G
        PROVE  CascadeFollows(t)'
    <3>1. \A q \in G : Referencing(db, q) \subseteq G \cup D
      BY <1>4, <2>0 DEF CascadeFollows
    <3>2. \A q \in G \cup D : q.kind = "owner" => WorkspaceRow(q.ws) \in G
      BY <1>4, <2>0, <2>1 DEF CascadeFollows
    <3>. QED  BY <1>2, <2>0, <3>1, <3>2 DEF CascadeFollows
  <2>2. CASE call[t].op = "RemoveWorkspaceMember"
    <3>1. RemoveInv(t) /\ LockInv(t) /\ tx[t].pc = "Commit"
      BY <1>3, <2>2, DeletingTx
    <3>2. r.kind = "member"
      BY <1>3, <3>1 DEF RemoveInv, MemberRow
    <3>3. Referencing(db, r) = {}
      BY <1>5, <3>2 DEF Roles
    <3>4. LockInv(t)'
      BY <1>2, <2>0, <3>1 DEF LockInv
    <3>5. RemoveInv(t)'
      BY <1>2, <1>4, <2>0, <3>1, <3>3, <3>4 DEF RemoveInv
    <3>. QED  BY <2>0, <2>1, <2>2, <3>3, <3>5 DEF TxInv
  <2>3. CASE call[t].op = "DeleteWorkspace"
    <3>1. DeleteWorkspaceInv(t) /\ LockInv(t) /\ tx[t].pc = "Commit"
      BY <1>3, <2>3, DeletingTx
    <3>2. r.ws = call[t].ws /\ call[t].ws \in Workspaces
      BY <1>3, <3>1 DEF DeleteWorkspaceInv, LockInv
    <3>3. \A q \in Referencing(db, r) : q.ws = call[t].ws /\ WorkspaceRow(q.ws) = r
      BY <1>5, <3>2, NoneIsNoId DEF WorkspaceRow, UserRow
    <3>4. LockInv(t)'
      BY <1>2, <2>0, <3>1 DEF LockInv
    <3>5. DeleteWorkspaceInv(t)'
      BY <1>2, <1>4, <2>0, <3>1, <3>3, <3>4 DEF DeleteWorkspaceInv
    <3>. QED  BY <1>4, <2>0, <2>1, <2>3, <3>3, <3>5 DEF TxInv
  <2>4. CASE call[t].op = "DeleteUser"
    <3>. DEFINE u == call[t].user
    <3>1. DeleteUserInv(t) /\ tx[t].pc \in {"DeleteUser", "Commit"}
      BY <1>3, <2>4, DeletingTx
    <3>2. \A q \in Referencing(db, r) :
            \/ WorkspaceRow(q.ws) = r
            \/ q.user = u /\ r = UserRow(u) /\ tx[t].pc = "Commit"
      BY <1>3, <1>5, <3>1 DEF DeleteUserInv, UserRow, Roles
    <3>3. ASSUME NEW q \in Referencing(db, r), q.kind = "owner"
          PROVE  WorkspaceRow(q.ws) \in G
      <4>1. CASE WorkspaceRow(q.ws) = r
        BY <1>4, <4>1
      <4>2. CASE q.user = u /\ r = UserRow(u) /\ tx[t].pc = "Commit"
        <5>1. q = OwnerRow(q.ws, u) /\ q.ws \in Workspaces /\ q \in db
          BY <1>5, <3>3, <4>2, RowShapes
        <5>2. WorkspaceRow(q.ws) \in tx[t].gone \cup tx[t].todo
          BY <3>1, <4>2, <5>1 DEF DeleteUserInv
        <5>3. WorkspaceRow(q.ws) \notin tx[t].todo
          BY <3>1, <4>2 DEF DeleteUserInv, WorkspaceRow
        <5>. QED  BY <1>4, <5>2, <5>3
      <4>. QED  BY <3>2, <4>1, <4>2
    <3>4. CascadeFollows(t)'
      BY <2>1, <3>3
    <3>5. ASSUME NEW q \in G \cup D
          PROVE  \/ q = UserRow(u) /\ tx[t].pc = "Commit"
                 \/ q.kind = "workspace" /\ (q \in db => OwnerRow(q.ws, u) \in db)
                 \/ q.kind \in Roles /\ WorkspaceRow(q.ws) \in G
                 \/ q.kind = "member" /\ q.user = u /\ UserRow(u) \in G
      <4>1. CASE q \in tx[t].gone \cup tx[t].todo
        BY <1>4, <3>1, <4>1 DEF DeleteUserInv
      <4>2. CASE q \in Referencing(db, r)
        BY <1>4, <1>5, <3>2, <3>3, <4>2 DEF Roles
      <4>. QED  BY <1>4, <4>1, <4>2
    <3>6. \A q \in D : q.kind = "workspace" => q \in tx[t].todo
      BY <1>4, <1>5 DEF Roles
    <3>7. DeleteUserInv(t)'
      <4>1. /\ u \in Users /\ tx[t].puts = {} /\ tx[t].held = {UserRow(u)}
            /\ \A w \in Workspaces :
                  OwnerRow(w, u) \in db => WorkspaceRow(w) \in tx[t].gone \cup tx[t].todo
        BY <3>1 DEF DeleteUserInv
      <4>2. \A w \in Workspaces : OwnerRow(w, u) \in db => WorkspaceRow(w) \in G \cup D
        BY <1>4, <4>1
      <4>3. tx[t].pc = "Commit" =>
              /\ UserRow(u) \in G \cup D
              /\ \A q \in D : q.kind # "workspace"
        BY <1>4, <3>1, <3>6 DEF DeleteUserInv
      <4>. QED  BY <1>2, <2>0, <3>1, <3>5, <4>1, <4>2, <4>3, ZenonT(60) DEF DeleteUserInv
    <3>. QED  BY <2>0, <2>4, <3>4, <3>7 DEF TxInv
  <2>. QED  BY <1>3, <2>2, <2>3, <2>4, DeletingTx
<1>9. WriteSetFits(t)'
  BY <1>2 DEF IInv, WriteSetFits
<1>10. \A s \in Txs : NewIdsUnknown(s, t)' /\ NewIdsUnknown(t, s)'
  <2>. SUFFICES ASSUME NEW s \in Txs
                PROVE  NewIdsUnknown(s, t)' /\ NewIdsUnknown(t, s)'
    OBVIOUS
  <2>1. \A q \in Referencing(db, r) : WorkspaceRow(q.ws) \notin tx[s].puts /\ WorkspaceRow(q.ws) \notin tx[t].puts
    BY <1>5, NewIdsHaveNoRows
  <2>2. NewIdsUnknown(s, t) /\ NewIdsUnknown(t, s)
    BY DEF IInv
  <2>. QED  BY <1>1, <1>2, <1>4, <2>1, <2>2 DEF NewIdsUnknown
<1>. QED  BY <1>1, <1>6, <1>7, <1>8, <1>9, <1>10, QuietStep

LEMMA VisitRowStep ==
    ASSUME IInv, NEW t \in Txs, VisitRow(t)
    PROVE  IInv'
<1>1. PICK r \in Visitable(t) :
        /\ Lockers(t, r) = {} /\ UNCHANGED <<db, call>>
        /\ LET rest == tx[t].todo \ {r} IN
           IF r \in db
           THEN LET gone == tx[t].gone \cup {r} IN
                tx' = [tx EXCEPT ![t].gone = gone,
                                 ![t].todo = rest \cup (Referencing(db, r) \ gone)]
           ELSE tx' = [tx EXCEPT ![t].todo = rest]
  BY DEF VisitRow
<1>2. r \in tx[t].todo
  BY DEF Visitable
<1>3. CASE r \in db
  BY <1>1, <1>3, VisitLiveRowStep
<1>4. CASE r \notin db
  BY <1>1, <1>2, <1>4, VisitGoneRowStep
<1>. QED  BY <1>3, <1>4

-----------------------------------------------------------------------------
(* Transactions that end without effect. *)

LEMMA NothingRemovedStep ==
    ASSUME IInv, NEW t \in Txs, NothingRemoved(t)
    PROVE  IInv'
<1>1. CASE call[t].op = "RemoveWorkspaceMember"
  <2>1. Refuse(t, "ErrWorkspaceMemberNotFound")
    BY <1>1 DEF NothingRemoved
  <2>. QED  BY <2>1, RefuseStep DEF Responses, Sentinels
<1>2. CASE call[t].op = "DeleteWorkspace"
  <2>1. Refuse(t, "ErrWorkspaceNotFound")
    BY <1>2 DEF NothingRemoved
  <2>. QED  BY <2>1, RefuseStep DEF Responses, Sentinels
<1>3. CASE call[t].op = "DeleteUser"
  <2>1. Refuse(t, "ErrNotFound")
    BY <1>3 DEF NothingRemoved
  <2>. QED  BY <2>1, RefuseStep DEF Responses, Sentinels
<1>. QED  BY <1>1, <1>2, <1>3 DEF NothingRemoved, RemovedNone

LEMMA StatementFailsStep ==
    ASSUME IInv, NEW t \in Txs, NEW resp \in Responses, StatementFails(t, resp)
    PROVE  IInv'
<1>1. CASE ~At(t, "AddWorkspaceOwner")
  BY <1>1, RefuseStep DEF StatementFails
<1>2. CASE At(t, "AddWorkspaceOwner")
  <2>1. Goto(t, "CommitAborted") /\ tx[t].pc = "AddWorkspaceOwner"
    BY <1>2 DEF StatementFails, At
  <2>2. /\ call[t].resp = "pending" /\ call[t].actor \in Users
        /\ call[t].op = "CreateWorkspace" /\ CreateInv(t)
    BY <2>1, StatementOfCall
  <2>3. /\ tx'[t].pc = "CommitAborted" /\ tx'[t].held = tx[t].held /\ tx'[t].puts = tx[t].puts
        /\ tx'[t].gone = tx[t].gone /\ tx'[t].todo = tx[t].todo /\ call' = call
    BY <2>1 DEF Goto, IInv, TypeOK, TxRecords
  <2>4. TxInv(t)'
    BY <2>1, <2>2, <2>3 DEF TxInv, CreateInv
  <2>. QED  BY <2>1, <2>4, GotoStep DEF Statements
<1>. QED  BY <1>1, <1>2

-----------------------------------------------------------------------------
(* Commits. *)

\* What a transaction about to commit has locked and written.
LEMMA WritesOfCommit ==
    ASSUME IInv, NEW t \in Txs, At(t, "Commit")
    PROVE  /\ \A r \in tx[t].puts :
                 /\ r \in Rows /\ r.kind # "user"
                 /\ r.kind \in Roles =>
                       /\ WorkspaceRow(r.ws) \in tx[t].held \cup tx[t].puts
                       /\ UserRow(r.user) \in tx[t].shared
                       /\ Membership(db, r.ws, r.user) = {}
                 /\ r.kind = "owner" => WorkspaceRow(r.ws) \in tx[t].puts
                 /\ r.kind = "workspace" => \E u \in Users : OwnerRow(r.ws, u) \in tx[t].puts
           /\ \A r, q \in tx[t].puts : r.kind \in Roles /\ q.kind \in Roles => r = q
           /\ tx[t].puts = {} \/ tx[t].gone = {}
           /\ \A r \in tx[t].gone :
                 /\ r \in db /\ Referencing(db, r) \subseteq tx[t].gone
                 /\ r.kind = "owner" => WorkspaceRow(r.ws) \in tx[t].gone
                 /\ r.kind = "member" =>
                       \/ WorkspaceRow(r.ws) \in tx[t].held \cup tx[t].gone
                       \/ UserRow(r.user) \in tx[t].gone
<1>0. tx[t].pc = "Commit" /\ tx[t].todo = {} /\ TxInv(t) /\ ~Idle(t)
  BY DEF At, IInv, Idle, NoTx
<1>1. \A r \in tx[t].gone :
         /\ r \in db /\ r \in Rows /\ Referencing(db, r) \subseteq tx[t].gone
         /\ r.kind = "owner" => WorkspaceRow(r.ws) \in tx[t].gone
  BY <1>0 DEF IInv, TypeOK, WriteSetFits, CascadeFollows
<1>2. CASE CreateInv(t)
  <2>1. PICK w \in Workspaces : tx[t].puts = {WorkspaceRow(w), OwnerRow(w, call[t].actor)}
    BY <1>0, <1>2 DEF CreateInv
  <2>2. tx[t].gone = {} /\ UserRow(call[t].actor) \in tx[t].shared /\ call[t].actor \in Users
    BY <1>0, <1>2 DEF CreateInv, TxInv, Idle
  <2>3. Membership(db, w, call[t].actor) = {}
    <3>1. WorkspaceRow(w) \notin db
      BY <2>1 DEF IInv, WriteSetFits
    <3>. QED  BY <3>1 DEF Membership, MembersOf, IInv, Consistent, ForeignKeysHold
  <2>4. /\ WorkspaceRow(w).kind = "workspace" /\ WorkspaceRow(w).ws = w
        /\ OwnerRow(w, call[t].actor).kind = "owner" /\ OwnerRow(w, call[t].actor).ws = w
        /\ OwnerRow(w, call[t].actor).user = call[t].actor
    BY DEF WorkspaceRow, OwnerRow
  <2>5. WorkspaceRow(w) \in Rows /\ OwnerRow(w, call[t].actor) \in Rows
    BY <2>2, RowTypes
  <2>. QED  BY <2>1, <2>2, <2>3, <2>4, <2>5 DEF Roles
<1>3. CASE ReadInv(t)
  BY <1>3 DEF ReadInv
<1>4. CASE AddInv(t)
  <2>1. /\ tx[t].puts = {MemberRow(call[t].ws, call[t].user)} /\ tx[t].gone = {}
        /\ tx[t].held = {WorkspaceRow(call[t].ws)} /\ UserRow(call[t].user) \in tx[t].shared
        /\ Membership(db, call[t].ws, call[t].user) = {}
        /\ call[t].ws \in Workspaces /\ call[t].user \in Users
    BY <1>0, <1>4 DEF AddInv, LockInv
  <2>. DEFINE m == MemberRow(call[t].ws, call[t].user)
  <2>2. /\ tx[t].puts = {m} /\ m \in Rows
        /\ m.kind = "member" /\ m.ws = call[t].ws /\ m.user = call[t].user
    BY <2>1, RowTypes DEF MemberRow
  <2>. HIDE DEF m
  <2>. QED  BY <2>1, <2>2 DEF Roles
<1>5. CASE RemoveInv(t) \/ DeleteWorkspaceInv(t)
  <2>1. tx[t].held = {WorkspaceRow(call[t].ws)} /\ tx[t].puts = {}
    BY <1>0, <1>5 DEF RemoveInv, DeleteWorkspaceInv, LockInv
  <2>2. \A r \in tx[t].gone : r.ws = call[t].ws
    BY <1>5 DEF RemoveInv, DeleteWorkspaceInv, MemberRow
  <2>. QED  BY <1>1, <2>1, <2>2
<1>6. CASE DeleteUserInv(t)
  <2>1. tx[t].puts = {}
    BY <1>6 DEF DeleteUserInv
  <2>2. \A r \in tx[t].gone : r.kind = "member" =>
           WorkspaceRow(r.ws) \in tx[t].gone \/ UserRow(r.user) \in tx[t].gone
    BY <1>6 DEF DeleteUserInv, UserRow, Roles
  <2>. QED  BY <1>1, <2>1, <2>2
<1>. QED  BY <1>0, <1>2, <1>3, <1>4, <1>5, <1>6 DEF TxInv

\* The schema's rules, and that every workspace has an owner, survive a commit.
LEMMA CommitConsistent ==
    ASSUME IInv, NEW t \in Txs, At(t, "Commit"), Apply(t)
    PROVE  Consistent(db')
<1>. DEFINE puts == tx[t].puts
            gone == tx[t].gone
<1>1. db' = (db \ gone) \cup puts
  BY DEF Apply
<1>2. /\ \A r \in puts :
            /\ r \in Rows /\ r.kind # "user"
            /\ r.kind \in Roles =>
                  /\ WorkspaceRow(r.ws) \in tx[t].held \cup puts
                  /\ UserRow(r.user) \in tx[t].shared
                  /\ Membership(db, r.ws, r.user) = {}
            /\ r.kind = "owner" => WorkspaceRow(r.ws) \in puts
            /\ r.kind = "workspace" => \E u \in Users : OwnerRow(r.ws, u) \in puts
      /\ \A r, q \in puts : r.kind \in Roles /\ q.kind \in Roles => r = q
      /\ puts = {} \/ gone = {}
      /\ \A r \in gone : Referencing(db, r) \subseteq gone
      /\ \A r \in gone : r.kind = "owner" => WorkspaceRow(r.ws) \in gone
  BY WritesOfCommit
<1>3. tx[t].held \subseteq db /\ tx[t].shared \subseteq db /\ puts \cap db = {}
  BY DEF IInv, WriteSetFits
<1>4. /\ ForeignKeysHold(db) /\ MembershipKeysUnique(db)
      /\ AtMostOneOwner(db) /\ EveryWorkspaceHasOwner(db)
  BY DEF IInv, Consistent
<1>5. /\ \A w \in Workspaces : WorkspaceRow(w).kind = "workspace" /\ WorkspaceRow(w).ws = w
      /\ \A w \in Workspaces, u \in Users :
            OwnerRow(w, u).kind = "owner" /\ OwnerRow(w, u).ws = w
  BY DEF WorkspaceRow, OwnerRow
<1>. HIDE DEF puts, gone
<1>6. ForeignKeysHold(db')
  <2>. SUFFICES ASSUME NEW m \in db', m.kind \in Roles
                PROVE  WorkspaceRow(m.ws) \in db' /\ UserRow(m.user) \in db'
    BY DEF ForeignKeysHold
  <2>1. CASE m \in puts
    BY <1>1, <1>2, <1>3, <2>1
  <2>2. CASE m \in db \ gone
    <3>1. WorkspaceRow(m.ws) \in db /\ UserRow(m.user) \in db
      BY <1>4, <2>2 DEF ForeignKeysHold
    <3>2. m \in Referencing(db, WorkspaceRow(m.ws)) /\ m \in Referencing(db, UserRow(m.user))
      BY <2>2 DEF Referencing
    <3>. QED  BY <1>1, <1>2, <2>2, <3>1, <3>2
  <2>. QED  BY <1>1, <2>1, <2>2
<1>7. MembershipKeysUnique(db')
  <2>. SUFFICES ASSUME NEW m \in db', NEW n \in db', m.kind \in Roles, n.kind \in Roles,
                       m.ws = n.ws, m.user = n.user
                PROVE  m = n
    BY DEF MembershipKeysUnique
  <2>1. CASE m \in puts /\ n \in puts
    BY <1>2, <2>1
  <2>2. CASE m \in db /\ n \in db
    BY <1>4, <2>2 DEF MembershipKeysUnique
  <2>3. CASE m \in puts /\ n \in db
    BY <1>2, <2>3 DEF Membership, MembersOf
  <2>4. CASE m \in db /\ n \in puts
    BY <1>2, <2>4 DEF Membership, MembersOf
  <2>. QED  BY <1>1, <2>1, <2>2, <2>3, <2>4
<1>8. AtMostOneOwner(db')
  <2>. SUFFICES ASSUME NEW w \in Workspaces, NEW u \in Users, NEW v \in Users,
                       OwnerRow(w, u) \in db', OwnerRow(w, v) \in db'
                PROVE  u = v
    BY DEF AtMostOneOwner
  <2>1. ASSUME NEW x \in Users, NEW y \in Users, OwnerRow(w, x) \in puts
        PROVE  OwnerRow(w, y) \notin db
    <3>1. WorkspaceRow(w) \notin db
      BY <1>2, <1>3, <1>5, <2>1
    <3>. QED  BY <1>4, <1>5, <3>1 DEF ForeignKeysHold, Roles
  <2>2. CASE OwnerRow(w, u) \in puts /\ OwnerRow(w, v) \in puts
    <3>1. OwnerRow(w, u) = OwnerRow(w, v)
      BY <1>2, <1>5, <2>2 DEF Roles
    <3>. QED  BY <3>1 DEF OwnerRow
  <2>3. CASE OwnerRow(w, u) \in db /\ OwnerRow(w, v) \in db
    BY <1>4, <2>3 DEF AtMostOneOwner
  <2>. QED  BY <1>1, <2>1, <2>2, <2>3
<1>9. EveryWorkspaceHasOwner(db')
  <2>. SUFFICES ASSUME NEW w \in Workspaces, WorkspaceRow(w) \in db'
                PROVE  \E u \in Users : OwnerRow(w, u) \in db'
    BY DEF EveryWorkspaceHasOwner
  <2>1. CASE WorkspaceRow(w) \in puts
    <3>1. WorkspaceRow(w).kind = "workspace" /\ WorkspaceRow(w).ws = w
      BY <1>5
    <3>2. \E u \in Users : OwnerRow(WorkspaceRow(w).ws, u) \in puts
      BY <1>2, <2>1, <3>1
    <3>. QED  BY <1>1, <3>1, <3>2
  <2>2. CASE WorkspaceRow(w) \in db \ gone
    <3>1. PICK u \in Users : OwnerRow(w, u) \in db
      BY <1>4, <2>2 DEF EveryWorkspaceHasOwner
    <3>2. OwnerRow(w, u) \notin gone
      BY <1>2, <1>5, <2>2
    <3>. QED  BY <1>1, <3>1, <3>2
  <2>. QED  BY <1>1, <2>1, <2>2
<1>. QED  BY <1>6, <1>7, <1>8, <1>9 DEF Consistent

\* What a commit of t leaves of what another transaction s has seen: rows enter
\* and leave only workspaces and accounts that s has not locked.
LEMMA CommitSeenByOthers ==
    ASSUME IInv, NEW t \in Txs, At(t, "Commit"), Apply(t),
           NEW s \in Txs, s # t, tx'[s] = tx[s]
    PROVE  /\ WriteSetFits(s)'
           /\ \A r \in tx[s].gone : Referencing(db', r) \subseteq Referencing(db, r)
           /\ \A w \in Workspaces : WorkspaceRow(w) \in tx[s].held =>
                 /\ MembersOf(db', w) \subseteq MembersOf(db, w)
                 /\ \A m \in MembersOf(db, w) \ db' :
                       m.kind = "member" /\ UserRow(m.user) \notin db'
                 /\ \A u \in Users : OwnerRow(w, u) \in db => OwnerRow(w, u) \in db'
           /\ \A u \in Users : UserRow(u) \in tx[s].held =>
                 \A w \in Workspaces : OwnerRow(w, u) \in db' => OwnerRow(w, u) \in db
           /\ \A r \in tx[s].gone \cup tx[s].todo :
                 r.kind = "workspace" /\ r \in db' =>
                    r \in db /\ \A u \in Users : OwnerRow(r.ws, u) \in db => OwnerRow(r.ws, u) \in db'
           /\ \A m \in Rows : m.kind = "user" /\ m \in db' => m \in db
<1>. DEFINE puts == tx[t].puts
            gone == tx[t].gone
<1>1. db' = (db \ gone) \cup puts
  BY DEF Apply
<1>2. /\ \A r \in puts : r \in Rows /\ r.kind # "user"
      /\ \A r \in puts : r.kind \in Roles =>
            WorkspaceRow(r.ws) \in Exclusive(t) /\ UserRow(r.user) \in tx[t].shared
      /\ puts = {} \/ gone = {}
      /\ \A r \in gone :
            /\ r \in db
            /\ r.kind = "owner" => WorkspaceRow(r.ws) \in gone
            /\ r.kind = "member" => \/ WorkspaceRow(r.ws) \in Exclusive(t)
                                    \/ UserRow(r.user) \in gone
  BY WritesOfCommit DEF Exclusive
<1>3. /\ Exclusive(s) \cap Exclusive(t) = {}
      /\ Exclusive(s) \cap tx[t].shared = {}
      /\ Exclusive(t) \cap tx[s].shared = {}
  BY DEF IInv, LocksExclude, LockedApart
<1>4. /\ puts \subseteq Exclusive(t) /\ gone \subseteq Exclusive(t)
      /\ tx[s].held \subseteq Exclusive(s) /\ tx[s].gone \subseteq Exclusive(s)
      /\ tx[s].puts \subseteq Exclusive(s)
  BY DEF Exclusive
<1>5. /\ tx[s].held \subseteq db /\ tx[s].shared \subseteq db /\ tx[s].gone \subseteq db
      /\ tx[s].puts \cap db = {} /\ puts \cap db = {}
  BY DEF IInv, WriteSetFits
<1>6. \A r \in tx[s].todo : WorkspaceRow(r.ws) \notin puts
  BY DEF IInv, NewIdsUnknown
<1>7. tx[s].gone \subseteq Rows /\ tx[s].todo \subseteq Rows /\ db \subseteq Rows
  BY DEF IInv, TypeOK, TxRecords
<1>8. \A r \in gone : WorkspaceRow(r.ws) \in gone => WorkspaceRow(r.ws) \in Exclusive(t)
  BY <1>4
<1>9. /\ \A w \in Workspaces, u \in Users :
            /\ OwnerRow(w, u).kind = "owner" /\ OwnerRow(w, u).ws = w
            /\ OwnerRow(w, u).user = u
      /\ \A u \in Users : UserRow(u).kind = "user"
  BY DEF OwnerRow, UserRow
<1>. HIDE DEF puts, gone
<1>10. WriteSetFits(s)'
  BY <1>1, <1>3, <1>4, <1>5 DEF WriteSetFits
<1>11. ASSUME NEW r \in tx[s].gone, NEW m \in Referencing(db', r)
       PROVE  m \in Referencing(db, r)
  <2>1. m \in db' /\ m.kind \in Roles /\ (r = WorkspaceRow(m.ws) \/ r = UserRow(m.user))
    BY <1>11 DEF Referencing
  <2>2. m \notin puts
    BY <1>2, <1>3, <1>4, <2>1
  <2>. QED  BY <1>1, <2>1, <2>2 DEF Referencing
<1>12. ASSUME NEW w \in Workspaces, WorkspaceRow(w) \in tx[s].held
       PROVE  /\ MembersOf(db', w) \subseteq MembersOf(db, w)
              /\ \A m \in MembersOf(db, w) \ db' :
                    m.kind = "member" /\ UserRow(m.user) \notin db'
              /\ \A u \in Users : OwnerRow(w, u) \in db => OwnerRow(w, u) \in db'
  <2>1. WorkspaceRow(w) \notin Exclusive(t)
    BY <1>3, <1>4, <1>12
  <2>2. ASSUME NEW m \in MembersOf(db', w)
        PROVE  m \in MembersOf(db, w)
    BY <1>1, <1>2, <2>1 DEF MembersOf
  <2>3. ASSUME NEW m \in MembersOf(db, w), m \notin db'
        PROVE  m.kind = "member" /\ UserRow(m.user) \notin db'
    <3>1. m \in db /\ m.kind \in Roles /\ m.ws = w /\ m \in gone
      BY <1>1, <2>3 DEF MembersOf
    <3>2. m.kind = "member" /\ UserRow(m.user) \in gone
      BY <1>2, <1>4, <2>1, <3>1 DEF Roles
    <3>. QED  BY <1>1, <1>2, <3>2
  <2>4. ASSUME NEW u \in Users, OwnerRow(w, u) \in db
        PROVE  OwnerRow(w, u) \in db'
    BY <1>1, <1>2, <1>4, <1>9, <2>1, <2>4
  <2>. QED  BY <2>2, <2>3, <2>4
<1>13. ASSUME NEW u \in Users, UserRow(u) \in tx[s].held, NEW w \in Workspaces,
              OwnerRow(w, u) \in db'
       PROVE  OwnerRow(w, u) \in db
  <2>1. OwnerRow(w, u) \notin puts
    BY <1>2, <1>3, <1>4, <1>9, <1>13 DEF Roles
  <2>. QED  BY <1>1, <1>13, <2>1
<1>14. ASSUME NEW r \in tx[s].gone \cup tx[s].todo, r.kind = "workspace", r \in db'
       PROVE  r \in db /\ \A u \in Users : OwnerRow(r.ws, u) \in db => OwnerRow(r.ws, u) \in db'
  <2>1. r.ws \in Workspaces /\ r = WorkspaceRow(r.ws)
    BY <1>7, <1>14, RowShapes
  <2>2. r \notin puts
    BY <1>5, <1>6, <2>1
  <2>3. r \in db /\ r \notin gone
    BY <1>1, <1>2, <1>14, <2>2
  <2>4. ASSUME NEW u \in Users, OwnerRow(r.ws, u) \in db
        PROVE  OwnerRow(r.ws, u) \in db'
    BY <1>1, <1>2, <1>9, <2>1, <2>3, <2>4
  <2>. QED  BY <2>3, <2>4
<1>15. \A m \in Rows : m.kind = "user" /\ m \in db' => m \in db
  BY <1>1, <1>2
<1>. QED  BY <1>10, <1>11, <1>12, <1>13, <1>14, <1>15

LEMMA CommitStep ==
    ASSUME IInv, NEW t \in Txs, At(t, "Commit"), NEW resp \in Responses,
           Apply(t), Answer(t, resp)
    PROVE  IInv'
<1>1. /\ tx'[t] = NoTx /\ call'[t].resp # "pending"
      /\ \A s \in Txs \ {t} : tx'[s] = tx[s] /\ call'[s] = call[s]
  BY DEF Answer, IInv, TypeOK, CallRecords, Responses, Sentinels, Unexpected
<1>2. TypeOK'
  <2>1. \A r \in tx[t].puts : r \in Rows
    BY WritesOfCommit
  <2>2. db' \subseteq Rows
    BY <2>1 DEF Apply, IInv, TypeOK
  <2>. QED  BY <2>2, AnswerTypes DEF IInv, TypeOK
<1>3. Consistent(db)'
  BY CommitConsistent
<1>4. LocksExclude'
  <2>. SUFFICES ASSUME NEW s \in Txs, NEW r \in Txs, s # r
                PROVE  LockedApart(s, r)'
    BY DEF LocksExclude
  <2>1. LockedApart(s, r)
    BY DEF IInv, LocksExclude
  <2>2. CASE s = t \/ r = t
    BY <1>1, <2>2 DEF LockedApart, Exclusive, NoTx
  <2>3. CASE s # t /\ r # t
    BY <1>1, <2>1, <2>3 DEF LockedApart, Exclusive
  <2>. QED  BY <2>2, <2>3
<1>5. ASSUME NEW s \in Txs, NEW r \in Txs
      PROVE  NewIdsUnknown(s, r)'
  BY <1>1 DEF NewIdsUnknown, IInv, NoTx
<1>6. ASSUME NEW s \in Txs, s # t
      PROVE  WriteSetFits(s)' /\ CascadeFollows(s)'
  <2>1. CascadeFollows(s) /\ tx'[s] = tx[s]
    BY <1>1, <1>6 DEF IInv
  <2>2. /\ WriteSetFits(s)'
        /\ \A r \in tx[s].gone : Referencing(db', r) \subseteq Referencing(db, r)
    BY <1>6, <2>1, CommitSeenByOthers
  <2>3. CascadeFollows(s)'
    BY <2>1, <2>2 DEF CascadeFollows
  <2>. QED  BY <2>2, <2>3
<1>7. ASSUME NEW s \in Txs, s # t
      PROVE  TxInv(s)'
  <2>. DEFINE w == call[s].ws
              u == call[s].user
  <2>1. tx'[s] = tx[s] /\ call'[s] = call[s] /\ TxInv(s)
    BY <1>1, <1>7 DEF IInv
  <2>2. (Idle(s) => Idle(s)') /\ (CreateInv(s) => CreateInv(s)')
    BY <2>1 DEF Idle, CreateInv
  <2>3. ASSUME LockInv(s), tx[s].pc # "LockWorkspaceRow"
        PROVE  /\ MembersOf(db', w) \subseteq MembersOf(db, w)
               /\ \A m \in MembersOf(db, w) \ db' : m.kind = "member" /\ UserRow(m.user) \notin db'
               /\ \A x \in Users : OwnerRow(w, x) \in db => OwnerRow(w, x) \in db'
    BY <1>7, <2>1, <2>3, CommitSeenByOthers DEF LockInv
  <2>4. ASSUME LockInv(s), call[s].actor \in Users
        PROVE  LockInv(s)'
    BY <2>1, <2>3, <2>4 DEF LockInv
  <2>5. ASSUME ReadInv(s), call[s].actor \in Users
        PROVE  ReadInv(s)'
    <3>1. LockInv(s)' /\ LockInv(s) /\ call[s].ws \in Workspaces
      BY <2>4, <2>5 DEF ReadInv, LockInv
    <3>2. ASSUME tx[s].pc = "Commit"
          PROVE  /\ MembersOf(db', w) \subseteq tx[s].seen
                 /\ \A m \in tx[s].seen \ db' : m.kind = "member" /\ UserRow(m.user) \notin db'
      <4>1. /\ \A m \in tx[s].seen : m.kind \in Roles /\ m.ws = w
            /\ MembersOf(db, w) \subseteq tx[s].seen
            /\ \A m \in tx[s].seen \ db : m.kind = "member" /\ UserRow(m.user) \notin db
        BY <2>5, <3>2 DEF ReadInv
      <4>2. MembersOf(db', w) \subseteq tx[s].seen
        BY <2>3, <3>1, <3>2, <4>1
      <4>3. ASSUME NEW m \in tx[s].seen \ db'
            PROVE  m.kind = "member" /\ UserRow(m.user) \notin db'
        <5>1. CASE m \in db
          <6>1. m \in MembersOf(db, w) \ db'
            BY <4>1, <4>3, <5>1 DEF MembersOf
          <6>. QED  BY <2>3, <3>1, <3>2, <6>1
        <5>2. CASE m \notin db
          <6>1. m \in Rows
            BY DEF IInv, TypeOK, TxRecords
          <6>2. m.kind = "member" /\ UserRow(m.user) \notin db
            BY <4>1, <4>3, <5>2
          <6>3. UserRow(m.user) \in Rows /\ UserRow(m.user).kind = "user"
            BY <6>1, <6>2, RowShapes, RowTypes DEF UserRow
          <6>4. UserRow(m.user) \notin db'
            BY <1>7, <2>1, <6>2, <6>3, CommitSeenByOthers
          <6>. QED  BY <6>2, <6>4
        <5>. QED  BY <5>1, <5>2
      <4>. QED  BY <4>2, <4>3
    <3>. QED  BY <2>1, <2>5, <3>1, <3>2 DEF ReadInv
  <2>6. ASSUME AddInv(s), call[s].actor \in Users
        PROVE  AddInv(s)'
    <3>1. LockInv(s)' /\ LockInv(s)
      BY <2>4, <2>6 DEF AddInv
    <3>2. tx[s].pc = "Commit" => Membership(db', w, u) = {}
      BY <2>3, <2>6, <3>1 DEF AddInv, Membership
    <3>. QED  BY <2>1, <2>6, <3>1, <3>2 DEF AddInv
  <2>7. ASSUME RemoveInv(s), call[s].actor \in Users
        PROVE  RemoveInv(s)'
    <3>1. LockInv(s)' /\ LockInv(s)
      BY <2>4, <2>7 DEF RemoveInv
    <3>2. tx[s].pc = "Commit" => Membership(db', w, u) \subseteq tx[s].gone \cup tx[s].todo
      BY <2>3, <2>7, <3>1 DEF RemoveInv, Membership
    <3>. QED  BY <2>1, <2>7, <3>1, <3>2 DEF RemoveInv
  <2>8. ASSUME DeleteWorkspaceInv(s), call[s].actor \in Users
        PROVE  DeleteWorkspaceInv(s)'
    BY <2>1, <2>4, <2>8 DEF DeleteWorkspaceInv
  <2>9. ASSUME DeleteUserInv(s)
        PROVE  DeleteUserInv(s)'
    <3>1. u \in Users /\ (tx[s].pc # "LockUserRow" => UserRow(u) \in tx[s].held)
      BY <2>9 DEF DeleteUserInv
    <3>2. tx[s].pc # "LockUserRow" =>
            \A x \in Workspaces : OwnerRow(x, u) \in db' => OwnerRow(x, u) \in db
      BY <1>7, <2>1, <3>1, CommitSeenByOthers
    <3>3. \A r \in tx[s].gone \cup tx[s].todo : r.kind = "workspace" /\ r \in db' =>
             r \in db /\ (OwnerRow(r.ws, u) \in db => OwnerRow(r.ws, u) \in db')
      BY <1>7, <2>1, <3>1, CommitSeenByOthers
    <3>4. \A r \in tx[s].gone \cup tx[s].todo :
             \/ r = UserRow(u) /\ tx[s].pc = "Commit"
             \/ r.kind = "workspace" /\ (r \in db' => OwnerRow(r.ws, u) \in db')
             \/ r.kind \in Roles /\ WorkspaceRow(r.ws) \in tx[s].gone
             \/ r.kind = "member" /\ r.user = u /\ UserRow(u) \in tx[s].gone
      BY <2>9, <3>3 DEF DeleteUserInv
    <3>. QED  BY <2>1, <2>9, <3>2, <3>4 DEF DeleteUserInv
  <2>. QED  BY <2>1, <2>2, <2>5, <2>6, <2>7, <2>8, <2>9 DEF TxInv
<1>8. (WriteSetFits(t) /\ CascadeFollows(t) /\ TxInv(t))'
  BY <1>1 DEF WriteSetFits, CascadeFollows, TxInv, Idle, NoTx
<1>. QED  BY <1>2, <1>3, <1>4, <1>5, <1>6, <1>7, <1>8 DEF IInv

-----------------------------------------------------------------------------
(* The theorems. *)

LEMMA InitInv == Init => IInv
<1>. SUFFICES ASSUME Init
              PROVE  IInv
  OBVIOUS
<1>1. db = {UserRow(u) : u \in Users} /\ \A t \in Txs : tx[t] = NoTx /\ call[t] = NoCall
  BY DEF Init
<1>2. TypeOK
  <2>1. NoCall \in CallRecords /\ NoTx \in TxRecords
    BY DEF NoCall, CallRecords, NoTx, TxRecords
  <2>. QED  BY <1>1, <2>1, RowTypes DEF Init, TypeOK
<1>3. Consistent(db)
  <2>1. \A r \in db : r.kind = "user"
    BY <1>1 DEF UserRow
  <2>2. \A w \in Workspaces : WorkspaceRow(w) \notin db
    BY <2>1 DEF WorkspaceRow
  <2>3. \A w \in Workspaces, u \in Users : OwnerRow(w, u) \notin db
    BY <2>1 DEF OwnerRow
  <2>. QED  BY <2>1, <2>2, <2>3
            DEF Consistent, ForeignKeysHold, MembershipKeysUnique, AtMostOneOwner,
                EveryWorkspaceHasOwner, Roles
<1>4. ASSUME NEW t \in Txs
      PROVE  WriteSetFits(t) /\ CascadeFollows(t) /\ TxInv(t)
  <2>1. tx[t] = NoTx /\ call[t].resp # "pending"
    BY <1>1 DEF NoCall
  <2>2. TxInv(t)
    BY <2>1 DEF TxInv, Idle
  <2>. QED  BY <2>1, <2>2 DEF WriteSetFits, CascadeFollows, NoTx
<1>5. LocksExclude /\ \A s, t \in Txs : NewIdsUnknown(s, t)
  BY <1>1 DEF LocksExclude, LockedApart, Exclusive, NewIdsUnknown, NoTx
<1>. QED  BY <1>2, <1>3, <1>4, <1>5 DEF IInv

LEMMA NextInv == IInv /\ [Next]_vars => IInv'
<1>. SUFFICES ASSUME IInv, [Next]_vars
              PROVE  IInv'
  OBVIOUS
<1>1. CASE UNCHANGED vars
  <2>1. db' = db /\ call' = call /\ tx' = tx
    BY <1>1 DEF vars
  <2>2. \A s, t \in Txs : LockedApart(s, t) => LockedApart(s, t)'
    BY <2>1 DEF LockedApart, Exclusive
  <2>3. CASE Txs = {}
    <3>1. TypeOK' /\ Consistent(db)'
      BY <2>1 DEF IInv, TypeOK, Consistent, ForeignKeysHold, MembershipKeysUnique,
                  AtMostOneOwner, EveryWorkspaceHasOwner
    <3>. QED  BY <2>3, <3>1 DEF IInv, LocksExclude
  <2>4. ASSUME NEW t \in Txs
        PROVE  IInv'
    <3>1. TypeOK'
      BY <2>1 DEF IInv, TypeOK
    <3>2. TxInv(t)'
      BY <2>1 DEF IInv, TxInv, Idle, CreateInv, LockInv, ReadInv, AddInv, RemoveInv,
                  DeleteWorkspaceInv, DeleteUserInv
    <3>3. (WriteSetFits(t) /\ CascadeFollows(t))'
      BY <2>1 DEF IInv, WriteSetFits, CascadeFollows
    <3>4. \A s \in Txs : NewIdsUnknown(s, t)' /\ NewIdsUnknown(t, s)'
      BY <2>1 DEF IInv, NewIdsUnknown
    <3>5. \A s \in Txs \ {t} : LockedApart(s, t)' /\ LockedApart(t, s)'
      BY <2>2 DEF IInv, LocksExclude
    <3>. QED  BY <2>1, <3>1, <3>2, <3>3, <3>4, <3>5, QuietStep
  <2>. QED  BY <2>3, <2>4
<1>2. CASE Next
  <2>1. PICK t \in Txs : Arrive(t) \/ Return(t) \/ Step(t) \/ Failure(t) \/ CommitLost(t)
    BY <1>2 DEF Next
  <2>2. CASE Arrive(t)
    BY <2>2, ArriveStep
  <2>3. CASE Return(t)
    BY <2>3, ReturnStep
  <2>4. CASE Step(t)
    <3>1. CASE CreateWorkspace(t)
      BY <3>1, CreateWorkspaceStep
    <3>2. CASE AddWorkspaceOwner(t)
      BY <3>2, AddWorkspaceOwnerStep
    <3>3. CASE LockWorkspaceRow(t)
      BY <3>3, LockWorkspaceRowStep
    <3>4. CASE ListWorkspaceMembers(t)
      BY <3>4, ListWorkspaceMembersStep
    <3>5. CASE SelectWorkspaceMember(t)
      BY <3>5, SelectWorkspaceMemberStep
    <3>6. CASE AddWorkspaceMember(t)
      BY <3>6, AddWorkspaceMemberStep
    <3>7. CASE RemoveWorkspaceMember(t)
      BY <3>7, RemoveWorkspaceMemberStep
    <3>8. CASE DeleteWorkspace(t)
      BY <3>8, DeleteWorkspaceStep
    <3>9. CASE LockUserRow(t)
      BY <3>9, LockUserRowStep
    <3>10. CASE DeleteWorkspacesOwnedByUser(t)
      BY <3>10, DeleteWorkspacesOwnedByUserStep
    <3>11. CASE DeleteUser(t)
      BY <3>11, DeleteUserStep
    <3>12. CASE VisitRow(t)
      BY <3>12, VisitRowStep
    <3>13. CASE NothingRemoved(t)
      BY <3>13, NothingRemovedStep
    <3>14. CASE Commit(t)
      BY <3>14, CommitStep DEF Commit, Responses
    <3>15. CASE CommitAborted(t)
      BY <3>15, RefuseStep DEF CommitAborted, Responses, Unexpected
    <3>16. CASE DeadlockAbort(t)
      BY <3>16, StatementFailsStep DEF DeadlockAbort, Responses, Unexpected
    <3>. QED  BY <2>4, <3>1, <3>2, <3>3, <3>4, <3>5, <3>6, <3>7, <3>8, <3>9, <3>10,
                 <3>11, <3>12, <3>13, <3>14, <3>15, <3>16 DEF Step
  <2>5. CASE Failure(t)
    BY <2>5, StatementFailsStep DEF Failure, Responses, Unexpected
  <2>6. CASE CommitLost(t)
    BY <2>6, CommitStep DEF CommitLost, Responses, Unexpected
  <2>. QED  BY <2>1, <2>2, <2>3, <2>4, <2>5, <2>6
<1>. QED  BY <1>1, <1>2

\* The inductive invariant holds throughout, for any number of accounts,
\* workspaces and concurrent requests, with or without failures.
THEOREM Invariance == Spec => []IInv
BY InitInv, NextInv, PTL DEF Spec

\* The variables of WorkspaceTxns have their types.
THEOREM TypeCorrect == Spec => []TypeOK
<1>1. IInv => TypeOK
  BY DEF IInv
<1>. QED  BY <1>1, Invariance, PTL

LEMMA OneOwnerEach == IInv => OneOwner
<1>. SUFFICES ASSUME IInv, NEW w \in Workspaces, WorkspaceRow(w) \in db
              PROVE  \E u \in Users :
                        /\ UserRow(u) \in db
                        /\ \A v \in Users : OwnerRow(w, v) \in db <=> v = u
  BY DEF OneOwner
<1>1. PICK u \in Users : OwnerRow(w, u) \in db
  BY DEF IInv, Consistent, EveryWorkspaceHasOwner
<1>2. UserRow(u) \in db
  BY <1>1 DEF IInv, Consistent, ForeignKeysHold, OwnerRow, Roles
<1>3. \A v \in Users : OwnerRow(w, v) \in db => v = u
  BY <1>1 DEF IInv, Consistent, AtMostOneOwner
<1>. QED  BY <1>1, <1>2, <1>3

\* Every committed workspace has exactly one owner, whose account exists.
THEOREM OwnerInvariant == Spec => []OneOwner
BY OneOwnerEach, Invariance, PTL

\* An owner who has passed the permission check is still the owner at the
\* write and at the commit.
THEOREM OwnerCheckHolds == Spec => []OwnerCheckStillValid
<1>1. IInv => OwnerCheckStillValid
  <2>. SUFFICES ASSUME IInv, NEW t \in Txs,
                       call[t].op \in {"AddWorkspaceMember", "RemoveWorkspaceMember", "DeleteWorkspace"},
                       tx[t].pc \in {"AddWorkspaceMember", "RemoveWorkspaceMember",
                                     "DeleteWorkspace", "Commit"}
                PROVE  OwnerRow(call[t].ws, call[t].actor) \in db
    BY DEF OwnerCheckStillValid
  <2>1. TxInv(t) /\ ~Idle(t)
    BY DEF IInv, Idle, NoTx
  <2>2. LockInv(t)
    BY <2>1 DEF TxInv, AddInv, RemoveInv, DeleteWorkspaceInv
  <2>. QED  BY <2>2 DEF LockInv
<1>. QED  BY <1>1, Invariance, PTL

\* The membership list that ReadWorkspace answers with is the one of the
\* workspace it authorised, but for accounts deleted since.
THEOREM ReadListHolds == Spec => []ReadListIsCurrent
<1>1. IInv => ReadListIsCurrent
  <2>. SUFFICES ASSUME IInv, NEW t \in Txs, call[t].op = "ReadWorkspace", tx[t].pc = "Commit"
                PROVE  /\ WorkspaceRow(call[t].ws) \in db
                       /\ \E u \in Users : \A v \in Users :
                             OwnerRow(call[t].ws, v) \in tx[t].seen <=> v = u
                       /\ MembersOf(db, call[t].ws) \subseteq tx[t].seen
                       /\ \A m \in tx[t].seen \ db : m.kind = "member" /\ UserRow(m.user) \notin db
    BY DEF ReadListIsCurrent
  <2>1. TxInv(t) /\ ~Idle(t)
    BY DEF IInv, Idle, NoTx
  <2>2. ReadInv(t)
    BY <2>1 DEF TxInv
  <2>3. WorkspaceRow(call[t].ws) \in db /\ call[t].ws \in Workspaces
    BY <2>2 DEF ReadInv, LockInv, IInv, WriteSetFits
  <2>4. PICK u \in Users : \A v \in Users : OwnerRow(call[t].ws, v) \in db <=> v = u
    BY <2>3, OneOwnerEach DEF OneOwner
  <2>5. ASSUME NEW v \in Users
        PROVE  OwnerRow(call[t].ws, v) \in tx[t].seen <=> OwnerRow(call[t].ws, v) \in db
    <3>1. OwnerRow(call[t].ws, v).kind = "owner" /\ OwnerRow(call[t].ws, v).ws = call[t].ws
      BY DEF OwnerRow
    <3>. QED  BY <2>2, <3>1 DEF ReadInv, MembersOf, Roles
  <2>. QED  BY <2>2, <2>3, <2>4, <2>5 DEF ReadInv
<1>. QED  BY <1>1, Invariance, PTL

\* DeleteWorkspace and DeleteUser never find their locked row gone.
THEOREM TargetDeleted == Spec => []LockedTargetIsDeleted
<1>1. IInv => LockedTargetIsDeleted
  <2>. SUFFICES ASSUME IInv, NEW t \in Txs, At(t, "Commit"),
                       call[t].op \in {"DeleteWorkspace", "DeleteUser"}
                PROVE  ~RemovedNone(t)
    BY DEF LockedTargetIsDeleted
  <2>1. TxInv(t) /\ ~Idle(t) /\ tx[t].pc = "Commit" /\ tx[t].todo = {}
    BY DEF IInv, Idle, NoTx, At
  <2>2. CASE call[t].op = "DeleteWorkspace"
    BY <2>1, <2>2 DEF TxInv, DeleteWorkspaceInv, RemovedNone, Target
  <2>3. CASE call[t].op = "DeleteUser"
    BY <2>1, <2>3 DEF TxInv, DeleteUserInv, RemovedNone, Target
  <2>. QED  BY <2>2, <2>3
<1>. QED  BY <1>1, Invariance, PTL

\* While a transaction holds a workspace row, nobody else adds anything to the
\* workspace, nor takes anything from it but members whose accounts they delete.
THEOREM WorkspaceStable == Spec => LockedWorkspaceIsStable
<1>. DEFINE Stable(t, w) ==
              /\ WorkspaceRow(w) \in db'
              /\ MembersOf(db', w) \subseteq MembersOf(db, w)
              /\ \A m \in MembersOf(db, w) \ db' :
                    m.kind = "member" /\ UserRow(m.user) \notin db'
            StableStep ==
              \A t \in Txs, w \in Workspaces :
                 WorkspaceRow(w) \in tx[t].held /\ tx'[t] = tx[t] => Stable(t, w)
<1>1. IInv /\ [Next]_vars => [StableStep]_vars
  <2>. SUFFICES ASSUME IInv, Next, NEW t \in Txs, NEW w \in Workspaces,
                       WorkspaceRow(w) \in tx[t].held, tx'[t] = tx[t]
                PROVE  Stable(t, w)
    BY DEF StableStep
  <2>1. CASE db' = db
    BY <2>1 DEF IInv, WriteSetFits, MembersOf
  <2>2. CASE db' # db
    <3>1. PICK s \in Txs : At(s, "Commit") /\ Apply(s) /\ tx' = [tx EXCEPT ![s] = NoTx]
      BY <2>2, ZenonT(60) DEF Next, Arrive, Return, Step, CreateWorkspace, AddWorkspaceOwner,
                  LockWorkspaceRow, ListWorkspaceMembers, SelectWorkspaceMember,
                  AddWorkspaceMember, RemoveWorkspaceMember, DeleteWorkspace, LockUserRow,
                  DeleteWorkspacesOwnedByUser, DeleteUser, StartDelete, VisitRow,
                  NothingRemoved, Commit, CommitAborted, DeadlockAbort, Failure, CommitLost,
                  StatementFails, Goto, Refuse, Answer
    <3>2. s # t
      BY <3>1 DEF IInv, TypeOK, NoTx
    <3>3. WriteSetFits(t)'
      BY <3>1, <3>2, CommitSeenByOthers
    <3>4. /\ MembersOf(db', w) \subseteq MembersOf(db, w)
          /\ \A m \in MembersOf(db, w) \ db' : m.kind = "member" /\ UserRow(m.user) \notin db'
      BY <3>1, <3>2, CommitSeenByOthers
    <3>. QED  BY <3>3, <3>4 DEF WriteSetFits
  <2>. QED  BY <2>1, <2>2
<1>. QED  BY <1>1, Invariance, PTL DEF Spec, LockedWorkspaceIsStable

\* What goes on for a call goes on while it is pending, and changes its answer only.
LEMMA CallOfStep ==
    ASSUME IInv, NEW s \in Txs, Step(s) \/ Failure(s) \/ CommitLost(s)
    PROVE  /\ call[s].resp = "pending"
           /\ call' = call \/ \E resp : call' = [call EXCEPT ![s].resp = resp]
<1>1. call[s].resp # "pending" => tx[s].pc = "none" /\ tx[s].todo = {}
  BY DEF IInv, TxInv, Idle, NoTx
<1>2. CASE CreateWorkspace(s) \/ AddWorkspaceOwner(s)
  BY <1>1, <1>2 DEF CreateWorkspace, AddWorkspaceOwner, At, Refuse, Answer
<1>3. CASE LockWorkspaceRow(s) \/ ListWorkspaceMembers(s) \/ SelectWorkspaceMember(s)
  BY <1>1, <1>3 DEF LockWorkspaceRow, ListWorkspaceMembers, SelectWorkspaceMember, At, Goto,
                    Refuse, Answer
<1>4. CASE AddWorkspaceMember(s)
  BY <1>1, <1>4 DEF AddWorkspaceMember, At, Refuse, Answer
<1>5. CASE \/ RemoveWorkspaceMember(s) \/ DeleteWorkspace(s) \/ DeleteWorkspacesOwnedByUser(s)
           \/ DeleteUser(s)
  BY <1>1, <1>5 DEF RemoveWorkspaceMember, DeleteWorkspace, DeleteWorkspacesOwnedByUser,
                    DeleteUser, StartDelete, At
<1>6. CASE LockUserRow(s)
  BY <1>1, <1>6 DEF LockUserRow, At, Refuse, Answer
<1>7. CASE VisitRow(s)
  BY <1>1, <1>7 DEF VisitRow, Visitable
<1>8. CASE NothingRemoved(s) \/ Commit(s) \/ CommitAborted(s) \/ CommitLost(s)
  BY <1>1, <1>8 DEF NothingRemoved, Commit, CommitAborted, CommitLost, At, Refuse, Answer
<1>9. CASE DeadlockAbort(s) \/ Failure(s)
  BY <1>9, Zenon DEF DeadlockAbort, Failure, StatementFails, Goto, Refuse, Answer
<1>. QED  BY <1>2, <1>3, <1>4, <1>5, <1>6, <1>7, <1>8, <1>9 DEF Step

\* A running DeleteUser deletes the account of its actor: others were refused on
\* arrival.
SelfDeletes ==
    \A t \in Txs :
        call[t].op = "DeleteUser" /\ call[t].resp = "pending" => call[t].user = call[t].actor

LEMMA SelfDeletesStep == ASSUME IInv, SelfDeletes, [Next]_vars PROVE SelfDeletes'
<1>. SUFFICES ASSUME NEW t \in Txs, call'[t].op = "DeleteUser", call'[t].resp = "pending"
              PROVE  call'[t].user = call'[t].actor
  BY DEF SelfDeletes
<1>1. call \in [Txs -> CallRecords] /\ call[t] \in CallRecords
  BY DEF IInv, TypeOK
<1>2. CASE call'[t] = call[t]
  BY <1>2 DEF SelfDeletes
<1>3. CASE Arrive(t)
  <2>1. PICK r \in Requests : call' = [call EXCEPT ![t] = Received(r)]
    BY <1>3 DEF Arrive
  <2>. QED  BY <1>1, <2>1 DEF Received
<1>4. CASE Return(t)
  BY <1>1, <1>4 DEF Return, NoCall
<1>5. CASE Step(t) \/ Failure(t) \/ CommitLost(t)
  <2>1. call[t].resp = "pending" /\ (call' = call \/ \E resp : call' = [call EXCEPT ![t].resp = resp])
    BY <1>5, CallOfStep
  <2>2. /\ call'[t].op = call[t].op /\ call'[t].user = call[t].user
        /\ call'[t].actor = call[t].actor
    BY <1>1, <2>1 DEF CallRecords
  <2>. QED  BY <2>1, <2>2 DEF SelfDeletes
<1>6. ASSUME NEW s \in Txs \ {t}, Arrive(s) \/ Return(s) \/ Step(s) \/ Failure(s) \/ CommitLost(s)
      PROVE  call'[t] = call[t]
  <2>1. CASE Arrive(s) \/ Return(s)
    BY <1>1, <2>1 DEF Arrive, Return
  <2>2. CASE Step(s) \/ Failure(s) \/ CommitLost(s)
    BY <1>1, <2>2, CallOfStep
  <2>. QED  BY <1>6, <2>1, <2>2
<1>. QED  BY <1>2, <1>3, <1>4, <1>5, <1>6 DEF Next, vars

\* What is committed was asked for by somebody who may change it then.
LEMMA CommitAuthorized ==
    ASSUME IInv, SelfDeletes, NEW t \in Txs, Commit(t) \/ CommitLost(t)
    PROVE  /\ \A r \in tx[t].gone : MayDelete(t, r)
           /\ \A r \in tx[t].puts : MayInsert(t, r)
<1>. DEFINE w == call[t].ws
            u == call[t].user
<1>1. tx[t].pc = "Commit" /\ tx[t].todo = {} /\ TxInv(t) /\ ~Idle(t)
  BY DEF Commit, CommitLost, At, IInv, Idle, NoTx
<1>2. tx[t].gone \subseteq db /\ tx[t].shared \subseteq db
  BY DEF IInv, WriteSetFits
<1>3. CASE call[t].op = "CreateWorkspace"
  <2>1. CreateInv(t)
    BY <1>1, <1>3 DEF TxInv
  <2>2. PICK v \in Workspaces : tx[t].puts = {WorkspaceRow(v), OwnerRow(v, call[t].actor)}
    BY <1>1, <2>1 DEF CreateInv
  <2>3. \A q \in db : q.ws # v
    BY <2>2, NewIdsHaveNoRows
  <2>4. WorkspaceRow(v).ws = v /\ OwnerRow(v, call[t].actor).ws = v
    BY DEF WorkspaceRow, OwnerRow
  <2>. QED  BY <1>1, <1>2, <1>3, <2>1, <2>2, <2>3, <2>4 DEF CreateInv, MayInsert
<1>4. CASE call[t].op = "ReadWorkspace"
  BY <1>1, <1>4 DEF TxInv, ReadInv
<1>5. CASE call[t].op \in {"AddWorkspaceMember", "RemoveWorkspaceMember", "DeleteWorkspace"}
  <2>1. Owns(t)
    BY <1>1, <1>5 DEF TxInv, AddInv, RemoveInv, DeleteWorkspaceInv, LockInv, Owns
  <2>. QED  BY <1>1, <1>5, <2>1 DEF TxInv, AddInv, RemoveInv, DeleteWorkspaceInv,
                                    MayDelete, MayInsert
<1>6. CASE call[t].op = "DeleteUser"
  <2>1. DeleteUserInv(t) /\ u = call[t].actor /\ tx[t].puts = {}
    BY <1>1, <1>6 DEF TxInv, DeleteUserInv, SelfDeletes
  <2>2. ASSUME NEW r \in tx[t].gone PROVE r.user = u \/ OwnerRow(r.ws, u) \in db
    <3>1. \/ r = UserRow(u)
          \/ r.kind = "workspace" /\ OwnerRow(r.ws, u) \in db
          \/ r.kind \in Roles /\ WorkspaceRow(r.ws) \in tx[t].gone
          \/ r.kind = "member" /\ r.user = u
      BY <1>2, <2>1 DEF DeleteUserInv
    <3>2. CASE r.kind \in Roles /\ WorkspaceRow(r.ws) \in tx[t].gone
      <4>1. /\ WorkspaceRow(r.ws).kind = "workspace" /\ WorkspaceRow(r.ws).ws = r.ws
            /\ WorkspaceRow(r.ws) # UserRow(u)
        BY DEF WorkspaceRow, UserRow
      <4>. QED  BY <1>2, <2>1, <3>2, <4>1 DEF DeleteUserInv, Roles
    <3>. QED  BY <3>1, <3>2 DEF UserRow
  <2>. QED  BY <1>6, <2>1, <2>2 DEF MayDelete
<1>. QED  BY <1>1, <1>3, <1>4, <1>5, <1>6 DEF TxInv

LEMMA SelfDeletesInvariant == Spec => []SelfDeletes
<1>1. Init => SelfDeletes
  BY DEF Init, SelfDeletes, NoCall
<1>. QED  BY <1>1, SelfDeletesStep, Invariance, PTL DEF Spec

\* Whatever interleaves, fails or cascades, rows appear and disappear only at the
\* request of an actor who is entitled to the change at that moment.
THEOREM AuthorizedChanges == Spec => ChangesAreAuthorized
<1>. DEFINE ByCaller(r) ==
              \E t \in Txs :
                 /\ call[t].resp = "pending" /\ call'[t].resp \in {"ok", "ErrInternal"}
                 /\ r \in db  => MayDelete(t, r)
                 /\ r \in db' => MayInsert(t, r)
            Authorized == \A r \in (db \ db') \cup (db' \ db) : ByCaller(r)
<1>1. IInv /\ SelfDeletes /\ [Next]_vars => [Authorized]_vars
  <2>. SUFFICES ASSUME IInv, SelfDeletes, Next, NEW r \in (db \ db') \cup (db' \ db)
                PROVE  ByCaller(r)
    OBVIOUS
  <2>1. PICK t \in Txs : Commit(t) \/ CommitLost(t)
    <3>1. db' # db
      OBVIOUS
    <3>. QED  BY <3>1, ZenonT(60)
              DEF Next, Arrive, Return, Step, CreateWorkspace, AddWorkspaceOwner,
                  LockWorkspaceRow, ListWorkspaceMembers, SelectWorkspaceMember,
                  AddWorkspaceMember, RemoveWorkspaceMember, DeleteWorkspace, LockUserRow,
                  DeleteWorkspacesOwnedByUser, DeleteUser, StartDelete, VisitRow,
                  NothingRemoved, CommitAborted, DeadlockAbort, Failure,
                  StatementFails, Goto, Refuse
  <2>2. db' = (db \ tx[t].gone) \cup tx[t].puts /\ (Answer(t, "ok") \/ Answer(t, "ErrInternal"))
    BY <2>1 DEF Commit, CommitLost, Apply
  <2>3. call[t].resp = "pending"
    BY <2>1, CallOfStep DEF Step
  <2>4. call'[t].resp \in {"ok", "ErrInternal"}
    BY <2>2 DEF Answer, IInv, TypeOK, CallRecords
  <2>5. /\ r \in db  => r \in tx[t].gone
        /\ r \in db' => r \in tx[t].puts
    BY <2>2
  <2>. QED  BY <2>1, <2>3, <2>4, <2>5, CommitAuthorized
<1>. QED  BY <1>1, SelfDeletesInvariant, Invariance, PTL DEF Spec, ChangesAreAuthorized

-----------------------------------------------------------------------------
(* Circles of waiting. *)

\* Foreign keys are checked by the last statement of CreateWorkspace and
\* AddWorkspaceMember only, so that a lock FOR KEY SHARE is one on a user.
KeyShares ==
    \A t \in Txs : tx[t].shared # {} =>
        /\ tx[t].pc = "Commit"
        /\ call[t].op \in {"CreateWorkspace", "AddWorkspaceMember"}
        /\ \A r \in tx[t].shared : r.kind = "user"

LEMMA KeySharesStep == ASSUME IInv, KeyShares, [Next]_vars PROVE KeyShares'
<1>1. CASE UNCHANGED vars
  BY <1>1 DEF vars, KeyShares
<1>2. ASSUME NEW t \in Txs,
             Arrive(t) \/ Return(t) \/ Step(t) \/ Failure(t) \/ CommitLost(t)
      PROVE  KeyShares'
  <2>1. /\ tx \in [Txs -> TxRecords] /\ call \in [Txs -> CallRecords] /\ TxInv(t)
        /\ NoTx.shared = {} /\ NoCall.resp = "none"
    BY DEF IInv, TypeOK, NoTx, NoCall
  <2>2. /\ \A s \in Txs \ {t} : tx'[s] = tx[s] /\ call'[s] = call[s]
        /\ tx' \in [Txs -> TxRecords]
    <3>1. \A s \in Txs \ {t} : tx'[s] = tx[s] /\ call'[s] = call[s]
      BY <1>2, <2>1, ZenonT(60)
         DEF Arrive, Return, Step, CreateWorkspace, AddWorkspaceOwner,
             LockWorkspaceRow, ListWorkspaceMembers, SelectWorkspaceMember,
             AddWorkspaceMember, RemoveWorkspaceMember, DeleteWorkspace, LockUserRow,
             DeleteWorkspacesOwnedByUser, DeleteUser, StartDelete, VisitRow,
             NothingRemoved, Commit, CommitAborted, DeadlockAbort, Failure, CommitLost,
             StatementFails, Goto, Refuse, Answer
    <3>2. TypeOK'
      BY <1>2, NextInv DEF IInv, Next
    <3>. QED  BY <3>1, <3>2 DEF TypeOK
  <2>3. SUFFICES tx'[t].shared # {} =>
                   /\ tx'[t].pc = "Commit"
                   /\ call'[t].op \in {"CreateWorkspace", "AddWorkspaceMember"}
                   /\ \A r \in tx'[t].shared : r.kind = "user"
    BY <2>2 DEF KeyShares
  <2>4. ASSUME NEW resp, Answer(t, resp) PROVE tx'[t].shared = {}
    BY <2>1, <2>4 DEF Answer
  <2>5. ASSUME tx'[t].shared = tx[t].shared, tx[t].pc # "Commit" PROVE tx'[t].shared = {}
    BY <2>5 DEF KeyShares
  <2>6. CASE Arrive(t)
    <3>1. tx[t] = NoTx
      BY <2>1, <2>6 DEF Arrive, TxInv, Idle
    <3>2. tx'[t].shared = tx[t].shared
      BY <2>1, <2>6 DEF Arrive, TxRecords
    <3>. QED  BY <2>1, <3>1, <3>2
  <2>7. CASE Return(t)
    <3>1. tx' = tx /\ tx[t] = NoTx
      BY <2>1, <2>7 DEF Return, TxInv, Idle, Responses, Sentinels, Unexpected
    <3>. QED  BY <2>1, <3>1
  <2>8. CASE VisitRow(t)
    <3>1. call' = call /\ tx'[t].pc = tx[t].pc /\ tx'[t].shared = tx[t].shared
      BY <2>1, <2>8 DEF VisitRow, TxRecords
    <3>. QED  BY <3>1 DEF KeyShares
  <2>9. CASE AddWorkspaceOwner(t)
    <3>1. tx[t].pc = "AddWorkspaceOwner"
      BY <2>9 DEF AddWorkspaceOwner, At
    <3>2. call[t].op = "CreateWorkspace"
      BY <3>1, StatementOfCall
    <3>3. \/ Refuse(t, "ErrOwnerKey")
          \/ \E P : /\ tx' = [tx EXCEPT ![t].pc = "Commit", ![t].puts = P,
                                        ![t].shared = {UserRow(call[t].actor)}]
                    /\ call' = call
      BY <2>9, Zenon DEF AddWorkspaceOwner
    <3>4. ASSUME NEW P, call' = call,
                 tx' = [tx EXCEPT ![t].pc = "Commit", ![t].puts = P,
                                  ![t].shared = {UserRow(call[t].actor)}]
          PROVE  /\ tx'[t].pc = "Commit" /\ call'[t].op = "CreateWorkspace"
                 /\ \A r \in tx'[t].shared : r.kind = "user"
      <4>1. tx'[t].pc = "Commit" /\ tx'[t].shared = {UserRow(call[t].actor)}
        BY <2>1, <3>4 DEF TxRecords
      <4>2. call'[t].op = "CreateWorkspace"
        BY <3>2, <3>4
      <4>3. \A r \in {UserRow(call[t].actor)} : r.kind = "user"
        BY DEF UserRow
      <4>. QED  BY <4>1, <4>2, <4>3
    <3>5. Refuse(t, "ErrOwnerKey") => tx'[t].shared = {}
      BY <2>4 DEF Refuse
    <3>. QED  BY <3>3, <3>4, <3>5
  <2>10. CASE AddWorkspaceMember(t)
    <3>1. call[t].op = "AddWorkspaceMember"
      BY <2>1, <2>10, StatementOfCall DEF AddWorkspaceMember, At
    <3>. QED  BY <2>1, <2>4, <2>10, <3>1 DEF AddWorkspaceMember, Refuse, TxRecords, UserRow
  <2>11. CASE LockWorkspaceRow(t) \/ ListWorkspaceMembers(t) \/ LockUserRow(t)
    <3>1. tx[t].pc # "Commit"
      BY <2>11 DEF LockWorkspaceRow, ListWorkspaceMembers, LockUserRow, At
    <3>2. tx'[t].shared = tx[t].shared \/ \E resp : Answer(t, resp)
      BY <2>1, <2>11 DEF LockWorkspaceRow, ListWorkspaceMembers, LockUserRow, Refuse, TxRecords
    <3>. QED  BY <2>4, <2>5, <3>1, <3>2
  <2>12. CASE CreateWorkspace(t) \/ SelectWorkspaceMember(t)
    <3>1. tx[t].pc # "Commit"
      BY <2>12 DEF CreateWorkspace, SelectWorkspaceMember, At
    <3>2. tx'[t].shared = tx[t].shared \/ \E resp : Answer(t, resp)
      BY <2>1, <2>12 DEF CreateWorkspace, SelectWorkspaceMember, Goto, Refuse, TxRecords
    <3>. QED  BY <2>4, <2>5, <3>1, <3>2
  <2>13. CASE RemoveWorkspaceMember(t) \/ DeleteWorkspace(t) \/ DeleteUser(t)
              \/ DeleteWorkspacesOwnedByUser(t)
    <3>1. tx[t].pc # "Commit"
      BY <2>13 DEF RemoveWorkspaceMember, DeleteWorkspace, DeleteUser,
                   DeleteWorkspacesOwnedByUser, At
    <3>2. tx'[t].shared = tx[t].shared
      BY <2>1, <2>13 DEF RemoveWorkspaceMember, DeleteWorkspace, DeleteUser,
                   DeleteWorkspacesOwnedByUser, StartDelete, TxRecords
    <3>. QED  BY <2>5, <3>1, <3>2
  <2>14. CASE DeadlockAbort(t) \/ Failure(t)
    <3>1. \/ At(t, "AddWorkspaceOwner") /\ Goto(t, "CommitAborted")
          \/ \E resp : Answer(t, resp)
      BY <2>14 DEF DeadlockAbort, Failure, StatementFails, Refuse
    <3>2. CASE At(t, "AddWorkspaceOwner") /\ Goto(t, "CommitAborted")
      <4>1. tx[t].pc # "Commit" /\ tx'[t].shared = tx[t].shared
        BY <2>1, <3>2 DEF At, Goto, TxRecords
      <4>. QED  BY <2>5, <4>1
    <3>. QED  BY <2>4, <3>1, <3>2
  <2>15. CASE NothingRemoved(t) \/ Commit(t) \/ CommitAborted(t) \/ CommitLost(t)
    <3>1. \E resp : Answer(t, resp)
      BY <2>15 DEF NothingRemoved, Commit, CommitAborted, CommitLost, Refuse
    <3>. QED  BY <2>4, <3>1
  <2>. QED  BY <1>2, <2>6, <2>7, <2>8, <2>9, <2>10, <2>11, <2>12, <2>13, <2>14, <2>15 DEF Step
<1>. QED  BY <1>1, <1>2 DEF Next

\* What a transaction that has written or locked row r is about.
LEMMA HoldersOfRows ==
    ASSUME IInv, KeyShares, NEW s \in Txs, NEW r \in Exclusive(s) \cup tx[s].shared
    PROVE  /\ tx[s].pc \notin {"none", "LockWorkspaceRow", "LockUserRow"}
           /\ r.kind = "user" /\ r \in Exclusive(s) =>
                 call[s].op = "DeleteUser" /\ r = UserRow(call[s].user)
           /\ r.kind # "user" => r \in Exclusive(s)
<1>1. /\ tx[s].pc \in Statements \cup {"none"} /\ Exclusive(s) \subseteq Rows
      /\ tx[s].pc = "none" => Exclusive(s) \cup tx[s].shared = {}
  BY DEF IInv, TypeOK, TxRecords, Exclusive, TxInv, Idle, NoTx, CreateInv, ReadInv, AddInv,
         RemoveInv, DeleteWorkspaceInv, DeleteUserInv
<1>2. tx[s].pc # "none"
  BY <1>1
<1>3. /\ tx[s].pc = "LockWorkspaceRow" => LockInv(s)
      /\ tx[s].pc = "LockUserRow" => DeleteUserInv(s)
  BY <1>2, StatementOfCall DEF ReadInv, AddInv, RemoveInv, DeleteWorkspaceInv
<1>4. tx[s].pc \notin {"LockWorkspaceRow", "LockUserRow"}
  BY <1>3 DEF LockInv, DeleteUserInv, Exclusive, KeyShares
<1>5. r.kind # "user" => r \in Exclusive(s)
  BY DEF KeyShares
<1>6. ASSUME r.kind = "user", r \in Exclusive(s)
      PROVE  call[s].op = "DeleteUser" /\ r = UserRow(call[s].user)
  <2>1. call[s].resp = "pending" /\ TxInv(s)
    BY <1>2, StatementOfCall DEF IInv
  <2>2. ~CreateInv(s)
    BY <1>4, <1>6 DEF CreateInv, Exclusive, WorkspaceRow, OwnerRow
  <2>3. ~ReadInv(s) /\ ~AddInv(s)
    BY <1>4, <1>6 DEF ReadInv, AddInv, LockInv, Exclusive, WorkspaceRow, MemberRow
  <2>4. ~RemoveInv(s) /\ ~DeleteWorkspaceInv(s)
    <3>1. CASE r \in tx[s].held \cup tx[s].puts
      BY <1>4, <1>6, <3>1 DEF RemoveInv, DeleteWorkspaceInv, LockInv, WorkspaceRow
    <3>2. CASE r \in tx[s].gone
      <4>1. r.ws = None
        BY <1>1, <1>6, RowShapes DEF Exclusive, UserRow
      <4>2. RemoveInv(s) \/ DeleteWorkspaceInv(s) => r.ws = call[s].ws /\ r.ws \in Workspaces
        BY <3>2 DEF RemoveInv, DeleteWorkspaceInv, LockInv, MemberRow
      <4>. QED  BY <4>1, <4>2, NoneIsNoId
    <3>. QED  BY <1>6, <3>1, <3>2 DEF Exclusive
  <2>5. DeleteUserInv(s) => r = UserRow(call[s].user)
    BY <1>4, <1>6 DEF DeleteUserInv, Exclusive, Roles, WorkspaceRow
  <2>. QED  BY <2>1, <2>2, <2>3, <2>4, <2>5 DEF TxInv
<1>. QED  BY <1>2, <1>4, <1>5, <1>6

\* Who writes memberships of a workspace that another transaction has locked is
\* deleting the member's account.
LEMMA HoldersOfMembers ==
    ASSUME IInv, NEW t \in Txs, NEW s \in Txs \ {t}, NEW r \in Exclusive(s),
           r.kind \in Roles, WorkspaceRow(r.ws) \in tx[t].held
    PROVE  /\ call[s].op = "DeleteUser" /\ tx[s].pc = "Commit" /\ DeleteUserInv(s)
           /\ r.kind = "member" /\ r.user = call[s].user /\ r \in tx[s].gone
<1>1. WorkspaceRow(r.ws) \notin Exclusive(s)
  BY DEF IInv, LocksExclude, LockedApart, Exclusive
<1>2. tx[s].pc # "none" /\ TxInv(s)
  <2>1. TxInv(s) /\ ~Idle(s)
    BY DEF IInv, Idle, NoTx, Exclusive
  <2>. QED  BY <2>1 DEF TxInv, CreateInv, ReadInv, AddInv, RemoveInv,
                        DeleteWorkspaceInv, DeleteUserInv
<1>3. call[s].resp = "pending"
  BY <1>2, StatementOfCall
<1>4. ~CreateInv(s)
  BY <1>1 DEF CreateInv, Exclusive, Roles, WorkspaceRow, OwnerRow
<1>5. LockInv(s) => tx[s].pc # "LockWorkspaceRow" /\ r.ws # call[s].ws /\ r \notin tx[s].held
  <2>1. CASE tx[s].pc = "LockWorkspaceRow"
    BY <2>1 DEF LockInv, Exclusive
  <2>2. CASE tx[s].pc # "LockWorkspaceRow"
    BY <1>1, <2>2 DEF LockInv, Exclusive, WorkspaceRow, Roles
  <2>. QED  BY <2>1, <2>2
<1>6. ~ReadInv(s) /\ ~AddInv(s)
  BY <1>5 DEF ReadInv, AddInv, LockInv, Exclusive, MemberRow
<1>7. ~RemoveInv(s) /\ ~DeleteWorkspaceInv(s)
  BY <1>5 DEF RemoveInv, DeleteWorkspaceInv, Exclusive, MemberRow
<1>8. call[s].op = "DeleteUser" /\ DeleteUserInv(s)
  BY <1>2, <1>3, <1>4, <1>6, <1>7 DEF TxInv
<1>9. r \in tx[s].gone
  BY <1>8 DEF DeleteUserInv, Exclusive, UserRow, Roles
<1>10. r.kind = "member" /\ r.user = call[s].user /\ UserRow(call[s].user) \in tx[s].gone
  BY <1>1, <1>8, <1>9 DEF DeleteUserInv, Exclusive, UserRow, Roles
<1>11. tx[s].pc = "Commit"
  BY <1>8, <1>10 DEF DeleteUserInv, UserRow, Roles
<1>. QED  BY <1>8, <1>9, <1>10, <1>11

\* Who is waited for has written or locked something.
LEMMA BlockersHold ==
    ASSUME IInv, KeyShares, NEW t \in Txs, NEW s \in Blockers(t)
    PROVE  s \in Txs \ {t} /\ tx[s].pc \notin {"none", "LockWorkspaceRow", "LockUserRow"}
<1>1. s \in Txs \ {t} /\ \E r : r \in Exclusive(s) \cup tx[s].shared
  <2>1. CASE tx[t].todo # {}
    BY <2>1 DEF Blockers, Lockers
  <2>2. CASE tx[t].todo = {}
    BY <2>2 DEF Blockers, StatementBlockers, LockWorkspaceBlockers, LockUserBlockers,
                AddOwnerBlockers, AddMemberBlockers, Lockers, Writers, KeyWriters
  <2>. QED  BY <2>1, <2>2
<1>. QED  BY <1>1, HoldersOfRows

\* A call that is past its first lock waits for deletions of accounts only, and
\* none of these waits for it.
LEMMA WaitsForDeletions ==
    ASSUME IInv, KeyShares, NEW t \in Txs, NEW s \in Blockers(t),
           call[t].op # "DeleteUser", tx[t].pc # "LockWorkspaceRow"
    PROVE  call[s].op = "DeleteUser" /\ t \notin Blockers(s)
<1>1. s \in Txs \ {t} /\ tx[s].pc \notin {"none", "LockWorkspaceRow", "LockUserRow"}
  BY BlockersHold
<1>2. /\ LockedApart(s, t) /\ LockedApart(t, s) /\ NewIdsUnknown(s, t)
      /\ WriteSetFits(t) /\ TxInv(t) /\ TxInv(s)
      /\ tx[t] \in TxRecords /\ tx[s] \in TxRecords
  BY <1>1 DEF IInv, LocksExclude, TypeOK
<1>3. ASSUME call[s].op = "DeleteUser", t \in Blockers(s)
      PROVE  /\ DeleteUserInv(s)
             /\ \E r \in tx[s].todo : r \in Exclusive(t) \cup tx[t].shared
  <2>1. DeleteUserInv(s)
    BY <1>1, <1>2, <1>3, StatementOfCall DEF TxInv
  <2>2. tx[s].todo # {}
    BY <1>1, <1>3, <2>1 DEF DeleteUserInv, Blockers, StatementBlockers
  <2>. QED  BY <1>3, <2>1, <2>2 DEF Blockers, Visitable, Lockers
<1>4. CASE tx[t].todo = {} /\ tx[t].pc = "AddWorkspaceOwner"
  <2>1. CreateInv(t) /\ tx[t].shared = {} /\ UserRow(call[t].actor) \in Exclusive(s)
    BY <1>4, StatementOfCall DEF KeyShares, Blockers, StatementBlockers, AddOwnerBlockers, Writers
  <2>2. call[s].op = "DeleteUser"
    BY <1>1, <2>1, HoldersOfRows DEF UserRow
  <2>3. PICK w \in Workspaces : Exclusive(t) = {WorkspaceRow(w)} /\ tx[t].puts = {WorkspaceRow(w)}
    BY <1>4, <2>1 DEF CreateInv, Exclusive
  <2>4. WorkspaceRow(w) \notin tx[s].todo
    BY <1>2, <2>3 DEF NewIdsUnknown, WorkspaceRow
  <2>. QED  BY <1>3, <2>1, <2>2, <2>3, <2>4
<1>5. CASE tx[t].todo = {} /\ tx[t].pc = "AddWorkspaceMember"
  <2> DEFINE w == call[t].ws
  <2>1. AddInv(t) /\ tx[t].shared = {} /\ call[t].user \in Users
    BY <1>5, StatementOfCall DEF KeyShares, AddInv
  <2>2. w \in Workspaces /\ tx[t].held = {WorkspaceRow(w)} /\ Exclusive(t) = {WorkspaceRow(w)}
    BY <1>5, <2>1 DEF AddInv, LockInv, Exclusive
  <2>3. \/ s \in KeyWriters(t, w, call[t].user)
        \/ Membership(db, w, call[t].user) = {} /\ UserRow(call[t].user) \in Exclusive(s)
    BY <1>5 DEF Blockers, StatementBlockers, AddMemberBlockers, Writers
  <2>4. CASE s \in KeyWriters(t, w, call[t].user)
    <3>1. PICK r \in Exclusive(s) : r.kind \in Roles /\ r.ws = w
      BY <2>4 DEF KeyWriters
    <3>2. call[s].op = "DeleteUser" /\ tx[s].pc = "Commit"
      BY <1>1, <2>2, <3>1, HoldersOfMembers
    <3>. QED  BY <1>3, <2>1, <2>2, <3>2 DEF DeleteUserInv, WorkspaceRow
  <2>5. CASE Membership(db, w, call[t].user) = {} /\ UserRow(call[t].user) \in Exclusive(s)
    <3>1. call[s].op = "DeleteUser" /\ call[s].user = call[t].user
      BY <1>1, <2>5, HoldersOfRows DEF UserRow
    <3>2. OwnerRow(w, call[t].user) \notin db
      BY <2>5 DEF Membership, MembersOf, OwnerRow, Roles
    <3>3. WorkspaceRow(w) \in db
      BY <1>2, <2>2 DEF WriteSetFits
    <3>4. DeleteUserInv(s) => WorkspaceRow(w) \notin tx[s].todo
      BY <3>1, <3>2, <3>3 DEF DeleteUserInv, WorkspaceRow, UserRow, Roles
    <3>. QED  BY <1>3, <2>1, <2>2, <3>1, <3>4
  <2>. QED  BY <2>3, <2>4, <2>5
<1>6. CASE tx[t].todo # {}
  <2> DEFINE w == call[t].ws
  <2>1. /\ RemoveInv(t) \/ DeleteWorkspaceInv(t)
        /\ call[t].op \in {"RemoveWorkspaceMember", "DeleteWorkspace"}
    BY <1>2, <1>6 DEF TxInv, Idle, NoTx, CreateInv, ReadInv, AddInv
  <2>2. /\ w \in Workspaces /\ tx[t].held = {WorkspaceRow(w)} /\ tx[t].puts = {}
        /\ \A r \in tx[t].gone \cup tx[t].todo : r.ws = w
    BY <2>1 DEF RemoveInv, DeleteWorkspaceInv, LockInv, MemberRow
  <2>3. tx[t].shared = {}
    BY <2>1 DEF KeyShares
  <2>4. PICK r \in tx[t].todo : r \in Exclusive(s) \cup tx[s].shared
    BY <1>6 DEF Blockers, Visitable, Lockers
  <2>5. \A q \in tx[t].gone \cup tx[t].todo :
           q.kind # "user" /\ (q.kind = "workspace" => q = WorkspaceRow(w))
           /\ (q.kind = "member" => q = MemberRow(w, q.user)) /\ (q.kind \notin Roles => q.kind = "workspace")
    <3> SUFFICES ASSUME NEW q \in tx[t].gone \cup tx[t].todo
                 PROVE  q.kind # "user" /\ (q.kind = "workspace" => q = WorkspaceRow(w))
                        /\ (q.kind = "member" => q = MemberRow(w, q.user)) /\ (q.kind \notin Roles => q.kind = "workspace")
      OBVIOUS
    <3>1. q \in Rows /\ q.ws = w
      BY <1>2, <2>2 DEF TxRecords
    <3>2. q.kind # "user"
      BY <2>2, <3>1, RowShapes, NoneIsNoId DEF UserRow
    <3>. QED  BY <3>1, <3>2, RowShapes DEF Roles
  <2>6. r.kind \in Roles /\ r \in Exclusive(s)
    <3>1. r.kind # "workspace"
      BY <1>2, <2>2, <2>4, <2>5 DEF LockedApart, Exclusive
    <3>. QED  BY <1>1, <2>4, <2>5, <3>1, HoldersOfRows
  <2>7. /\ call[s].op = "DeleteUser" /\ tx[s].pc = "Commit" /\ DeleteUserInv(s)
        /\ r.kind = "member" /\ r.user = call[s].user /\ r \in tx[s].gone
    BY <1>1, <2>2, <2>6, HoldersOfMembers
  <2>8. ASSUME NEW q \in tx[s].todo, q \in Exclusive(t) PROVE FALSE
    <3>1. q.kind # "workspace" /\ q \in tx[t].gone
      BY <2>2, <2>7, <2>8 DEF DeleteUserInv, Exclusive, WorkspaceRow
    <3>2. q.kind \in Roles /\ q.ws = w
      BY <2>2, <2>5, <3>1
    <3>3. WorkspaceRow(q.ws) \notin tx[s].gone
      BY <1>2, <2>2, <3>2 DEF LockedApart, Exclusive
    <3>4. q.kind = "member" /\ q.user = call[s].user
      BY <2>7, <3>2, <3>3 DEF DeleteUserInv, UserRow, Roles
    <3>5. q = r
      BY <2>5, <2>7, <3>1, <3>4
    <3>. QED  BY <1>2, <2>7, <3>1, <3>5 DEF LockedApart, Exclusive
  <2>. QED  BY <1>3, <2>3, <2>7, <2>8
<1>7. tx[t].todo = {} => tx[t].pc \in {"AddWorkspaceOwner", "AddWorkspaceMember"}
  <2>1. tx[t].pc # "LockUserRow"
    BY StatementOfCall
  <2>. QED  BY <2>1 DEF Blockers, StatementBlockers
<1>. QED  BY <1>4, <1>5, <1>6, <1>7

LEMMA SharesInvariant == Spec => []KeyShares
<1>1. Init => KeyShares
  BY DEF Init, KeyShares, NoTx
<1>. QED  BY <1>1, KeySharesStep, Invariance, PTL DEF Spec

\* Of any set of transactions that wait for each other, two delete accounts: the
\* lock on the workspace orders everything else (workspace/service.go:156).
THEOREM CirclesOfDeletions == Spec => []DeadlockTakesTwoAccountDeletions
<1>1. ASSUME IInv, KeyShares PROVE DeadlockTakesTwoAccountDeletions
  <2> SUFFICES ASSUME NEW S \in SUBSET Txs, S # {}, \A t \in S : Blockers(t) \cap S # {},
                      \A a, b \in S : call[a].op = "DeleteUser" /\ call[b].op = "DeleteUser" => a = b
               PROVE  FALSE
    BY DEF DeadlockTakesTwoAccountDeletions
  <2>1. \A t \in S : \E s \in S : s \in Blockers(t)
    OBVIOUS
  <2>2. \A t \in S : \A s \in S \cap Blockers(t) : s # t /\ tx[s].pc # "LockWorkspaceRow"
    BY <1>1, BlockersHold
  <2>3. PICK t \in S : call[t].op # "DeleteUser" /\ tx[t].pc # "LockWorkspaceRow"
    <3>1. PICK a \in S : tx[a].pc # "LockWorkspaceRow"
      BY <2>1, <2>2
    <3>2. PICK b \in S : b # a /\ tx[b].pc # "LockWorkspaceRow"
      BY <2>1, <2>2
    <3>. QED  BY <3>1, <3>2
  <2>4. PICK s \in S : s \in Blockers(t)
    BY <2>1
  <2>5. call[s].op = "DeleteUser" /\ t \notin Blockers(s)
    BY <1>1, <2>3, <2>4, WaitsForDeletions
  <2>6. PICK q \in S : q \in Blockers(s)
    BY <2>1
  <2>7. call[q].op # "DeleteUser" /\ tx[q].pc # "LockWorkspaceRow"
    BY <2>2, <2>5, <2>6
  <2>8. PICK p \in S : p \in Blockers(q)
    BY <2>1
  <2>9. call[p].op = "DeleteUser" /\ q \notin Blockers(p)
    BY <1>1, <2>7, <2>8, WaitsForDeletions
  <2>. QED  BY <2>5, <2>6, <2>9
<1>. QED  BY <1>1, SharesInvariant, Invariance, PTL

\* A transaction that nobody waits for is on no circle.
LEMMA NoCircleThrough ==
    ASSUME NEW t \in Txs, \A s \in Txs : t \notin Blockers(s)
    PROVE  ~Deadlocked(t)
<1>1. \A s \in Txs : Blockers(s) \subseteq Txs
  BY DEF Blockers, StatementBlockers, LockWorkspaceBlockers, LockUserBlockers,
         AddOwnerBlockers, AddMemberBlockers, Lockers, Writers, KeyWriters
<1>2. \A s \in Txs : Blockers(s) \subseteq Txs \ {t}
  BY <1>1
<1>3. Txs \ {t} \in SUBSET Txs
  OBVIOUS
<1>. HIDE DEF Deadlocked
<1>. QED  BY <1>2, <1>3 DEF Deadlocked

\* The workspace that a CreateWorkspace inserts is known to nobody, and a
\* ReadWorkspace waits with empty hands and never again.
LEMMA CreatesAndReadsNotDeadlocked ==
    ASSUME IInv, KeyShares, NEW t \in Txs, call[t].op \in {"CreateWorkspace", "ReadWorkspace"}
    PROVE  ~Deadlocked(t)
<1>1. Blockers(t) = {} => ~Deadlocked(t)
  BY DEF Deadlocked
<1>2. TxInv(t)
  BY DEF IInv
<1>3. CASE Blockers(t) # {} /\ call[t].op = "ReadWorkspace"
  <2>1. tx[t].todo = {} /\ (~Idle(t) => ReadInv(t))
    BY <1>2, <1>3 DEF TxInv, Idle, NoTx, ReadInv
  <2>2. tx[t].pc = "LockWorkspaceRow" /\ ReadInv(t)
    BY <1>3, <2>1 DEF Blockers, StatementBlockers, ReadInv, Idle, NoTx
  <2>3. \A s \in Txs : t \notin Blockers(s)
    BY <2>2, BlockersHold
  <2>. QED  BY <2>3, NoCircleThrough
<1>4. CASE Blockers(t) # {} /\ call[t].op = "CreateWorkspace"
  <2>1. tx[t].todo = {} /\ (~Idle(t) => CreateInv(t))
    BY <1>2, <1>4 DEF TxInv, Idle, NoTx, CreateInv
  <2>2. tx[t].pc = "AddWorkspaceOwner" /\ CreateInv(t)
    BY <1>4, <2>1 DEF Blockers, StatementBlockers, CreateInv, Idle, NoTx
  <2>3. PICK w \in Workspaces : Exclusive(t) = {WorkspaceRow(w)} /\ tx[t].puts = {WorkspaceRow(w)}
    BY <2>2 DEF CreateInv, Exclusive
  <2>4. tx[t].shared = {} /\ WorkspaceRow(w) \notin db
    BY <2>2, <2>3 DEF KeyShares, IInv, WriteSetFits
  <2>5. /\ WorkspaceRow(w).kind = "workspace" /\ \A u : UserRow(u) # WorkspaceRow(w)
        /\ \A r : WorkspaceRow(r.ws) = WorkspaceRow(w) <=> r.ws = w
    BY DEF WorkspaceRow, UserRow
  <2>6. ASSUME NEW s \in Txs, t \in Blockers(s) PROVE FALSE
    <3>1. CASE tx[s].todo # {}
      <4>1. WorkspaceRow(w) \in tx[s].todo
        BY <2>3, <2>4, <2>6, <3>1 DEF Blockers, Visitable, Lockers
      <4>2. WorkspaceRow(w).ws = w /\ NewIdsUnknown(s, t)
        BY DEF WorkspaceRow, IInv
      <4>. QED  BY <2>3, <4>1, <4>2 DEF NewIdsUnknown
    <3>2. CASE tx[s].todo = {}
      BY <2>3, <2>4, <2>5, <2>6, <3>2
         DEF Blockers, StatementBlockers, LockWorkspaceBlockers, LockUserBlockers,
             AddOwnerBlockers, AddMemberBlockers, Lockers, Writers, KeyWriters, Roles
    <3>. QED  BY <3>1, <3>2
  <2>. QED  BY <2>6, NoCircleThrough
<1>. QED  BY <1>1, <1>3, <1>4

\* No CreateWorkspace and no ReadWorkspace is ever the victim of a deadlock.
THEOREM CreatesAndReadsGoOn == Spec => []CreatesAndReadsNeverAborted
<1>1. IInv /\ KeyShares => CreatesAndReadsNeverAborted
  BY CreatesAndReadsNotDeadlocked DEF CreatesAndReadsNeverAborted
<1>. QED  BY <1>1, SharesInvariant, Invariance, PTL

-----------------------------------------------------------------------------
(* Somebody goes on. *)

\* Among sets of a finite set there is one that contains no smaller one of them.
LEMMA SmallestSet ==
    ASSUME NEW S, IsFiniteSet(S), NEW F \in SUBSET SUBSET S, F # {}
    PROVE  \E C \in F : \A D \in F : D \subseteq C => D = C
<1>1. IsWellFoundedOn(StrictSubsetOrdering(S), SUBSET S)
  BY FS_StrictSubsetOrderingWellFounded, FS_FiniteSubsetsOfFinite
<1>2. PICK C \in F : \A D \in F : <<D, C>> \notin StrictSubsetOrdering(S)
  <2>. HIDE DEF StrictSubsetOrdering
  <2>. QED  BY <1>1, WFMin
<1>. QED  BY <1>2 DEF StrictSubsetOrdering

\* Who is waited for is in the middle of a call.
LEMMA BlockersArePending ==
    ASSUME IInv, KeyShares, NEW t \in Txs, NEW s \in Blockers(t)
    PROVE  s \in Txs /\ call[s].resp = "pending"
BY BlockersHold DEF IInv, TxInv, Idle, NoTx

LEMMA SomebodyMoves == ASSUME IsFiniteSet(Txs), IInv, KeyShares PROVE NobodyStandsStill
<1>. SUFFICES ASSUME NEW S \in SUBSET Txs, \E t \in S : call[t].resp = "pending",
                     \A t \in S : Blockers(t) \subseteq S,
                     \A t \in S : call[t].resp = "pending" => Blockers(t) # {} /\ ~Deadlocked(t)
              PROVE  FALSE
  BY DEF NobodyStandsStill
<1>. DEFINE Closed(C) == \A t \in C : Blockers(t) \subseteq C
            Live(C) == \E t \in C : call[t].resp = "pending"
            F == {C \in SUBSET S : Closed(C) /\ Live(C)}
<1>1. PICK C \in F : \A D \in F : D \subseteq C => D = C
  <2>1. S \in F /\ IsFiniteSet(S)
    BY FS_Subset
  <2>. HIDE DEF F
  <2>2. F \in SUBSET SUBSET S
    BY DEF F
  <2>. QED  BY <2>1, <2>2, SmallestSet
<1>2. PICK t \in C : call[t].resp = "pending"
  BY <1>1
<1>3. PICK s \in Blockers(t) : s \in C /\ call[s].resp = "pending"
  BY <1>1, <1>2, BlockersArePending
\* The circle that t is not in is closed, and smaller.
<1>4. PICK D \in SUBSET Txs : Blockers(t) \subseteq D /\ Closed(D) /\ t \notin D
  BY <1>1, <1>2 DEF Deadlocked
<1>5. Closed(C \cap D) /\ Live(C \cap D)
  BY <1>1, <1>3, <1>4
<1>6. C \cap D \in F
  BY <1>1, <1>5
<1>. QED  BY <1>1, <1>2, <1>4, <1>6

\* However many calls wait for each other, one of them can go on or is aborted as the
\* victim of a deadlock: the locks alone never stop the server.
THEOREM SomebodyGoesOn ==
    ASSUME IsFiniteSet(Txs)
    PROVE  Spec => []NobodyStandsStill
<1>1. IInv /\ KeyShares => NobodyStandsStill
  BY SomebodyMoves
<1>. QED  BY <1>1, Invariance, SharesInvariant, PTL

-----------------------------------------------------------------------------
(* Transactions come to an end. *)

\* What a transaction has locked and inserted before the statements that overwrite it.
LEMMA BeforeWrites ==
    ASSUME IInv, KeyShares, NEW t \in Txs, tx[t].pc # "none"
    PROVE  /\ tx[t] \in TxRecords /\ tx \in [Txs -> TxRecords]
           /\ tx[t].pc # "Commit" => tx[t].shared = {}
           /\ tx[t].pc \in {"CreateWorkspace", "LockWorkspaceRow", "LockUserRow"} => tx[t].held = {}
           /\ tx[t].pc \in {"CreateWorkspace", "AddWorkspaceMember"} => tx[t].puts = {}
<1>1. tx[t].pc # "Commit" => tx[t].shared = {}
  BY DEF KeyShares
<1>2. /\ tx[t].pc \in {"CreateWorkspace", "LockWorkspaceRow", "LockUserRow"} => tx[t].held = {}
      /\ tx[t].pc \in {"CreateWorkspace", "AddWorkspaceMember"} => tx[t].puts = {}
  BY StatementOfCall DEF CreateInv, ReadInv, AddInv, RemoveInv, DeleteWorkspaceInv, LockInv,
                         DeleteUserInv
<1>. QED  BY <1>1, <1>2 DEF IInv, TypeOK

\* A visit deletes the row, which stood on the list and so was not yet deleted unless
\* a cascade came across it twice, or strikes it off.
LEMMA VisitAdvances ==
    ASSUME IInv, NEW t \in Txs, VisitRow(t)
    PROVE  Nearer(tx[t], tx'[t]) /\ Keeps(tx[t], tx'[t])
<1>1. PICK r \in tx[t].todo :
        LET rest == tx[t].todo \ {r}
            gone == tx[t].gone \cup {r}
        IN
        \/ r \in db /\ tx' = [tx EXCEPT ![t].gone = gone,
                                        ![t].todo = rest \cup (Referencing(db, r) \ gone)]
        \/ tx' = [tx EXCEPT ![t].todo = rest]
  BY DEF VisitRow, Visitable
<1>2. tx \in [Txs -> TxRecords] /\ tx[t] \in TxRecords
  BY DEF IInv, TypeOK
<1>3. r \in tx[t].gone => Referencing(db, r) \subseteq tx[t].gone \cup tx[t].todo
  BY DEF IInv, CascadeFollows
<1>4. /\ tx'[t].pc = tx[t].pc /\ tx'[t].held = tx[t].held
      /\ tx'[t].shared = tx[t].shared /\ tx'[t].puts = tx[t].puts
  BY <1>1, <1>2 DEF TxRecords
<1>5. CASE tx' = [tx EXCEPT ![t].todo = tx[t].todo \ {r}]
  <2>1. tx'[t].gone = tx[t].gone /\ tx'[t].todo = tx[t].todo \ {r}
    BY <1>2, <1>5
  <2>. QED  BY <1>1, <1>4, <2>1 DEF Nearer, Keeps
<1>6. CASE tx' = [tx EXCEPT ![t].gone = tx[t].gone \cup {r},
                            ![t].todo = (tx[t].todo \ {r})
                                        \cup (Referencing(db, r) \ (tx[t].gone \cup {r}))]
  <2>1. /\ tx'[t].gone = tx[t].gone \cup {r}
        /\ tx'[t].todo = (tx[t].todo \ {r}) \cup (Referencing(db, r) \ (tx[t].gone \cup {r}))
    BY <1>2, <1>6
  <2>2. CASE r \in tx[t].gone
    <3>1. tx'[t].gone = tx[t].gone
      BY <2>1, <2>2
    <3>2. tx'[t].todo \subseteq tx[t].todo /\ r \notin tx'[t].todo
      BY <1>3, <2>1, <2>2
    <3>. QED  BY <1>1, <1>4, <3>1, <3>2 DEF Nearer, Keeps
  <2>3. CASE r \notin tx[t].gone
    <3>1. tx[t].gone \subseteq tx'[t].gone /\ tx[t].gone # tx'[t].gone
      BY <2>1, <2>3
    <3>. QED  BY <1>4, <3>1 DEF Nearer, Keeps
  <2>. QED  BY <2>2, <2>3
<1>. QED  BY <1>1, <1>5, <1>6

LEMMA StepAdvances ==
    ASSUME IInv, KeyShares, NEW t \in Txs, Step(t) \/ Failure(t) \/ CommitLost(t),
           call'[t].resp = "pending"
    PROVE  Nearer(tx[t], tx'[t]) /\ Keeps(tx[t], tx'[t])
<1>1. \A resp : Answer(t, resp) => resp = "pending"
  BY DEF IInv, TypeOK, Answer, CallRecords
<1>2. call[t].resp # "pending" => tx[t].pc = "none" /\ tx[t].todo = {}
  BY DEF IInv, TxInv, Idle, NoTx
<1>3. CASE CreateWorkspace(t) \/ AddWorkspaceOwner(t)
  <2>1. tx[t].pc \in {"CreateWorkspace", "AddWorkspaceOwner"}
    BY <1>3 DEF CreateWorkspace, AddWorkspaceOwner, At
  <2>2. CASE CreateWorkspace(t)
    <3>1. PICK w : tx' = [tx EXCEPT ![t].pc = "AddWorkspaceOwner", ![t].puts = {WorkspaceRow(w)}]
      BY <2>2 DEF CreateWorkspace
    <3>2. tx[t].pc = "CreateWorkspace"
      BY <2>2 DEF CreateWorkspace, At
    <3>. QED  BY <2>1, <3>1, <3>2, BeforeWrites DEF Nearer, Keeps, Stage, TxRecords
  <2>3. CASE AddWorkspaceOwner(t)
    <3>1. \E P, u : tx' = [tx EXCEPT ![t].pc = "Commit", ![t].puts = @ \cup P, ![t].shared = {u}]
      BY <1>1, <2>3 DEF AddWorkspaceOwner, Refuse
    <3>2. tx[t].pc = "AddWorkspaceOwner"
      BY <2>3 DEF AddWorkspaceOwner, At
    <3>. QED  BY <2>1, <3>1, <3>2, BeforeWrites DEF Nearer, Keeps, Stage, TxRecords
  <2>. QED  BY <1>3, <2>2, <2>3
<1>4. CASE LockWorkspaceRow(t) \/ LockUserRow(t)
  BY <1>1, <1>4, BeforeWrites
     DEF LockWorkspaceRow, LockUserRow, AfterLock, At, Refuse, Nearer, Keeps, Stage, TxRecords
<1>5. CASE ListWorkspaceMembers(t)
  BY <1>1, <1>5, BeforeWrites
     DEF ListWorkspaceMembers, At, Refuse, Nearer, Keeps, Stage, TxRecords
<1>6. CASE SelectWorkspaceMember(t)
  <2>1. call[t].op \in {"AddWorkspaceMember", "RemoveWorkspaceMember", "DeleteWorkspace"}
    BY <1>6, StatementOfCall DEF SelectWorkspaceMember, At
  <2>. QED  BY <1>1, <1>6, <2>1, BeforeWrites
            DEF SelectWorkspaceMember, At, Refuse, Goto, Nearer, Keeps, Stage, TxRecords
<1>7. CASE AddWorkspaceMember(t)
  BY <1>1, <1>7, BeforeWrites
     DEF AddWorkspaceMember, At, Refuse, Nearer, Keeps, Stage, TxRecords
<1>8. CASE \/ RemoveWorkspaceMember(t) \/ DeleteWorkspace(t) \/ DeleteWorkspacesOwnedByUser(t)
           \/ DeleteUser(t)
  BY <1>8, BeforeWrites
     DEF RemoveWorkspaceMember, DeleteWorkspace, DeleteWorkspacesOwnedByUser, DeleteUser,
         StartDelete, At, Nearer, Keeps, Stage, TxRecords
<1>9. CASE VisitRow(t)
  BY <1>9, VisitAdvances
<1>10. CASE NothingRemoved(t)
  BY <1>1, <1>10 DEF NothingRemoved, RemovedNone, Refuse
<1>11. CASE Commit(t) \/ CommitAborted(t) \/ CommitLost(t)
  BY <1>1, <1>11 DEF Commit, CommitAborted, CommitLost, Refuse
<1>12. CASE DeadlockAbort(t) \/ Failure(t)
  <2>1. At(t, "AddWorkspaceOwner") /\ Goto(t, "CommitAborted")
    BY <1>1, <1>12 DEF DeadlockAbort, Failure, StatementFails, Refuse
  <2>. QED  BY <2>1, BeforeWrites DEF At, Goto, Nearer, Keeps, Stage, TxRecords
<1>. QED  BY <1>3, <1>4, <1>5, <1>6, <1>7, <1>8, <1>9, <1>10, <1>11, <1>12 DEF Step

\* A step of one transaction leaves the others' records alone.
LEMMA OthersUntouched ==
    ASSUME IInv, NEW s \in Txs, NEW t \in Txs, s # t,
           Arrive(s) \/ Return(s) \/ Step(s) \/ Failure(s) \/ CommitLost(s)
    PROVE  tx'[t] = tx[t]
<1>1. tx \in [Txs -> TxRecords]
  BY DEF IInv, TypeOK
<1>2. CASE Arrive(s) \/ Return(s)
  BY <1>1, <1>2 DEF Arrive, Return
<1>3. CASE CreateWorkspace(s) \/ AddWorkspaceOwner(s) \/ LockWorkspaceRow(s) \/ LockUserRow(s)
  BY <1>1, <1>3 DEF CreateWorkspace, AddWorkspaceOwner, LockWorkspaceRow, LockUserRow,
                    Refuse, Answer
<1>4. CASE ListWorkspaceMembers(s) \/ SelectWorkspaceMember(s) \/ AddWorkspaceMember(s)
  BY <1>1, <1>4 DEF ListWorkspaceMembers, SelectWorkspaceMember, AddWorkspaceMember, Goto,
                    Refuse, Answer
<1>5. CASE \/ RemoveWorkspaceMember(s) \/ DeleteWorkspace(s) \/ DeleteWorkspacesOwnedByUser(s)
           \/ DeleteUser(s)
  BY <1>1, <1>5 DEF RemoveWorkspaceMember, DeleteWorkspace, DeleteWorkspacesOwnedByUser,
                    DeleteUser, StartDelete
<1>6. CASE VisitRow(s)
  BY <1>1, <1>6 DEF VisitRow
<1>7. CASE NothingRemoved(s) \/ Commit(s) \/ CommitAborted(s) \/ CommitLost(s)
  BY <1>1, <1>7 DEF NothingRemoved, Commit, CommitAborted, CommitLost, Refuse, Answer
<1>8. CASE DeadlockAbort(s) \/ Failure(s)
  BY <1>1, <1>8 DEF DeadlockAbort, Failure, StatementFails, Goto, Refuse, Answer
<1>. QED  BY <1>2, <1>3, <1>4, <1>5, <1>6, <1>7, <1>8 DEF Step

\* Every step of a transaction brings it nearer to its end, and gives no lock and no
\* write back, whatever the others do.
THEOREM Advance == Spec => TransactionsAdvance
<1>. DEFINE Advances == \A t \in Txs :
              call[t].resp = "pending" /\ call'[t].resp = "pending" /\ tx'[t] # tx[t] =>
                  Nearer(tx[t], tx'[t]) /\ Keeps(tx[t], tx'[t])
<1>1. IInv /\ KeyShares /\ [Next]_vars => [Advances]_vars
  <2>. SUFFICES ASSUME IInv, KeyShares, Next, NEW t \in Txs,
                       call[t].resp = "pending", call'[t].resp = "pending", tx'[t] # tx[t]
                PROVE  Nearer(tx[t], tx'[t]) /\ Keeps(tx[t], tx'[t])
    OBVIOUS
  <2>1. PICK s \in Txs : Arrive(s) \/ Return(s) \/ Step(s) \/ Failure(s) \/ CommitLost(s)
    BY DEF Next
  <2>2. CASE s = t /\ (Step(s) \/ Failure(s) \/ CommitLost(s))
    BY <2>2, StepAdvances
  <2>3. CASE s = t /\ (Arrive(s) \/ Return(s))
    BY <2>3 DEF Arrive, Return, NoCall, Responses, Sentinels, Unexpected
  <2>4. CASE s # t
    BY <2>1, <2>4, OthersUntouched
  <2>. QED  BY <2>1, <2>2, <2>3, <2>4
<1>. QED  BY <1>1, Invariance, SharesInvariant, PTL DEF Spec, TransactionsAdvance
=============================================================================
