--------------------------- MODULE Directory_proofs ---------------------------
(***************************************************************************)
(* WorkspaceTxns implements Directory: each statement maps to the one      *)
(* moment of its call or to nothing at all.                                *)
(***************************************************************************)
EXTENDS WorkspaceTxns_proofs

\* What Directory and WorkspaceTxns have in common.
LEMMA SameRows ==
    /\ \A u : Abstract!UserRow(u) = UserRow(u)
    /\ \A w : Abstract!WorkspaceRow(w) = WorkspaceRow(w)
    /\ \A w, u : Abstract!OwnerRow(w, u) = OwnerRow(w, u) /\ Abstract!MemberRow(w, u) = MemberRow(w, u)
    /\ \A S, w, u : Abstract!Membership(S, w, u) = Membership(S, w, u)
    /\ \A S, u : Abstract!OwnedWorkspaces(S, u) = OwnedWorkspaces(S, u)
    /\ \A S, r : Abstract!Referencing(S, r) = Referencing(S, r)
BY DEF Abstract!UserRow, UserRow, Abstract!WorkspaceRow, WorkspaceRow,
       Abstract!OwnerRow, OwnerRow, Abstract!MemberRow, MemberRow,
       Abstract!Membership, Membership, Abstract!MembersOf, MembersOf, Abstract!Roles, Roles,
       Abstract!OwnedWorkspaces, OwnedWorkspaces, Abstract!Referencing, Referencing

LEMMA SameRequests ==
    /\ Abstract!NoCall = NoCall /\ Abstract!Responses = Responses /\ Abstract!Requests = Requests
    /\ \A r : Abstract!Received(r) = Received(r)
BY DEF Abstract!NoCall, NoCall, Abstract!Responses, Responses, Abstract!Requests, Requests,
       Abstract!Received, Received, Abstract!Sentinels, Sentinels, Abstract!Unexpected, Unexpected

\* A read that is granted stands before its commit.
Granted(t) == call[t].op = "ReadWorkspace" /\ tx[t].pc = "Commit"

LEMMA AbstractCalls ==
    ASSUME IInv, NEW t \in Txs
    PROVE  /\ AbstractCall[t].op = call[t].op /\ AbstractCall[t].actor = call[t].actor
           /\ AbstractCall[t].ws = call[t].ws /\ AbstractCall[t].user = call[t].user
           /\ AbstractCall[t].resp = IF Granted(t) THEN "granted" ELSE call[t].resp
           /\ ~Granted(t) => AbstractCall[t] = call[t]
<1>1. call[t] \in CallRecords
  BY DEF IInv, TypeOK
<1>. QED  BY <1>1 DEF AbstractCall, Granted, CallRecords

\* The calls of the others map to what they did before.
LEMMA OtherCalls ==
    ASSUME IInv, NEW t \in Txs, NEW c,
           \A s \in Txs \ {t} : tx'[s] = tx[s] /\ call'[s] = call[s],
           AbstractCall'[t] = c
    PROVE  AbstractCall' = [AbstractCall EXCEPT ![t] = c]
<1>1. \A s \in Txs \ {t} : AbstractCall'[s] = AbstractCall[s]
  BY DEF AbstractCall
<1>2. AbstractCall = [s \in Txs |-> AbstractCall[s]] /\ AbstractCall' = [s \in Txs |-> AbstractCall'[s]]
  BY DEF AbstractCall
<1>. HIDE DEF AbstractCall
<1>. QED  BY <1>1, <1>2

\* An answer is the answer of the abstract call.
LEMMA AnswerMaps ==
    ASSUME IInv, NEW t \in Txs, NEW resp, Answer(t, resp)
    PROVE  Abstract!Answer(t, resp)
<1>1. /\ call \in [Txs -> CallRecords] /\ tx \in [Txs -> TxRecords]
      /\ NoTx.pc = "none"
  BY DEF IInv, TypeOK, NoTx
<1>2. /\ tx'[t] = NoTx /\ call'[t] = [call[t] EXCEPT !.resp = resp]
      /\ \A s \in Txs \ {t} : tx'[s] = tx[s] /\ call'[s] = call[s]
  BY <1>1 DEF Answer
<1>3. AbstractCall'[t] = [call[t] EXCEPT !.resp = resp]
  BY <1>1, <1>2 DEF AbstractCall
<1>4. [AbstractCall[t] EXCEPT !.resp = resp] = [call[t] EXCEPT !.resp = resp]
  <2>1. call[t] \in CallRecords
    BY <1>1
  <2>2. AbstractCall[t] = call[t] \/ AbstractCall[t] = [call[t] EXCEPT !.resp = "granted"]
    BY DEF AbstractCall
  <2>. QED  BY <2>1, <2>2 DEF CallRecords
<1>5. AbstractCall' = [AbstractCall EXCEPT ![t] = [AbstractCall[t] EXCEPT !.resp = resp]]
  BY <1>2, <1>3, <1>4, OtherCalls
<1>. QED  BY <1>5 DEF Abstract!Answer

LEMMA RefuseMaps ==
    ASSUME IInv, NEW t \in Txs, NEW resp, Refuse(t, resp)
    PROVE  Abstract!Refuse(t, resp)
BY AnswerMaps DEF Refuse, Abstract!Refuse

\* A statement that answers nothing, of any call but a read, is no abstract step.
LEMMA QuietMaps ==
    ASSUME IInv, NEW t \in Txs, db' = db, call' = call,
           \A s \in Txs \ {t} : tx'[s] = tx[s],
           Granted(t)' <=> Granted(t)
    PROVE  UNCHANGED Abstract!vars
<1>1. AbstractCall'[t] = AbstractCall[t]
  BY DEF AbstractCall, Granted
<1>2. AbstractCall' = [AbstractCall EXCEPT ![t] = AbstractCall[t]]
  BY <1>1, OtherCalls
<1>3. [AbstractCall EXCEPT ![t] = AbstractCall[t]] = AbstractCall
  BY DEF AbstractCall
<1>. QED  BY <1>2, <1>3 DEF Abstract!vars

\* A call at a statement before its commit is pending in Directory too.
LEMMA PendingAt ==
    ASSUME IInv, NEW t \in Txs, tx[t].pc # "none", ~Granted(t)
    PROVE  Abstract!Pending(t, call[t].op) /\ AbstractCall[t] = call[t]
BY AbstractCalls, StatementOfCall DEF Abstract!Pending

-----------------------------------------------------------------------------
LEMMA RequestsMap ==
    ASSUME IInv, NEW t \in Txs, Arrive(t) \/ Return(t)
    PROVE  Abstract!Arrive(t) \/ Abstract!Return(t)
<1>1. /\ call \in [Txs -> CallRecords] /\ tx \in [Txs -> TxRecords] /\ TxInv(t)
      /\ NoTx.pc = "none" /\ NoCall.op = "none" /\ NoCall.resp = "none"
  BY DEF IInv, TypeOK, NoTx, NoCall
<1>2. call[t].resp # "pending" => ~Granted(t)
  BY <1>1 DEF TxInv, Idle, Granted
<1>3. CASE Arrive(t)
  <2>1. PICK r \in Requests :
           /\ UserRow(r.actor) \in db /\ call' = [call EXCEPT ![t] = Received(r)]
           /\ tx' = [tx EXCEPT ![t].pc = IF Received(r).resp = "pending" THEN First(r.op) ELSE "none"]
    BY <1>3 DEF Arrive
  <2>2. tx'[t].pc # "Commit" /\ call'[t] = Received(r)
        /\ \A s \in Txs \ {t} : tx'[s] = tx[s] /\ call'[s] = call[s]
    BY <1>1, <2>1 DEF First, TxRecords
  <2>3. AbstractCall'[t] = Received(r)
    BY <2>2 DEF AbstractCall
  <2>4. AbstractCall' = [AbstractCall EXCEPT ![t] = Received(r)]
    BY <2>2, <2>3, OtherCalls
  <2>5. AbstractCall[t] = NoCall /\ db' = db
    BY <1>1, <1>2, <1>3, AbstractCalls DEF Arrive
  <2>. QED  BY <2>1, <2>4, <2>5, SameRows, SameRequests DEF Abstract!Arrive
<1>4. CASE Return(t)
  <2>1. /\ call'[t] = NoCall /\ tx' = tx /\ db' = db /\ call[t].resp \in Responses
        /\ \A s \in Txs \ {t} : call'[s] = call[s]
    BY <1>1, <1>4 DEF Return
  <2>2. AbstractCall'[t] = NoCall
    BY <1>1, <2>1 DEF AbstractCall
  <2>3. AbstractCall' = [AbstractCall EXCEPT ![t] = NoCall]
    BY <2>1, <2>2, OtherCalls
  <2>4. call[t].resp # "pending"
    BY <2>1 DEF Responses, Sentinels, Unexpected
  <2>5. AbstractCall[t].resp \in Responses
    BY <1>2, <2>1, <2>4, AbstractCalls
  <2>. QED  BY <2>1, <2>3, <2>5, SameRequests DEF Abstract!Return
<1>. QED  BY <1>3, <1>4

LEMMA CreatesMap ==
    ASSUME IInv, NEW t \in Txs, CreateWorkspace(t) \/ AddWorkspaceOwner(t)
    PROVE  Abstract!CreateWorkspace(t) \/ UNCHANGED Abstract!vars
<1>1. tx[t].pc \in {"CreateWorkspace", "AddWorkspaceOwner"}
  BY DEF CreateWorkspace, AddWorkspaceOwner, At
<1>2. call[t].op = "CreateWorkspace" /\ ~Granted(t)
  BY <1>1, StatementOfCall DEF Granted
<1>3. Abstract!Pending(t, "CreateWorkspace") /\ AbstractCall[t] = call[t]
  BY <1>1, <1>2, PendingAt
<1>4. CASE UserRow(call[t].actor) \notin db /\ Refuse(t, "ErrOwnerKey")
  BY <1>3, <1>4, RefuseMaps, SameRows DEF Abstract!CreateWorkspace
<1>5. CASE UNCHANGED <<db, call>> /\ \A s \in Txs \ {t} : tx'[s] = tx[s]
  BY <1>2, <1>5, QuietMaps DEF Granted
<1>6. CASE CreateWorkspace(t)
  BY <1>5, <1>6 DEF CreateWorkspace, IInv, TypeOK
<1>7. CASE AddWorkspaceOwner(t)
  BY <1>4, <1>5, <1>7 DEF AddWorkspaceOwner, IInv, TypeOK
<1>. QED  BY <1>6, <1>7

LEMMA LockWorkspaceMaps ==
    ASSUME IInv, NEW t \in Txs, LockWorkspaceRow(t)
    PROVE  Abstract!Next \/ UNCHANGED Abstract!vars
<1>1. tx[t].pc = "LockWorkspaceRow" /\ ~Granted(t)
  BY DEF LockWorkspaceRow, At, Granted
<1>2. Abstract!Pending(t, call[t].op) /\ AbstractCall[t] = call[t]
  BY <1>1, PendingAt
<1>3. call[t].op \in {"ReadWorkspace", "AddWorkspaceMember", "RemoveWorkspaceMember", "DeleteWorkspace"}
  BY <1>1, StatementOfCall
<1>4. CASE WorkspaceRow(call[t].ws) \notin db /\ Refuse(t, "ErrWorkspaceNotFound")
  <2>1. ~Abstract!Exists(t) /\ Abstract!Refuse(t, "ErrWorkspaceNotFound")
    BY <1>2, <1>4, RefuseMaps, SameRows DEF Abstract!Exists
  <2>2. \/ Abstract!ReadWorkspace(t) \/ Abstract!AddWorkspaceMember(t)
        \/ Abstract!RemoveWorkspaceMember(t) \/ Abstract!DeleteWorkspace(t)
    BY <1>2, <1>3, <2>1 DEF Abstract!ReadWorkspace, Abstract!AddWorkspaceMember,
                            Abstract!RemoveWorkspaceMember, Abstract!DeleteWorkspace
  <2>. QED  BY <2>2 DEF Abstract!Next
<1>5. CASE /\ tx' = [tx EXCEPT ![t].pc = AfterLock(call[t].op), ![t].held = {WorkspaceRow(call[t].ws)}]
           /\ UNCHANGED <<db, call>>
  <2>1. \A s \in Txs \ {t} : tx'[s] = tx[s]
    BY <1>5 DEF IInv, TypeOK
  <2>2. tx'[t].pc # "Commit"
    BY <1>5 DEF IInv, TypeOK, TxRecords, AfterLock
  <2>. QED  BY <1>1, <1>5, <2>1, <2>2, QuietMaps DEF Granted
<1>. QED  BY <1>4, <1>5 DEF LockWorkspaceRow

LEMMA ReadsMap ==
    ASSUME IInv, NEW t \in Txs, ListWorkspaceMembers(t)
    PROVE  Abstract!ReadWorkspace(t)
<1>. DEFINE w == call[t].ws
            u == call[t].actor
<1>1. tx[t].pc = "ListWorkspaceMembers" /\ ~Granted(t)
  BY DEF ListWorkspaceMembers, At, Granted
<1>2. call[t].op = "ReadWorkspace" /\ ReadInv(t)
  BY <1>1, StatementOfCall
<1>3. Abstract!Pending(t, "ReadWorkspace") /\ AbstractCall[t] = call[t]
  BY <1>1, <1>2, PendingAt
<1>4. Abstract!Exists(t)
  BY <1>1, <1>2, <1>3, SameRows DEF ReadInv, LockInv, IInv, WriteSetFits, Abstract!Exists
<1>5. CASE (\A m \in MembersOf(db, w) : m.user # u) /\ Refuse(t, "ErrForbidden")
  <2>1. Membership(db, w, u) = {}
    BY <1>5 DEF Membership
  <2>. QED  BY <1>3, <1>4, <1>5, <2>1, RefuseMaps, SameRows DEF Abstract!ReadWorkspace
<1>6. CASE /\ \E m \in MembersOf(db, w) : m.user = u
           /\ tx' = [tx EXCEPT ![t].pc = "Commit", ![t].seen = MembersOf(db, w)]
           /\ UNCHANGED <<db, call>>
  <2>1. Membership(db, w, u) # {}
    BY <1>6 DEF Membership
  <2>2. /\ tx'[t].pc = "Commit" /\ call' = call /\ db' = db
        /\ \A s \in Txs \ {t} : tx'[s] = tx[s]
    BY <1>6 DEF IInv, TypeOK, TxRecords
  <2>3. AbstractCall'[t] = [AbstractCall[t] EXCEPT !.resp = "granted"]
    BY <1>2, <1>3, <2>2 DEF AbstractCall
  <2>4. AbstractCall' = [AbstractCall EXCEPT ![t] = [AbstractCall[t] EXCEPT !.resp = "granted"]]
    BY <2>2, <2>3, OtherCalls
  <2>. QED  BY <1>3, <2>1, <2>2, <2>4, SameRows DEF Abstract!ReadWorkspace, Abstract!Answer
<1>. QED  BY <1>5, <1>6 DEF ListWorkspaceMembers

LEMMA SelectMaps ==
    ASSUME IInv, NEW t \in Txs, SelectWorkspaceMember(t)
    PROVE  Abstract!Next \/ UNCHANGED Abstract!vars
<1>1. tx[t].pc = "SelectWorkspaceMember" /\ ~Granted(t)
  BY DEF SelectWorkspaceMember, At, Granted
<1>2. /\ call[t].op \in {"AddWorkspaceMember", "RemoveWorkspaceMember", "DeleteWorkspace"}
      /\ LockInv(t)
  BY <1>1, StatementOfCall DEF AddInv, RemoveInv, DeleteWorkspaceInv
<1>3. Abstract!Pending(t, call[t].op) /\ AbstractCall[t] = call[t]
  BY <1>1, PendingAt
<1>4. Abstract!Exists(t)
  BY <1>1, <1>2, <1>3, SameRows DEF LockInv, IInv, WriteSetFits, Abstract!Exists
<1>5. Abstract!IsOwner(t) <=> OwnerRow(call[t].ws, call[t].actor) \in db
  BY <1>3, SameRows DEF Abstract!IsOwner
<1>6. CASE ~Abstract!IsOwner(t) /\ Refuse(t, "ErrForbidden")
  <2>1. Abstract!Refuse(t, "ErrForbidden")
    BY <1>6, RefuseMaps
  <2>2. \/ Abstract!AddWorkspaceMember(t) \/ Abstract!RemoveWorkspaceMember(t)
        \/ Abstract!DeleteWorkspace(t)
    BY <1>2, <1>3, <1>4, <1>6, <2>1
       DEF Abstract!AddWorkspaceMember, Abstract!RemoveWorkspaceMember, Abstract!DeleteWorkspace
  <2>. QED  BY <2>2 DEF Abstract!Next
<1>7. CASE /\ Abstract!IsOwner(t) /\ call[t].op = "RemoveWorkspaceMember"
           /\ call[t].user = call[t].actor /\ Refuse(t, "ErrOwnerRemoval")
  <2>1. Abstract!RemoveWorkspaceMember(t)
    BY <1>3, <1>7, RefuseMaps DEF Abstract!RemoveWorkspaceMember
  <2>. QED  BY <2>1 DEF Abstract!Next
<1>8. CASE Goto(t, call[t].op)
  <2>1. \A s \in Txs \ {t} : tx'[s] = tx[s]
    BY <1>8 DEF Goto, IInv, TypeOK
  <2>2. call[t].op # "ReadWorkspace" /\ db' = db /\ call' = call
    BY <1>2, <1>8 DEF Goto
  <2>. QED  BY <2>1, <2>2, QuietMaps DEF Granted
<1>. QED  BY <1>5, <1>6, <1>7, <1>8 DEF SelectWorkspaceMember

LEMMA AddsMap ==
    ASSUME IInv, NEW t \in Txs, AddWorkspaceMember(t)
    PROVE  Abstract!AddWorkspaceMember(t) \/ UNCHANGED Abstract!vars
<1>1. tx[t].pc = "AddWorkspaceMember"
  BY DEF AddWorkspaceMember, At
<1>2. call[t].op = "AddWorkspaceMember" /\ AddInv(t) /\ ~Granted(t)
  BY <1>1, StatementOfCall DEF Granted
<1>3. Abstract!Pending(t, "AddWorkspaceMember") /\ AbstractCall[t] = call[t]
  BY <1>1, <1>2, PendingAt
<1>4. Abstract!IsOwner(t)
  BY <1>1, <1>2, <1>3, SameRows DEF AddInv, LockInv, Abstract!IsOwner
<1>5. CASE Membership(db, call[t].ws, call[t].user) # {} /\ Refuse(t, "ErrAlreadyMember")
  BY <1>3, <1>4, <1>5, RefuseMaps, SameRows DEF Abstract!AddWorkspaceMember
<1>6. CASE UserRow(call[t].user) \notin db /\ Refuse(t, "ErrUserNotFound")
  BY <1>3, <1>4, <1>6, RefuseMaps, SameRows DEF Abstract!AddWorkspaceMember
<1>7. CASE UNCHANGED <<db, call>> /\ \A s \in Txs \ {t} : tx'[s] = tx[s]
  BY <1>2, <1>7, QuietMaps DEF Granted
<1>. QED  BY <1>5, <1>6, <1>7 DEF AddWorkspaceMember, IInv, TypeOK

\* The statements of the deletions, but for the answers they end in.
LEMMA DeletesMap ==
    ASSUME IInv, NEW t \in Txs,
           \/ RemoveWorkspaceMember(t) \/ DeleteWorkspace(t) \/ DeleteWorkspacesOwnedByUser(t)
           \/ DeleteUser(t) \/ VisitRow(t)
    PROVE  UNCHANGED Abstract!vars
<1>1. call[t].op # "ReadWorkspace"
  <2>1. CASE VisitRow(t)
    BY <2>1, DeletingTx DEF VisitRow, Visitable
  <2>2. CASE ~VisitRow(t)
    BY <2>2, StatementOfCall DEF RemoveWorkspaceMember, DeleteWorkspace,
                                 DeleteWorkspacesOwnedByUser, DeleteUser, At
  <2>. QED  BY <2>1, <2>2
<1>2. UNCHANGED <<db, call>> /\ \A s \in Txs \ {t} : tx'[s] = tx[s]
  BY DEF RemoveWorkspaceMember, DeleteWorkspace, DeleteWorkspacesOwnedByUser, DeleteUser,
         StartDelete, VisitRow, IInv, TypeOK
<1>. QED  BY <1>1, <1>2, QuietMaps DEF Granted

LEMMA LockUserMaps ==
    ASSUME IInv, NEW t \in Txs, LockUserRow(t)
    PROVE  Abstract!DeleteUser(t) \/ UNCHANGED Abstract!vars
<1>1. tx[t].pc = "LockUserRow"
  BY DEF LockUserRow, At
<1>2. call[t].op = "DeleteUser" /\ ~Granted(t)
  BY <1>1, StatementOfCall DEF Granted
<1>3. Abstract!Pending(t, "DeleteUser") /\ AbstractCall[t] = call[t]
  BY <1>1, <1>2, PendingAt
<1>4. CASE UserRow(call[t].user) \notin db /\ Refuse(t, "ErrNotFound")
  BY <1>3, <1>4, RefuseMaps, SameRows DEF Abstract!DeleteUser
<1>5. CASE UNCHANGED <<db, call>> /\ \A s \in Txs \ {t} : tx'[s] = tx[s]
  BY <1>2, <1>5, QuietMaps DEF Granted
<1>. QED  BY <1>4, <1>5 DEF LockUserRow, IInv, TypeOK

-----------------------------------------------------------------------------
(* Answers of a commit, and of a statement that fails. *)

LEMMA NothingRemovedMaps ==
    ASSUME IInv, NEW t \in Txs, NothingRemoved(t)
    PROVE  Abstract!RemoveWorkspaceMember(t)
<1>. DEFINE w == call[t].ws
            u == call[t].user
<1>1. tx[t].pc = "Commit" /\ tx[t].todo = {} /\ RemovedNone(t) /\ TxInv(t) /\ ~Idle(t)
  BY DEF NothingRemoved, At, IInv, Idle, NoTx
<1>2. call[t].op \notin {"DeleteWorkspace", "DeleteUser"}
  BY <1>1 DEF TxInv, DeleteWorkspaceInv, DeleteUserInv, RemovedNone, Target
<1>3. call[t].op = "RemoveWorkspaceMember" /\ RemoveInv(t)
  BY <1>1, <1>2 DEF RemovedNone, TxInv
<1>4. Membership(db, w, u) = {}
  <2>1. tx[t].gone \subseteq {MemberRow(w, u)} /\ MemberRow(w, u) \notin tx[t].gone
    BY <1>1, <1>3 DEF RemoveInv, RemovedNone, Target
  <2>. QED  BY <1>1, <1>3, <2>1 DEF RemoveInv
<1>5. Abstract!Pending(t, "RemoveWorkspaceMember") /\ AbstractCall[t] = call[t]
  BY <1>1, <1>3, PendingAt DEF Granted
<1>6. Abstract!IsOwner(t) /\ u # call[t].actor
  BY <1>1, <1>3, <1>5, SameRows DEF RemoveInv, LockInv, Abstract!IsOwner
<1>7. Refuse(t, "ErrWorkspaceMemberNotFound")
  BY <1>3 DEF NothingRemoved
<1>. QED  BY <1>4, <1>5, <1>6, <1>7, RefuseMaps, SameRows DEF Abstract!RemoveWorkspaceMember

\* What a DeleteWorkspace and a DeleteUser have deleted when they commit is what
\* Directory deletes at once.
LEMMA WholeWorkspaceGone ==
    ASSUME IInv, NEW t \in Txs, At(t, "Commit"), DeleteWorkspaceInv(t)
    PROVE  LET w == WorkspaceRow(call[t].ws)
           IN  tx[t].gone = {w} \cup Referencing(db, w)
<1>. DEFINE w == WorkspaceRow(call[t].ws)
<1>1. tx[t].pc = "Commit" /\ tx[t].todo = {} /\ call[t].ws \in Workspaces
  BY DEF At, DeleteWorkspaceInv, LockInv
<1>2. {w} \cup Referencing(db, w) \subseteq tx[t].gone
  BY <1>1 DEF DeleteWorkspaceInv, IInv, CascadeFollows
<1>3. ASSUME NEW r \in tx[t].gone PROVE r \in {w} \cup Referencing(db, w)
  <2>1. r \in db /\ r \in Rows /\ r.ws = call[t].ws
    BY DEF IInv, TypeOK, WriteSetFits, DeleteWorkspaceInv
  <2>2. r.kind # "user"
    BY <1>1, <2>1, RowShapes, NoneIsNoId DEF UserRow
  <2>. QED  BY <2>1, <2>2, RowShapes DEF Referencing, Roles
<1>. QED  BY <1>2, <1>3

LEMMA WholeAccountGone ==
    ASSUME IInv, NEW t \in Txs, At(t, "Commit"), DeleteUserInv(t)
    PROVE  LET R == {UserRow(call[t].user)} \cup OwnedWorkspaces(db, call[t].user)
           IN  tx[t].gone = R \cup UNION {Referencing(db, r) : r \in R}
<1>. DEFINE u == call[t].user
            R == {UserRow(u)} \cup OwnedWorkspaces(db, u)
<1>1. tx[t].pc = "Commit" /\ tx[t].todo = {} /\ u \in Users
  BY DEF At, DeleteUserInv
<1>2. tx[t].gone \subseteq db /\ db \subseteq Rows
  BY DEF IInv, TypeOK, WriteSetFits
<1>3. R \subseteq tx[t].gone
  <2>1. UserRow(u) \in tx[t].gone
    BY <1>1 DEF DeleteUserInv
  <2>2. ASSUME NEW r \in OwnedWorkspaces(db, u) PROVE r \in tx[t].gone
    <3>1. r \in Rows /\ r.kind = "workspace" /\ OwnerRow(r.ws, u) \in db
      BY <1>2 DEF OwnedWorkspaces
    <3>2. r.ws \in Workspaces /\ r = WorkspaceRow(r.ws)
      BY <3>1, RowShapes
    <3>. QED  BY <1>1, <3>1, <3>2 DEF DeleteUserInv
  <2>. QED  BY <2>1, <2>2
<1>4. \A r \in R : Referencing(db, r) \subseteq tx[t].gone
  BY <1>1, <1>3 DEF IInv, CascadeFollows
<1>5. \A r \in tx[t].gone : r.kind = "workspace" => r \in R
  BY <1>2 DEF DeleteUserInv, OwnedWorkspaces, UserRow, Roles
<1>6. ASSUME NEW r \in tx[t].gone PROVE r \in R \/ \E q \in R : r \in Referencing(db, q)
  <2>1. \/ r = UserRow(u)
        \/ r.kind = "workspace"
        \/ r.kind \in Roles /\ WorkspaceRow(r.ws) \in tx[t].gone
        \/ r.kind = "member" /\ r.user = u
    BY DEF DeleteUserInv
  <2>2. CASE r.kind \in Roles /\ WorkspaceRow(r.ws) \in tx[t].gone
    <3>1. WorkspaceRow(r.ws) \in R /\ r \in Referencing(db, WorkspaceRow(r.ws))
      BY <1>2, <1>5, <2>2 DEF WorkspaceRow, Referencing
    <3>. QED  BY <3>1
  <2>3. CASE r.kind = "member" /\ r.user = u
    BY <1>2, <2>3 DEF Referencing, Roles
  <2>. QED  BY <1>5, <2>1, <2>2, <2>3
<1>. QED  BY <1>3, <1>4, <1>6

LEMMA CommitMaps ==
    ASSUME IInv, NEW t \in Txs, Commit(t) \/ CommitLost(t)
    PROVE  Abstract!Next
<1>. DEFINE w == call[t].ws
            u == call[t].user
            gone == tx[t].gone
            puts == tx[t].puts
<1>1. /\ At(t, "Commit") /\ tx[t].pc = "Commit" /\ tx[t].todo = {}
      /\ ~RemovedNone(t) /\ TxInv(t) /\ ~Idle(t)
  BY DEF Commit, CommitLost, At, IInv, Idle, NoTx
<1>2. db' = (db \ gone) \cup puts
  BY DEF Commit, CommitLost, Apply
<1>3. \A S : db' = S => Abstract!Succeed(t, S)
  BY AnswerMaps DEF Commit, CommitLost, Abstract!Succeed
<1>4. /\ AbstractCall[t].op = call[t].op /\ AbstractCall[t].actor = call[t].actor
      /\ AbstractCall[t].ws = w /\ AbstractCall[t].user = u
      /\ IF call[t].op = "ReadWorkspace" THEN AbstractCall[t].resp = "granted"
                                         ELSE Abstract!Pending(t, call[t].op)
  BY <1>1, AbstractCalls, PendingAt DEF Granted
<1>5. gone \subseteq db /\ tx[t].held \subseteq db /\ tx[t].shared \subseteq db
  BY DEF IInv, WriteSetFits
<1>. HIDE DEF gone, puts
<1>6. CASE call[t].op = "CreateWorkspace"
  <2>1. CreateInv(t) /\ gone = {} /\ UserRow(call[t].actor) \in db
    BY <1>1, <1>5, <1>6 DEF TxInv, CreateInv, gone
  <2>2. PICK v \in Workspaces : puts = {WorkspaceRow(v), OwnerRow(v, call[t].actor)}
    BY <1>1, <2>1 DEF CreateInv, puts
  <2>3. \A r \in db : r.ws # v
    BY <2>2, NewIdsHaveNoRows DEF puts
  <2>4. db' = db \cup {WorkspaceRow(v), OwnerRow(v, call[t].actor)}
    BY <1>2, <2>1, <2>2
  <2>5. Abstract!CreateWorkspace(t)
    BY <1>3, <1>4, <1>6, <2>1, <2>3, <2>4, SameRows DEF Abstract!CreateWorkspace
  <2>. QED  BY <2>5 DEF Abstract!Next
<1>7. CASE call[t].op = "ReadWorkspace"
  <2>1. gone = {} /\ puts = {}
    BY <1>1, <1>7 DEF TxInv, ReadInv, gone, puts
  <2>2. Abstract!AnswerRead(t)
    BY <1>2, <1>3, <1>4, <1>7, <2>1 DEF Abstract!AnswerRead
  <2>. QED  BY <2>2 DEF Abstract!Next
<1>8. CASE call[t].op \in {"AddWorkspaceMember", "RemoveWorkspaceMember", "DeleteWorkspace"}
  <2>1. LockInv(t)
    BY <1>1, <1>8 DEF TxInv, AddInv, RemoveInv, DeleteWorkspaceInv
  <2>2. Abstract!IsOwner(t)
    BY <1>1, <1>4, <1>8, <2>1, SameRows DEF LockInv, Abstract!IsOwner
  <2>3. CASE call[t].op = "AddWorkspaceMember"
    <3>1. /\ gone = {} /\ puts = {MemberRow(w, u)} /\ UserRow(u) \in db
          /\ Membership(db, w, u) = {}
      BY <1>1, <1>5, <2>3 DEF TxInv, AddInv, gone, puts
    <3>2. Abstract!Succeed(t, db \cup {MemberRow(w, u)})
      BY <1>2, <1>3, <3>1
    <3>3. Abstract!AddWorkspaceMember(t)
      BY <1>4, <2>2, <2>3, <3>1, <3>2, SameRows DEF Abstract!AddWorkspaceMember
    <3>. QED  BY <3>3 DEF Abstract!Next
  <2>4. CASE call[t].op = "RemoveWorkspaceMember"
    <3>1. /\ puts = {} /\ gone \subseteq {MemberRow(w, u)} /\ gone # {}
          /\ u # call[t].actor
      BY <1>1, <2>4 DEF TxInv, RemoveInv, RemovedNone, Target, gone, puts
    <3>2. Membership(db, w, u) # {}
      BY <1>5, <3>1 DEF Membership, MembersOf, MemberRow, Roles
    <3>3. Abstract!Succeed(t, db \ {MemberRow(w, u)})
      BY <1>2, <1>3, <3>1
    <3>4. Abstract!RemoveWorkspaceMember(t)
      BY <1>4, <2>2, <2>4, <3>1, <3>2, <3>3, SameRows DEF Abstract!RemoveWorkspaceMember
    <3>. QED  BY <3>4 DEF Abstract!Next
  <2>5. CASE call[t].op = "DeleteWorkspace"
    <3>1. DeleteWorkspaceInv(t) /\ puts = {}
      BY <1>1, <2>5 DEF TxInv, DeleteWorkspaceInv, puts
    <3>2. gone = {WorkspaceRow(w)} \cup Referencing(db, WorkspaceRow(w))
      BY <1>1, <3>1, WholeWorkspaceGone DEF gone
    <3>3. Abstract!Succeed(t, db \ ({WorkspaceRow(w)} \cup Referencing(db, WorkspaceRow(w))))
      BY <1>2, <1>3, <3>1, <3>2
    <3>4. Abstract!DeleteWorkspace(t)
      BY <1>4, <2>2, <2>5, <3>3, SameRows DEF Abstract!DeleteWorkspace
    <3>. QED  BY <3>4 DEF Abstract!Next
  <2>. QED  BY <1>8, <2>3, <2>4, <2>5
<1>9. CASE call[t].op = "DeleteUser"
  <2>. DEFINE R == {UserRow(u)} \cup OwnedWorkspaces(db, u)
              S == R \cup UNION {Referencing(db, r) : r \in R}
  <2>1. DeleteUserInv(t) /\ puts = {} /\ UserRow(u) \in db
    BY <1>1, <1>5, <1>9 DEF TxInv, DeleteUserInv, puts
  <2>2. gone = S
    BY <1>1, <2>1, WholeAccountGone DEF gone
  <2>3. Abstract!Succeed(t, db \ S)
    BY <1>2, <1>3, <2>1, <2>2
  <2>4. Abstract!DeleteUser(t)
    BY <1>4, <1>9, <2>1, <2>3, SameRows DEF Abstract!DeleteUser
  <2>. QED  BY <2>4 DEF Abstract!Next
<1>. QED  BY <1>1, <1>6, <1>7, <1>8, <1>9 DEF TxInv

LEMMA FailMaps ==
    ASSUME IInv, NEW t \in Txs, tx[t].pc # "none", ~Granted(t),
           NEW resp, Refuse(t, resp), resp = "ErrDeadlock" \/ (Faults /\ resp = "ErrInternal")
    PROVE  Abstract!Fail(t)
BY PendingAt, RefuseMaps DEF Abstract!Fail, Abstract!Pending

\* A CreateWorkspace whose insert failed would go on to a commit without faults
\* only after a deadlock, of which it is never the victim.
AbortsNeedFaults == \A t \in Txs : tx[t].pc = "CommitAborted" => Faults

LEMMA FailuresMap ==
    ASSUME IInv, KeyShares, AbortsNeedFaults, NEW t \in Txs,
           DeadlockAbort(t) \/ Failure(t) \/ CommitAborted(t)
    PROVE  Abstract!Next \/ UNCHANGED Abstract!vars
<1>1. tx[t].pc # "none"
  BY DEF DeadlockAbort, Failure, CommitAborted, StatementFails, At, IInv, TxInv,
         CreateInv, ReadInv, AddInv, RemoveInv, DeleteWorkspaceInv, DeleteUserInv
<1>2. CASE CommitAborted(t)
  <2>1. Refuse(t, "ErrInternal") /\ Faults /\ ~Granted(t)
    BY <1>2 DEF CommitAborted, At, AbortsNeedFaults, Granted
  <2>. QED  BY <1>1, <2>1, FailMaps DEF Abstract!Next
<1>3. CASE DeadlockAbort(t)
  <2>1. call[t].op \notin {"CreateWorkspace", "ReadWorkspace"}
    BY <1>3, CreatesAndReadsNotDeadlocked DEF DeadlockAbort
  <2>2. ~At(t, "AddWorkspaceOwner") /\ ~Granted(t)
    BY <1>1, <2>1, StatementOfCall DEF At, Granted
  <2>3. Refuse(t, "ErrDeadlock")
    BY <1>3, <2>2 DEF DeadlockAbort, StatementFails
  <2>. QED  BY <1>1, <2>2, <2>3, FailMaps DEF Abstract!Next
<1>4. CASE Failure(t) /\ At(t, "AddWorkspaceOwner")
  <2>1. Goto(t, "CommitAborted") /\ call[t].op = "CreateWorkspace"
    BY <1>1, <1>4, StatementOfCall DEF Failure, StatementFails, At
  <2>2. UNCHANGED <<db, call>> /\ \A s \in Txs \ {t} : tx'[s] = tx[s]
    BY <2>1 DEF Goto, IInv, TypeOK
  <2>. QED  BY <2>1, <2>2, QuietMaps DEF Granted
<1>5. CASE Failure(t) /\ ~At(t, "AddWorkspaceOwner")
  <2>1. Refuse(t, "ErrInternal") /\ Faults
    BY <1>5 DEF Failure, StatementFails
  <2>2. CASE Granted(t)
    <3>1. Abstract!AnswerRead(t)
      BY <2>1, <2>2, AbstractCalls, RefuseMaps
         DEF Abstract!AnswerRead, Abstract!Succeed, Abstract!Refuse
    <3>. QED  BY <3>1 DEF Abstract!Next
  <2>. QED  BY <1>1, <2>1, <2>2, FailMaps DEF Abstract!Next
<1>. QED  BY <1>2, <1>3, <1>4, <1>5

LEMMA AbortsNeedFaultsStep ==
    ASSUME IInv, KeyShares, AbortsNeedFaults, [Next]_vars
    PROVE  AbortsNeedFaults'
<1>. SUFFICES ASSUME NEW t \in Txs, tx'[t].pc = "CommitAborted" PROVE Faults
  BY DEF AbortsNeedFaults
<1>1. CASE tx[t].pc = "CommitAborted"
  BY <1>1 DEF AbortsNeedFaults
<1>2. CASE tx[t].pc # "CommitAborted"
  <2>1. Failure(t) \/ DeadlockAbort(t)
    <3>1. PICK s \in Txs : Arrive(s) \/ Return(s) \/ Step(s) \/ Failure(s) \/ CommitLost(s)
      BY <1>2 DEF Next, vars
    <3>2. tx \in [Txs -> TxRecords] /\ NoTx.pc = "none"
      BY DEF IInv, TypeOK, NoTx
    <3>3. ASSUME NEW resp, Answer(s, resp) PROVE FALSE
      BY <1>2, <3>2, <3>3 DEF Answer
    <3>4. ~Arrive(s) /\ ~Return(s)
      BY <1>2, <3>2 DEF Arrive, Return, First, TxRecords
    <3>5. ~CreateWorkspace(s) /\ ~AddWorkspaceOwner(s)
      BY <1>2, <3>2, <3>3 DEF CreateWorkspace, AddWorkspaceOwner, Refuse, TxRecords
    <3>6. ~LockWorkspaceRow(s) /\ ~ListWorkspaceMembers(s) /\ ~LockUserRow(s)
      BY <1>2, <3>2, <3>3 DEF LockWorkspaceRow, AfterLock, ListWorkspaceMembers, LockUserRow,
                             Refuse, TxRecords
    <3>7. ~SelectWorkspaceMember(s)
      <4>1. SelectWorkspaceMember(s) => call[s].op # "CommitAborted"
        BY StatementOfCall DEF SelectWorkspaceMember, At
      <4>. QED  BY <1>2, <3>2, <3>3, <4>1 DEF SelectWorkspaceMember, Goto, Refuse, TxRecords
    <3>8. ~AddWorkspaceMember(s)
      BY <1>2, <3>2, <3>3 DEF AddWorkspaceMember, Refuse, TxRecords
    <3>9. ~RemoveWorkspaceMember(s) /\ ~DeleteWorkspace(s) /\ ~DeleteUser(s)
          /\ ~DeleteWorkspacesOwnedByUser(s)
      BY <1>2, <3>2 DEF RemoveWorkspaceMember, DeleteWorkspace, DeleteUser,
                        DeleteWorkspacesOwnedByUser, StartDelete, TxRecords
    <3>10. ~VisitRow(s)
      <4>1. CASE s = t
        <5>1. VisitRow(s) => tx'[t].pc = tx[t].pc
          BY <3>2, <4>1 DEF VisitRow, TxRecords
        <5>. QED  BY <1>2, <5>1
      <4>2. CASE s # t
        BY <1>2, <3>2, <4>2 DEF VisitRow
      <4>. QED  BY <4>1, <4>2
    <3>11. ~NothingRemoved(s) /\ ~Commit(s) /\ ~CommitAborted(s) /\ ~CommitLost(s)
      BY <3>3 DEF NothingRemoved, Commit, CommitAborted, CommitLost, Refuse
    <3>12. s = t
      BY <1>2, <3>1, <3>2, <3>3, <3>4, <3>5, <3>6, <3>7, <3>8, <3>9, <3>10, <3>11
         DEF Step, DeadlockAbort, Failure, StatementFails, Goto, Refuse
    <3>. QED  BY <3>1, <3>4, <3>5, <3>6, <3>7, <3>8, <3>9, <3>10, <3>11, <3>12 DEF Step
  <2>2. CASE DeadlockAbort(t)
    <3>1. call[t].op # "CreateWorkspace"
      BY <2>2, CreatesAndReadsNotDeadlocked DEF DeadlockAbort
    <3>2. ~At(t, "AddWorkspaceOwner")
      BY <3>1, StatementOfCall DEF At
    <3>3. tx' = [tx EXCEPT ![t] = NoTx] /\ NoTx.pc = "none"
      BY <2>2, <3>2 DEF DeadlockAbort, StatementFails, Refuse, Answer, NoTx
    <3>. QED  BY <3>3 DEF IInv, TypeOK
  <2>. QED  BY <2>1, <2>2 DEF Failure
<1>. QED  BY <1>1, <1>2

\* WorkspaceTxns implements Directory: every call behaves as if it had run alone at
\* one moment, whatever runs beside it, fails or loses its answer.
THEOREM Linearizes == Spec => LinearizesToDirectory
<1>1. Init => Abstract!Init /\ AbortsNeedFaults
  <2>. SUFFICES ASSUME Init PROVE Abstract!Init /\ AbortsNeedFaults
    OBVIOUS
  <2>1. AbstractCall = [t \in Txs |-> NoCall]
    BY DEF Init, AbstractCall, NoCall
  <2>2. db = {Abstract!UserRow(u) : u \in Users}
    BY SameRows DEF Init
  <2>3. AbortsNeedFaults
    BY DEF Init, AbortsNeedFaults, NoTx
  <2>. QED  BY <2>1, <2>2, <2>3, SameRequests DEF Abstract!Init
<1>2. ASSUME IInv, KeyShares, AbortsNeedFaults, [Next]_vars
      PROVE  [Abstract!Next]_(Abstract!vars)
  <2>1. CASE UNCHANGED vars
    BY <2>1 DEF vars, AbstractCall, Abstract!vars
  <2>2. ASSUME NEW t \in Txs, Arrive(t) \/ Return(t) \/ Step(t) \/ Failure(t) \/ CommitLost(t)
        PROVE  Abstract!Next \/ UNCHANGED Abstract!vars
    <3>1. CASE Arrive(t) \/ Return(t)
      BY <1>2, <3>1, RequestsMap DEF Abstract!Next
    <3>2. CASE CreateWorkspace(t) \/ AddWorkspaceOwner(t)
      BY <1>2, <3>2, CreatesMap DEF Abstract!Next
    <3>3. CASE LockWorkspaceRow(t)
      BY <1>2, <3>3, LockWorkspaceMaps
    <3>4. CASE ListWorkspaceMembers(t)
      BY <1>2, <3>4, ReadsMap DEF Abstract!Next
    <3>5. CASE SelectWorkspaceMember(t)
      BY <1>2, <3>5, SelectMaps
    <3>6. CASE AddWorkspaceMember(t)
      BY <1>2, <3>6, AddsMap DEF Abstract!Next
    <3>7. CASE \/ RemoveWorkspaceMember(t) \/ DeleteWorkspace(t)
               \/ DeleteWorkspacesOwnedByUser(t) \/ DeleteUser(t) \/ VisitRow(t)
      BY <1>2, <3>7, DeletesMap
    <3>8. CASE LockUserRow(t)
      BY <1>2, <3>8, LockUserMaps DEF Abstract!Next
    <3>9. CASE NothingRemoved(t)
      BY <1>2, <3>9, NothingRemovedMaps DEF Abstract!Next
    <3>10. CASE Commit(t) \/ CommitLost(t)
      BY <1>2, <3>10, CommitMaps
    <3>11. CASE DeadlockAbort(t) \/ Failure(t) \/ CommitAborted(t)
      BY <1>2, <3>11, FailuresMap
    <3>. QED  BY <2>2, <3>1, <3>2, <3>3, <3>4, <3>5, <3>6, <3>7, <3>8, <3>9, <3>10, <3>11 DEF Step
  <2>. QED  BY <1>2, <2>1, <2>2 DEF Next
<1>3. Spec => []AbortsNeedFaults
  BY <1>1, AbortsNeedFaultsStep, SharesInvariant, Invariance, PTL DEF Spec
<1>. QED  BY <1>1, <1>2, <1>3, SharesInvariant, Invariance, PTL
          DEF Spec, LinearizesToDirectory, Abstract!Spec

-----------------------------------------------------------------------------
(* Directory on its own keeps the database whole. *)

\* A new workspace comes with its owner.
LEMMA ConsistentCreate ==
    ASSUME NEW S \in SUBSET Rows, Consistent(S), NEW w \in Workspaces, NEW u \in Users,
           UserRow(u) \in S, \A r \in S : r.ws # w
    PROVE  Consistent(S \cup {WorkspaceRow(w), OwnerRow(w, u)})
<1>. DEFINE T == S \cup {WorkspaceRow(w), OwnerRow(w, u)}
<1>1. /\ \A v : WorkspaceRow(v).kind = "workspace" /\ WorkspaceRow(v).ws = v
      /\ \A v, x : OwnerRow(v, x).kind = "owner" /\ OwnerRow(v, x).ws = v /\ OwnerRow(v, x).user = x
  BY DEF WorkspaceRow, OwnerRow
<1>2. ForeignKeysHold(T)
  BY <1>1 DEF Consistent, ForeignKeysHold, Roles
<1>3. MembershipKeysUnique(T)
  BY <1>1 DEF Consistent, MembershipKeysUnique, Roles
<1>4. AtMostOneOwner(T)
  BY <1>1 DEF Consistent, AtMostOneOwner
<1>5. EveryWorkspaceHasOwner(T)
  BY <1>1 DEF Consistent, EveryWorkspaceHasOwner
<1>. QED  BY <1>2, <1>3, <1>4, <1>5 DEF Consistent

\* A new member is none yet, of a workspace that exists.
LEMMA ConsistentAdd ==
    ASSUME NEW S \in SUBSET Rows, Consistent(S), NEW w \in Workspaces, NEW u \in Users,
           WorkspaceRow(w) \in S, UserRow(u) \in S, Membership(S, w, u) = {}
    PROVE  Consistent(S \cup {MemberRow(w, u)})
<1>. DEFINE T == S \cup {MemberRow(w, u)}
<1>1. /\ MemberRow(w, u).kind = "member" /\ MemberRow(w, u).ws = w /\ MemberRow(w, u).user = u
      /\ \A v : WorkspaceRow(v).kind = "workspace"
      /\ \A v, x : OwnerRow(v, x).kind = "owner"
  BY DEF MemberRow, WorkspaceRow, OwnerRow
<1>2. ForeignKeysHold(T)
  BY <1>1 DEF Consistent, ForeignKeysHold
<1>3. MembershipKeysUnique(T)
  BY <1>1 DEF Consistent, MembershipKeysUnique, Membership, MembersOf
<1>4. AtMostOneOwner(T)
  BY <1>1 DEF Consistent, AtMostOneOwner
<1>5. EveryWorkspaceHasOwner(T)
  BY <1>1 DEF Consistent, EveryWorkspaceHasOwner
<1>. QED  BY <1>2, <1>3, <1>4, <1>5 DEF Consistent

\* Rows go with what refers to them, and an owner with the workspace.
LEMMA ConsistentDelete ==
    ASSUME NEW S \in SUBSET Rows, Consistent(S), NEW G,
           \A r \in G : Referencing(S, r) \subseteq G,
           \A w \in Workspaces, u \in Users : OwnerRow(w, u) \in S \cap G => WorkspaceRow(w) \in G
    PROVE  Consistent(S \ G)
<1>1. ForeignKeysHold(S \ G)
  BY DEF Consistent, ForeignKeysHold, Referencing
<1>2. MembershipKeysUnique(S \ G) /\ AtMostOneOwner(S \ G)
  BY DEF Consistent, MembershipKeysUnique, AtMostOneOwner
<1>3. EveryWorkspaceHasOwner(S \ G)
  BY DEF Consistent, EveryWorkspaceHasOwner
<1>. QED  BY <1>1, <1>2, <1>3 DEF Consistent

\* Memberships are referred to by nothing.
LEMMA NothingRefersToMembers ==
    ASSUME NEW S, NEW r, r.kind \in Roles
    PROVE  Referencing(S, r) = {}
BY DEF Referencing, Roles, WorkspaceRow, UserRow

\* The calls of Directory, which name what their operation needs.
WellFormed(c) ==
    /\ c.op # "none" => c.actor \in Users
    /\ c.op \in {"ReadWorkspace", "AddWorkspaceMember", "RemoveWorkspaceMember", "DeleteWorkspace"} =>
          c.ws \in Workspaces
    /\ c.op \in {"AddWorkspaceMember", "RemoveWorkspaceMember", "DeleteUser"} => c.user \in Users
SerialCalls ==
    [op    : Ops \cup {"none"},
     actor : Users \cup {None},
     ws    : Workspaces \cup {None},
     user  : Users \cup {None},
     resp  : Responses \cup {"none", "pending", "granted"}]

DirectoryInv ==
    /\ db \subseteq Rows
    /\ Consistent(db)
    /\ AbstractCall \in [Txs -> SerialCalls]
    /\ \A t \in Txs : WellFormed(AbstractCall[t])

\* An answer changes nothing else about the call.
LEMMA AnswersFit ==
    ASSUME DirectoryInv, NEW t \in Txs, NEW resp \in Responses \cup {"granted"},
           Abstract!Answer(t, resp)
    PROVE  AbstractCall' \in [Txs -> SerialCalls] /\ \A s \in Txs : WellFormed(AbstractCall'[s])
<1>1. AbstractCall' = [AbstractCall EXCEPT ![t].resp = resp]
  BY DEF Abstract!Answer
<1>2. AbstractCall \in [Txs -> SerialCalls] /\ \A s \in Txs : WellFormed(AbstractCall[s])
  BY DEF DirectoryInv
<1>3. AbstractCall' \in [Txs -> SerialCalls]
  BY <1>1, <1>2 DEF SerialCalls
<1>4. ASSUME NEW s \in Txs PROVE WellFormed(AbstractCall'[s])
  BY <1>1, <1>2 DEF SerialCalls, WellFormed
<1>. QED  BY <1>3, <1>4

\* What a success changes the database to.
LEMMA SucceedFits ==
    ASSUME DirectoryInv, NEW t \in Txs, NEW S \in SUBSET Rows, Consistent(S),
           Abstract!Succeed(t, S)
    PROVE  DirectoryInv'
<1>1. PICK resp \in {"ok", "ErrInternal"} : Abstract!Answer(t, resp)
  BY DEF Abstract!Succeed
<1>2. resp \in Responses \cup {"granted"}
  BY DEF Responses, Unexpected
<1>3. AbstractCall' \in [Txs -> SerialCalls] /\ \A s \in Txs : WellFormed(AbstractCall'[s])
  BY <1>1, <1>2, AnswersFit
<1>4. db' = S
  BY DEF Abstract!Succeed
<1>5. Consistent(db')
  BY <1>4
<1>. QED  BY <1>3, <1>4, <1>5 DEF DirectoryInv

LEMMA RefuseFits ==
    ASSUME DirectoryInv, NEW t \in Txs, NEW resp \in Responses \cup {"granted"},
           Abstract!Answer(t, resp), UNCHANGED db
    PROVE  DirectoryInv'
<1>1. AbstractCall' \in [Txs -> SerialCalls] /\ \A s \in Txs : WellFormed(AbstractCall'[s])
  BY AnswersFit
<1>. QED  BY <1>1 DEF DirectoryInv

LEMMA RequestFits ==
    ASSUME DirectoryInv, NEW t \in Txs, Abstract!Arrive(t) \/ Abstract!Return(t)
    PROVE  DirectoryInv'
<1>1. AbstractCall \in [Txs -> SerialCalls] /\ db' = db
  BY DEF DirectoryInv, Abstract!Arrive, Abstract!Return
<1>2. PICK c \in SerialCalls : AbstractCall' = [AbstractCall EXCEPT ![t] = c] /\ WellFormed(c)
  <2>1. CASE Abstract!Arrive(t)
    <3>1. PICK r \in Requests : AbstractCall' = [AbstractCall EXCEPT ![t] = Received(r)]
      BY <2>1, SameRequests DEF Abstract!Arrive
    <3>2. Received(r) \in SerialCalls
      BY DEF Received, Requests, SerialCalls, Responses, Sentinels
    <3>3. WellFormed(Received(r))
      BY NoneIsNoId DEF Received, Requests, WellFormed
    <3>. QED  BY <3>1, <3>2, <3>3
  <2>2. CASE Abstract!Return(t)
    <3>1. AbstractCall' = [AbstractCall EXCEPT ![t] = NoCall]
      BY <2>2, SameRequests DEF Abstract!Return
    <3>2. NoCall \in SerialCalls /\ WellFormed(NoCall)
      BY DEF NoCall, SerialCalls, WellFormed
    <3>. QED  BY <3>1, <3>2
  <2>. QED  BY <2>1, <2>2
<1>3. AbstractCall' \in [Txs -> SerialCalls] /\ \A s \in Txs : WellFormed(AbstractCall'[s])
  BY <1>1, <1>2 DEF DirectoryInv
<1>. QED  BY <1>1, <1>3 DEF DirectoryInv

\* The operations that add rows, or change none.
LEMMA AdditionFits ==
    ASSUME DirectoryInv, NEW t \in Txs,
           \/ Abstract!CreateWorkspace(t) \/ Abstract!ReadWorkspace(t) \/ Abstract!AnswerRead(t)
           \/ Abstract!AddWorkspaceMember(t)
    PROVE  DirectoryInv'
<1>. DEFINE c == AbstractCall[t]
<1>1. /\ db \subseteq Rows /\ Consistent(db) /\ WellFormed(c)
      /\ {"ok", "ErrOwnerKey", "ErrWorkspaceNotFound", "ErrForbidden", "ErrAlreadyMember",
          "ErrUserNotFound", "granted"} \subseteq Responses \cup {"granted"}
  BY DEF DirectoryInv, Responses, Sentinels, Unexpected
<1>2. \A resp \in Responses \cup {"granted"} : Abstract!Refuse(t, resp) => DirectoryInv'
  BY RefuseFits DEF Abstract!Refuse
<1>3. CASE Abstract!CreateWorkspace(t)
  <2>1. CASE Abstract!Refuse(t, "ErrOwnerKey")
    BY <1>1, <1>2, <2>1
  <2>2. CASE ~Abstract!Refuse(t, "ErrOwnerKey")
    <3>1. PICK w \in Workspaces :
            /\ UserRow(c.actor) \in db /\ c.op = "CreateWorkspace"
            /\ \A r \in db : r.ws # w
            /\ Abstract!Succeed(t, db \cup {WorkspaceRow(w), OwnerRow(w, c.actor)})
      BY <1>3, <2>2, SameRows DEF Abstract!CreateWorkspace, Abstract!Pending
    <3>2. c.actor \in Users
      BY <1>1, <3>1 DEF WellFormed
    <3>3. Consistent(db \cup {WorkspaceRow(w), OwnerRow(w, c.actor)})
      BY <1>1, <3>1, <3>2, ConsistentCreate
    <3>4. db \cup {WorkspaceRow(w), OwnerRow(w, c.actor)} \in SUBSET Rows
      BY <1>1, <3>2, RowTypes
    <3>. QED  BY <3>1, <3>3, <3>4, SucceedFits
  <2>. QED  BY <2>1, <2>2
<1>4. CASE Abstract!ReadWorkspace(t)
  BY <1>1, <1>2, <1>4, RefuseFits DEF Abstract!ReadWorkspace
<1>5. CASE Abstract!AnswerRead(t)
  BY <1>1, <1>5, SucceedFits DEF Abstract!AnswerRead
<1>6. CASE Abstract!AddWorkspaceMember(t)
  <2>1. \/ \E resp \in Responses : Abstract!Refuse(t, resp)
        \/ /\ OwnerRow(c.ws, c.actor) \in db /\ Membership(db, c.ws, c.user) = {}
           /\ UserRow(c.user) \in db
           /\ Abstract!Succeed(t, db \cup {MemberRow(c.ws, c.user)})
    BY <1>1, <1>6, SameRows DEF Abstract!AddWorkspaceMember, Abstract!IsOwner
  <2>2. CASE Abstract!Succeed(t, db \cup {MemberRow(c.ws, c.user)})
             /\ OwnerRow(c.ws, c.actor) \in db /\ Membership(db, c.ws, c.user) = {}
             /\ UserRow(c.user) \in db
    <3>1. c.ws \in Workspaces /\ c.user \in Users
      BY <1>1, <1>6 DEF Abstract!AddWorkspaceMember, Abstract!Pending, WellFormed
    <3>2. WorkspaceRow(c.ws) \in db
      BY <1>1, <2>2 DEF Consistent, ForeignKeysHold, OwnerRow, Roles
    <3>3. Consistent(db \cup {MemberRow(c.ws, c.user)})
      BY <1>1, <2>2, <3>1, <3>2, ConsistentAdd
    <3>4. db \cup {MemberRow(c.ws, c.user)} \in SUBSET Rows
      BY <1>1, <3>1, RowTypes
    <3>. QED  BY <2>2, <3>3, <3>4, SucceedFits
  <2>. QED  BY <1>2, <2>1, <2>2
<1>. QED  BY <1>3, <1>4, <1>5, <1>6

\* The rows that DeleteUser takes along.
LEMMA AccountGoes ==
    ASSUME NEW S \in SUBSET Rows, Consistent(S), NEW u \in Users
    PROVE  LET R == {UserRow(u)} \cup OwnedWorkspaces(S, u) IN
           Consistent(S \ (R \cup UNION {Referencing(S, r) : r \in R}))
<1>. DEFINE R == {UserRow(u)} \cup OwnedWorkspaces(S, u)
            G == R \cup UNION {Referencing(S, r) : r \in R}
<1>1. ASSUME NEW r \in G PROVE Referencing(S, r) \subseteq G
  <2>1. CASE r \in R
    BY <2>1
  <2>2. CASE r \notin R
    <3>1. r.kind \in Roles
      BY <1>1, <2>2 DEF Referencing
    <3>. QED  BY <3>1, NothingRefersToMembers
  <2>. QED  BY <2>1, <2>2
<1>2. ASSUME NEW w \in Workspaces, NEW v \in Users, OwnerRow(w, v) \in S \cap G
      PROVE  WorkspaceRow(w) \in G
  <2>1. /\ OwnerRow(w, v).kind = "owner" /\ OwnerRow(w, v).ws = w /\ OwnerRow(w, v).user = v
        /\ WorkspaceRow(w).kind = "workspace" /\ WorkspaceRow(w).ws = w
        /\ UserRow(u).kind = "user" /\ UserRow(v).kind = "user"
        /\ \A x \in Users : UserRow(x).user = x
    BY DEF OwnerRow, WorkspaceRow, UserRow
  <2>2. WorkspaceRow(w) \in S
    BY <1>2, <2>1 DEF Consistent, ForeignKeysHold, Roles
  <2>3. OwnerRow(w, v) \notin R
    BY <2>1 DEF OwnedWorkspaces
  <2>4. PICK r \in R : OwnerRow(w, v) \in Referencing(S, r)
    BY <1>2, <2>3
  <2>5. r = WorkspaceRow(w) \/ r = UserRow(v)
    BY <2>1, <2>4 DEF Referencing
  <2>6. CASE r = UserRow(v)
    <3>1. r = UserRow(u)
      BY <2>1, <2>6 DEF OwnedWorkspaces
    <3>2. v = u
      BY <2>1, <2>6, <3>1
    <3>. QED  BY <1>2, <2>1, <2>2, <3>2 DEF OwnedWorkspaces
  <2>. QED  BY <2>5, <2>6
<1>. HIDE DEF G
<1>3. Consistent(S \ G)
  BY <1>1, <1>2, ConsistentDelete
<1>. QED  BY <1>3 DEF G

\* The operations that delete rows.
LEMMA DeletionFits ==
    ASSUME DirectoryInv, NEW t \in Txs,
           \/ Abstract!RemoveWorkspaceMember(t) \/ Abstract!DeleteWorkspace(t)
           \/ Abstract!DeleteUser(t)
    PROVE  DirectoryInv'
<1>. DEFINE c == AbstractCall[t]
<1>1. /\ db \subseteq Rows /\ Consistent(db) /\ WellFormed(c)
      /\ {"ErrWorkspaceNotFound", "ErrForbidden", "ErrOwnerRemoval",
          "ErrWorkspaceMemberNotFound", "ErrNotFound"} \subseteq Responses
  BY DEF DirectoryInv, Responses, Sentinels
<1>2. \A resp \in Responses : Abstract!Refuse(t, resp) => DirectoryInv'
  BY RefuseFits DEF Abstract!Refuse
<1>3. CASE Abstract!RemoveWorkspaceMember(t)
  <2>. DEFINE m == MemberRow(c.ws, c.user)
  <2>1. m.kind = "member" /\ \A w, u : OwnerRow(w, u).kind = "owner"
    BY DEF MemberRow, OwnerRow
  <2>2. (\E resp \in Responses : Abstract!Refuse(t, resp)) \/ Abstract!Succeed(t, db \ {m})
    BY <1>1, <1>3, SameRows DEF Abstract!RemoveWorkspaceMember
  <2>3. Referencing(db, m) = {}
    BY <2>1, NothingRefersToMembers DEF Roles
  <2>4. \A r \in {m} : Referencing(db, r) \subseteq {m}
    BY <2>3
  <2>5. \A w \in Workspaces, u \in Users : OwnerRow(w, u) \in db \cap {m} => WorkspaceRow(w) \in {m}
    BY <2>1
  <2>6. Consistent(db \ {m})
    BY <1>1, <2>4, <2>5, ConsistentDelete
  <2>. QED  BY <1>1, <1>2, <2>2, <2>6, SucceedFits
<1>4. CASE Abstract!DeleteWorkspace(t)
  <2>. DEFINE w == WorkspaceRow(c.ws)
              G == {w} \cup Referencing(db, w)
  <2>1. (\E resp \in Responses : Abstract!Refuse(t, resp)) \/ Abstract!Succeed(t, db \ G)
    BY <1>1, <1>4, SameRows DEF Abstract!DeleteWorkspace
  <2>2. ASSUME NEW r \in G PROVE Referencing(db, r) \subseteq G
    <3>1. CASE r # w
      BY <3>1, NothingRefersToMembers DEF Referencing
    <3>. QED  BY <3>1
  <2>3. ASSUME NEW v \in Workspaces, NEW u \in Users, OwnerRow(v, u) \in db \cap G
        PROVE  WorkspaceRow(v) \in G
    <3>1. /\ OwnerRow(v, u).kind = "owner" /\ OwnerRow(v, u).ws = v /\ w.kind = "workspace"
          /\ \A x : UserRow(x).kind = "user"
      BY DEF OwnerRow, WorkspaceRow, UserRow
    <3>2. OwnerRow(v, u) \in Referencing(db, w)
      BY <2>3, <3>1
    <3>3. w = WorkspaceRow(v) \/ w = UserRow(u)
      BY <3>1, <3>2 DEF Referencing
    <3>. QED  BY <3>1, <3>3
  <2>. HIDE DEF G
  <2>4. Consistent(db \ G)
    BY <1>1, <2>2, <2>3, ConsistentDelete
  <2>. QED  BY <1>1, <1>2, <2>1, <2>4, SucceedFits
<1>5. CASE Abstract!DeleteUser(t)
  <2>. DEFINE R == {UserRow(c.user)} \cup OwnedWorkspaces(db, c.user)
              S == db \ (R \cup UNION {Referencing(db, r) : r \in R})
  <2>1. (\E resp \in Responses : Abstract!Refuse(t, resp)) \/ Abstract!Succeed(t, S)
    BY <1>1, <1>5, SameRows DEF Abstract!DeleteUser
  <2>2. c.user \in Users
    BY <1>1, <1>5 DEF Abstract!DeleteUser, Abstract!Pending, WellFormed
  <2>3. Consistent(S)
    BY <1>1, <2>2, AccountGoes
  <2>4. S \in SUBSET Rows
    BY <1>1
  <2>. HIDE DEF S
  <2>. QED  BY <1>2, <2>1, <2>3, <2>4, SucceedFits
<1>. QED  BY <1>3, <1>4, <1>5

\* The contract itself keeps the foreign keys, the primary key and the one owner of
\* every workspace: calls that behave as if each ran alone cannot break them.
THEOREM ContractIsConsistent == Abstract!Spec => []Consistent(db)
<1>1. Abstract!Init => DirectoryInv
  <2>. SUFFICES ASSUME Abstract!Init PROVE DirectoryInv
    OBVIOUS
  <2>1. db = {UserRow(u) : u \in Users} /\ AbstractCall = [t \in Txs |-> NoCall]
    BY SameRows, SameRequests DEF Abstract!Init
  <2>2. \A r \in db : r.kind = "user"
    BY <2>1 DEF UserRow
  <2>3. Consistent(db)
    BY <2>2 DEF Consistent, ForeignKeysHold, MembershipKeysUnique, AtMostOneOwner,
                EveryWorkspaceHasOwner, Roles, OwnerRow, WorkspaceRow
  <2>4. NoCall \in SerialCalls /\ WellFormed(NoCall)
    BY DEF NoCall, SerialCalls, WellFormed
  <2>. QED  BY <2>1, <2>3, <2>4, RowTypes DEF DirectoryInv
<1>2. DirectoryInv /\ [Abstract!Next]_(Abstract!vars) => DirectoryInv'
  <2>. SUFFICES ASSUME DirectoryInv, [Abstract!Next]_(Abstract!vars) PROVE DirectoryInv'
    OBVIOUS
  <2>1. CASE UNCHANGED Abstract!vars
    <3>1. db' = db /\ AbstractCall' = AbstractCall
      BY <2>1 DEF Abstract!vars
    <3>. QED  BY <3>1 DEF DirectoryInv
  <2>2. ASSUME NEW t \in Txs, Abstract!Fail(t) PROVE DirectoryInv'
    <3>1. PICK resp \in {"ErrDeadlock", "ErrInternal"} : Abstract!Refuse(t, resp)
      BY <2>2 DEF Abstract!Fail
    <3>. QED  BY <3>1, RefuseFits DEF Abstract!Refuse, Responses, Unexpected
  <2>. QED  BY <2>1, <2>2, RequestFits, AdditionFits, DeletionFits DEF Abstract!Next
<1>3. DirectoryInv => Consistent(db)
  BY DEF DirectoryInv
<1>. QED  BY <1>1, <1>2, <1>3, PTL DEF Abstract!Spec
=============================================================================
