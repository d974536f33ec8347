--------------------------- MODULE WorkspaceSafety ---------------------------
(***************************************************************************)
(* Correctness of WorkspaceTxns: the properties, and the inductive         *)
(* invariant from which WorkspaceTxns_proofs derives them.                 *)
(***************************************************************************)
EXTENDS WorkspaceTxns, Naturals

\* The variables have their types.
TypeOK ==
    /\ db \subseteq Rows
    /\ call \in [Txs -> CallRecords]
    /\ tx \in [Txs -> TxRecords]

\* "Every workspace has exactly one owner" (workspace/service.go:18): each
\* committed workspace has one owner row, and that owner's account exists,
\* whatever transactions interleave, fail or lose their answer.
OneOwner ==
    \A w \in Workspaces : WorkspaceRow(w) \in db =>
        \E u \in Users :
            /\ UserRow(u) \in db
            /\ \A v \in Users : OwnerRow(w, v) \in db <=> v = u

\* "Concurrent workspace operations cannot invalidate the permission ...
\* checks before commit" (workspace/service.go:156, 232, 306): a transaction
\* that has passed the owner check acts for the owner until it ends, even
\* while that owner's account is being deleted.
OwnerCheckStillValid ==
    \A t \in Txs :
        /\ call[t].op \in {"AddWorkspaceMember", "RemoveWorkspaceMember", "DeleteWorkspace"}
        /\ tx[t].pc \in {"AddWorkspaceMember", "RemoveWorkspaceMember", "DeleteWorkspace", "Commit"}
        => OwnerRow(call[t].ws, call[t].actor) \in db

\* "Keep the permission check and returned membership list consistent"
\* (workspace/service.go:102): until ReadWorkspace answers, the list it read is
\* still the workspace's, but for members whose accounts were deleted, and it shows
\* exactly one owner.
ReadListIsCurrent ==
    \A t \in Txs : call[t].op = "ReadWorkspace" /\ tx[t].pc = "Commit" =>
        /\ WorkspaceRow(call[t].ws) \in db
        /\ \E u \in Users : \A v \in Users : OwnerRow(call[t].ws, v) \in tx[t].seen <=> v = u
        /\ MembersOf(db, call[t].ws) \subseteq tx[t].seen
        /\ \A m \in tx[t].seen \ db : m.kind = "member" /\ UserRow(m.user) \notin db

\* Once DeleteWorkspace and DeleteUser have locked their row it cannot vanish:
\* their "removed == 0" branches (workspace/service.go:333,
\* user/service.go:204) are never taken.
LockedTargetIsDeleted ==
    \A t \in Txs :
        At(t, "Commit") /\ call[t].op \in {"DeleteWorkspace", "DeleteUser"} => ~RemovedNone(t)

\* Whoever locks a workspace row is alone with the workspace: until the
\* lock's transaction ends, other transactions add nothing to the workspace and
\* take nothing from it but plain members whose accounts they delete.
LockedWorkspaceIsStable ==
    [][\A t \in Txs, w \in Workspaces :
          WorkspaceRow(w) \in tx[t].held /\ tx'[t] = tx[t] =>
              /\ WorkspaceRow(w) \in db'
              /\ MembersOf(db', w) \subseteq MembersOf(db, w)
              /\ \A m \in MembersOf(db, w) \ db' : m.kind = "member" /\ UserRow(m.user) \notin db'
      ]_vars

\* Who may delete a row, and who may insert it, as the committed rows stand then.
Owns(t) == OwnerRow(call[t].ws, call[t].actor) \in db

MayDelete(t, r) ==
    LET c == call[t] IN
    \/ /\ c.op = "DeleteUser" /\ c.user = c.actor
       /\ r.user = c.actor \/ OwnerRow(r.ws, c.actor) \in db
    \/ c.op = "DeleteWorkspace" /\ Owns(t) /\ r.ws = c.ws
    \/ c.op = "RemoveWorkspaceMember" /\ Owns(t) /\ r = MemberRow(c.ws, c.user)

MayInsert(t, r) ==
    LET c == call[t] IN
    \/ /\ c.op = "CreateWorkspace" /\ r \in {WorkspaceRow(r.ws), OwnerRow(r.ws, c.actor)}
       /\ UserRow(c.actor) \in db /\ \A q \in db : q.ws # r.ws
    \/ c.op = "AddWorkspaceMember" /\ Owns(t) /\ r = MemberRow(c.ws, c.user)

\* "caller must be owner" (docs/api/README.md:18-20), "DeleteUser allows an actor to
\* delete only their own local account" (user/service.go:163): whatever was checked
\* and locked statements ago, a row appears or disappears only by a call that ends
\* with it, and whose actor is entitled to the change at that very moment; no other
\* row is caught in a cascade.
ChangesAreAuthorized ==
    [][\A r \in (db \ db') \cup (db' \ db) : \E t \in Txs :
          /\ call[t].resp = "pending" /\ call'[t].resp \in {"ok", "ErrInternal"}
          /\ r \in db  => MayDelete(t, r)
          /\ r \in db' => MayInsert(t, r)
      ]_vars

\* Transactions wait for each other in a circle only if two accounts are being
\* deleted: the workspace lock orders everything else, so no other mix of
\* requests ends in 40P01.  Stated of every set of transactions each of which
\* waits for another one of the set.
DeadlockTakesTwoAccountDeletions ==
    \A S \in SUBSET Txs :
        S # {} /\ (\A t \in S : Blockers(t) \cap S # {}) =>
            \E a, b \in S : a # b /\ call[a].op = "DeleteUser" /\ call[b].op = "DeleteUser"

\* A CreateWorkspace or ReadWorkspace is never the victim of a deadlock: the
\* path of CreateWorkspace that commits after a failed insert
\* (workspace/service.go:70-76) is left to statements that fail by themselves.
CreatesAndReadsNeverAborted ==
    \A t \in Txs : call[t].op \in {"CreateWorkspace", "ReadWorkspace"} => ~Deadlocked(t)

\* Whatever waits for whom, somebody can go on: among any calls that wait for each
\* other only, one waits for nobody, or for itself, and PostgreSQL aborts it. No
\* call waits for a lock that an answered one has kept.
NobodyStandsStill ==
    \A S \in SUBSET Txs :
        /\ \E t \in S : call[t].resp = "pending"
        /\ \A t \in S : Blockers(t) \subseteq S
        => \E t \in S : call[t].resp = "pending" /\ (Blockers(t) = {} \/ Deadlocked(t))

\* The statements of a call in their order.
Stage(s) ==
    CASE s \in {"CreateWorkspace", "LockWorkspaceRow", "LockUserRow"} -> 1
      [] s \in {"AddWorkspaceOwner", "ListWorkspaceMembers", "SelectWorkspaceMember",
                "DeleteWorkspacesOwnedByUser"} -> 2
      [] s \in {"AddWorkspaceMember", "RemoveWorkspaceMember", "DeleteWorkspace",
                "DeleteUser"} -> 3
      [] OTHER -> 4

\* From x to y a transaction comes nearer to its end: its statement is a later one, or
\* is still running and has deleted one more row, or has one row less to visit.
Nearer(x, y) ==
    \/ Stage(x.pc) < Stage(y.pc)
    \/ /\ x.pc = y.pc
       /\ \/ x.gone \subseteq y.gone /\ x.gone # y.gone
          \/ x.gone = y.gone /\ y.todo \subseteq x.todo /\ x.todo # y.todo

\* Locks and writes are kept from x to y.
Keeps(x, y) ==
    /\ x.held \subseteq y.held /\ x.shared \subseteq y.shared
    /\ x.puts \subseteq y.puts /\ x.gone \subseteq y.gone

\* A running transaction keeps all that it has locked and written until it ends (two-phase
\* locking), and whatever it does brings it nearer to its end: a DELETE whose rows
\* others add to and take away in the meantime does not go round in circles.
TransactionsAdvance ==
    [][\A t \in Txs :
          call[t].resp = "pending" /\ call'[t].resp = "pending" /\ tx'[t] # tx[t] =>
              Nearer(tx[t], tx'[t]) /\ Keeps(tx[t], tx'[t])]_vars

\* The calls behave as if each ran alone at one moment (module Directory): that
\* of its last statement, except that a read is granted when the list is read.
AbstractCall ==
    [t \in Txs |-> IF call[t].op = "ReadWorkspace" /\ tx[t].pc = "Commit"
                   THEN [call[t] EXCEPT !.resp = "granted"] ELSE call[t]]

Abstract == INSTANCE Directory WITH call <- AbstractCall

LinearizesToDirectory == Abstract!Spec

\* Every request that arrives is answered.
EveryCallAnswered ==
    \A t \in Txs : call[t].resp = "pending" ~> call[t].resp # "pending"

-----------------------------------------------------------------------------
(* The inductive invariant. *)

\* No row is locked by one transaction and locked or written by another.
LockedApart(s, t) ==
    /\ Exclusive(s) \cap Exclusive(t) = {}
    /\ Exclusive(s) \cap tx[t].shared = {}

LocksExclude == \A s, t \in Txs : s # t => LockedApart(s, t)

\* Locked and deleted rows are committed rows, inserted ones are not.
WriteSetFits(t) ==
    /\ tx[t].held \subseteq db
    /\ tx[t].shared \subseteq db
    /\ tx[t].gone \subseteq db
    /\ tx[t].puts \cap db = {}

\* What the cascades of a DELETE have still to visit, and that a transaction
\* deletes an owner's row only together with the workspace.
CascadeFollows(t) ==
    /\ \A r \in tx[t].gone : Referencing(db, r) \subseteq tx[t].gone \cup tx[t].todo
    /\ \A r \in tx[t].gone \cup tx[t].todo :
          r.kind = "owner" => WorkspaceRow(r.ws) \in tx[t].gone

\* No DELETE is on its way to a workspace that is only now being created.
NewIdsUnknown(s, t) == \A r \in tx[s].todo : WorkspaceRow(r.ws) \notin tx[t].puts

Idle(t) == tx[t] = NoTx

\* Where a transaction of each operation stands.
CreateInv(t) ==
    /\ tx[t].held = {} /\ tx[t].gone = {} /\ tx[t].todo = {}
    /\ tx[t].pc \in {"CreateWorkspace", "AddWorkspaceOwner", "Commit", "CommitAborted"}
    /\ tx[t].pc = "CreateWorkspace" => tx[t].puts = {}
    /\ tx[t].pc \in {"AddWorkspaceOwner", "CommitAborted"} =>
          \E w \in Workspaces : tx[t].puts = {WorkspaceRow(w)}
    /\ tx[t].pc = "Commit" =>
          /\ \E w \in Workspaces : tx[t].puts = {WorkspaceRow(w), OwnerRow(w, call[t].actor)}
          /\ UserRow(call[t].actor) \in tx[t].shared

\* From the lock on, the workspace is this transaction's.
LockInv(t) ==
    /\ call[t].ws \in Workspaces
    /\ tx[t].pc = "LockWorkspaceRow" => tx[t].held = {} /\ tx[t].todo = {}
    /\ tx[t].pc # "LockWorkspaceRow" => tx[t].held = {WorkspaceRow(call[t].ws)}
    /\ tx[t].pc # "Commit" => tx[t].puts = {} /\ tx[t].gone = {} /\ tx[t].todo = {}
    /\ tx[t].pc \notin {"LockWorkspaceRow", "ListWorkspaceMembers", "SelectWorkspaceMember"}
       /\ call[t].op # "ReadWorkspace" => OwnerRow(call[t].ws, call[t].actor) \in db

ReadInv(t) ==
    /\ LockInv(t)
    /\ tx[t].pc \in {"LockWorkspaceRow", "ListWorkspaceMembers", "Commit"}
    /\ tx[t].puts = {} /\ tx[t].gone = {} /\ tx[t].todo = {}
    /\ tx[t].pc = "Commit" =>
          /\ \A m \in tx[t].seen : m.kind \in Roles /\ m.ws = call[t].ws
          /\ MembersOf(db, call[t].ws) \subseteq tx[t].seen
          /\ \A m \in tx[t].seen \ db : m.kind = "member" /\ UserRow(m.user) \notin db

AddInv(t) ==
    /\ LockInv(t)
    /\ call[t].user \in Users
    /\ tx[t].pc \in {"LockWorkspaceRow", "SelectWorkspaceMember", "AddWorkspaceMember", "Commit"}
    /\ tx[t].gone = {} /\ tx[t].todo = {}
    /\ tx[t].pc = "Commit" =>
          /\ tx[t].puts = {MemberRow(call[t].ws, call[t].user)}
          /\ UserRow(call[t].user) \in tx[t].shared
          /\ Membership(db, call[t].ws, call[t].user) = {}

RemoveInv(t) ==
    /\ LockInv(t)
    /\ call[t].user \in Users
    /\ tx[t].pc \in {"LockWorkspaceRow", "SelectWorkspaceMember", "RemoveWorkspaceMember", "Commit"}
    /\ tx[t].puts = {}
    /\ tx[t].pc \in {"RemoveWorkspaceMember", "Commit"} => call[t].user # call[t].actor
    /\ tx[t].gone \cup tx[t].todo \subseteq {MemberRow(call[t].ws, call[t].user)}
    /\ tx[t].pc = "Commit" =>
          Membership(db, call[t].ws, call[t].user) \subseteq tx[t].gone \cup tx[t].todo

DeleteWorkspaceInv(t) ==
    /\ LockInv(t)
    /\ tx[t].pc \in {"LockWorkspaceRow", "SelectWorkspaceMember", "DeleteWorkspace", "Commit"}
    /\ tx[t].puts = {}
    /\ \A r \in tx[t].gone \cup tx[t].todo : r.ws = call[t].ws
    /\ tx[t].pc = "Commit" => WorkspaceRow(call[t].ws) \in tx[t].gone \cup tx[t].todo

\* The user row is locked before any workspace is looked for, so that no
\* workspace of the user's can appear that DeleteUser would miss.
DeleteUserInv(t) ==
    LET u == call[t].user IN
    /\ u \in Users
    /\ tx[t].pc \in {"LockUserRow", "DeleteWorkspacesOwnedByUser", "DeleteUser", "Commit"}
    /\ tx[t].puts = {}
    /\ tx[t].pc = "LockUserRow" => tx[t].held = {}
    /\ tx[t].pc # "LockUserRow" => tx[t].held = {UserRow(u)}
    /\ tx[t].pc \in {"LockUserRow", "DeleteWorkspacesOwnedByUser"} =>
          tx[t].gone = {} /\ tx[t].todo = {}
    /\ tx[t].pc \in {"DeleteUser", "Commit"} =>
          \A w \in Workspaces :
              OwnerRow(w, u) \in db => WorkspaceRow(w) \in tx[t].gone \cup tx[t].todo
    /\ \A r \in tx[t].gone \cup tx[t].todo :
          \/ r = UserRow(u) /\ tx[t].pc = "Commit"
          \/ r.kind = "workspace" /\ (r \in db => OwnerRow(r.ws, u) \in db)
          \/ r.kind \in Roles /\ WorkspaceRow(r.ws) \in tx[t].gone
          \/ r.kind = "member" /\ r.user = u /\ UserRow(u) \in tx[t].gone
    /\ tx[t].pc = "Commit" =>
          /\ UserRow(u) \in tx[t].gone \cup tx[t].todo
          /\ \A r \in tx[t].todo : r.kind # "workspace"

TxInv(t) ==
    \/ call[t].resp # "pending" /\ Idle(t)
    \/ /\ call[t].resp = "pending"
       /\ call[t].actor \in Users
       /\ \/ call[t].op = "CreateWorkspace"       /\ CreateInv(t)
          \/ call[t].op = "ReadWorkspace"         /\ ReadInv(t)
          \/ call[t].op = "AddWorkspaceMember"    /\ AddInv(t)
          \/ call[t].op = "RemoveWorkspaceMember" /\ RemoveInv(t)
          \/ call[t].op = "DeleteWorkspace"       /\ DeleteWorkspaceInv(t)
          \/ call[t].op = "DeleteUser"            /\ DeleteUserInv(t)

\* The inductive invariant.
IInv ==
    /\ TypeOK
    /\ Consistent(db)
    /\ LocksExclude
    /\ \A t \in Txs : WriteSetFits(t) /\ CascadeFollows(t) /\ TxInv(t)
    /\ \A s, t \in Txs : NewIdsUnknown(s, t)
=============================================================================
