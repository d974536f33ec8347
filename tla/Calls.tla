-------------------------------- MODULE Calls --------------------------------
(***************************************************************************)
(* The calls of the workspace and account services: what a request names   *)
(* (the Input structs of internal/workspace/model.go and                   *)
(* internal/user/model.go) and the error or success a call returns.        *)
(***************************************************************************)
EXTENDS Schema

CONSTANTS
    Txs,     \* the requests the server can be handling at one time
    Ops,     \* the operations that clients ask for
    Faults   \* whether statements and connections can fail

Operations == {"CreateWorkspace", "ReadWorkspace", "AddWorkspaceMember",
               "RemoveWorkspaceMember", "DeleteWorkspace", "DeleteUser"}

ASSUME OpsAreOperations == Ops \subseteq Operations
ASSUME FaultsIsBoolean  == Faults \in BOOLEAN

\* A request as the service receives it: GetActorID has resolved its token to
\* an actor.  The id of a workspace that is yet to be created is no input.
Requests ==
    {r \in [op    : Ops,
            actor : Users,
            ws    : Workspaces \cup {None},
            user  : Users \cup {None}] :
        /\ (r.ws = None)   <=> (r.op \in {"CreateWorkspace", "DeleteUser"})
        /\ (r.user = None) <=> (r.op \in {"CreateWorkspace", "ReadWorkspace", "DeleteWorkspace"})}

\* What the services return.  Not the sentinels of errors.go, hence status 500
\* in writeError: "ErrOwnerKey" is the wrapped foreign-key error of
\* CreateWorkspace, "ErrDeadlock" is PostgreSQL's 40P01 and "ErrInternal" any
\* other failed statement, commit or connection.
Unexpected == {"ErrOwnerKey", "ErrDeadlock", "ErrInternal"}
Sentinels  == {"ErrForbidden", "ErrWorkspaceNotFound", "ErrWorkspaceMemberNotFound",
               "ErrUserNotFound", "ErrAlreadyMember", "ErrOwnerRemoval", "ErrNotFound"}
Responses  == {"ok"} \cup Sentinels \cup Unexpected

\* A slot of the server is free, or holds a call that is being handled
\* ("pending") or answered.
NoCall == [op |-> "none", actor |-> None, ws |-> None, user |-> None, resp |-> "none"]

CallRecords ==
    [op    : Ops \cup {"none"},
     actor : Users \cup {None},
     ws    : Workspaces \cup {None},
     user  : Users \cup {None},
     resp  : Responses \cup {"none", "pending"}]

\* DeleteUser refuses another user's account before it begins a transaction.
Received(r) ==
    [op |-> r.op, actor |-> r.actor, ws |-> r.ws, user |-> r.user,
     resp |-> IF r.op = "DeleteUser" /\ r.actor # r.user THEN "ErrForbidden"
                                                         ELSE "pending"]
=============================================================================
