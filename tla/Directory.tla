------------------------------ MODULE Directory ------------------------------
(***************************************************************************)
(* What the workspace and account services promise to their clients: every *)
(* call takes effect, and is answered, as if it ran alone at one moment    *)
(* between its arrival and its answer.  An unexpected error may hide a     *)
(* call that took effect (a commit whose answer was lost) or stand for one *)
(* that did not; no other answer is ever untrue.  A read can be overtaken: *)
(* its permission is granted at one moment and its answer given at a later *)
(* one, when the reader's account may be gone.                             *)
(***************************************************************************)
EXTENDS Calls

VARIABLES
    db,   \* the committed rows
    call  \* call[t]: the request in slot t and its answer

vars == <<db, call>>

Pending(t, op) == call[t].op = op /\ call[t].resp = "pending"

Answer(t, resp) == call' = [call EXCEPT ![t].resp = resp]

\* Every answer but a success leaves the database alone.
Refuse(t, resp) == Answer(t, resp) /\ UNCHANGED db

\* A success changes the database to S; the client may be told of an error
\* all the same when the connection fails under the commit.
Succeed(t, S) ==
    /\ db' = S
    /\ Answer(t, "ok") \/ (Faults /\ Answer(t, "ErrInternal"))

Exists(t)  == WorkspaceRow(call[t].ws) \in db
IsOwner(t) == OwnerRow(call[t].ws, call[t].actor) \in db

-----------------------------------------------------------------------------
Init ==
    /\ db = {UserRow(u) : u \in Users}
    /\ call = [t \in Txs |-> NoCall]

Arrive(t) ==
    /\ call[t] = NoCall
    /\ \E r \in Requests : UserRow(r.actor) \in db /\ call' = [call EXCEPT ![t] = Received(r)]
    /\ UNCHANGED db

Return(t) ==
    /\ call[t].resp \in Responses
    /\ call' = [call EXCEPT ![t] = NoCall]
    /\ UNCHANGED db

CreateWorkspace(t) ==
    /\ Pending(t, "CreateWorkspace")
    /\ \/ /\ UserRow(call[t].actor) \in db
          /\ \E w \in Workspaces :
                /\ \A r \in db : r.ws # w
                /\ Succeed(t, db \cup {WorkspaceRow(w), OwnerRow(w, call[t].actor)})
       \/ UserRow(call[t].actor) \notin db /\ Refuse(t, "ErrOwnerKey")

ReadWorkspace(t) ==
    /\ Pending(t, "ReadWorkspace")
    /\ \/ ~Exists(t) /\ Refuse(t, "ErrWorkspaceNotFound")
       \/ /\ Exists(t)
          /\ Membership(db, call[t].ws, call[t].actor) = {}
          /\ Refuse(t, "ErrForbidden")
       \/ /\ Membership(db, call[t].ws, call[t].actor) # {}
          /\ Answer(t, "granted") /\ UNCHANGED db

AnswerRead(t) == call[t].resp = "granted" /\ Succeed(t, db)

AddWorkspaceMember(t) ==
    LET c == call[t] IN
    /\ Pending(t, "AddWorkspaceMember")
    /\ \/ ~Exists(t) /\ Refuse(t, "ErrWorkspaceNotFound")
       \/ Exists(t) /\ ~IsOwner(t) /\ Refuse(t, "ErrForbidden")
       \/ /\ IsOwner(t)
          /\ \/ Membership(db, c.ws, c.user) # {} /\ Refuse(t, "ErrAlreadyMember")
             \/ UserRow(c.user) \notin db /\ Refuse(t, "ErrUserNotFound")
             \/ /\ Membership(db, c.ws, c.user) = {}
                /\ UserRow(c.user) \in db
                /\ Succeed(t, db \cup {MemberRow(c.ws, c.user)})

RemoveWorkspaceMember(t) ==
    LET c == call[t] IN
    /\ Pending(t, "RemoveWorkspaceMember")
    /\ \/ ~Exists(t) /\ Refuse(t, "ErrWorkspaceNotFound")
       \/ Exists(t) /\ ~IsOwner(t) /\ Refuse(t, "ErrForbidden")
       \/ IsOwner(t) /\ c.user = c.actor /\ Refuse(t, "ErrOwnerRemoval")
       \/ /\ IsOwner(t) /\ c.user # c.actor
          /\ \/ Membership(db, c.ws, c.user) = {} /\ Refuse(t, "ErrWorkspaceMemberNotFound")
             \/ /\ Membership(db, c.ws, c.user) # {}
                /\ Succeed(t, db \ {MemberRow(c.ws, c.user)})

DeleteWorkspace(t) ==
    LET w == WorkspaceRow(call[t].ws) IN
    /\ Pending(t, "DeleteWorkspace")
    /\ \/ ~Exists(t) /\ Refuse(t, "ErrWorkspaceNotFound")
       \/ Exists(t) /\ ~IsOwner(t) /\ Refuse(t, "ErrForbidden")
       \/ IsOwner(t) /\ Succeed(t, db \ ({w} \cup Referencing(db, w)))

\* The account, the workspaces it owns and every membership of either.
DeleteUser(t) ==
    LET u == call[t].user
        R == {UserRow(u)} \cup OwnedWorkspaces(db, u)
    IN
    /\ Pending(t, "DeleteUser")
    /\ \/ UserRow(u) \notin db /\ Refuse(t, "ErrNotFound")
       \/ /\ UserRow(u) \in db
          /\ Succeed(t, db \ (R \cup UNION {Referencing(db, r) : r \in R}))

Fail(t) ==
    /\ call[t].resp = "pending"
    /\ Refuse(t, "ErrDeadlock") \/ (Faults /\ Refuse(t, "ErrInternal"))

Next ==
    \E t \in Txs :
        \/ Arrive(t) \/ Return(t)
        \/ CreateWorkspace(t) \/ ReadWorkspace(t) \/ AnswerRead(t) \/ AddWorkspaceMember(t)
        \/ RemoveWorkspaceMember(t) \/ DeleteWorkspace(t) \/ DeleteUser(t)
        \/ Fail(t)

Spec == Init /\ [][Next]_vars
=============================================================================
