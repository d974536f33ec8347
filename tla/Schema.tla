------------------------------- MODULE Schema -------------------------------
(***************************************************************************)
(* The part of the PostgreSQL schema (db/migrations) that the routed       *)
(* services read and write: the tables users, workspaces and               *)
(* workspace_members.  A database is a set of rows.  All rows have the     *)
(* same shape, so that row locks, write sets and ON DELETE CASCADE are     *)
(* sets of rows too.  Names, emails and timestamps are left out, and so    *)
(* are the tables channels, channel_members and messages: nothing wired in *)
(* internal/waypoint/services.go writes them, so their cascades are empty. *)
(***************************************************************************)

CONSTANTS
    Users,       \* ids of users
    Workspaces,  \* ids of workspaces
    None         \* the id a row or a request does not have

ASSUME NoneIsNoId == None \notin Users \cup Workspaces

Roles == {"owner", "member"}

UserRow(u)      == [kind |-> "user",      ws |-> None, user |-> u]
WorkspaceRow(w) == [kind |-> "workspace", ws |-> w,    user |-> None]
OwnerRow(w, u)  == [kind |-> "owner",     ws |-> w,    user |-> u]
MemberRow(w, u) == [kind |-> "member",    ws |-> w,    user |-> u]

Rows == {UserRow(u) : u \in Users}
        \cup {WorkspaceRow(w) : w \in Workspaces}
        \cup [kind : Roles, ws : Workspaces, user : Users]

\* The workspace_members rows of workspace w, and those of user u in w
\* (the table's primary key is (workspace_id, user_id)).
MembersOf(S, w)     == {m \in S : m.kind \in Roles /\ m.ws = w}
Membership(S, w, u) == {m \in MembersOf(S, w) : m.user = u}

OwnedWorkspaces(S, u) ==
    {r \in S : r.kind = "workspace" /\ OwnerRow(r.ws, u) \in S}

\* The rows that ON DELETE CASCADE deletes with row r.
Referencing(S, r) ==
    {m \in S : m.kind \in Roles /\ (r = WorkspaceRow(m.ws) \/ r = UserRow(m.user))}

-----------------------------------------------------------------------------
\* The foreign keys of workspace_members.
ForeignKeysHold(S) ==
    \A m \in S : m.kind \in Roles => WorkspaceRow(m.ws) \in S /\ UserRow(m.user) \in S

\* The primary key of workspace_members.
MembershipKeysUnique(S) ==
    \A m, n \in S : m.kind \in Roles /\ n.kind \in Roles
                    /\ m.ws = n.ws /\ m.user = n.user => m = n

\* The index workspace_members_single_owner_idx of migration 6.
AtMostOneOwner(S) ==
    \A w \in Workspaces, u, v \in Users :
        OwnerRow(w, u) \in S /\ OwnerRow(w, v) \in S => u = v

\* What no constraint of the schema enforces.
EveryWorkspaceHasOwner(S) ==
    \A w \in Workspaces : WorkspaceRow(w) \in S =>
        \E u \in Users : OwnerRow(w, u) \in S

Consistent(S) ==
    /\ ForeignKeysHold(S)
    /\ MembershipKeysUnique(S)
    /\ AtMostOneOwner(S)
    /\ EveryWorkspaceHasOwner(S)
=============================================================================
