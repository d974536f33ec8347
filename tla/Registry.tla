------------------------------- MODULE Registry -------------------------------
(***************************************************************************)
(* What the user service promises: an account and its external identity    *)
(* are one thing, which appears and disappears as a whole; every call      *)
(* takes effect, and is answered, as if it ran alone at one moment.  The   *)
(* calls that act for the bearer of a token have two moments: when the     *)
(* token is resolved to an account, and when the call acts for that        *)
(* account, which may be gone by then.                                     *)
(***************************************************************************)
EXTENDS AccountCalls

VARIABLES
    accounts,  \* the registered accounts, each with its identity
    members,   \* who is a member of which workspace
    call       \* call[t]: the request in slot t and its answer

vars == <<accounts, members, call>>

Pending(t, op) == call[t].op = op /\ call[t].resp = "pending"

AnswerWith(t, resp, users, wss) ==
    call' = [call EXCEPT ![t].resp = resp, ![t].users = users, ![t].wss = wss]

Refuse(t, resp) == AnswerWith(t, resp, {}, {}) /\ UNCHANGED <<accounts, members>>

\* The caller may be told of an error all the same.
Succeed(t, users, wss) ==
    AnswerWith(t, "ok", users, wss) \/ (Faults /\ AnswerWith(t, "ErrInternal", {}, {}))

Registered == {a.id : a \in accounts}
WorkspacesOf(u) == {m.ws : m \in {x \in members : x.user = u}}

\* Whether an account has taken the value of t for key k.
Taken(t, k) ==
    \E a \in accounts :
        KeyOf(call[t], k) = CASE k = "email" -> a.email [] k = "name" -> a.name
                              [] OTHER -> a.subject

-----------------------------------------------------------------------------
Init ==
    /\ accounts = {} /\ members = {}
    /\ call = [t \in Txs |-> NoCall]

Arrive(t) ==
    /\ call[t] = NoCall
    /\ \E r \in Requests : call' = [call EXCEPT ![t] = Received(r)]
    /\ UNCHANGED <<accounts, members>>

Return(t) ==
    /\ call[t].resp \in Responses
    /\ call' = [call EXCEPT ![t] = NoCall]
    /\ UNCHANGED <<accounts, members>>

CreateUser(t) ==
    LET c == call[t] IN
    /\ Pending(t, "CreateUser")
    /\ \/ Taken(t, "email") /\ Refuse(t, "ErrEmailTaken")
       \/ ~Taken(t, "email") /\ Taken(t, "name") /\ Refuse(t, "ErrUserNameTaken")
       \/ /\ ~Taken(t, "email") /\ ~Taken(t, "name") /\ Taken(t, "identity")
          /\ Refuse(t, "ErrIdentityTaken")
       \/ /\ ~Taken(t, "email") /\ ~Taken(t, "name") /\ ~Taken(t, "identity")
          /\ \E u \in Ids \ Registered :
                /\ accounts' = accounts \cup
                      {[id |-> u, email |-> KeyOf(c, "email"), name |-> KeyOf(c, "name"),
                        subject |-> KeyOf(c, "identity")]}
                /\ Succeed(t, {u}, {})
          /\ UNCHANGED members

ReadUser(t) ==
    /\ Pending(t, "ReadUser")
    /\ \/ call[t].id \notin Registered /\ Refuse(t, "ErrNotFound")
       \/ /\ call[t].id \in Registered
          /\ Succeed(t, {call[t].id}, {}) /\ UNCHANGED <<accounts, members>>

ListUsers(t) ==
    /\ Pending(t, "ListUsers")
    /\ Succeed(t, Registered, {}) /\ UNCHANGED <<accounts, members>>

\* Who the token stands for; an account is deleted for nobody else.
ResolveActor(t) ==
    /\ call[t].op \in NeedsActor /\ call[t].resp = "pending" /\ call[t].actor = None
    /\ \/ /\ \A a \in accounts : a.subject # call[t].subject
          /\ Refuse(t, IF call[t].op = "DeleteUser" THEN "ErrForbidden" ELSE "ErrNotFound")
       \/ \E a \in accounts :
             /\ a.subject = call[t].subject
             /\ IF call[t].op = "DeleteUser" /\ a.id # call[t].id
                THEN Refuse(t, "ErrForbidden")
                ELSE /\ call' = [call EXCEPT ![t].actor = a.id]
                     /\ UNCHANGED <<accounts, members>>

ReadUserProfile(t) ==
    LET u == call[t].actor IN
    /\ Pending(t, "ReadUserProfile") /\ u # None
    /\ Succeed(t, {u}, WorkspacesOf(u)) /\ UNCHANGED <<accounts, members>>

DeleteUser(t) ==
    LET u == call[t].actor IN
    /\ Pending(t, "DeleteUser") /\ u # None
    /\ \/ u \notin Registered /\ Refuse(t, "ErrNotFound")
       \/ /\ u \in Registered
          /\ accounts' = {a \in accounts : a.id # u}
          /\ members' = {m \in members : m.user # u}
          /\ Succeed(t, {}, {})

Fail(t) == Faults /\ call[t].resp = "pending" /\ Refuse(t, "ErrInternal")

\* What the workspace service does to memberships.
ChangeMembers ==
    /\ \E m \in MemberRows :
          \/ m.user \in Registered /\ members' = members \cup {m}
          \/ members' = members \ {m}
    /\ UNCHANGED <<accounts, call>>

Next ==
    \/ ChangeMembers
    \/ \E t \in Txs :
          \/ Arrive(t) \/ Return(t) \/ CreateUser(t) \/ ReadUser(t) \/ ListUsers(t)
          \/ ResolveActor(t) \/ ReadUserProfile(t) \/ DeleteUser(t) \/ Fail(t)

Spec == Init /\ [][Next]_vars
=============================================================================
