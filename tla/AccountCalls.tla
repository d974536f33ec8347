----------------------------- MODULE AccountCalls -----------------------------
(***************************************************************************)
(* The tables of the user service and the calls it gets: what Registry     *)
(* promises about them and Accounts implements.  The issuer of a token is  *)
(* always the one the server trusts, and is left out; so are the display   *)
(* name, but for its validation, and timestamps.  Of a workspace only its  *)
(* members matter here: they come and go with the calls of WorkspaceTxns.  *)
(***************************************************************************)
CONSTANTS
    Ids,         \* ids of accounts
    Workspaces,  \* ids of workspaces
    Texts,       \* what a client can send as a name, and a token as email or subject
    Empty,       \* the empty text
    Trim,        \* strings.TrimSpace
    Emails, Names, DisplayNames, Subjects,  \* the texts sent as each
    None,        \* the id a request does not have
    Txs,         \* the requests the server can be handling at one time
    Ops,         \* the operations that clients ask for
    Faults       \* whether statements and connections can fail

Operations == {"CreateUser", "ReadUser", "ListUsers", "ReadUserProfile", "DeleteUser"}

ASSUME NoneIsNoId       == None \notin Ids /\ None \notin Texts
ASSUME TrimTrims        == /\ Trim \in [Texts -> Texts] /\ Empty \in Texts
                           /\ \A x \in Texts : Trim[Trim[x]] = Trim[x]
ASSUME FieldsAreTexts   == Emails \cup Names \cup DisplayNames \cup Subjects \subseteq Texts
ASSUME OpsAreOperations == Ops \subseteq Operations
ASSUME FaultsIsBoolean  == Faults \in BOOLEAN

UserRows     == [id : Ids, email : Texts, name : Texts]
IdentityRows == [user : Ids, subject : Texts]
MemberRows   == [user : Ids, ws : Workspaces]

-----------------------------------------------------------------------------
\* A request: its token has been verified (or needs none), its body parsed.
Requests ==
    [op : Ops \cap {"CreateUser"}, id : {None}, email : Emails, name : Names,
     display : DisplayNames, subject : Subjects]
    \cup [op : Ops \cap {"ReadUser"}, id : Ids, email : {None}, name : {None},
          display : {None}, subject : {None}]
    \cup [op : Ops \cap {"ListUsers"}, id : {None}, email : {None}, name : {None},
          display : {None}, subject : {None}]
    \cup [op : Ops \cap {"ReadUserProfile"}, id : {None}, email : {None}, name : {None},
          display : {None}, subject : Subjects]
    \cup [op : Ops \cap {"DeleteUser"}, id : Ids, email : {None}, name : {None},
          display : {None}, subject : Subjects]

\* CreateUser validates its input before it begins a transaction; it looks at the
\* trimmed texts.
Invalid(r) ==
    IF r.op # "CreateUser"             THEN "none"
    ELSE IF Trim[r.email] = Empty      THEN "ErrInvalidEmail"
    ELSE IF Trim[r.name] = Empty       THEN "ErrInvalidUserName"
    ELSE IF Trim[r.display] = Empty    THEN "ErrInvalidDisplayName"
    ELSE IF Trim[r.subject] = Empty    THEN "ErrInvalidIdentity"
    ELSE "none"

TakenErrors == [email    |-> "ErrEmailTaken",
                name     |-> "ErrUserNameTaken",
                identity |-> "ErrIdentityTaken"]

\* Mutant: what is stored is what was sent.
KeyUntrimmed(c, k) ==
    CASE k = "email" -> c.email [] k = "name" -> c.name [] OTHER -> c.subject

\* The value of CreateUser for the unique key k: the identity is stored as it was
\* sent.
KeyOf(c, k) ==
    CASE k = "email" -> Trim[c.email] [] k = "name" -> Trim[c.name] [] OTHER -> c.subject

Responses ==
    {"ok", "ErrNotFound", "ErrForbidden", "ErrEmailTaken", "ErrUserNameTaken",
     "ErrIdentityTaken", "ErrInvalidEmail", "ErrInvalidUserName",
     "ErrInvalidDisplayName", "ErrInvalidIdentity", "ErrInternal"}

\* actor: the account that the token resolved to; users, wss: the accounts and
\* workspaces that a success returns (the rows of an account never change).
NoCall == [op |-> "none", id |-> None, email |-> None, name |-> None, subject |-> None,
           actor |-> None, resp |-> "none", users |-> {}, wss |-> {}]

CallRecords ==
    [op : Ops \cup {"none"}, id : Ids \cup {None}, email : Texts \cup {None},
     name : Texts \cup {None}, subject : Texts \cup {None}, actor : Ids \cup {None},
     resp : Responses \cup {"none", "pending"}, users : SUBSET Ids,
     wss : SUBSET Workspaces]

Received(r) ==
    [op |-> r.op, id |-> r.id, email |-> r.email, name |-> r.name, subject |-> r.subject,
     actor |-> None, resp |-> IF Invalid(r) = "none" THEN "pending" ELSE Invalid(r),
     users |-> {}, wss |-> {}]

NeedsActor == {"ReadUserProfile", "DeleteUser"}
=============================================================================
