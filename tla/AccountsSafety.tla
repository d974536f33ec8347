---------------------------- MODULE AccountsSafety ----------------------------
(***************************************************************************)
(* Correctness of Accounts: the properties, and the inductive invariant    *)
(* from which Accounts_proofs derives them.                                *)
(***************************************************************************)
EXTENDS Accounts

\* The variables have their types.
TypeOK ==
    /\ users \subseteq UserRows
    /\ identities \subseteq IdentityRows
    /\ members \subseteq MemberRows
    /\ call \in [Txs -> CallRecords]
    /\ tx \in [Txs -> TxRecords]

\* "CreateUser atomically creates a profile and its external identity mapping"
\* (user/service.go:31): every account has exactly one identity and every identity
\* an account, whatever fails or is deleted meanwhile.
AccountsAreComplete ==
    /\ \A u \in users : \E i \in identities : i.user = u.id
    /\ \A i \in identities : i.user \in Registered
    /\ \A i, j \in identities : i.user = j.user => i = j

\* However many register at once, no two accounts share an email or a user name up
\* to surrounding blanks, or an identity as the token spells it; no email or user
\* name is blank.
KeysAreUnique ==
    /\ \A u, v \in users :
          u.id = v.id \/ Trim[u.email] = Trim[v.email] \/ Trim[u.name] = Trim[v.name] => u = v
    /\ \A i, j \in identities : i.subject = j.subject => i = j
    /\ \A u \in users : Trim[u.email] # Empty /\ Trim[u.name] # Empty

\* Accounts together with their identities.
Merged(u, i) == [id |-> u.id, email |-> u.email, name |-> u.name, subject |-> i.subject]
Joined(us, is) == {Merged(p[1], p[2]) : p \in {q \in us \X is : q[2].user = q[1].id}}

Accts == INSTANCE Registry WITH accounts <- Joined(users, identities)

\* The calls behave as module Registry says.  In particular the bearer of a token
\* with which an account was created finds that account.
LinearizesToRegistry == Accts!Spec

\* ReadUserProfile reads the account and its workspaces in two statements, between
\* which anything happens.  Even so the profile it answers with is one of a single
\* moment: the account it shows is, if it still exists, the one the token stands for
\* now, and if it does not, no membership is shown.
ShowsWholeProfiles ==
    \A t \in Txs :
        call[t].op = "ReadUserProfile" /\ call[t].resp = "pending" /\ call'[t].resp = "ok" =>
            \A u \in call'[t].users :
                IF u \in Registered THEN [user |-> u, subject |-> call[t].subject] \in identities
                                    ELSE call'[t].wss = {}

ProfilesAreWhole == [][ShowsWholeProfiles]_vars

DeletesOwnAccount ==
    \A i \in identities \ identities' : \E t \in Txs :
        /\ call[t].op = "DeleteUser" /\ call[t].resp = "pending" /\ call'[t].resp # "pending"
        /\ call[t].subject = i.subject /\ call[t].id = i.user

\* "DeleteUser allows an actor to delete only their own local account"
\* (user/service.go:163): an account disappears only by a call with the token whose
\* identity goes with it, although the token was resolved several statements before.
OnlyOwnAccountDeleted == [][DeletesOwnAccount]_vars

\* Who keeps t from going on.
WaitsFor(t) ==
    CASE tx[t].pc \in Keys          -> KeyBlockers(t, tx[t].pc)
      [] tx[t].pc = "LockUserRow" -> Lockers(t, call[t].actor)
      [] OTHER                    -> {}

\* Registrations wait for each other's index entries and for accounts that are being
\* deleted, in rows of any length, but never in a circle, and never for a call that
\* has been answered: the error of a deadlock, which CreateUser and DeleteUser would
\* hand on to their callers, does not arise between them.
NobodyWaitsForEver ==
    /\ \A t \in Txs : \A s \in WaitsFor(t) : call[s].resp = "pending"
    /\ \A S \in SUBSET Txs : S # {} => \E t \in S : WaitsFor(t) \cap S = {}

-----------------------------------------------------------------------------
(* The inductive invariant. *)

\* Two transactions have made no equal entries, insert no equal ids, none that the
\* other acts for, and have locked no common account.
TxsApart(s, t) ==
    /\ \A k \in tx[s].keys \cap tx[t].keys : KeyOf(call[s], k) # KeyOf(call[t], k)
    /\ tx[s].new # None => tx[s].new \notin {tx[t].new, call[t].actor}
    /\ tx[s].held \cap tx[t].held = {}

\* What a transaction has entered is new to the tables; what it has locked is there.
Entered(t) ==
    /\ \A k \in tx[t].keys : OwnersOf(k, KeyOf(call[t], k)) = {}
    /\ tx[t].new \notin Registered
    /\ tx[t].held \subseteq Registered

CreateInv(t) ==
    LET c == call[t] x == tx[t] IN
    /\ c.op = "CreateUser" /\ c.actor = None
    /\ x.new \in Ids /\ x.held = {} /\ x.gone = {}
    /\ {c.email, c.name, c.subject} \subseteq Texts
    /\ Trim[c.email] # Empty /\ Trim[c.name] # Empty
    /\ \/ x.pc = "email"    /\ x.keys = {}
       \/ x.pc = "name"     /\ x.keys = {"email"}
       \/ x.pc = "identity" /\ x.keys = {"email", "name"}
       \/ x.pc = "Commit"   /\ x.keys = Keys

\* A token resolved to an account keeps standing for it while the account lasts.
Resolved(t) ==
    call[t].actor \in Registered =>
        [user |-> call[t].actor, subject |-> call[t].subject] \in identities

OtherInv(t) ==
    LET c == call[t] x == tx[t] IN
    /\ c.op # "CreateUser"
    /\ x.new = None /\ x.keys = {}
    /\ x.pc \in {"ListUserWorkspaces", "LockUserRow", "DeleteUser", "Commit"} =>
          c.actor \in Ids /\ Resolved(t)
    /\ \/ x.pc = "SelectUser" /\ c.op = "ReadUser" /\ x.held = {} /\ x.gone = {}
       \/ x.pc = "ListUsers" /\ c.op = "ListUsers" /\ x.held = {} /\ x.gone = {}
       \/ /\ x.pc = "SelectUserByIdentity" /\ c.op \in NeedsActor /\ c.actor = None
          /\ x.held = {} /\ x.gone = {}
       \/ x.pc = "ListUserWorkspaces" /\ c.op = "ReadUserProfile" /\ x.held = {} /\ x.gone = {}
       \/ x.pc = "LockUserRow" /\ c.op = "DeleteUser" /\ c.id = c.actor /\ x.held = {} /\ x.gone = {}
       \/ x.pc = "DeleteUser"  /\ c.op = "DeleteUser" /\ c.id = c.actor /\ x.held = {c.actor} /\ x.gone = {}
       \/ x.pc = "Commit"      /\ c.op = "DeleteUser" /\ c.id = c.actor /\ x.held = {c.actor} /\ x.gone = {c.actor}

TxInv(t) ==
    \/ call[t].resp # "pending" /\ tx[t] = NoTx
    \/ call[t].resp = "pending" /\ (CreateInv(t) \/ OtherInv(t))

\* Memberships go with the account.
MembersAreRegistered == \A m \in members : m.user \in Registered

StoredTrimmed == \A u \in users : Trim[u.email] = u.email /\ Trim[u.name] = u.name

IInv ==
    /\ TypeOK
    /\ AccountsAreComplete
    /\ KeysAreUnique
    /\ StoredTrimmed
    /\ \A t \in Txs : Entered(t) /\ TxInv(t)
    /\ \A s, t \in Txs : s # t => TxsApart(s, t)
=============================================================================
