# A verification of the Waypoint backend

Waypoint (`src/`) is a Go HTTP service over PostgreSQL: accounts tied to the
identities of an OIDC provider, workspaces with one owner and any number of
members, and a message service that no route exposes yet. This directory holds TLA+
models of it, the TLC runs that check them, and proofs checked by TLAPS.

The service itself keeps no state: a request runs on its own goroutine and everything it knows is in PostgreSQL.
What is hard is therefore hidden in SQL: which rows a
statement sees at READ COMMITTED, which it locks, whom it waits for, what a cascade
deletes, and what another transaction does between two statements. The models
keep the control of the Go code statement by statement and reduce the data to
sets of rows.

## 1. The system

| Component | State | Operations | Hard behaviour | Correct when | Module |
|---|---|---|---|---|---|
| workspace service (`internal/workspace/service.go`) | `workspaces`, `workspace_members` | CreateWorkspace, ReadWorkspace, AddWorkspaceMember, RemoveWorkspaceMember, DeleteWorkspace | each is a transaction of several statements that interleaves with the others and with account deletion; an insert error that falls through to the commit | every workspace has exactly one owner; a permission that was checked holds until the commit; calls look atomic | `WorkspaceTxns` |
| user service (`internal/user/service.go`) | `users`, `user_identities` | CreateUser, ReadUser, ReadUserProfile, ReadUserByIdentity, ListUsers, DeleteUser, GetActorID | registrations that race for three unique keys; a profile read in two transactions; an account deleted after its token was resolved; cascades of two deletions that cross | account and identity appear and vanish together; the loser of a race learns which key it lost; nobody's account is deleted by another | `Accounts`, `WorkspaceTxns` |
| message service (`internal/message`) | `direct_messages`, `messages`, `channels` | send, update, read, page, delete | reply counts kept by triggers; a root deleted under its replies; accounts that cannot be deleted while their messages exist | a count is the number of replies; nothing dangles; circles of waiting are rare and known | `Messages` |
| handlers (`internal/*/handler.go`, `internal/httpx`) | none | one per route: check the token, resolve the actor, parse, call the service, map the error | the order of the checks; an answer that hides a commit | a status tells the first fault, and whether there was a commit | `Server` |
| transactions and pool (`internal/db`) | connections | BeginTx, Commit, RollbackUnlessClosed, the sqlc queries | a rollback that is skipped, a client that goes away, requests that wait for the pool and for each other's locks | every connection comes back | `Server`, and the locks in the service modules |
| schema and migrations (`db/migrations`, `cmd/waypoint`) | version table, advisory lock, constraints | `migrate`, `serve`, `serve --migrate` | several starts at once; a file that fails half way; constraints added over existing data | the version tells the schema; nobody serves an older one | `Migrations` |
| authentication (`internal/middleware/authn.go`) | the provider's keys | ExtractAndValidateJWT | its place before everything else | no unchecked token resolves to an actor | `Server` |
| start and stop (`cmd/waypoint`, `internal/waypoint`) | server, pool | serve, Close | closing with handlers in progress, a killed process | nothing is left open | `Server`, `Migrations` |

Interaction: a handler calls `user.Service.GetActorID`, one query on a connection
of its own, then one service method, one transaction. Services share
nothing but the database; transactions meet only through row locks, through
the rows that others have committed, and through PostgreSQL's deadlock detector.
Requests also meet in the pool: the connection of the lookup is returned before the
transaction asks for one.

The hazards that follow from this are listed with their lines in
`PROJECT.json`; the properties below are aimed at them.

## 2. The modules

Every component has its own tower: the tables and the calls; what callers are
promised (*abstract*); what the code does (*detailed*); the properties and the
inductive invariant; the bounds for TLC; the theorems.

| | calls | abstract | detailed | properties | TLC | proofs |
|---|---|---|---|---|---|---|
| workspaces | `Schema`, `Calls` | `Directory` | `WorkspaceTxns` | `WorkspaceSafety` | `MCWorkspaceTxns` | `WorkspaceTxns_proofs`, `Directory_proofs` |
| messages | `MessageCalls` | `MessageStore` | `Messages` | `MessagesSafety` | `MCMessages` | `Messages_proofs`, `MessageStore_proofs`, `MessageLocks_proofs` |
| accounts | `AccountCalls` | `Registry` | `Accounts` | `AccountsSafety` | `MCAccounts` | `Accounts_proofs` |
| starts | | | `Migrations` | `MigrationsSafety` | `MCMigrations` | `Migrations_proofs` |
| requests | | | `Server` | `ServerSafety` | `MCServer` | `Server_proofs` |

Common to the first three: `call[t]` is the request in slot `t` of the server with
its answer (`pending`, `ok`, or an error), `tx[t]` the transaction that handles it,
whose `pc` names the statement that runs next. A transaction's writes are fields of
`tx[t]` until `Commit` applies them (`Apply`). `Arrive` and `Return` are what
happens before the first statement, validation included, and after the last. An
error returns from the method, whose deferred `RollbackUnlessClosed` ends the
transaction: `Refuse` is one step. `Failure` and `CommitLost` are any statement,
connection or commit that fails, and a commit that succeeds and reports an error.
Ids are recycled when nothing mentions them any more (`Fresh`), so a finite set of
ids stands for the unbounded supply of UUIDv7.

What PostgreSQL, pgxpool and golang-migrate do is not under `src/`; it is modelled
from their documented behaviour as far as this code depends on it, and marked external in the map of
`PROJECT.json`. The operators named *Mutant* in a comment are variants with a
plausible bug; no specification uses them, `PROJECT.json` pairs each with the
property it must break.

### Workspaces

**Schema.** A database is a set of rows: `UserRow(u)`, `WorkspaceRow(w)`,
`OwnerRow(w, u)`, `MemberRow(w, u)`. `Referencing(S, r)` are the rows that `ON
DELETE CASCADE` deletes with `r`. `Consistent` is what the constraints of the
schema enforce, and one thing they do not, that a workspace has an owner. The
role `admin` that the schema also allows is written by nobody and left out.

**Calls.** A request names its operation, the actor that `GetActorID` resolved, and
a workspace and a user where the operation has them. The errors
that `writeError` does not know, hence 500, are told apart by cause:
`ErrOwnerKey`, `ErrDeadlock`, `ErrInternal`.

**Directory.** Every call takes effect and is answered
at one moment. Two weaknesses are part of the promise because the code has them: an
unexpected error may hide a change that was made, and a `ReadWorkspace` is
*granted* at one moment and answers later, when the reader's account may be gone.

**WorkspaceTxns.** `held` and `shared` are the rows locked FOR UPDATE, and FOR KEY
SHARE by a foreign-key check; `puts` and `gone` the rows inserted and deleted; `todo`
those that the running DELETE and its cascades have yet to visit; `seen` the
membership list that ReadWorkspace has read.

| Action | Code |
|---|---|
| `CreateWorkspace`, `AddWorkspaceOwner`, `CommitAborted` | `CreateWorkspace` with its two inserts, and the commit it goes on to when the second insert fails otherwise than by the key to users |
| `LockWorkspaceRow`, `ListWorkspaceMembers`, `SelectWorkspaceMember`, `AddWorkspaceMember`, `RemoveWorkspaceMember`, `DeleteWorkspace` | the statements of the other four operations, with the branch the method takes on their result |
| `LockUserRow`, `DeleteWorkspacesOwnedByUser`, `DeleteUser` | the statements of `DeleteUser` |
| `VisitRow` | one row of a DELETE: wait for its lock, delete it and queue its cascade, or find it gone |
| `NothingRemoved`, `Commit` | `removed == 0`, and the end of the method |
| `DeadlockAbort` | PostgreSQL's 40P01: the detector (`Deadlocked`) looks for a circle in the graph `Blockers` |

A DELETE collects its rows when it starts, as READ COMMITTED
does, and visits them in any order, since the plan is the planner's choice.

### Messages

**MessageCalls.** `row[m]` has the author, and the recipient of a direct message or
the channel and the thread root of a channel message. `Cascade(S, row, R)` is what
goes with the rows `R`; `WrittenBy` the messages that refuse the deletion of an account (ON DELETE RESTRICT).
Nothing stops a reply to a reply, or a reply in another channel than its root; both are modelled.

**MessageStore.** Every call at one moment. It has no counter: the reply count it
returns is the number of replies.

**Messages.** Each call is one statement that commits by itself; what is hard is
inside it, and is taken apart row by row:

| Action | Code |
|---|---|
| `CheckKey` | the foreign keys of an INSERT, one at a time, each locking its row FOR KEY SHARE |
| `Increment`, `Decrement` | the triggers of migration 5; a decrement finds nothing when the same statement deletes the root |
| `Update`, `Read`, `ReadPage` | the updates of a body, which return the count, and the SELECTs; a page may have any number of the messages it is cut from |
| `Delete`, `VisitRow`, `DeletedNone` | DELETE of a message or of a workspace with its channel; its cascade, row by row; zero rows affected |
| `LockUserRow`, `DeleteWorkspacesOwnedByUser`, `DeleteUser` | what deleting an account does here: its workspaces' channels, then the restriction on messages |

An UPDATE locks FOR NO KEY UPDATE, which a key share does not conflict with, and
then works on the row's latest committed version (`val` is the count it writes).
PostgreSQL runs the cascades and triggers of a DELETE in rounds, in the order in which the
rows were deleted: of each row first its foreign keys, which delete the rows
that refer to it, then its trigger (their names sort so). What refers to those is left to the next
round. So channels go first, then their messages, and a decrement is due when the direct replies to
its row are gone, while the replies to these may still be waited for (`Visitable`, `Due`). Only
messages that the statement names or that go with their channel have a count to decrement: the root
of any other is deleted too. Within a round the model takes rows in any order.

### Accounts

**AccountCalls.** Texts are model values with a function `Trim`, so that blanks
matter: `Invalid` looks at trimmed texts, `KeyOf` says what is stored, which for the
identity is the untrimmed one. **Registry**: an account and its identity are one record.
Calls on behalf of a token have two moments: the token is resolved, and the call acts for
the account, which may be gone.

**Accounts.** `InsertKey` enters the new row in one unique index after the other
(email, user name, identity); an entry waits for the transaction that has inserted,
or is deleting, the same value. `SelectUserByIdentity`, `SelectUser`, `ListUsers`,
`ListUserWorkspaces`, `LockUserRow` and `DeleteUser` are the statements of the other
operations, `ChangeMembers` what the workspace service does to memberships meanwhile.

### Migrations

Processes started as `migrate`, `serve --migrate` or `serve` on one database:
`Start`, then golang-migrate as `migrations.go` uses it (`Open`, `Lock`,
`LockTimeout`, `ReadVersion`, `NextFile`, `RunFile`, `SetClean`), then `Connect`.
`Crash`, `Failure` and `AnswerLost` may strike at any step of it. Of the data there are the
replies of one thread, which migration 3 ignores, and the owners of one workspace,
which migration 6 builds a unique index over.

### Server

`rq[r]` is a request and the place of its handler: the token, the input, waiting for
a connection, a query, a transaction that may wait once for another one, the commit,
the answer. `ExtractAndValidateJWT`, `ReadInput`, `SelectUserByIdentity`, `Query`,
`Statements` and `Commit` take the branches of the handlers, `Acquire` and `AcquireFails`
are pgxpool, `Cancel` is a client that goes away, `Stop`, `Closed`, `Kill` and `Start` are the
process. What a transaction finds is the business of the service modules: here it may
be refused in any way that its service has (`Refusals`).

## 3. The runs

| Run | Instance | Question |
|---|---|---|
| `interleavings` | 3 accounts, 2 workspaces, 2 slots used again and again, failures | Do the invariants, the authorization of every change and the refinement of `Directory` hold in every interleaving? |
| `deadlocks` | 2 accounts, 2 workspaces, 3 calls, from every consistent directory | Can calls stand still, and which can wait for each other in a circle? |
| `liveness` | 2 accounts, 2 workspaces, 2 calls, from every consistent directory, failures, fairness | Is every call answered? |
| `threads` | 1 account, 2 channels, 4 messages, 2 slots used again and again, failures | Are the reply counts exact, do calls on threads look atomic, and who can be in a circle of waits? |
| `direct_messages` | 2 accounts with messages of both kinds, 1 channel, 2 messages, 3 slots used again and again | Does nothing dangle, and who can be in a circle of waits? |
| `message_liveness` | 1 account, 2 channels, 3 messages, 2 calls, from every store that calls can leave, failures, fairness | Is every call on messages answered? |
| `registrations` | 3 accounts, 1 workspace, texts with and without blanks, 2 slots used again and again, failures | Are accounts whole and unique when registrations, reads and deletions race? |
| `starts` | one process of each command, failures and crashes, fairness | Does the version tell the schema, whoever dies, and does every start end? |
| `requests` | 3 requests at a time, 2 connections, one route of each kind, failures | Do connections come back, and are answers true? |
| `server_liveness` | 2 requests, 2 connections, fairness | Is every request answered, and does Close return? |
| `old_threads` | a `serve --migrate` and a `serve` | *violation*: migration 3 over existing threads |
| `unmapped_token` | 2 requests, 1 connection | *violation*: the status of a token without an account |

Every passing safety run but `deadlocks` and `direct_messages` also checks the
inductive invariant `IInv` that the proofs use, and with it the type invariant, which
is its first conjunct (and, in `starts`, `LockIsReleased`).

**interleavings**

- `OneOwner`: the contract in the comment of `workspace.Service`, every workspace has
  exactly one owner, with the owner's account.
- `OwnerCheckStillValid`: the comment "concurrent workspace operations cannot
  invalidate the permission or membership checks before commit".
- `ReadListIsCurrent`: "keep the permission check and returned membership list
  consistent" — true but for one exception that the run made explicit: a
  member whose account is deleted while the list is being answered, since account
  deletion does not lock the workspaces the user is a plain member of.
- `ChangesAreAuthorized` (action property): "caller must be owner" of the API's
  documentation and "DeleteUser allows an actor to delete only their own local account",
  not when they were checked but when the change is committed. Each row
  that appears or disappears does so by a call whose actor may do it at that moment; a
  row caught by a cascade is no exception.
- `LockedWorkspaceIsStable` (action property): nobody changes a workspace whose row
  another transaction holds, with the same exception.
- `LinearizesToDirectory`: the refinement.

**deadlocks**: `NobodyStandsStill`, of any calls that wait for each other only, one is
free to go on or is in a circle that PostgreSQL breaks: no lock outlives its call. A circle of waiting transactions always holds two account
deletions (two users who are members of each other's workspaces, or in a shared
third one; such a request ends in a 500), and CreateWorkspace and ReadWorkspace are
never aborted by one. With two slots such a circle has exactly two transactions; the third slot
lets others queue behind or join in. **liveness**: `EveryCallAnswered` needs locks to be released on
every path and deadlocks to be broken.

**threads**: `ReplyCountsAreExact` ("ReplyCount is the number of replies in the
thread", `message/model.go:60`) through racing sends, body updates, which carry the
count along, and deletions of replies, roots and whole workspaces;
`LinearizesToMessageStore`; `DeadlockTakesTwoDeletions`, with threads that span channels.

**direct_messages**: `NoDanglingMessage` against deletions of authors, recipients,
channels and roots; `DirectMessagesNeverAborted`; the same refinement with the
operations on accounts and direct messages; `NobodyStandsStill`. `DeadlockTakesTwoDeletions`:
every circle has a deletion in it, and two as long as `ThreadsInOneChannel`:
nothing in the schema or in SendChannelMessage keeps a reply in its
root's channel. Where threads span channels, the deletion of a channel can have decremented a
root elsewhere that it is going to delete, and be in a circle with a single send to that root: `threads` reaches this.

**registrations**: `AccountsAreComplete` ("CreateUser atomically creates a profile and
its external identity mapping"), `KeysAreUnique`, `OnlyOwnAccountDeleted` (the token
is resolved several statements before the deletion), `ProfilesAreWhole` (a profile is read
in two statements and still one of a single moment), `NobodyWaitsForEver` (no circle of
waits among registrations and account deletions, hence none of their callers sees a 40P01),
`LinearizesToRegistry`: among other things, a loser is told the first of email, name
and identity that is taken at that moment.

**starts**: `SchemaMatchesVersion`, `ServesLatestSchema`, `SchemaMovesForward` (action
property: file by file, each on the schema just below it, and never twice on the data: a
thread lacks the replies that migration 3 missed for ever),
and `EveryStartEnds`, which takes the advisory lock to be given back by everyone who dies.

**requests**: `ConnectionsAreReturned` ("The caller must commit or roll back the
transaction", `db.go`), `NobodyStandsStill` (a handler that kept its lookup's
connection into the transaction would stop a small pool, with every connection in the hands of
a request that waits for another one), `EarliestFaultIsAnswered`
(the table of statuses in `docs/api`), `AnswerTellsCommit` (every status but 500).
**server_liveness**: `EveryRequestAnswered`, `CloseReturns`. With its two requests nobody waits for the pool as
long as each takes one connection at a time; that requests wait for connections and locks at once is
`requests` with its third one, which is too many for the liveness check.

*Findings.* `old_threads`: migration 3 gives roots that have replies a count of zero;
the trace shows a count below the number of replies. That the last replies then cannot be
deleted is not part of the property: it follows from the CHECK, which refuses their decrements. `unmapped_token`: `GET /me` with a valid token that maps to nobody is answered with
404, where `docs/api/README.md` promises 403 for every such request.

*Bounds.* Row locks and cascades relate at most two workspaces and two accounts at a
time: an owner, a member, the member's own workspace; the third account of
`interleavings` is the one that is added, removed, or deleted beside them. Two
transactions are what a lost update or a stale check takes; circles get three. Four messages of `threads` are a root, a reply to
it, a reply to the reply, and one being sent; two are enough for `direct_messages`,
where the account and not the thread is at stake. Two email texts that trim to one
value, two that do not, and two subjects that differ in blanks are what
validation and storage can treat differently. `requests` takes one route of each kind
(`Kinds`): the others differ from AddWorkspaceMember, and ListUsers from GetUser, in
their statuses only; three requests on two connections make one wait for the pool while
another waits for a lock. `MaxReplies` and `MaxOwners` are bounds on data in
`Migrations`. Accounts of `WorkspaceTxns` and
`Messages` are not registered again in their runs. `IdsLeft` keeps a CreateWorkspace of the bounded
runs from waiting for an id, which the code never does. Runs whose cfg says
`CHECK_DEADLOCK FALSE` may run out of ids or accounts, after which nothing need
happen. Symmetry is used in safety runs only.

*Fairness.* `WF(Step(t))` for every slot of the service modules: a handler runs on its own goroutine,
its context has no deadline, and PostgreSQL wakes a waiter when the lock it waits
for is released. Weak fairness is enough there: a transaction that waits is not enabled,
and each lock is held for finitely many statements while the bounded runs make finitely
many calls. In `Server`, whose requests come back for ever, `SF` of `Statements` and of
the acquisition of a connection: pgxpool and PostgreSQL serve their queues in turn. `WF(Closed)`: Close returns once it can. In
`Migrations`, `SF(Open)`, since PostgreSQL hands the advisory lock to its waiters, and
`WF` of a process's other steps, among which is golang-migrate giving up the wait. Neither failures,
crashes, cancellations nor arrivals are assumed to happen.

## 4. The proofs

For every choice of the constants, finite or infinite, under the named ASSUMEs of the
modules: ids are apart from each other and from `None`, operations are known ones,
`Faults` is Boolean; the set of messages is finite (reply counts are
cardinalities), every channel has an owner, `Trim` is idempotent. No proof relies on
a number of slots, accounts, messages, processes, requests or connections; the
`SomebodyGoesOn` of workspaces and messages take the slots to be finitely many, as a chain of waits without an end
has nobody to go on.

| Module | Theorems (each `Spec => []...` or `Spec => ...`) |
|---|---|
| `WorkspaceTxns_proofs` | `TypeCorrect`, `Invariance` (`IInv`), `OwnerInvariant` (`OneOwner`), `OwnerCheckHolds`, `ReadListHolds`, `AuthorizedChanges` (`ChangesAreAuthorized`), `TargetDeleted` (`LockedTargetIsDeleted`: the `removed == 0` branches of DeleteWorkspace and DeleteUser are dead), `WorkspaceStable`, `SomebodyGoesOn` (`NobodyStandsStill`), `Advance` (`TransactionsAdvance`), `CirclesOfDeletions` (`DeadlockTakesTwoAccountDeletions`), `CreatesAndReadsGoOn` (`CreatesAndReadsNeverAborted`) |
| `Directory_proofs` | `Linearizes` (WorkspaceTxns implements `Directory`), `ContractIsConsistent` (`Directory` keeps `Consistent`) |
| `Messages_proofs` | `TypeCorrect`, `Invariance`, `ReplyCounts` (`ReplyCountsAreExact`), `NoFailedCheck` (`CheckNeverFails`: the CHECK on the count, which the comment of the decrement warns of, refuses nothing), `ReferencesHold` (`NoDanglingMessage`) |
| `MessageStore_proofs` | `Linearizes` (Messages implements `MessageStore`), `ContractKeepsReferences` (`MessageStore` keeps `NoDanglingMessage`) |
| `MessageLocks_proofs` | `DirectMessagesGoOn` (`DirectMessagesNeverAborted`), `CirclesTakeTwoDeletions` (`DeadlockTakesTwoDeletions`), `SomebodyGoesOn` (`NobodyStandsStill`), `Advance` (`TransactionsAdvance`) |
| `Accounts_proofs` | `TypeCorrect`, `Invariance`, `CompleteAccounts`, `UniqueKeys`, `OwnDeletions`, `NoDeadlock` (`NobodyWaitsForEver`), `WholeProfiles` (`ProfilesAreWhole`), `Linearizes` (Accounts implements `Registry`), `ContractKeepsAccountsApart` (`Registry` keeps accounts and keys apart) |
| `Migrations_proofs` | `TypeCorrect`, `Invariance`, `VersionedSchema`, `FilesInOrder` (`FilesRunOnceInOrder`), `ForwardOnly` (`SchemaMovesForward`), `LatestServed`, `LockReleased` |
| `Server_proofs` | `TypeCorrect`, `Invariance`, `PoolIsWhole`, `NoHoldAndWait` (`NobodyHoldsAndWaits`), `SomebodyGoesOn` (`NobodyStandsStill`), `FaultsInOrder`, `TrueAnswers`, `CallersOnly` (`OnlyCallersReachServices`) |

**Workspaces.** `OneOwner` speaks of committed rows only and is not inductive: whether a commit keeps
it depends on what the transaction has locked and written before. `IInv` adds
`LocksExclude` (no row is locked or written by one transaction and locked or written by
another), `WriteSetFits` (deleted and locked rows are committed, inserted ones are not),
`CascadeFollows` (what a deletion still has to reach is in `todo`, and an owner's
row goes only together with its workspace), `NewIdsUnknown`, and `TxInv`: for each operation, what its transaction has locked, written, read and
checked at each statement. For `DeleteUser`: every workspace its user owns has been
deleted or is going to be, which the lock on the account keeps true because the
owner's insert of CreateWorkspace needs that row FOR KEY SHARE. A step that leaves `db`
alone only has to restore the conjuncts of its own transaction (`QuietStep`), one that
ends a transaction without effect is `RefuseStep`. A commit is the hard case: `WritesOfCommit` derives from `IInv` what a
transaction about to commit has written under which locks, `CommitConsistent` that the
schema survives it, `CommitSeenByOthers` what it leaves of the facts the other
transactions rely on, and `CommitStep` puts them together; `WorkspaceStable` reuses them.

The circles: whoever is waited for is past its first lock (`BlockersHold`; key shares are
on accounts only, `KeyShares`). Such a call, unless it is a `DeleteUser`, waits only for account
deletions, and none of these waits for it (`WaitsForDeletions`), so that a circle needs
another one. A ReadWorkspace waits for its first lock only, and nobody waits
for the row of a workspace that is being created.

`AuthorizedChanges` looks at the one step that changes rows, a commit. `TxInv` says what
it writes and that the owner check still holds (`CommitAuthorized`). A `DeleteUser` is the
hard case: its user is its actor (`SelfDeletes`), but its cascades have collected rows
statements ago, in workspaces that the user owned then; each is the user's own
membership, or belongs to a workspace that goes with it and is still owned by that user.

**Why calls end.** Liveness is out of the prover's reach, but the two facts it rests on are
safety and proved for any finite number of calls at a time. `SomebodyGoesOn`: of the sets of
calls that are closed under waiting and have a pending call in them, take one that contains no smaller
one. If its pending call waits for somebody and is in no circle, then those
it waits for, and all whom these wait for in turn, are a smaller such set. What the code contributes
is that whoever is waited for is pending (`BlockersArePending`): an answered call has no lock left. `Advance`: a step of a pending call is to a later statement, or deletes
one more row, or has one row less to visit or one trigger less to run, and releases
nothing (two-phase locking). Since rows are finitely many, no
call takes steps for ever, although other calls change the rows that it is to visit. With the fairness
of the runs the two make `EveryCallAnswered`; that last inference is TLC's.

`Linearizes` takes `IInv` and maps each statement to the one moment of its call or to
nothing. The hard case is a deletion's commit: what its cascades have deleted one by one (`gone`) is exactly what
`Directory` deletes at once. `CommitAborted` can follow a fault only, since a
CreateWorkspace is no deadlock's victim.

A refinement is worth what the abstract specification promises, so the contracts have
theorems of their own, over their own steps: `ContractIsConsistent`,
`ContractKeepsReferences` (the cascade of a set of rows leaves nothing that refers to them:
`CascadeGrows`) and `ContractKeepsAccountsApart`.

**Messages.** A stored count is right between transactions and wrong inside one. `IInv`
says how wrong: for every row a transaction has updated (`Accounts(t)`), the count it will
write is the committed one, less the deleted replies whose trigger has run (`dec`), plus
the reply it sends. Since nobody else updates a row so updated (`LockedApart`), and a deleted
reply whose root survives must have been decremented before the statement is over
(`ToDecrement`), the commit replaces the count by the number of replies that are left. The cardinalities
come from the finite-set library, and `CheckNeverFails` follows because a set of deleted
replies is no larger than the set of replies.

`Linearizes` needs more than `IInv`: `Stands` adds, for a deletion, that the rows it names
are deleted or still to be visited, that all it has reached belongs to their cascade, and that it has
updated only roots whose replies it has deleted (`DeletionInv`). `Cascade` is
the least set closed under references, so that rows within it (`CascadeLeast`) which are closed under
references and contain the named ones are all of it (`WholeCascade`); this has to survive
the commits of others, which add and remove references (`CascadeSurvives`).

The circles: of those who wait themselves, a call that is no deletion waits for deletions only
(`OthersWaitForDeletions`), so that each circle has one. That it has two needs the order of the locks, in `Orderly`: a Send has its channel's key before its
root's, and both before it counts (`KeysFit`); a deletion visits
channels before messages, and every message it has reached is named, or follows a root or channel
that is gone (`Ordered`); a message is younger than its root (`ThreadsAreTrees`). A call that is no
deletion holds only keys while it waits (`OthersHoldKeys`), so only a
deletion's visit waits for it. That deletion has not taken the root the Send is waiting
for: as long as it has the Send's channel to visit it has deleted no message, and it never
decrements the count of a root that goes in the same statement (`RootGoesFirst`). A call on a
direct message holds only keys of accounts while it waits, which keep a deletion from
`LockUserRow`, where it holds nothing yet.

**Accounts.** What a running registration has entered in an index is equal to no
committed value (`Entered`) and to no other running entry (`TxsApart`), because it
waited; what a deletion has locked is there and locked by nobody else; a resolved token
keeps standing for its account while that lasts (`Resolved`), and with it the profile of
which one half has been read (`WholeProfiles`). In the refinement the accounts of `Registry` are the join of the two tables,
total by `AccountsAreComplete`, and each action maps to the one it names (`InsertKeyRefines`, …,
`CommitRefines`). `NoDeadlock` orders the statements email < name < identity < the rest:
everybody waits for somebody further on (`WaitsAhead`), so no set of waiters is closed.

**Migrations.** `IInv` ties the place of the process that holds the lock to the version
table: at `files` the version is clean and the one it has read, at `run` dirty and one
ahead of the files applied, at `clean` the file is applied. Whoever fails
there leaves it dirty, and nobody gets past `ReadVersion` any more. `ForwardOnly` reads off it
that only the process with the lock, at `run`, changes the schema, and by the next file.

**Server.** `IInv` says which checks a handler has passed at each place, and that it has a connection
exactly at the places in `Holding`. `SomebodyGoesOn` adds `WaitsEnd`, that no set of requests
waits within itself: who is waited for does not wait when the wait begins (`Wait`), and only a
`Wait` adds to who waits for whom (`OnlyWaitWaits`). So behind a connection that is not idle, and is
with a request that waits, there is one that goes on. It holds for infinitely many requests too.

Only model-checked: everything that must eventually happen (`EveryCallAnswered` of
workspaces and messages, `EveryStartEnds`, `EveryRequestAnswered`, `CloseReturns`), since liveness under
fairness is out of the prover's reach. Every other property of a passing run is a theorem,
and some theorems state what no run lists, because a property of a run implies them or
(`TransactionsAdvance`) because the liveness runs depend on it.

## 5. Not modelled, and why

- Bodies, display names, timestamps, the order of lists and, with them, what a caller
  makes of several pages: LIMIT and OFFSET over a list that changes between two
  requests skip and repeat messages. Every page by itself is in `Messages`, the service promises nothing about several, and
  a caller that would put them together does not exist.
- Channels and channel members: no service runs their queries. Channels are constants
  of `Messages` that vanish with their workspace.
- The cryptography of tokens, discovery and the JWKS refresh; flags and environment;
  TLS; Docker: libraries and I/O. A token is valid or not.
- Parsing and encoding (`httpx`): a request's input is good or not, and `Server` has the step that finds out.
- The down migrations: the program never runs them.
- Tests and fixtures: read for what they promise.
- The services are not composed into one state: they share rows of `users` and
  `workspaces` only through the locks and cascades of account deletion, which each
  module has the part of that concerns its own tables.

## 6. Plan

What is left:

1. Channels, once a service uses their queries; the message service's handlers, once
   a route exposes them.
2. A composition of `WorkspaceTxns` and `Messages` over shared rows of `users` and
   `workspaces`, should a service come to use both in one transaction.
