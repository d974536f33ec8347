------------------------------ MODULE Migrations ------------------------------
(***************************************************************************)
(* The start of the program: `waypoint migrate` and `waypoint serve`, with *)
(* or without --migrate, any number of them on one database and at one     *)
(* time, and golang-migrate below them, as migrations.go uses it.  Each    *)
(* file runs as one transaction, between two updates of the version table. *)
(* Of the data, only what a migration can trip over: the replies of one    *)
(* thread root and the owners of one workspace.                            *)
(***************************************************************************)
EXTENDS Naturals

CONSTANTS
    Procs,       \* the processes on one database
    CommandOf,   \* what each was started with
    None,        \* no process
    MaxReplies,  \* bound: the replies of the root
    MaxOwners,   \* bound: the owners of the workspace
    Faults       \* whether statements and connections can fail

Commands == {"migrate", "serve --migrate", "serve"}

ASSUME CommandsAreKnown == CommandOf \in [Procs -> Commands] /\ None \notin Procs
ASSUME BoundsAreNaturals == MaxReplies \in Nat /\ MaxOwners \in Nat
ASSUME FaultsIsBoolean  == Faults \in BOOLEAN

\* The embedded files, by number; those that touch or read data that exists.
Files == 1..6
Latest == 6
ReplyCountFile == 3
SingleOwnerFile == 6

VARIABLES
    db,    \* the database: version table, applied files, data
    lock,  \* the process that holds the advisory lock of golang-migrate
    proc   \* proc[p]: where p is, and the version that it has read or set

vars == <<db, lock, proc>>

Databases ==
    [version : 0..Latest, dirty : BOOLEAN, applied : SUBSET Files,
     replies : 0..MaxReplies, count : 0..MaxReplies, owners : 0..MaxOwners]

Places == {"down", "open", "lock", "version", "files", "run", "clean", "connect",
           "serving", "migrated", "failed"}

Running == Places \ {"down", "migrated", "failed"}

Init ==
    /\ db = [version |-> 0, dirty |-> FALSE, applied |-> {}, replies |-> 0, count |-> 0,
             owners |-> 0]
    /\ lock = None
    /\ proc = [p \in Procs |-> [pc |-> "down", at |-> 0]]

Goto(p, pc) == proc' = [proc EXCEPT ![p].pc = pc]
Migrates(p) == CommandOf[p] # "serve"

-----------------------------------------------------------------------------
(* Up. *)

\* Mutant: a server starts even though its database could not be migrated.
UpFailedAndServe(p) ==
    /\ Goto(p, IF CommandOf[p] = "serve --migrate" THEN "connect" ELSE "failed")
    /\ lock' = IF lock = p THEN None ELSE lock

\* Up returns an error, and New or the command with it; the lock is released.
UpFailed(p) ==
    /\ Goto(p, "failed")
    /\ lock' = IF lock = p THEN None ELSE lock

\* Mutant: the lock stays until the process ends.
UpFinishedLocked(p) ==
    /\ Goto(p, IF CommandOf[p] = "migrate" THEN "migrated" ELSE "connect")
    /\ UNCHANGED lock

\* Up returns nil, also for ErrNoChange.
UpFinished(p) ==
    /\ Goto(p, IF CommandOf[p] = "migrate" THEN "migrated" ELSE "connect")
    /\ lock' = None

\* A process starts; afresh after it has ended.
Start(p) ==
    /\ proc[p].pc \notin Running
    /\ Goto(p, IF Migrates(p) THEN "open" ELSE "connect")
    /\ UNCHANGED <<db, lock>>

\* Opening the database makes sure, under the lock, that the version table exists.
Open(p) ==
    /\ proc[p].pc = "open" /\ lock = None
    /\ Goto(p, "lock")
    /\ UNCHANGED <<db, lock>>

\* Mutant: every process migrates at once.
LockNothing(p) ==
    /\ proc[p].pc = "lock"
    /\ Goto(p, "version") /\ UNCHANGED <<db, lock>>

Lock(p) ==
    /\ proc[p].pc = "lock" /\ lock = None
    /\ lock' = p
    /\ Goto(p, "version") /\ UNCHANGED db

\* golang-migrate gives up waiting after 15 seconds.
LockTimeout(p) ==
    /\ proc[p].pc = "lock" /\ lock # None
    /\ UpFailed(p) /\ UNCHANGED db

\* Mutant: a dirty version is migrated again.
ReadVersionForce(p) ==
    /\ proc[p].pc = "version"
    /\ proc' = [proc EXCEPT ![p] = [pc |-> "files",
                                    at |-> IF db.dirty THEN db.version - 1 ELSE db.version]]
    /\ UNCHANGED <<db, lock>>

ReadVersion(p) ==
    /\ proc[p].pc = "version"
    /\ \/ db.dirty /\ UpFailed(p) /\ UNCHANGED db
       \/ /\ ~db.dirty
          /\ proc' = [proc EXCEPT ![p] = [pc |-> "files", at |-> db.version]]
          /\ UNCHANGED <<db, lock>>

\* Mutant: the version is set as if the file had run.
NextFileClean(p) ==
    /\ proc[p].pc = "files"
    /\ \/ proc[p].at = Latest /\ UpFinished(p) /\ UNCHANGED db
       \/ /\ proc[p].at < Latest
          /\ db' = [db EXCEPT !.version = proc[p].at + 1]
          /\ proc' = [proc EXCEPT ![p] = [pc |-> "run", at |-> proc[p].at + 1]]
          /\ UNCHANGED lock

\* The version table is set to the next file, dirty, before the file runs.
NextFile(p) ==
    /\ proc[p].pc = "files"
    /\ \/ proc[p].at = Latest /\ UpFinished(p) /\ UNCHANGED db
       \/ /\ proc[p].at < Latest
          /\ db' = [db EXCEPT !.version = proc[p].at + 1, !.dirty = TRUE]
          /\ proc' = [proc EXCEPT ![p] = [pc |-> "run", at |-> proc[p].at + 1]]
          /\ UNCHANGED lock

\* What file f makes of the data that exists: reply counts start at zero, and the
\* index on owners cannot be built over two of them.
CanApply(f) == f = SingleOwnerFile => db.owners <= 1
Applied(f) ==
    [db EXCEPT !.applied = @ \cup {f}, !.count = IF f = ReplyCountFile THEN 0 ELSE @]

RunFile(p) ==
    LET f == proc[p].at IN
    /\ proc[p].pc = "run"
    /\ \/ ~CanApply(f) /\ UpFailed(p) /\ UNCHANGED db
       \/ CanApply(f) /\ db' = Applied(f) /\ Goto(p, "clean") /\ UNCHANGED lock

SetClean(p) ==
    /\ proc[p].pc = "clean"
    /\ db' = [db EXCEPT !.dirty = FALSE]
    /\ Goto(p, "files") /\ UNCHANGED lock

-----------------------------------------------------------------------------
(* Failures. *)

\* A statement of Up fails, or the ping of the pool.
Failure(p) ==
    /\ Faults
    /\ proc[p].pc \in Running \ {"serving"}
    /\ UpFailed(p) /\ UNCHANGED db

\* A file has been run, or the version table set, but the answer is lost.
AnswerLost(p) ==
    /\ Faults
    /\ \/ proc[p].pc = "run" /\ CanApply(proc[p].at) /\ db' = Applied(proc[p].at)
       \/ proc[p].pc = "clean" /\ db' = [db EXCEPT !.dirty = FALSE]
    /\ UpFailed(p)

\* The process is killed, and its session with its lock ends.
Crash(p) ==
    /\ Faults
    /\ proc[p].pc \in Running
    /\ Goto(p, "down")
    /\ lock' = IF lock = p THEN None ELSE lock
    /\ UNCHANGED db

-----------------------------------------------------------------------------
(* Serving. *)

\* db.New, then ListenAndServe.
Connect(p) ==
    /\ proc[p].pc = "connect"
    /\ Goto(p, "serving") /\ UNCHANGED <<db, lock>>

\* What earlier releases and others do to the data: the triggers keep the count from
\* the moment they exist, and the CHECK refuses a count below zero.
InsertReply ==
    /\ 1 \in db.applied /\ db.replies < MaxReplies
    /\ db' = [db EXCEPT !.replies = @ + 1,
                        !.count = IF ReplyCountFile \in db.applied THEN @ + 1 ELSE @]
    /\ UNCHANGED <<lock, proc>>

DeleteReply ==
    /\ db.replies > 0
    /\ ReplyCountFile \in db.applied => db.count > 0
    /\ db' = [db EXCEPT !.replies = @ - 1,
                        !.count = IF ReplyCountFile \in db.applied THEN @ - 1 ELSE @]
    /\ UNCHANGED <<lock, proc>>

ChangeOwners ==
    /\ 1 \in db.applied
    /\ \E n \in 0..MaxOwners :
          /\ SingleOwnerFile \in db.applied => n <= 1
          /\ db' = [db EXCEPT !.owners = n]
    /\ UNCHANGED <<lock, proc>>

-----------------------------------------------------------------------------
Step(p) ==
    \/ Lock(p) \/ LockTimeout(p) \/ ReadVersion(p) \/ NextFile(p) \/ RunFile(p)
    \/ SetClean(p) \/ Connect(p)

Next ==
    \/ \E p \in Procs :
          Start(p) \/ Open(p) \/ Step(p) \/ Failure(p) \/ AnswerLost(p) \/ Crash(p)
    \/ InsertReply \/ DeleteReply \/ ChangeOwners

Spec == Init /\ [][Next]_vars

\* A process runs on, and PostgreSQL hands an advisory lock to who waits for it.
Fairness == \A p \in Procs : WF_vars(Step(p)) /\ SF_vars(Open(p))
=============================================================================
