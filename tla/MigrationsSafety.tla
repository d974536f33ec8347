--------------------------- MODULE MigrationsSafety ---------------------------
(***************************************************************************)
(* Correctness of Migrations.                                              *)
(***************************************************************************)
EXTENDS Migrations

\* The variables have their types.
TypeOK ==
    /\ db \in Databases
    /\ lock \in Procs \cup {None}
    /\ proc \in [Procs -> [pc : Places, at : 0..Latest]]

\* "Migrations run in order and are tracked by golang-migrate"
\* (docs/database/README.md:15): whoever migrates, crashes or fails, a clean version
\* says which files have been applied, and a dirty one leaves only its own file open.
SchemaMatchesVersion ==
    \/ db.applied = 1..db.version
    \/ db.dirty /\ db.applied = 1..(db.version - 1)

\* No file is run on a schema that has it, nor before its predecessor, although
\* several processes migrate and each has read the version several steps before.
FilesRunOnceInOrder ==
    \A p \in Procs :
        proc[p].pc = "run" => db.applied = 1..(proc[p].at - 1) /\ db.version = proc[p].at

\* "--migrate applies embedded pending migrations before the server starts"
\* (docs/development/local-setup.md:20): a server started with it serves the latest
\* schema only, whatever other processes do to the database meanwhile.
ServesLatestSchema ==
    \A p \in Procs :
        CommandOf[p] = "serve --migrate" /\ proc[p].pc \in {"connect", "serving"} =>
            db.applied = Files /\ ~db.dirty

\* Whoever migrates, dies and starts again, the schema moves forward file by file, each
\* on the schema just below it, and no file touches the data twice: once replies are
\* counted, their number and the counter change together, so that a thread lacks the
\* replies it had before for ever.
SchemaMovesForward ==
    [][/\ db.version <= db'.version
       /\ db'.applied # db.applied =>
             db.dirty /\ db.applied = 1..(db.version - 1) /\ db'.applied = 1..db.version
       /\ ReplyCountFile \in db.applied => db'.replies + db.count = db.replies + db'.count
      ]_vars

\* Who has ended, or serves, keeps nobody from migrating.
LockIsReleased ==
    \A p \in Procs : lock = p <=> proc[p].pc \in {"version", "files", "run", "clean"}

\* Every start comes to an end: the process serves, has migrated or has failed (or is
\* killed), whoever holds the lock and however often they die.
EveryStartEnds ==
    \A p \in Procs :
        proc[p].pc = "open" ~> proc[p].pc \in {"serving", "migrated", "failed", "down"}

\* "ReplyCount is the number of replies in the thread" (message/model.go:60).
ReplyCountIsNumberOfReplies == Files = db.applied => db.count = db.replies

\* What keeps SchemaMatchesVersion and the order of the files: who holds the lock has
\* read or set the version.
IInv ==
    /\ TypeOK
    /\ SchemaMatchesVersion
    /\ FilesRunOnceInOrder
    /\ ServesLatestSchema
    /\ LockIsReleased
    /\ db.count <= db.replies /\ (ReplyCountFile \in db.applied \/ db.count = 0)
    /\ \A p \in Procs :
          /\ proc[p].pc = "files" => ~db.dirty /\ db.version = proc[p].at
          /\ proc[p].pc = "run"   => db.dirty /\ proc[p].at > 0
          /\ proc[p].pc = "clean" =>
                db.dirty /\ db.version = proc[p].at /\ db.applied = 1..proc[p].at
=============================================================================
