-------------------------- MODULE Migrations_proofs --------------------------
(***************************************************************************)
(* Proofs about Migrations, for any number of processes, replies, owners.  *)
(***************************************************************************)
EXTENDS MigrationsSafety, TLAPS

\* What IInv says of one process.
LocalTo(p) ==
    /\ proc[p].pc = "run" => db.applied = 1..(proc[p].at - 1) /\ db.version = proc[p].at
    /\ CommandOf[p] = "serve --migrate" /\ proc[p].pc \in {"connect", "serving"} =>
          db.applied = Files /\ ~db.dirty
    /\ lock = p <=> proc[p].pc \in {"version", "files", "run", "clean"}
    /\ proc[p].pc = "files" => ~db.dirty /\ db.version = proc[p].at
    /\ proc[p].pc = "run"   => db.dirty /\ proc[p].at > 0
    /\ proc[p].pc = "clean" =>
          db.dirty /\ db.version = proc[p].at /\ db.applied = 1..proc[p].at

\* What it says of the database.
DataInv ==
    /\ SchemaMatchesVersion
    /\ db.count <= db.replies /\ (ReplyCountFile \in db.applied \/ db.count = 0)

LEMMA IInvIsLocal == IInv <=> TypeOK /\ DataInv /\ \A p \in Procs : LocalTo(p)
BY DEF IInv, DataInv, LocalTo, FilesRunOnceInOrder, ServesLatestSchema, LockIsReleased

LEMMA IInvIsLocalNext ==
    TypeOK' /\ DataInv' /\ (\A p \in Procs : LocalTo(p)') => IInv'
BY DEF IInv, DataInv, LocalTo, FilesRunOnceInOrder, ServesLatestSchema, LockIsReleased

\* A step of p that leaves the database alone concerns p and the lock.
LEMMA ProcStep ==
    ASSUME IInv, NEW p \in Procs, NEW x \in [pc : Places, at : 0..Latest],
           proc' = [proc EXCEPT ![p] = x], UNCHANGED db,
           lock' = lock \/ (lock' = p /\ lock = None) \/ (lock' = None /\ lock = p),
           LocalTo(p)'
    PROVE  IInv'
<1>1. TypeOK /\ DataInv /\ \A q \in Procs : LocalTo(q)
    BY IInvIsLocal
<1>2. TypeOK'
    BY <1>1 DEF TypeOK
<1>3. DataInv'
    BY <1>1 DEF DataInv, SchemaMatchesVersion
<1>4. ASSUME NEW q \in Procs, q # p PROVE LocalTo(q)'
    <2>1. proc'[q] = proc[q] /\ LocalTo(q) /\ q # None
        BY <1>1, <1>4, CommandsAreKnown DEF TypeOK
    <2>2. (lock' = q) <=> (lock = q)
        BY <1>4, <2>1
    <2> QED BY <2>1, <2>2 DEF LocalTo
<1> QED BY <1>2, <1>3, <1>4, IInvIsLocalNext

\* A process leaves Up with an error.
LEMMA FailedStep ==
    ASSUME IInv, NEW p \in Procs, UpFailed(p), UNCHANGED db PROVE IInv'
<1> DEFINE x == [proc[p] EXCEPT !.pc = "failed"]
<1>1. proc \in [Procs -> [pc : Places, at : 0..Latest]] /\ LocalTo(p)
    BY IInvIsLocal DEF TypeOK
<1>2. x \in [pc : Places, at : 0..Latest] /\ proc' = [proc EXCEPT ![p] = x] /\ x.pc = "failed"
    BY <1>1 DEF UpFailed, Goto, Places
<1> HIDE DEF x
<1>3. lock' = lock \/ (lock' = None /\ lock = p)
    BY DEF UpFailed
<1>4. proc'[p] = x /\ lock' # p
    BY <1>1, <1>2, CommandsAreKnown DEF UpFailed
<1>5. LocalTo(p)'
    BY <1>2, <1>4 DEF LocalTo
<1> QED BY <1>2, <1>3, <1>5, ProcStep

\* The holder of the lock sets the version or runs a file.
LEMMA HolderStep ==
    ASSUME IInv, NEW p \in Procs, lock = p, NEW x \in [pc : Places, at : 0..Latest],
           proc' = [proc EXCEPT ![p] = x], lock' = p \/ lock' = None,
           ~(db.applied = Files /\ ~db.dirty),
           db' \in Databases, DataInv', LocalTo(p)'
    PROVE  IInv'
<1>1. TypeOK /\ DataInv /\ \A q \in Procs : LocalTo(q)
    BY IInvIsLocal
<1>2. TypeOK'
    BY <1>1 DEF TypeOK
<1>3. ASSUME NEW q \in Procs, q # p PROVE LocalTo(q)'
    <2>1. proc'[q] = proc[q] /\ LocalTo(q) /\ q # None /\ lock # q /\ lock' # q
        BY <1>1, <1>3, CommandsAreKnown DEF TypeOK
    <2> QED BY <2>1 DEF LocalTo
<1> QED BY <1>2, <1>3, IInvIsLocalNext

\* A change of the data leaves the version table alone.
LEMMA DataStep ==
    ASSUME IInv, db' \in Databases, UNCHANGED <<lock, proc>>,
           db'.applied = db.applied, db'.version = db.version, db'.dirty = db.dirty,
           db'.count <= db'.replies, ReplyCountFile \in db.applied \/ db'.count = 0
    PROVE  IInv'
<1>1. TypeOK /\ DataInv /\ \A q \in Procs : LocalTo(q)
    BY IInvIsLocal
<1>2. TypeOK' /\ DataInv'
    BY <1>1 DEF TypeOK, DataInv, SchemaMatchesVersion
<1>3. \A q \in Procs : LocalTo(q)'
    BY <1>1 DEF LocalTo
<1> QED BY <1>2, <1>3, IInvIsLocalNext

-----------------------------------------------------------------------------
(* The actions. *)

\* A process moves to another place of Up, or past it, and keeps its version.
LEMMA MoveStep ==
    ASSUME IInv, NEW p \in Procs, NEW pc \in Places, Goto(p, pc), UNCHANGED db,
           \/ pc \in {"down", "open", "lock", "migrated"} /\ lock = p /\ lock' = None
           \/ pc \in {"down", "open", "lock", "migrated"} /\ lock # p /\ lock' = lock
           \/ pc = "version" /\ lock = None /\ lock' = p
           \/ /\ pc = "connect" /\ (CommandOf[p] = "serve" \/ (db.applied = Files /\ ~db.dirty))
              /\ (lock = p /\ lock' = None) \/ (lock # p /\ lock' = lock)
           \/ pc = "serving" /\ proc[p].pc = "connect" /\ lock' = lock
    PROVE  IInv'
<1> DEFINE x == [proc[p] EXCEPT !.pc = pc]
<1>1. proc \in [Procs -> [pc : Places, at : 0..Latest]] /\ LocalTo(p) /\ p # None
    BY IInvIsLocal, CommandsAreKnown DEF TypeOK
<1>2. x \in [pc : Places, at : 0..Latest] /\ proc' = [proc EXCEPT ![p] = x] /\ x.pc = pc
    BY <1>1 DEF Goto
<1> HIDE DEF x
<1>3. lock' = lock \/ (lock' = p /\ lock = None) \/ (lock' = None /\ lock = p)
    OBVIOUS
<1>4. proc'[p] = x
    BY <1>1, <1>2
<1>5. LocalTo(p)'
    BY <1>1, <1>2, <1>4 DEF LocalTo
<1> QED BY <1>2, <1>3, <1>5, ProcStep

LEMMA ReadVersionInv == ASSUME IInv, NEW p \in Procs, ReadVersion(p) PROVE IInv'
<1> DEFINE x == [pc |-> "files", at |-> db.version]
<1>1. /\ proc \in [Procs -> [pc : Places, at : 0..Latest]] /\ LocalTo(p) /\ p # None
      /\ db \in Databases
    BY IInvIsLocal, CommandsAreKnown DEF TypeOK
<1>2. CASE UpFailed(p) /\ UNCHANGED db
    BY <1>2, FailedStep
<1>3. CASE /\ proc[p].pc = "version" /\ ~db.dirty
           /\ proc' = [proc EXCEPT ![p] = x] /\ UNCHANGED <<db, lock>>
    <2>1. x \in [pc : Places, at : 0..Latest] /\ x.pc = "files" /\ x.at = db.version
        BY <1>1 DEF Databases, Places
    <2> HIDE DEF x
    <2>2. proc'[p] = x
        BY <1>1, <1>3
    <2>3. LocalTo(p)'
        BY <1>1, <1>3, <2>1, <2>2 DEF LocalTo
    <2> QED BY <1>3, <2>1, <2>3, ProcStep
<1> QED BY <1>2, <1>3 DEF ReadVersion

LEMMA NextFileInv == ASSUME IInv, NEW p \in Procs, NextFile(p) PROVE IInv'
<1> DEFINE f == proc[p].at + 1
           x == [pc |-> "run", at |-> f]
<1>1. /\ proc \in [Procs -> [pc : Places, at : 0..Latest]] /\ LocalTo(p) /\ p # None
      /\ db \in Databases /\ DataInv
    BY IInvIsLocal, CommandsAreKnown DEF TypeOK
<1>2. /\ proc[p].pc = "files" /\ lock = p /\ ~db.dirty /\ db.version = proc[p].at
      /\ db.applied = 1..db.version
    BY <1>1 DEF NextFile, LocalTo, DataInv, SchemaMatchesVersion
<1>3. CASE proc[p].at = Latest /\ UpFinished(p) /\ UNCHANGED db
    <2>1. db.applied = Files
        BY <1>2, <1>3 DEF Latest, Files
    <2>2. \/ Goto(p, "migrated") /\ lock' = None
          \/ Goto(p, "connect") /\ lock' = None
        BY <1>3 DEF UpFinished
    <2> QED BY <1>2, <1>3, <2>1, <2>2, MoveStep DEF Places
<1>4. CASE /\ proc[p].at < Latest
           /\ db' = [db EXCEPT !.version = f, !.dirty = TRUE]
           /\ proc' = [proc EXCEPT ![p] = x] /\ UNCHANGED lock
    <2>1. f \in 0..Latest /\ f - 1 = db.version /\ f > 0
        BY <1>1, <1>2, <1>4 DEF Latest
    <2>2. x \in [pc : Places, at : 0..Latest] /\ x.pc = "run" /\ x.at = f
        BY <2>1 DEF Places
    <2> HIDE DEF f, x
    <2>3. /\ db' \in Databases /\ db'.version = f /\ db'.dirty
          /\ db'.applied = db.applied /\ db'.count = db.count /\ db'.replies = db.replies
        <3>1. /\ db' = [db EXCEPT !.version = f, !.dirty = TRUE]
              /\ db \in Databases /\ f \in 0..Latest
            BY <1>1, <1>4, <2>1
        <3> QED BY <3>1 DEF Databases
    <2>4. proc'[p] = x
        BY <1>1, <1>4
    <2>5. DataInv'
        BY <1>1, <1>2, <2>1, <2>3 DEF DataInv, SchemaMatchesVersion
    <2>6. LocalTo(p)'
        <3>1. /\ proc'[p].pc = "run" /\ proc'[p].at = f /\ lock' = p
              /\ db'.applied = 1..(f - 1) /\ db'.version = f /\ db'.dirty /\ f > 0
            BY <1>2, <1>4, <2>1, <2>2, <2>3, <2>4
        <3> QED BY <3>1 DEF LocalTo
    <2>7. 6 \notin db.applied
        BY <1>1, <1>2, <1>4 DEF Latest
    <2>8. ~(db.applied = Files /\ ~db.dirty)
        BY <2>7 DEF Files
    <2> QED BY <1>2, <1>4, <2>2, <2>3, <2>5, <2>6, <2>8, HolderStep
<1> QED BY <1>3, <1>4 DEF NextFile

\* File f on a database, in the state in which its runner finds it.
LEMMA AppliedStep ==
    ASSUME IInv, NEW p \in Procs, proc[p].pc = "run", CanApply(proc[p].at),
           db' = Applied(proc[p].at)
    PROVE  /\ db' \in Databases /\ DataInv' /\ lock = p
           /\ db'.dirty /\ db'.version = proc[p].at /\ db'.applied = 1..proc[p].at
           /\ ~(db.applied = Files /\ ~db.dirty)
<1> DEFINE f == proc[p].at
<1>1. db \in Databases /\ f \in 0..Latest /\ LocalTo(p) /\ DataInv
    BY IInvIsLocal DEF TypeOK
<1>2. /\ lock = p /\ db.dirty /\ f > 0 /\ f \in 1..Latest
      /\ db.applied = 1..(f - 1) /\ db.version = f
    BY <1>1 DEF LocalTo, Latest
<1> HIDE DEF f
<1>3. db' = [db EXCEPT !.applied = @ \cup {f}, !.count = IF f = ReplyCountFile THEN 0 ELSE @]
    BY DEF Applied, f
<1>4. /\ db'.applied = db.applied \cup {f} /\ db'.version = db.version /\ db'.dirty = db.dirty
      /\ db'.count = (IF f = ReplyCountFile THEN 0 ELSE db.count)
      /\ db'.replies = db.replies
    BY <1>1, <1>3 DEF Databases
<1>5. db'.applied = 1..f
    BY <1>2, <1>4 DEF Latest
<1>6. db' \in Databases
    <2>1. /\ db.applied \cup {f} \in SUBSET Files
          /\ (IF f = ReplyCountFile THEN 0 ELSE db.count) \in 0..MaxReplies
        BY <1>1, <1>2, BoundsAreNaturals DEF Databases, Files, Latest
    <2> QED BY <1>1, <1>3, <2>1 DEF Databases
<1>7. db'.count <= db'.replies /\ (ReplyCountFile \in db'.applied \/ db'.count = 0)
    BY <1>1, <1>4, BoundsAreNaturals DEF DataInv, Databases
<1>8. DataInv'
    BY <1>2, <1>4, <1>5, <1>7 DEF DataInv, SchemaMatchesVersion
<1> QED BY <1>2, <1>4, <1>5, <1>6, <1>8 DEF f

\* The version table is set clean after file f.
LEMMA CleanStep ==
    ASSUME IInv, NEW p \in Procs, proc[p].pc = "clean", db' = [db EXCEPT !.dirty = FALSE]
    PROVE  /\ db' \in Databases /\ DataInv' /\ lock = p
           /\ ~db'.dirty /\ db'.version = proc[p].at
           /\ ~(db.applied = Files /\ ~db.dirty)
<1>1. db \in Databases /\ proc[p].at \in 0..Latest /\ LocalTo(p) /\ DataInv
    BY IInvIsLocal DEF TypeOK
<1>2. lock = p /\ db.dirty /\ db.version = proc[p].at /\ db.applied = 1..proc[p].at
    BY <1>1 DEF LocalTo
<1>3. /\ db' \in Databases /\ ~db'.dirty /\ db'.version = db.version
      /\ db'.applied = db.applied /\ db'.count = db.count /\ db'.replies = db.replies
    BY <1>1 DEF Databases
<1>4. DataInv'
    BY <1>1, <1>2, <1>3 DEF DataInv, SchemaMatchesVersion
<1> QED BY <1>2, <1>3, <1>4

\* The holder goes on to `pc', or loses its answer and fails.
LEMMA HolderMove ==
    ASSUME IInv, NEW p \in Procs, lock = p, NEW pc \in {"clean", "files", "failed"},
           Goto(p, pc), lock' = (IF pc = "failed" THEN None ELSE p),
           ~(db.applied = Files /\ ~db.dirty), db' \in Databases, DataInv',
           pc = "clean" =>
              db'.dirty /\ db'.version = proc[p].at /\ db'.applied = 1..proc[p].at,
           pc = "files" => ~db'.dirty /\ db'.version = proc[p].at
    PROVE  IInv'
<1> DEFINE x == [proc[p] EXCEPT !.pc = pc]
<1>1. proc \in [Procs -> [pc : Places, at : 0..Latest]] /\ p # None
    BY IInvIsLocal, CommandsAreKnown DEF TypeOK
<1>2. /\ x \in [pc : Places, at : 0..Latest] /\ proc' = [proc EXCEPT ![p] = x]
      /\ x.pc = pc /\ x.at = proc[p].at
    BY <1>1 DEF Goto, Places
<1> HIDE DEF x
<1>3. proc'[p] = x
    BY <1>1, <1>2
<1>4. LocalTo(p)'
    BY <1>1, <1>2, <1>3 DEF LocalTo
<1> QED BY <1>2, <1>4, HolderStep

LEMMA RunFileInv == ASSUME IInv, NEW p \in Procs, RunFile(p) PROVE IInv'
<1>1. CASE UpFailed(p) /\ UNCHANGED db
    BY <1>1, FailedStep
<1>2. CASE /\ proc[p].pc = "run" /\ CanApply(proc[p].at) /\ db' = Applied(proc[p].at)
           /\ Goto(p, "clean") /\ UNCHANGED lock
    BY <1>2, AppliedStep, HolderMove
<1> QED BY <1>1, <1>2 DEF RunFile

LEMMA SetCleanInv == ASSUME IInv, NEW p \in Procs, SetClean(p) PROVE IInv'
BY CleanStep, HolderMove DEF SetClean

LEMMA AnswerLostInv == ASSUME IInv, NEW p \in Procs, AnswerLost(p) PROVE IInv'
<1>1. Goto(p, "failed") /\ lock' = IF lock = p THEN None ELSE lock
    BY DEF AnswerLost, UpFailed
<1>2. CASE proc[p].pc = "run" /\ CanApply(proc[p].at) /\ db' = Applied(proc[p].at)
    BY <1>1, <1>2, AppliedStep, HolderMove
<1>3. CASE proc[p].pc = "clean" /\ db' = [db EXCEPT !.dirty = FALSE]
    BY <1>1, <1>3, CleanStep, HolderMove
<1> QED BY <1>2, <1>3 DEF AnswerLost

LEMMA ProcessInv ==
    ASSUME IInv, NEW p \in Procs,
           Start(p) \/ Open(p) \/ Lock(p) \/ LockTimeout(p) \/ Failure(p) \/ Crash(p) \/ Connect(p)
    PROVE  IInv'
<1>1. LocalTo(p) /\ p # None
    BY IInvIsLocal, CommandsAreKnown
<1>2. CASE Start(p)
    <2>1. lock # p /\ lock' = lock /\ UNCHANGED db
        BY <1>1, <1>2 DEF Start, Running, Places, LocalTo
    <2>2. CASE Migrates(p)
        BY <1>2, <2>1, <2>2, MoveStep DEF Start, Places
    <2>3. CASE ~Migrates(p)
        BY <1>2, <2>1, <2>3, MoveStep DEF Start, Migrates, Places
    <2> QED BY <2>2, <2>3
<1>3. CASE Open(p)
    BY <1>1, <1>3, MoveStep DEF Open, Places
<1>4. CASE Lock(p)
    BY <1>1, <1>4, MoveStep DEF Lock, Places
<1>5. CASE LockTimeout(p) \/ Failure(p)
    BY <1>5, FailedStep DEF LockTimeout, Failure
<1>6. CASE Crash(p)
    BY <1>1, <1>6, MoveStep DEF Crash, Places
<1>7. CASE Connect(p)
    BY <1>7, MoveStep DEF Connect, Places
<1> QED BY <1>2, <1>3, <1>4, <1>5, <1>6, <1>7

LEMMA DataInvStep == ASSUME IInv, InsertReply \/ DeleteReply \/ ChangeOwners PROVE IInv'
<1>1. /\ db \in Databases /\ db.count <= db.replies
      /\ ReplyCountFile \in db.applied \/ db.count = 0
    BY DEF IInv, TypeOK
<1>2. CASE InsertReply
    <2>1. /\ db'.applied = db.applied /\ db'.version = db.version /\ db'.dirty = db.dirty
          /\ db'.replies = db.replies + 1 /\ UNCHANGED <<lock, proc>>
          /\ db'.count = IF ReplyCountFile \in db.applied THEN db.count + 1 ELSE db.count
        BY <1>1, <1>2 DEF InsertReply, Databases
    <2>2. db' \in Databases
        <3>1. /\ db.replies + 1 \in 0..MaxReplies
              /\ (IF ReplyCountFile \in db.applied THEN db.count + 1 ELSE db.count)
                    \in 0..MaxReplies
            BY <1>1, <1>2, BoundsAreNaturals DEF InsertReply, Databases
        <3> QED BY <1>1, <1>2, <3>1 DEF InsertReply, Databases
    <2> QED BY <1>1, <2>1, <2>2, DataStep DEF Databases
<1>3. CASE DeleteReply
    <2>1. /\ db'.applied = db.applied /\ db'.version = db.version /\ db'.dirty = db.dirty
          /\ db'.replies = db.replies - 1 /\ UNCHANGED <<lock, proc>>
          /\ db'.count = IF ReplyCountFile \in db.applied THEN db.count - 1 ELSE db.count
        BY <1>1, <1>3 DEF DeleteReply, Databases
    <2>2. db' \in Databases
        <3>1. /\ db.replies - 1 \in 0..MaxReplies
              /\ (IF ReplyCountFile \in db.applied THEN db.count - 1 ELSE db.count)
                    \in 0..MaxReplies
            BY <1>1, <1>3, BoundsAreNaturals DEF DeleteReply, Databases
        <3> QED BY <1>1, <1>3, <3>1 DEF DeleteReply, Databases
    <2>3. db'.count <= db'.replies /\ (ReplyCountFile \in db.applied \/ db'.count = 0)
        BY <1>1, <1>3, <2>1 DEF DeleteReply, Databases
    <2> QED BY <2>1, <2>2, <2>3, DataStep
<1>4. CASE ChangeOwners
    <2>1. PICK n \in 0..MaxOwners : db' = [db EXCEPT !.owners = n] /\ UNCHANGED <<lock, proc>>
        BY <1>4 DEF ChangeOwners
    <2>2. /\ db'.applied = db.applied /\ db'.version = db.version /\ db'.dirty = db.dirty
          /\ db'.replies = db.replies /\ db'.count = db.count /\ db' \in Databases
        BY <1>1, <2>1 DEF Databases
    <2> QED BY <1>1, <2>1, <2>2, DataStep
<1> QED BY <1>2, <1>3, <1>4

-----------------------------------------------------------------------------
(* Every state that the program reaches. *)

LEMMA InitInv == Init => IInv
<1> SUFFICES ASSUME Init PROVE IInv
    OBVIOUS
<1>1. TypeOK
    BY BoundsAreNaturals DEF Init, TypeOK, Databases, Places, Latest
<1>2. DataInv
    BY DEF Init, DataInv, SchemaMatchesVersion
<1>3. \A p \in Procs : LocalTo(p)
    BY CommandsAreKnown DEF Init, LocalTo
<1> QED BY <1>1, <1>2, <1>3, IInvIsLocal

LEMMA NextInv == IInv /\ [Next]_vars => IInv'
<1> SUFFICES ASSUME IInv, [Next]_vars PROVE IInv'
    OBVIOUS
<1>1. CASE UNCHANGED vars
    BY <1>1 DEF vars, IInv, TypeOK, SchemaMatchesVersion, FilesRunOnceInOrder,
                ServesLatestSchema, LockIsReleased
<1>2. ASSUME NEW p \in Procs, Start(p) \/ Open(p) \/ Step(p) \/ Failure(p) \/ AnswerLost(p) \/ Crash(p)
      PROVE  IInv'
    BY <1>2, ProcessInv, ReadVersionInv, NextFileInv, RunFileInv, SetCleanInv, AnswerLostInv
       DEF Step
<1>3. CASE InsertReply \/ DeleteReply \/ ChangeOwners
    BY <1>3, DataInvStep
<1> QED BY <1>1, <1>2, <1>3 DEF Next

\* However many processes start, fail and die, in whatever order.
THEOREM Invariance == Spec => []IInv
BY InitInv, NextInv, PTL DEF Spec

\* The variables have their types.
THEOREM TypeCorrect == Spec => []TypeOK
<1>1. IInv => TypeOK
    BY DEF IInv
<1> QED BY <1>1, Invariance, PTL

\* The applied files are those that the version says, but for a file that is open.
THEOREM VersionedSchema == Spec => []SchemaMatchesVersion
<1>1. IInv => SchemaMatchesVersion
    BY DEF IInv
<1> QED BY <1>1, Invariance, PTL

\* No file runs twice, or out of order.
THEOREM FilesInOrder == Spec => []FilesRunOnceInOrder
<1>1. IInv => FilesRunOnceInOrder
    BY DEF IInv
<1> QED BY <1>1, Invariance, PTL

LEMMA ForwardStep ==
    ASSUME IInv, NEW p \in Procs, NextFile(p) \/ RunFile(p) \/ SetClean(p) \/ AnswerLost(p)
    PROVE  /\ db.version <= db'.version /\ db'.replies = db.replies
           /\ db'.applied # db.applied =>
                 db.dirty /\ db.applied = 1..(db.version - 1) /\ db'.applied = 1..db.version
           /\ ReplyCountFile \in db.applied => db'.count = db.count
<1>1. /\ LocalTo(p) /\ db \in Databases
      /\ proc[p].at \in 0..Latest /\ db.version \in 0..Latest
    BY IInvIsLocal DEF TypeOK, Databases
<1>2. CASE NextFile(p)
    <2>1. db.version = proc[p].at
        BY <1>1, <1>2 DEF NextFile, LocalTo
    <2>2. UNCHANGED db \/ db' = [db EXCEPT !.version = proc[p].at + 1, !.dirty = TRUE]
        BY <1>2 DEF NextFile
    <2>3. \/ db'.version = db.version
          \/ db'.version = db.version + 1
        BY <1>1, <2>1, <2>2 DEF Databases
    <2>4. db'.applied = db.applied /\ db'.replies = db.replies /\ db'.count = db.count
        BY <1>1, <2>2 DEF Databases
    <2> QED BY <1>1, <2>3, <2>4 DEF Latest
<1>3. CASE SetClean(p) \/ (AnswerLost(p) /\ db' = [db EXCEPT !.dirty = FALSE])
    BY <1>1, <1>3 DEF SetClean, Databases, Latest
<1>4. CASE proc[p].pc = "run" /\ db' = Applied(proc[p].at)
    <2>1. /\ db'.version = db.version /\ db'.replies = db.replies
          /\ db'.applied = db.applied \cup {proc[p].at}
          /\ proc[p].at # ReplyCountFile => db'.count = db.count
        BY <1>1, <1>4 DEF Applied, Databases
    <2>2. db.dirty /\ db.applied = 1..(db.version - 1) /\ db.version = proc[p].at /\ proc[p].at > 0
        BY <1>1, <1>4 DEF LocalTo
    <2>3. ReplyCountFile \in db.applied => proc[p].at # ReplyCountFile
        BY <1>1, <2>2 DEF ReplyCountFile, Latest
    <2>4. db'.applied = 1..db.version
        BY <1>1, <2>1, <2>2 DEF Latest
    <2> QED BY <1>1, <2>1, <2>2, <2>3, <2>4 DEF Latest
<1>5. CASE UNCHANGED db
    BY <1>1, <1>5 DEF Latest
<1> QED BY <1>2, <1>3, <1>4, <1>5 DEF RunFile, AnswerLost

\* The schema moves forward one file at a time, and from migration 3 on replies and their
\* counter change together.
THEOREM ForwardOnly == Spec => SchemaMovesForward
<1> DEFINE Forward ==
        /\ db.version <= db'.version
        /\ db'.applied # db.applied =>
              db.dirty /\ db.applied = 1..(db.version - 1) /\ db'.applied = 1..db.version
        /\ ReplyCountFile \in db.applied => db'.replies + db.count = db.replies + db'.count
<1>1. IInv /\ [Next]_vars => [Forward]_vars
    <2> SUFFICES ASSUME IInv, Next PROVE Forward
        OBVIOUS
    <2>1. /\ db \in Databases /\ db.version \in Nat
          /\ db.count \in Nat /\ db.replies \in Nat
        BY BoundsAreNaturals DEF IInv, TypeOK, Databases, Latest
    <2>2. CASE UNCHANGED db
        BY <2>1, <2>2
    <2>3. ASSUME NEW p \in Procs, NextFile(p) \/ RunFile(p) \/ SetClean(p) \/ AnswerLost(p)
          PROVE  Forward
        BY <2>1, <2>3, ForwardStep
    <2>4. CASE InsertReply
        BY <2>1, <2>4 DEF InsertReply, Databases
    <2>5. CASE DeleteReply
        BY <2>1, <2>5 DEF DeleteReply, Databases
    <2>6. CASE ChangeOwners
        BY <2>1, <2>6 DEF ChangeOwners, Databases
    <2> QED BY <2>2, <2>3, <2>4, <2>5, <2>6
            DEF Next, Step, Start, Open, Lock, LockTimeout, ReadVersion, Connect, Failure, Crash
<1> QED BY <1>1, Invariance, PTL DEF Spec, SchemaMovesForward

\* A server that migrates first serves the latest schema.
THEOREM LatestServed == Spec => []ServesLatestSchema
<1>1. IInv => ServesLatestSchema
    BY DEF IInv
<1> QED BY <1>1, Invariance, PTL

\* The lock is with a process inside Up, and with no other.
THEOREM LockReleased == Spec => []LockIsReleased
<1>1. IInv => LockIsReleased
    BY DEF IInv
<1> QED BY <1>1, Invariance, PTL
=============================================================================
