------------------------------ MODULE Bootstrap ------------------------------
(***************************************************************************)
(* init-db (app/database.py) and the Alembic run it starts                 *)
(* (migrations/env.py and migrations/versions).                            *)
(*                                                                         *)
(* Operators start the command at any time, two of them at once if they    *)
(* like, and every run can end half-way.  On PostgreSQL a stamp and an     *)
(* upgrade are one transaction each.  On SQLite a CREATE or ALTER outside  *)
(* a transaction is final at once, and only the first INSERT or UPDATE of  *)
(* a run opens the transaction that env.py commits at its end.             *)
(***************************************************************************)
EXTENDS Integers, Sequences, Functions

CONSTANTS
    Operators,  \* processes that run init-db
    None

ASSUME BootstrapAssumption == None \notin Operators

\* What each revision executes, in order.  A table stands for its indexes too;
\* "fill" sets password_changed_at and "rebuild" makes it NOT NULL.
Revision0001 == << "users", "auth_sessions", "files", "file_permissions" >>
Revision0002 == << "csrf_token_hash" >>
Revision0003 == << "email_verified_at", "password_changed_at", "fill", "rebuild",
                   "account_action_tokens" >>
Revision0004 == << "security_email_jobs" >>
Revision0005 == << "storage_backend" >>
Script == << Revision0001, Revision0002, Revision0003, Revision0004, Revision0005 >>

Latest == Len(Script)
DataStatements == {"fill", "rebuild"}
VersionTable == "alembic_version"
ObjectsUpTo(v) == (UNION {Range(Script[r]) : r \in 1 .. v}) \ DataStatements
Baseline == ObjectsUpTo(1)
AllObjects == ObjectsUpTo(Latest) \union {VersionTable, "alien"}

VARIABLES
    backend,   \* the database engine
    durable,   \* what has been committed
    pending,   \* what the open transaction sees; durable when there is none
    writer,    \* the run whose transaction is open
    op,        \* local state of a run
    original,  \* the database before the first run
    cut,       \* a run ended after statements no transaction covered
    rewound    \* a stamp has replaced a later revision

vars == <<backend, durable, pending, writer, op, original, cut, rewound>>

\* "version" is the row of alembic_version (0: none); "rows" tells whether the
\* rows that refer to users are all there.
Database == [objects: SUBSET AllObjects, version: 0 .. Latest, rows: BOOLEAN]
Run == [pc: {"idle", "classifying", "stamping", "upgrading", "migrating", "done"},
        tables: SUBSET AllObjects, at: 1 .. Latest + 1, step: 1 .. 6,
        enforced: BOOLEAN, loose: BOOLEAN, alone: BOOLEAN]
IdleRun == [pc |-> "idle", tables |-> {}, at |-> 1, step |-> 1,
            enforced |-> TRUE, loose |-> FALSE, alone |-> FALSE]

ApplicationObjects(db) == db.objects \ {VersionTable}
Unversioned(objects) == [objects |-> objects, version |-> 0, rows |-> TRUE]
UnknownSchemas == {Unversioned(Baseline \union {"alien"}),
                   Unversioned(Baseline \union {"csrf_token_hash"}),
                   Unversioned(Baseline \ {"file_permissions"})}

Init ==
    /\ backend \in {"postgresql", "sqlite"}
    /\ original \in
         {Unversioned({}), Unversioned(Baseline)} \union UnknownSchemas
           \union {[objects |-> ObjectsUpTo(v) \union {VersionTable}, version |-> v,
                    rows |-> TRUE] : v \in 1 .. Latest}
    /\ durable = original
    /\ pending = original
    /\ writer = None
    /\ op = [o \in Operators |-> IdleRun]
    /\ cut = FALSE
    /\ rewound = FALSE

-----------------------------------------------------------------------------
At(o, pc) == op[o].pc = pc
Running(o) == ~At(o, "idle") /\ ~At(o, "done")
View(o) == IF writer = o THEN pending ELSE durable
Statement(o) == Script[op[o].at][op[o].step]
RevisionDone(o) == op[o].step > Len(Script[op[o].at])

\* A statement that leaves a transaction open, and one that does not unless
\* the run has one already.
InTransaction(o, db) ==
    /\ writer \in {None, o}
    /\ writer' = o
    /\ pending' = db
    /\ UNCHANGED durable

Autocommit(o, db) ==
    /\ writer = None
    /\ durable' = db
    /\ pending' = db
    /\ UNCHANGED writer

Ddl(o, db) == IF backend = "sqlite" /\ writer # o THEN Autocommit(o, db)
                                                  ELSE InTransaction(o, db)

Commit(o, db) ==
    /\ writer \in {None, o}
    /\ durable' = db
    /\ pending' = db
    /\ writer' = None

\* Mutant: a run that fails leaves its transaction open.
LeaveOpen(o) == UNCHANGED <<durable, pending, writer>>

Rollback(o) ==
    /\ pending' = IF writer = o THEN durable ELSE pending
    /\ writer' = IF writer = o THEN None ELSE writer
    /\ UNCHANGED durable

-----------------------------------------------------------------------------
(* initialize_database.                                                    *)

ReadTables(o) ==
    /\ ~Running(o)
    /\ op' = [p \in Operators |->
                IF p = o THEN [IdleRun EXCEPT !.pc = "classifying",
                                              !.tables = View(o).objects,
                                              !.alone = \A q \in Operators : ~Running(q)]
                ELSE [op[p] EXCEPT !.alone = FALSE]]
    /\ UNCHANGED <<backend, durable, pending, writer, original, cut, rewound>>

\* Mutant: tables and columns the baseline does not know are not looked at.
MatchesLoosely(db) == Baseline \subseteq db.objects

\* _matches_legacy_baseline
MatchesBaseline(db) == ApplicationObjects(db) = Baseline

\* Mutant: that the version table exists is enough.
HasVersionTable(o) == VersionTable \in op[o].tables

\* The tables were read before, the revision and the columns are read now.
TracksRevision(o) == VersionTable \in op[o].tables /\ View(o).version > 0
NoTables(o) == op[o].tables \subseteq {VersionTable}

Classify(o) ==
    /\ At(o, "classifying")
    /\ \/ /\ TracksRevision(o) \/ NoTables(o)
          /\ op' = [op EXCEPT ![o].pc = "upgrading"]
       \/ /\ ~TracksRevision(o) /\ ~NoTables(o)
          /\ MatchesBaseline(View(o))
          /\ op' = [op EXCEPT ![o].pc = "stamping"]
    /\ UNCHANGED <<backend, durable, pending, writer, original, cut, rewound>>

\* LegacySchemaMismatch
Refuse(o) ==
    /\ At(o, "classifying")
    /\ ~TracksRevision(o) /\ ~NoTables(o)
    /\ ~MatchesBaseline(View(o))
    /\ op' = [op EXCEPT ![o] = IdleRun]
    /\ UNCHANGED <<backend, durable, pending, writer, original, cut, rewound>>

-----------------------------------------------------------------------------
(* Alembic, in the order env.py lets it work.                              *)

\* Created when no revision is recorded, unless it is there already.
CreateVersionTable(o) ==
    /\ At(o, "stamping") \/ At(o, "migrating")
    /\ VersionTable \notin View(o).objects
    /\ Ddl(o, [View(o) EXCEPT !.objects = @ \union {VersionTable}])
    /\ UNCHANGED <<backend, op, original, cut, rewound>>

\* stamp: whatever revision is recorded by now is replaced by the baseline.
WriteStamp(o) ==
    /\ At(o, "stamping")
    /\ VersionTable \in View(o).objects
    /\ IF View(o).version = 1
       THEN UNCHANGED <<durable, pending, writer>>
       ELSE Commit(o, [View(o) EXCEPT !.version = 1])
    /\ rewound' = (rewound \/ View(o).version > 1)
    /\ op' = [op EXCEPT ![o].pc = "upgrading"]
    /\ UNCHANGED <<backend, original, cut>>

\* Mutant: the PRAGMA is not sent, and SQLite goes on enforcing foreign keys.
BeginUpgradeEnforcing(o) ==
    /\ At(o, "upgrading")
    /\ op' = [op EXCEPT ![o].pc = "migrating", ![o].at = View(o).version + 1]
    /\ UNCHANGED <<backend, durable, pending, writer, original, cut, rewound>>

\* A connection with foreign keys off; the revision on record says what is left.
BeginUpgrade(o) ==
    /\ At(o, "upgrading")
    /\ op' = [op EXCEPT ![o].pc = "migrating", ![o].at = View(o).version + 1,
                        ![o].enforced = FALSE]
    /\ UNCHANGED <<backend, durable, pending, writer, original, cut, rewound>>

Migrating(o) ==
    /\ At(o, "migrating")
    /\ op[o].at <= Latest
    /\ VersionTable \in View(o).objects
    /\ ~RevisionDone(o)

\* CREATE TABLE or ADD COLUMN: refused when the object exists.
CreateObject(o) ==
    /\ Migrating(o)
    /\ Statement(o) \notin View(o).objects \union DataStatements
    /\ Ddl(o, [View(o) EXCEPT !.objects = @ \union {Statement(o)}])
    /\ op' = [op EXCEPT ![o].step = @ + 1,
                        ![o].loose = @ \/ (backend = "sqlite" /\ writer # o)]
    /\ UNCHANGED <<backend, original, cut, rewound>>

\* UPDATE users; on SQLite the batch operation after it replaces the table.
\* Dropping the old one deletes what refers to it while keys are enforced.
TransformUsers(o) ==
    /\ Migrating(o)
    /\ Statement(o) \in DataStatements
    /\ InTransaction(o, [View(o) EXCEPT
         !.rows = @ /\ ~(backend = "sqlite" /\ Statement(o) = "rebuild" /\ op[o].enforced)])
    /\ op' = [op EXCEPT ![o].step = @ + 1]
    /\ UNCHANGED <<backend, original, cut, rewound>>

\* Mutant: the row is written before the statements of the revision.
RecordEarly(o) ==
    /\ At(o, "migrating")
    /\ op[o].at <= Latest
    /\ VersionTable \in View(o).objects
    /\ View(o).version = op[o].at - 1
    /\ InTransaction(o, [View(o) EXCEPT !.version = op[o].at])
    /\ op' = [op EXCEPT ![o].at = @ + 1, ![o].step = 1]
    /\ UNCHANGED <<backend, original, cut, rewound>>

\* The row is expected to hold the revision before.
RecordRevision(o) ==
    /\ At(o, "migrating")
    /\ op[o].at <= Latest
    /\ RevisionDone(o)
    /\ View(o).version = op[o].at - 1
    /\ InTransaction(o, [View(o) EXCEPT !.version = op[o].at])
    /\ op' = [op EXCEPT ![o].at = @ + 1, ![o].step = 1]
    /\ UNCHANGED <<backend, original, cut, rewound>>

\* Mutant: the autobegun transaction is not committed before it is closed.
FinishUncommitted(o) ==
    /\ At(o, "migrating")
    /\ op[o].at > Latest
    /\ Rollback(o)
    /\ op' = [op EXCEPT ![o] = [IdleRun EXCEPT !.pc = "done"]]
    /\ UNCHANGED <<backend, original, cut, rewound>>

FinishUpgrade(o) ==
    /\ At(o, "migrating")
    /\ op[o].at > Latest
    /\ IF writer = o THEN Commit(o, pending) ELSE UNCHANGED <<durable, pending, writer>>
    /\ op' = [op EXCEPT ![o] = [IdleRun EXCEPT !.pc = "done"]]
    /\ UNCHANGED <<backend, original, cut, rewound>>

\* A statement fails, the connection is lost or the process dies.
Abort(o) ==
    /\ Running(o)
    /\ Rollback(o)
    /\ op' = [op EXCEPT ![o] = IdleRun]
    /\ cut' = (cut \/ op[o].loose)
    /\ UNCHANGED <<backend, original, rewound>>

Next == \E o \in Operators :
    \/ ReadTables(o)
    \/ Classify(o)
    \/ Refuse(o)
    \/ CreateVersionTable(o)
    \/ WriteStamp(o)
    \/ BeginUpgrade(o)
    \/ CreateObject(o)
    \/ TransformUsers(o)
    \/ RecordRevision(o)
    \/ FinishUpgrade(o)
    \/ Abort(o)

Spec == Init /\ [][Next]_vars

-----------------------------------------------------------------------------
(* Properties.                                                             *)

\* Databases and runs are well formed, and what is not committed belongs to
\* the one run that has a transaction open (initialize_database, env.py).
TypeOK ==
    /\ backend \in {"postgresql", "sqlite"}
    /\ {durable, pending, original} \subseteq Database
    /\ op \in [Operators -> Run]
    /\ writer \in {o \in Operators : Running(o)} \union {None}
    /\ writer = None => pending = durable
    /\ cut \in BOOLEAN /\ rewound \in BOOLEAN

\* The committed revision never claims a table or column that is not there,
\* wherever a run was cut and whoever else was running (run_migrations_online).
RevisionIsTrue == ObjectsUpTo(durable.version) \subseteq durable.objects

\* Nothing is left for the run but to be refused or to fail.
Stuck(o) ==
    \/ /\ At(o, "classifying")
       /\ ~TracksRevision(o) /\ ~NoTables(o) /\ ~MatchesBaseline(View(o))
    \/ Migrating(o) /\ Statement(o) \in View(o).objects
    \/ At(o, "migrating") /\ op[o].at <= Latest /\ RevisionDone(o) /\ View(o).version # op[o].at - 1

\* "Upgrade a database, safely adopting the pre-migration schema if needed"
\* (initialize_database): wherever earlier runs failed or died, a run that has
\* the database for itself finds a schema it can take to the last revision.
\* Two histories are excepted: on SQLite a migration cut after statements that
\* no transaction covered, and a stamp decided before another run's upgrade.
Resumable ==
    original \notin UnknownSchemas /\ ~cut /\ ~rewound
    => \A o \in Operators : op[o].alone => ~Stuck(o)

\* "Dropping the old parent table while foreign-key actions are active can
\* cascade-delete rows from child tables" (env.py): no migration loses them.
RowsSurvive == durable.rows

\* "An unknown unversioned schema is never stamped or modified"
\* (initialize_database), whichever runs read it and when.
UnknownNeverTouched == original \in UnknownSchemas => durable = original

\* A run that reports success has left the whole schema of the last revision
\* committed, unless a stamp has been put over it (init_db_command, and the
\* commit env.py owes to SQLite).
SuccessIsHead ==
    [][\A o \in Operators : Running(o) /\ op'[o].pc = "done" /\ ~rewound =>
         /\ durable'.version = Latest
         /\ ApplicationObjects(durable') = ObjectsUpTo(Latest)]_vars
=============================================================================
