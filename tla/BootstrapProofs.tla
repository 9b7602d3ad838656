--------------------------- MODULE BootstrapProofs ---------------------------
(***************************************************************************)
(* Proofs about Bootstrap, for any number of runs at once.                 *)
(*                                                                         *)
(* The revision on record is true, rows are kept and unknown schemas are   *)
(* left alone in every history.  As long as no stamp replaces a later      *)
(* revision, each migrating run either sees exactly what its own           *)
(* statements have made, or is doomed: its next statement has been         *)
(* executed by somebody else and will be refused.  From this follow what   *)
(* success means and that an interrupted upgrade can be resumed.           *)
(***************************************************************************)
EXTENDS Bootstrap, TLAPS

USE BootstrapAssumption

-----------------------------------------------------------------------------
(* The script.                                                             *)

LEMMA ScriptLength == Latest = 5 /\ DOMAIN Script = 1 .. 5
  BY DEF Latest, Script

LEMMA ScriptText ==
    /\ Script[1] = Revision0001 /\ Script[2] = Revision0002 /\ Script[3] = Revision0003
    /\ Script[4] = Revision0004 /\ Script[5] = Revision0005
  BY DEF Script

LEMMA RevisionLengths ==
    /\ Len(Script[1]) = 4 /\ Len(Script[2]) = 1 /\ Len(Script[3]) = 5
    /\ Len(Script[4]) = 1 /\ Len(Script[5]) = 1
  BY ScriptText DEF Revision0001, Revision0002, Revision0003, Revision0004, Revision0005

LEMMA RevisionObjects ==
    /\ Range(Script[1]) = {"users", "auth_sessions", "files", "file_permissions"}
    /\ Range(Script[2]) = {"csrf_token_hash"}
    /\ Range(Script[3]) = {"email_verified_at", "password_changed_at", "fill", "rebuild",
                           "account_action_tokens"}
    /\ Range(Script[4]) = {"security_email_jobs"}
    /\ Range(Script[5]) = {"storage_backend"}
  <1>1. Range(Script[1]) = {"users", "auth_sessions", "files", "file_permissions"}
    BY ScriptText DEF Range, Revision0001
  <1>2. Range(Script[3]) = {"email_verified_at", "password_changed_at", "fill", "rebuild",
                           "account_action_tokens"}
    BY ScriptText DEF Range, Revision0003
  <1> QED
    BY <1>1, <1>2, ScriptText DEF Range, Revision0002, Revision0004, Revision0005

LEMMA UpToNone == ObjectsUpTo(0) = {}
  BY DEF ObjectsUpTo

LEMMA UpToNext ==
    ASSUME NEW v \in 0 .. 4
    PROVE  ObjectsUpTo(v + 1) = ObjectsUpTo(v) \union (Range(Script[v + 1]) \ DataStatements)
  BY DEF ObjectsUpTo

LEMMA UpToEach ==
    /\ ObjectsUpTo(1) = {"users", "auth_sessions", "files", "file_permissions"}
    /\ ObjectsUpTo(2) = ObjectsUpTo(1) \union {"csrf_token_hash"}
    /\ ObjectsUpTo(3) = ObjectsUpTo(2) \union
         {"email_verified_at", "password_changed_at", "account_action_tokens"}
    /\ ObjectsUpTo(4) = ObjectsUpTo(3) \union {"security_email_jobs"}
    /\ ObjectsUpTo(5) = ObjectsUpTo(4) \union {"storage_backend"}
  <1>1. \A v \in 0 .. 4 :
          ObjectsUpTo(v + 1) = ObjectsUpTo(v) \union (Range(Script[v + 1]) \ DataStatements)
    BY UpToNext
  <1>2. ObjectsUpTo(0 + 1) = ObjectsUpTo(0) \union (Range(Script[0 + 1]) \ DataStatements)
    BY <1>1
  <1>3. ObjectsUpTo(1 + 1) = ObjectsUpTo(1) \union (Range(Script[1 + 1]) \ DataStatements)
    BY <1>1
  <1>4. ObjectsUpTo(2 + 1) = ObjectsUpTo(2) \union (Range(Script[2 + 1]) \ DataStatements)
    BY <1>1
  <1>5. ObjectsUpTo(3 + 1) = ObjectsUpTo(3) \union (Range(Script[3 + 1]) \ DataStatements)
    BY <1>1
  <1>6. ObjectsUpTo(4 + 1) = ObjectsUpTo(4) \union (Range(Script[4 + 1]) \ DataStatements)
    BY <1>1
  <1> QED
    BY <1>2, <1>3, <1>4, <1>5, <1>6, UpToNone, RevisionObjects DEF DataStatements

LEMMA UpToGrows ==
    ASSUME NEW v \in 0 .. Latest, NEW w \in 0 .. Latest, v <= w
    PROVE  ObjectsUpTo(v) \subseteq ObjectsUpTo(w)
  BY UpToNone, UpToEach, ScriptLength

LEMMA UpToIsKnown ==
    ASSUME NEW v \in 0 .. Latest
    PROVE  /\ ObjectsUpTo(v) \subseteq AllObjects
           /\ VersionTable \notin ObjectsUpTo(v) /\ "alien" \notin ObjectsUpTo(v)
  BY UpToGrows, UpToEach, UpToNone, ScriptLength DEF AllObjects, VersionTable

LEMMA DifferentStatements ==
    ASSUME NEW a \in 1 .. Latest, NEW i \in 1 .. Len(Script[a]), NEW j \in 1 .. Len(Script[a]),
           Script[a][i] = Script[a][j]
    PROVE  i = j
  <1>1. CASE a = 1 BY <1>1, ScriptText, RevisionLengths DEF Revision0001
  <1>2. CASE a = 3 BY <1>2, ScriptText, RevisionLengths DEF Revision0003
  <1>3. CASE a \in {2, 4, 5} BY <1>3, RevisionLengths
  <1> QED BY <1>1, <1>2, <1>3, ScriptLength

LEMMA StatementsAreNew ==
    ASSUME NEW a \in 1 .. Latest, NEW i \in 1 .. Len(Script[a])
    PROVE  /\ Script[a][i] \notin ObjectsUpTo(a - 1)
           /\ Script[a][i] # VersionTable
           /\ Script[a][i] \in DataStatements <=> a = 3 /\ i \in {3, 4}
           /\ Script[a][i] \in ObjectsUpTo(a) \union DataStatements
           /\ Script[a][i] \in DataStatements => Script[a][i] \notin AllObjects
  <1>1. CASE a = 1
    BY <1>1, ScriptText, RevisionLengths, UpToNone, UpToEach
       DEF Revision0001, VersionTable, DataStatements
  <1>2. CASE a = 2
    BY <1>2, ScriptText, RevisionLengths, UpToEach
       DEF Revision0002, VersionTable, DataStatements
  <1>3. CASE a = 3
    <2>1. Script[a][i] \notin ObjectsUpTo(a - 1) /\ Script[a][i] # VersionTable
      BY <1>3, ScriptText, RevisionLengths, UpToEach DEF Revision0003, VersionTable
    <2>2. /\ Script[a][i] \in DataStatements <=> a = 3 /\ i \in {3, 4}
          /\ Script[a][i] \in ObjectsUpTo(a) \union DataStatements
      BY <1>3, ScriptText, RevisionLengths, UpToEach DEF Revision0003, DataStatements
    <2>3. DataStatements \intersect AllObjects = {}
      BY UpToEach, ScriptLength DEF DataStatements, AllObjects, VersionTable
    <2> QED BY <2>1, <2>2, <2>3
  <1>4. CASE a = 4
    BY <1>4, ScriptText, RevisionLengths, UpToEach
       DEF Revision0004, VersionTable, DataStatements
  <1>5. CASE a = 5
    BY <1>5, ScriptText, RevisionLengths, UpToEach
       DEF Revision0005, VersionTable, DataStatements
  <1> QED BY <1>1, <1>2, <1>3, <1>4, <1>5, ScriptLength

-----------------------------------------------------------------------------
(* The inductive invariant.                                                *)

Known == original \notin UnknownSchemas

\* What the run sees of the revision it is at: the statements before "step".
Prefix(a, step) == {Script[a][i] : i \in 1 .. step - 1} \ DataStatements
Begun(o) == At(o, "migrating") /\ op[o].step > 1

\* Facts about a run that hold whatever the others do.
RunInOrder(o) ==
    /\ writer = o => At(o, "stamping") \/ At(o, "migrating")
    /\ op[o].loose => At(o, "migrating")
    /\ ~At(o, "migrating") => op[o].step = 1
    /\ op[o].step <= 1 + (IF op[o].at <= Latest THEN Len(Script[op[o].at]) ELSE 0)
    /\ At(o, "migrating") => ~op[o].enforced
    /\ Begun(o) /\ (backend = "postgresql" \/ (op[o].at = 3 /\ op[o].step > 3)) => writer = o
    /\ op[o].alone => Running(o) /\ \A q \in Operators \ {o} : ~Running(q)

RunsInOrder == \A o \in Operators : RunInOrder(o)

\* What is committed stays, and the open transaction builds upon it.
Sound(db) ==
    /\ db.version > 0 => VersionTable \in db.objects
    /\ ObjectsUpTo(db.version) \subseteq db.objects
    /\ db.rows

DatabasesGrow == durable.objects \subseteq pending.objects /\ Sound(durable) /\ Sound(pending)

\* What a run has established is still in the database it sees.
RunKeepsResults(o) ==
    /\ At(o, "stamping") =>
         /\ Baseline \subseteq View(o).objects
         /\ writer = o => /\ VersionTable \notin durable.objects
                          /\ pending.version = durable.version
                          /\ ApplicationObjects(pending) = ApplicationObjects(durable)
    /\ At(o, "migrating") => Prefix(op[o].at, op[o].step) \subseteq View(o).objects
    /\ Begun(o) => VersionTable \in View(o).objects

RunsKeepResults == \A o \in Operators : RunKeepsResults(o)

\* A schema nobody knows is still as it was, and no run has got past looking.
UnknownIsRefused == ~Known =>
    /\ durable = original
    /\ writer = None
    /\ \A o \in Operators :
         \/ ~Running(o)
         \/ At(o, "classifying") /\ op[o].tables = original.objects

SafeInv == TypeOK /\ RunsInOrder /\ DatabasesGrow /\ RunsKeepResults /\ UnknownIsRefused

-----------------------------------------------------------------------------
(* Histories in which no stamp replaces a later revision.                  *)

Orderly == Known /\ ~rewound

\* Committed is a revision, perhaps with the beginning of the next.
Shape ==
    \/ ApplicationObjects(durable) = ObjectsUpTo(durable.version)
    \/ /\ durable.version < Latest
       /\ Script[durable.version + 1][1] \in ApplicationObjects(durable)
       /\ ObjectsUpTo(durable.version) \subseteq ApplicationObjects(durable)
       /\ ApplicationObjects(durable) \subseteq ObjectsUpTo(durable.version + 1)

\* The run sees a revision and what it has itself executed of the next one.
Exact(o) ==
    /\ View(o).version = op[o].at - 1
    /\ ApplicationObjects(View(o)) =
         ObjectsUpTo(op[o].at - 1) \union Prefix(op[o].at, op[o].step)

\* The next statement of the run has been executed by another one, or the
\* revision it has finished is on record already.
Doomed(o) ==
    /\ op[o].at <= Latest
    /\ \/ ~RevisionDone(o) /\ Statement(o) \in View(o).objects
       \/ RevisionDone(o) /\ View(o).version >= op[o].at

\* A run that has begun a revision without a transaction is overtaken before
\* somebody else opens one.
PathOf(o) == At(o, "migrating") =>
    /\ Exact(o) \/ Doomed(o)
    /\ writer # o => durable.version >= op[o].at - 1
    /\ Begun(o) /\ writer \notin {o, None} => durable.version >= op[o].at

Paths == \A o \in Operators : PathOf(o)

\* The first statement of a revision succeeds once.
OneBegins == \A o, q \in Operators :
    o # q /\ Begun(o) /\ Begun(q) => op[o].at # op[q].at

OrderlyInv == Orderly => Shape /\ Paths /\ OneBegins

-----------------------------------------------------------------------------
(* Histories that are not cut either: a schema between two revisions is on *)
(* the account of a run that still goes on, so a run that is alone finds   *)
(* none.                                                                   *)

Clean == \/ ApplicationObjects(durable) = ObjectsUpTo(durable.version)
         \/ durable.version = 0 /\ ApplicationObjects(durable) = Baseline

RestIsClean == Clean \/ \E r \in Operators : op[r].loose

AloneIsSound == \A o \in Operators : op[o].alone =>
    /\ At(o, "classifying") => op[o].tables = durable.objects
    /\ At(o, "upgrading") => ApplicationObjects(durable) = ObjectsUpTo(durable.version)
    /\ At(o, "migrating") => Exact(o)

ResumeInv == Orderly /\ ~cut => RestIsClean /\ AloneIsSound

-----------------------------------------------------------------------------
(* Prefixes of a revision.                                                 *)

LEMMA PrefixStarts ==
    ASSUME NEW a PROVE Prefix(a, 1) = {}
  BY DEF Prefix

LEMMA PrefixGrows ==
    ASSUME NEW a \in 1 .. Latest, NEW s \in 1 .. Len(Script[a])
    PROVE  Prefix(a, s + 1) = Prefix(a, s) \union ({Script[a][s]} \ DataStatements)
  <1>1. s \in Nat \ {0}
    BY ScriptLength, RevisionLengths
  <1> QED BY <1>1 DEF Prefix

LEMMA LengthBounds ==
    ASSUME NEW a \in 1 .. Latest PROVE Len(Script[a]) \in 1 .. 5
  BY ScriptLength, RevisionLengths

LEMMA NotEmpty ==
    ASSUME NEW a \in 1 .. Latest PROVE 1 \in 1 .. Len(Script[a])
  <1>1. \A n \in 1 .. 5 : 1 \in 1 .. n
    OBVIOUS
  <1> QED BY <1>1, LengthBounds, Zenon

LEMMA PrefixIsRevision ==
    ASSUME NEW a \in 1 .. Latest
    PROVE  ObjectsUpTo(a) = ObjectsUpTo(a - 1) \union Prefix(a, Len(Script[a]) + 1)
  <1>1. PICK n \in 1 .. 5 : n = Len(Script[a])
    BY LengthBounds
  <1>2. DOMAIN Script[a] = 1 .. n
    BY <1>1, ScriptText, ScriptLength, RevisionLengths
       DEF Revision0001, Revision0002, Revision0003, Revision0004, Revision0005
  <1>3. Prefix(a, n + 1) = Range(Script[a]) \ DataStatements
    BY <1>1, <1>2 DEF Prefix, Range
  <1>4. PICK v \in 0 .. 4 : v = a - 1 /\ v + 1 = a
    BY ScriptLength
  <1>5. ObjectsUpTo(v + 1) = ObjectsUpTo(v) \union (Range(Script[v + 1]) \ DataStatements)
    BY UpToNext
  <1> QED BY <1>1, <1>3, <1>4, <1>5

LEMMA PrefixIsNew ==
    ASSUME NEW a \in 1 .. Latest, NEW s \in 1 .. Len(Script[a])
    PROVE  Script[a][s] \notin ObjectsUpTo(a - 1) \union Prefix(a, s)
  <1>1. Script[a][s] \notin ObjectsUpTo(a - 1)
    BY StatementsAreNew
  <1>2. Script[a][s] \notin Prefix(a, s)
    <2>1. SUFFICES ASSUME NEW i \in 1 .. s - 1, Script[a][i] = Script[a][s] PROVE FALSE
      BY DEF Prefix
    <2>2. i \in 1 .. Len(Script[a]) /\ i # s
      BY LengthBounds
    <2> QED BY <2>1, <2>2, DifferentStatements
  <1> QED BY <1>1, <1>2

LEMMA PrefixIsKnown ==
    ASSUME NEW a \in 1 .. Latest, NEW s \in 1 .. Len(Script[a]) + 1
    PROVE  Prefix(a, s) \subseteq ObjectsUpTo(a)
  <1>1. \A i \in 1 .. s - 1 : i \in 1 .. Len(Script[a])
    BY LengthBounds
  <1>2. \A i \in 1 .. s - 1 : Script[a][i] \in ObjectsUpTo(a) \union DataStatements
    BY <1>1, StatementsAreNew
  <1> QED BY <1>2 DEF Prefix

LEMMA FirstStatement ==
    ASSUME NEW a \in 1 .. Latest, NEW s \in 2 .. Len(Script[a]) + 1
    PROVE  Script[a][1] \in Prefix(a, s) /\ Script[a][1] \notin DataStatements
  <1>1. 1 \in 1 .. Len(Script[a]) /\ 1 \in 1 .. s - 1
    BY LengthBounds
  <1>2. Script[a][1] \notin DataStatements
    BY <1>1, StatementsAreNew
  <1> QED BY <1>1, <1>2 DEF Prefix

-----------------------------------------------------------------------------
(* Databases.                                                              *)

LEMMA Databases ==
    ASSUME TypeOK, NEW o \in Operators
    PROVE  /\ durable \in Database /\ pending \in Database /\ View(o) \in Database
           /\ op[o] \in Run
           /\ writer \in {None, o} => View(o) = pending
  BY DEF TypeOK, View

LEMMA DatabaseFields ==
    ASSUME NEW db \in Database
    PROVE  /\ db.objects \in SUBSET AllObjects /\ db.version \in 0 .. Latest
           /\ db.rows \in BOOLEAN
  BY DEF Database

LEMMA DatabaseChanges ==
    ASSUME NEW db \in Database
    PROVE  /\ \A x \in AllObjects : [db EXCEPT !.objects = @ \union {x}] \in Database
           /\ \A v \in 0 .. Latest : [db EXCEPT !.version = v] \in Database
           /\ \A b \in BOOLEAN : [db EXCEPT !.rows = b] \in Database
  BY DEF Database

\* How a run may change the database: not at all, by a statement or a commit
\* that leaves "db" in its view, or by taking back what it has not committed.
Same == UNCHANGED <<durable, pending, writer>>
Writes(o, db) ==
    /\ writer \in {None, o}
    /\ pending' = db
    /\ \/ durable' = durable /\ writer' = o
       \/ durable' = db /\ writer' = None
TakesBack(o) == writer = o /\ writer' = None /\ durable' = durable /\ pending' = durable

LEMMA WritesWays ==
    ASSUME NEW o \in Operators, NEW db
    PROVE  /\ InTransaction(o, db) => Writes(o, db) /\ durable' = durable /\ writer' = o
           /\ Autocommit(o, db) => Writes(o, db) /\ durable' = db /\ writer' = None /\ writer = None
           /\ Ddl(o, db) => Writes(o, db)
           /\ Commit(o, db) => Writes(o, db) /\ durable' = db /\ writer' = None
           /\ Rollback(o) => IF writer = o THEN TakesBack(o) ELSE Same
  BY DEF InTransaction, Autocommit, Ddl, Commit, Rollback, Writes, TakesBack, Same

LEMMA SameViews ==
    ASSUME Same, NEW q PROVE View(q)' = View(q)
  BY DEF Same, View

LEMMA WritesViews ==
    ASSUME NEW o \in Operators, NEW db, Writes(o, db), TypeOK
    PROVE  /\ View(o) = pending /\ View(o)' = db
           /\ \A q \in Operators \ {o} :
                writer # q /\ writer' # q /\ View(q) = durable /\ View(q)' = durable'
  BY DEF Writes, View, TypeOK

LEMMA TakesBackViews ==
    ASSUME NEW o \in Operators, TakesBack(o)
    PROVE  /\ View(o) = pending /\ View(o)' = durable
           /\ \A q \in Operators \ {o} :
                writer # q /\ writer' # q /\ View(q) = durable /\ View(q)' = durable
  BY DEF TakesBack, View

-----------------------------------------------------------------------------
(* Steps of a run, field by field.                                         *)

OthersStay(o) == \A q \in Operators \ {o} : op'[q] = op[q]

Continues(o, pc, at, step, enforced, loose) ==
    /\ op' \in [Operators -> Run]
    /\ op'[o].pc = pc /\ op'[o].at = at /\ op'[o].step = step
    /\ op'[o].enforced = enforced /\ op'[o].loose = loose
    /\ op'[o].tables = op[o].tables /\ op'[o].alone = op[o].alone
    /\ OthersStay(o)

Ends(o, pc) ==
    /\ op' \in [Operators -> Run]
    /\ op'[o].pc = pc /\ op'[o].step = 1 /\ op'[o].at = 1
    /\ ~op'[o].loose /\ ~op'[o].alone
    /\ OthersStay(o)

Starts(o) ==
    /\ op' \in [Operators -> Run]
    /\ op'[o].pc = "classifying" /\ op'[o].step = 1 /\ op'[o].at = 1 /\ ~op'[o].loose
    /\ op'[o].tables = View(o).objects
    /\ op'[o].alone <=> \A q \in Operators : ~Running(q)
    /\ \A q \in Operators \ {o} :
         /\ op'[q].pc = op[q].pc /\ op'[q].tables = op[q].tables /\ op'[q].at = op[q].at
         /\ op'[q].step = op[q].step /\ op'[q].enforced = op[q].enforced
         /\ op'[q].loose = op[q].loose /\ ~op'[q].alone

LEMMA RunChanges ==
    ASSUME TypeOK, NEW o \in Operators, NEW r \in Run, op' = [op EXCEPT ![o] = r]
    PROVE  op' \in [Operators -> Run] /\ op'[o] = r /\ OthersStay(o)
  BY DEF TypeOK, OthersStay

LEMMA IdleIsRun ==
    /\ IdleRun \in Run
    /\ [IdleRun EXCEPT !.pc = "done"] \in Run
  <1>1. IdleRun \in Run
    BY ScriptLength DEF IdleRun, Run
  <1>2. \A r \in Run : [r EXCEPT !.pc = "done"] \in Run
    BY DEF Run
  <1> QED BY <1>1, <1>2

LEMMA ReadTablesEffect ==
    ASSUME TypeOK, NEW o \in Operators, ReadTables(o)
    PROVE  Starts(o) /\ Same /\ UNCHANGED <<backend, original, cut, rewound>> /\ ~Running(o)
  <1>1. Same /\ UNCHANGED <<backend, original, cut, rewound>> /\ ~Running(o)
    BY DEF ReadTables, Same
  <1>2. PICK alone \in BOOLEAN : alone <=> \A q \in Operators : ~Running(q)
    OBVIOUS
  <1>3. PICK t \in SUBSET AllObjects : t = View(o).objects
    BY Databases, DatabaseFields
  <1>4. PICK r : r = [IdleRun EXCEPT !.pc = "classifying", !.tables = t, !.alone = alone]
    OBVIOUS
  <1>5. /\ r \in Run /\ r.pc = "classifying" /\ r.tables = t /\ r.alone = alone
        /\ r.step = 1 /\ r.at = 1 /\ ~r.loose
    <2>1. r = [pc |-> "classifying", tables |-> t, at |-> 1, step |-> 1,
               enforced |-> TRUE, loose |-> FALSE, alone |-> alone]
      BY <1>4 DEF IdleRun
    <2>2. r \in Run
      BY <1>2, <1>3, <1>4, IdleIsRun DEF Run
    <2> QED BY <2>1, <2>2
  <1>6. \A p \in Operators : op'[p] = IF p = o THEN r ELSE [op[p] EXCEPT !.alone = FALSE]
    BY <1>2, <1>3, <1>4 DEF ReadTables
  <1>7. \A q \in Operators : op[q] \in Run /\ [op[q] EXCEPT !.alone = FALSE] \in Run
    BY DEF TypeOK, Run
  <1>8. op' \in [Operators -> Run]
    <2>1. \A p \in Operators : op'[p] \in Run
      BY <1>5, <1>6, <1>7
    <2>2. op' = [p \in Operators |-> op'[p]]
      BY DEF ReadTables
    <2> QED BY <2>1, <2>2
  <1>9. \A q \in Operators \ {o} :
         /\ op'[q].pc = op[q].pc /\ op'[q].tables = op[q].tables /\ op'[q].at = op[q].at
         /\ op'[q].step = op[q].step /\ op'[q].enforced = op[q].enforced
         /\ op'[q].loose = op[q].loose /\ ~op'[q].alone
    <2>1. TAKE q \in Operators \ {o}
    <2>2. PICK old : old = op[q]
      OBVIOUS
    <2>3. old \in Run /\ op'[q] = [old EXCEPT !.alone = FALSE]
      BY <1>6, <1>7, <2>2
    <2> QED BY <2>2, <2>3 DEF Run
  <1> QED BY <1>1, <1>2, <1>3, <1>5, <1>6, <1>8, <1>9 DEF Starts

LEMMA ClassifyEffect ==
    ASSUME TypeOK, NEW o \in Operators, Classify(o)
    PROVE  /\ Same /\ UNCHANGED <<backend, original, cut, rewound>> /\ At(o, "classifying")
           /\ \/ /\ TracksRevision(o) \/ NoTables(o)
                 /\ Continues(o, "upgrading", op[o].at, op[o].step, op[o].enforced, op[o].loose)
              \/ /\ ~TracksRevision(o) /\ ~NoTables(o) /\ MatchesBaseline(View(o))
                 /\ Continues(o, "stamping", op[o].at, op[o].step, op[o].enforced, op[o].loose)
  <1>1. \A pc \in {"upgrading", "stamping"} :
          op' = [op EXCEPT ![o].pc = pc]
            => Continues(o, pc, op[o].at, op[o].step, op[o].enforced, op[o].loose)
    <2>1. TAKE pc \in {"upgrading", "stamping"}
    <2>2. HAVE op' = [op EXCEPT ![o].pc = pc]
    <2>3. op[o] \in Run
      BY Databases
    <2>4. PICK r : r = [op[o] EXCEPT !.pc = pc]
      OBVIOUS
    <2>5. r \in Run
      BY <2>3, <2>4 DEF Run
    <2>6. op' \in [Operators -> Run] /\ op'[o] = r /\ OthersStay(o)
      BY <2>2, <2>4, <2>5, RunChanges
    <2> QED BY <2>3, <2>4, <2>6 DEF Continues, Run
  <1> QED BY <1>1 DEF Classify, Same

LEMMA RefuseEffect ==
    ASSUME TypeOK, NEW o \in Operators, Refuse(o)
    PROVE  /\ Ends(o, "idle") /\ Same /\ UNCHANGED <<backend, original, cut, rewound>>
           /\ At(o, "classifying")
  <1>1. op' \in [Operators -> Run] /\ op'[o] = IdleRun /\ OthersStay(o)
    BY IdleIsRun, RunChanges DEF Refuse
  <1> QED BY <1>1 DEF Refuse, Ends, IdleRun, Same

LEMMA CreateVersionTableEffect ==
    ASSUME TypeOK, NEW o \in Operators, CreateVersionTable(o)
    PROVE  /\ Continues(o, op[o].pc, op[o].at, op[o].step, op[o].enforced, op[o].loose)
           /\ UNCHANGED <<backend, original, cut, rewound>>
           /\ At(o, "stamping") \/ At(o, "migrating")
           /\ VersionTable \notin View(o).objects
           /\ Ddl(o, [View(o) EXCEPT !.objects = @ \union {VersionTable}])
  BY DEF CreateVersionTable, Continues, OthersStay, TypeOK

LEMMA WriteStampEffect ==
    ASSUME TypeOK, NEW o \in Operators, WriteStamp(o)
    PROVE  /\ Continues(o, "upgrading", op[o].at, op[o].step, op[o].enforced, op[o].loose)
           /\ UNCHANGED <<backend, original, cut>>
           /\ At(o, "stamping") /\ VersionTable \in View(o).objects
           /\ rewound' = (rewound \/ View(o).version > 1)
           /\ IF View(o).version = 1 THEN Same ELSE Commit(o, [View(o) EXCEPT !.version = 1])
  <1>1. op[o] \in Run
    BY Databases
  <1>2. PICK r : r = [op[o] EXCEPT !.pc = "upgrading"]
    OBVIOUS
  <1>3. r \in Run
    BY <1>1, <1>2 DEF Run
  <1>4. op' \in [Operators -> Run] /\ op'[o] = r /\ OthersStay(o)
    BY <1>2, <1>3, RunChanges DEF WriteStamp
  <1>5. Continues(o, "upgrading", op[o].at, op[o].step, op[o].enforced, op[o].loose)
    BY <1>1, <1>2, <1>4 DEF Continues, Run
  <1> QED BY <1>5 DEF WriteStamp, Same

LEMMA BeginUpgradeEffect ==
    ASSUME TypeOK, NEW o \in Operators, BeginUpgrade(o)
    PROVE  /\ Continues(o, "migrating", View(o).version + 1, op[o].step, FALSE, op[o].loose)
           /\ Same /\ UNCHANGED <<backend, original, cut, rewound>>
           /\ At(o, "upgrading")
  <1>1. op[o] \in Run
    BY Databases
  <1>2. PICK a \in 1 .. Latest + 1 : a = View(o).version + 1
    BY Databases, DatabaseFields, ScriptLength
  <1>3. PICK r : r = [op[o] EXCEPT !.pc = "migrating", !.at = a, !.enforced = FALSE]
    OBVIOUS
  <1>4. r \in Run
    BY <1>1, <1>3 DEF Run
  <1>5. op' = [op EXCEPT ![o] = r]
    BY <1>1, <1>2, <1>3 DEF BeginUpgrade, TypeOK, Run
  <1>6. op' \in [Operators -> Run] /\ op'[o] = r /\ OthersStay(o)
    BY <1>4, <1>5, RunChanges
  <1>7. Continues(o, "migrating", View(o).version + 1, op[o].step, FALSE, op[o].loose)
    BY <1>1, <1>2, <1>3, <1>6 DEF Continues, Run
  <1> QED BY <1>7 DEF BeginUpgrade, Same

LEMMA MigratingRun ==
    ASSUME TypeOK, NEW o \in Operators, Migrating(o)
    PROVE  /\ op[o].at \in 1 .. Latest /\ op[o].step \in 1 .. Len(Script[op[o].at])
           /\ op[o].step + 1 \in 1 .. 6
           /\ At(o, "migrating") /\ VersionTable \in View(o).objects
  <1>1. op[o].at \in 1 .. Latest /\ op[o].step \in 1 .. 6
    BY Databases, ScriptLength DEF Run, Migrating
  <1>2. PICK n \in 1 .. 5 : n = Len(Script[op[o].at])
    BY <1>1, LengthBounds
  <1>3. op[o].step <= n
    BY <1>1, <1>2 DEF Migrating, RevisionDone
  <1>4. op[o].step \in 1 .. n /\ op[o].step + 1 \in 1 .. 6
    BY <1>1, <1>3
  <1> QED BY <1>1, <1>2, <1>4 DEF Migrating

LEMMA CreateObjectEffect ==
    ASSUME TypeOK, NEW o \in Operators, CreateObject(o)
    PROVE  /\ Continues(o, "migrating", op[o].at, op[o].step + 1, op[o].enforced,
                        op[o].loose \/ (backend = "sqlite" /\ writer # o))
           /\ UNCHANGED <<backend, original, cut, rewound>>
           /\ Migrating(o)
           /\ Statement(o) \notin View(o).objects \union DataStatements
           /\ Ddl(o, [View(o) EXCEPT !.objects = @ \union {Statement(o)}])
  <1>1. op[o] \in Run /\ op[o].pc = "migrating"
    BY Databases, MigratingRun DEF CreateObject, At
  <1>2. PICK s \in 1 .. 6 : s = op[o].step + 1
    BY MigratingRun DEF CreateObject
  <1>3. PICK loose \in BOOLEAN : loose = (op[o].loose \/ (backend = "sqlite" /\ writer # o))
    OBVIOUS
  <1>4. PICK r : r = [op[o] EXCEPT !.step = s, !.loose = loose]
    OBVIOUS
  <1>5. r \in Run
    BY <1>1, <1>4 DEF Run
  <1>6. op' = [op EXCEPT ![o] = r]
    BY <1>1, <1>2, <1>3, <1>4 DEF CreateObject, TypeOK, Run
  <1>7. op' \in [Operators -> Run] /\ op'[o] = r /\ OthersStay(o)
    BY <1>5, <1>6, RunChanges
  <1>8. Continues(o, "migrating", op[o].at, op[o].step + 1, op[o].enforced,
                  op[o].loose \/ (backend = "sqlite" /\ writer # o))
    BY <1>1, <1>2, <1>3, <1>4, <1>7 DEF Continues, Run
  <1> QED BY <1>8 DEF CreateObject

LEMMA TransformUsersEffect ==
    ASSUME TypeOK, NEW o \in Operators, TransformUsers(o)
    PROVE  /\ Continues(o, "migrating", op[o].at, op[o].step + 1, op[o].enforced, op[o].loose)
           /\ UNCHANGED <<backend, original, cut, rewound>>
           /\ Migrating(o) /\ Statement(o) \in DataStatements
           /\ InTransaction(o, [View(o) EXCEPT
                !.rows = @ /\ ~(backend = "sqlite" /\ Statement(o) = "rebuild"
                                  /\ op[o].enforced)])
  <1>1. op[o] \in Run /\ op[o].pc = "migrating"
    BY Databases, MigratingRun DEF TransformUsers, At
  <1>2. PICK s \in 1 .. 6 : s = op[o].step + 1
    BY MigratingRun DEF TransformUsers
  <1>3. PICK r : r = [op[o] EXCEPT !.step = s]
    OBVIOUS
  <1>4. r \in Run
    BY <1>1, <1>3 DEF Run
  <1>5. op' = [op EXCEPT ![o] = r]
    BY <1>1, <1>2, <1>3 DEF TransformUsers, TypeOK, Run
  <1>6. op' \in [Operators -> Run] /\ op'[o] = r /\ OthersStay(o)
    BY <1>4, <1>5, RunChanges
  <1>7. Continues(o, "migrating", op[o].at, op[o].step + 1, op[o].enforced, op[o].loose)
    BY <1>1, <1>2, <1>3, <1>6 DEF Continues, Run
  <1> QED BY <1>7 DEF TransformUsers

LEMMA RecordRevisionEffect ==
    ASSUME TypeOK, NEW o \in Operators, RecordRevision(o)
    PROVE  /\ Continues(o, "migrating", op[o].at + 1, 1, op[o].enforced, op[o].loose)
           /\ UNCHANGED <<backend, original, cut, rewound>>
           /\ At(o, "migrating") /\ op[o].at \in 1 .. Latest /\ RevisionDone(o)
           /\ View(o).version = op[o].at - 1
           /\ InTransaction(o, [View(o) EXCEPT !.version = op[o].at])
  <1>1. op[o] \in Run /\ op[o].pc = "migrating" /\ op[o].at \in 1 .. Latest
    BY Databases, ScriptLength DEF RecordRevision, At, Run
  <1>2. PICK a \in 1 .. Latest + 1 : a = op[o].at + 1
    BY <1>1, ScriptLength
  <1>3. PICK r : r = [op[o] EXCEPT !.at = a, !.step = 1]
    OBVIOUS
  <1>4. r \in Run
    <2>1. 1 \in 1 .. 6
      OBVIOUS
    <2> QED BY <1>1, <1>2, <1>3, <2>1 DEF Run
  <1>5. op' = [op EXCEPT ![o] = r]
    BY <1>1, <1>2, <1>3 DEF RecordRevision, TypeOK, Run
  <1>6. op' \in [Operators -> Run] /\ op'[o] = r /\ OthersStay(o)
    BY <1>4, <1>5, RunChanges
  <1>7. Continues(o, "migrating", op[o].at + 1, 1, op[o].enforced, op[o].loose)
    BY <1>1, <1>2, <1>3, <1>6 DEF Continues, Run
  <1> QED BY <1>1, <1>7 DEF RecordRevision

LEMMA FinishUpgradeEffect ==
    ASSUME TypeOK, NEW o \in Operators, FinishUpgrade(o)
    PROVE  /\ Ends(o, "done") /\ UNCHANGED <<backend, original, cut, rewound>>
           /\ At(o, "migrating") /\ op[o].at = Latest + 1
           /\ IF writer = o THEN Commit(o, pending) ELSE Same
  <1>1. PICK r \in Run : r = [IdleRun EXCEPT !.pc = "done"]
    BY IdleIsRun
  <1>2. op' \in [Operators -> Run] /\ op'[o] = r /\ OthersStay(o)
    BY <1>1, RunChanges DEF FinishUpgrade
  <1>3. Ends(o, "done")
    BY <1>1, <1>2 DEF Ends, IdleRun
  <1>4. op[o].at = Latest + 1
    BY Databases, ScriptLength DEF FinishUpgrade, Run
  <1> QED BY <1>3, <1>4 DEF FinishUpgrade, Same

LEMMA AbortEffect ==
    ASSUME TypeOK, NEW o \in Operators, Abort(o)
    PROVE  /\ Ends(o, "idle") /\ UNCHANGED <<backend, original, rewound>>
           /\ cut' = (cut \/ op[o].loose) /\ Running(o)
           /\ IF writer = o THEN TakesBack(o) ELSE Same
  <1>1. op' \in [Operators -> Run] /\ op'[o] = IdleRun /\ OthersStay(o)
    BY IdleIsRun, RunChanges DEF Abort
  <1>2. Ends(o, "idle")
    BY <1>1 DEF Ends, IdleRun
  <1>3. IF writer = o THEN TakesBack(o) ELSE Same
    BY WritesWays DEF Abort
  <1> QED BY <1>2, <1>3 DEF Abort

-----------------------------------------------------------------------------
(* Every step.                                                             *)

Step(o) ==
    \/ ReadTables(o)
    \/ Classify(o)
    \/ Refuse(o)
    \/ CreateVersionTable(o)
    \/ WriteStamp(o)
    \/ BeginUpgrade(o)
    \/ CreateObject(o)
    \/ TransformUsers(o)
    \/ RecordRevision(o)
    \/ FinishUpgrade(o)
    \/ Abort(o)

LEMMA NextIsStep == Next => \E o \in Operators : Step(o)
  BY DEF Next, Step

\* Whoever else has a transaction open keeps it.
OthersKeep(o) == \A q \in Operators \ {o} : writer' = q <=> writer = q

LEMMA OthersKeepWriting ==
    ASSUME TypeOK, NEW o \in Operators, Same \/ TakesBack(o) \/ \E db : Writes(o, db)
    PROVE  OthersKeep(o)
  BY DEF OthersKeep, Same, TakesBack, Writes, TypeOK

LEMMA WritesKeepTypes ==
    ASSUME TypeOK, NEW o \in Operators, NEW db \in Database, Writes(o, db),
           op' \in [Operators -> Run], OthersStay(o), writer' = o => Running(o)',
           UNCHANGED <<backend, original, cut>>, rewound' \in BOOLEAN
    PROVE  TypeOK'
  <1>1. durable' \in Database /\ pending' \in Database /\ original' \in Database
    BY DEF Writes, TypeOK
  <1>2. writer' = None => pending' = durable'
    BY DEF Writes, TypeOK
  <1>3. writer' \in {p \in Operators : Running(p)'} \union {None}
    BY DEF Writes, TypeOK
  <1>4. backend' \in {"postgresql", "sqlite"} /\ cut' \in BOOLEAN
    BY DEF TypeOK
  <1> QED BY <1>1, <1>2, <1>3, <1>4 DEF TypeOK

LEMMA QuietKeepsTypes ==
    ASSUME TypeOK, NEW o \in Operators, Same \/ TakesBack(o),
           op' \in [Operators -> Run],
           \A q \in Operators \ {o} : op'[q].pc = op[q].pc,
           writer' = o => Running(o)',
           UNCHANGED <<backend, original>>, cut' \in BOOLEAN, rewound' \in BOOLEAN
    PROVE  TypeOK'
  <1>1. durable' \in Database /\ pending' \in Database /\ original' \in Database
    BY DEF Same, TakesBack, TypeOK
  <1>2. writer' = None => pending' = durable'
    BY DEF Same, TakesBack, TypeOK
  <1>3. writer' \in {p \in Operators : Running(p)'} \union {None}
    <2>1. ASSUME NEW q \in Operators \ {o}, writer' = q PROVE Running(q)'
      BY <2>1 DEF Same, TakesBack, TypeOK, Running, At
    <2> QED BY <2>1 DEF Same, TakesBack, TypeOK
  <1>4. backend' \in {"postgresql", "sqlite"}
    BY DEF TypeOK
  <1> QED BY <1>1, <1>2, <1>3, <1>4 DEF TypeOK

\* The database a statement leaves behind.
LEMMA StatementResults ==
    ASSUME TypeOK, NEW o \in Operators
    PROVE  /\ [View(o) EXCEPT !.objects = @ \union {VersionTable}] \in Database
           /\ [View(o) EXCEPT !.version = 1] \in Database
           /\ Migrating(o) => /\ Statement(o) \notin DataStatements
                                 => [View(o) EXCEPT !.objects = @ \union {Statement(o)}] \in Database
                              /\ op[o].at \in 1 .. Latest
           /\ op[o].at \in 1 .. Latest => [View(o) EXCEPT !.version = op[o].at] \in Database
           /\ \A b \in BOOLEAN : [View(o) EXCEPT !.rows = View(o).rows /\ b] \in Database
  <1>1. View(o) \in Database /\ View(o).rows \in BOOLEAN
    BY Databases, DatabaseFields
  <1>2. VersionTable \in AllObjects
    BY DEF AllObjects
  <1>3. 1 \in 0 .. Latest /\ (op[o].at \in 1 .. Latest => op[o].at \in 0 .. Latest)
    BY ScriptLength
  <1>4. ASSUME Migrating(o), Statement(o) \notin DataStatements PROVE Statement(o) \in AllObjects
    <2>1. PICK a \in 1 .. Latest, i \in 1 .. Len(Script[op[o].at]) : a = op[o].at /\ i = op[o].step
      BY <1>4, MigratingRun
    <2>2. Statement(o) \in ObjectsUpTo(a)
      BY <1>4, <2>1, StatementsAreNew DEF Statement
    <2> QED BY <2>1, <2>2, UpToIsKnown, ScriptLength
  <1>5. \A b \in BOOLEAN : (View(o).rows /\ b) \in BOOLEAN
    OBVIOUS
  <1> QED BY <1>1, <1>2, <1>3, <1>4, <1>5, DatabaseChanges, MigratingRun

LEMMA TypesKept ==
    ASSUME TypeOK, RunsInOrder, NEW o \in Operators, Step(o) PROVE TypeOK'
  <1> USE DEF Running, At
  <1>0. cut \in BOOLEAN /\ rewound \in BOOLEAN /\ op[o] \in Run /\ RunInOrder(o)
    BY DEF TypeOK, RunsInOrder
  <1>1. CASE ReadTables(o)
    BY <1>0, <1>1, ReadTablesEffect, QuietKeepsTypes DEF Starts
  <1>2. CASE Classify(o)
    BY <1>0, <1>2, ClassifyEffect, QuietKeepsTypes DEF Continues, OthersStay
  <1>3. CASE Refuse(o)
    BY <1>0, <1>3, RefuseEffect, QuietKeepsTypes DEF Ends, OthersStay, RunInOrder, Same
  <1>4. CASE CreateVersionTable(o)
    <2>1. PICK db : db = [View(o) EXCEPT !.objects = @ \union {VersionTable}]
      OBVIOUS
    <2>2. Writes(o, db) /\ db \in Database
      BY <1>4, <2>1, CreateVersionTableEffect, StatementResults, WritesWays
    <2>3. /\ op' \in [Operators -> Run] /\ op'[o].pc = op[o].pc /\ OthersStay(o)
          /\ op[o].pc \in {"stamping", "migrating"}
          /\ UNCHANGED <<backend, original, cut, rewound>>
      BY <1>4, CreateVersionTableEffect DEF Continues
    <2> QED BY <1>0, <2>2, <2>3, WritesKeepTypes
  <1>5. CASE WriteStamp(o)
    <2>1. /\ op' \in [Operators -> Run] /\ op'[o].pc = "upgrading" /\ OthersStay(o)
          /\ UNCHANGED <<backend, original, cut>> /\ rewound' \in BOOLEAN
      BY <1>0, <1>5, WriteStampEffect DEF Continues
    <2>2. CASE View(o).version = 1
      <3>1. Same
        BY <1>5, <2>2, WriteStampEffect
      <3> QED BY <1>0, <2>1, <3>1, QuietKeepsTypes DEF OthersStay
    <2>3. CASE View(o).version # 1
      <3>1. PICK db : db = [View(o) EXCEPT !.version = 1]
        OBVIOUS
      <3>2. Writes(o, db) /\ db \in Database
        BY <1>5, <2>3, <3>1, WriteStampEffect, StatementResults, WritesWays
      <3> QED BY <2>1, <3>2, WritesKeepTypes
    <2> QED BY <2>2, <2>3
  <1>6. CASE BeginUpgrade(o)
    <2>1. /\ op' \in [Operators -> Run] /\ op'[o].pc = "migrating" /\ OthersStay(o)
          /\ Same /\ UNCHANGED <<backend, original, cut, rewound>>
      BY <1>6, BeginUpgradeEffect DEF Continues
    <2> QED BY <1>0, <2>1, QuietKeepsTypes DEF OthersStay
  <1>7. CASE CreateObject(o)
    <2>1. PICK db : db = [View(o) EXCEPT !.objects = @ \union {Statement(o)}]
      OBVIOUS
    <2>2. Writes(o, db) /\ db \in Database
      BY <1>7, <2>1, CreateObjectEffect, StatementResults, WritesWays
    <2>3. /\ op' \in [Operators -> Run] /\ op'[o].pc = "migrating" /\ OthersStay(o)
          /\ UNCHANGED <<backend, original, cut, rewound>>
      BY <1>7, CreateObjectEffect DEF Continues
    <2> QED BY <1>0, <2>2, <2>3, WritesKeepTypes
  <1>8. CASE TransformUsers(o)
    <2>1. PICK b \in BOOLEAN :
            b = ~(backend = "sqlite" /\ Statement(o) = "rebuild" /\ op[o].enforced)
      OBVIOUS
    <2>2. PICK db : db = [View(o) EXCEPT !.rows = View(o).rows /\ b]
      OBVIOUS
    <2>3. InTransaction(o, db)
      BY <1>8, <2>1, <2>2, TransformUsersEffect
    <2>4. Writes(o, db) /\ db \in Database
      BY <2>2, <2>3, StatementResults, WritesWays
    <2>5. /\ op' \in [Operators -> Run] /\ op'[o].pc = "migrating" /\ OthersStay(o)
          /\ UNCHANGED <<backend, original, cut, rewound>>
      BY <1>8, TransformUsersEffect DEF Continues
    <2> QED BY <1>0, <2>4, <2>5, WritesKeepTypes
  <1>9. CASE RecordRevision(o)
    <2>1. PICK db : db = [View(o) EXCEPT !.version = op[o].at]
      OBVIOUS
    <2>2. Writes(o, db) /\ db \in Database
      BY <1>9, <2>1, RecordRevisionEffect, StatementResults, WritesWays
    <2>3. /\ op' \in [Operators -> Run] /\ op'[o].pc = "migrating" /\ OthersStay(o)
          /\ UNCHANGED <<backend, original, cut, rewound>>
      BY <1>9, RecordRevisionEffect DEF Continues
    <2> QED BY <1>0, <2>2, <2>3, WritesKeepTypes
  <1>10. CASE FinishUpgrade(o)
    <2>1. CASE writer = o
      BY <1>0, <1>10, <2>1, FinishUpgradeEffect, Databases, WritesWays, WritesKeepTypes DEF Ends
    <2>2. CASE writer # o
      BY <1>0, <1>10, <2>2, FinishUpgradeEffect, QuietKeepsTypes DEF Ends, OthersStay, Same
    <2> QED BY <2>1, <2>2
  <1>11. CASE Abort(o)
    BY <1>0, <1>11, AbortEffect, QuietKeepsTypes DEF Ends, OthersStay, Same, TakesBack, TypeOK
  <1> QED
    BY <1>1, <1>2, <1>3, <1>4, <1>5, <1>6, <1>7, <1>8, <1>9, <1>10, <1>11 DEF Step

-----------------------------------------------------------------------------
(* The database after a step.                                              *)

LEMMA SoundView ==
    ASSUME DatabasesGrow, NEW o \in Operators
    PROVE  Sound(View(o)) /\ durable.objects \subseteq View(o).objects
  BY DEF DatabasesGrow, View

LEMMA FinishedRevision ==
    ASSUME TypeOK, NEW o \in Operators, RunInOrder(o),
           At(o, "migrating"), op[o].at \in 1 .. Latest, RevisionDone(o)
    PROVE  op[o].step = Len(Script[op[o].at]) + 1 /\ Begun(o)
  <1>1. PICK n \in 1 .. 5 : n = Len(Script[op[o].at])
    BY LengthBounds
  <1>2. op[o].step \in 1 .. 6
    BY Databases DEF Run
  <1>3. op[o].step > n
    BY <1>1 DEF RevisionDone
  <1>4. op[o].step <= 1 + n
    <2>1. op[o].at <= Latest
      BY ScriptLength
    <2> QED BY <1>1, <2>1 DEF RunInOrder
  <1>5. op[o].step = n + 1 /\ op[o].step > 1
    BY <1>2, <1>3, <1>4
  <1> QED BY <1>1, <1>5 DEF Begun

LEMMA RecordIsSound ==
    ASSUME SafeInv, NEW o \in Operators, RecordRevision(o)
    PROVE  Sound([View(o) EXCEPT !.version = op[o].at])
  <1>1. PICK a \in 1 .. Latest : a = op[o].at
    BY RecordRevisionEffect DEF SafeInv
  <1>2. At(o, "migrating") /\ RevisionDone(o) /\ View(o).version = a - 1
    BY <1>1, RecordRevisionEffect DEF SafeInv
  <1>3. RunInOrder(o) /\ RunKeepsResults(o) /\ TypeOK /\ DatabasesGrow
    BY DEF SafeInv, RunsInOrder, RunsKeepResults
  <1>4. op[o].step = Len(Script[a]) + 1 /\ Begun(o)
    BY <1>1, <1>2, <1>3, FinishedRevision
  <1>5. Prefix(a, Len(Script[a]) + 1) \subseteq View(o).objects /\ VersionTable \in View(o).objects
    BY <1>1, <1>2, <1>3, <1>4 DEF RunKeepsResults
  <1>6. ObjectsUpTo(a - 1) \subseteq View(o).objects /\ View(o).rows
    BY <1>2, <1>3, SoundView DEF Sound
  <1>7. ObjectsUpTo(a) \subseteq View(o).objects
    BY <1>5, <1>6, PrefixIsRevision
  <1>8. PICK db : db = View(o)
    OBVIOUS
  <1>9. PICK new : new = [db EXCEPT !.version = a]
    OBVIOUS
  <1>10. db \in Database
    BY <1>3, <1>8, Databases
  <1>11. new.version = a /\ new.objects = db.objects /\ new.rows = db.rows
    BY <1>9, <1>10 DEF Database
  <1> QED BY <1>1, <1>5, <1>6, <1>7, <1>8, <1>9, <1>11 DEF Sound

Extends(o, db) == /\ Writes(o, db) /\ Sound(db)
                  /\ View(o).objects \subseteq db.objects /\ db \in Database

\* Every statement adds to what the run sees, and the revision on record is
\* true of the result.
LEMMA StepsExtend ==
    ASSUME SafeInv, NEW o \in Operators, Step(o)
    PROVE  Same \/ TakesBack(o) \/ \E db : Extends(o, db)
  <1>0. TypeOK /\ DatabasesGrow /\ RunKeepsResults(o) /\ RunInOrder(o)
    BY DEF SafeInv, RunsKeepResults, RunsInOrder
  <1>1. Sound(View(o))
    BY <1>0, SoundView
  <1>2. PICK old \in Database : old = View(o)
    BY <1>0, Databases
  <1>3. CASE ReadTables(o)
    BY <1>0, <1>3, ReadTablesEffect
  <1>4. CASE Classify(o)
    BY <1>0, <1>4, ClassifyEffect
  <1>5. CASE Refuse(o)
    BY <1>0, <1>5, RefuseEffect
  <1>6. CASE CreateVersionTable(o)
    <2>1. PICK db : db = [old EXCEPT !.objects = @ \union {VersionTable}]
      OBVIOUS
    <2>2. /\ db.objects = old.objects \union {VersionTable}
          /\ db.version = old.version /\ db.rows = old.rows
      BY <2>1 DEF Database
    <2>3. Writes(o, db) /\ db \in Database
      BY <1>0, <1>2, <1>6, <2>1, CreateVersionTableEffect, WritesWays, StatementResults
    <2>4. Sound(db)
      BY <1>1, <1>2, <2>2 DEF Sound
    <2> QED BY <1>2, <2>2, <2>3, <2>4 DEF Extends
  <1>7. CASE WriteStamp(o)
    <2>1. CASE View(o).version = 1
      BY <1>0, <1>7, <2>1, WriteStampEffect
    <2>2. CASE View(o).version # 1
      <3>1. PICK db : db = [old EXCEPT !.version = 1]
        OBVIOUS
      <3>2. db.objects = old.objects /\ db.version = 1 /\ db.rows = old.rows
        BY <3>1 DEF Database
      <3>3. Writes(o, db) /\ db \in Database
        BY <1>0, <1>2, <1>7, <2>2, <3>1, WriteStampEffect, WritesWays, StatementResults
      <3>4. VersionTable \in old.objects /\ ObjectsUpTo(1) \subseteq old.objects
        BY <1>0, <1>2, <1>7, WriteStampEffect DEF RunKeepsResults, Baseline
      <3>5. Sound(db)
        BY <1>1, <1>2, <3>2, <3>4 DEF Sound
      <3> QED BY <1>2, <3>2, <3>3, <3>5 DEF Extends
    <2> QED BY <2>1, <2>2
  <1>8. CASE BeginUpgrade(o)
    BY <1>0, <1>8, BeginUpgradeEffect
  <1>9. CASE CreateObject(o)
    <2>1. PICK x : x = Statement(o)
      OBVIOUS
    <2>2. PICK db : db = [old EXCEPT !.objects = @ \union {x}]
      OBVIOUS
    <2>3. /\ db.objects = old.objects \union {x}
          /\ db.version = old.version /\ db.rows = old.rows
      BY <2>2 DEF Database
    <2>4. Writes(o, db) /\ db \in Database
      BY <1>0, <1>2, <1>9, <2>1, <2>2, CreateObjectEffect, WritesWays, StatementResults
    <2>5. Sound(db)
      BY <1>1, <1>2, <2>3 DEF Sound
    <2> QED BY <1>2, <2>3, <2>4, <2>5 DEF Extends
  <1>10. CASE TransformUsers(o)
    <2>1. PICK db : db = [old EXCEPT !.rows = old.rows /\ TRUE]
      OBVIOUS
    <2>2. db.objects = old.objects /\ db.version = old.version /\ db.rows = (old.rows /\ TRUE)
      BY <2>1 DEF Database
    <2>3. ~op[o].enforced
      BY <1>0, <1>10, TransformUsersEffect, MigratingRun DEF RunInOrder
    <2>4. InTransaction(o, db)
      BY <1>0, <1>2, <1>10, <2>1, <2>3, TransformUsersEffect
    <2>5. Writes(o, db) /\ db \in Database
      BY <1>0, <1>2, <2>1, <2>4, WritesWays, StatementResults
    <2>6. Sound(db)
      BY <1>1, <1>2, <2>2 DEF Sound
    <2> QED BY <1>2, <2>2, <2>5, <2>6 DEF Extends
  <1>11. CASE RecordRevision(o)
    <2>1. PICK a \in 1 .. Latest : a = op[o].at
      BY <1>0, <1>11, RecordRevisionEffect
    <2>2. PICK db : db = [old EXCEPT !.version = a]
      OBVIOUS
    <2>3. db.objects = old.objects
      BY <2>2 DEF Database
    <2>4. Writes(o, db) /\ db \in Database
      BY <1>0, <1>2, <1>11, <2>1, <2>2, RecordRevisionEffect, WritesWays, StatementResults
    <2>5. Sound(db)
      BY <1>2, <1>11, <2>1, <2>2, RecordIsSound
    <2> QED BY <1>2, <2>3, <2>4, <2>5 DEF Extends
  <1>12. CASE FinishUpgrade(o)
    <2>1. CASE writer = o
      <3>1. old = pending
        BY <1>2, <2>1 DEF View
      <3>2. Writes(o, old)
        BY <1>0, <1>12, <2>1, <3>1, FinishUpgradeEffect, WritesWays
      <3> QED BY <1>1, <1>2, <3>2 DEF Extends
    <2>2. CASE writer # o
      BY <1>0, <1>12, <2>2, FinishUpgradeEffect
    <2> QED BY <2>1, <2>2
  <1>13. CASE Abort(o)
    BY <1>0, <1>13, AbortEffect
  <1> QED
    BY <1>3, <1>4, <1>5, <1>6, <1>7, <1>8, <1>9, <1>10, <1>11, <1>12, <1>13 DEF Step

\* What the others see grows, and does not change while they write.
Grows(o) ==
    /\ DatabasesGrow' /\ OthersKeep(o)
    /\ durable.objects \subseteq durable'.objects
    /\ \A q \in Operators \ {o} :
         /\ View(q).objects \subseteq View(q)'.objects
         /\ writer = q => View(q)' = View(q) /\ durable' = durable /\ pending' = pending

LEMMA GrowthKept ==
    ASSUME SafeInv, NEW o \in Operators, Step(o)
    PROVE  Grows(o)
  <1>0. TypeOK /\ DatabasesGrow /\ Sound(durable) /\ Sound(pending)
        /\ durable.objects \subseteq pending.objects
    BY DEF SafeInv, DatabasesGrow
  <1>1. CASE Same
    BY <1>0, <1>1, SameViews, OthersKeepWriting DEF Same, DatabasesGrow, Sound, Grows
  <1>2. CASE TakesBack(o)
    BY <1>0, <1>2, TakesBackViews, OthersKeepWriting DEF TakesBack, DatabasesGrow, Sound, Grows
  <1>3. ASSUME NEW db, Extends(o, db) PROVE Grows(o)
    <2>1. /\ Writes(o, db) /\ Sound(db) /\ View(o) = pending /\ pending.objects \subseteq db.objects
      BY <1>0, <1>3, WritesViews DEF Extends
    <2>2. pending' = db /\ durable' \in {durable, db}
      BY <2>1 DEF Writes
    <2>3. DatabasesGrow' /\ durable.objects \subseteq durable'.objects
      BY <1>0, <2>1, <2>2 DEF DatabasesGrow, Sound
    <2>4. OthersKeep(o)
      BY <1>0, <2>1, OthersKeepWriting
    <2>5. \A q \in Operators \ {o} : writer # q /\ View(q) = durable /\ View(q)' = durable'
      BY <1>0, <2>1, WritesViews
    <2> QED BY <2>3, <2>4, <2>5 DEF Grows
  <1> QED BY <1>1, <1>2, <1>3, StepsExtend

-----------------------------------------------------------------------------
(* The runs after a step.                                                  *)

LEMMA StepRuns ==
    ASSUME TypeOK, NEW o \in Operators, Step(o)
    PROVE  /\ op' \in [Operators -> Run] /\ backend' = backend /\ original' = original
           /\ \/ Starts(o) /\ ~Running(o) /\ Same /\ cut' = cut /\ rewound' = rewound
              \/ Running(o) /\ OthersStay(o)
  <1> USE DEF Running, At
  <1>1. CASE ReadTables(o) BY <1>1, ReadTablesEffect DEF Starts
  <1>2. CASE Classify(o) BY <1>2, ClassifyEffect DEF Continues
  <1>3. CASE Refuse(o) BY <1>3, RefuseEffect DEF Ends
  <1>4. CASE CreateVersionTable(o) BY <1>4, CreateVersionTableEffect DEF Continues
  <1>5. CASE WriteStamp(o) BY <1>5, WriteStampEffect DEF Continues
  <1>6. CASE BeginUpgrade(o) BY <1>6, BeginUpgradeEffect DEF Continues
  <1>7. CASE CreateObject(o) BY <1>7, CreateObjectEffect, MigratingRun DEF Continues
  <1>8. CASE TransformUsers(o) BY <1>8, TransformUsersEffect, MigratingRun DEF Continues
  <1>9. CASE RecordRevision(o) BY <1>9, RecordRevisionEffect DEF Continues
  <1>10. CASE FinishUpgrade(o) BY <1>10, FinishUpgradeEffect DEF Ends
  <1>11. CASE Abort(o) BY <1>11, AbortEffect DEF Ends
  <1> QED
    BY <1>1, <1>2, <1>3, <1>4, <1>5, <1>6, <1>7, <1>8, <1>9, <1>10, <1>11 DEF Step

LEMMA OthersFields ==
    ASSUME TypeOK, NEW o \in Operators, Step(o), NEW q \in Operators \ {o}
    PROVE  /\ op'[q].pc = op[q].pc /\ op'[q].at = op[q].at /\ op'[q].step = op[q].step
           /\ op'[q].tables = op[q].tables /\ op'[q].enforced = op[q].enforced
           /\ op'[q].loose = op[q].loose
           /\ op'[q].alone => op[q].alone /\ Running(o) /\ OthersStay(o)
  BY StepRuns DEF Starts, OthersStay

LEMMA OthersInOrder ==
    ASSUME SafeInv, NEW o \in Operators, Step(o), NEW q \in Operators \ {o}
    PROVE  RunInOrder(q)'
  <1>1. TypeOK /\ RunInOrder(q)
    BY DEF SafeInv, RunsInOrder
  <1>2. (writer' = q <=> writer = q) /\ backend' = backend
    BY <1>1, GrowthKept, StepRuns DEF Grows, OthersKeep
  <1>3. ~op'[q].alone
    BY <1>1, OthersFields DEF RunInOrder
  <1> QED
    BY <1>1, <1>2, <1>3, OthersFields DEF RunInOrder, Begun, At

LEMMA FirstStep ==
    ASSUME TypeOK', NEW o \in Operators, op'[o].step = 1
    PROVE  op'[o].step <= 1 + (IF op'[o].at <= Latest THEN Len(Script[op'[o].at]) ELSE 0)
  <1>1. op'[o] \in Run
    BY DEF TypeOK
  <1>2. op'[o].at \in 1 .. Latest + 1
    BY <1>1 DEF Run
  <1>3. CASE op'[o].at \in 1 .. Latest
    <2>1. PICK n \in 1 .. 5 : n = Len(Script[op'[o].at])
      BY <1>3, LengthBounds
    <2> QED BY <1>3, <2>1
  <1>4. CASE op'[o].at = Latest + 1
    BY <1>4, ScriptLength
  <1> QED BY <1>2, <1>3, <1>4, ScriptLength

LEMMA AloneKept ==
    ASSUME TypeOK, RunsInOrder, NEW o \in Operators, OthersStay(o), op'[o].alone = op[o].alone,
           Running(o)'
    PROVE  op'[o].alone => Running(o)' /\ \A q \in Operators \ {o} : ~Running(q)'
  <1>1. op[o].alone => \A q \in Operators \ {o} : ~Running(q)
    BY DEF RunsInOrder, RunInOrder
  <1>2. \A q \in Operators \ {o} : Running(q)' <=> Running(q)
    BY DEF OthersStay, Running, At
  <1> QED BY <1>1, <1>2

LEMMA OwnOrderKept ==
    ASSUME SafeInv, NEW o \in Operators, Step(o)
    PROVE  RunInOrder(o)'
  <1>0. TypeOK /\ RunInOrder(o) /\ RunsInOrder /\ TypeOK' /\ op[o] \in Run /\ RunKeepsResults(o)
    BY TypesKept, Databases DEF SafeInv, RunsInOrder, RunsKeepResults
  <1>1. CASE ReadTables(o)
    <2>1. Starts(o) /\ writer' = writer /\ ~Running(o)
      BY <1>0, <1>1, ReadTablesEffect DEF Same
    <2>2. writer' # o
      BY <1>0, <2>1 DEF TypeOK
    <2>3. op'[o].alone => Running(o)' /\ \A q \in Operators \ {o} : ~Running(q)'
      BY <2>1 DEF Starts, Running, At
    <2> QED
      BY <1>0, <2>1, <2>2, <2>3, FirstStep DEF Starts, RunInOrder, Begun, At
  <1>2. CASE Classify(o)
    <2>1. PICK pc \in {"upgrading", "stamping"} :
            Continues(o, pc, op[o].at, op[o].step, op[o].enforced, op[o].loose)
      BY <1>0, <1>2, ClassifyEffect
    <2>2. writer' # o /\ At(o, "classifying")
      BY <1>0, <1>2, ClassifyEffect DEF Same, RunInOrder, At
    <2>3. op'[o].step = 1 /\ ~op'[o].loose /\ op'[o].pc = pc
      BY <1>0, <2>1, <2>2 DEF RunInOrder, Continues, At
    <2>4. op'[o].alone => Running(o)' /\ \A q \in Operators \ {o} : ~Running(q)'
      BY <1>0, <2>1, <2>3, AloneKept DEF Continues, Running, At
    <2> QED
      BY <1>0, <2>2, <2>3, <2>4, FirstStep DEF RunInOrder, Begun, At
  <1>3. CASE Refuse(o)
    <2>1. Ends(o, "idle") /\ writer' # o
      BY <1>0, <1>3, RefuseEffect DEF Same, RunInOrder, At
    <2> QED BY <1>0, <2>1, FirstStep DEF Ends, RunInOrder, Begun, At
  <1>4. CASE CreateVersionTable(o)
    <2>1. /\ Continues(o, op[o].pc, op[o].at, op[o].step, op[o].enforced, op[o].loose)
          /\ At(o, "stamping") \/ At(o, "migrating")
          /\ writer' \in {writer, o, None} /\ (writer = o => writer' = o)
          /\ backend' = backend /\ VersionTable \notin View(o).objects
      BY <1>0, <1>4, CreateVersionTableEffect DEF Ddl, InTransaction, Autocommit
    <2>2. ~Begun(o)
      BY <1>0, <2>1 DEF RunKeepsResults
    <2>3. op'[o].alone => Running(o)' /\ \A q \in Operators \ {o} : ~Running(q)'
      BY <1>0, <2>1, AloneKept DEF Continues, Running, At
    <2> QED BY <1>0, <2>1, <2>2, <2>3 DEF Continues, RunInOrder, Begun, At
  <1>5. CASE WriteStamp(o)
    <2>1. /\ Continues(o, "upgrading", op[o].at, op[o].step, op[o].enforced, op[o].loose)
          /\ At(o, "stamping")
      BY <1>0, <1>5, WriteStampEffect
    <2>2. op'[o].step = 1 /\ ~op'[o].loose
      BY <1>0, <2>1 DEF RunInOrder, Continues, At
    <2>3. writer' # o
      <3>1. CASE View(o).version = 1
        <4>1. writer' = writer
          BY <1>0, <1>5, <3>1, WriteStampEffect DEF Same
        <4>2. writer = o => VersionTable \notin durable.objects /\ durable.version = 1
          BY <1>0, <2>1, <3>1 DEF RunKeepsResults, View
        <4>3. durable.version = 1 => VersionTable \in durable.objects
          BY DEF SafeInv, DatabasesGrow, Sound
        <4> QED BY <4>1, <4>2, <4>3
      <3>2. CASE View(o).version # 1
        BY <1>0, <1>5, <3>2, WriteStampEffect DEF Commit
      <3> QED BY <3>1, <3>2
    <2>4. op'[o].alone => Running(o)' /\ \A q \in Operators \ {o} : ~Running(q)'
      BY <1>0, <2>1, AloneKept DEF Continues, Running, At
    <2> QED
      BY <1>0, <2>1, <2>2, <2>3, <2>4, FirstStep DEF Continues, RunInOrder, Begun, At
  <1>6. CASE BeginUpgrade(o)
    <2>1. /\ op'[o].pc = "migrating" /\ op'[o].step = op[o].step /\ ~op'[o].enforced
          /\ op'[o].alone = op[o].alone /\ OthersStay(o) /\ At(o, "upgrading")
      BY <1>0, <1>6, BeginUpgradeEffect DEF Continues
    <2>2. op'[o].step = 1
      BY <1>0, <2>1 DEF RunInOrder, At
    <2>3. op'[o].alone => Running(o)' /\ \A q \in Operators \ {o} : ~Running(q)'
      BY <1>0, <2>1, AloneKept DEF Running, At
    <2> QED
      BY <1>0, <2>1, <2>2, <2>3, FirstStep DEF RunInOrder, Begun, At
  <1>7. CASE CreateObject(o)
    <2>1. /\ Continues(o, "migrating", op[o].at, op[o].step + 1, op[o].enforced,
                       op[o].loose \/ (backend = "sqlite" /\ writer # o))
          /\ At(o, "migrating") /\ backend' = backend
          /\ op[o].at \in 1 .. Latest /\ op[o].step \in 1 .. Len(Script[op[o].at])
          /\ Statement(o) \notin DataStatements
      BY <1>0, <1>7, CreateObjectEffect, MigratingRun
    <2>2. PICK n \in 1 .. 5 : n = Len(Script[op[o].at])
      BY <2>1, LengthBounds
    <2>3. op'[o].step <= 1 + (IF op'[o].at <= Latest THEN Len(Script[op'[o].at]) ELSE 0)
      BY <2>1, <2>2 DEF Continues
    <2>4. ~(op[o].at = 3 /\ op[o].step \in {3, 4})
      BY <2>1, StatementsAreNew DEF Statement
    <2>5. backend = "postgresql" => writer' = o
      BY <1>0, <1>7, CreateObjectEffect DEF Ddl, InTransaction
    <2>6. writer = o => writer' = o
      BY <1>0, <1>7, CreateObjectEffect DEF Ddl, InTransaction
    <2>7. op[o].at = 3 /\ op[o].step + 1 > 3 => writer = o
      BY <1>0, <2>1, <2>2, <2>4 DEF RunInOrder, Begun
    <2>8. op'[o].alone => Running(o)' /\ \A q \in Operators \ {o} : ~Running(q)'
      BY <1>0, <2>1, AloneKept DEF Continues, Running, At
    <2>9. ~op'[o].enforced
      BY <1>0, <2>1 DEF Continues, RunInOrder
    <2> QED
      BY <2>1, <2>3, <2>5, <2>6, <2>7, <2>8, <2>9 DEF Continues, RunInOrder, Begun, At
  <1>8. CASE TransformUsers(o)
    <2>1. /\ Continues(o, "migrating", op[o].at, op[o].step + 1, op[o].enforced, op[o].loose)
          /\ At(o, "migrating") /\ writer' = o
          /\ op[o].at \in 1 .. Latest /\ op[o].step \in 1 .. Len(Script[op[o].at])
      BY <1>0, <1>8, TransformUsersEffect, MigratingRun DEF InTransaction
    <2>2. PICK n \in 1 .. 5 : n = Len(Script[op[o].at])
      BY <2>1, LengthBounds
    <2>3. op'[o].step <= 1 + (IF op'[o].at <= Latest THEN Len(Script[op'[o].at]) ELSE 0)
      BY <2>1, <2>2 DEF Continues
    <2>4. op'[o].alone => Running(o)' /\ \A q \in Operators \ {o} : ~Running(q)'
      BY <1>0, <2>1, AloneKept DEF Continues, Running, At
    <2>5. ~op'[o].enforced
      BY <1>0, <2>1 DEF Continues, RunInOrder
    <2> QED
      BY <2>1, <2>3, <2>4, <2>5 DEF Continues, RunInOrder, Begun, At
  <1>9. CASE RecordRevision(o)
    <2>1. /\ op'[o].pc = "migrating" /\ op'[o].step = 1 /\ op'[o].enforced = op[o].enforced
          /\ op'[o].alone = op[o].alone /\ OthersStay(o) /\ At(o, "migrating")
      BY <1>0, <1>9, RecordRevisionEffect DEF Continues
    <2>2. op'[o].alone => Running(o)' /\ \A q \in Operators \ {o} : ~Running(q)'
      BY <1>0, <2>1, AloneKept DEF Running, At
    <2> QED
      BY <1>0, <2>1, <2>2, FirstStep DEF RunInOrder, Begun, At
  <1>10. CASE FinishUpgrade(o)
    <2>1. Ends(o, "done") /\ writer' # o
      BY <1>0, <1>10, FinishUpgradeEffect DEF Same, Commit
    <2> QED BY <1>0, <2>1, FirstStep DEF Ends, RunInOrder, Begun, At
  <1>11. CASE Abort(o)
    <2>1. Ends(o, "idle") /\ writer' # o
      BY <1>0, <1>11, AbortEffect DEF Same, TakesBack
    <2> QED BY <1>0, <2>1, FirstStep DEF Ends, RunInOrder, Begun, At
  <1> QED
    BY <1>1, <1>2, <1>3, <1>4, <1>5, <1>6, <1>7, <1>8, <1>9, <1>10, <1>11 DEF Step

LEMMA OthersKeepResults ==
    ASSUME SafeInv, NEW o \in Operators, Step(o), NEW q \in Operators \ {o}
    PROVE  RunKeepsResults(q)'
  <1>1. TypeOK /\ RunKeepsResults(q) /\ Grows(o)
    BY GrowthKept DEF SafeInv, RunsKeepResults
  <1>2. /\ op'[q].pc = op[q].pc /\ op'[q].at = op[q].at /\ op'[q].step = op[q].step
    BY <1>1, OthersFields
  <1>3. /\ View(q).objects \subseteq View(q)'.objects
        /\ writer' = q => writer = q /\ durable' = durable /\ pending' = pending
    BY <1>1 DEF Grows, OthersKeep
  <1>4. (At(q, "stamping")' <=> At(q, "stamping")) /\ (At(q, "migrating")' <=> At(q, "migrating"))
        /\ (Begun(q)' <=> Begun(q))
    BY <1>2 DEF At, Begun
  <1>5. At(q, "stamping") => Baseline \subseteq View(q)'.objects
    BY <1>1, <1>3 DEF RunKeepsResults
  <1>6. At(q, "stamping") /\ writer' = q =>
          /\ VersionTable \notin durable'.objects
          /\ pending'.version = durable'.version
          /\ ApplicationObjects(pending)' = ApplicationObjects(durable)'
    BY <1>1, <1>3 DEF RunKeepsResults, ApplicationObjects
  <1>7. At(q, "migrating") => Prefix(op'[q].at, op'[q].step) \subseteq View(q)'.objects
    BY <1>1, <1>2, <1>3 DEF RunKeepsResults
  <1>8. Begun(q) => VersionTable \in View(q)'.objects
    BY <1>1, <1>3 DEF RunKeepsResults
  <1> QED BY <1>4, <1>5, <1>6, <1>7, <1>8 DEF RunKeepsResults

LEMMA OwnResultsKept ==
    ASSUME SafeInv, NEW o \in Operators, Step(o)
    PROVE  RunKeepsResults(o)'
  <1>0. TypeOK /\ RunInOrder(o) /\ TypeOK' /\ op[o] \in Run /\ RunKeepsResults(o) /\ DatabasesGrow
    BY TypesKept, Databases DEF SafeInv, RunsInOrder, RunsKeepResults
  <1>1. ASSUME op'[o].pc \notin {"stamping", "migrating"} PROVE RunKeepsResults(o)'
    BY <1>1 DEF RunKeepsResults, Begun, At
  <1>2. CASE ReadTables(o)
    BY <1>0, <1>1, <1>2, ReadTablesEffect DEF Starts
  <1>3. CASE Classify(o)
    <2>1. CASE op'[o].pc = "upgrading"
      BY <1>1, <2>1
    <2>2. CASE op'[o].pc # "upgrading"
      <3>1. /\ op'[o].pc = "stamping" /\ MatchesBaseline(View(o)) /\ Same
            /\ writer # o
        BY <1>0, <1>3, <2>2, ClassifyEffect DEF Continues, RunInOrder, At
      <3>2. Baseline \subseteq View(o).objects
        BY <3>1 DEF MatchesBaseline, ApplicationObjects
      <3>3. View(o)' = View(o) /\ writer' # o
        BY <3>1, SameViews DEF Same
      <3> QED BY <3>1, <3>2, <3>3 DEF RunKeepsResults, Begun, At
    <2> QED BY <2>1, <2>2
  <1>4. CASE Refuse(o)
    BY <1>0, <1>1, <1>4, RefuseEffect DEF Ends
  <1>5. CASE CreateVersionTable(o)
    <2>1. PICK old \in Database : old = View(o)
      BY <1>0, Databases
    <2>2. PICK db : db = [old EXCEPT !.objects = @ \union {VersionTable}]
      OBVIOUS
    <2>3. /\ db.objects = old.objects \union {VersionTable} /\ db.version = old.version
      BY <2>2 DEF Database
    <2>4. Ddl(o, db) /\ Writes(o, db) /\ VersionTable \notin old.objects
      BY <1>0, <1>5, <2>1, <2>2, CreateVersionTableEffect, WritesWays
    <2>5. View(o)' = db /\ old = pending
      BY <1>0, <2>1, <2>4, WritesViews
    <2>6. op'[o].pc = op[o].pc /\ op'[o].at = op[o].at /\ op'[o].step = op[o].step
      BY <1>0, <1>5, CreateVersionTableEffect DEF Continues
    <2>7. ASSUME writer' = o
          PROVE  durable' = durable /\ pending' = db /\ writer \in {None, o}
      BY <2>4, <2>7 DEF Writes
    <2>8. writer = None => pending = durable
      BY <1>0 DEF TypeOK
    <2>9. ASSUME At(o, "stamping"), writer' = o
          PROVE  /\ VersionTable \notin durable'.objects
                 /\ pending'.version = durable'.version
                 /\ ApplicationObjects(pending)' = ApplicationObjects(durable)'
      <3>1. durable.objects \subseteq old.objects
        BY <1>0, <2>1, SoundView
      <3>2. pending.version = durable.version
            /\ ApplicationObjects(pending) = ApplicationObjects(durable)
        BY <1>0, <2>7, <2>8, <2>9 DEF RunKeepsResults
      <3> QED BY <2>3, <2>4, <2>5, <2>7, <2>9, <3>1, <3>2 DEF ApplicationObjects
    <2>10. At(o, "stamping") => Baseline \subseteq db.objects
      BY <1>0, <2>1, <2>3 DEF RunKeepsResults
    <2>11. At(o, "migrating") => Prefix(op[o].at, op[o].step) \subseteq db.objects
      BY <1>0, <2>1, <2>3 DEF RunKeepsResults
    <2> QED
      BY <2>3, <2>5, <2>6, <2>9, <2>10, <2>11 DEF RunKeepsResults, Begun, At
  <1>6. CASE WriteStamp(o)
    BY <1>0, <1>1, <1>6, WriteStampEffect DEF Continues
  <1>7. CASE BeginUpgrade(o)
    <2>1. op'[o].pc = "migrating" /\ op'[o].step = 1
      BY <1>0, <1>7, BeginUpgradeEffect DEF Continues, RunInOrder, At
    <2> QED BY <2>1, PrefixStarts DEF RunKeepsResults, Begun, At
  <1>8. CASE CreateObject(o)
    <2>1. PICK old \in Database : old = View(o)
      BY <1>0, Databases
    <2>2. PICK x : x = Statement(o)
      OBVIOUS
    <2>3. PICK db : db = [old EXCEPT !.objects = @ \union {x}]
      OBVIOUS
    <2>4. db.objects = old.objects \union {x}
      BY <2>3 DEF Database
    <2>5. Writes(o, db)
      BY <1>0, <1>8, <2>1, <2>2, <2>3, CreateObjectEffect, WritesWays
    <2>6. View(o)' = db
      BY <1>0, <2>5, WritesViews
    <2>7. /\ op'[o].pc = "migrating" /\ op'[o].at = op[o].at /\ op'[o].step = op[o].step + 1
          /\ op[o].at \in 1 .. Latest /\ op[o].step \in 1 .. Len(Script[op[o].at])
          /\ At(o, "migrating") /\ VersionTable \in old.objects
      BY <1>0, <1>8, <2>1, CreateObjectEffect, MigratingRun DEF Continues
    <2>8. Prefix(op[o].at, op[o].step + 1) \subseteq db.objects
      BY <1>0, <2>1, <2>2, <2>4, <2>7, PrefixGrows DEF RunKeepsResults, Statement
    <2> QED BY <2>4, <2>6, <2>7, <2>8 DEF RunKeepsResults, Begun, At
  <1>9. CASE TransformUsers(o)
    <2>1. PICK old \in Database : old = View(o)
      BY <1>0, Databases
    <2>2. PICK db : db = [old EXCEPT
                !.rows = @ /\ ~(backend = "sqlite" /\ Statement(o) = "rebuild"
                                  /\ op[o].enforced)]
      OBVIOUS
    <2>3. db.objects = old.objects
      BY <2>2 DEF Database
    <2>4. Writes(o, db)
      BY <1>0, <1>9, <2>1, <2>2, TransformUsersEffect, WritesWays
    <2>5. View(o)' = db
      BY <1>0, <2>4, WritesViews
    <2>6. /\ op'[o].pc = "migrating" /\ op'[o].at = op[o].at /\ op'[o].step = op[o].step + 1
          /\ op[o].at \in 1 .. Latest /\ op[o].step \in 1 .. Len(Script[op[o].at])
          /\ At(o, "migrating") /\ VersionTable \in old.objects
          /\ Statement(o) \in DataStatements
      BY <1>0, <1>9, <2>1, TransformUsersEffect, MigratingRun DEF Continues
    <2>7. Prefix(op[o].at, op[o].step + 1) \subseteq db.objects
      BY <1>0, <2>1, <2>3, <2>6, PrefixGrows DEF RunKeepsResults, Statement
    <2> QED BY <2>3, <2>5, <2>6, <2>7 DEF RunKeepsResults, Begun, At
  <1>10. CASE RecordRevision(o)
    <2>1. op'[o].pc = "migrating" /\ op'[o].step = 1
      BY <1>0, <1>10, RecordRevisionEffect DEF Continues
    <2> QED BY <2>1, PrefixStarts DEF RunKeepsResults, Begun, At
  <1>11. CASE FinishUpgrade(o)
    BY <1>0, <1>1, <1>11, FinishUpgradeEffect DEF Ends
  <1>12. CASE Abort(o)
    BY <1>0, <1>1, <1>12, AbortEffect DEF Ends
  <1> QED
    BY <1>2, <1>3, <1>4, <1>5, <1>6, <1>7, <1>8, <1>9, <1>10, <1>11, <1>12 DEF Step

-----------------------------------------------------------------------------
(* Schemas nobody knows.                                                   *)

LEMMA UnknownLooks ==
    ASSUME ~Known
    PROVE  /\ VersionTable \notin original.objects /\ original.version = 0 /\ original.rows
           /\ "users" \in original.objects
           /\ original.objects # Baseline
  BY UpToEach DEF Known, UnknownSchemas, Unversioned, Baseline, VersionTable

LEMMA UnknownKept ==
    ASSUME SafeInv, NEW o \in Operators, Step(o)
    PROVE  UnknownIsRefused'
  <1>0. TypeOK /\ UnknownIsRefused /\ original' = original /\ (Known' <=> Known)
    BY StepRuns DEF SafeInv, Known
  <1>1. SUFFICES ASSUME ~Known PROVE UnknownIsRefused'
    BY <1>0 DEF UnknownIsRefused
  <1>2. /\ durable = original /\ writer = None /\ \A q : View(q) = original
        /\ \A q \in Operators :
             ~Running(q) \/ (At(q, "classifying") /\ op[q].tables = original.objects)
    BY <1>0, <1>1 DEF UnknownIsRefused, View, TypeOK
  <1>3. ASSUME Same, ~Running(o)' \/ (At(o, "classifying")' /\ op'[o].tables = original.objects)
        PROVE  UnknownIsRefused'
    <2>1. \A q \in Operators \ {o} : op'[q].pc = op[q].pc /\ op'[q].tables = op[q].tables
      BY <1>0, OthersFields
    <2> QED BY <1>0, <1>2, <1>3, <2>1 DEF UnknownIsRefused, Same, Running, At
  <1>4. CASE ReadTables(o)
    BY <1>0, <1>2, <1>3, <1>4, ReadTablesEffect DEF Starts, At
  <1>5. CASE Classify(o)
    <2>1. op[o].tables = original.objects /\ View(o) = original
      BY <1>0, <1>2, <1>5, ClassifyEffect DEF Running, At
    <2>2. ~TracksRevision(o) /\ ~NoTables(o) /\ ~MatchesBaseline(View(o))
      BY <1>1, <2>1, UnknownLooks
         DEF TracksRevision, NoTables, MatchesBaseline, ApplicationObjects, VersionTable
    <2> QED BY <1>0, <1>5, <2>2, ClassifyEffect
  <1>6. CASE Refuse(o)
    BY <1>0, <1>3, <1>6, RefuseEffect DEF Ends, Running, At
  <1>7. CASE Abort(o)
    BY <1>0, <1>2, <1>3, <1>7, AbortEffect DEF Ends, Running, At
  <1>8. CASE \/ CreateVersionTable(o) \/ WriteStamp(o) \/ BeginUpgrade(o) \/ CreateObject(o)
             \/ TransformUsers(o) \/ RecordRevision(o) \/ FinishUpgrade(o)
    <2>1. At(o, "stamping") \/ At(o, "upgrading") \/ At(o, "migrating")
      BY <1>0, <1>8, CreateVersionTableEffect, WriteStampEffect, BeginUpgradeEffect,
         CreateObjectEffect, TransformUsersEffect, RecordRevisionEffect, FinishUpgradeEffect,
         MigratingRun
    <2> QED BY <1>2, <2>1 DEF Running, At
  <1> QED BY <1>4, <1>5, <1>6, <1>7, <1>8 DEF Step

-----------------------------------------------------------------------------
(* The safety of every run.                                                *)

LEMMA OriginalIsDatabase ==
    ASSUME Init
    PROVE  original \in Database /\ Sound(original)
  <1>1. \A v \in 0 .. Latest : ObjectsUpTo(v) \subseteq AllObjects
    BY UpToIsKnown
  <1>2. Baseline \subseteq AllObjects /\ VersionTable \in AllObjects /\ "alien" \in AllObjects
        /\ "csrf_token_hash" \in AllObjects
    BY <1>1, UpToEach, ScriptLength DEF Baseline, AllObjects
  <1>3. \A objects \in SUBSET AllObjects :
          Unversioned(objects) \in Database /\ Sound(Unversioned(objects))
    BY UpToNone, ScriptLength DEF Unversioned, Database, Sound
  <1>4. ASSUME NEW v \in 1 .. Latest,
               original = [objects |-> ObjectsUpTo(v) \union {VersionTable}, version |-> v,
                           rows |-> TRUE]
        PROVE  original \in Database /\ Sound(original)
    BY <1>1, <1>2, <1>4, ScriptLength DEF Database, Sound
  <1> QED BY <1>2, <1>3, <1>4 DEF Init, UnknownSchemas

LEMMA SafeInit == ASSUME Init PROVE SafeInv
  <1>1. original \in Database /\ Sound(original) /\ durable = original /\ pending = original
        /\ writer = None /\ ~cut /\ ~rewound
    BY OriginalIsDatabase DEF Init
  <1>2. op = [o \in Operators |-> IdleRun] /\ IdleRun \in Run
    BY IdleIsRun DEF Init
  <1>3. \A o \in Operators : /\ op[o].pc = "idle" /\ op[o].step = 1 /\ op[o].at = 1
                             /\ ~op[o].loose /\ ~op[o].alone
    BY <1>2 DEF IdleRun
  <1>4. TypeOK
    BY <1>1, <1>2 DEF Init, TypeOK
  <1>5. RunsInOrder
    <2>1. 1 <= 1 + Len(Script[1])
      BY RevisionLengths
    <2> QED BY <1>1, <1>3, <2>1 DEF RunsInOrder, RunInOrder, Begun, At
  <1>6. DatabasesGrow /\ RunsKeepResults /\ UnknownIsRefused
    BY <1>1, <1>3 DEF DatabasesGrow, RunsKeepResults, RunKeepsResults, UnknownIsRefused, Begun,
                      Running, At
  <1> QED BY <1>4, <1>5, <1>6 DEF SafeInv

LEMMA SafeNext == SafeInv /\ [Next]_vars => SafeInv'
  <1>1. ASSUME SafeInv, NEW o \in Operators, Step(o) PROVE SafeInv'
    <2>1. TypeOK'
      BY <1>1, TypesKept DEF SafeInv
    <2>2. RunsInOrder'
      BY <1>1, OwnOrderKept, OthersInOrder DEF RunsInOrder
    <2>3. RunsKeepResults'
      BY <1>1, OwnResultsKept, OthersKeepResults DEF RunsKeepResults
    <2>4. DatabasesGrow' /\ UnknownIsRefused'
      BY <1>1, GrowthKept, UnknownKept DEF Grows
    <2> QED BY <2>1, <2>2, <2>3, <2>4 DEF SafeInv
  <1>2. ASSUME SafeInv, UNCHANGED vars PROVE SafeInv'
    BY <1>2 DEF vars, SafeInv, TypeOK, RunsInOrder, RunInOrder, Begun, Running, At,
       DatabasesGrow, Sound, RunsKeepResults, RunKeepsResults, View, ApplicationObjects,
       UnknownIsRefused, Known
  <1> QED BY <1>1, <1>2, NextIsStep

THEOREM RunsAreSafe == Spec => []SafeInv
  BY SafeInit, SafeNext, PTL DEF Spec

\* Databases and runs are well formed, and what is not committed belongs to
\* the one run with an open transaction (initialize_database, env.py).
THEOREM BootstrapTypes == Spec => []TypeOK
  BY RunsAreSafe, PTL DEF SafeInv

\* The committed revision never claims a table or column that is not there,
\* however many runs there are and wherever they are cut.
THEOREM RevisionsAreTrue == Spec => []RevisionIsTrue
  <1>1. SafeInv => RevisionIsTrue
    BY DEF SafeInv, DatabasesGrow, Sound, RevisionIsTrue
  <1> QED BY <1>1, RunsAreSafe, PTL

\* No migration loses the rows that refer to users: keys are never enforced
\* while the old table is dropped.
THEOREM RowsAreKept == Spec => []RowsSurvive
  <1>1. SafeInv => RowsSurvive
    BY DEF SafeInv, DatabasesGrow, Sound, RowsSurvive
  <1> QED BY <1>1, RunsAreSafe, PTL

\* An unknown unversioned schema is never stamped or modified, whichever runs
\* read it and when (initialize_database).
THEOREM UnknownIsUntouched == Spec => []UnknownNeverTouched
  <1>1. SafeInv => UnknownNeverTouched
    BY DEF SafeInv, UnknownIsRefused, Known, UnknownNeverTouched
  <1> QED BY <1>1, RunsAreSafe, PTL

-----------------------------------------------------------------------------
(* What a step commits, as long as no stamp replaces a later revision.     *)

LEMMA RunFields ==
    ASSUME SafeInv, NEW o \in Operators
    PROVE  /\ op[o].at \in 1 .. Latest + 1 /\ op[o].step \in 1 .. 6
           /\ durable.version \in 0 .. Latest /\ pending.version \in 0 .. Latest
           /\ View(o).version \in 0 .. Latest
           /\ View(o).objects \subseteq AllObjects /\ durable.objects \subseteq AllObjects
           /\ RunInOrder(o) /\ RunKeepsResults(o) /\ TypeOK
           /\ op[o].at \in 1 .. Latest => op[o].step <= Len(Script[op[o].at]) + 1
           /\ op[o].at = Latest + 1 => op[o].step = 1
  <1>1. TypeOK /\ RunInOrder(o) /\ RunKeepsResults(o) /\ op[o] \in Run
        /\ durable \in Database /\ pending \in Database /\ View(o) \in Database
    BY Databases DEF SafeInv, RunsInOrder, RunsKeepResults
  <1>2. op[o].at \in 1 .. Latest + 1 /\ op[o].step \in 1 .. 6
    BY <1>1 DEF Run
  <1>3. op[o].at \in 1 .. Latest => op[o].step <= Len(Script[op[o].at]) + 1
    <2>1. HAVE op[o].at \in 1 .. Latest
    <2>2. PICK n \in 1 .. 5 : n = Len(Script[op[o].at])
      BY <2>1, LengthBounds
    <2> QED BY <1>1, <2>1, <2>2, ScriptLength DEF RunInOrder
  <1>4. op[o].at = Latest + 1 => op[o].step = 1
    BY <1>1, <1>2, ScriptLength DEF RunInOrder
  <1> QED BY <1>1, <1>2, <1>3, <1>4, DatabaseFields

LEMMA StatementMakesExact ==
    ASSUME SafeInv, NEW o \in Operators, PathOf(o), Migrating(o),
           Statement(o) \notin View(o).objects
    PROVE  Exact(o)
  BY MigratingRun, RunFields DEF PathOf, Doomed, Migrating

LEMMA RecordMakesExact ==
    ASSUME SafeInv, NEW o \in Operators, PathOf(o), RecordRevision(o)
    PROVE  Exact(o)
  <1>1. /\ At(o, "migrating") /\ RevisionDone(o) /\ View(o).version = op[o].at - 1
        /\ op[o].at \in 1 .. Latest
    BY RunFields, RecordRevisionEffect
  <1>2. ~(View(o).version >= op[o].at)
    BY <1>1, ScriptLength
  <1> QED BY <1>1, <1>2 DEF PathOf, Doomed

LEMMA LastIsExact ==
    ASSUME SafeInv, NEW o \in Operators, PathOf(o), At(o, "migrating"), op[o].at = Latest + 1
    PROVE  /\ View(o).version = Latest
           /\ ApplicationObjects(View(o)) = ObjectsUpTo(Latest)
  <1>1. Exact(o) /\ op[o].step = 1
    BY RunFields, ScriptLength DEF PathOf, Doomed
  <1> QED BY <1>1, PrefixStarts, ScriptLength DEF Exact

AddsVersionTable ==
    /\ ApplicationObjects(durable)' = ApplicationObjects(durable)
    /\ durable'.version = durable.version
Stamps ==
    /\ durable.version = 0 /\ durable'.version = 1
    /\ ApplicationObjects(durable) = ObjectsUpTo(1)
    /\ ApplicationObjects(durable)' = ObjectsUpTo(1)
Creates(o) ==
    /\ CreateObject(o) /\ writer = None /\ Exact(o) /\ durable = View(o)
    /\ durable'.version = durable.version
    /\ durable'.objects = durable.objects \union {Statement(o)}
Finishes(o) ==
    /\ writer = o /\ durable'.version = Latest
    /\ ApplicationObjects(durable)' = ObjectsUpTo(Latest)

LEMMA CommittedSteps ==
    ASSUME SafeInv, NEW o \in Operators, Step(o), Orderly, ~rewound', Shape, PathOf(o)
    PROVE  durable' = durable \/ AddsVersionTable \/ Stamps \/ Creates(o) \/ Finishes(o)
  <1>0. TypeOK /\ RunKeepsResults(o)
    BY RunFields
  <1>1. PICK old \in Database : old = View(o)
    BY <1>0, Databases
  <1>2. writer = None => durable = old
    BY <1>0, <1>1 DEF TypeOK, View
  <1>3. CASE CreateVersionTable(o)
    <2>1. PICK db : db = [old EXCEPT !.objects = @ \union {VersionTable}]
      OBVIOUS
    <2>2. /\ db.objects = old.objects \union {VersionTable} /\ db.version = old.version
      BY <2>1 DEF Database
    <2>3. Ddl(o, db)
      BY <1>0, <1>1, <1>3, <2>1, CreateVersionTableEffect
    <2>4. durable' = durable \/ (durable' = db /\ writer = None)
      BY <2>3 DEF Ddl, InTransaction, Autocommit
    <2> QED BY <1>2, <2>2, <2>4 DEF AddsVersionTable, ApplicationObjects
  <1>4. CASE WriteStamp(o)
    <2>1. CASE View(o).version = 1
      BY <1>0, <1>4, <2>1, WriteStampEffect DEF Same
    <2>2. CASE View(o).version # 1
      <3>1. PICK db : db = [old EXCEPT !.version = 1]
        OBVIOUS
      <3>2. db.objects = old.objects /\ db.version = 1
        BY <3>1 DEF Database
      <3>3. durable' = db /\ writer \in {None, o} /\ At(o, "stamping")
        BY <1>0, <1>1, <1>4, <2>2, <3>1, WriteStampEffect DEF Commit
      <3>4. old.version = 0
        <4>1. ~(old.version > 1) /\ old.version # 1
          BY <1>0, <1>1, <1>4, <2>2, WriteStampEffect
        <4>2. old.version \in 0 .. 5
          BY <1>1, DatabaseFields, ScriptLength
        <4> QED BY <4>1, <4>2
      <3>5. durable.version = 0 /\ ApplicationObjects(durable) = ApplicationObjects(old)
        <4>1. CASE writer = None
          BY <1>2, <3>4, <4>1
        <4>2. CASE writer = o
          BY <1>0, <1>1, <3>3, <3>4, <4>2 DEF RunKeepsResults, View
        <4> QED BY <3>3, <4>1, <4>2
      <3>6. ObjectsUpTo(1) \subseteq ApplicationObjects(old)
        <4>1. Baseline \subseteq old.objects
          BY <1>0, <1>1, <3>3 DEF RunKeepsResults
        <4>2. VersionTable \notin ObjectsUpTo(1)
          BY UpToIsKnown, ScriptLength
        <4> QED BY <4>1, <4>2 DEF Baseline, ApplicationObjects
      <3>7. ApplicationObjects(durable) \subseteq ObjectsUpTo(1)
        BY <3>5, UpToNone DEF Shape
      <3>8. ApplicationObjects(durable)' = ApplicationObjects(old)
        BY <3>2, <3>3 DEF ApplicationObjects
      <3>9. ApplicationObjects(durable) = ObjectsUpTo(1)
        BY <3>5, <3>6, <3>7
      <3> QED BY <3>2, <3>3, <3>5, <3>8, <3>9 DEF Stamps
    <2> QED BY <2>1, <2>2
  <1>5. CASE CreateObject(o)
    <2>1. PICK x : x = Statement(o)
      OBVIOUS
    <2>2. PICK db : db = [old EXCEPT !.objects = @ \union {x}]
      OBVIOUS
    <2>3. db.objects = old.objects \union {x} /\ db.version = old.version
      BY <2>2 DEF Database
    <2>4. Ddl(o, db) /\ Exact(o)
      BY <1>0, <1>1, <1>5, <2>1, <2>2, CreateObjectEffect, StatementMakesExact
    <2>5. durable' = durable \/ (durable' = db /\ writer = None)
      BY <2>4 DEF Ddl, InTransaction, Autocommit
    <2> QED BY <1>1, <1>2, <1>5, <2>1, <2>3, <2>4, <2>5 DEF Creates
  <1>6. CASE FinishUpgrade(o)
    <2>1. CASE writer = o
      <3>1. durable' = pending /\ View(o) = pending
        BY <1>0, <1>6, <2>1, FinishUpgradeEffect DEF Commit, View
      <3>2. View(o).version = Latest /\ ApplicationObjects(View(o)) = ObjectsUpTo(Latest)
        BY <1>0, <1>6, FinishUpgradeEffect, LastIsExact
      <3> QED BY <2>1, <3>1, <3>2 DEF Finishes, ApplicationObjects
    <2>2. CASE writer # o
      BY <1>0, <1>6, <2>2, FinishUpgradeEffect DEF Same
    <2> QED BY <2>1, <2>2
  <1>7. CASE ReadTables(o) \/ Classify(o) \/ Refuse(o) \/ BeginUpgrade(o)
    BY <1>0, <1>7, ReadTablesEffect, ClassifyEffect, RefuseEffect, BeginUpgradeEffect DEF Same
  <1>8. CASE TransformUsers(o) \/ RecordRevision(o) \/ Abort(o)
    BY <1>0, <1>8, TransformUsersEffect, RecordRevisionEffect, AbortEffect
       DEF Same, InTransaction, TakesBack
  <1> QED BY <1>3, <1>4, <1>5, <1>6, <1>7, <1>8 DEF Step

LEMMA VersionsGrow ==
    ASSUME SafeInv, NEW o \in Operators, Step(o), Orderly, ~rewound', Shape, PathOf(o)
    PROVE  durable'.version >= durable.version
  BY CommittedSteps, RunFields, ScriptLength DEF AddsVersionTable, Stamps, Creates, Finishes

LEMMA ShapeKept ==
    ASSUME SafeInv, NEW o \in Operators, Step(o), Orderly, ~rewound', Shape, PathOf(o)
    PROVE  Shape'
  <1>1. CASE durable' = durable
    BY <1>1 DEF Shape, ApplicationObjects
  <1>2. CASE AddsVersionTable
    BY <1>2 DEF Shape, AddsVersionTable
  <1>3. CASE Stamps
    BY <1>3 DEF Shape, Stamps
  <1>4. CASE Finishes(o)
    BY <1>4 DEF Shape, Finishes
  <1>5. CASE Creates(o)
    <2>1. PICK a : a = op[o].at
      OBVIOUS
    <2>2. PICK s : s = op[o].step
      OBVIOUS
    <2>3. /\ a \in 1 .. Latest /\ s \in 1 .. Len(Script[a])
          /\ Statement(o) = Script[a][s] /\ Statement(o) \notin DataStatements
      BY <1>5, <2>1, <2>2, RunFields, MigratingRun, CreateObjectEffect DEF Creates, Statement
    <2>4. Prefix(a, s + 1) = Prefix(a, s) \union {Script[a][s]}
      BY <2>3, PrefixGrows
    <2>5. PICK v \in 0 .. Latest : v = durable.version
      BY RunFields
    <2>6. v = a - 1 /\ v + 1 = a /\ v < Latest
          /\ ApplicationObjects(durable) = ObjectsUpTo(v) \union Prefix(a, s)
      BY <1>5, <2>1, <2>2, <2>3, <2>5, ScriptLength DEF Creates, Exact
    <2>7. Script[a][s] # VersionTable
      BY <2>3, StatementsAreNew
    <2>8. ApplicationObjects(durable)' = ObjectsUpTo(v) \union Prefix(a, s + 1)
      BY <1>5, <2>3, <2>4, <2>6, <2>7 DEF Creates, ApplicationObjects
    <2>9. s + 1 \in 2 .. Len(Script[a]) + 1 /\ s + 1 \in 1 .. Len(Script[a]) + 1
      BY <2>3, LengthBounds
    <2>10. Script[a][1] \in Prefix(a, s + 1)
      BY <2>3, <2>9, FirstStatement
    <2>11. ObjectsUpTo(v) \subseteq ObjectsUpTo(a) /\ Prefix(a, s + 1) \subseteq ObjectsUpTo(a)
      BY <2>3, <2>5, <2>6, <2>9, PrefixIsKnown, UpToGrows, ScriptLength
    <2> QED BY <1>5, <2>5, <2>6, <2>8, <2>10, <2>11 DEF Shape, Creates
  <1> QED BY <1>1, <1>2, <1>3, <1>4, <1>5, CommittedSteps

-----------------------------------------------------------------------------
(* The runs of an orderly history.                                         *)

\* A statement waits that the database already has.
LEMMA WaitingStatement ==
    ASSUME NEW q \in Operators, op[q].at \in 1 .. Latest,
           op[q].step \in 1 .. Len(Script[op[q].at]), Statement(q) \in View(q).objects
    PROVE  Doomed(q)
  <1>1. PICK n \in 1 .. 5 : n = Len(Script[op[q].at])
    BY LengthBounds
  <1>2. ~RevisionDone(q)
    BY <1>1 DEF RevisionDone
  <1> QED BY <1>2 DEF Doomed

LEMMA NotDone ==
    ASSUME SafeInv, NEW q \in Operators, op[q].at \in 1 .. Latest, ~RevisionDone(q)
    PROVE  op[q].step \in 1 .. Len(Script[op[q].at])
  <1>1. PICK n \in 1 .. 5 : n = Len(Script[op[q].at])
    BY LengthBounds
  <1>2. op[q].step \in 1 .. 6
    BY RunFields
  <1> QED BY <1>1, <1>2 DEF RevisionDone

\* What the others are up to after a step, in terms of the state before it.
LEMMA OthersAfter ==
    ASSUME SafeInv, NEW o \in Operators, Step(o), NEW q \in Operators \ {o}
    PROVE  /\ op'[q].at = op[q].at /\ op'[q].step = op[q].step
           /\ (At(q, "migrating")' <=> At(q, "migrating")) /\ (Begun(q)' <=> Begun(q))
           /\ (RevisionDone(q)' <=> RevisionDone(q)) /\ Statement(q)' = Statement(q)
           /\ (writer' = q <=> writer = q)
           /\ View(q).objects \subseteq View(q)'.objects
           /\ writer = q => View(q)' = View(q)
           /\ writer # q => View(q) = durable /\ View(q)' = durable'
  <1>1. Grows(o) /\ TypeOK
    BY GrowthKept DEF SafeInv
  <1>2. /\ op'[q].at = op[q].at /\ op'[q].step = op[q].step /\ op'[q].pc = op[q].pc
    BY <1>1, OthersFields
  <1>3. /\ (writer' = q <=> writer = q)
        /\ View(q).objects \subseteq View(q)'.objects
        /\ writer = q => View(q)' = View(q)
    BY <1>1 DEF Grows, OthersKeep
  <1>4. writer # q => View(q) = durable /\ View(q)' = durable'
    BY <1>3 DEF View
  <1> QED BY <1>2, <1>3, <1>4 DEF At, Begun, RevisionDone, Statement

LEMMA DoomedStays ==
    ASSUME SafeInv, NEW o \in Operators, Step(o), Orderly, ~rewound', Shape, PathOf(o),
           NEW q \in Operators \ {o}, Doomed(q)
    PROVE  Doomed(q)'
  <1>1. durable'.version >= durable.version
    BY VersionsGrow
  <1>2. /\ op'[q].at = op[q].at /\ (RevisionDone(q)' <=> RevisionDone(q))
        /\ Statement(q)' = Statement(q) /\ View(q).objects \subseteq View(q)'.objects
        /\ writer = q => View(q)' = View(q)
        /\ writer # q => View(q) = durable /\ View(q)' = durable'
    BY OthersAfter
  <1>3. View(q)'.version >= View(q).version
    <2>1. CASE writer = q
      BY <1>2, <2>1, RunFields, ScriptLength
    <2>2. CASE writer # q
      BY <1>1, <1>2, <2>2
    <2> QED BY <2>1, <2>2
  <1>4. View(q)'.version \in 0 .. 5 /\ View(q).version \in 0 .. 5 /\ op[q].at \in 1 .. 6
    <2>1. TypeOK'
      BY TypesKept DEF SafeInv
    <2>2. View(q)' \in Database
      BY <2>1 DEF TypeOK, View
    <2>3. View(q)'.version \in 0 .. Latest
      BY <2>2 DEF Database
    <2> QED BY <2>3, RunFields, ScriptLength
  <1> QED BY <1>2, <1>3, <1>4 DEF Doomed

\* A run that another one overtakes finds its next statement done.
LEMMA OvertakenIsDoomed ==
    ASSUME SafeInv, NEW o \in Operators, Step(o), Orderly, ~rewound', Shape, PathOf(o),
           NEW q \in Operators \ {o}, PathOf(q), At(q, "migrating"), Exact(q),
           op[q].at = op[o].at => ~(Begun(o) /\ Begun(q))
    PROVE  Exact(q)' \/ Doomed(q)'
  <1>1. /\ op'[q].at = op[q].at /\ op'[q].step = op[q].step
        /\ (RevisionDone(q)' <=> RevisionDone(q)) /\ Statement(q)' = Statement(q)
        /\ writer = q => View(q)' = View(q)
        /\ writer # q => View(q) = durable /\ View(q)' = durable'
    BY OthersAfter
  <1>2. ASSUME View(q)' = View(q) PROVE Exact(q)'
    BY <1>1, <1>2 DEF Exact, ApplicationObjects
  <1>3. CASE writer = q \/ durable' = durable
    BY <1>1, <1>2, <1>3
  <1>4. ASSUME writer # q PROVE /\ durable.version = op[q].at - 1
                                /\ ApplicationObjects(durable) =
                                     ObjectsUpTo(op[q].at - 1)
                                       \union Prefix(op[q].at, op[q].step)
    BY <1>1, <1>4 DEF Exact
  <1>5. CASE writer # q /\ AddsVersionTable
    BY <1>1, <1>4, <1>5 DEF AddsVersionTable, Exact, ApplicationObjects
  <1>6. PICK a \in 1 .. Latest + 1 : a = op[q].at
    BY RunFields
  <1>7. PICK s \in 1 .. 6 : s = op[q].step
    BY RunFields
  <1>8. ASSUME a \in 1 .. Latest, s \in 1 .. Len(Script[a]), Script[a][s] \in View(q)'.objects
        PROVE  Doomed(q)'
    <2>1. PICK n \in 1 .. 5 : n = Len(Script[a])
      BY <1>8, LengthBounds
    <2>2. ~RevisionDone(q) /\ Statement(q) = Script[a][s]
      BY <1>6, <1>7, <1>8, <2>1 DEF RevisionDone, Statement
    <2>3. a <= Latest
      BY <1>8, ScriptLength
    <2> QED BY <1>1, <1>6, <1>8, <2>2, <2>3 DEF Doomed
  <1>9. ASSUME a \in 1 .. Latest, RevisionDone(q), View(q)'.version >= a PROVE Doomed(q)'
    <2>1. a <= Latest
      BY <1>9, ScriptLength
    <2> QED BY <1>1, <1>6, <1>9, <2>1 DEF Doomed
  <1>10. ASSUME a \in 1 .. Latest, ~RevisionDone(q) PROVE s \in 1 .. Len(Script[a])
    BY <1>6, <1>7, <1>10, NotDone
  <1>11. CASE writer # q /\ Stamps
    <2>1. a = 1 /\ a \in 1 .. Latest /\ View(q)'.version = 1
          /\ ApplicationObjects(View(q)') = ObjectsUpTo(1)
      BY <1>1, <1>4, <1>6, <1>11, ScriptLength DEF Stamps, ApplicationObjects
    <2>2. CASE RevisionDone(q)
      BY <1>9, <2>1, <2>2
    <2>3. CASE ~RevisionDone(q)
      <3>1. s \in 1 .. Len(Script[a])
        BY <1>10, <2>1, <2>3
      <3>2. Script[a][s] \in ObjectsUpTo(1)
        BY <2>1, <3>1, StatementsAreNew
      <3> QED BY <1>8, <2>1, <3>1, <3>2 DEF ApplicationObjects
    <2> QED BY <2>2, <2>3
  <1>12. CASE writer # q /\ Finishes(o)
    <2>1. View(q)'.version = Latest /\ ApplicationObjects(View(q)') = ObjectsUpTo(Latest)
      BY <1>1, <1>12 DEF Finishes, ApplicationObjects
    <2>2. CASE a = Latest + 1
      <3>1. s = 1
        BY <1>6, <1>7, <2>2, RunFields
      <3>2. op'[q].at - 1 = Latest /\ Prefix(op'[q].at, op'[q].step) = {}
        BY <1>1, <1>6, <1>7, <2>2, <3>1, PrefixStarts, ScriptLength
      <3> QED BY <2>1, <3>2 DEF Exact, ApplicationObjects
    <2>3. CASE a \in 1 .. Latest /\ RevisionDone(q)
      BY <1>9, <2>1, <2>3, ScriptLength
    <2>4. CASE a \in 1 .. Latest /\ ~RevisionDone(q)
      <3>1. s \in 1 .. Len(Script[a])
        BY <1>10, <2>4
      <3>2. Script[a][s] \notin DataStatements
        <4>1. SUFFICES ASSUME a = 3, s \in {3, 4} PROVE FALSE
          BY <2>4, <3>1, StatementsAreNew
        <4>2. Begun(q)
          BY <1>7, <4>1 DEF Begun
        <4>3. writer \notin {q, None}
          BY <1>12 DEF Finishes
        <4>4. durable.version >= op[q].at
          BY <4>2, <4>3 DEF PathOf
        <4> QED BY <1>4, <1>6, <1>12, <4>1, <4>4
      <3>3. Script[a][s] \in ObjectsUpTo(a)
        BY <2>4, <3>1, <3>2, StatementsAreNew
      <3>4. Script[a][s] \in ObjectsUpTo(Latest)
        BY <2>4, <3>3, UpToGrows, ScriptLength
      <3> QED BY <1>8, <2>1, <2>4, <3>1, <3>4 DEF ApplicationObjects
    <2> QED BY <2>2, <2>3, <2>4, ScriptLength
  <1>13. CASE writer # q /\ Creates(o)
    <2>1. /\ op[o].at \in 1 .. Latest /\ op[o].step \in 1 .. Len(Script[op[o].at])
          /\ durable.version = op[o].at - 1 /\ At(o, "migrating")
          /\ ApplicationObjects(durable) =
               ObjectsUpTo(op[o].at - 1) \union Prefix(op[o].at, op[o].step)
          /\ Statement(o) = Script[op[o].at][op[o].step] /\ Statement(o) \notin durable.objects
      BY <1>13, RunFields, MigratingRun, CreateObjectEffect DEF Creates, Exact, Statement
    <2>2. op[o].at = a /\ a \in 1 .. Latest
      BY <1>4, <1>6, <1>13, <2>1, ScriptLength
    <2>3. s = 1
      <3>1. SUFFICES ASSUME s > 1 PROVE FALSE
        BY <1>7
      <3>2. Begun(q)
        BY <1>7, <3>1 DEF Begun
      <3>3. op[o].step = 1
        <4>1. ~Begun(o)
          BY <1>6, <2>2, <3>2
        <4>2. op[o].step \in 1 .. 6
          BY RunFields
        <4> QED BY <2>1, <4>1, <4>2 DEF Begun
      <3>4. s \in 2 .. Len(Script[a]) + 1
        BY <1>6, <1>7, <2>2, <3>1, RunFields, LengthBounds
      <3>5. Script[a][1] \in Prefix(a, s)
        BY <2>2, <3>4, FirstStatement
      <3>6. Script[a][1] \in durable.objects
        BY <1>4, <1>6, <1>7, <1>13, <3>5 DEF ApplicationObjects
      <3> QED BY <2>1, <2>2, <3>3, <3>6
    <2>4. Script[a][1] \in durable'.objects
      <3>1. CASE op[o].step = 1
        BY <1>13, <2>1, <2>2, <3>1 DEF Creates
      <3>2. CASE op[o].step # 1
        <4>1. op[o].step \in 2 .. Len(Script[a]) + 1
          BY <2>1, <2>2, <3>2, LengthBounds
        <4>2. Script[a][1] \in Prefix(a, op[o].step)
          BY <2>2, <4>1, FirstStatement
        <4> QED BY <1>13, <2>1, <2>2, <4>2 DEF Creates, ApplicationObjects
      <3> QED BY <3>1, <3>2
    <2>5. 1 \in 1 .. Len(Script[a])
      BY <2>2, NotEmpty
    <2>6. View(q)' = durable'
      BY <1>1, <1>13
    <2>7. Script[a][s] \in View(q)'.objects /\ s \in 1 .. Len(Script[a])
      BY <2>3, <2>4, <2>5, <2>6
    <2>8. Doomed(q)'
      BY <1>8, <2>2, <2>7
    <2> QED BY <2>8
  <1> QED BY <1>3, <1>5, <1>11, <1>12, <1>13, CommittedSteps

\* When a transaction is opened, whoever has begun a revision without one is
\* behind what is committed.
LEMMA BegunIsBehind ==
    ASSUME SafeInv, NEW o \in Operators, Step(o), Orderly, Shape, PathOf(o),
           NEW q \in Operators \ {o}, PathOf(q), Begun(q), writer = None, writer' = o,
           op[q].at = op[o].at => ~(Begun(o) /\ Begun(q))
    PROVE  durable.version >= op[q].at
  <1>0. TypeOK /\ backend = "sqlite" /\ At(q, "migrating") /\ View(o) = durable
        /\ op[q].at \in 1 .. 6 /\ durable.version \in 0 .. 5 /\ op[o].at \in 1 .. 6
        /\ op[o].step \in 1 .. 6
    <2>1. TypeOK /\ RunInOrder(q) /\ op[q].at \in 1 .. 6 /\ durable.version \in 0 .. 5
          /\ op[o].at \in 1 .. 6 /\ op[o].step \in 1 .. 6
      BY RunFields, ScriptLength
    <2>2. backend # "postgresql"
      BY <2>1 DEF RunInOrder
    <2> QED BY <2>1, <2>2 DEF TypeOK, Begun, View
  <1>1. durable.version >= op[q].at - 1
    BY <1>0 DEF PathOf
  <1>2. ASSUME Begun(o), durable.version = op[o].at - 1 PROVE durable.version >= op[q].at
    BY <1>0, <1>1, <1>2
  <1>3. CASE CreateVersionTable(o)
    BY <1>0, <1>3, CreateVersionTableEffect DEF Ddl, Autocommit
  <1>4. CASE CreateObject(o)
    BY <1>0, <1>4, CreateObjectEffect DEF Ddl, Autocommit
  <1>5. CASE TransformUsers(o)
    <2>1. Migrating(o) /\ Statement(o) \in DataStatements
      BY <1>0, <1>5, TransformUsersEffect
    <2>2. /\ op[o].at \in 1 .. Latest /\ op[o].step \in 1 .. Len(Script[op[o].at])
          /\ At(o, "migrating") /\ Statement(o) = Script[op[o].at][op[o].step]
      BY <1>0, <2>1, MigratingRun DEF Statement
    <2>3. Statement(o) \notin View(o).objects /\ op[o].step \in {3, 4}
      BY <2>1, <2>2, StatementsAreNew, RunFields
    <2>4. Exact(o) /\ Begun(o)
      BY <2>1, <2>2, <2>3, StatementMakesExact DEF Begun
    <2> QED BY <1>0, <1>2, <2>4 DEF Exact
  <1>6. CASE RecordRevision(o)
    <2>1. /\ At(o, "migrating") /\ op[o].at \in 1 .. Latest /\ RevisionDone(o)
          /\ View(o).version = op[o].at - 1 /\ RunInOrder(o)
      BY <1>0, <1>6, RecordRevisionEffect, RunFields
    <2>2. Begun(o)
      BY <1>0, <2>1, FinishedRevision
    <2> QED BY <1>0, <1>2, <2>1, <2>2
  <1>7. CASE \/ ReadTables(o) \/ Classify(o) \/ Refuse(o) \/ WriteStamp(o) \/ BeginUpgrade(o)
             \/ FinishUpgrade(o) \/ Abort(o)
    BY <1>0, <1>7, ReadTablesEffect, ClassifyEffect, RefuseEffect, WriteStampEffect,
       BeginUpgradeEffect, FinishUpgradeEffect, AbortEffect DEF Same, Commit, TakesBack
  <1> QED BY <1>3, <1>4, <1>5, <1>6, <1>7 DEF Step

LEMMA OthersPathsKept ==
    ASSUME SafeInv, NEW o \in Operators, Step(o), Orderly, ~rewound', Shape, Paths, OneBegins,
           NEW q \in Operators \ {o}
    PROVE  PathOf(q)'
  <1>0. /\ PathOf(o) /\ PathOf(q)
        /\ op[q].at = op[o].at => ~(Begun(o) /\ Begun(q))
    BY DEF Paths, OneBegins
  <1>1. /\ op'[q].at = op[q].at
        /\ (At(q, "migrating")' <=> At(q, "migrating")) /\ (Begun(q)' <=> Begun(q))
        /\ (writer' = q <=> writer = q)
    BY OthersAfter
  <1>2. SUFFICES ASSUME At(q, "migrating") PROVE PathOf(q)'
    BY <1>1 DEF PathOf
  <1>3. Exact(q)' \/ Doomed(q)'
    BY <1>0, <1>2, DoomedStays, OvertakenIsDoomed DEF PathOf
  <1>4. durable'.version >= durable.version /\ durable'.version \in 0 .. 5
        /\ durable.version \in 0 .. 5 /\ op[q].at \in 1 .. 6
    <2>1. durable' \in Database
      BY TypesKept DEF SafeInv, TypeOK
    <2>2. durable'.version \in 0 .. Latest
      BY <2>1 DEF Database
    <2> QED BY <1>0, <2>2, VersionsGrow, RunFields, ScriptLength
  <1>5. writer' # q => durable'.version >= op[q].at - 1
    BY <1>0, <1>1, <1>2, <1>4 DEF PathOf
  <1>6. ASSUME Begun(q), writer' \notin {q, None} PROVE durable'.version >= op[q].at
    <2>1. CASE writer # None
      BY <1>0, <1>1, <1>2, <1>4, <1>6, <2>1 DEF PathOf
    <2>2. CASE writer = None
      <3>1. writer' = o
        <4>1. Same \/ TakesBack(o) \/ \E db : Extends(o, db)
          BY StepsExtend
        <4> QED BY <1>6, <2>2, <4>1 DEF Same, TakesBack, Extends, Writes
      <3>2. durable.version >= op[q].at
        BY <1>0, <1>6, <2>2, <3>1, BegunIsBehind
      <3> QED BY <1>4, <3>2
    <2> QED BY <2>1, <2>2
  <1> QED BY <1>1, <1>2, <1>3, <1>5, <1>6 DEF PathOf

\* The run itself: it begins where the database is, or is doomed from the start,
\* and it advances by what its statements add.
LEMMA OwnPathKept ==
    ASSUME SafeInv, NEW o \in Operators, Step(o), Orderly, ~rewound', Shape, PathOf(o)
    PROVE  /\ PathOf(o)'
           /\ At(o, "migrating") /\ At(o, "migrating")' /\ Exact(o) => Exact(o)'
  <1>0. TypeOK /\ RunInOrder(o) /\ DatabasesGrow /\ TypeOK'
        /\ op[o].at \in 1 .. Latest + 1 /\ op[o].step \in 1 .. 6
        /\ durable.version \in 0 .. 5 /\ View(o).version \in 0 .. 5
    BY RunFields, TypesKept, ScriptLength DEF SafeInv
  <1>1. PICK old \in Database : old = View(o)
    BY <1>0, Databases
  <1>2. PICK a \in 1 .. Latest + 1 : a = op[o].at
    BY <1>0
  <1>3. PICK s \in 1 .. 6 : s = op[o].step
    BY <1>0
  <1>4. ASSUME op'[o].pc # "migrating" PROVE PathOf(o)' /\ ~At(o, "migrating")'
    BY <1>4 DEF PathOf, At
  <1>5. CASE \/ ReadTables(o) \/ Classify(o) \/ Refuse(o) \/ WriteStamp(o)
             \/ FinishUpgrade(o) \/ Abort(o)
    BY <1>0, <1>4, <1>5, ReadTablesEffect, ClassifyEffect, RefuseEffect, WriteStampEffect,
       FinishUpgradeEffect, AbortEffect DEF Starts, Continues, Ends
  <1>6. CASE CreateVersionTable(o)
    <2>1. PICK db : db = [old EXCEPT !.objects = @ \union {VersionTable}]
      OBVIOUS
    <2>2. /\ db.objects = old.objects \union {VersionTable} /\ db.version = old.version
      BY <2>1 DEF Database
    <2>3. Ddl(o, db) /\ Writes(o, db) /\ VersionTable \notin old.objects
      BY <1>0, <1>1, <1>6, <2>1, CreateVersionTableEffect, WritesWays
    <2>4. View(o)' = db
      BY <1>0, <2>3, WritesViews
    <2>5. op'[o].pc = op[o].pc /\ op'[o].at = op[o].at /\ op'[o].step = op[o].step
      BY <1>0, <1>6, CreateVersionTableEffect DEF Continues
    <2>6. ~Begun(o)
      BY <1>1, <2>3, RunFields DEF RunKeepsResults
    <2>7. (Exact(o) => Exact(o)') /\ (Doomed(o) => Doomed(o)')
      BY <1>1, <2>2, <2>4, <2>5
         DEF Exact, Doomed, ApplicationObjects, RevisionDone, Statement
    <2>8. writer' # o => writer # o /\ durable'.version = durable.version
      <3>1. writer = None => old = durable
        BY <1>0, <1>1 DEF TypeOK, View
      <3> QED BY <2>2, <2>3, <3>1 DEF Ddl, InTransaction, Autocommit
    <2> QED BY <2>5, <2>6, <2>7, <2>8 DEF PathOf, Begun, At
  <1>7. CASE BeginUpgrade(o)
    <2>1. /\ op'[o].pc = "migrating" /\ op'[o].at = View(o).version + 1 /\ op'[o].step = 1
          /\ Same /\ writer # o
      BY <1>0, <1>7, BeginUpgradeEffect DEF Continues, RunInOrder, At
    <2>2. View(o) = durable /\ View(o)' = durable /\ durable' = durable
      BY <2>1 DEF View, Same
    <2>3. PICK v \in 0 .. 5 : v = durable.version
      BY <1>0
    <2>4. op'[o].at = v + 1 /\ op'[o].at - 1 = v
      BY <2>1, <2>2, <2>3
    <2>5. Exact(o)' \/ Doomed(o)'
      <3>1. CASE ApplicationObjects(durable) = ObjectsUpTo(v)
        <4>1. Prefix(op'[o].at, op'[o].step) = {}
          BY <2>1, PrefixStarts
        <4> QED BY <2>2, <2>3, <2>4, <3>1, <4>1 DEF Exact, ApplicationObjects
      <3>2. CASE v < Latest /\ Script[v + 1][1] \in ApplicationObjects(durable)
        <4>1. PICK n \in 1 .. 5 : n = Len(Script[v + 1])
          BY <3>2, LengthBounds, ScriptLength
        <4>2. ~RevisionDone(o)' /\ Statement(o)' = Script[v + 1][1]
          BY <2>1, <2>4, <4>1 DEF RevisionDone, Statement
        <4>3. op'[o].at <= Latest
          BY <2>4, <3>2, ScriptLength
        <4> QED BY <2>2, <3>2, <4>2, <4>3 DEF Doomed, ApplicationObjects
      <3> QED BY <2>3, <3>1, <3>2 DEF Shape
    <2>6. durable'.version >= op'[o].at - 1
      BY <2>2, <2>3, <2>4
    <2>7. ~At(o, "migrating")
      BY <1>0, <1>7, BeginUpgradeEffect DEF At
    <2> QED BY <2>1, <2>5, <2>6, <2>7 DEF PathOf, Begun
  <1>8. CASE CreateObject(o)
    <2>1. PICK x : x = Statement(o)
      OBVIOUS
    <2>2. PICK db : db = [old EXCEPT !.objects = @ \union {x}]
      OBVIOUS
    <2>3. db.objects = old.objects \union {x} /\ db.version = old.version
      BY <2>2 DEF Database
    <2>4. Ddl(o, db) /\ Writes(o, db) /\ Exact(o) /\ x \notin DataStatements
      BY <1>0, <1>1, <1>8, <2>1, <2>2, CreateObjectEffect, StatementMakesExact, WritesWays
    <2>5. View(o)' = db
      BY <1>0, <2>4, WritesViews
    <2>6. /\ op'[o].at = a /\ op'[o].step = s + 1 /\ At(o, "migrating")
          /\ a \in 1 .. Latest /\ s \in 1 .. Len(Script[a]) /\ x = Script[a][s]
      BY <1>0, <1>2, <1>3, <1>8, <2>1, CreateObjectEffect, MigratingRun DEF Continues, Statement
    <2>7. Prefix(a, s + 1) = Prefix(a, s) \union {x} /\ x # VersionTable
      BY <2>4, <2>6, PrefixGrows, StatementsAreNew
    <2>8. Exact(o)'
      BY <1>1, <1>2, <1>3, <2>3, <2>4, <2>5, <2>6, <2>7 DEF Exact, ApplicationObjects
    <2>9. writer' # o => writer # o /\ writer' = None /\ durable'.version = durable.version
      <3>1. writer = None => old = durable
        BY <1>0, <1>1 DEF TypeOK, View
      <3> QED BY <2>3, <2>4, <3>1, StepRuns DEF Ddl, InTransaction, Autocommit
    <2> QED BY <1>2, <2>6, <2>8, <2>9 DEF PathOf
  <1>9. CASE TransformUsers(o)
    <2>1. PICK db : db = [old EXCEPT
                !.rows = @ /\ ~(backend = "sqlite" /\ Statement(o) = "rebuild"
                                  /\ op[o].enforced)]
      OBVIOUS
    <2>2. db.objects = old.objects /\ db.version = old.version
      BY <2>1 DEF Database
    <2>3. Writes(o, db) /\ writer' = o /\ Migrating(o) /\ Statement(o) \in DataStatements
      BY <1>0, <1>1, <1>9, <2>1, TransformUsersEffect, WritesWays
    <2>4. View(o)' = db
      BY <1>0, <2>3, WritesViews
    <2>5. /\ op'[o].at = a /\ op'[o].step = s + 1
          /\ a \in 1 .. Latest /\ s \in 1 .. Len(Script[a]) /\ Statement(o) = Script[a][s]
      BY <1>0, <1>2, <1>3, <1>9, TransformUsersEffect, MigratingRun DEF Continues, Statement
    <2>6. Prefix(a, s + 1) = Prefix(a, s)
      <3>1. Prefix(a, s + 1) = Prefix(a, s) \union ({Script[a][s]} \ DataStatements)
        BY <2>5, PrefixGrows
      <3>2. Script[a][s] \in DataStatements
        BY <2>3, <2>5
      <3> QED BY <3>1, <3>2
    <2>7. Statement(o) \notin View(o).objects
      BY <2>3, <2>5, StatementsAreNew, RunFields
    <2>8. Exact(o)
      BY <2>3, <2>7, StatementMakesExact
    <2>9. Exact(o)'
      BY <1>1, <1>2, <1>3, <2>2, <2>4, <2>5, <2>6, <2>8 DEF Exact, ApplicationObjects
    <2> QED BY <2>3, <2>9 DEF PathOf
  <1>10. CASE RecordRevision(o)
    <2>1. PICK db : db = [old EXCEPT !.version = a]
      OBVIOUS
    <2>2. db.objects = old.objects /\ db.version = a
      BY <2>1 DEF Database
    <2>3. /\ Writes(o, db) /\ writer' = o /\ Exact(o) /\ RevisionDone(o)
          /\ At(o, "migrating") /\ a \in 1 .. Latest
      BY <1>0, <1>1, <1>2, <1>10, <2>1, RecordRevisionEffect, RecordMakesExact, WritesWays
         DEF InTransaction
    <2>4. View(o)' = db
      BY <1>0, <2>3, WritesViews
    <2>5. op'[o].at = a + 1 /\ op'[o].step = 1
      BY <1>0, <1>2, <1>10, RecordRevisionEffect DEF Continues
    <2>6. s = Len(Script[a]) + 1
      BY <1>0, <1>2, <1>3, <2>3, FinishedRevision
    <2>7. ApplicationObjects(old) = ObjectsUpTo(a)
      BY <1>1, <1>2, <1>3, <2>3, <2>6, PrefixIsRevision DEF Exact
    <2>8. Prefix(op'[o].at, op'[o].step) = {} /\ op'[o].at - 1 = a
      BY <2>5, PrefixStarts, ScriptLength
    <2>9. Exact(o)'
      BY <2>2, <2>4, <2>7, <2>8 DEF Exact, ApplicationObjects
    <2> QED BY <2>3, <2>9 DEF PathOf
  <1> QED BY <1>5, <1>6, <1>7, <1>8, <1>9, <1>10 DEF Step

LEMMA OneBeginsKept ==
    ASSUME SafeInv, NEW o \in Operators, Step(o), OneBegins
    PROVE  OneBegins'
  <1>1. ASSUME NEW q \in Operators \ {o}, Begun(o)', Begun(q)', op'[o].at = op'[q].at
        PROVE  FALSE
    <2>0. TypeOK /\ Begun(q) /\ op'[q].at = op[q].at /\ op[q].step \in 1 .. 6
          /\ op[o].step \in 1 .. 6 /\ op[o].at \in 1 .. 6 /\ DatabasesGrow
          /\ RunInOrder(o)
      BY <1>1, OthersAfter, RunFields, ScriptLength DEF SafeInv
    <2>1. ASSUME Begun(o), op'[o].at = op[o].at PROVE FALSE
      BY <1>1, <2>0, <2>1 DEF OneBegins
    <2>2. CASE ReadTables(o) \/ Classify(o) \/ Refuse(o) \/ WriteStamp(o) \/ FinishUpgrade(o)
                 \/ Abort(o)
      <3>1. op'[o].pc # "migrating"
        BY <2>0, <2>2, ReadTablesEffect, ClassifyEffect, RefuseEffect, WriteStampEffect,
           FinishUpgradeEffect, AbortEffect DEF Starts, Continues, Ends
      <3> QED BY <1>1, <3>1 DEF Begun, At
    <2>3. CASE CreateVersionTable(o)
      BY <1>1, <2>0, <2>1, <2>3, CreateVersionTableEffect DEF Continues, Begun, At
    <2>4. CASE BeginUpgrade(o)
      <3>1. op'[o].step = 1
        BY <2>0, <2>4, BeginUpgradeEffect DEF Continues, RunInOrder, At
      <3> QED BY <1>1, <3>1 DEF Begun
    <2>5. CASE TransformUsers(o)
      <3>1. op'[o].at = op[o].at /\ At(o, "migrating") /\ Statement(o) \in DataStatements
            /\ op[o].at \in 1 .. Latest /\ op[o].step \in 1 .. Len(Script[op[o].at])
        BY <2>0, <2>5, TransformUsersEffect, MigratingRun DEF Continues
      <3>2. op[o].step \in {3, 4}
        BY <3>1, StatementsAreNew DEF Statement
      <3> QED BY <2>1, <3>1, <3>2 DEF Begun
    <2>6. CASE RecordRevision(o)
      <3>1. op'[o].step = 1
        BY <2>0, <2>6, RecordRevisionEffect DEF Continues
      <3> QED BY <1>1, <3>1 DEF Begun
    <2>7. CASE CreateObject(o)
      <3>1. /\ op'[o].at = op[o].at /\ At(o, "migrating") /\ op[o].at \in 1 .. Latest
            /\ Statement(o) \notin View(o).objects
        BY <2>0, <2>7, CreateObjectEffect, MigratingRun DEF Continues
      <3>2. op[o].step = 1
        BY <2>0, <2>1, <3>1 DEF Begun
      <3>3. PICK a \in 1 .. Latest : a = op[o].at /\ a = op[q].at
        BY <1>1, <2>0, <3>1
      <3>4. op[q].step \in 2 .. Len(Script[a]) + 1
        <4>1. PICK n \in 1 .. 5 : n = Len(Script[a])
          BY LengthBounds
        <4>2. op[q].step <= n + 1
          BY <3>3, <4>1, RunFields
        <4> QED BY <2>0, <4>1, <4>2 DEF Begun
      <3>5. Script[a][1] \in View(q).objects
        BY <2>0, <3>3, <3>4, FirstStatement, RunFields DEF RunKeepsResults, Begun
      <3>6. writer # q
        BY <2>0, <2>7, CreateObjectEffect, WritesWays, WritesViews
      <3>7. View(q).objects \subseteq View(o).objects
        BY <2>0, <3>6, SoundView DEF View
      <3> QED BY <3>1, <3>2, <3>3, <3>5, <3>7 DEF Statement
    <2> QED BY <2>2, <2>3, <2>4, <2>5, <2>6, <2>7 DEF Step
  <1>2. ASSUME NEW q \in Operators \ {o}, NEW r \in Operators \ {o}, q # r, Begun(q)', Begun(r)'
        PROVE  op'[q].at # op'[r].at
    BY <1>2, OthersAfter DEF OneBegins
  <1> QED BY <1>1, <1>2 DEF OneBegins

LEMMA HistoriesStay ==
    ASSUME TypeOK, NEW o \in Operators, Step(o)
    PROVE  /\ Known' <=> Known
           /\ ~rewound' => ~rewound
           /\ ~cut' => ~cut
  <1>1. Known' <=> Known
    BY StepRuns DEF Known
  <1>2. (rewound' = rewound \/ rewound' = (rewound \/ View(o).version > 1))
        /\ (cut' = cut \/ cut' = (cut \/ op[o].loose))
    BY ReadTablesEffect, ClassifyEffect, RefuseEffect, CreateVersionTableEffect,
       WriteStampEffect, BeginUpgradeEffect, CreateObjectEffect, TransformUsersEffect,
       RecordRevisionEffect, FinishUpgradeEffect, AbortEffect DEF Step
  <1> QED BY <1>1, <1>2 DEF TypeOK

LEMMA OrderlyInit == ASSUME Init PROVE OrderlyInv
  <1>1. durable = original /\ \A o \in Operators : op[o].pc = "idle"
    BY DEF Init, IdleRun
  <1>2. Paths /\ OneBegins
    BY <1>1 DEF Paths, PathOf, OneBegins, Begun, At
  <1>3. ASSUME Known PROVE Shape
    <2>1. CASE original = Unversioned({})
      BY <1>1, <2>1, UpToNone DEF Shape, Unversioned, ApplicationObjects
    <2>2. CASE original = Unversioned(Baseline)
      <3>1. durable.version = 0 /\ ApplicationObjects(durable) = ObjectsUpTo(1)
        BY <1>1, <2>2, UpToIsKnown, ScriptLength
           DEF Unversioned, ApplicationObjects, Baseline
      <3>2. Script[1][1] = "users"
        BY ScriptText DEF Revision0001
      <3> QED BY <3>1, <3>2, UpToNone, UpToEach, ScriptLength DEF Shape
    <2>3. ASSUME NEW v \in 1 .. Latest,
                 original = [objects |-> ObjectsUpTo(v) \union {VersionTable}, version |-> v,
                             rows |-> TRUE]
          PROVE  Shape
      <3>1. VersionTable \notin ObjectsUpTo(v)
        BY UpToIsKnown, ScriptLength
      <3>2. durable.version = v /\ ApplicationObjects(durable) = ObjectsUpTo(v)
        BY <1>1, <2>3, <3>1 DEF ApplicationObjects
      <3> QED BY <3>2 DEF Shape
    <2> QED BY <1>3, <2>1, <2>2, <2>3 DEF Init, Known
  <1> QED BY <1>2, <1>3 DEF OrderlyInv, Orderly

LEMMA OrderlyNext == SafeInv /\ OrderlyInv /\ [Next]_vars => OrderlyInv'
  <1>1. ASSUME SafeInv, OrderlyInv, NEW o \in Operators, Step(o), Orderly'
        PROVE  Shape' /\ Paths' /\ OneBegins'
    <2>1. Orderly /\ ~rewound'
      BY <1>1, HistoriesStay DEF Orderly, SafeInv
    <2>2. Shape /\ Paths /\ OneBegins /\ PathOf(o)
      BY <1>1, <2>1 DEF OrderlyInv, Paths
    <2>3. Paths'
      BY <1>1, <2>1, <2>2, OthersPathsKept, OwnPathKept DEF Paths
    <2> QED BY <1>1, <2>1, <2>2, <2>3, ShapeKept, OneBeginsKept
  <1>2. ASSUME OrderlyInv, UNCHANGED vars PROVE OrderlyInv'
    <2>1. (Shape' <=> Shape) /\ (Orderly' <=> Orderly) /\ (OneBegins' <=> OneBegins)
      BY <1>2 DEF vars, Shape, ApplicationObjects, Orderly, Known, OneBegins, Begun, At
    <2>2. Paths' <=> Paths
      BY <1>2 DEF vars, Paths, PathOf, Exact, Doomed, View, ApplicationObjects, RevisionDone,
                  Statement, Begun, At
    <2> QED BY <1>2, <2>1, <2>2 DEF OrderlyInv
  <1> QED BY <1>1, <1>2, NextIsStep DEF OrderlyInv

THEOREM RunsAreOrderly == Spec => []OrderlyInv
  BY RunsAreSafe, OrderlyInit, OrderlyNext, PTL DEF Spec

-----------------------------------------------------------------------------
(* A run that has the database for itself.                                 *)

\* Statements no transaction covers are on the account of a run until it ends
\* well: if it does not, the history is cut.
LEMMA LooseStays ==
    ASSUME SafeInv, NEW o \in Operators, Step(o), ~cut', NEW r \in Operators, op[r].loose
    PROVE  op'[r].loose \/ (r = o /\ FinishUpgrade(o))
  <1>0. TypeOK /\ RunInOrder(r)
    BY RunFields
  <1>1. CASE r # o
    BY <1>0, <1>1, OthersFields
  <1>2. CASE r = o
    <2>1. At(o, "migrating")
      BY <1>0, <1>2 DEF RunInOrder
    <2>2. ~ReadTables(o) /\ ~Classify(o) /\ ~Refuse(o) /\ ~WriteStamp(o) /\ ~BeginUpgrade(o)
          /\ ~Abort(o)
      BY <1>0, <1>2, <2>1, ReadTablesEffect, ClassifyEffect, RefuseEffect, WriteStampEffect,
         BeginUpgradeEffect, AbortEffect DEF Running, At
    <2>3. CASE CreateVersionTable(o) \/ CreateObject(o) \/ TransformUsers(o) \/ RecordRevision(o)
      BY <1>0, <1>2, <2>3, CreateVersionTableEffect, CreateObjectEffect, TransformUsersEffect,
         RecordRevisionEffect DEF Continues
    <2> QED BY <1>2, <2>2, <2>3 DEF Step
  <1> QED BY <1>1, <1>2

LEMMA FinishIsClean ==
    ASSUME SafeInv, NEW o \in Operators, PathOf(o), FinishUpgrade(o)
    PROVE  durable'.version = Latest /\ ApplicationObjects(durable)' = ObjectsUpTo(Latest)
  <1>0. TypeOK
    BY DEF SafeInv
  <1>1. View(o).version = Latest /\ ApplicationObjects(View(o)) = ObjectsUpTo(Latest)
    BY <1>0, FinishUpgradeEffect, LastIsExact
  <1>2. durable' = View(o)
    BY <1>0, FinishUpgradeEffect DEF Commit, Same, View
  <1> QED BY <1>1, <1>2 DEF ApplicationObjects

LEMMA RestKept ==
    ASSUME SafeInv, NEW o \in Operators, Step(o), Orderly, ~rewound', ~cut', Shape, PathOf(o),
           RestIsClean
    PROVE  RestIsClean'
  <1>1. CASE FinishUpgrade(o)
    BY <1>1, FinishIsClean DEF RestIsClean, Clean
  <1>2. CASE ~FinishUpgrade(o) /\ \E r \in Operators : op[r].loose
    BY <1>2, LooseStays DEF RestIsClean
  <1>3. CASE ~FinishUpgrade(o) /\ Clean
    <2>1. CASE durable' = durable
      BY <1>3, <2>1 DEF RestIsClean, Clean, ApplicationObjects
    <2>2. CASE AddsVersionTable
      BY <1>3, <2>2 DEF RestIsClean, Clean, AddsVersionTable
    <2>3. CASE Stamps
      BY <2>3 DEF RestIsClean, Clean, Stamps
    <2>4. CASE Creates(o)
      <3>1. TypeOK
        BY DEF SafeInv
      <3>2. durable' # durable
        BY <2>4, <3>1, CreateObjectEffect DEF Creates
      <3>3. backend = "sqlite" /\ writer # o
        BY <2>4, <3>1, <3>2, CreateObjectEffect DEF Creates, Ddl, InTransaction
      <3>4. op'[o].loose
        BY <2>4, <3>1, <3>3, CreateObjectEffect DEF Creates, Continues
      <3> QED BY <3>4 DEF RestIsClean
    <2>5. CASE Finishes(o)
      BY <2>5 DEF RestIsClean, Clean, Finishes
    <2> QED BY <2>1, <2>2, <2>3, <2>4, <2>5, CommittedSteps
  <1> QED BY <1>1, <1>2, <1>3 DEF RestIsClean

LEMMA AloneIsClean ==
    ASSUME RunsInOrder, RestIsClean, NEW o \in Operators, op[o].alone, ~At(o, "migrating")
    PROVE  Clean
  <1>1. \A r \in Operators : ~op[r].loose
    BY DEF RunsInOrder, RunInOrder, Running, At
  <1> QED BY <1>1 DEF RestIsClean

LEMMA AloneSoundKept ==
    ASSUME SafeInv, NEW o \in Operators, Step(o), Orderly, ~rewound', ~cut', Shape, PathOf(o),
           RestIsClean, AloneIsSound
    PROVE  AloneIsSound'
  <1>0. TypeOK /\ RunInOrder(o) /\ RunsInOrder /\ RunInOrder(o)'
    BY RunFields, OwnOrderKept DEF SafeInv
  <1>1. ASSUME NEW q \in Operators \ {o} PROVE ~op'[q].alone
    BY <1>0, OthersFields DEF RunsInOrder, RunInOrder
  <1>2. ASSUME op'[o].alone
        PROVE  /\ At(o, "classifying")' => op'[o].tables = durable'.objects
               /\ At(o, "upgrading")' =>
                    ApplicationObjects(durable)' = ObjectsUpTo(durable'.version)
               /\ At(o, "migrating")' => Exact(o)'
    <2>1. CASE ReadTables(o)
      <3>1. Starts(o) /\ Same /\ ~Running(o)
        BY <1>0, <2>1, ReadTablesEffect
      <3>2. writer # o
        BY <1>0, <3>1 DEF TypeOK
      <3> QED BY <3>1, <3>2 DEF Starts, Same, View, At
    <2>2. CASE Classify(o)
      <3>1. /\ Same /\ op[o].alone /\ At(o, "classifying") /\ writer # o
            /\ op'[o].pc = "upgrading" => TracksRevision(o) \/ NoTables(o)
            /\ op'[o].pc \in {"upgrading", "stamping"}
        BY <1>0, <1>2, <2>2, ClassifyEffect DEF Continues, RunInOrder, At
      <3>2. Clean /\ op[o].tables = durable.objects /\ View(o) = durable
        BY <1>0, <3>1, AloneIsClean DEF AloneIsSound, View, At
      <3>3. "users" \in Baseline
        BY UpToEach DEF Baseline
      <3>4. CASE TracksRevision(o)
        BY <3>1, <3>2, <3>4 DEF TracksRevision, Clean, Same, ApplicationObjects, At
      <3>5. CASE NoTables(o)
        <4>1. ApplicationObjects(durable) = {}
          BY <3>2, <3>5 DEF NoTables, ApplicationObjects
        <4>2. ApplicationObjects(durable) = ObjectsUpTo(durable.version)
          BY <3>2, <3>3, <4>1 DEF Clean
        <4> QED BY <3>1, <4>2 DEF Same, ApplicationObjects, At
      <3> QED BY <3>1, <3>4, <3>5 DEF At
    <2>3. CASE WriteStamp(o)
      <3>1. op'[o].pc = "upgrading"
        BY <1>0, <2>3, WriteStampEffect DEF Continues
      <3>2. \A r \in Operators : ~op'[r].loose
        <4>1. \A r \in Operators : RunInOrder(r)'
          BY <1>0, OthersInOrder
        <4> QED BY <1>0, <1>2, <3>1, <4>1 DEF RunInOrder, Running, At
      <3>3. Clean'
        BY <3>2, RestKept DEF RestIsClean
      <3>4. durable'.version = 1
        <4>1. CASE View(o).version = 1
          <5>1. Same /\ writer' # o
            BY <1>0, <2>3, <3>1, <4>1, WriteStampEffect DEF RunInOrder, At
          <5> QED BY <4>1, <5>1 DEF Same, View
        <4>2. CASE View(o).version # 1
          BY <1>0, <2>3, <4>2, WriteStampEffect, Databases DEF Commit, Database
        <4> QED BY <4>1, <4>2
      <3> QED BY <3>1, <3>3, <3>4 DEF Clean, At
    <2>4. CASE BeginUpgrade(o)
      <3>1. /\ op'[o].pc = "migrating" /\ op'[o].at = View(o).version + 1 /\ op'[o].step = 1
            /\ Same /\ writer # o /\ op[o].alone /\ At(o, "upgrading")
        BY <1>0, <1>2, <2>4, BeginUpgradeEffect DEF Continues, RunInOrder, At
      <3>2. View(o) = durable /\ View(o)' = durable
        BY <3>1 DEF View, Same
      <3>3. PICK v \in 0 .. 5 : v = durable.version
        BY RunFields, ScriptLength
      <3>4. ApplicationObjects(durable) = ObjectsUpTo(v)
        BY <3>1, <3>3 DEF AloneIsSound
      <3>5. op'[o].at - 1 = v /\ Prefix(op'[o].at, op'[o].step) = {}
        BY <3>1, <3>2, <3>3, PrefixStarts
      <3>6. Exact(o)'
        BY <3>2, <3>3, <3>4, <3>5 DEF Exact, ApplicationObjects
      <3> QED BY <3>1, <3>6 DEF At
    <2>5. CASE \/ CreateVersionTable(o) \/ CreateObject(o) \/ TransformUsers(o)
               \/ RecordRevision(o)
      <3>1. /\ op[o].alone
            /\ op'[o].pc \in {"stamping", "migrating"}
            /\ op'[o].pc = "migrating" => At(o, "migrating")
        <4>1. CASE CreateVersionTable(o)
          BY <1>0, <1>2, <4>1, CreateVersionTableEffect DEF Continues, At
        <4>2. CASE CreateObject(o)
          BY <1>0, <1>2, <4>2, CreateObjectEffect, MigratingRun DEF Continues
        <4>3. CASE TransformUsers(o)
          BY <1>0, <1>2, <4>3, TransformUsersEffect, MigratingRun DEF Continues
        <4>4. CASE RecordRevision(o)
          BY <1>0, <1>2, <4>4, RecordRevisionEffect DEF Continues
        <4> QED BY <2>5, <4>1, <4>2, <4>3, <4>4
      <3>2. At(o, "migrating")' => Exact(o)'
        BY <3>1, OwnPathKept DEF AloneIsSound, At
      <3> QED BY <3>1, <3>2 DEF At
    <2>6. CASE Refuse(o) \/ FinishUpgrade(o) \/ Abort(o)
      BY <1>0, <1>2, <2>6, RefuseEffect, FinishUpgradeEffect, AbortEffect DEF Ends
    <2> QED BY <2>1, <2>2, <2>3, <2>4, <2>5, <2>6 DEF Step
  <1> QED BY <1>1, <1>2 DEF AloneIsSound

LEMMA ResumeInit == ASSUME Init PROVE ResumeInv
  <1>1. durable = original /\ \A o \in Operators : ~op[o].alone
    BY DEF Init, IdleRun
  <1>2. ASSUME Known PROVE Clean
    <2>1. CASE original = Unversioned({})
      BY <1>1, <2>1, UpToNone DEF Clean, Unversioned, ApplicationObjects
    <2>2. CASE original = Unversioned(Baseline)
      BY <1>1, <2>2, UpToIsKnown, ScriptLength
         DEF Unversioned, ApplicationObjects, Baseline, Clean
    <2>3. ASSUME NEW v \in 1 .. Latest,
                 original = [objects |-> ObjectsUpTo(v) \union {VersionTable}, version |-> v,
                             rows |-> TRUE]
          PROVE  Clean
      <3>1. VersionTable \notin ObjectsUpTo(v)
        BY UpToIsKnown, ScriptLength
      <3> QED BY <1>1, <2>3, <3>1 DEF ApplicationObjects, Clean
    <2> QED BY <1>2, <2>1, <2>2, <2>3 DEF Init, Known
  <1> QED BY <1>1, <1>2 DEF ResumeInv, Orderly, RestIsClean, AloneIsSound

LEMMA ResumeNext == SafeInv /\ OrderlyInv /\ ResumeInv /\ [Next]_vars => ResumeInv'
  <1>1. ASSUME SafeInv, OrderlyInv, ResumeInv, NEW o \in Operators, Step(o), Orderly', ~cut'
        PROVE  RestIsClean' /\ AloneIsSound'
    <2>1. Orderly /\ ~rewound' /\ ~cut
      BY <1>1, HistoriesStay DEF Orderly, SafeInv
    <2>2. Shape /\ PathOf(o) /\ RestIsClean /\ AloneIsSound
      BY <1>1, <2>1 DEF OrderlyInv, Paths, ResumeInv
    <2> QED BY <1>1, <2>1, <2>2, RestKept, AloneSoundKept
  <1>2. ASSUME ResumeInv, UNCHANGED vars PROVE ResumeInv'
    <2>1. (RestIsClean' <=> RestIsClean) /\ (Orderly' <=> Orderly) /\ cut' = cut
      BY <1>2 DEF vars, RestIsClean, Clean, ApplicationObjects, Orderly, Known
    <2>2. AloneIsSound' <=> AloneIsSound
      BY <1>2 DEF vars, AloneIsSound, Exact, View, ApplicationObjects, At
    <2> QED BY <1>2, <2>1, <2>2 DEF ResumeInv
  <1> QED BY <1>1, <1>2, NextIsStep DEF ResumeInv

LEMMA NobodyIsStuck ==
    ASSUME SafeInv, ResumeInv, Orderly, ~cut, NEW o \in Operators, op[o].alone
    PROVE  ~Stuck(o)
  <1>0. /\ RestIsClean /\ AloneIsSound /\ RunsInOrder /\ RunInOrder(o) /\ TypeOK
        /\ DatabasesGrow /\ durable.version \in 0 .. 5
    BY RunFields, ScriptLength DEF ResumeInv, SafeInv
  <1>1. ASSUME At(o, "classifying"), ~TracksRevision(o), ~NoTables(o) PROVE MatchesBaseline(View(o))
    <2>1. View(o) = durable /\ op[o].tables = durable.objects /\ Clean
      BY <1>0, <1>1, AloneIsClean DEF RunInOrder, View, At, AloneIsSound
    <2>2. ~(durable.version > 0)
      BY <1>0, <1>1, <2>1 DEF TracksRevision, DatabasesGrow, Sound
    <2>3. durable.version = 0 /\ ApplicationObjects(durable) # {}
      BY <1>0, <1>1, <2>1, <2>2 DEF NoTables, ApplicationObjects
    <2> QED BY <2>1, <2>3, UpToNone DEF Clean, MatchesBaseline
  <1>2. ASSUME Migrating(o) PROVE Statement(o) \notin View(o).objects
    <2>1. /\ op[o].at \in 1 .. Latest /\ op[o].step \in 1 .. Len(Script[op[o].at])
          /\ Exact(o)
      BY <1>0, <1>2, MigratingRun DEF AloneIsSound
    <2>2. Statement(o) \notin ObjectsUpTo(op[o].at - 1) \union Prefix(op[o].at, op[o].step)
      BY <2>1, PrefixIsNew DEF Statement
    <2>3. Statement(o) # VersionTable
      BY <2>1, StatementsAreNew DEF Statement
    <2> QED BY <2>1, <2>2, <2>3 DEF Exact, ApplicationObjects
  <1>3. ASSUME At(o, "migrating") PROVE View(o).version = op[o].at - 1
    BY <1>0, <1>3 DEF AloneIsSound, Exact
  <1> QED BY <1>1, <1>2, <1>3 DEF Stuck

\* Wherever earlier runs failed or died, a run that has the database for itself
\* finds a schema it can take to the last revision (initialize_database).
THEOREM RunsCanResume == Spec => []Resumable
  <1>1. Spec => []ResumeInv
    BY RunsAreSafe, RunsAreOrderly, ResumeInit, ResumeNext, PTL DEF Spec
  <1>2. SafeInv /\ ResumeInv => Resumable
    BY NobodyIsStuck DEF Resumable, Orderly, Known
  <1> QED BY <1>1, <1>2, RunsAreSafe, PTL

\* A run that reports success has left the whole schema of the last revision
\* committed, unless a stamp has been put over it (init_db_command, env.py).
THEOREM SuccessMeansHead == Spec => SuccessIsHead
  <1>1. ASSUME SafeInv, OrderlyInv, [Next]_vars,
               NEW o \in Operators, Running(o), op'[o].pc = "done", ~rewound
        PROVE  /\ durable'.version = Latest
               /\ ApplicationObjects(durable') = ObjectsUpTo(Latest)
    <2>1. op'[o].pc # op[o].pc
      BY <1>1 DEF Running, At
    <2>2. PICK p \in Operators : Step(p)
      BY <1>1, <2>1, NextIsStep DEF vars
    <2>3. TypeOK /\ p = o
      BY <1>1, <2>1, <2>2, OthersFields DEF SafeInv
    <2>4. FinishUpgrade(o)
      <3>1. ~ReadTables(o) /\ ~Classify(o) /\ ~Refuse(o)
        BY <1>1, <2>3, ReadTablesEffect, ClassifyEffect, RefuseEffect DEF Starts, Continues, Ends
      <3>2. ~CreateVersionTable(o)
        BY <2>1, <2>3, CreateVersionTableEffect DEF Continues
      <3>3. ~WriteStamp(o) /\ ~BeginUpgrade(o)
        BY <1>1, <2>3, WriteStampEffect, BeginUpgradeEffect DEF Continues
      <3>4. ~CreateObject(o) /\ ~TransformUsers(o) /\ ~RecordRevision(o)
        BY <1>1, <2>3, CreateObjectEffect, TransformUsersEffect, RecordRevisionEffect
           DEF Continues
      <3>5. ~Abort(o)
        BY <1>1, <2>3, AbortEffect DEF Ends
      <3> QED BY <2>2, <2>3, <3>1, <3>2, <3>3, <3>4, <3>5 DEF Step
    <2>5. Known
      <3>1. At(o, "migrating")
        BY <2>3, <2>4, FinishUpgradeEffect
      <3> QED BY <1>1, <3>1 DEF SafeInv, UnknownIsRefused, Running, At
    <2>6. PathOf(o)
      BY <1>1, <2>5 DEF OrderlyInv, Orderly, Paths
    <2> QED BY <1>1, <2>4, <2>6, FinishIsClean DEF ApplicationObjects
  <1>2. SafeInv /\ OrderlyInv /\ [Next]_vars =>
          [\A o \in Operators : Running(o) /\ op'[o].pc = "done" /\ ~rewound =>
             /\ durable'.version = Latest
             /\ ApplicationObjects(durable') = ObjectsUpTo(Latest)]_vars
    BY <1>1
  <1> QED BY <1>2, RunsAreSafe, RunsAreOrderly, PTL DEF Spec, SuccessIsHead
=============================================================================
