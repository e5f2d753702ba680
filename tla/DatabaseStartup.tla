---------------------------- MODULE DatabaseStartup ----------------------------
(***************************************************************************)
(* DatabaseManager::initialize(): a data directory from the start of the   *)
(* program to a database it can work with.  Under a lock file an instance  *)
(* imports a legacy database when there is no active one, opens the active *)
(* one, backs it up, migrates its schema in a transaction and sees to the  *)
(* default account.  Every call that leaves something on disk is one step; *)
(* any of them may fail, and the process may die between any two.          *)
(*                                                                         *)
(* A database is what the migrations look at: the versions it records, the *)
(* parts of the schema it has, the markers in app_meta, and the formats of *)
(* the rows that are there.  Probe files, and temporary copies and partial *)
(* backups that a dead process left behind, are read by nothing and are    *)
(* left out.                                                               *)
(***************************************************************************)
EXTENDS Naturals, Sequences, FiniteSets

CONSTANTS
    Instances,      \* processes that share the data directory
    LegacyCount,    \* candidates for an import, in the order they are tried
    InitialActive,  \* what the data directory may hold at first
    InitialLegacy,  \* what the candidates may be
    None,           \* no such file
    Broken,         \* a file that fails PRAGMA quick_check
    Partial,        \* a copy that was not finished
    Free, Stale     \* the lock file: absent; of a process that died

kCurrentSchemaVersion == 2

Candidates == 1..LegacyCount

Database ==
    [origin: {"new", "old", "imported"},       \* where its rows come from
     versions: SUBSET (1..kCurrentSchemaVersion + 1),  \* rows of schema_version
     tables: BOOLEAN,                         \* the tables of version 1
     auth: BOOLEAN,                           \* the columns and tables of version 2
     marks: SUBSET {"timestamps", "statuses"},
     times: SUBSET {"local", "utc", "unreadable"},
     codes: SUBSET {"text", "code"},
     admin: BOOLEAN]                          \* users has the account "admin"

Files == Database \cup {None, Broken, Partial}

\* What every version of the program leaves in a database it wrote: it migrates in
\* one transaction, records each version behind the work that version stands for,
\* and marks the rows it has converted.
WellKept(db) ==
    /\ \E v \in 0..kCurrentSchemaVersion + 1 : db.versions = 1..v
    /\ 1 \in db.versions => db.tables /\ db.marks = {"timestamps", "statuses"}
    /\ 2 \in db.versions => db.auth
    /\ "timestamps" \in db.marks => "local" \notin db.times
    /\ "statuses" \in db.marks => "text" \notin db.codes

ASSUME StartupAssumption ==
    /\ LegacyCount \in Nat
    /\ InitialActive \subseteq {db \in Database : WellKept(db) /\ db.origin = "old"}
                           \cup {None, Broken}
    /\ InitialLegacy \subseteq [Candidates -> {db \in Database : WellKept(db)} \cup {None, Broken}]
    /\ {None, Broken, Partial} \cap Database = {}
    /\ Partial \notin {None, Broken} /\ None # Broken
    /\ {Free, Stale} \cap Instances = {}

VARIABLES
    active,   \* database/mu-monitor.db as committed
    legacy,   \* the candidates; the program never writes to them
    backups,  \* the complete files of database/backups
    lock,     \* runtime/database-migration.lock
    proc      \* how far each instance's initialize() is

vars == <<active, legacy, backups, lock, proc>>

Phases == {"closed", "locking", "looking", "validating", "copying", "moving",
           "probing", "opening", "reading", "backing up", "migrating",
           "account", "ready"}

Steps == {"tables", "timestamps", "statuses", "record 1", "auth", "record 2", "commit"}

Process ==
    [at: Phases,
     candidate: 0..LegacyCount,
     copy: Files,                         \* the temporary file of an import
     existed: BOOLEAN,                    \* databaseExists
     todo: Seq(Steps),                    \* what is left of the migration
     work: Database \cup {None}]          \* the connection's open transaction

Closed == [at |-> "closed", candidate |-> 0, copy |-> None, existed |-> FALSE,
           todo |-> << >>, work |-> None]

TypeOK ==
    /\ active \in Database \cup {None, Broken}
    /\ legacy \in [Candidates -> Database \cup {None, Broken}]
    /\ backups \subseteq Database
    /\ lock \in Instances \cup {Free, Stale}
    /\ proc \in [Instances -> Process]

-----------------------------------------------------------------------------
(* Databases and migrations *)

IsDatabase(f) == f \notin {None, Broken, Partial}

\* SELECT MAX(version), 0 without a table or a row.
SchemaVersion(db) ==
    IF db.versions = {} THEN 0
    ELSE CHOOSE v \in db.versions : \A w \in db.versions : w <= v

NewDatabase ==
    [origin |-> "new", versions |-> {}, tables |-> FALSE, auth |-> FALSE,
     marks |-> {}, times |-> {}, codes |-> {}, admin |-> FALSE]

\* What migrateSchema() runs inside its transaction.
MigrationFrom(version) ==
    (IF version < 1 THEN <<"tables", "timestamps", "statuses", "record 1">> ELSE << >>)
    \o (IF version < 2 THEN <<"auth", "record 2">> ELSE << >>)
    \o <<"commit">>

\* Every format that can be read becomes UTC; the rest stays as it is.
NormalizeTimestamps(db) ==
    IF "timestamps" \in db.marks THEN db
    ELSE [db EXCEPT !.times = {IF t = "local" THEN "utc" ELSE t : t \in @},
                    !.marks = @ \cup {"timestamps"}]

NormalizeStatuses(db) ==
    IF "statuses" \in db.marks THEN db
    ELSE [db EXCEPT !.codes = {"code" : s \in @}, !.marks = @ \cup {"statuses"}]

Apply(step, db) ==
    CASE step = "tables"     -> [db EXCEPT !.tables = TRUE]
      [] step = "timestamps" -> NormalizeTimestamps(db)
      [] step = "statuses"   -> NormalizeStatuses(db)
      [] step = "record 1"   -> [db EXCEPT !.versions = @ \cup {1}]
      [] step = "auth"       -> [db EXCEPT !.auth = TRUE]
      [] step = "record 2"   -> [db EXCEPT !.versions = @ \cup {2}]

\* ALTER TABLE needs its table, and the version is the primary key.
Possible(step, db) ==
    /\ step = "record 1" => 1 \notin db.versions
    /\ step = "record 2" => 2 \notin db.versions
    /\ step = "auth" => db.tables

\* Mutant: every statement commits by itself.
Visible_AutoCommit(work) == work

\* What the file holds while a connection has written `work' in a transaction.
Visible(work) == active

\* Mutant: it is copied to where it belongs.
Destination_InPlace(copy) == copy

\* The copy is made aside and moved when it is complete.
Destination(copy) == active

\* Mutant: an imported database does not count.
Existed_BeforeImport(p) == proc[p].candidate = 0 /\ active # None

\* databaseExisted is asked again after an import.
Existed(p) == active # None

Refuses(version) == version > kCurrentSchemaVersion

\* Mutant: any recorded version will do.
UpToDate_AnyVersion(version) == version > 0

UpToDate(version) == version = kCurrentSchemaVersion

-----------------------------------------------------------------------------
(* initialize() *)

\* The directory is resolved and laid out, or there is nothing to do.
Begin(p) ==
    /\ proc[p].at = "closed"
    /\ proc' = [proc EXCEPT ![p].at = "locking"]
    /\ UNCHANGED <<active, legacy, backups, lock>>

\* A lock file is taken over from a process that no longer runs.
TakeLock(p) ==
    /\ proc[p].at = "locking"
    /\ lock \in {Free, Stale}
    /\ lock' = p
    /\ proc' = [proc EXCEPT ![p].at = "looking"]
    /\ UNCHANGED <<active, legacy, backups>>

\* The active database has precedence over every legacy one.
Look(p) ==
    /\ proc[p].at = "looking"
    /\ proc' = [proc EXCEPT ![p].at =
                   IF active = None /\ \E i \in Candidates : legacy[i] # None
                   THEN "validating" ELSE "probing"]
    /\ UNCHANGED <<active, legacy, backups, lock>>

\* The next candidate that is a file is opened read-only and checked.
NextCandidate(p) ==
    LET left == {i \in Candidates : i > proc[p].candidate /\ legacy[i] # None}
    IN  IF left = {} THEN 0 ELSE CHOOSE i \in left : \A j \in left : i <= j

Validate(p) ==
    /\ proc[p].at = "validating"
    /\ NextCandidate(p) # 0
    /\ proc' = [proc EXCEPT ![p].candidate = NextCandidate(p),
                            ![p].at = IF legacy[NextCandidate(p)] = Broken THEN @
                                      ELSE "copying"]
    /\ UNCHANGED <<active, legacy, backups, lock>>

\* A sound candidate that cannot be opened just now is passed over like a broken one.
PassOver(p) ==
    /\ proc[p].at = "validating"
    /\ NextCandidate(p) # 0
    /\ proc' = [proc EXCEPT ![p].candidate = NextCandidate(p)]
    /\ UNCHANGED <<active, legacy, backups, lock>>

StartCopy(p) ==
    /\ proc[p].at = "copying"
    /\ active = None /\ proc[p].copy = None
    /\ proc' = [proc EXCEPT ![p].copy = Partial]
    /\ active' = Destination(Partial)
    /\ UNCHANGED <<legacy, backups, lock>>

FinishCopy(p) ==
    LET copy == [legacy[proc[p].candidate] EXCEPT !.origin = "imported"]
    IN  /\ proc[p].at = "copying" /\ proc[p].copy = Partial
        /\ proc' = [proc EXCEPT ![p].copy = copy, ![p].at = "moving"]
        /\ active' = Destination(copy)
        /\ UNCHANGED <<legacy, backups, lock>>

\* QFile::rename() replaces nothing.
Move(p) ==
    /\ proc[p].at = "moving"
    /\ active = None
    /\ active' = proc[p].copy
    /\ proc' = [proc EXCEPT ![p].copy = None, ![p].at = "probing"]
    /\ UNCHANGED <<legacy, backups, lock>>

\* The directory, and the database if there is one, can be written.
Probe(p) ==
    /\ proc[p].at = "probing"
    /\ proc' = [proc EXCEPT ![p].existed = Existed(p), ![p].at = "opening"]
    /\ UNCHANGED <<active, legacy, backups, lock>>

\* The connection is opened, which creates the file; quick_check, then the pragmas.
Open(p) ==
    /\ proc[p].at = "opening"
    /\ active # Broken
    /\ active' = IF active = None THEN NewDatabase ELSE active
    /\ proc' = [proc EXCEPT ![p].at = "reading"]
    /\ UNCHANGED <<legacy, backups, lock>>

ReadVersion(p) ==
    LET version == SchemaVersion(active)
    IN  /\ proc[p].at = "reading"
        /\ ~Refuses(version)
        /\ proc' =
             IF UpToDate(version) THEN [proc EXCEPT ![p].at = "account"]
             ELSE [proc EXCEPT ![p].at = IF proc[p].existed THEN "backing up"
                                         ELSE "migrating",
                               ![p].todo = MigrationFrom(version)]
        /\ UNCHANGED <<active, legacy, backups, lock>>

\* VACUUM INTO database/backups.
Backup(p) ==
    /\ proc[p].at = "backing up"
    /\ backups' = backups \cup {active}
    /\ proc' = [proc EXCEPT ![p].at = "migrating"]
    /\ UNCHANGED <<active, legacy, lock>>

\* One statement group of the migration, on the connection's own view.
MigrateStep(p) ==
    LET step == Head(proc[p].todo)
        view == IF proc[p].work = None THEN active ELSE proc[p].work
    IN  /\ proc[p].at = "migrating"
        /\ step # "commit"
        /\ Possible(step, view)
        /\ proc' = [proc EXCEPT ![p].work = Apply(step, view),
                                ![p].todo = Tail(@)]
        /\ active' = Visible(Apply(step, view))
        /\ UNCHANGED <<legacy, backups, lock>>

Commit(p) ==
    /\ proc[p].at = "migrating"
    /\ proc[p].todo = <<"commit">>
    /\ active' = proc[p].work
    /\ proc' = [proc EXCEPT ![p].at = "account", ![p].work = None, ![p].todo = << >>]
    /\ UNCHANGED <<legacy, backups, lock>>

\* ensureDefaultUser(), the last step: the lock goes with initialize()'s frame.
DefaultUser(p) ==
    /\ proc[p].at = "account"
    /\ active' = [active EXCEPT !.admin = TRUE]
    /\ lock' = Free
    /\ proc' = [proc EXCEPT ![p] = [Closed EXCEPT !.at = "ready"]]
    /\ UNCHANGED <<legacy, backups>>

\* Any call fails, by itself or because of what it found: a transaction is rolled
\* back, a temporary copy is removed and the program ends with a message.
Fail(p) ==
    /\ proc[p].at \notin {"closed", "ready"}
    /\ lock' = IF lock = p THEN Free ELSE lock
    /\ proc' = [proc EXCEPT ![p] = Closed]
    /\ UNCHANGED <<active, legacy, backups>>

\* The process dies; what it had not committed is gone, its lock file stays.
Crash(p) ==
    /\ proc[p].at \notin {"closed", "ready"}
    /\ lock' = IF lock = p THEN Stale ELSE lock
    /\ proc' = [proc EXCEPT ![p] = Closed]
    /\ UNCHANGED <<active, legacy, backups>>

Shutdown(p) ==
    /\ proc[p].at = "ready"
    /\ proc' = [proc EXCEPT ![p] = Closed]
    /\ UNCHANGED <<active, legacy, backups, lock>>

-----------------------------------------------------------------------------

Init ==
    /\ active \in InitialActive
    /\ legacy \in InitialLegacy
    /\ backups = {}
    /\ lock = Free
    /\ proc = [p \in Instances |-> Closed]

Import(p) == Look(p) \/ Validate(p) \/ PassOver(p) \/ StartCopy(p) \/ FinishCopy(p) \/ Move(p)

Migrate(p) == ReadVersion(p) \/ Backup(p) \/ MigrateStep(p) \/ Commit(p)

Next ==
    \E p \in Instances :
        \/ Begin(p) \/ TakeLock(p) \/ Import(p) \/ Probe(p) \/ Open(p)
        \/ Migrate(p) \/ DefaultUser(p)
        \/ Fail(p) \/ Crash(p) \/ Shutdown(p)

Spec == Init /\ [][Next]_vars

-----------------------------------------------------------------------------
(* Properties *)

\* Everything the current version promises about the tables and their rows.
Complete(db) ==
    /\ SchemaVersion(db) = kCurrentSchemaVersion
    /\ 1 \in db.versions
    /\ db.tables /\ db.auth
    /\ "local" \notin db.times /\ "text" \notin db.codes

\* The program never takes an unfinished copy for its database, and never starts
\* on an empty one while a legacy database is there to be taken over: no crash
\* between copying, moving and opening, and no failed candidate, gets past that.
ImportWhole ==
    /\ active # Partial
    /\ IsDatabase(active) /\ active.origin = "new" => \A i \in Candidates : legacy[i] = None

\* A database that is there changes into a complete one of the current version or
\* not at all: half a migration is never seen, and a database that is newer, or
\* damaged, is left alone.
MigrationInOnePiece ==
    [][IsDatabase(active) /\ active' # active => IsDatabase(active') /\ Complete(active')]_vars

\* Rows that existed before are in a backup, as they were, when a migration
\* changes them, also when they were imported by the same start.
BackedUp ==
    [][IsDatabase(active) /\ active.origin # "new" /\ active'.versions # active.versions
        => active \in backups]_vars

\* An instance that works on the database finds all it relies on, whatever the
\* other instances did since.
ReadyComplete ==
    \A p \in Instances :
        proc[p].at = "ready" => IsDatabase(active) /\ Complete(active) /\ active.admin

=============================================================================
