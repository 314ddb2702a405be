------------------------------- MODULE Deploy -------------------------------
(***************************************************************************)
(* `noeta migrate` from the command line to the exit code (command.rs): one *)
(* invocation after another against a SQLite or Postgres database, over     *)
(* directories that are edited in between, with wipes (statement by         *)
(* statement on SQLite), seeds, failed calls and crashes.                   *)
(*                                                                         *)
(* Migrate is the detailed model of the engine under concurrent runners;   *)
(* here a migration takes effect in one step with its record, as           *)
(* MigrationHistory allows.  Migration n creates table n, and seed n fills *)
(* it.  Another process that applies the same files may interfere.         *)
(***************************************************************************)
EXTENDS LoadDir, SequencesExt

CONSTANTS Urls,         \* what DATABASE_URL or noeta.toml may configure, or None
          Invocations,  \* the command lines, with what is then on disk
          Missing,      \* no such directory
          None,         \* not configured, not recorded, or never ran
          Tolerant,     \* the names whose bodies say IF NOT EXISTS
          MaxFaults     \* bound on failed calls and crashes in a behaviour

\* Every migration that some invocation may find on disk.
Sources ==
  UNION {Load(i.dir, dialect).files :
           i \in {j \in Invocations : j.dir # Missing}, dialect \in {"sqlite", "postgres"}}

\* SQL text means one thing; a listing is a sequence of sub-directories.
ASSUME DeployAssumption ==
  /\ Tolerant \subseteq Filenames /\ MaxFaults \in Nat
  /\ Invocations # {}
  /\ \A i \in Invocations : i.dir # Missing => i.dir.subs \in Seq(ToSet(i.dir.subs))
  /\ \A m, o \in Sources :
       m.kind = "sql" /\ o.kind = "sql" /\ m.body.text = o.body.text
       => m.body.means = o.body.means

VARIABLES url,     \* the configured database
          dbs,     \* the contents of the configured database, and the private in-memory one
          pc,      \* what the invocation does next
          inv,     \* its command line and directories
          answer,  \* what was typed at its prompt
          files,   \* the migrations it loaded
          script,  \* the tables its wipe has yet to drop
          todo,    \* the pending migrations it has yet to apply
          seeds,   \* the seeds it has yet to run
          result,  \* how it ended
          faults   \* faults so far

loopVars == <<files, script, todo, seeds>>
vars == <<url, dbs, pc, inv, answer, loopVars, result, faults>>

-----------------------------------------------------------------------------
Flags == {"seed_only", "status", "dry_run", "reset", "seed", "yes"}

\* The tracking table, as an object of the database.
Track == 0

\* Tables in sqlite_master order; the rows of the tracking table; what each
\* migration's table was made of; the seeds whose rows are there.
EmptyDb == [tables |-> <<>>,
            rows   |-> [n \in Filenames |-> None],
            ran    |-> [n \in Filenames |-> None],
            seeded |-> {}]

\* The database that `--db` names, or the configured one, if there is any.
Dsn == IF inv.db = None THEN url ELSE inv.db

\* open_driver: what a connection string opens.
OpenDriver(dsn) ==
  CASE dsn \in {"postgres://", "postgresql://"}           -> "postgres"
    [] dsn \in {":memory:", "sqlite::memory:", "sqlite:"} -> "memory"
    [] dsn = "mysql://"                                   -> "unsupported"
    [] OTHER                                              -> "sqlite"

Private == OpenDriver(Dsn) = "memory"
Backend == IF OpenDriver(Dsn) = "postgres" THEN "postgres" ELSE "sqlite"
Home    == IF Private THEN "mem" ELSE "main"
Db      == dbs[Home]
Has(table)  == table \in ToSet(Db.tables)
RecordedIn  == {n \in Filenames : Db.rows[n] # None}

\* (A slip: `--reset` is looked at before the flags that only look.)
VerbResetFirst(flags) ==
  CASE "reset" \in flags -> "reset"
    [] "reset" \notin flags /\ "seed_only" \in flags -> "seed"
    [] flags \cap {"seed_only", "reset"} = {} /\ "status" \in flags -> "status"
    [] flags \cap {"seed_only", "reset", "status"} = {} /\ "dry_run" \in flags -> "dry_run"
    [] OTHER -> "apply"

\* What a command line asks for: the first of these that applies.
Verb(flags) ==
  CASE "seed_only" \in flags -> "seed"
    [] "seed_only" \notin flags /\ "status" \in flags -> "status"
    [] flags \cap {"seed_only", "status"} = {} /\ "dry_run" \in flags -> "dry_run"
    [] flags \cap {"seed_only", "status", "dry_run"} = {} /\ "reset" \in flags -> "reset"
    [] OTHER -> "apply"

Exit(outcome) == pc' = "idle" /\ result' = outcome
Goto(point)   == pc' = point /\ UNCHANGED result

Init ==
  /\ url \in Urls
  /\ dbs = [home \in {"main", "mem"} |-> EmptyDb]
  /\ pc = "idle"
  /\ inv = CHOOSE i \in Invocations : TRUE
  /\ answer = "none"
  /\ files = {} /\ script = <<>> /\ todo = {} /\ seeds = {}
  /\ result = "none"
  /\ faults = 0

-----------------------------------------------------------------------------
\* A process starts; a private database starts empty with it.
Invoke(i) ==
  /\ pc = "idle"
  /\ inv' = i
  /\ answer' = "none"
  /\ pc' = "load"
  /\ dbs' = [dbs EXCEPT !.mem = EmptyDb]
  /\ files' = {} /\ script' = <<>> /\ todo' = {} /\ seeds' = {}
  /\ result' = "none"
  /\ UNCHANGED <<url, faults>>

SeedFiles == Load(inv.seeds, Backend)
SeedsBad  == inv.seeds = Missing \/ SeedFiles.error # "none"

\* execute, up to the first thing it asks of the database: the migrations are
\* loaded for the driver's dialect and resolved, `migrate seed` loads its seeds,
\* and a wipe without `--yes` wants a terminal to ask on.
LoadFiles ==
  LET verb     == Verb(inv.flags)
      loaded   == Load(inv.dir, Backend)
      resolved == Resolve(loaded.files)
      seeding  == verb = "seed"
  IN /\ pc = "load"
     /\ IF Dsn = None THEN Exit("usage") /\ UNCHANGED <<files, seeds>>
        ELSE IF OpenDriver(Dsn) = "unsupported" THEN Exit("failed") /\ UNCHANGED <<files, seeds>>
        ELSE IF inv.dir = Missing \/ loaded.error # "none"
        THEN Exit("usage") /\ UNCHANGED <<files, seeds>>
        ELSE IF resolved.error # "none" THEN Exit("failed") /\ UNCHANGED <<files, seeds>>
        ELSE /\ files' = resolved.files
             /\ seeds' = IF seeding /\ ~SeedsBad THEN SeedFiles.files ELSE {}
             /\ CASE seeding /\ SeedsBad -> Exit("usage")
                  [] verb = "reset" /\ "yes" \in inv.flags -> Goto("list")
                  [] verb = "reset" /\ "yes" \notin inv.flags ->
                       IF inv.tty THEN Goto("confirm") ELSE Exit("usage")
                  [] OTHER -> Goto("ensure")
     /\ UNCHANGED <<url, dbs, inv, answer, script, todo, faults>>

\* (A slip: the prompt is a notice, and any answer goes on.)
ConfirmAnyAnswer ==
  /\ pc = "confirm"
  /\ answer' \in {"yes", "no"}
  /\ Goto("list")
  /\ UNCHANGED <<url, dbs, inv, loopVars, faults>>

\* The user answers the prompt of `--reset`.  Anything but yes, the end of the
\* input and a failed read included, is a no: a clean cancel, with exit code 0.
Confirm ==
  /\ pc = "confirm"
  /\ \/ answer' = "yes" /\ Goto("list")
     \/ answer' = "no" /\ Exit("ok")
  /\ UNCHANGED <<url, dbs, inv, loopVars, faults>>

\* The wipe.  Postgres drops the schema in one batch; SQLite first lists the
\* objects it will drop.
BeginWipe ==
  /\ pc = "list"
  /\ IF Backend = "sqlite"
     THEN Goto("drop") /\ script' = Db.tables /\ UNCHANGED dbs
     ELSE Goto("ensure") /\ dbs' = [dbs EXCEPT ![Home] = EmptyDb] /\ UNCHANGED script
  /\ UNCHANGED <<url, inv, answer, files, todo, seeds, faults>>

\* What a database is without a table: its rows are gone with it.
Without(db, table) ==
  [tables |-> RemoveFirst(db.tables, table),
   rows   |-> IF table = Track THEN EmptyDb.rows ELSE db.rows,
   ran    |-> [n \in Filenames |-> IF n = table THEN None ELSE db.ran[n]],
   seeded |-> db.seeded \ {table}]

\* (A slip: the objects are dropped in reverse order, as if for foreign keys.)
DropLast ==
  /\ pc = "drop"
  /\ IF script = <<>> THEN Goto("ensure") /\ UNCHANGED <<dbs, script>>
     ELSE /\ dbs' = [dbs EXCEPT ![Home] = Without(@, Last(script))]
          /\ script' = Front(script)
          /\ UNCHANGED <<pc, result>>
  /\ UNCHANGED <<url, inv, answer, files, todo, seeds, faults>>

\* One `DROP ... IF EXISTS` of the script, each committed on its own.
DropNext ==
  /\ pc = "drop"
  /\ IF script = <<>> THEN Goto("ensure") /\ UNCHANGED <<dbs, script>>
     ELSE /\ dbs' = [dbs EXCEPT ![Home] = Without(@, Head(script))]
          /\ script' = Tail(script)
          /\ UNCHANGED <<pc, result>>
  /\ UNCHANGED <<url, inv, answer, files, todo, seeds, faults>>

File(n) == CHOOSE m \in files : m.name = n
Offending ==
  {n \in RecordedIn : \A m \in files : m.name # n \/ m.checksum # Db.rows[n]}
PendingFiles == {m.name : m \in files} \ RecordedIn

\* ensure_tracking_table.
Ensured(db) ==
  [db EXCEPT !.tables = IF Track \in ToSet(@) THEN @ ELSE Append(@, Track)]

\* (A slip: `migrate seed` does not look for pending migrations.)
EnsureAndPlanSeedsAnyway ==
  /\ pc = "ensure"
  /\ dbs' = [dbs EXCEPT ![Home] = Ensured(@)]
  /\ CASE Offending # {} -> Exit("refused") /\ UNCHANGED todo
       [] Offending = {} /\ Verb(inv.flags) \in {"status", "dry_run"} ->
            Exit("ok") /\ UNCHANGED todo
       [] Offending = {} /\ Verb(inv.flags) = "seed" -> Goto("seed") /\ UNCHANGED todo
       [] OTHER -> Goto("apply") /\ todo' = PendingFiles
  /\ UNCHANGED <<url, inv, answer, files, script, seeds, faults>>

\* ensure_tracking_table, read_applied and plan, and what each verb does next.
EnsureAndPlan ==
  /\ pc = "ensure"
  /\ dbs' = [dbs EXCEPT ![Home] = Ensured(@)]
  /\ CASE Offending # {} -> Exit("refused") /\ UNCHANGED todo
       [] Offending = {} /\ Verb(inv.flags) \in {"status", "dry_run"} ->
            Exit("ok") /\ UNCHANGED todo
       [] Offending = {} /\ Verb(inv.flags) = "seed" ->
            /\ IF PendingFiles = {} THEN Goto("seed") ELSE Exit("failed")
            /\ UNCHANGED todo
       [] OTHER -> Goto("apply") /\ todo' = PendingFiles
  /\ UNCHANGED <<url, inv, answer, files, script, seeds, faults>>

\* A migration takes effect: its table, unless it is there, with its record.
WithMigration(db, m) ==
  LET there == m.name \in ToSet(db.tables)
  IN [tables |-> IF there THEN db.tables ELSE Append(db.tables, m.name),
      rows   |-> [db.rows EXCEPT ![m.name] = m.checksum],
      ran    |-> IF there THEN db.ran ELSE [db.ran EXCEPT ![m.name] = Lowered(m)],
      seeded |-> db.seeded]

\* A body fails on a table that is there, unless it says IF NOT EXISTS.
CanRun(m) == Lowered(m) # Broken /\ (m.name \in Tolerant \/ ~Has(m.name))

\* The apply loop stops at the first body that fails, or whose record the
\* primary key of the tracking table refuses; after it, `--seed` loads the seeds.
ApplyNext ==
  /\ pc = "apply"
  /\ IF todo # {}
     THEN /\ IF CanRun(File(Min(todo))) /\ Has(Track) /\ Min(todo) \notin RecordedIn
             THEN /\ dbs' = [dbs EXCEPT ![Home] = WithMigration(@, File(Min(todo)))]
                  /\ todo' = todo \ {Min(todo)}
                  /\ UNCHANGED <<pc, result>>
             ELSE Exit("failed") /\ UNCHANGED <<dbs, todo>>
          /\ UNCHANGED seeds
     ELSE /\ CASE "seed" \notin inv.flags -> Exit("ok") /\ UNCHANGED seeds
               [] "seed" \in inv.flags /\ SeedsBad -> Exit("usage") /\ UNCHANGED seeds
               [] OTHER -> Goto("seed") /\ seeds' = SeedFiles.files
          /\ UNCHANGED <<dbs, todo>>
  /\ UNCHANGED <<url, inv, answer, files, script, faults>>

\* (A slip: `sqlite:` alone is not known for an in-memory database.)
IsPrivateMemoryDsnLongOnly(dsn) == dsn \in {":memory:", "sqlite::memory:"}

\* The databases that no second connection can reach.
IsPrivateMemoryDsn(dsn) == dsn \in {":memory:", "sqlite::memory:", "sqlite:"}

\* A program seed opens a connection of its own; to a private database that
\* would be a new and empty one.
SeedsElsewhere(s) == s.kind = "program" /\ Private

SeedRuns(s) == /\ s.body.means # Broken
               /\ s.kind = "program" => ~IsPrivateMemoryDsn(Dsn)
               /\ Has(s.name) \/ SeedsElsewhere(s)

\* The next seed: a `.sql` or `.schema` body in a transaction of its own, a
\* program over its own connection.  Every failure ends the run.
SeedNext ==
  LET s == CHOOSE m \in seeds : \A o \in seeds : m.name <= o.name
  IN /\ pc = "seed"
     /\ CASE seeds = {} -> Exit("ok") /\ UNCHANGED <<dbs, seeds>>
          [] seeds # {} /\ ~SeedRuns(s) -> Exit("failed") /\ UNCHANGED <<dbs, seeds>>
          [] OTHER -> /\ dbs' = IF SeedsElsewhere(s) THEN dbs
                                ELSE [dbs EXCEPT ![Home].seeded = @ \cup {s.name}]
                      /\ seeds' = seeds \ {s}
                      /\ UNCHANGED <<pc, result>>
     /\ UNCHANGED <<url, inv, answer, files, script, todo, faults>>

\* Another process that runs on the same files creates the tracking table
\* where there is none, and applies the next pending migration.
OtherApplies ==
  LET pending == {m \in files : m.name \notin RecordedIn}
      next == CHOOSE m \in pending : \A o \in pending : m.name <= o.name
  IN /\ pc \notin {"idle", "load"} /\ ~Private
     /\ Offending = {} /\ pending # {} /\ CanRun(next)
     /\ dbs' = [dbs EXCEPT !.main = WithMigration(Ensured(@), next)]
     /\ UNCHANGED <<url, pc, inv, answer, loopVars, result, faults>>

\* A call of the driver fails, or the process dies: either ends the run
\* between two steps, whose effects stay.
Fails(outcome) ==
  /\ pc # "idle"
  /\ faults < MaxFaults
  /\ faults' = faults + 1
  /\ Exit(outcome)
  /\ UNCHANGED <<url, dbs, inv, answer, loopVars>>

Next == \/ \E i \in Invocations : Invoke(i)
        \/ LoadFiles \/ Confirm \/ BeginWipe \/ DropNext \/ EnsureAndPlan
        \/ ApplyNext \/ SeedNext \/ OtherApplies
        \/ Fails("failed") \/ Fails("crashed")

Spec == Init /\ [][Next]_vars

-----------------------------------------------------------------------------
\* Each variable has its type; what reaches the engine is resolved.
\* (resolve_programs runs before anything is planned.)
TypeOK ==
  /\ \A d \in {"main", "mem"} :
       /\ ToSet(dbs[d].tables) \subseteq Filenames \cup {Track}
       /\ dbs[d].seeded \subseteq Filenames
  /\ pc \in {"idle", "load", "confirm", "list", "drop", "ensure", "apply", "seed"}
  /\ url \in Urls
  /\ inv \in Invocations
  /\ \A m \in files : m.kind \in {"sql", "schema"}
  /\ todo \subseteq {m.name : m \in files}
  /\ answer \in {"none", "yes", "no"}
  /\ result \in {"none", "ok", "usage", "failed", "refused", "crashed"}
  /\ faults \in 0..MaxFaults

\* A recorded migration has its table, through any crash inside a wipe and any
\* number of half-done wipes: a later run never skips one whose effect is gone.
\* The exception is a body that says IF NOT EXISTS: one half-done wipe leaves
\* its table older than the tracking table, and a second one may then drop it
\* first.
\* (SqliteDriver::reset drops in sqlite_master order; the tracking table is
\* older than what the migrations create.)
RecordedIsPresent ==
  \A d \in {"main", "mem"} : \A n \in Filenames \ Tolerant :
    dbs[d].rows[n] # None => n \in ToSet(dbs[d].tables)

\* Exit code 0 after apply, reset or seed: every file is recorded and was made
\* of what its body means today (save one that found its table there), and every
\* seed asked for is in the database.  The exception is a reset that was declined
\* at its prompt: it exits with 0, too, and has done nothing.
ZeroMeansDone ==
  [][ (/\ result' = "ok" /\ pc' # pc
       /\ Verb(inv.flags) \in {"apply", "reset", "seed"} /\ answer' # "no") =>
        /\ \A m \in files : /\ Db.rows[m.name] = m.checksum
                            /\ m.name \notin Tolerant => Db.ran[m.name] = Lowered(m)
        /\ Verb(inv.flags) = "seed" \/ "seed" \in inv.flags =>
             \A m \in SeedFiles.files : m.name \in Db.seeded ]_vars

\* A run is refused for its history only when a recorded migration is gone from
\* the disk, or now means something else than what ran: reformatting a schema,
\* or moving it into an override, is not drift.
DriftIsRealChange ==
  [][ result' = "refused" /\ pc' # pc =>
        \E n \in RecordedIn :
          \A m \in files : m.name = n =>
            \/ Lowered(m) # Db.ran[n] \/ n \in Tolerant
            \/ m.kind = "sql" /\ m.checksum # Db.rows[n] ]_vars

\* The user of this run agreed to lose the data.
Consented == "yes" \in inv.flags \/ answer = "yes"

\* Data is dropped only by a run that was asked to reset, was not asked to look or
\* to seed only, and whose user agreed: `--yes`, or a yes typed at its prompt.
\* (src/README.md:464: `--yes`, or an interactive `yes` typed at the prompt.)
WipesOnlyWithConsent ==
  [][ ~(ToSet(dbs.main.tables) \subseteq ToSet(dbs'.main.tables)) =>
        /\ "reset" \in inv.flags
        /\ inv.flags \cap {"seed_only", "status", "dry_run"} = {}
        /\ Consented ]_vars

\* `migrate seed` writes nothing into a database that is behind its files, also
\* when another process migrates it meanwhile.
SeedsOnlyWhenCurrent ==
  [][ dbs'.main.seeded \ dbs.main.seeded # {} /\ Verb(inv.flags) = "seed" =>
        PendingFiles = {} ]_vars

\* Where each dialect has at most one directory, the order in which the file
\* system lists them decides nothing about what is loaded.
\* (apply_overrides walks them as read_dir lists them.)
ListingOrderIsIrrelevant ==
  inv.dir # Missing =>
    LET subs == inv.dir.subs
    IN (\A i, j \in DOMAIN subs :
          i # j => DialectOf(subs[i].name) # DialectOf(subs[j].name)
                   \/ DialectOf(subs[i].name) = "none") =>
         Load(inv.dir, Backend).files
           = Load(Directory(inv.dir.base, Reverse(subs)), Backend).files
=============================================================================
