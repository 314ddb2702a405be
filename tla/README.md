# Verification of para/db

TLA+ modules, TLC runs and TLAPS proofs for the para/db package: the Rust crate
`crates/noeta-para-db` (drivers, migration engine, `noeta migrate`, `db.watch`) and
the Noeta modules beside it (`repo.noe`, `reactive.noe`, `query.noe`, `schema.noe`).
`PROJECT.json` lists the components, runs, mutants, the map from definitions to
source lines, the findings, the hazards and the theorems. Paths below without a
directory are under `crates/noeta-para-db/src/`.

## Inventory

| component | state | operations | hard behaviour | what makes it correct |
| --- | --- | --- | --- | --- |
| Migration planning (`migrate.rs` `plan`) | none (pure) | gates, pending list, out-of-order list | a checkout and a history that disagree | an edited or deleted applied file is refused before anything runs |
| Migration engine (`migrate.rs` `apply`, `apply_one`, `status`, `pending`, `reset`) | the database's `_noeta_migrations` table, the schema, one transaction per connection | one transaction per migration: body and tracking row | several processes at once, stale plans, failed calls, lost COMMIT answers, crashes | a body takes effect with its record, once, in order; an Ok is durable; errors leave nothing open |
| Migration discovery (`load_dir`, `apply_overrides`, `resolve_programs`) | none (reads a directory) | list, sort, override per dialect, run `.noe` bodies | directory order, override directories that differ in case only | one body per name, the same on every machine |
| Seeding (`seed`, `seed_one`, `seed_only`, `program.rs`) | the database; a second connection for a program seed | run every seed, refuse on pending migrations | check then run; partial runs | no seed on a stale schema; stop at the first failure |
| SQLite reset (`sqlite.rs`) | `sqlite_master`, the foreign-key switch | enumerate, switch off, DROP each, switch on | failure or crash inside it, other writers | never a recorded migration without its tables |
| Command line (`command.rs`) | none of its own | choose the mode, open the driver, confirm, report | order of confirm, reset, seed; what an exit code means | nothing destructive without consent |
| Unit of work (`repo.noe`) | staged new, dirty and removed entities | add, save, remove, flush, discard, insert | a statement that fails inside flush, a shared connection | all or nothing; what is staged is flushed once |
| Connection value (`conn.rs`, `driver.rs`) | a mutex around the driver | execute, query, migrate, seed, notify, … | the mutex covers one call, a transaction covers many | transactions of two users do not mix |
| Change notifications (`sqlite.rs` bus, `pg.rs` LISTEN/NOTIFY, `watch.rs`, `reactive.noe`) | per connection: interested and pending channels; per watch: a revision | listen, publish, drain, pump, re-query | publish before or after COMMIT, drains shared by watches | a live query that is out of date is woken |
| Schema DSL (`schema.rs`, `schema.noe`) | none | parse, validate, canonicalise, lower | one text per meaning, refused combinations | the canonical text parses to the same statements |
| Conversions (`sqlite.rs` `ColumnIntent`, `pg.rs` placeholders) | none | present a stored value, rewrite `?` | the edge between 64-bit integers and floats | only lossless recoveries |
| Query builder (`query.noe`, `sql.noe`) | none | build SQL text and binds | none beyond text | not modelled |

Interactions: the command line and `Connection.migrate` call the engine; the engine
calls a `SqlDriver`; a program seed opens a connection of its own. A
`LiveRepository` writes through a `Repository`, then notifies through its
connection; the driver's bus or the Postgres server delivers the channel to every
listening connection; the app's loop pumps the watch, which wakes the live query,
which reads the table through the same connection.

## The modules

| module | models | state and actions |
| --- | --- | --- |
| `Plan` | `migrate.rs` `plan` | operators over a checkout (name to body version) and a ledger (name to recorded version): `Verdict`, `Pending`, `OutOfOrder`, `IsFirst` |
| `MigrationHistory` | what the engine promises | `rows` and `history`; `TakeEffect` (a body with its record) and `Wipe` |
| `Migrate` | the engine, run by several processes and handles | one action per driver call; implements `MigrationHistory` |
| `LoadDir` | `load_dir`, `apply_overrides`, checksums, `resolve_programs` | operators over a directory with its sub-directories: `Problem`, `Load`, `Resolve` |
| `Deploy` | `noeta migrate` from the command line to the exit code, the wipe of each backend, seeds | one action per step of `execute`; EXTENDS `LoadDir` |
| `SchemaSource` | the lexer and the call reader of the schema DSL | operators over texts of symbols: `Lex`, `Calls`, `Chains`, `Source` |
| `Schema` | the builders, their checks, the canonical rendering, the lowering | one action per call of a chain (`Open`, `ReadLink`, `Close`) |
| `Batches` | what a unit of work promises | a log of changes; `Edit`, `Flush` (whole), `Insert` |
| `UnitOfWork` | `repo.noe` over the connection value | one action per call on a connection; implements `Batches` |
| `Reactive` | notifications, watches, live queries | one action per write step, drain or re-query |
| `Conversions` | marshalling, binding, storing and presenting a value; `?` to `$n` | one action per hop (`Bind`, `Store`, `Read`), both backends side by side |
| `MC...` | small constants for TLC | |
| `..._proofs` | theorems | `Migrate_proofs` (with those of `MigrationHistory`), `Deploy_proofs`, `UnitOfWork_proofs`, `Reactive_proofs`, `SchemaSource_proofs`, `Schema_proofs`, `Conversions_proofs`; `NaturalRecursion` has the induction they share |

An operator whose comment calls it a slip is a plausible mistake in the code
next to it. The properties are tried against these: each of them fails when its slip
takes the place of the definition. Nothing else refers to them.

### Plan, MigrationHistory and Migrate

A migration is a position in the sorted list of every name any checkout ever had,
because `load_dir` sorts by name and the engine compares positions only. A version
stands for the body and its checksum at once. `ReadAndPlan` is the query of
`read_applied` and the pure `plan` behind it; the driver calls of `apply_one` are
`BeginOne`, `RunBody`, `RecordRow`, `CommitOne` and `Rollback`, and between any two
of them every other runner may act. `Leave` is the end of a call: a `noeta migrate`
process exits and its connection is closed; a handle (`Connection.migrate`) keeps
the connection with whatever transaction it is in. `warned` is what the operator is
told: the command line prints the out-of-order list that `apply` returns,
`Connection.migrate` answers with a count and drops it (`conn.rs:296`), and so does
`reset`. `Scenarios` says which runners, kinds of call and checkouts go together.

The database is outside the source and is modelled from how the engine uses it:
committed rows and bodies, one transaction per connection, a primary key that
makes an INSERT wait for an uncommitted one of the same name and refuses a recorded
name. Failures are `CommitFails` (undone, left open, or committed with the answer
lost), `DriverFails` (any other call) and `Crash`.

Bodies are opaque and take effect in their own transaction; a body that conflicts
with another one fails like any failed call. The wipe is the Postgres one, a single
batch; the SQLite wipe is in `Deploy`. Behaviours start from a database the engine
has not touched.

### LoadDir and Deploy

A file has a kind (`sql`, `schema`, `program`, or no body at all) and a body: the text
that is on disk and what it means (for `.noe` bodies the canonical rendering, whose
text is the identity; `Broken` if it cannot be lowered). `Deploy` runs one invocation
after another: `Invoke` is the parsed command line, `LoadFiles` the driver, the
directories and the seeds, `Confirm` the answer at the prompt of a reset (kept in
`answer` until the next invocation; a no ends the run with exit code 0), `BeginWipe` and
`DropNext` the wipe (one batch on Postgres, one DROP at a time in `sqlite_master`
order on SQLite), `EnsureAndPlan` the tracking table and the plan, `ApplyNext` one
migration, `SeedNext` one seed. `OtherApplies` is a second process, `Fails` a call
that fails or a crash, at any step. `ApplyNext` is one step where `Migrate` has five:
that a body and its record take effect together is what the theorem `Refinement` says
of those five. The private in-memory database lives for one invocation.

### SchemaSource and Schema

A text is a sequence of symbols: a blank, a mark, a run of digits (`Numerals`; `Huge` are
those beyond 64 bits) or a word (`Words`; `Foreign` are those with a letter outside ASCII).
A float is taken to be written as `{f:?}` would print it (the shortest decimal), unless it is one
of `Scientific`: the floats below 0.0001 and from 1e16 on, which print with an exponent (`Printed`).
Each loop of the lexer and of the call reader is a table of steps (`StringSteps`, `LexSteps`,
`ArgumentSteps`, `CallSteps`): what is taken at a position, and where the loop goes on or stops;
`ReadFrom` runs such a table. The state machine is the builder's loop over one chain. `Canonical` and `Render` give the text whose
hash is the checksum, `Lower` the DDL, and `SqliteAdds` says which columns SQLite adds to a table (an
external fact, from what the checks of the builder guard against).

### UnitOfWork and Batches

Each isolate has the three pending lists of its repository and a handle. A handle
is locked for one call, so every call is a step and two isolates on one connection
may interleave inside each other's transactions. `Begin`, `RunStatement` and `Commit` are
`flush`; `Insert` is the immediate one; `RunEngine` is `conn.migrate` or `conn.seed`,
which hold the lock for a whole run of the engine. After a failed statement a SQLite
transaction goes on, a Postgres one refuses everything but its end. `CommitFails` covers the
lost answer of a COMMIT and `InsertUnanswered` that of an insert, `Die` an isolate that ends,
`Reopen` a new connection.

### Reactive

A connection stands for the isolate that owns it. `WriteRow`, `Commit`, `Undo` and
`Notify` are a write: the row change (where SQLite's hook publishes), its end,
and the notify of a `LiveRepository`. `Pump` drains the connection's pending
channels, as `notifications()` does, and keeps only whether the watch's own channel
was among them, as `pump` does. What a query returns is represented by the number of
commits that changed the table. A setup selects the backend (`atWrite` is SQLite's
update hook, `atCommit` a Postgres trigger, `never` Postgres without one) and the
writers that announce. `Lose` is a lost connection; `unannounced` are the tables whose announcement was
lost with its writer. `FailInside` is a flush that fails on Postgres: until the program's own
`Rollback` its connection refuses every statement, LISTEN included, so a watch that is opened
in between is one of `deaf`.

### Conversions

Integers have `IntBits` bits (64 in the code), the narrow Postgres columns `ColBits`
(16 and 32), a float's mantissa `Mantissa` (53). Floats are counted in halves, so that
there are some that are no integers. A value goes through `SqlValueOf`, the binding of
the backend (`ToRusqlite`, or `ToSql` by the column's type), the storage (SQLite's
affinity) and back (`ColumnIntent` and `Present`, or `ValueOf`, then `OutOf`).

## Runs

Distinct states in parentheses.

| run | instance | shows |
| --- | --- | --- |
| `migrate` (267,045) | a handle and a process, 3 names, 3 faults: diverging checkouts with apply / status / dry run, the same with resets, and one operator with a late merge | `TypeOK`, `TransactionDiscipline`, `RecordedExactlyWhatRan`, `OkMeansDurable`, `OkReportsOutOfOrder`, `EarlierFilesFirst`, and `EachMigrationAtomic`: Migrate implements MigrationHistory |
| `migrate_retry` (3,590) | 2 handles, 2 names, 3 faults, no COMMIT left open, fair restarts | `FailureRollsBack`, `RetriesConverge` |
| `deploy` (54,251) | a file database, a server, the private in-memory ones and none configured; 3 migrations (`.sql`, schema, program) and a README; 9 directories, overridden, edited, with a file deleted or wrong, and a missing one; 2 faults | `RecordedIsPresent`, `ListingOrderIsIrrelevant`, `ZeroMeansDone`, `DriftIsRealChange`, `WipesOnlyWithConsent`, `SeedsOnlyWhenCurrent` |
| `schema` (123,845) | chains of a root and up to 4 of 29 calls, 5 layouts | `LayoutIsNoIdentity`, `PlainRenderingReparses`, `AltersSuitSqlite` |
| `reactive` (154,044) | 2 connections with a watch of one table each, 2 tables, SQLite / trigger / live repositories, one lost connection, aborted transactions | `WakeUpOnItsWay`, `LiveQueriesCatchUp` |
| `unit_of_work` (1,256,923) | 2 isolates with a connection each, both backends, one fault | `BatchesAtomic`: UnitOfWork implements Batches; `StagingOrderKept` |
| `conversions` (211,232) | every value of 6-bit integers and 4-bit mantissas through every declared type; every text of up to 5 quotes, question marks and letters | `PortableRoundTrip`, `DatabasesAgree`, `ParametersMeetTheirPlaces`, `LosslessBelowTheEdge` |

Runners are invoked again, isolates stage and discard, watches are pumped and command lines
follow each other without end, so the runs of these models check for deadlock. `CHECK_DEADLOCK FALSE` is set for the runs of `Schema` and `Conversions`
only: a chain ends when it is closed, a value's way when it has come back.

Runs that show a disagreement between the code and what its comments or docs say:

| run | disagreement |
| --- | --- |
| `commit_left_open` | `apply_one` says that any failure rolls back (`migrate.rs:940`); a failed COMMIT is returned without a ROLLBACK (`:959`), and where the database keeps the transaction open the next `Connection.migrate` reads its own uncommitted row and answers 0, "already up to date" (`conn.rs:292`) |
| `shared_connection` | `pump` drains the whole connection (`watch.rs:217`), so of two watches on one connection one swallows the other's wake-up; the README (line 529) says a write wakes every watch on its table |
| `shared_flush` | the mutex is held for one call (`conn.rs:233`), so on Postgres the COMMIT of one isolate makes half of another's unit of work durable; the handle's doc says the mutex serializes access (`conn.rs:38`), and flush says it commits one batch in a single transaction (`repo.noe:363`) |
| `schema_exponent` | a float default below 0.0001, or of 1e16 and more, is rendered with an exponent (`schema.rs:172`), which the lexer refuses, so a `.noe` migration with one is refused (`migrate.rs:808`); the docs say that a float "always carries a decimal point" (`schema.rs:164`) and that the rendering re-parses (`:1262`) |
| `lossy_edge` | the exactness test casts back with saturation (`sqlite.rs:327`, `:334`): the largest integer in a NUMERIC column (a REAL one converts it by itself before) and the float above it in an INTEGER column are changed, though only lossless recoveries are promised (`:313`) |

Divergences and limits met while modelling that have no run of their own:

- `--dry-run` promises not to touch the database (`command.rs:91`); `pending` creates the
  tracking table (`migrate.rs:1031`).
- `Applied` reports out-of-order migrations (`migrate.rs:979`); when a later migration
  fails, `apply` returns the bare error (`:1007`) and the next plan no longer sees
  them. `OkReportsOutOfOrder` speaks of calls that answer Ok.
- `reset` takes its out-of-order list for empty (`migrate.rs:1048`); a runner with an
  older plan can record a migration between the wipe and the re-apply.
- The README (line 529) promises a wake-up for a plain SQLite write; the hook publishes
  before the COMMIT, so a query that runs in between shows the old rows and is not
  woken again. A `LiveRepository` announces again; the `reactive` run has only these on SQLite.
- `db.watch` drops the result of LISTEN (`watch.rs:175`), which Postgres refuses inside the aborted
  transaction that a failed flush leaves behind. Its live query is not woken even after
  the ROLLBACK. `Reactive` has such watches (`deaf`), and its properties set them aside.
- Any literal is taken as the default of any column (`schema.rs:946`): SQLite creates a BOOLEAN column
  with the default 7, PostgreSQL refuses it, though `parse` is to refuse what only one backend
  accepts (`schema.rs:698-701`). Which defaults a server converts is not modelled.
- `unique`, `default` and `references` on an id column are part of its identity and are
  dropped from its DDL (`schema.rs:1505`); `id().primary_key()` with a table key gives two
  PRIMARY KEYs, and a repeated column name is not refused.
- With `postgres/` and `Postgres/` side by side the one the file system lists last wins
  (`migrate.rs:661`). `ListingOrderIsIrrelevant` is about different dialects.
- The list of private in-memory connection strings lacks `""` and `file::memory:`
  (`command.rs:582`): a program seed then fills a database that nobody sees.
- A body that says IF NOT EXISTS survives one half-done SQLite wipe behind an older
  object, and a second half-done wipe may drop its table before the tracking table, so
  that it is recorded without it. `Tolerant` names such bodies, and `RecordedIsPresent`,
  `ZeroMeansDone` and `DriftIsRealChange` set them aside.
- A reset that is declined at its prompt exits with 0, as one that was done does
  (`command.rs:354`, by intent): `ZeroMeansDone` sets it aside by the answer.
- The check of `seed_only` and its seeds are no transaction: a reset by another
  process in between breaks `SeedsOnlyWhenCurrent`. The other process of `Deploy` does not reset.
- Postgres timestamps must be selected as text to be read, at odds with `schema.rs:98-99`.

### Bounds

`migrate`: 3 names give a migration behind a recorded one followed by one that can fail,
2 of them an earlier and a later file; two versions an edited file; two runners every race the
engine's steps allow, because its steps read and write one table and each race is
between two calls. Three faults are a failure, a failure of its retry and a crash. `deploy`:
one migration per body language, because overrides, checksums and drift treat each
differently, and a fourth name that is no migration; two faults are the two half-done wipes
after which objects are out of order. `schema`: 4 links are the shortest chain in which a column,
two modifiers and a table option meet. `reactive`: 2 commits per table give a
wake-up that is consumed while another write is under way. `unit_of_work`:
2 staged changes and a log of 3 are a batch that can be cut and a neighbour's change in the
middle of it; one key makes every conflict happen. `conversions`: at 6 bits
and a mantissa of 4 there are integers that no float holds and the saturating
edge, and between them a narrow column that must refuse; 5 characters
hold a quoted question mark with one outside it, and an unfinished quote. The
theorems below hold for every value of the constants.

### Fairness

`RetrySpec`: a running call makes its next driver call (an operating system
runs a process that is not blocked), and runners are started again
(replicas migrate at boot). Faults are not fair and are bounded, so it says what
happens after they stop. No fairness is asked of a particular outcome.

`FairSpec`: a transaction that was begun ends (commit or undo, weak fairness on
both together), a live repository goes on to its notify, and each watch is pumped
and each woken live query runs infinitely often if it infinitely often can. The
last two are strong fairness because a watch shares the isolate's thread with the
isolate's own writes, so it is enabled only between them; the app's loop, which the
README tells the program to write, interleaves the two. Opening a watch is not fair.

## Proofs

All theorems are for arbitrary constants under the named assumptions of the modules, which
TLC evaluates on every run:

- `PlanAssumption`, `MigrateAssumption`, `ReactiveAssumption`, `UnitOfWorkAssumption`: types of
  the constants; `None` is not a version.
- `LoadAssumption`, `DeployAssumption`: types; names are compared as numbers, because
  `load_dir` compares names only; and two `.sql` bodies of the same text mean the same,
  which is why a checksum of the text identifies them (`migrate.rs` `checksum`). Of `.noe` bodies it is not assumed.
- `ConversionsAssumption`: an integer has 2 bits or more and a float's mantissa too, and the
  narrow column is narrower than an integer; a value is a kind with what that kind holds
  (the theorems need neither its range nor that a float fits the mantissa), and a statement
  is a sequence of characters.
- `SourceAssumption`: digits, words, blanks and marks are different symbols.
- `SchemaAssumption`: roots and links are calls that an author can write (`IsCall`), layouts are
  blanks and comments that end with their line (`IsLayout`), and the words of the DSL are ASCII
  words. `AddsSuitSqlite` uses none of it.

Stronger hypotheses are part of a theorem's statement.

`Migrate_proofs`

- `TypeAndDiscipline`: `Spec => [](TypeOK /\ TransactionDiscipline)`. Neither is
  inductive alone: a commit writes what its transaction holds, so the type of the
  ledger needs that a transaction at its COMMIT holds a migration. The discipline
  says that a transaction with a tracking row holds the body of that very row, for
  a name that is neither recorded nor held by another transaction. `IInv` is their
  conjunction. The discipline splits into a part about one runner and a
  part about pairs (`Apart`); most steps touch one runner only, which two lemmas say once;
  the wipe, the row and the commit have lemmas of their own.
- `Refinement`: `Spec => EachMigrationAtomic`. Under `IInv` a commit is a
  `TakeEffect` of the transaction's body, the reset is a `Wipe`, and every other
  step leaves `rows` and `history` alone.
- `HistorySafe`: `MigrationHistory` by itself keeps `RecordedExactlyWhatRan`: what takes effect
  is new, so it stays the only one of its name.
- `RecordedExactly`: hence, by the refinement, so does the engine.
- `CommitsAreSafe`: `TransactionDiscipline` by itself.

The loop around the transactions (on top of `IInv`):

- `OkIsDurable`: `OkMeansDurable`. The strengthening says of a runner in its loop that every file of
  its checkout that is not on its list any more is recorded with its checksum
  (`Covered`), and that nobody takes a record away while there is no reset (`Lasting`).
- `NothingOvertakes`: `EarlierFilesFirst`, from the same invariant: the file that a transaction
  holds is the first of the list, so the files before it are recorded.
- `FailuresRollBack`: `FailureRollsBack`, if no failed COMMIT leaves its transaction open
  (`"open" \notin CommitFaults`); `commit_left_open` is the run without the hypothesis.
  The invariant is that a runner outside its loop has a closed transaction.
- `OutOfOrderReported`: `OkReportsOutOfOrder`, where a lone runner is no handle. The
  invariant relates the list the runner carries to what it has committed and what it
  still has to do, against the rows recorded when it planned.

`Deploy_proofs`

One inductive invariant, `IInv`, in six parts. `Typed`; `Loading` (the files of an invocation
are resolved and have one body per name); `Consistent` of each database (a recorded
migration has a table that is younger than the tracking table, and was made of a body with the
recorded identity); `Wiping` (in a wipe under way, what is yet to be dropped is there, and no
record outlives a table that goes before the tracking table); `Allowed` (where an
invocation can be, by what it was asked for and what its user agreed to); `Progress` (what is off the list is in the database). That a
record has its table is not inductive alone: the age of the tables carries it through a wipe
that is cut short and goes on in another invocation. The steps and the theorems:

- `TypesHold`, `RecordsAreTrue` (`RecordedIsPresent`): from the invariant.
- `Consent`, `SeedsWait`, `ZeroIsDone`, `DriftIsReal`: the four action properties. Each is shown of one step
  under the invariant; `ZeroIsDone` needs `Progress` at the exit, `DriftIsReal` that
  an identity determines what a body means.
- `ListingIsIrrelevant`: of `load_dir` itself. The last directory of a dialect in a listing is the
  only one, so it is the same when the listing is turned round; no induction over the listing is needed.

`Reactive_proofs`

- `TypeCorrect`.
- `NoLostWakeUp`: if no two watches share a connection, and every write is
  announced after its COMMIT (by a trigger or by a live repository), then
  `Spec => []WakeUpOnItsWay`. Both hypotheses are needed. The inductive invariant adds
  that a watch that was opened listens on its channel, unless its LISTEN was refused.

`UnitOfWork_proofs`

- `TypeCorrect`, with connections shared or not.
- `UnitsAreAtomic`: if no two isolates share a connection, `Spec => BatchesAtomic`. The invariant,
  `FlushInvariant`, says that during a flush what has run in the transaction and what has yet
  to run are together the staged batch, and that outside one no Postgres transaction takes
  statements any more. (On SQLite an abandoned one does, but the BEGIN of the next
  flush is refused inside it, so it never commits.)
  `shared_flush` is the run without the hypothesis.
- `OrderIsKept`: under the same hypothesis, `Spec => StagingOrderKept`. Changes of which no key is added
  after another change of it have an outcome that depends on the set of
  them only (`RowOutcome`, by induction over the sequence); the three lists hold the same set as the
  calls did (`SameChanges`, a second invariant); and in the batch the adds come first
  by construction (`BatchInOrder`). By `FlushInvariant` a COMMIT that forgets what was staged appends
  exactly the batch.

`Schema_proofs`

- `AddsSuitSqlite`: `Spec => []AltersSuitSqlite`. The inductive invariant, `Built`, says that an `alter_table`
  that is being built has the shape of one, with columns that can be added, and passes
  `validate_alter` once it is closed.
- `Chained`, `Typing`: the statement is always what the calls of the chain lead to from its root
  (`ChainRead`), and has the shape of a statement (`Statements`) whose literals are the chain's own
  (`Typed`). The sets that make up `Statements` say what the canonical rendering relies on: an id column
  is never null, a unique key is never empty, an option has at most one element.
- `LaidOutAlike`: `Spec => []LayoutIsNoIdentity`. By `ChainsOf` of `SchemaSource_proofs` the source
  reads as the calls of the chain, and `parse` makes of them what the builder made (`ParseOne`).
- `RenderedAlike`: `Spec => []PlainRenderingReparses`: where no default prints with an exponent, the
  rendering reads back. `schema_exponent` is the run without the hypothesis. The canonical calls of any statement in
  `Statements` lead the builder from its root to that very statement (`CanonicalBuilds`), by an
  argument per part of a statement (`ReachesColumn`, `ReachesKey`, `ReachesUniques`, `ReachesIndex`,
  `ReachesAlter`, `ReachesDrop`). A column's calls are the same under `create_table` and
  `alter_table`: `Holder` says what both do with a modifier. This is where the order of the calls matters:
  a key with no column before it, or a table's key before its columns, would not come back.
  The calls of two statements read as two, since only links have a dot (`ParseTwo`).

`SchemaSource_proofs`

What an author writes is read as it was meant, for texts of any length. A reader's table goes
forward, so `ReadFrom` is determined by it (`Reader`). `ReadsAs(L, t, x, D)` says that wherever
the text `t` stands in a source, unless a symbol of `D` comes next, the reader takes the items `x` and
goes on behind `t`. It holds of each token (`LexWord`, `LexString`, `LexInt`, `LexFloat`, `LexLayout`) and of
concatenations (`ReadsBoth`, `ReadsMany`), where the next text must not begin with a symbol of `D`: this
is where a number before a point, or a dash before a dash, could go wrong. The same holds one level up
of tokens and calls (`ReadCall`). `ChainsOf`: the chains of a source are the calls it was printed from.

`Conversions_proofs`

- `Way`: a value on its way is what the steps so far make of it (`OnItsWay`), so that the
  invariants are facts about functions.
- `RoundTrip`, `Agreement`: by cases over the columns of the portable schema and the kinds of
  values. An integer that is taken by a float column becomes the same float in both databases.
- `NothingIsLost`: the cast of an integer to a float is exact where the test of `present` says so. The
  lemmas are about the rounding to a mantissa: it keeps order and bounds, a power
  of two is a fixed point, and the unit of a number that is rounded is one
  power of two (found by a least-number argument, not by computing).
- `PlacesMet`: for a text of any length. The scan keeps two flags; `Ends` says what a literal is
  without them. Both satisfy the same recursive equation (`Divides`), that equation has one
  solution, and the numbers are the cardinalities of the question marks passed.

`NaturalRecursion`: induction and recursion over the naturals, from the well-foundedness of `<`,
stated of sets and functions: the theorems of the library that take an operator cannot be instantiated
by the provers at hand, these can.

Only model-checked: the liveness properties `RetriesConverge` and `LiveQueriesCatchUp`
(liveness and ENABLED are beyond the prover). Every invariant and action property that a passing
run checks is a theorem, some under the hypotheses named above.

## Not modelled

- `noeta migrate new`: it writes a timestamped file from a template and touches no
  database.
- PostgreSQL connection options and TLS: string handling before a connection exists, and a
  verifier that delegates to the TLS library.
- The schema and query builders in Noeta (`schema.noe`, `query.noe`, `sql.noe`): they build
  text and a list of binds.
- In the SQLite wipe, the foreign-key switch around it, views and triggers.
- A `.sql` body that holds its own BEGIN or COMMIT: README line 361 forbids it and nothing
  checks it.
- A program seed that fails after it has committed part of its work.
- NaN and infinities, SQL comments and `E''` strings in the placeholder rewrite,
  poisoned locks (a failed call like any other).
