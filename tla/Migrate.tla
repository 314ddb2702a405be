------------------------------ MODULE Migrate ------------------------------
(***************************************************************************)
(* The migration engine of migrate.rs, run by several processes against    *)
(* one database.  A step is one driver call (or the pure planning that     *)
(* follows one): ensure_tracking_table, read_applied + plan, and for each  *)
(* pending migration BEGIN, body, INSERT of the tracking row, COMMIT, with *)
(* ROLLBACK on a body error.  Between two steps any other runner may act,  *)
(* a driver call may fail, and a process may die.                          *)
(*                                                                         *)
(* The database is external.  Its committed state is the tracking table    *)
(* (does it exist, which rows) and the bodies that took effect, in commit  *)
(* order; each connection may hold one open transaction.                   *)
(***************************************************************************)
EXTENDS Plan, Sequences

CONSTANTS
  Runners,       \* processes that run the engine, one connection each
  Handles,       \* the runners that keep their connection after a call
                 \* (Connection.migrate); the others are `noeta migrate`
                 \* processes that exit
  Scenarios,     \* who calls what over which checkouts: subset of Scenario
  CommitFaults,  \* what a failed COMMIT leaves behind: subset of AllFaults
  MaxFaults      \* bound on failed driver calls and crashes in a behaviour

AllKinds  == {"apply", "status", "dryRun", "reset"}
AllFaults == {"undone", "open", "unknown"}

\* The runners at work, the calls they make, and the checkouts a call may
\* find on disk.
Scenario == [runners : SUBSET Runners, kinds : SUBSET AllKinds,
             trees : SUBSET Tree]

ASSUME MigrateAssumption ==
  /\ Handles \subseteq Runners
  /\ Scenarios \subseteq Scenario
  /\ CommitFaults \subseteq AllFaults
  /\ MaxFaults \in Nat

VARIABLES
  scenario,  \* the scenario, fixed from the start
  hasTable,  \* _noeta_migrations exists
  rows,      \* its committed rows
  history,   \* the committed bodies, in commit order, since the last wipe
  txn,       \* each connection's transaction
  pc,        \* the driver call each runner makes next
  call,      \* the operation and the loaded files of its current call
  todo,      \* pending names its apply loop has not reached
  done,      \* names the call will report
  ooo,       \* the out_of_order list captured from the plan
  result,    \* how its last call ended
  warned,    \* out-of-order names the last call reported
  jumped,    \* names the call committed behind a recorded one (observed)
  faults     \* faults so far

dbVars  == <<hasTable, rows, history>>  \* of the database
runVars == <<pc, call, todo, done, ooo, result, warned>>
vars    == <<scenario, dbVars, txn, runVars, jumped, faults>>

-----------------------------------------------------------------------------
\* A body that ran, or a row that was inserted.
Migration == [name : Names, version : Versions]
NoMig     == [name |-> 0, version |-> None]

Txn    == [open : BOOLEAN, body : Migration \cup {NoMig},
           row : Migration \cup {NoMig}]
Closed == [open |-> FALSE, body |-> NoMig, row |-> NoMig]
Begun  == [open |-> TRUE,  body |-> NoMig, row |-> NoMig]

EmptyLedger == [n \in Names |-> None]
NoCall      == [kind |-> "apply", files |-> EmptyLedger]

Points  == {"idle", "reset", "ensure", "read", "begin", "body", "record",
            "commit", "rollback"}
Results == {"none", "ok", "error", "refused", "crashed"}

\* What a connection reads: the committed rows and its own uncommitted one.
Seen(r) == IF txn[r].row = NoMig THEN rows
           ELSE [rows EXCEPT ![txn[r].row.name] = txn[r].row.version]

\* m is the migration that runner r's apply loop has reached.
IsCurrent(m, r) ==
  IsFirst(m.name, todo[r]) /\ m.version = call[r].files[m.name]

Init ==
  /\ scenario \in Scenarios
  /\ hasTable = FALSE
  /\ rows = EmptyLedger
  /\ history = <<>>
  /\ txn = [r \in Runners |-> Closed]
  /\ pc = [r \in Runners |-> "idle"]
  /\ call = [r \in Runners |-> NoCall]
  /\ todo = [r \in Runners |-> {}]
  /\ done = [r \in Runners |-> {}]
  /\ ooo = [r \in Runners |-> {}]
  /\ result = [r \in Runners |-> "none"]
  /\ warned = [r \in Runners |-> {}]
  /\ jumped = [r \in Runners |-> {}]
  /\ faults = 0

-----------------------------------------------------------------------------
\* Leaving a call.  The connection of a process that exits is closed, which
\* discards its transaction; a handle keeps the transaction `t` it is in.
Leave(r, t, outcome, warning) ==
  /\ pc' = [pc EXCEPT ![r] = "idle"]
  /\ result' = [result EXCEPT ![r] = outcome]
  /\ warned' = [warned EXCEPT ![r] = warning]
  /\ txn' = [txn EXCEPT ![r] = IF r \in Handles THEN t ELSE Closed]

Goto(r, point) ==
  /\ pc' = [pc EXCEPT ![r] = point]
  /\ UNCHANGED <<result, warned>>

SpendFault == faults < MaxFaults /\ faults' = faults + 1

\* A call starts: the directory is loaded, then the engine is entered.  Only
\* the command line resets, and it does so over a connection of its own.
Invoke(r, kind, files) ==
  /\ pc[r] = "idle"
  /\ r \in scenario.runners
  /\ kind \in scenario.kinds /\ files \in scenario.trees
  /\ r \in Handles => kind = "apply"
  /\ pc' = [pc EXCEPT ![r] = IF kind = "reset" THEN "reset" ELSE "ensure"]
  /\ call' = [call EXCEPT ![r] = [kind |-> kind, files |-> files]]
  /\ todo' = [todo EXCEPT ![r] = {}]
  /\ done' = [done EXCEPT ![r] = {}]
  /\ ooo' = [ooo EXCEPT ![r] = {}]
  /\ result' = [result EXCEPT ![r] = "none"]
  /\ warned' = [warned EXCEPT ![r] = {}]
  /\ jumped' = [jumped EXCEPT ![r] = {}]
  /\ UNCHANGED <<scenario, dbVars, txn, faults>>

\* The Postgres driver's reset drops and recreates the schema in one batch,
\* which is one transaction and waits for every transaction that has written.
ResetSchema(r) ==
  /\ pc[r] = "reset"
  /\ \A s \in Runners \ {r} : txn[s].body = NoMig
  /\ hasTable' = FALSE
  /\ rows' = EmptyLedger
  /\ history' = <<>>
  /\ Goto(r, "ensure")
  /\ UNCHANGED <<scenario, txn, call, todo, done, ooo, jumped, faults>>

EnsureTrackingTable(r) ==
  /\ pc[r] = "ensure"
  /\ hasTable' = TRUE
  /\ Goto(r, "read")
  /\ UNCHANGED <<scenario, rows, history, txn, call, todo, done, ooo, jumped, faults>>

\* read_applied, then plan: the gates refuse, status and --dry-run answer,
\* apply and reset enter the loop unless nothing is pending.
ReadAndPlan(r) ==
  LET files   == call[r].files
      pending == Pending(files, Seen(r))
      applies == call[r].kind \in {"apply", "reset"}
  IN /\ pc[r] = "read"
     /\ hasTable
     /\ \/ /\ Verdict(files, Seen(r)) # "planned"
           /\ Leave(r, txn[r], "refused", {})
           /\ UNCHANGED <<todo, done, ooo>>
        \/ /\ Verdict(files, Seen(r)) = "planned"
           /\ ~applies
           /\ done' = [done EXCEPT ![r] =
                         IF call[r].kind = "dryRun" THEN pending ELSE {}]
           /\ Leave(r, txn[r], "ok", {})
           /\ UNCHANGED <<todo, ooo>>
        \/ /\ Verdict(files, Seen(r)) = "planned"
           /\ applies
           /\ todo' = [todo EXCEPT ![r] = pending]
           /\ ooo' = [ooo EXCEPT ![r] = OutOfOrder(files, Seen(r))]
           /\ IF pending = {} THEN Leave(r, txn[r], "ok", {})
              ELSE Goto(r, "begin") /\ UNCHANGED txn
           /\ UNCHANGED done
     /\ UNCHANGED <<scenario, dbVars, call, jumped, faults>>

\* A query of a table a concurrent reset has dropped is an error.
ReadMissing(r) ==
  /\ pc[r] = "read"
  /\ ~hasTable
  /\ Leave(r, txn[r], "error", {})
  /\ UNCHANGED <<scenario, dbVars, call, todo, done, ooo, jumped, faults>>

\* BEGIN, refused inside a transaction (SQLite is the one backend where a
\* failed COMMIT leaves a transaction open).
BeginOne(r) ==
  /\ pc[r] = "begin"
  /\ IF txn[r].open
     THEN Leave(r, txn[r], "error", {})
     ELSE Goto(r, "body") /\ txn' = [txn EXCEPT ![r] = Begun]
  /\ UNCHANGED <<scenario, dbVars, call, todo, done, ooo, jumped, faults>>

\* (A slip: the INSERT of the tracking row is left out.)
RunBodyUnrecorded(r) ==
  /\ pc[r] = "body"
  /\ \E m \in Migration :
       IsCurrent(m, r) /\ txn' = [txn EXCEPT ![r].body = m]
  /\ Goto(r, "commit")
  /\ UNCHANGED <<scenario, dbVars, call, todo, done, ooo, jumped, faults>>

RunBody(r) ==
  /\ pc[r] = "body"
  /\ \E m \in Migration :
       IsCurrent(m, r) /\ txn' = [txn EXCEPT ![r].body = m]
  /\ Goto(r, "record")
  /\ UNCHANGED <<scenario, dbVars, call, todo, done, ooo, jumped, faults>>

\* (A slip: the tracking table is created without its primary key.)
RecordRowWithoutKey(r) ==
  /\ pc[r] = "record"
  /\ \E m \in Migration :
       IsCurrent(m, r) /\ txn' = [txn EXCEPT ![r].row = m]
  /\ Goto(r, "commit")
  /\ UNCHANGED <<scenario, dbVars, call, todo, done, ooo, jumped, faults>>

\* INSERT of the tracking row.  The primary key makes it wait for another
\* transaction that has inserted the same name, and refuses a recorded one.
RecordRow(r) ==
  /\ pc[r] = "record"
  /\ \E m \in Migration :
       /\ IsCurrent(m, r)
       /\ \A s \in Runners \ {r} : txn[s].row.name # m.name
       /\ IF hasTable /\ rows[m.name] = None
          THEN /\ txn' = [txn EXCEPT ![r].row = m]
               /\ Goto(r, "commit")
          ELSE Goto(r, "rollback") /\ UNCHANGED txn
  /\ UNCHANGED <<scenario, dbVars, call, todo, done, ooo, jumped, faults>>

\* (A slip: the body error is returned without the ROLLBACK.)
RollbackSkipped(r) ==
  /\ pc[r] = "rollback"
  /\ Leave(r, txn[r], "error", {})
  /\ UNCHANGED <<scenario, dbVars, call, todo, done, ooo, jumped, faults>>

\* The best-effort ROLLBACK of apply_one, which then reports the body error.
\* Where it fails the connection is lost, and the server discards the
\* transaction.
Rollback(r) ==
  /\ pc[r] = "rollback"
  /\ Leave(r, Closed, "error", {})
  /\ UNCHANGED <<scenario, dbVars, call, todo, done, ooo, jumped, faults>>

\* What a commit of r's transaction does to the database.
Commits(r) ==
  /\ rows' = [rows EXCEPT ![txn[r].row.name] = txn[r].row.version]
  /\ history' = Append(history, txn[r].body)
  /\ jumped' = [jumped EXCEPT ![r] = @ \cup
       {n \in {txn[r].row.name} : \E last \in Recorded(rows) : n < last}]
  /\ UNCHANGED hasTable

\* COMMIT succeeds: the loop goes on, or the call returns its report.  reset
\* passes on the names only and Connection.migrate their number only: of the
\* callers of apply, the command line alone reports the out_of_order list.
CommitOne(r) ==
  LET n == txn[r].row.name
      after == todo[r] \ {n}
  IN /\ pc[r] = "commit"
     /\ Commits(r)
     /\ done' = [done EXCEPT ![r] = @ \cup {n}]
     /\ todo' = [todo EXCEPT ![r] = after]
     /\ IF after # {}
        THEN Goto(r, "begin") /\ txn' = [txn EXCEPT ![r] = Closed]
        ELSE Leave(r, Closed, "ok",
                   IF call[r].kind = "apply" /\ r \notin Handles
                   THEN ooo[r] ELSE {})
     /\ UNCHANGED <<scenario, call, ooo, faults>>

\* COMMIT fails, which apply_one reports without a ROLLBACK.  The database
\* undid the transaction, or left it open on the connection, or committed it
\* and the answer was lost with the connection.
CommitFails(r, left) ==
  /\ pc[r] = "commit"
  /\ SpendFault
  /\ IF left = "unknown" THEN Commits(r) ELSE UNCHANGED <<dbVars, jumped>>
  /\ Leave(r, IF left = "open" THEN txn[r] ELSE Closed, "error", {})
  /\ UNCHANGED <<scenario, call, todo, done, ooo>>

\* Any other driver call fails (before a BEGIN also: the body does not
\* lower).  Inside the transaction this leads to the ROLLBACK.
DriverFails(r) ==
  /\ SpendFault
  /\ \/ /\ pc[r] \in {"reset", "ensure", "read", "begin"}
        /\ Leave(r, txn[r], "error", {})
     \/ /\ pc[r] \in {"body", "record"}
        /\ Goto(r, "rollback")
        /\ UNCHANGED txn
  /\ UNCHANGED <<scenario, dbVars, call, todo, done, ooo, jumped>>

\* The process dies; the server discards the transaction of its connection.
Crash(r) ==
  /\ pc[r] # "idle" \/ txn[r].open
  /\ SpendFault
  /\ pc' = [pc EXCEPT ![r] = "idle"]
  /\ result' = [result EXCEPT ![r] = "crashed"]
  /\ txn' = [txn EXCEPT ![r] = Closed]
  /\ UNCHANGED <<scenario, dbVars, call, todo, done, ooo, warned, jumped>>

-----------------------------------------------------------------------------
Step(r) ==
  \/ ResetSchema(r) \/ EnsureTrackingTable(r) \/ ReadAndPlan(r) \/ ReadMissing(r)
  \/ BeginOne(r) \/ RunBody(r) \/ RecordRow(r) \/ Rollback(r) \/ CommitOne(r)

Fault(r) ==
  \/ \E left \in CommitFaults : CommitFails(r, left)
  \/ DriverFails(r)
  \/ Crash(r)

Next == \E r \in Runners :
          \/ \E kind \in AllKinds, files \in scenario.trees : Invoke(r, kind, files)
          \/ Step(r)
          \/ Fault(r)

Spec == Init /\ [][Next]_vars

\* A call that is running makes its next driver call, and a deployment that
\* applies its migrations is started again and again.
RetrySpec ==
  /\ Spec
  /\ \A r \in Runners : WF_vars(Step(r))
  /\ \A r \in Runners : WF_vars(\E files \in scenario.trees :
                                  Invoke(r, "apply", files))

-----------------------------------------------------------------------------
\* The values each variable of the engine and of the database may have.
TypeOK ==
  /\ scenario \in Scenarios
  /\ hasTable \in BOOLEAN
  /\ rows \in Ledger
  /\ history \in Seq(Migration)
  /\ txn \in [Runners -> Txn]
  /\ pc \in [Runners -> Points]
  /\ call \in [Runners -> [kind : AllKinds, files : Tree]]
  /\ todo \in [Runners -> SUBSET Names]
  /\ done \in [Runners -> SUBSET Names]
  /\ ooo \in [Runners -> SUBSET Names]
  /\ result \in [Runners -> Results]
  /\ warned \in [Runners -> SUBSET Names]
  /\ jumped \in [Runners -> SUBSET Names]
  /\ faults \in 0..MaxFaults

\* Why a commit is safe: a transaction records the very body it ran, for a
\* name that is not recorded and that no other transaction records, and a
\* process holds a transaction only inside its apply loop.
TransactionDiscipline ==
  /\ \A r \in Runners :
       /\ ~txn[r].open => txn[r] = Closed
       /\ txn[r].row # NoMig =>
            /\ txn[r].row = txn[r].body
            /\ rows[txn[r].row.name] = None
            /\ hasTable
       /\ pc[r] = "commit" => txn[r].row # NoMig
       /\ pc[r] = "record" =>
            txn[r].open /\ txn[r].row = NoMig /\ IsCurrent(txn[r].body, r)
       /\ pc[r] = "body" => txn[r] = Begun
       /\ pc[r] \in {"idle", "reset", "ensure", "read", "begin"} =>
            r \in Handles \/ txn[r] = Closed
       /\ pc[r] = "reset" => r \notin Handles
  /\ \A r, s \in Runners :
       r # s /\ txn[r].row # NoMig => txn[r].row.name # txn[s].row.name

\* What the engine promises about the database (MigrationHistory): through
\* any interleaving of runners, lost answers, crashes, retries and resets, a
\* body takes effect only together with its record, and only once.
\* (apply_one: body and tracking row in one transaction; the primary key.)
History == INSTANCE MigrationHistory
             WITH Names <- Names, Versions <- Versions, None <- None,
                  rows <- rows, history <- history

EachMigrationAtomic == History!Spec

\* A name is recorded exactly when its body took effect, with the version
\* that ran, and no body takes effect twice: neither a retry nor a second
\* runner repeats one (the promise of apply_one).
RecordedExactlyWhatRan == History!RecordedExactlyWhatRan

\* Without a reset in the mix, a commit never overtakes an earlier file of
\* the committing runner's own checkout, however stale its plan is.
\* (apply: ascending order, stop at the first failure.)
EarlierFilesFirst ==
  [][\A r \in Runners :
       /\ "reset" \notin scenario.kinds
       /\ history' # history /\ txn[r].row # NoMig /\ txn'[r] # txn[r]
       => \A m \in Files(call[r].files) :
            m < txn[r].row.name => rows[m] # None]_vars

\* "Up to date" is the truth: when apply answers Ok, every file of the
\* checkout is durably recorded with the checksum of that checkout, unless
\* somebody resets the database.  (For `noeta migrate`; see the next one.)
OkMeansDurable ==
  "reset" \notin scenario.kinds =>
    \A r \in Runners \ Handles : result[r] = "ok" /\ call[r].kind = "apply" =>
      \A n \in Files(call[r].files) : rows[n] = call[r].files[n]

\* The same of Connection.migrate, which keeps its connection ("0 = already
\* up to date", conn.rs:292).
UpToDateMeansDurable ==
  "reset" \notin scenario.kinds =>
    \A r \in Handles : result[r] = "ok" /\ call[r].kind = "apply" =>
      \A n \in Files(call[r].files) : rows[n] = call[r].files[n]

\* A call of the only runner that went through tells the operator of every
\* migration it committed behind a recorded one (Applied.out_of_order).
OkReportsOutOfOrder ==
  \A r \in Runners : scenario.runners = {r} /\ result[r] = "ok" =>
    warned[r] = jumped[r]

\* A call that returned an error left no transaction open on its connection.
\* (apply_one: "Any failure rolls back (best-effort)".)
FailureRollsBack ==
  \A r \in Runners : pc[r] = "idle" => ~txn[r].open

\* Failures and deaths cost retries, never progress: once they stop, every
\* file of the (one) checkout is recorded for good.
RetriesConverge ==
  <>[](\A files \in scenario.trees, n \in Names : files[n] # None => rows[n] = files[n])
=============================================================================
