-------------------------- MODULE Migrate_proofs --------------------------
(***************************************************************************)
(* Theorems about Migrate, for every set of runners, handles, checkouts    *)
(* and versions, every number of migrations and every bound on faults.     *)
(***************************************************************************)
EXTENDS Migrate, TLAPS

\* The inductive invariant: type correctness needs the transaction
\* discipline, since a commit records what its transaction holds.
IInv == TypeOK /\ TransactionDiscipline

\* The values that the initial state and the actions write.
LEMMA Constants ==
  /\ EmptyLedger \in Ledger
  /\ NoCall \in [kind : AllKinds, files : Tree]
  /\ Closed \in Txn /\ Begun \in Txn
  /\ <<>> \in Seq(Migration)
<1>1. EmptyLedger \in Ledger /\ EmptyLedger \in Tree
  BY DEF EmptyLedger, Ledger, Tree
<1>2. NoCall \in [kind : AllKinds, files : Tree]
  BY <1>1 DEF NoCall, AllKinds
<1>3. Closed \in Txn /\ Begun \in Txn
  BY DEF Closed, Begun, Txn
<1>4. <<>> \in Seq(Migration)
  OBVIOUS
<1>5. QED BY <1>1, <1>2, <1>3, <1>4

\* "No migration" is not a migration.
LEMMA NoMigIsNone == NoMig \notin Migration
BY PlanAssumption DEF NoMig, Migration, Names

\* Leaving a call keeps the types of what it writes.
LEMMA LeaveTypes ==
  ASSUME TypeOK, NEW r \in Runners, NEW t \in Txn, NEW outcome \in Results,
         NEW warning \in SUBSET Names, Leave(r, t, outcome, warning)
  PROVE  /\ pc' \in [Runners -> Points]
         /\ result' \in [Runners -> Results]
         /\ warned' \in [Runners -> SUBSET Names]
         /\ txn' \in [Runners -> Txn]
BY Constants DEF TypeOK, Leave, Points

\* Going on to another driver call keeps the types of what it writes.
LEMMA GotoTypes ==
  ASSUME TypeOK, NEW r \in Runners, NEW point \in Points, Goto(r, point)
  PROVE  /\ pc' \in [Runners -> Points]
         /\ result' \in [Runners -> Results]
         /\ warned' \in [Runners -> SUBSET Names]
BY DEF TypeOK, Goto

\* Spending a fault stays within the bound.
LEMMA FaultTypes ==
  ASSUME TypeOK, SpendFault
  PROVE  faults' \in 0..MaxFaults
BY MigrateAssumption DEF TypeOK, SpendFault

\* The initial state satisfies the invariant.
LEMMA InitIInv == Init => IInv
<1>1. Init => TypeOK
  <2> SUFFICES ASSUME Init PROVE TypeOK
    OBVIOUS
  <2>1. 0 \in 0..MaxFaults
    BY MigrateAssumption
  <2>2. "idle" \in Points /\ "none" \in Results
    BY DEF Points, Results
  <2>3. hasTable \in BOOLEAN /\ history \in Seq(Migration)
    BY Constants DEF Init
  <2>4. /\ txn \in [Runners -> Txn] /\ pc \in [Runners -> Points]
        /\ call \in [Runners -> [kind : AllKinds, files : Tree]]
        /\ result \in [Runners -> Results]
    BY <2>2, Constants DEF Init
  <2>5. QED
    BY <2>1, <2>3, <2>4, Constants DEF Init, TypeOK
<1>2. Init => TransactionDiscipline
  BY DEF Init, TransactionDiscipline, Closed, NoMig
<1>3. QED BY <1>1, <1>2 DEF IInv

\* Every step but a commit keeps the variables in their types.
LEMMA CallsKeepTypes ==
  ASSUME TypeOK, NEW r \in Runners,
         \/ \E kind \in AllKinds, files \in scenario.trees : Invoke(r, kind, files)
         \/ ResetSchema(r) \/ EnsureTrackingTable(r) \/ ReadAndPlan(r)
         \/ ReadMissing(r) \/ BeginOne(r) \/ RunBody(r) \/ RecordRow(r)
         \/ Rollback(r) \/ DriverFails(r) \/ Crash(r)
  PROVE  TypeOK'
<1> USE DEF dbVars
<1>0. /\ {"idle", "reset", "ensure", "read", "begin", "body", "record", "commit",
          "rollback"} \subseteq Points
      /\ {"ok", "error", "refused", "crashed", "none"} \subseteq Results
      /\ {} \in SUBSET Names
      /\ txn[r] \in Txn
  BY DEF Points, Results, TypeOK
<1>1. ASSUME NEW kind \in AllKinds, NEW files \in scenario.trees, Invoke(r, kind, files)
      PROVE  TypeOK'
  <2>1. files \in Tree
    BY <1>1, MigrateAssumption DEF TypeOK, Scenario
  <2>2. QED
    BY <1>1, <2>1 DEF Invoke, AllKinds, Points, Results, TypeOK
<1>2. CASE ResetSchema(r)
  <2>1. Goto(r, "ensure")
    BY <1>2 DEF ResetSchema
  <2>2. hasTable' \in BOOLEAN /\ history' \in Seq(Migration)
    BY <1>2, Constants DEF ResetSchema
  <2>3. rows' \in Ledger
    BY <1>2, Constants DEF ResetSchema
  <2>4. QED
    BY <1>0, <1>2, <2>1, <2>2, <2>3, GotoTypes DEF ResetSchema, TypeOK
<1>3. CASE EnsureTrackingTable(r)
  BY <1>0, <1>3, GotoTypes DEF EnsureTrackingTable, TypeOK
<1>4. CASE ReadAndPlan(r)
  <2> DEFINE pending == Pending(call[r].files, Seen(r))
             overtaking == OutOfOrder(call[r].files, Seen(r))
  <2>1. pending \in SUBSET Names /\ overtaking \in SUBSET Names
    BY DEF Pending, OutOfOrder, Files
  <2>2. UNCHANGED <<scenario, dbVars, call, jumped, faults>>
    BY <1>4 DEF ReadAndPlan
  <2> HIDE DEF pending, overtaking
  <2>3. CASE /\ Leave(r, txn[r], "refused", {})
             /\ UNCHANGED <<todo, done, ooo>>
    BY <1>0, <2>2, <2>3, LeaveTypes DEF TypeOK
  <2>4. CASE /\ done' = [done EXCEPT ![r] =
                           IF call[r].kind = "dryRun" THEN pending ELSE {}]
             /\ Leave(r, txn[r], "ok", {})
             /\ UNCHANGED <<todo, ooo>>
    BY <1>0, <2>1, <2>2, <2>4, LeaveTypes DEF TypeOK
  <2>5. CASE /\ todo' = [todo EXCEPT ![r] = pending]
             /\ ooo' = [ooo EXCEPT ![r] = overtaking]
             /\ IF pending = {} THEN Leave(r, txn[r], "ok", {})
                ELSE Goto(r, "begin") /\ UNCHANGED txn
             /\ UNCHANGED done
    <3>1. /\ pc' \in [Runners -> Points] /\ result' \in [Runners -> Results]
          /\ warned' \in [Runners -> SUBSET Names] /\ txn' \in [Runners -> Txn]
      BY <1>0, <2>5, LeaveTypes, GotoTypes DEF TypeOK
    <3>2. QED
      BY <2>1, <2>2, <2>5, <3>1 DEF TypeOK
  <2>6. QED
    BY <1>4, <2>3, <2>4, <2>5 DEF ReadAndPlan, pending, overtaking
<1>5. CASE ReadMissing(r)
  BY <1>0, <1>5, LeaveTypes DEF ReadMissing, TypeOK
<1>6. CASE BeginOne(r)
  BY <1>0, <1>6, Constants, LeaveTypes, GotoTypes DEF BeginOne, TypeOK
<1>7. CASE RunBody(r)
  <2>1. Goto(r, "record")
    BY <1>7 DEF RunBody
  <2>2. PICK m \in Migration : txn' = [txn EXCEPT ![r].body = m]
    BY <1>7 DEF RunBody
  <2>3. [txn[r] EXCEPT !.body = m] \in Txn
    BY <1>0 DEF Txn
  <2>4. txn' \in [Runners -> Txn]
    BY <2>2, <2>3 DEF TypeOK
  <2>5. QED
    BY <1>0, <1>7, <2>1, <2>4, GotoTypes DEF RunBody, TypeOK
<1>8. CASE RecordRow(r)
  <2>1. Goto(r, "commit") \/ Goto(r, "rollback")
    BY <1>8 DEF RecordRow
  <2>2. PICK m \in Migration :
          txn' = [txn EXCEPT ![r].row = m] \/ UNCHANGED txn
    BY <1>8 DEF RecordRow
  <2>3. [txn[r] EXCEPT !.row = m] \in Txn
    BY <1>0 DEF Txn
  <2>4. txn' \in [Runners -> Txn]
    BY <2>2, <2>3 DEF TypeOK
  <2>5. QED
    BY <1>0, <1>8, <2>1, <2>4, GotoTypes DEF RecordRow, TypeOK
<1>9. CASE Rollback(r)
  BY <1>0, <1>9, Constants, LeaveTypes DEF Rollback, TypeOK
<1>10. CASE DriverFails(r)
  BY <1>0, <1>10, LeaveTypes, GotoTypes, FaultTypes DEF DriverFails, TypeOK
<1>11. CASE Crash(r)
  BY <1>0, <1>11, Constants, FaultTypes DEF Crash, TypeOK
<1>12. QED
  BY <1>1, <1>2, <1>3, <1>4, <1>5, <1>6, <1>7, <1>8, <1>9, <1>10, <1>11

\* What a transaction that commits holds: one migration, run and recorded.
LEMMA CommitHolds ==
  ASSUME IInv, NEW r \in Runners, pc[r] = "commit"
  PROVE  /\ txn[r].row \in Migration
         /\ txn[r].body = txn[r].row
         /\ rows[txn[r].row.name] = None
BY DEF IInv, TypeOK, TransactionDiscipline, Txn

\* A commit writes a migration, so it keeps the variables in their types.
LEMMA CommitsKeepTypes ==
  ASSUME IInv, NEW r \in Runners,
         CommitOne(r) \/ \E left \in CommitFaults : CommitFails(r, left)
  PROVE  TypeOK'
<1> USE DEF dbVars
<1>0. /\ pc[r] = "commit" /\ TypeOK
      /\ {"begin", "idle"} \subseteq Points /\ {"ok", "error"} \subseteq Results
      /\ {} \in SUBSET Names /\ ooo[r] \in SUBSET Names
      /\ txn[r] \in Txn
  BY DEF CommitOne, CommitFails, IInv, TypeOK, Points, Results
<1>1. txn[r].row \in Migration /\ txn[r].body = txn[r].row
  BY <1>0, CommitHolds
<1>2. ASSUME Commits(r)
      PROVE  /\ rows' \in Ledger /\ history' \in Seq(Migration)
             /\ jumped' \in [Runners -> SUBSET Names] /\ hasTable' \in BOOLEAN
  BY <1>0, <1>1, <1>2 DEF Commits, Ledger, Migration, TypeOK
<1>3. CASE CommitOne(r)
  <2>1. /\ pc' \in [Runners -> Points] /\ result' \in [Runners -> Results]
        /\ warned' \in [Runners -> SUBSET Names] /\ txn' \in [Runners -> Txn]
    <3>1. CASE Goto(r, "begin") /\ txn' = [txn EXCEPT ![r] = Closed]
      BY <1>0, <3>1, Constants, GotoTypes DEF TypeOK
    <3>2. ASSUME NEW warning \in SUBSET Names, Leave(r, Closed, "ok", warning)
          PROVE  /\ pc' \in [Runners -> Points] /\ result' \in [Runners -> Results]
                 /\ warned' \in [Runners -> SUBSET Names] /\ txn' \in [Runners -> Txn]
      BY <1>0, <3>2, Constants, LeaveTypes
    <3>3. QED
      BY <1>0, <1>3, <3>1, <3>2 DEF CommitOne
  <2>2. done' \in [Runners -> SUBSET Names] /\ todo' \in [Runners -> SUBSET Names]
    BY <1>0, <1>1, <1>3 DEF CommitOne, Migration, TypeOK
  <2>3. Commits(r) /\ UNCHANGED <<scenario, call, ooo, faults>>
    BY <1>3 DEF CommitOne
  <2>4. QED
    BY <1>0, <1>2, <2>1, <2>2, <2>3 DEF TypeOK
<1>4. ASSUME NEW left \in CommitFaults, CommitFails(r, left) PROVE TypeOK'
  <2>1. Leave(r, txn[r], "error", {}) \/ Leave(r, Closed, "error", {})
    BY <1>4 DEF CommitFails
  <2>2. /\ pc' \in [Runners -> Points] /\ result' \in [Runners -> Results]
        /\ warned' \in [Runners -> SUBSET Names] /\ txn' \in [Runners -> Txn]
    BY <1>0, <2>1, Constants, LeaveTypes
  <2>3. /\ rows' \in Ledger /\ history' \in Seq(Migration)
        /\ jumped' \in [Runners -> SUBSET Names] /\ hasTable' \in BOOLEAN
    BY <1>0, <1>2, <1>4 DEF CommitFails, TypeOK
  <2>4. QED
    BY <1>0, <1>4, <2>2, <2>3, FaultTypes DEF CommitFails, TypeOK
<1>5. QED BY <1>3, <1>4

\* The discipline of one transaction, and of two.
Disciplined(r) ==
  /\ ~txn[r].open => txn[r] = Closed
  /\ txn[r].row # NoMig =>
       txn[r].row = txn[r].body /\ rows[txn[r].row.name] = None /\ hasTable
  /\ pc[r] = "commit" => txn[r].row # NoMig
  /\ pc[r] = "record" =>
       txn[r].open /\ txn[r].row = NoMig /\ IsCurrent(txn[r].body, r)
  /\ pc[r] = "body" => txn[r] = Begun
  /\ pc[r] \in {"idle", "reset", "ensure", "read", "begin"} =>
       r \in Handles \/ txn[r] = Closed
  /\ pc[r] = "reset" => r \notin Handles

Apart(r, s) == txn[r].row # NoMig => txn[r].row.name # txn[s].row.name

\* The discipline is one part about each runner and one about each pair.
LEMMA DisciplineParts ==
  TransactionDiscipline <=>
    /\ \A r \in Runners : Disciplined(r)
    /\ \A r, s \in Runners : r # s => Apart(r, s)
BY DEF TransactionDiscipline, Disciplined, Apart

\* A step of r leaves what the discipline says of another runner as it was.
LEMMA OthersStayDisciplined ==
  ASSUME TypeOK, NEW s \in Runners, Disciplined(s),
         UNCHANGED <<txn[s], pc[s], todo[s], call[s]>>,
         txn[s].row # NoMig =>
           hasTable' /\ rows'[txn[s].row.name] = rows[txn[s].row.name]
  PROVE  Disciplined(s)'
BY DEF Disciplined, IsCurrent

\* Steps that leave the database alone and keep, empty or fill r's own
\* transaction without recording: the discipline is a matter of r alone.
LEMMA LocalStepsDisciplined ==
  ASSUME IInv, TypeOK', NEW r \in Runners,
         UNCHANGED rows, hasTable => hasTable',
         \A s \in Runners \ {r} : UNCHANGED <<txn[s], pc[s], todo[s], call[s]>>,
         txn'[r].row = NoMig \/ txn'[r].row = txn[r].row,
         Disciplined(r)'
  PROVE  TransactionDiscipline'
<1>1. \A s \in Runners : Disciplined(s)'
  BY OthersStayDisciplined, DisciplineParts DEF IInv, TypeOK, Disciplined
<1>2. ASSUME NEW q \in Runners, NEW s \in Runners, q # s PROVE Apart(q, s)'
  <2>1. Apart(q, s) /\ Apart(s, q)
    BY <1>2, DisciplineParts DEF IInv
  <2>2. \A n \in {q, s} : txn'[n].row = NoMig \/ txn'[n].row = txn[n].row
    BY <1>2
  <2>3. \A n \in {q, s} : txn'[n].row \in Migration \/ txn'[n].row = NoMig
    BY DEF TypeOK, Txn
  <2>4. \A m \in Migration : m.name # NoMig.name
    BY PlanAssumption DEF Migration, NoMig, Names
  <2>5. QED
    BY <2>1, <2>2, <2>3, <2>4 DEF Apart
<1>3. QED BY <1>1, <1>2 DEF TransactionDiscipline, Disciplined, Apart

\* Every step but a commit, a record and a wipe is such a local step.
LEMMA LocalCallsDisciplined ==
  ASSUME IInv, TypeOK', NEW r \in Runners,
         \/ \E kind \in AllKinds, files \in scenario.trees : Invoke(r, kind, files)
         \/ EnsureTrackingTable(r) \/ ReadAndPlan(r) \/ ReadMissing(r)
         \/ BeginOne(r) \/ RunBody(r) \/ Rollback(r) \/ DriverFails(r) \/ Crash(r)
  PROVE  TransactionDiscipline'
<1> USE DEF dbVars
<1>0. /\ Disciplined(r) /\ TypeOK
      /\ Closed.row = NoMig /\ Closed.open = FALSE /\ Begun.row = NoMig
      /\ Begun.open = TRUE
  BY DisciplineParts DEF IInv, Closed, Begun
<1>1. ASSUME NEW kind \in AllKinds, NEW files \in scenario.trees, Invoke(r, kind, files)
      PROVE  TransactionDiscipline'
  <2>1. Disciplined(r)'
    BY <1>0, <1>1 DEF Invoke, Disciplined, TypeOK
  <2>2. QED
    BY <1>1, <2>1, LocalStepsDisciplined DEF Invoke, IInv, TypeOK
<1>2. CASE EnsureTrackingTable(r)
  <2>1. Disciplined(r)'
    BY <1>0, <1>2 DEF EnsureTrackingTable, Goto, Disciplined, TypeOK
  <2>2. QED
    BY <1>2, <2>1, LocalStepsDisciplined DEF EnsureTrackingTable, Goto, IInv, TypeOK
<1>3. CASE ReadAndPlan(r)
  <2>1. /\ UNCHANGED <<dbVars, call>> /\ pc[r] = "read"
        /\ pc' = [pc EXCEPT ![r] = "idle"] \/ pc' = [pc EXCEPT ![r] = "begin"]
        /\ txn' = txn \/ txn' = [txn EXCEPT ![r] = IF r \in Handles THEN txn[r] ELSE Closed]
        /\ \A s \in Runners \ {r} : UNCHANGED todo[s]
    BY <1>0, <1>3 DEF ReadAndPlan, Goto, Leave, TypeOK
  <2>2. Disciplined(r)'
    BY <1>0, <2>1 DEF Disciplined, TypeOK
  <2>3. QED
    BY <1>0, <2>1, <2>2, LocalStepsDisciplined DEF TypeOK
<1>4. CASE ReadMissing(r)
  <2>1. Disciplined(r)'
    BY <1>0, <1>4 DEF ReadMissing, Leave, Disciplined, TypeOK
  <2>2. QED
    BY <1>0, <1>4, <2>1, LocalStepsDisciplined DEF ReadMissing, Leave, TypeOK
<1>5. CASE BeginOne(r)
  <2>1. Disciplined(r)'
    BY <1>0, <1>5 DEF BeginOne, Goto, Leave, Disciplined, TypeOK
  <2>2. QED
    BY <1>0, <1>5, <2>1, LocalStepsDisciplined DEF BeginOne, Goto, Leave, TypeOK
<1>6. CASE RunBody(r)
  <2>1. PICK m \in Migration : IsCurrent(m, r) /\ txn' = [txn EXCEPT ![r].body = m]
    BY <1>6 DEF RunBody
  <2>2. txn[r] = Begun /\ txn'[r].row = NoMig /\ txn'[r].open /\ txn'[r].body = m
    BY <1>0, <1>6, <2>1 DEF RunBody, Disciplined, TypeOK, Txn
  <2>3. Disciplined(r)'
    BY <1>0, <1>6, <2>1, <2>2 DEF RunBody, Goto, Disciplined, IsCurrent, TypeOK
  <2>4. QED
    BY <1>0, <1>6, <2>1, <2>2, <2>3, LocalStepsDisciplined DEF RunBody, Goto, TypeOK
<1>7. CASE Rollback(r)
  <2>1. Disciplined(r)'
    BY <1>0, <1>7 DEF Rollback, Leave, Disciplined, TypeOK
  <2>2. QED
    BY <1>0, <1>7, <2>1, LocalStepsDisciplined DEF Rollback, Leave, TypeOK
<1>8. CASE DriverFails(r)
  <2>1. Disciplined(r)'
    BY <1>0, <1>8 DEF DriverFails, Goto, Leave, Disciplined, TypeOK
  <2>2. QED
    BY <1>0, <1>8, <2>1, LocalStepsDisciplined DEF DriverFails, Goto, Leave, TypeOK
<1>9. CASE Crash(r)
  <2>1. Disciplined(r)'
    BY <1>0, <1>9 DEF Crash, Disciplined, TypeOK
  <2>2. QED
    BY <1>0, <1>9, <2>1, LocalStepsDisciplined DEF Crash, TypeOK
<1>10. QED
  BY <1>1, <1>2, <1>3, <1>4, <1>5, <1>6, <1>7, <1>8, <1>9

\* A wipe finds no transaction that has written anything.
LEMMA WipeDisciplined ==
  ASSUME IInv, TypeOK', NEW r \in Runners, ResetSchema(r)
  PROVE  TransactionDiscipline'
<1>1. \A s \in Runners : Disciplined(s) /\ txn[s] \in Txn
  BY DisciplineParts DEF IInv, TypeOK
<1>2. txn[r] = Closed
  BY <1>1 DEF ResetSchema, Disciplined
<1>3. \A s \in Runners : txn[s].row = NoMig
  BY <1>1, <1>2 DEF ResetSchema, Disciplined, Closed
<1>4. ASSUME NEW s \in Runners PROVE Disciplined(s)'
  <2>1. CASE s = r
    BY <1>2, <2>1 DEF ResetSchema, Goto, Disciplined, Closed, IInv, TypeOK
  <2>2. CASE s # r
    BY <1>1, <1>3, <2>2 DEF ResetSchema, Goto, Disciplined, IsCurrent, IInv, TypeOK
  <2>3. QED BY <2>1, <2>2
<1>5. \A q, s \in Runners : Apart(q, s)'
  BY <1>3 DEF Apart, ResetSchema
<1>6. QED BY <1>4, <1>5 DEF TransactionDiscipline, Disciplined, Apart

\* A row is inserted for a name that is neither recorded nor held elsewhere.
LEMMA RecordDisciplined ==
  ASSUME IInv, TypeOK', NEW r \in Runners, RecordRow(r)
  PROVE  TransactionDiscipline'
<1> USE DEF dbVars
<1>0. /\ \A s \in Runners : Disciplined(s) /\ txn[s] \in Txn
      /\ TypeOK /\ pc[r] = "record"
  BY DisciplineParts DEF IInv, TypeOK, RecordRow
<1>1. PICK m \in Migration :
        /\ IsCurrent(m, r)
        /\ \A s \in Runners \ {r} : txn[s].row.name # m.name
        /\ IF hasTable /\ rows[m.name] = None
           THEN txn' = [txn EXCEPT ![r].row = m] /\ Goto(r, "commit")
           ELSE Goto(r, "rollback") /\ UNCHANGED txn
  BY DEF RecordRow
<1>2. UNCHANGED <<dbVars, call, todo>>
  BY DEF RecordRow
<1>3. /\ txn[r].open /\ txn[r].row = NoMig /\ IsCurrent(txn[r].body, r)
  BY <1>0 DEF Disciplined
<1>4. CASE ~(hasTable /\ rows[m.name] = None)
  <2>1. Disciplined(r)'
    BY <1>0, <1>1, <1>2, <1>3, <1>4 DEF Goto, Disciplined, TypeOK
  <2>2. QED
    BY <1>0, <1>1, <1>2, <1>4, <2>1, LocalStepsDisciplined DEF Goto, TypeOK
<1>5. CASE hasTable /\ rows[m.name] = None
  <2>1. txn[r].body = m
    <3>1. txn[r].body.name = m.name
      <4>1. m.name \in Names /\ m.name \in todo[r] /\ txn[r].body.name \in todo[r]
        BY <1>1, <1>3 DEF IsCurrent, IsFirst, Migration
      <4>2. txn[r].body.name \in Names
        BY <1>0, <4>1 DEF TypeOK
      <4>3. m.name <= txn[r].body.name /\ txn[r].body.name <= m.name
        BY <1>1, <1>3, <4>1 DEF IsCurrent, IsFirst
      <4>4. QED
        BY <4>1, <4>2, <4>3, PlanAssumption DEF Names
    <3>2. txn[r].body \in Migration
      BY <1>0, <1>1, <3>1, NoMigIsNone, PlanAssumption DEF Txn, Migration, NoMig, Names
    <3>3. QED
      BY <1>1, <1>3, <3>1, <3>2 DEF IsCurrent, Migration
  <2>2. /\ txn'[r].row = m /\ txn'[r].body = m /\ txn'[r].open = txn[r].open
        /\ pc'[r] = "commit"
        /\ \A s \in Runners \ {r} : UNCHANGED <<txn[s], pc[s]>>
    BY <1>0, <1>1, <1>5, <2>1 DEF Goto, TypeOK, Txn
  <2>3. m # NoMig
    BY NoMigIsNone
  <2>4. Disciplined(r)'
    BY <1>2, <1>3, <1>5, <2>2, <2>3 DEF Disciplined
  <2>5. ASSUME NEW s \in Runners, s # r PROVE Disciplined(s)'
    BY <1>0, <1>2, <2>2, <2>5 DEF Disciplined, IsCurrent
  <2>6. ASSUME NEW q \in Runners, NEW s \in Runners, q # s PROVE Apart(q, s)'
    <3>1. Apart(q, s)
      BY <2>6, DisciplineParts DEF IInv
    <3>2. \A n \in Runners \ {r} : txn[n].row.name # m.name
      BY <1>1
    <3>3. QED
      BY <2>2, <2>6, <3>1, <3>2 DEF Apart
  <2>7. QED BY <2>4, <2>5, <2>6 DEF TransactionDiscipline, Disciplined, Apart
<1>6. QED BY <1>4, <1>5

\* A commit records a name that no other open transaction holds.
LEMMA CommitDisciplined ==
  ASSUME IInv, TypeOK', NEW r \in Runners,
         CommitOne(r) \/ \E left \in CommitFaults : CommitFails(r, left)
  PROVE  TransactionDiscipline'
<1> USE DEF dbVars
<1>0. /\ \A s \in Runners : Disciplined(s) /\ txn[s] \in Txn
      /\ TypeOK /\ pc[r] = "commit"
      /\ Closed.row = NoMig /\ Closed.open = FALSE
  BY DisciplineParts DEF IInv, TypeOK, CommitOne, CommitFails, Closed
<1>1. /\ txn[r].row \in Migration /\ txn[r].row # NoMig
  BY <1>0, CommitHolds, NoMigIsNone
<1>2. /\ \A s \in Runners \ {r} : UNCHANGED <<txn[s], pc[s], todo[s], call[s]>>
      /\ UNCHANGED <<hasTable, call>>
      /\ pc'[r] \in {"idle", "begin"}
      /\ txn'[r] = Closed \/ (txn'[r] = txn[r] /\ r \in Handles /\ UNCHANGED rows)
      /\ UNCHANGED rows \/ rows' = [rows EXCEPT ![txn[r].row.name] = txn[r].row.version]
  <2>1. CASE CommitOne(r)
    BY <1>0, <2>1 DEF CommitOne, Commits, Goto, Leave, TypeOK
  <2>2. ASSUME NEW left \in CommitFaults, CommitFails(r, left)
        PROVE  /\ \A s \in Runners \ {r} : UNCHANGED <<txn[s], pc[s], todo[s], call[s]>>
               /\ UNCHANGED <<hasTable, call>>
               /\ pc'[r] \in {"idle", "begin"}
               /\ txn'[r] = Closed \/ (txn'[r] = txn[r] /\ r \in Handles /\ UNCHANGED rows)
               /\ UNCHANGED rows \/ rows' = [rows EXCEPT ![txn[r].row.name] = txn[r].row.version]
    BY <1>0, <2>2 DEF CommitFails, Commits, Leave, TypeOK
  <2>3. QED BY <2>1, <2>2
<1>3. Disciplined(r)'
  BY <1>0, <1>2 DEF Disciplined, TypeOK
<1>4. ASSUME NEW s \in Runners, s # r PROVE Disciplined(s)'
  <2>1. Apart(r, s)
    BY <1>4, DisciplineParts DEF IInv
  <2>2. txn[s].row # NoMig => rows'[txn[s].row.name] = rows[txn[s].row.name]
    BY <1>0, <1>1, <1>2, <2>1 DEF Apart, TypeOK, Ledger, Txn, Migration
  <2>3. txn[s].row # NoMig => hasTable'
    BY <1>0, <1>2 DEF Disciplined
  <2>4. QED
    BY <1>0, <1>2, <1>4, <2>2, <2>3, OthersStayDisciplined
<1>5. ASSUME NEW q \in Runners, NEW s \in Runners, q # s PROVE Apart(q, s)'
  <2>1. Apart(q, s) /\ Apart(s, q)
    BY <1>5, DisciplineParts DEF IInv
  <2>2. \A n \in {q, s} : txn'[n].row = NoMig \/ txn'[n].row = txn[n].row
    BY <1>0, <1>2
  <2>3. \A n \in {q, s} : txn'[n].row \in Migration \/ txn'[n].row = NoMig
    BY DEF TypeOK, Txn
  <2>4. \A m \in Migration : m.name # NoMig.name
    BY PlanAssumption DEF Migration, NoMig, Names
  <2>5. QED
    BY <2>1, <2>2, <2>3, <2>4 DEF Apart
<1>6. QED BY <1>3, <1>4, <1>5 DEF TransactionDiscipline, Disciplined, Apart

\* The invariant is inductive.
LEMMA NextIInv == IInv /\ [Next]_vars => IInv'
<1> SUFFICES ASSUME IInv, [Next]_vars PROVE IInv'
  OBVIOUS
<1>1. CASE UNCHANGED vars
  BY <1>1 DEF vars, dbVars, runVars, IInv, TypeOK, TransactionDiscipline, IsCurrent
<1>2. ASSUME NEW r \in Runners,
             \/ \E kind \in AllKinds, files \in scenario.trees : Invoke(r, kind, files)
             \/ ResetSchema(r) \/ EnsureTrackingTable(r) \/ ReadAndPlan(r)
             \/ ReadMissing(r) \/ BeginOne(r) \/ RunBody(r) \/ RecordRow(r)
             \/ Rollback(r) \/ DriverFails(r) \/ Crash(r)
      PROVE  IInv'
  <2>1. TypeOK'
    BY <1>2, CallsKeepTypes DEF IInv
  <2>2. TransactionDiscipline'
    BY <1>2, <2>1, LocalCallsDisciplined, WipeDisciplined, RecordDisciplined
  <2>3. QED BY <2>1, <2>2 DEF IInv
<1>3. ASSUME NEW r \in Runners,
             CommitOne(r) \/ \E left \in CommitFaults : CommitFails(r, left)
      PROVE  IInv'
  BY <1>3, CommitsKeepTypes, CommitDisciplined DEF IInv
<1>4. QED
  BY <1>1, <1>2, <1>3 DEF Next, Step, Fault

\* Type correctness and the transaction discipline hold in every reachable
\* state: whatever the runners, the faults and their order.
THEOREM TypeAndDiscipline == Spec => [](TypeOK /\ TransactionDiscipline)
<1>1. Spec => []IInv
  BY InitIInv, NextIInv, PTL DEF Spec
<1>2. IInv => TypeOK /\ TransactionDiscipline
  BY DEF IInv
<1>3. QED BY <1>1, <1>2, PTL

\* A commit is safe: an open transaction records the body it ran, once, for a
\* name that no record and no other transaction has.
THEOREM CommitsAreSafe == Spec => []TransactionDiscipline
<1>1. TypeOK /\ TransactionDiscipline => TransactionDiscipline
  OBVIOUS
<1>2. QED BY <1>1, TypeAndDiscipline, PTL

\* The engine implements the promise of MigrationHistory: each durable change
\* is one migration taking effect with its record, once, or a wipe of both.
THEOREM Refinement == Spec => EachMigrationAtomic
<1>1. Init => History!Init
  BY DEF Init, History!Init, EmptyLedger
<1>2. IInv /\ [Next]_vars => [History!Next]_History!vars
  <2> SUFFICES ASSUME IInv, [Next]_vars
               PROVE  History!Next \/ UNCHANGED <<rows, history>>
    BY DEF History!vars
  <2>1. ASSUME NEW r \in Runners, pc[r] = "commit", Commits(r)
        PROVE  History!Next
    BY <2>1, CommitHolds
       DEF Commits, History!Next, History!TakeEffect, History!Migration, Migration
  <2>2. ASSUME NEW r \in Runners, ResetSchema(r) PROVE History!Next
    BY <2>2 DEF ResetSchema, History!Next, History!Wipe, EmptyLedger
  <2>3. QED
    BY <2>1, <2>2
       DEF Next, Step, Fault, Invoke, EnsureTrackingTable, ReadAndPlan, ReadMissing,
           BeginOne, RunBody, RecordRow, Rollback, CommitOne, CommitFails,
           DriverFails, Crash, vars, dbVars
<1>3. Spec => []IInv
  BY InitIInv, NextIInv, PTL DEF Spec
<1>4. QED
  BY <1>1, <1>2, <1>3, PTL DEF Spec, EachMigrationAtomic, History!Spec

\* The promise is safe by itself: a migration that takes effect is new, so it
\* stays the only one of its name.
HistoryInv == History!TypeOK /\ History!RecordedExactlyWhatRan

\* A migration that takes effect keeps the history and the records in step.
LEMMA TakeEffectKeepsHistory ==
  ASSUME HistoryInv, NEW m \in History!Migration, History!TakeEffect(m)
  PROVE  HistoryInv'
<1> USE DEF HistoryInv, History!TypeOK
<1>1. m.name \in Names /\ m.version \in Versions /\ m.version # None
  BY PlanAssumption DEF History!Migration
<1>2. History!TypeOK'
  BY <1>1 DEF History!TakeEffect
<1>3. /\ Len(history') = Len(history) + 1
      /\ history'[Len(history) + 1] = m
      /\ \A i \in 1..Len(history) : history'[i] = history[i]
      /\ Len(history) \in Nat
  BY DEF History!TakeEffect
<1>4. /\ rows'[m.name] = m.version
      /\ \A n \in Names : n # m.name => rows'[n] = rows[n]
  BY <1>1 DEF History!TakeEffect
<1>5. ASSUME NEW i \in 1..Len(history)
      PROVE  /\ history[i] \in History!Migration /\ history[i].name \in Names
             /\ history[i].name # m.name
  <2>1. history[i] \in History!Migration
    OBVIOUS
  <2>2. rows[history[i].name] # None
    BY <2>1, PlanAssumption DEF History!RecordedExactlyWhatRan, History!Migration
  <2>3. QED
    BY <2>1, <2>2 DEF History!Migration, History!TakeEffect
<1>6. ASSUME NEW n \in Names, rows'[n] # None
      PROVE  \E i \in 1..Len(history') : history'[i] = [name |-> n, version |-> rows'[n]]
  <2>1. CASE n = m.name
    <3>1. m = [name |-> n, version |-> rows'[n]]
      BY <1>4, <2>1 DEF History!Migration
    <3>2. QED
      BY <1>3, <3>1
  <2>2. CASE n # m.name
    <3>1. PICK i \in 1..Len(history) : history[i] = [name |-> n, version |-> rows[n]]
      BY <1>4, <1>6, <2>2 DEF History!RecordedExactlyWhatRan
    <3>2. QED
      BY <1>3, <1>4, <2>2, <3>1
  <2>3. QED
    BY <2>1, <2>2
<1>7. ASSUME NEW i \in 1..Len(history')
      PROVE  rows'[history'[i].name] = history'[i].version
  <2>1. CASE i \in 1..Len(history)
    BY <1>3, <1>4, <1>5, <2>1 DEF History!RecordedExactlyWhatRan
  <2>2. CASE i = Len(history) + 1
    BY <1>3, <1>4, <2>2
  <2>3. QED
    BY <1>3, <2>1, <2>2
<1>8. ASSUME NEW i \in 1..Len(history'), NEW j \in 1..Len(history'),
             history'[i].name = history'[j].name
      PROVE  i = j
  BY <1>3, <1>5, <1>8 DEF History!RecordedExactlyWhatRan
<1>9. QED
  BY <1>2, <1>6, <1>7, <1>8 DEF History!RecordedExactlyWhatRan

\* In every behaviour of the abstract specification a migration is recorded
\* exactly when its body took effect, with the version that ran, and once.
THEOREM HistorySafe == History!Spec => []RecordedExactlyWhatRan
<1>1. History!Init => HistoryInv
  BY DEF History!Init, HistoryInv, History!TypeOK, History!RecordedExactlyWhatRan
<1>2. HistoryInv /\ [History!Next]_History!vars => HistoryInv'
  <2> SUFFICES ASSUME HistoryInv, [History!Next]_History!vars
               PROVE  HistoryInv'
    OBVIOUS
  <2>1. CASE History!Wipe
    BY <2>1 DEF History!Wipe, HistoryInv, History!TypeOK, History!RecordedExactlyWhatRan
  <2>2. CASE \E m \in History!Migration : History!TakeEffect(m)
    BY <2>2, TakeEffectKeepsHistory
  <2>3. CASE UNCHANGED History!vars
    BY <2>3 DEF History!vars, HistoryInv, History!TypeOK, History!RecordedExactlyWhatRan
  <2>4. QED
    BY <2>1, <2>2, <2>3 DEF History!Next
<1>3. HistoryInv => RecordedExactlyWhatRan
  BY DEF HistoryInv, RecordedExactlyWhatRan
<1>4. QED
  BY <1>1, <1>2, <1>3, PTL DEF History!Spec

\* Hence, in the engine: a migration is recorded exactly when its body took
\* effect, with the version that ran, and no body takes effect twice.
THEOREM RecordedExactly == Spec => []RecordedExactlyWhatRan
BY Refinement, HistorySafe DEF EachMigrationAtomic

-----------------------------------------------------------------------------
\* What the apply loop keeps true while other runners interfere: an Ok is
\* durable, no commit overtakes an earlier file, what was committed out of
\* order is reported, and no failure leaves a transaction open.

\* Runner r is past its plan, and what it planned from is what was committed.
InLoop(r) == pc[r] \in {"body", "record", "commit"} \/ (pc[r] = "begin" /\ ~txn[r].open)

\* Every file of the checkout that is not to be done is done.
Covered(r) ==
  \A n \in Files(call[r].files) \ todo[r] : rows[n] = call[r].files[n]

\* One runner's part of the invariant, where nobody resets.
Lasting(r) ==
  /\ pc[r] # "reset"
  /\ InLoop(r) => Covered(r)
  /\ pc[r] = "commit" => IsCurrent(txn[r].row, r)
  /\ r \notin Handles /\ result[r] = "ok" /\ call[r].kind = "apply" =>
       \A n \in Files(call[r].files) : rows[n] = call[r].files[n]

NoResets == "reset" \notin scenario.kinds

LoopInv == NoResets => \A r \in Runners : Lasting(r)

\* What runner r does in a step.
Acts(r) ==
  \/ \E kind \in AllKinds, files \in scenario.trees : Invoke(r, kind, files)
  \/ Step(r)
  \/ Fault(r)

\* Runner r's step leaves the control of every other runner alone.
LEMMA OthersUntouched ==
  ASSUME TypeOK, NEW r \in Runners, Acts(r), NEW s \in Runners, s # r
  PROVE  UNCHANGED <<pc[s], txn[s], call[s], todo[s], result[s], ooo[s],
                     warned[s], jumped[s], scenario>>
<1>1. ASSUME NEW kind \in AllKinds, NEW files \in scenario.trees, Invoke(r, kind, files)
      PROVE  UNCHANGED <<pc[s], txn[s], call[s], todo[s], result[s], ooo[s],
                         warned[s], jumped[s], scenario>>
  BY <1>1 DEF Invoke, TypeOK
<1>2. CASE ResetSchema(r) \/ EnsureTrackingTable(r) \/ ReadMissing(r) \/ BeginOne(r)
  BY <1>2 DEF ResetSchema, EnsureTrackingTable, ReadMissing, BeginOne, Goto, Leave, TypeOK
<1>3. CASE ReadAndPlan(r)
  BY <1>3 DEF ReadAndPlan, Goto, Leave, TypeOK
<1>4. CASE RunBody(r) \/ RecordRow(r) \/ Rollback(r)
  BY <1>4 DEF RunBody, RecordRow, Rollback, Goto, Leave, TypeOK
<1>5. CASE CommitOne(r)
  BY <1>5 DEF CommitOne, Commits, Goto, Leave, TypeOK
<1>6. ASSUME NEW left \in CommitFaults, CommitFails(r, left)
      PROVE  UNCHANGED <<pc[s], txn[s], call[s], todo[s], result[s], ooo[s],
                         warned[s], jumped[s], scenario>>
  BY <1>6 DEF CommitFails, Commits, Leave, TypeOK
<1>7. CASE DriverFails(r) \/ Crash(r)
  BY <1>7 DEF DriverFails, Crash, Goto, Leave, TypeOK
<1>8. QED
  BY <1>1, <1>2, <1>3, <1>4, <1>5, <1>6, <1>7 DEF Acts, Step, Fault

\* Only a commit, of r's own migration, and a wipe change the records.
LEMMA RowsChange ==
  ASSUME IInv, NEW r \in Runners, Acts(r)
  PROVE  \/ UNCHANGED rows
         \/ pc[r] = "reset" /\ rows' = EmptyLedger
         \/ /\ pc[r] = "commit"
            /\ rows' = [rows EXCEPT ![txn[r].row.name] = txn[r].row.version]
            /\ txn[r].row \in Migration
            /\ rows[txn[r].row.name] = None
BY CommitHolds
   DEF Acts, Step, Fault, Invoke, ResetSchema, EnsureTrackingTable, ReadAndPlan,
       ReadMissing, BeginOne, RunBody, RecordRow, Rollback, CommitOne, CommitFails,
       Commits, DriverFails, Crash, dbVars

\* Where nobody resets, what is recorded stays recorded.
LEMMA RowsStay ==
  ASSUME IInv, NEW r \in Runners, Acts(r), pc[r] # "reset", NEW n \in Names,
         rows[n] # None
  PROVE  rows'[n] = rows[n]
<1>1. rows \in [Names -> Versions \cup {None}]
  BY DEF IInv, TypeOK, Ledger
<1>2. QED
  BY <1>1, RowsChange DEF Migration

\* So another runner's step takes nothing from what r relies on.
LEMMA OthersLasting ==
  ASSUME IInv, NEW r \in Runners, Acts(r), pc[r] # "reset", NEW s \in Runners, s # r,
         Lasting(s)
  PROVE  Lasting(s)'
<1>1. UNCHANGED <<pc[s], txn[s], call[s], todo[s], result[s]>>
  BY OthersUntouched DEF IInv
<1>2. ASSUME NEW n \in Files(call[s].files), rows[n] = call[s].files[n]
      PROVE  rows'[n] = call'[s].files[n]
  BY <1>1, <1>2, RowsStay DEF Files
<1>3. QED
  BY <1>1, <1>2 DEF Lasting, InLoop, Covered, IsCurrent, Files

\* A plan that was read outside a transaction covers what is recorded, and is
\* empty only if everything is (plan: the gates, then what is not recorded).
LEMMA PlanCovers ==
  ASSUME NEW files, NEW ledger \in Ledger, Verdict(files, ledger) = "planned",
         NEW n \in Files(files) \ Pending(files, ledger)
  PROVE  ledger[n] = files[n]
<1>1. n \in Recorded(ledger)
  BY DEF Pending
<1>2. Offenders(files, ledger) = {}
  BY DEF Verdict
<1>3. QED
  BY <1>1, <1>2 DEF Offenders

\* What r reads outside a transaction is what is committed.
LEMMA SeenIsCommitted ==
  ASSUME IInv, NEW r \in Runners, ~txn[r].open
  PROVE  Seen(r) = rows /\ txn[r] = Closed
<1>1. txn[r] = Closed
  BY DEF IInv, TransactionDiscipline
<1>2. txn[r].row = NoMig
  BY <1>1 DEF Closed
<1>3. QED BY <1>1, <1>2 DEF Seen

\* ReadAndPlan: the loop is entered with everything else done, and an Ok
\* without a loop says that everything is.
LEMMA PlanLasting ==
  ASSUME IInv, NEW r \in Runners, Lasting(r), ReadAndPlan(r)
  PROVE  Lasting(r)'
<1> DEFINE files == call[r].files
           pending == Pending(files, Seen(r))
<1>0. /\ UNCHANGED <<rows, call>>
      /\ pc[r] = "read"
      /\ r \notin Handles => ~txn[r].open
      /\ rows \in Ledger
  BY DEF ReadAndPlan, dbVars, IInv, TypeOK, TransactionDiscipline, Closed
<1>1. CASE /\ Verdict(files, Seen(r)) # "planned"
           /\ Leave(r, txn[r], "refused", {})
  BY <1>0, <1>1 DEF Leave, IInv, TypeOK, Lasting, InLoop
<1>2. CASE /\ call[r].kind \notin {"apply", "reset"}
           /\ Leave(r, txn[r], "ok", {})
  BY <1>0, <1>2 DEF Leave, IInv, TypeOK, Lasting, InLoop
<1>3. CASE /\ Verdict(files, Seen(r)) = "planned"
           /\ todo' = [todo EXCEPT ![r] = pending]
           /\ IF pending = {} THEN Leave(r, txn[r], "ok", {})
              ELSE Goto(r, "begin") /\ UNCHANGED txn
  <2>1. ASSUME ~txn[r].open, NEW n \in Files(files) \ pending
        PROVE  rows[n] = files[n]
    BY <1>0, <1>3, <2>1, PlanCovers, SeenIsCommitted
  <2>2. todo'[r] = pending
    BY <1>3 DEF IInv, TypeOK
  <2>3. CASE pending = {}
    <3>1. ~txn[r].open => \A n \in Files(files) : rows[n] = files[n]
      BY <2>1, <2>3
    <3>2. pc'[r] = "idle" /\ result'[r] = "ok"
      BY <1>3, <2>3 DEF Leave, IInv, TypeOK
    <3>3. QED
      BY <1>0, <3>1, <3>2 DEF Lasting, InLoop
  <2>4. CASE pending # {}
    <3>1. pc'[r] = "begin" /\ UNCHANGED <<txn, result>>
      BY <1>3, <2>4 DEF Goto, IInv, TypeOK
    <3>2. InLoop(r)' => Covered(r)'
      BY <1>0, <2>1, <2>2, <3>1 DEF InLoop, Covered
    <3>3. QED
      BY <1>0, <3>1, <3>2 DEF Lasting
  <2>5. QED BY <2>3, <2>4
<1>4. QED
  BY <1>1, <1>2, <1>3 DEF ReadAndPlan

\* A commit does the first file that was to be done (apply_one).
LEMMA CommitLasting ==
  ASSUME IInv, NEW r \in Runners, Lasting(r),
         CommitOne(r) \/ \E left \in CommitFaults : CommitFails(r, left)
  PROVE  Lasting(r)'
<1> DEFINE m == txn[r].row
<1>1. /\ pc[r] = "commit" /\ UNCHANGED call
      /\ m \in Migration /\ rows[m.name] = None
      /\ Covered(r) /\ IsCurrent(m, r)
      /\ rows \in [Names -> Versions \cup {None}]
  BY CommitHolds DEF CommitOne, CommitFails, Lasting, InLoop, IInv, TypeOK, Ledger
<1>2. CASE CommitOne(r)
  <2>1. /\ rows' = [rows EXCEPT ![m.name] = m.version]
        /\ todo'[r] = todo[r] \ {m.name}
        /\ \/ pc'[r] = "begin"
           \/ pc'[r] = "idle" /\ todo'[r] = {}
    BY <1>2 DEF CommitOne, Commits, Goto, Leave, IInv, TypeOK
  <2>2. ASSUME NEW n \in Files(call[r].files) \ todo'[r]
        PROVE  rows'[n] = call[r].files[n]
    <3>1. CASE n = m.name
      BY <1>1, <2>1, <3>1 DEF IsCurrent, Migration
    <3>2. CASE n # m.name
      BY <1>1, <2>1, <2>2, <3>2 DEF Covered, Files
    <3>3. QED BY <3>1, <3>2
  <2>3. Covered(r)'
    BY <1>1, <2>2 DEF Covered
  <2>4. r \notin Handles /\ result'[r] = "ok" /\ call[r].kind = "apply" =>
          \A n \in Files(call[r].files) : rows'[n] = call[r].files[n]
    <3>1. CASE pc'[r] = "idle" /\ todo'[r] = {}
      BY <2>2, <3>1
    <3>2. CASE pc'[r] = "begin"
      <4>1. UNCHANGED result
        BY <1>2, <3>2 DEF CommitOne, Goto, Leave, IInv, TypeOK
      <4>2. ASSUME NEW n \in Files(call[r].files), rows[n] = call[r].files[n]
            PROVE  rows'[n] = call[r].files[n]
        BY <1>1, <2>1, <4>2 DEF Files
      <4>3. QED
        BY <4>1, <4>2 DEF Lasting
    <3>3. QED BY <2>1, <3>1, <3>2
  <2>5. QED
    BY <1>1, <2>1, <2>3, <2>4 DEF Lasting
<1>3. ASSUME NEW left \in CommitFaults, CommitFails(r, left) PROVE Lasting(r)'
  BY <1>1, <1>3 DEF CommitFails, Leave, Lasting, InLoop, IInv, TypeOK
<1>4. QED BY <1>2, <1>3

\* What else r does neither records anything nor skips a file.
LEMMA OwnLasting ==
  ASSUME IInv, NEW r \in Runners, Acts(r), NoResets, Lasting(r)
  PROVE  Lasting(r)'
<1> USE DEF dbVars
<1>0. TypeOK /\ pc[r] # "reset"
  BY DEF IInv, Lasting
<1>1. ASSUME NEW kind \in AllKinds, NEW files \in scenario.trees, Invoke(r, kind, files)
      PROVE  Lasting(r)'
  <2>1. pc'[r] = "ensure" /\ result'[r] = "none"
    BY <1>0, <1>1 DEF Invoke, TypeOK, NoResets
  <2>2. QED
    BY <2>1 DEF Lasting, InLoop
<1>2. CASE EnsureTrackingTable(r)
  BY <1>0, <1>2 DEF EnsureTrackingTable, Goto, Lasting, InLoop, TypeOK
<1>3. CASE ReadMissing(r)
  BY <1>0, <1>3 DEF ReadMissing, Leave, Lasting, InLoop, TypeOK
<1>4. CASE BeginOne(r)
  <2>1. CASE txn[r].open
    BY <1>0, <1>4, <2>1 DEF BeginOne, Leave, Lasting, InLoop, TypeOK
  <2>2. CASE ~txn[r].open
    BY <1>0, <1>4, <2>2 DEF BeginOne, Goto, Lasting, InLoop, Covered, TypeOK
  <2>3. QED BY <2>1, <2>2
<1>5. CASE RunBody(r)
  BY <1>0, <1>5 DEF RunBody, Goto, Lasting, InLoop, Covered, TypeOK
<1>6. CASE RecordRow(r)
  <2>1. PICK m \in Migration :
          /\ IsCurrent(m, r)
          /\ \/ txn' = [txn EXCEPT ![r].row = m] /\ Goto(r, "commit")
             \/ Goto(r, "rollback") /\ UNCHANGED txn
    BY <1>6 DEF RecordRow
  <2>2. UNCHANGED <<rows, call, todo, result>> /\ pc[r] = "record"
    BY <1>6, <2>1 DEF RecordRow, Goto
  <2>3. CASE txn' = [txn EXCEPT ![r].row = m] /\ Goto(r, "commit")
    <3>1. txn'[r].row = m /\ pc'[r] = "commit"
      BY <1>0, <2>3 DEF Goto, TypeOK, Txn
    <3>2. QED
      BY <2>1, <2>2, <3>1 DEF Lasting, InLoop, Covered, IsCurrent
  <2>4. CASE Goto(r, "rollback")
    BY <1>0, <2>2, <2>4 DEF Goto, Lasting, InLoop, TypeOK
  <2>5. QED BY <2>1, <2>3, <2>4
<1>7. CASE Rollback(r)
  BY <1>0, <1>7 DEF Rollback, Leave, Lasting, InLoop, TypeOK
<1>8. CASE DriverFails(r)
  BY <1>0, <1>8 DEF DriverFails, Goto, Leave, Lasting, InLoop, TypeOK
<1>9. CASE Crash(r)
  BY <1>0, <1>9 DEF Crash, Lasting, InLoop, TypeOK
<1>10. CASE ResetSchema(r)
  BY <1>0, <1>10 DEF ResetSchema
<1>11. QED
  BY <1>1, <1>2, <1>3, <1>4, <1>5, <1>6, <1>7, <1>8, <1>9, <1>10,
     PlanLasting, CommitLasting DEF Acts, Step, Fault

\* The loop's invariant holds through every step of every runner.
LEMMA LoopHolds == Spec => [](IInv /\ LoopInv)
<1>1. Init => LoopInv
  BY DEF Init, LoopInv, Lasting, InLoop
<1>2. ASSUME IInv, LoopInv, [Next]_vars PROVE LoopInv'
  <2>1. CASE UNCHANGED vars
    BY <1>2, <2>1
       DEF vars, dbVars, runVars, LoopInv, NoResets, Lasting, InLoop, Covered, IsCurrent
  <2>2. ASSUME NEW r \in Runners, Acts(r), NoResets' PROVE \A s \in Runners : Lasting(s)'
    <3>1. UNCHANGED scenario
      BY <2>2 DEF Acts, Step, Fault, Invoke, ResetSchema, EnsureTrackingTable, ReadAndPlan,
                  ReadMissing, BeginOne, RunBody, RecordRow, Rollback, CommitOne,
                  CommitFails, DriverFails, Crash
    <3>2. NoResets /\ \A s \in Runners : Lasting(s)
      BY <1>2, <2>2, <3>1 DEF LoopInv, NoResets
    <3>3. pc[r] # "reset" /\ Lasting(r)'
      BY <1>2, <2>2, <3>2, OwnLasting DEF Lasting
    <3>4. ASSUME NEW s \in Runners, s # r PROVE Lasting(s)'
      BY <1>2, <2>2, <3>2, <3>3, <3>4, OthersLasting
    <3>5. QED BY <3>3, <3>4
  <2>3. QED
    BY <1>2, <2>1, <2>2 DEF Next, Acts, LoopInv
<1>3. QED
  BY <1>1, <1>2, InitIInv, NextIInv, PTL DEF Spec

\* When `noeta migrate` answers Ok, every file of its checkout is recorded
\* with its checksum, and stays so while nobody resets the database, whatever
\* other runners do (migrate.rs apply, plan).
THEOREM OkIsDurable == Spec => []OkMeansDurable
<1>1. LoopInv => OkMeansDurable
  BY DEF LoopInv, NoResets, Lasting, OkMeansDurable
<1>2. QED BY <1>1, LoopHolds, PTL

\* No commit overtakes an earlier file of its own checkout, however stale the
\* plan behind it is (migrate.rs apply: ascending, stop at the first failure).
THEOREM NothingOvertakes == Spec => EarlierFilesFirst
<1>1. ASSUME IInv, LoopInv, Next, NEW r \in Runners, NoResets,
             history' # history, txn[r].row # NoMig, txn'[r] # txn[r],
             NEW n \in Files(call[r].files), n < txn[r].row.name
      PROVE  rows[n] # None
  <2>1. PICK q \in Runners : Acts(q)
    BY <1>1 DEF Next, Acts
  <2>2. q = r
    BY <1>1, <2>1, OthersUntouched DEF IInv
  <2>3. pc[r] = "commit"
    BY <1>1, <2>1, <2>2
       DEF Acts, Step, Fault, Invoke, ResetSchema, EnsureTrackingTable, ReadAndPlan,
           ReadMissing, BeginOne, RunBody, RecordRow, Rollback, CommitOne, CommitFails,
           DriverFails, Crash, dbVars, LoopInv, Lasting
  <2>4. Covered(r) /\ IsFirst(txn[r].row.name, todo[r])
    BY <1>1, <2>3 DEF LoopInv, Lasting, InLoop, IsCurrent
  <2>5. n \notin todo[r]
    <3>1. txn[r].row.name \in Nat /\ n \in Nat
      BY <1>1, <2>3, CommitHolds DEF Migration, Names, Files
    <3>2. QED
      BY <1>1, <2>4, <3>1 DEF IsFirst
  <2>6. QED
    BY <2>4, <2>5 DEF Covered, Files
<1>2. IInv /\ LoopInv /\ [Next]_vars =>
        [\A r \in Runners :
           /\ "reset" \notin scenario.kinds
           /\ history' # history /\ txn[r].row # NoMig /\ txn'[r] # txn[r]
           => \A m \in Files(call[r].files) :
                m < txn[r].row.name => rows[m] # None]_vars
  BY <1>1 DEF NoResets
<1>3. QED
  BY <1>2, LoopHolds, PTL DEF Spec, EarlierFilesFirst

\* Outside its own apply_one a runner has no open transaction.
ClosedOutside ==
  \A r \in Runners :
    pc[r] \in {"idle", "reset", "ensure", "read", "begin"} => ~txn[r].open

\* Where a failed COMMIT leaves nothing open, no return of a call does,
\* whatever failed before it (migrate.rs apply_one).
THEOREM FailuresRollBack ==
  ASSUME "open" \notin CommitFaults
  PROVE  Spec => []FailureRollsBack
<1>1. Init => ClosedOutside
  BY DEF Init, ClosedOutside, Closed
<1>2. ASSUME IInv, ClosedOutside, [Next]_vars PROVE ClosedOutside'
  <2>1. CASE UNCHANGED vars
    BY <1>2, <2>1 DEF vars, runVars, ClosedOutside
  <2>2. ASSUME NEW r \in Runners, Acts(r) PROVE ClosedOutside'
    <3> USE DEF ClosedOutside, IInv, TypeOK
    <3>0. ~Closed.open
      BY DEF Closed
    <3>1. ASSUME NEW s \in Runners, s # r PROVE UNCHANGED <<pc[s], txn[s]>>
      BY <1>2, <2>2, <3>1, OthersUntouched
    <3>2. pc'[r] \in {"idle", "reset", "ensure", "read", "begin"} => ~txn'[r].open
      <4>1. ASSUME NEW kind \in AllKinds, NEW files \in scenario.trees,
                   Invoke(r, kind, files)
            PROVE  ~txn'[r].open
        BY <1>2, <4>1 DEF Invoke
      <4>2. CASE ResetSchema(r) \/ EnsureTrackingTable(r) \/ ReadMissing(r) \/ BeginOne(r)
        BY <1>2, <3>0, <4>2
           DEF ResetSchema, EnsureTrackingTable, ReadMissing, BeginOne, Goto, Leave
      <4>3. CASE ReadAndPlan(r)
        BY <1>2, <3>0, <4>3 DEF ReadAndPlan, Goto, Leave
      <4>4. CASE RunBody(r) \/ RecordRow(r)
        BY <1>2, <4>4 DEF RunBody, RecordRow, Goto
      <4>5. CASE Rollback(r) \/ CommitOne(r)
        BY <1>2, <3>0, <4>5 DEF Rollback, CommitOne, Goto, Leave
      <4>6. ASSUME NEW left \in CommitFaults, CommitFails(r, left)
            PROVE  ~txn'[r].open
        <5>1. left # "open"
          OBVIOUS
        <5>2. QED
          BY <1>2, <3>0, <4>6, <5>1 DEF CommitFails, Leave
      <4>7. CASE DriverFails(r) \/ Crash(r)
        BY <1>2, <3>0, <4>7 DEF DriverFails, Crash, Goto, Leave
      <4>8. QED
        BY <2>2, <4>1, <4>2, <4>3, <4>4, <4>5, <4>6, <4>7 DEF Acts, Step, Fault
    <3>3. QED BY <1>2, <3>1, <3>2
  <2>3. QED BY <1>2, <2>1, <2>2 DEF Next, Acts
<1>3. ClosedOutside => FailureRollsBack
  BY DEF ClosedOutside, FailureRollsBack
<1>4. QED
  BY <1>1, <1>2, <1>3, InitIInv, NextIInv, PTL DEF Spec

-----------------------------------------------------------------------------
\* Name n sorts before a recorded one.
Behind(n) == \E last \in Recorded(rows) : n < last

\* Runner r has entered its loop, or has yet to read.
Looping(r)   == pc[r] \in {"begin", "body", "record", "commit"}
Preparing(r) == pc[r] \in {"reset", "ensure", "read"}

\* The out_of_order list of a runner that is alone is, of what is to be done,
\* what sorts before a record, and of what is done, what did.
Reporting(r) ==
  /\ \A q \in Runners \ {r} : pc[q] = "idle" /\ txn[q] = Closed
  /\ txn[r].open => pc[r] # "idle"
  /\ Preparing(r) => jumped[r] = {}
  /\ pc[r] \in {"ensure", "read"} /\ call[r].kind = "reset" => rows = EmptyLedger
  /\ Looping(r) =>
       /\ jumped[r] = ooo[r] \ todo[r]
       /\ \A n \in todo[r] : n \in ooo[r] <=> Behind(n)
       /\ call[r].kind \in {"apply", "reset"}
       /\ call[r].kind = "reset" => ooo[r] = {}
  /\ pc[r] = "commit" => IsCurrent(txn[r].row, r)
  /\ result[r] = "ok" => pc[r] = "idle" /\ warned[r] = jumped[r]

ReportInv == \A r \in Runners : scenario.runners = {r} => Reporting(r)

\* A runner that is alone keeps what it will report, up to its plan.
LEMMA PlanReporting ==
  ASSUME IInv, NEW r \in Runners, r \notin Handles, Reporting(r), ReadAndPlan(r)
  PROVE  Reporting(r)'
<1> DEFINE files == call[r].files
           pending == Pending(files, rows)
           behind == OutOfOrder(files, rows)
<1>1. /\ pc[r] = "read" /\ txn[r] = Closed /\ Seen(r) = rows
      /\ UNCHANGED <<rows, call, jumped>> /\ jumped[r] = {}
      /\ \A q \in Runners \ {r} : UNCHANGED <<pc[q], txn[q]>>
      /\ rows \in Ledger /\ ~Closed.open
  <2>1. pc[r] = "read" /\ UNCHANGED <<rows, call, jumped>>
    BY DEF ReadAndPlan, dbVars
  <2>2. txn[r] = Closed /\ rows \in Ledger /\ TypeOK
    BY <2>1 DEF IInv, TypeOK, TransactionDiscipline
  <2>3. \A q \in Runners \ {r} : UNCHANGED <<pc[q], txn[q]>>
    BY <2>2, OthersUntouched DEF Acts, Step
  <2>4. ~Closed.open /\ Closed.row = NoMig
    BY DEF Closed
  <2>5. QED
    BY <2>1, <2>2, <2>3, <2>4 DEF Seen, Reporting, Preparing
<1>2. CASE \/ Leave(r, txn[r], "refused", {})
           \/ Leave(r, txn[r], "ok", {})
  <2>1. pc'[r] = "idle" /\ warned'[r] = {} /\ txn'[r] = Closed
    BY <1>1, <1>2 DEF Leave, IInv, TypeOK
  <2>2. QED
    BY <1>1, <2>1 DEF Reporting, Preparing, Looping
<1>3. CASE /\ Verdict(files, rows) = "planned" /\ call[r].kind \in {"apply", "reset"}
           /\ todo' = [todo EXCEPT ![r] = pending]
           /\ ooo' = [ooo EXCEPT ![r] = behind]
           /\ Goto(r, "begin") /\ UNCHANGED txn
  <2>1. /\ todo'[r] = pending /\ ooo'[r] = behind /\ pc'[r] = "begin"
        /\ result' = result /\ warned' = warned
    BY <1>3 DEF Goto, IInv, TypeOK
  <2>2. Recorded(rows) \subseteq Files(files)
    <3>1. Offenders(files, rows) = {}
      BY <1>3 DEF Verdict
    <3>2. QED
      BY <3>1 DEF Offenders, Recorded, Files
  <2>3. behind \subseteq pending /\ \A n \in pending : n \in behind <=> Behind(n)
    BY <2>2 DEF OutOfOrder, Behind
  <2>4. call[r].kind = "reset" => behind = {}
    BY <1>1 DEF Reporting, OutOfOrder, Recorded, EmptyLedger
  <2>5. \A n : Behind(n)' <=> Behind(n)
    BY <1>1 DEF Behind
  <2>6. QED
    BY <1>1, <1>3, <2>1, <2>3, <2>4, <2>5 DEF Reporting, Preparing, Looping
<1>4. QED
  BY <1>1, <1>2, <1>3 DEF ReadAndPlan

\* Committing the first of what is to be done changes for none of the others
\* whether it sorts before a record.
LEMMA CommitReporting ==
  ASSUME IInv, NEW r \in Runners, r \notin Handles, Reporting(r),
         CommitOne(r) \/ \E left \in CommitFaults : CommitFails(r, left)
  PROVE  Reporting(r)'
<1> DEFINE m == txn[r].row
<1>1. /\ pc[r] = "commit" /\ UNCHANGED <<call, ooo>>
      /\ m \in Migration /\ IsCurrent(m, r)
      /\ \A q \in Runners \ {r} : UNCHANGED <<pc[q], txn[q]>>
      /\ rows \in [Names -> Versions \cup {None}]
      /\ todo[r] \subseteq Names /\ ~Closed.open
  <2>1. pc[r] = "commit" /\ UNCHANGED <<call, ooo>>
    BY DEF CommitOne, CommitFails
  <2>2. m \in Migration /\ IsCurrent(m, r)
    BY <2>1, CommitHolds DEF Reporting
  <2>3. \A q \in Runners \ {r} : UNCHANGED <<pc[q], txn[q]>>
    BY OthersUntouched DEF Acts, Step, Fault, IInv
  <2>4. QED
    BY <2>1, <2>2, <2>3 DEF IInv, TypeOK, Ledger, Closed
<1>2. CASE CommitOne(r)
  <2>1. /\ rows' = [rows EXCEPT ![m.name] = m.version]
        /\ todo'[r] = todo[r] \ {m.name}
        /\ txn'[r] = Closed
        /\ \/ pc'[r] = "begin" /\ result' = result /\ warned' = warned
           \/ /\ pc'[r] = "idle" /\ todo'[r] = {}
              /\ warned'[r] = IF call[r].kind = "apply" THEN ooo[r] ELSE {}
    BY <1>2 DEF CommitOne, Commits, Goto, Leave, IInv, TypeOK
  <2>2. jumped'[r] = jumped[r] \cup {n \in {m.name} : Behind(n)}
    BY <1>2 DEF CommitOne, Commits, Behind, IInv, TypeOK
  <2>3. jumped'[r] = ooo[r] \ todo'[r]
    <3>1. m.name \in todo[r] /\ jumped[r] = ooo[r] \ todo[r]
      BY <1>1 DEF IsCurrent, IsFirst, Reporting, Looping
    <3>2. m.name \in ooo[r] <=> Behind(m.name)
      BY <1>1, <3>1 DEF Reporting, Looping
    <3>3. QED BY <2>1, <2>2, <3>1, <3>2
  <2>4. ASSUME NEW n \in todo'[r] PROVE n \in ooo[r] <=> Behind(n)'
    <3>1. Recorded(rows') = Recorded(rows) \cup {m.name}
      BY <1>1, <2>1, PlanAssumption DEF Recorded, Migration
    <3>2. n \in Nat /\ m.name \in Nat /\ m.name <= n /\ n \in todo[r]
      BY <1>1, <2>1, <2>4 DEF IsCurrent, IsFirst, Names, Migration
    <3>3. ~(n < m.name)
      BY <3>2
    <3>4. Behind(n)' <=> Behind(n)
      BY <3>1, <3>3 DEF Behind
    <3>5. QED
      BY <1>1, <3>2, <3>4 DEF Reporting, Looping
  <2>5. CASE pc'[r] = "begin" /\ result' = result /\ warned' = warned
    <3>1. result[r] # "ok"
      BY <1>1 DEF Reporting
    <3>2. QED
      BY <1>1, <2>1, <2>3, <2>4, <2>5, <3>1 DEF Reporting, Preparing, Looping
  <2>6. CASE /\ pc'[r] = "idle" /\ todo'[r] = {}
             /\ warned'[r] = IF call[r].kind = "apply" THEN ooo[r] ELSE {}
    <3>1. warned'[r] = jumped'[r]
      BY <1>1, <2>3, <2>6 DEF Reporting, Looping
    <3>2. QED
      BY <1>1, <2>1, <2>6, <3>1 DEF Reporting, Preparing, Looping
  <2>7. QED BY <2>1, <2>5, <2>6
<1>3. ASSUME NEW left \in CommitFaults, CommitFails(r, left) PROVE Reporting(r)'
  <2>1. pc'[r] = "idle" /\ result'[r] = "error" /\ txn'[r] = Closed
    BY <1>3 DEF CommitFails, Leave, IInv, TypeOK
  <2>2. QED
    BY <1>1, <2>1 DEF Reporting, Preparing, Looping
<1>4. QED BY <1>2, <1>3

\* What else a lone runner does changes neither its lists nor the records.
LEMMA OwnReporting ==
  ASSUME IInv, NEW r \in Runners, r \notin Handles, Reporting(r), Acts(r)
  PROVE  Reporting(r)'
<1> USE DEF dbVars
<1>0. /\ \A q \in Runners \ {r} : UNCHANGED <<pc[q], txn[q]>>
      /\ ~Closed.open /\ Begun.open
      /\ TypeOK
  BY OthersUntouched DEF IInv, Closed, Begun
<1>1. ASSUME NEW kind \in AllKinds, NEW files \in scenario.trees, Invoke(r, kind, files)
      PROVE  Reporting(r)'
  <2>1. /\ pc[r] = "idle" /\ txn' = txn /\ jumped'[r] = {} /\ result'[r] = "none"
        /\ pc'[r] = IF kind = "reset" THEN "reset" ELSE "ensure"
        /\ call'[r].kind = kind
    BY <1>0, <1>1 DEF Invoke, TypeOK
  <2>2. QED
    BY <1>0, <2>1 DEF Reporting, Preparing, Looping
<1>2. CASE ResetSchema(r)
  BY <1>0, <1>2 DEF ResetSchema, Goto, Reporting, Preparing, Looping, TypeOK
<1>3. CASE EnsureTrackingTable(r)
  BY <1>0, <1>3 DEF EnsureTrackingTable, Goto, Reporting, Preparing, Looping, TypeOK
<1>4. CASE ReadMissing(r) \/ Rollback(r)
  <2>1. /\ pc'[r] = "idle" /\ result'[r] = "error" /\ txn'[r] = Closed
        /\ UNCHANGED <<rows, call, jumped>>
    BY <1>0, <1>4 DEF ReadMissing, Rollback, Leave, TypeOK
  <2>2. QED
    BY <1>0, <2>1 DEF Reporting, Preparing, Looping
<1>5. CASE BeginOne(r)
  <2>1. CASE txn[r].open
    <3>1. pc'[r] = "idle" /\ result'[r] = "error" /\ txn'[r] = Closed
      BY <1>0, <1>5, <2>1 DEF BeginOne, Leave, TypeOK
    <3>2. QED
      BY <1>0, <3>1 DEF Reporting, Preparing, Looping
  <2>2. CASE ~txn[r].open
    <3>1. /\ pc[r] = "begin" /\ pc'[r] = "body"
          /\ UNCHANGED <<rows, call, todo, ooo, jumped, result, warned>>
      BY <1>0, <1>5, <2>2 DEF BeginOne, Goto, TypeOK
    <3>2. QED
      BY <1>0, <3>1 DEF Reporting, Preparing, Looping, Behind
  <2>3. QED BY <2>1, <2>2
<1>6. CASE RunBody(r)
  <2>1. /\ pc[r] = "body" /\ pc'[r] = "record"
        /\ UNCHANGED <<rows, call, todo, ooo, jumped, result, warned>>
    BY <1>0, <1>6 DEF RunBody, Goto, TypeOK
  <2>2. QED
    BY <1>0, <2>1 DEF Reporting, Preparing, Looping, Behind
<1>7. CASE RecordRow(r)
  <2>1. PICK m \in Migration :
          /\ IsCurrent(m, r)
          /\ \/ txn' = [txn EXCEPT ![r].row = m] /\ Goto(r, "commit")
             \/ Goto(r, "rollback") /\ UNCHANGED txn
    BY <1>7 DEF RecordRow
  <2>2. /\ UNCHANGED <<rows, call, todo, ooo, jumped, result, warned>>
        /\ pc[r] = "record"
    BY <1>7, <2>1 DEF RecordRow, Goto
  <2>3. CASE txn' = [txn EXCEPT ![r].row = m] /\ Goto(r, "commit")
    <3>1. txn'[r].row = m /\ pc'[r] = "commit"
      BY <1>0, <2>3 DEF Goto, TypeOK, Txn
    <3>2. QED
      BY <1>0, <2>1, <2>2, <3>1 DEF Reporting, Preparing, Looping, Behind, IsCurrent
  <2>4. CASE Goto(r, "rollback")
    <3>1. pc'[r] = "rollback"
      BY <1>0, <2>4 DEF Goto, TypeOK
    <3>2. QED
      BY <1>0, <2>2, <3>1 DEF Reporting, Preparing, Looping
  <2>5. QED BY <2>1, <2>3, <2>4
<1>8. CASE DriverFails(r)
  <2>1. /\ \/ pc'[r] = "idle" /\ result'[r] = "error" /\ txn'[r] = Closed
           \/ pc'[r] = "rollback" /\ UNCHANGED <<result, warned, txn>>
        /\ UNCHANGED <<rows, call, jumped>> /\ pc[r] # "idle"
    BY <1>0, <1>8 DEF DriverFails, Goto, Leave, TypeOK
  <2>2. QED
    BY <1>0, <2>1 DEF Reporting, Preparing, Looping
<1>9. CASE Crash(r)
  <2>1. /\ pc'[r] = "idle" /\ result'[r] = "crashed" /\ txn'[r] = Closed
        /\ UNCHANGED <<rows, call, jumped>>
    BY <1>0, <1>9 DEF Crash, TypeOK
  <2>2. QED
    BY <1>0, <2>1 DEF Reporting, Preparing, Looping
<1>10. QED
  BY <1>1, <1>2, <1>3, <1>4, <1>5, <1>6, <1>7, <1>8, <1>9,
     PlanReporting, CommitReporting DEF Acts, Step, Fault

\* A lone `noeta migrate` that answers Ok tells the operator of exactly the
\* migrations it committed behind a recorded one (migrate.rs apply, Applied).
THEOREM OutOfOrderReported ==
  ASSUME \A s \in Scenarios : \A r \in Runners : s.runners = {r} => r \notin Handles
  PROVE  Spec => []OkReportsOutOfOrder
<1>1. Init => ReportInv
  BY DEF Init, ReportInv, Reporting, Preparing, Looping, Closed
<1>2. ASSUME IInv, ReportInv, [Next]_vars PROVE ReportInv'
  <2>1. CASE UNCHANGED vars
    BY <1>2, <2>1
       DEF vars, dbVars, runVars, ReportInv, Reporting, Preparing, Looping, Behind,
           IsCurrent
  <2>2. ASSUME NEW q \in Runners, Acts(q), NEW r \in Runners, scenario'.runners = {r}
        PROVE  Reporting(r)'
    <3>1. UNCHANGED scenario
      BY <2>2 DEF Acts, Step, Fault, Invoke, ResetSchema, EnsureTrackingTable, ReadAndPlan,
                  ReadMissing, BeginOne, RunBody, RecordRow, Rollback, CommitOne,
                  CommitFails, DriverFails, Crash
    <3>2. Reporting(r) /\ r \notin Handles
      BY <1>2, <2>2, <3>1 DEF ReportInv, IInv, TypeOK
    <3>3. CASE q = r
      BY <1>2, <2>2, <3>2, <3>3, OwnReporting
    <3>4. CASE q # r
      <4>1. pc[q] = "idle" /\ ~txn[q].open
        BY <3>2, <3>4 DEF Reporting, Closed
      <4>2. q \notin scenario.runners
        BY <2>2, <3>1, <3>4
      <4>3. FALSE
        BY <2>2, <4>1, <4>2
           DEF Acts, Step, Fault, Invoke, ResetSchema, EnsureTrackingTable, ReadAndPlan,
               ReadMissing, BeginOne, RunBody, RecordRow, Rollback, CommitOne,
               CommitFails, DriverFails, Crash
      <4>4. QED BY <4>3
    <3>5. QED BY <3>3, <3>4
  <2>3. QED
    BY <1>2, <2>1, <2>2 DEF Next, Acts, ReportInv
<1>3. ReportInv => OkReportsOutOfOrder
  BY DEF ReportInv, Reporting, OkReportsOutOfOrder
<1>4. QED
  BY <1>1, <1>2, <1>3, InitIInv, NextIInv, PTL DEF Spec
=============================================================================
