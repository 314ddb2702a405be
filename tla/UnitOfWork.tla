----------------------------- MODULE UnitOfWork -----------------------------
(***************************************************************************)
(* The unit of work of repo.noe over the connection value of conn.rs.      *)
(*                                                                         *)
(* Each isolate has a repository with its three pending lists and a handle *)
(* on a connection.  A handle is an Arc of a mutex, locked for one method  *)
(* call at a time (conn.migrate and conn.seed run the whole engine inside  *)
(* it), so a step is one call on a connection.  The database is external:  *)
(* the log of the changes that took effect, and the transaction of each    *)
(* connection.                                                             *)
(***************************************************************************)
EXTENDS Sequences, Integers

CONSTANTS
  Isolates,    \* isolates of the program, one repository each
  Conns,       \* connections
  Handle,      \* the connection each isolate's handle is on
  Keys,        \* primary keys
  Engines,     \* the backends to try: subset of {"sqlite", "postgres"}
  MaxStaged,   \* bound on the changes staged in one repository
  MaxLog,      \* bound on the changes that take effect
  MaxFaults    \* bound on failures of the database and deaths of isolates

ASSUME UnitOfWorkAssumption ==
  /\ Handle \in [Isolates -> Conns]
  /\ Engines \subseteq {"sqlite", "postgres"}
  /\ MaxStaged \in Nat /\ MaxLog \in Nat /\ MaxFaults \in Nat

VARIABLES
  engine,  \* the backend
  log,     \* the changes that took effect, in order
  txn,     \* each connection's transaction
  staged,  \* pending_new, pending_dirty and pending_remove of each repository
  asked,   \* the same changes in the order they were staged (observed)
  pc,      \* what each isolate does: nothing, or the next call of its flush
  todo,    \* statements its flush has yet to run
  faults   \* failures so far

vars == <<engine, log, txn, staged, asked, pc, todo, faults>>

-----------------------------------------------------------------------------
Change(kinds) == [kind : kinds, key : Keys]
AnyChange     == Change({"add", "save", "remove", "insert"})

Lists  == [new : Seq(Change({"add"})), dirty : Seq(Change({"save"})),
           removed : Seq(Change({"remove"}))]
Nothing == [new |-> <<>>, dirty |-> <<>>, removed |-> <<>>]

\* "none": no transaction; "broken": Postgres refuses every statement after
\* a failed one; "lost": the connection itself is gone.
Txn    == [state : {"none", "open", "broken", "lost"}, ran : Seq(AnyChange)]
NoTxn  == [state |-> "none", ran |-> <<>>]
Broken == [state |-> "broken", ran |-> <<>>]
Lost   == [state |-> "lost", ran |-> <<>>]

\* The batch in the order flush runs it.
\* (A slip: the deletes go first.)
BatchDeletesFirst(lists) == lists.removed \o lists.new \o lists.dirty

Batch(lists) == lists.new \o lists.dirty \o lists.removed

\* What a change makes of the row of key k: an update or a delete of a row that
\* is not there changes nothing.
Effect(row, change, k) ==
  CASE change.key # k                                       -> row
    [] change.key = k /\ change.kind \in {"add", "insert"}  -> "added"
    [] change.key = k /\ change.kind = "remove"             -> "absent"
    [] change.key = k /\ change.kind = "save"               ->
         IF row = "absent" THEN "absent" ELSE "saved"

\* That row after each of the changes s, and after all of them.
Rows(s, k) ==
  LET row[n \in 0..Len(s)] ==
        IF n = 0 THEN "absent" ELSE Effect(row[n - 1], s[n], k)
  IN row

RowAfter(s, k) == Rows(s, k)[Len(s)]

Present(c, k) == RowAfter(log \o txn[c].ran, k) # "absent"
IsInsert(s)   == s.kind \in {"add", "insert"}

\* Another transaction is in the way: SQLite has one writer at a time, and
\* Postgres locks what a transaction touched (here: also a row it missed).
Blocked(c, s) ==
  \E d \in Conns \ {c} : \E n \in DOMAIN txn[d].ran :
    engine = "postgres" => txn[d].ran[n].key = s.key

Init ==
  /\ engine \in Engines
  /\ log = <<>>
  /\ txn = [c \in Conns |-> NoTxn]
  /\ staged = [i \in Isolates |-> Nothing]
  /\ asked = [i \in Isolates |-> <<>>]
  /\ pc = [i \in Isolates |-> "idle"]
  /\ todo = [i \in Isolates |-> <<>>]
  /\ faults = 0

-----------------------------------------------------------------------------
SpendFault == faults < MaxFaults /\ faults' = faults + 1

\* (A slip: a delete is staged with the updates.)
StagedTogether(lists, s) ==
  CASE s.kind = "add" -> [lists EXCEPT !.new = Append(@, s)]
    [] OTHER          -> [lists EXCEPT !.dirty = Append(@, s)]

\* Each kind of change has a pending list of its own.
Staged(lists, s) ==
  CASE s.kind = "add"    -> [lists EXCEPT !.new = Append(@, s)]
    [] s.kind = "save"   -> [lists EXCEPT !.dirty = Append(@, s)]
    [] s.kind = "remove" -> [lists EXCEPT !.removed = Append(@, s)]

Stage(i, s) ==
  /\ pc[i] = "idle"
  /\ Len(asked[i]) < MaxStaged
  /\ staged' = [staged EXCEPT ![i] = Staged(@, s)]
  /\ asked' = [asked EXCEPT ![i] = Append(@, s)]
  /\ UNCHANGED <<engine, log, txn, pc, todo, faults>>

Discard(i) ==
  /\ pc[i] = "idle"
  /\ staged' = [staged EXCEPT ![i] = Nothing]
  /\ asked' = [asked EXCEPT ![i] = <<>>]
  /\ UNCHANGED <<engine, log, txn, pc, todo, faults>>

\* flush starts with BEGIN.  Inside a transaction SQLite refuses it, Postgres
\* warns and goes on, unless a statement has failed there.
Begin(i) ==
  LET c == Handle[i]
  IN /\ pc[i] = "idle"
     /\ Len(log) + Len(Batch(staged[i])) <= MaxLog
     /\ \/ txn[c].state = "none"
        \/ txn[c].state = "open" /\ engine = "postgres"
     /\ txn' = [txn EXCEPT ![c].state = "open"]
     /\ pc' = [pc EXCEPT ![i] = "flush"]
     /\ todo' = [todo EXCEPT ![i] = Batch(staged[i])]
     /\ UNCHANGED <<engine, log, staged, asked, faults>>

\* (A slip: the statements are run outside the transaction.)
ExecutedAtOnce(c, s) ==
  /\ log' = Append(log, s)
  /\ UNCHANGED txn

\* A statement takes effect in the transaction of the connection, whoever
\* began it, or at once if there is none.
Executed(c, s) ==
  /\ txn[c].state \in {"none", "open"}
  /\ ~Blocked(c, s)
  /\ ~(IsInsert(s) /\ Present(c, s.key))
  /\ IF txn[c].state = "open"
     THEN txn' = [txn EXCEPT ![c].ran = Append(@, s)] /\ UNCHANGED log
     ELSE log' = Append(log, s) /\ UNCHANGED txn

\* A statement that fails is undone alone by SQLite (which may also undo the
\* transaction), and breaks the transaction in Postgres.
AfterFailure(c) ==
  CASE txn[c].state # "open" -> {txn[c]}
    [] engine = "sqlite"     -> {txn[c], NoTxn}
    [] OTHER                 -> {Broken}

\* Statement s on connection c is refused: by the state of the connection, by
\* the primary key, by a lock it waited for too long, or by a fault.
Refused(c, s) ==
  /\ \/ /\ \/ txn[c].state \in {"broken", "lost"}
           \/ IsInsert(s) /\ Present(c, s.key)
           \/ Blocked(c, s)
        /\ UNCHANGED faults
     \/ SpendFault
  /\ \E after \in AfterFailure(c) : txn' = [txn EXCEPT ![c] = after]
  /\ UNCHANGED log

RunStatement(i) ==
  /\ pc[i] = "flush"
  /\ todo[i] # <<>>
  /\ Executed(Handle[i], Head(todo[i]))
  /\ todo' = [todo EXCEPT ![i] = Tail(@)]
  /\ UNCHANGED <<engine, staged, asked, pc, faults>>

\* The error of a statement ends the call: no ROLLBACK, and the lists stay.
StatementFails(i) ==
  /\ pc[i] = "flush"
  /\ todo[i] # <<>>
  /\ Refused(Handle[i], Head(todo[i]))
  /\ pc' = [pc EXCEPT ![i] = "idle"]
  /\ todo' = [todo EXCEPT ![i] = <<>>]
  /\ UNCHANGED <<engine, staged, asked>>

\* COMMIT, and only then are the lists cleared.  Postgres answers a COMMIT of
\* a broken transaction with a rollback and one outside any with a warning;
\* neither is an error to flush.
Commit(i) ==
  LET c == Handle[i]
  IN /\ pc[i] = "flush"
     /\ todo[i] = <<>>
     /\ \/ txn[c].state = "open"
        \/ txn[c].state \in {"none", "broken"} /\ engine = "postgres"
     /\ log' = log \o txn[c].ran
     /\ txn' = [txn EXCEPT ![c] = NoTxn]
     /\ pc' = [pc EXCEPT ![i] = "idle"]
     /\ staged' = [staged EXCEPT ![i] = Nothing]
     /\ asked' = [asked EXCEPT ![i] = <<>>]
     /\ UNCHANGED <<engine, todo, faults>>

\* COMMIT is an error.  SQLite keeps the transaction (or there was none);
\* Postgres undid it, or did it and the answer was lost with the connection (or
\* the connection was lost before, by the call of a neighbour).
CommitFails(i) ==
  LET c == Handle[i]
  IN /\ pc[i] = "flush"
     /\ todo[i] = <<>>
     /\ \/ /\ engine = "sqlite" /\ UNCHANGED <<log, txn>>
           /\ IF txn[c].state = "none" THEN UNCHANGED faults ELSE SpendFault
        \/ /\ txn[c].state = "lost" /\ UNCHANGED <<log, txn, faults>>
        \/ /\ engine = "postgres" /\ SpendFault
           /\ \E after \in {NoTxn, Lost} : txn' = [txn EXCEPT ![c] = after]
           /\ log' \in {log, log \o txn[c].ran}
           /\ txn'[c] = NoTxn => log' = log
     /\ pc' = [pc EXCEPT ![i] = "idle"]
     /\ UNCHANGED <<engine, staged, asked, todo>>

\* Repository.insert: one statement, outside the unit of work.
Insert(i, k) ==
  LET s == [kind |-> "insert", key |-> k]
  IN /\ pc[i] = "idle"
     /\ Len(log) + Len(txn[Handle[i]].ran) < MaxLog
     /\ \/ Executed(Handle[i], s) /\ UNCHANGED faults
        \/ Refused(Handle[i], s)
     /\ UNCHANGED <<engine, staged, asked, pc, todo>>

\* Its answer is lost with the connection: a lone statement has taken effect.
\* (Inside a transaction it is undone with it, which is a refusal.)
InsertUnanswered(i, k) ==
  LET c == Handle[i]
      s == [kind |-> "insert", key |-> k]
  IN /\ pc[i] = "idle"
     /\ Len(log) < MaxLog
     /\ engine = "postgres" /\ txn[c].state = "none"
     /\ ~Blocked(c, s) /\ ~Present(c, k)
     /\ SpendFault
     /\ log' = Append(log, s)
     /\ txn' = [txn EXCEPT ![c] = Lost]
     /\ UNCHANGED <<engine, staged, asked, pc, todo>>

\* conn.migrate or conn.seed with something to run: BEGIN, the files, COMMIT,
\* under one lock.  Nothing of it is a change of this table, but inside a
\* transaction SQLite refuses its BEGIN, and on Postgres its COMMIT ends it.
RunEngine(i) ==
  LET c == Handle[i]
  IN /\ pc[i] = "idle"
     /\ IF txn[c].state = "open" /\ engine = "postgres"
        THEN log' = log \o txn[c].ran /\ txn' = [txn EXCEPT ![c] = NoTxn]
        ELSE UNCHANGED <<log, txn>>
     /\ UNCHANGED <<engine, staged, asked, pc, todo, faults>>

\* The last handle of a connection is dropped and a new one made, or the
\* program sends its own ROLLBACK, while no flush is running on it.
Reopen(c) ==
  /\ \A i \in Isolates : Handle[i] = c => pc[i] = "idle"
  /\ txn[c].state # "none"
  /\ txn' = [txn EXCEPT ![c] = NoTxn]
  /\ UNCHANGED <<engine, log, staged, asked, pc, todo, faults>>

\* An isolate dies inside flush.  Its connection goes with it unless another
\* isolate holds a handle on it.
Die(i) ==
  /\ pc[i] = "flush"
  /\ SpendFault
  /\ pc' = [pc EXCEPT ![i] = "idle"]
  /\ todo' = [todo EXCEPT ![i] = <<>>]
  /\ staged' = [staged EXCEPT ![i] = Nothing]
  /\ asked' = [asked EXCEPT ![i] = <<>>]
  /\ txn' = IF \E j \in Isolates \ {i} : Handle[j] = Handle[i] THEN txn
            ELSE [txn EXCEPT ![Handle[i]] = NoTxn]
  /\ UNCHANGED <<engine, log>>

Next ==
  \/ \E i \in Isolates :
       \/ \E s \in Change({"add", "save", "remove"}) : Stage(i, s)
       \/ \E k \in Keys : Insert(i, k) \/ InsertUnanswered(i, k)
       \/ Discard(i) \/ Begin(i) \/ RunStatement(i) \/ StatementFails(i)
       \/ Commit(i) \/ CommitFails(i) \/ RunEngine(i) \/ Die(i)
  \/ \E c \in Conns : Reopen(c)

Spec == Init /\ [][Next]_vars

-----------------------------------------------------------------------------
\* The values of each variable; a change is only ever in the list of its kind
\* (repo.noe add, save, remove).
TypeOK ==
  /\ engine \in Engines
  /\ log \in Seq(AnyChange)
  /\ txn \in [Conns -> Txn]
  /\ staged \in [Isolates -> Lists]
  /\ asked \in [Isolates -> Seq(Change({"add", "save", "remove"}))]
  /\ pc \in [Isolates -> {"idle", "flush"}]
  /\ todo \in [Isolates -> Seq(AnyChange)]
  /\ faults \in 0..MaxFaults

\* A unit of work takes effect whole or not at all, whatever the other
\* isolates do, a statement, the COMMIT, its answer or the isolate fails, and
\* however often flush is retried (Batches).  Holds where no two isolates
\* share a connection.  (repo.noe: "Commit every staged change as one batch
\* inside a single transaction, then clear the pending lists".)
Promise == INSTANCE Batches WITH log <- log, staged <- staged

BatchesAtomic == Promise!Spec

\* flush regroups what was staged, and that shows in no row, unless a key was
\* added after it had been saved or removed: then the result of a flush that
\* succeeds may differ from the order of the calls (repo.noe flush).
StagingOrderKept ==
  [][\A i \in Isolates :
       /\ staged[i] # Nothing /\ staged'[i] = Nothing /\ log' # log
       /\ \A m, n \in DOMAIN asked[i] :
            m < n /\ asked[i][m].key = asked[i][n].key /\ asked[i][n].kind = "add"
              => asked[i][m].kind = "add"
       => \A k \in Keys : RowAfter(log', k) = RowAfter(log \o asked[i], k)]_vars
=============================================================================
