------------------------------ MODULE Reactive ------------------------------
(***************************************************************************)
(* Live queries: `db.watch` (watch.rs) over the drivers' change            *)
(* notifications (the process bus of sqlite.rs, LISTEN / NOTIFY in pg.rs), *)
(* as LiveRepository (reactive.noe) and plain Repository writers use them. *)
(*                                                                         *)
(* An isolate is single-threaded and holds one connection, so a connection *)
(* stands for both: it writes in transactions, and its app loop pumps the  *)
(* watches opened on it.  A channel is named after a table.  What a query  *)
(* of a table returns is the number of commits that changed the table.     *)
(***************************************************************************)
EXTENDS Integers, FiniteSets

CONSTANTS
  Conns,      \* connections of one process
  Tables,     \* tables, and the channels named after them
  Watches,    \* watches the process opens
  Owner,      \* the connection each watch listens on
  Channel,    \* the table each watch is over
  Setups,     \* the deployments to look at: subset of Setup
  MaxCommits, \* bound on the commits that change one table
  MaxLosses   \* bound on the connections lost

\* When a row change reaches the channel on its own: "atWrite" (SQLite's
\* update hook), "atCommit" (a Postgres trigger) or "never" (Postgres without
\* one); and the connections that write through a LiveRepository.
Setup == [publishes : {"atWrite", "atCommit", "never"}, live : SUBSET Conns]

ASSUME ReactiveAssumption ==
  /\ Owner \in [Watches -> Conns]
  /\ Channel \in [Watches -> Tables]
  /\ Setups \subseteq Setup
  /\ MaxCommits \in Nat /\ MaxLosses \in Nat

VARIABLES
  setup,       \* the deployment
  alive,       \* the connections that are not lost
  aborted,     \* those left inside a transaction in which a statement failed
  deaf,        \* watches that were opened on one of these (observed)
  unannounced, \* tables with a commit whose announcement was lost (observed)
  committed,   \* commits so far that changed each table
  stage,       \* where each connection is in a write
  wrote,       \* the tables its current write changed
  interested,  \* channels each connection listens on
  pending,     \* channels that fired there since the last drain
  mode,        \* each watch: not opened, to be queried, or showing
  shown        \* the state of the table its live query last returned

writeVars == <<setup, alive, aborted, unannounced, committed, stage, wrote>>
vars == <<writeVars, deaf, interested, pending, mode, shown>>

Init ==
  /\ setup \in Setups
  /\ alive = Conns
  /\ aborted = {}
  /\ deaf = {}
  /\ unannounced = {}
  /\ committed = [t \in Tables |-> 0]
  /\ stage = [c \in Conns |-> "idle"]
  /\ wrote = [c \in Conns |-> {}]
  /\ interested = [c \in Conns |-> {}]
  /\ pending = [c \in Conns |-> {}]
  /\ mode = [w \in Watches |-> "absent"]
  /\ shown = [w \in Watches |-> 0]

\* The pending sets after the channels `fired` reach every listener.
Delivered(fired) == [c \in Conns |-> pending[c] \cup (fired \cap interested[c])]

-----------------------------------------------------------------------------
\* A row of t changes inside a transaction of c (a lone statement is one).
\* SQLite has one writer at a time, and calls the update hook here.
WriteRow(c, t) ==
  /\ c \in alive \ aborted
  /\ stage[c] \in {"idle", "open"}
  /\ t \notin wrote[c]
  /\ committed[t] + Cardinality({d \in Conns : t \in wrote[d]}) < MaxCommits
  /\ setup.publishes = "atWrite" => \A d \in Conns \ {c} : stage[d] # "open"
  /\ stage' = [stage EXCEPT ![c] = "open"]
  /\ wrote' = [wrote EXCEPT ![c] = @ \cup {t}]
  /\ pending' = IF setup.publishes = "atWrite" THEN Delivered({t}) ELSE pending
  /\ UNCHANGED <<setup, alive, aborted, deaf, unannounced, committed, interested,
                  mode, shown>>

\* (A slip: the live repository forgets to notify.)
CommitAndForget(c) ==
  /\ stage[c] = "open"
  /\ committed' = [t \in Tables |-> committed[t] + IF t \in wrote[c] THEN 1 ELSE 0]
  /\ pending' = IF setup.publishes = "atCommit" THEN Delivered(wrote[c]) ELSE pending
  /\ stage' = [stage EXCEPT ![c] = "idle"]
  /\ wrote' = [wrote EXCEPT ![c] = {}]
  /\ UNCHANGED <<setup, alive, aborted, deaf, unannounced, interested, mode, shown>>

\* COMMIT.  A live repository still has to notify; a plain one is done.
Commit(c) ==
  /\ stage[c] = "open"
  /\ committed' = [t \in Tables |-> committed[t] + IF t \in wrote[c] THEN 1 ELSE 0]
  /\ pending' = IF setup.publishes = "atCommit" THEN Delivered(wrote[c]) ELSE pending
  /\ IF c \in setup.live
     THEN stage' = [stage EXCEPT ![c] = "notify"] /\ UNCHANGED wrote
     ELSE /\ stage' = [stage EXCEPT ![c] = "idle"]
          /\ wrote' = [wrote EXCEPT ![c] = {}]
  /\ UNCHANGED <<setup, alive, aborted, deaf, unannounced, interested, mode, shown>>

\* conn.notify(channel), after the write of a LiveRepository is durable.
Notify(c) ==
  /\ stage[c] = "notify"
  /\ pending' = Delivered(wrote[c])
  /\ unannounced' = unannounced \ wrote[c]
  /\ stage' = [stage EXCEPT ![c] = "idle"]
  /\ wrote' = [wrote EXCEPT ![c] = {}]
  /\ UNCHANGED <<setup, alive, aborted, deaf, committed, interested, mode, shown>>

\* A notification without a change: an empty flush of a live repository, or a
\* plain conn.notify.
Announce(c, t) ==
  /\ c \in alive \ aborted
  /\ stage[c] = "idle"
  /\ pending' = Delivered({t})
  /\ unannounced' = unannounced \ {t}
  /\ UNCHANGED <<setup, alive, aborted, deaf, committed, stage, wrote, interested,
                  mode, shown>>

\* (A slip: the tables of an undone write are still to be announced.)
UndoKeepsTables(c) ==
  /\ stage[c] = "open"
  /\ stage' = [stage EXCEPT ![c] = "idle"]
  /\ UNCHANGED <<setup, alive, aborted, deaf, unannounced, committed, wrote,
                  interested, pending, mode, shown>>

\* The transaction is undone.  What the hook has published stays published.
Undo(c) ==
  /\ stage[c] = "open"
  /\ stage' = [stage EXCEPT ![c] = "idle"]
  /\ wrote' = [wrote EXCEPT ![c] = {}]
  /\ UNCHANGED <<setup, alive, aborted, deaf, unannounced, committed, interested,
                  pending, mode, shown>>

\* A statement of flush fails, and flush returns without a ROLLBACK: Postgres
\* undoes the transaction and refuses everything until it is ended.
FailInside(c) ==
  /\ setup.publishes # "atWrite"
  /\ stage[c] = "open"
  /\ aborted' = aborted \cup {c}
  /\ stage' = [stage EXCEPT ![c] = "idle"]
  /\ wrote' = [wrote EXCEPT ![c] = {}]
  /\ UNCHANGED <<setup, alive, deaf, unannounced, committed, interested, pending,
                  mode, shown>>

\* The program ends such a transaction.
Rollback(c) ==
  /\ c \in aborted
  /\ aborted' = aborted \ {c}
  /\ UNCHANGED <<setup, alive, deaf, unannounced, committed, stage, wrote,
                  interested, pending, mode, shown>>

\* The connection to a Postgres server is lost for good: its transaction is
\* undone, nothing more reaches it, and a commit that was still to be
\* announced (also one whose answer did not arrive) stays unannounced unless a
\* trigger did it.
Lose(c) ==
  /\ setup.publishes # "atWrite"
  /\ c \in alive
  /\ Cardinality(Conns \ alive) < MaxLosses
  /\ alive' = alive \ {c}
  /\ aborted' = aborted \ {c}
  /\ unannounced' = IF stage[c] = "notify" /\ setup.publishes = "never"
                    THEN unannounced \cup wrote[c] ELSE unannounced
  /\ stage' = [stage EXCEPT ![c] = "idle"]
  /\ wrote' = [wrote EXCEPT ![c] = {}]
  /\ interested' = [interested EXCEPT ![c] = {}]
  /\ pending' = [pending EXCEPT ![c] = {}]
  /\ UNCHANGED <<setup, deaf, committed, mode, shown>>

\* (A slip: the first query runs before the connection listens.)
OpenAfterQuery(w) ==
  /\ mode[w] = "absent"
  /\ mode' = [mode EXCEPT ![w] = "showing"]
  /\ shown' = [shown EXCEPT ![w] = committed[Channel[w]]]
  /\ UNCHANGED <<writeVars, deaf, interested, pending>>

\* listen: the channels each connection is subscribed to afterwards.
Subscribed(c, t) == [interested EXCEPT ![c] = @ \cup {t}]

\* notifications: what is left pending after connection c was drained.
Drained(c) == [pending EXCEPT ![c] = {}]

\* db.watch: the connection listens, then the live query is to run.  That a
\* LISTEN is refused, inside an aborted transaction, goes unnoticed.
Open(w) ==
  /\ mode[w] = "absent"
  /\ Owner[w] \in alive
  /\ stage[Owner[w]] = "idle"
  /\ IF Owner[w] \in aborted
     THEN deaf' = deaf \cup {w} /\ UNCHANGED interested
     ELSE interested' = Subscribed(Owner[w], Channel[w]) /\ UNCHANGED deaf
  /\ mode' = [mode EXCEPT ![w] = "stale"]
  /\ UNCHANGED <<writeVars, pending, shown>>

\* pump, on the isolate's thread: drain the connection's notifications; if
\* this watch's channel is among them, wake its live query (which may have
\* been woken before and not have run yet).  On a lost connection the drain
\* fails, which pump takes for silence; inside a transaction the server holds
\* its notifications back.
Pump(w) ==
  /\ mode[w] # "absent"
  /\ Owner[w] \in alive \ aborted
  /\ stage[Owner[w]] = "idle"
  /\ pending' = Drained(Owner[w])
  /\ mode' = [mode EXCEPT ![w] =
                IF Channel[w] \in pending[Owner[w]] THEN "stale" ELSE @]
  /\ UNCHANGED <<writeVars, deaf, interested, shown>>

\* The live query runs, over the watch's own connection: it reads the revision
\* and then the table.
Requery(w) ==
  /\ mode[w] = "stale"
  /\ Owner[w] \in alive \ aborted
  /\ stage[Owner[w]] = "idle"
  /\ mode' = [mode EXCEPT ![w] = "showing"]
  /\ shown' = [shown EXCEPT ![w] = committed[Channel[w]]]
  /\ UNCHANGED <<writeVars, deaf, interested, pending>>

\* The query is refused inside an aborted transaction.  The program sees its
\* error, and it runs again when it is woken (or, if it stays to be run, before).
QueryFails(w) ==
  /\ mode[w] = "stale"
  /\ Owner[w] \in aborted
  /\ mode' = [mode EXCEPT ![w] = "failed"]
  /\ UNCHANGED <<writeVars, deaf, interested, pending, shown>>

-----------------------------------------------------------------------------
Write(c) == \/ Commit(c) \/ Notify(c) \/ Undo(c) \/ Lose(c)
            \/ FailInside(c) \/ Rollback(c)
            \/ \E t \in Tables : WriteRow(c, t) \/ Announce(c, t)
Refresh(w) == Open(w) \/ Pump(w) \/ Requery(w) \/ QueryFails(w)

Next == (\E c \in Conns : Write(c)) \/ (\E w \in Watches : Refresh(w))

Spec == Init /\ [][Next]_vars

\* A write that was begun ends and is announced, and the app loop gets to
\* pump and to re-run its live queries between the isolate's own writes,
\* however many of those there are.
FairSpec ==
  /\ Spec
  /\ \A c \in Conns : WF_vars(Commit(c) \/ Undo(c)) /\ WF_vars(Notify(c))
  /\ \A w \in Watches : SF_vars(Pump(w)) /\ SF_vars(Requery(w))

-----------------------------------------------------------------------------
\* Each variable has its type, a connection holds changed tables exactly while
\* it is inside a write (LiveRepository.flush, reactive.noe), and none in an
\* aborted transaction is.
TypeOK ==
  /\ setup \in Setups
  /\ alive \subseteq Conns
  /\ aborted \subseteq {c \in Conns : stage[c] = "idle"}
  /\ deaf \subseteq Watches
  /\ unannounced \subseteq Tables
  /\ committed \in [Tables -> Nat]
  /\ stage \in [Conns -> {"idle", "open", "notify"}]
  /\ wrote \in [Conns -> SUBSET Tables]
  /\ \A c \in Conns : stage[c] = "idle" <=> wrote[c] = {}
  /\ interested \in [Conns -> SUBSET Tables]
  /\ pending \in [Conns -> SUBSET Tables]
  /\ mode \in [Watches -> {"absent", "stale", "failed", "showing"}]
  /\ shown \in [Watches -> Nat]

\* A live query shows an old state of its table although its connection lives.
OutOfDate(w) ==
  /\ mode[w] = "showing" /\ shown[w] # committed[Channel[w]]
  /\ Owner[w] \in alive

\* Its channel is pending on its connection, or a writer has yet to announce it;
\* or that writer was lost between the COMMIT and the NOTIFY.
WakeUpDue(w) ==
  \/ Channel[w] \in pending[Owner[w]] \cup unannounced
  \/ \E c \in alive : stage[c] = "notify" /\ Channel[w] \in wrote[c]

\* A live query that no longer shows the table has a wake-up on its way,
\* unless its own connection is lost or its LISTEN was refused.
\* (LiveRepository.flush notifies after the COMMIT; pump drains.)
WakeUpOnItsWay == \A w \in Watches \ deaf : OutOfDate(w) => WakeUpDue(w)

\* Once the writes stop, every open live query shows the table for good, with
\* the same exceptions, or the error of a query inside an aborted transaction.
\* (README: a write through any connection of the process wakes every db.watch
\* on that table.)
LiveQueriesCatchUp ==
  \A w \in Watches :
    <>[](/\ mode[w] \notin {"absent", "failed"} /\ w \notin deaf
         /\ Owner[w] \in alive \ aborted
         => shown[w] = committed[Channel[w]] \/ Channel[w] \in unannounced)
=============================================================================
