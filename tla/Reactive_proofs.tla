-------------------------- MODULE Reactive_proofs --------------------------
(***************************************************************************)
(* Why no wake-up is lost: for any number of connections, tables and       *)
(* watches, as long as no two watches share a connection and every write   *)
(* is announced after it is durable.                                       *)
(***************************************************************************)
EXTENDS Reactive, TLAPS

\* pump drains the whole connection, so each watch needs one of its own.
OneWatchPerConnection == \A v, w \in Watches : Owner[v] = Owner[w] => v = w

\* Every write is announced after its COMMIT, by a trigger of the database
\* or by the LiveRepository that made it.
AnnouncedAfterCommit ==
  \A s \in Setups : s.publishes = "atCommit" \/ s.live = Conns

\* A watch that was opened listens, unless its LISTEN was refused, and a lost
\* connection writes nothing.
Listening ==
  /\ \A w \in Watches \ deaf : mode[w] # "absent" /\ Owner[w] \in alive =>
       Channel[w] \in interested[Owner[w]]
  /\ \A c \in Conns : stage[c] # "idle" => c \in alive

\* Where a trigger announces the writes, no wake-up depends on a writer.
TriggerWakes ==
  setup.publishes = "atCommit" =>
    \A w \in Watches \ deaf : OutOfDate(w) => Channel[w] \in pending[Owner[w]]

Woken == Listening /\ TriggerWakes /\ WakeUpOnItsWay

IInv == TypeOK /\ Woken

\* Every step of a connection or a watch keeps the variables in their types
\* (reactive.noe flush, watch.rs pump and dispatch).
THEOREM TypeCorrect == Spec => []TypeOK
<1>1. Init => TypeOK
  BY DEF Init, TypeOK
<1>2. TypeOK /\ [Next]_vars => TypeOK'
  <2> SUFFICES ASSUME TypeOK, [Next]_vars PROVE TypeOK'
    OBVIOUS
  <2> USE ReactiveAssumption DEF TypeOK
  <2>1. ASSUME NEW c \in Conns, NEW t \in Tables, WriteRow(c, t) PROVE TypeOK'
    BY <2>1 DEF WriteRow, Delivered
  <2>2. ASSUME NEW c \in Conns, Commit(c) PROVE TypeOK'
    <3>1. committed' \in [Tables -> Nat] /\ pending' \in [Conns -> SUBSET Tables]
      BY <2>2 DEF Commit, Delivered
    <3>2. /\ stage' \in [Conns -> {"idle", "open", "notify"}]
          /\ wrote' \in [Conns -> SUBSET Tables]
          /\ \A d \in Conns : stage'[d] = "idle" <=> wrote'[d] = {}
      BY <2>2 DEF Commit
    <3>3. QED
      BY <2>2, <3>1, <3>2 DEF Commit
  <2>3. ASSUME NEW c \in Conns, NEW t \in Tables, Announce(c, t)
        PROVE  TypeOK'
    BY <2>3 DEF Announce, Delivered
  <2>4. ASSUME NEW c \in Conns, Undo(c) \/ Lose(c) PROVE TypeOK'
    BY <2>4 DEF Undo, Lose
  <2>5. ASSUME NEW w \in Watches, Refresh(w) PROVE TypeOK'
    BY <2>5 DEF Refresh, Open, Pump, Requery, QueryFails, Subscribed, Drained, writeVars
  <2>6. CASE UNCHANGED vars
    BY <2>6 DEF vars, writeVars
  <2>7. ASSUME NEW c \in Conns, Notify(c) PROVE TypeOK'
    BY <2>7 DEF Notify, Delivered
  <2>8. ASSUME NEW c \in Conns, FailInside(c) \/ Rollback(c) PROVE TypeOK'
    <3>1. CASE FailInside(c)
      <4>1. /\ stage' \in [Conns -> {"idle", "open", "notify"}]
            /\ wrote' \in [Conns -> SUBSET Tables]
            /\ \A d \in Conns : stage'[d] = "idle" <=> wrote'[d] = {}
        BY <3>1 DEF FailInside
      <4>2. aborted' \subseteq {d \in Conns : stage'[d] = "idle"}
        BY <2>8, <3>1 DEF FailInside
      <4>3. QED
        BY <3>1, <4>1, <4>2 DEF FailInside
    <3>2. CASE Rollback(c)
      BY <3>2 DEF Rollback
    <3>3. QED
      BY <2>8, <3>1, <3>2
  <2>9. QED
    BY <2>1, <2>2, <2>3, <2>4, <2>5, <2>6, <2>7, <2>8 DEF Next, Write
<1>3. QED
  BY <1>1, <1>2, PTL DEF Spec

\* What a watch was told, or is about to be told, no step of a writer or of
\* another watch takes back (pump in watch.rs, flush in reactive.noe).
LEMMA WakeUpStep ==
  ASSUME OneWatchPerConnection, AnnouncedAfterCommit, IInv, [Next]_vars
  PROVE  Woken'
<1> USE ReactiveAssumption DEF IInv, TypeOK, Woken, Listening, TriggerWakes, WakeUpOnItsWay,
               OutOfDate, WakeUpDue
<1>1. ASSUME NEW c \in Conns, NEW t \in Tables, WriteRow(c, t)
      PROVE  Woken'
  <2>1. \A d \in Conns : pending[d] \subseteq pending'[d]
    BY <1>1 DEF WriteRow, Delivered
  <2>2. \A d \in Conns : stage[d] = "notify" =>
          stage'[d] = "notify" /\ wrote'[d] = wrote[d]
    BY <1>1 DEF WriteRow
  <2>3. /\ UNCHANGED <<setup, alive, deaf, unannounced, committed, interested, mode, shown>>
        /\ c \in alive /\ \A d \in Conns \ {c} : stage'[d] = stage[d]
    BY <1>1 DEF WriteRow
  <2>4. QED
    BY <2>1, <2>2, <2>3
<1>2. ASSUME NEW c \in Conns, Commit(c) PROVE Woken'
  <2>1. /\ UNCHANGED <<setup, alive, deaf, unannounced, interested, mode, shown>>
        /\ c \in alive /\ \A d \in Conns \ {c} : stage'[d] = stage[d]
    BY <1>2 DEF Commit
  <2>2. \A d \in Conns : pending[d] \subseteq pending'[d]
    BY <1>2 DEF Commit, Delivered
  <2>3. \A d \in Conns : stage[d] = "notify" =>
          stage'[d] = "notify" /\ wrote'[d] = wrote[d]
    BY <1>2 DEF Commit
  <2>4. ASSUME NEW w \in Watches \ deaf, mode[w] = "showing", Owner[w] \in alive,
               Channel[w] \in wrote[c]
        PROVE  \/ Channel[w] \in pending'[Owner[w]]
               \/ /\ stage'[c] = "notify" /\ Channel[w] \in wrote'[c]
                  /\ setup.publishes # "atCommit"
    <3>1. CASE setup.publishes = "atCommit"
      BY <1>2, <2>4, <3>1 DEF Commit, Delivered
    <3>2. CASE setup.publishes # "atCommit"
      <4>1. c \in setup.live
        BY <3>2 DEF AnnouncedAfterCommit
      <4>2. QED
        BY <1>2, <2>4, <3>2, <4>1 DEF Commit
    <3>3. QED
      BY <3>1, <3>2
  <2>5. ASSUME NEW w \in Watches, Channel[w] \notin wrote[c]
        PROVE  committed'[Channel[w]] = committed[Channel[w]]
    BY <1>2, <2>5 DEF Commit
  <2>6. QED
    BY <2>1, <2>2, <2>3, <2>4, <2>5
<1>3. ASSUME NEW c \in Conns, Notify(c) PROVE Woken'
  <2>1. /\ UNCHANGED <<setup, alive, deaf, committed, interested, mode, shown>>
        /\ unannounced' = unannounced \ wrote[c]
    BY <1>3 DEF Notify
  <2>2. \A d \in Conns : pending[d] \cup (wrote[c] \cap interested[d]) \subseteq pending'[d]
    BY <1>3 DEF Notify, Delivered
  <2>3. /\ \A d \in Conns \ {c} : stage'[d] = stage[d] /\ wrote'[d] = wrote[d]
        /\ stage'[c] = "idle"
    BY <1>3 DEF Notify
  <2>4. QED
    BY <2>1, <2>2, <2>3
<1>4. ASSUME NEW c \in Conns, NEW t \in Tables, Announce(c, t)
      PROVE  Woken'
  <2>1. /\ UNCHANGED <<setup, alive, deaf, committed, stage, wrote, interested, mode, shown>>
        /\ unannounced' = unannounced \ {t}
    BY <1>4 DEF Announce
  <2>2. \A d \in Conns : pending[d] \cup ({t} \cap interested[d]) \subseteq pending'[d]
    BY <1>4 DEF Announce, Delivered
  <2>3. QED
    BY <2>1, <2>2
<1>5. ASSUME NEW c \in Conns, Undo(c) \/ FailInside(c) PROVE Woken'
  <2>1. /\ UNCHANGED <<setup, alive, deaf, unannounced, committed, interested, pending,
                       mode, shown>>
        /\ stage'[c] = "idle" /\ \A d \in Conns \ {c} : stage'[d] = stage[d]
    BY <1>5 DEF Undo, FailInside
  <2>2. \A d \in Conns : stage[d] = "notify" =>
          stage'[d] = "notify" /\ wrote'[d] = wrote[d]
    BY <1>5 DEF Undo, FailInside
  <2>3. QED
    BY <2>1, <2>2
<1>6. ASSUME NEW c \in Conns, Lose(c) PROVE Woken'
  <2>1. /\ UNCHANGED <<setup, deaf, committed, mode, shown>>
        /\ alive' = alive \ {c}
        /\ stage'[c] = "idle"
        /\ \A d \in Conns \ {c} :
             /\ stage'[d] = stage[d] /\ wrote'[d] = wrote[d]
             /\ interested'[d] = interested[d] /\ pending'[d] = pending[d]
    BY <1>6 DEF Lose
  <2>2. unannounced \subseteq unannounced'
    BY <1>6 DEF Lose
  <2>3. ASSUME stage[c] = "notify", setup.publishes # "atCommit"
        PROVE  wrote[c] \subseteq unannounced'
    BY <1>6, <2>3 DEF Lose, Setup
  <2>4. QED
    BY <2>1, <2>2, <2>3
<1>7. ASSUME NEW w \in Watches, Open(w) PROVE Woken'
  BY <1>7 DEF Open, Subscribed, writeVars
<1>8. ASSUME NEW w \in Watches, Pump(w) PROVE Woken'
  <2>1. UNCHANGED <<writeVars, deaf, interested, shown>>
    BY <1>8 DEF Pump
  <2>2. \A v \in Watches \ {w} :
          mode'[v] = mode[v] /\ pending'[Owner[v]] = pending[Owner[v]]
    BY <1>8 DEF Pump, Drained, OneWatchPerConnection
  <2>3. /\ mode[w] # "absent"
        /\ mode'[w] = "showing" =>
             mode[w] = "showing" /\ Channel[w] \notin pending[Owner[w]]
    BY <1>8 DEF Pump
  <2>4. QED
    BY <2>1, <2>2, <2>3 DEF writeVars
<1>9. ASSUME NEW w \in Watches, Requery(w) \/ QueryFails(w) PROVE Woken'
  BY <1>9 DEF Requery, QueryFails, writeVars
<1>10. ASSUME NEW c \in Conns, Rollback(c) PROVE Woken'
  BY <1>10 DEF Rollback
<1>11. CASE UNCHANGED vars
  BY <1>11 DEF vars, writeVars
<1>12. QED
  BY <1>1, <1>2, <1>3, <1>4, <1>5, <1>6, <1>7, <1>8, <1>9, <1>10, <1>11
     DEF Next, Write, Refresh

\* For every number of connections, tables and watches: a live query that is
\* out of date, and whose LISTEN was taken, has a wake-up on its way, whatever the interleaving of
\* writers, notifications, drains and re-runs (watch.rs, reactive.noe).
THEOREM NoLostWakeUp ==
  ASSUME OneWatchPerConnection, AnnouncedAfterCommit
  PROVE  Spec => []WakeUpOnItsWay
<1>1. Init => Woken
  BY ReactiveAssumption DEF Init, Woken, Listening, TriggerWakes, WakeUpOnItsWay, OutOfDate
<1>2. TypeOK /\ Woken /\ [Next]_vars => Woken'
  BY WakeUpStep DEF IInv
<1>3. Woken => WakeUpOnItsWay
  BY DEF Woken
<1>4. QED
  BY <1>1, <1>2, <1>3, TypeCorrect, PTL DEF Spec
=============================================================================
