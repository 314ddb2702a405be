------------------------- MODULE UnitOfWork_proofs -------------------------
(***************************************************************************)
(* Why a unit of work is atomic: for any number of isolates, keys, changes *)
(* and faults, as long as no two isolates share a connection.              *)
(***************************************************************************)
EXTENDS UnitOfWork, NaturalRecursion, TLAPS

OwnConnection == \A i, j \in Isolates : Handle[i] = Handle[j] => i = j

\* A flush in progress is inside its own transaction, which holds the part of
\* the batch that has run; an idle isolate on Postgres is not inside one that
\* would still take statements.
FlushInvariant ==
  /\ \A c \in Conns : txn[c].state # "open" => txn[c].ran = <<>>
  /\ \A i \in Isolates :
       IF pc[i] = "flush"
       THEN /\ txn[Handle[i]].state = "open"
            /\ txn[Handle[i]].ran \o todo[i] = Batch(staged[i])
       ELSE engine = "postgres" => txn[Handle[i]].state # "open"

IInv == TypeOK /\ FlushInvariant

\* What flush runs consists of changes (repo.noe flush).
LEMMA BatchType ==
  ASSUME NEW lists \in Lists
  PROVE  Batch(lists) \in Seq(AnyChange)
<1>1. /\ Change({"add"}) \subseteq AnyChange
      /\ Change({"save"}) \subseteq AnyChange
      /\ Change({"remove"}) \subseteq AnyChange
  BY DEF Change, AnyChange
<1>2. /\ lists.new \in Seq(AnyChange)
      /\ lists.dirty \in Seq(AnyChange)
      /\ lists.removed \in Seq(AnyChange)
  <2>1. /\ lists.new \in Seq(Change({"add"}))
        /\ lists.dirty \in Seq(Change({"save"}))
        /\ lists.removed \in Seq(Change({"remove"}))
    BY DEF Lists
  <2>2. QED
    BY <1>1, <2>1
<1>3. QED
  BY <1>2 DEF Batch

\* Staging keeps each change in the list of its kind (repo.noe add, save,
\* remove).
LEMMA StagedType ==
  ASSUME NEW lists \in Lists, NEW s \in Change({"add", "save", "remove"})
  PROVE  Staged(lists, s) \in Lists
<1>1. CASE s.kind = "add"
  <2>1. s \in Change({"add"})
    BY <1>1 DEF Change
  <2>2. Append(lists.new, s) \in Seq(Change({"add"}))
    BY <2>1 DEF Lists
  <2>3. Staged(lists, s) = [lists EXCEPT !.new = Append(@, s)]
    BY <1>1 DEF Staged
  <2>4. QED
    BY <2>2, <2>3 DEF Lists
<1>2. CASE s.kind = "save"
  <2>1. s \in Change({"save"})
    BY <1>2 DEF Change
  <2>2. Append(lists.dirty, s) \in Seq(Change({"save"}))
    BY <2>1 DEF Lists
  <2>3. Staged(lists, s) = [lists EXCEPT !.dirty = Append(@, s)]
    BY <1>2 DEF Staged
  <2>4. QED
    BY <2>2, <2>3 DEF Lists
<1>3. CASE s.kind = "remove"
  <2>1. s \in Change({"remove"})
    BY <1>3 DEF Change
  <2>2. Append(lists.removed, s) \in Seq(Change({"remove"}))
    BY <2>1 DEF Lists
  <2>3. Staged(lists, s) = [lists EXCEPT !.removed = Append(@, s)]
    BY <1>3 DEF Staged
  <2>4. QED
    BY <2>2, <2>3 DEF Lists
<1>4. QED
  BY <1>1, <1>2, <1>3 DEF Change

\* A connection call of any isolate keeps every variable in its type
\* (conn.rs, repo.noe).
LEMMA TypeStep == TypeOK /\ [Next]_vars => TypeOK'
<1> SUFFICES ASSUME TypeOK, [Next]_vars PROVE TypeOK'
  OBVIOUS
<1> USE UnitOfWorkAssumption
<1>0. NoTxn \in Txn /\ Broken \in Txn /\ Lost \in Txn /\ Nothing \in Lists
  BY DEF NoTxn, Broken, Lost, Txn, Nothing, Lists
<1>1. ASSUME NEW i \in Isolates, NEW s \in Change({"add", "save", "remove"}),
             Stage(i, s)
      PROVE  TypeOK'
  <2>1. Staged(staged[i], s) \in Lists
    BY StagedType DEF TypeOK
  <2>2. Append(asked[i], s) \in Seq(Change({"add", "save", "remove"}))
    BY DEF TypeOK
  <2>3. QED
    BY <1>1, <2>1, <2>2 DEF Stage, TypeOK
<1>2. ASSUME NEW c \in Conns, NEW s \in AnyChange, Executed(c, s)
      PROVE  log' \in Seq(AnyChange) /\ txn' \in [Conns -> Txn]
  <2>1. Append(log, s) \in Seq(AnyChange) /\ Append(txn[c].ran, s) \in Seq(AnyChange)
    BY DEF TypeOK, Txn
  <2>2. [txn EXCEPT ![c].ran = Append(@, s)] \in [Conns -> Txn]
    BY <2>1 DEF TypeOK, Txn
  <2>3. QED
    BY <1>2, <2>1, <2>2 DEF Executed, TypeOK
<1>3. ASSUME NEW c \in Conns, NEW s \in AnyChange, Refused(c, s)
      PROVE  log' \in Seq(AnyChange) /\ txn' \in [Conns -> Txn] /\ faults' \in 0..MaxFaults
  <2>1. AfterFailure(c) \subseteq Txn
    BY <1>0 DEF AfterFailure, TypeOK
  <2>2. txn' \in [Conns -> Txn] /\ log' = log
    BY <1>3, <2>1 DEF Refused, TypeOK
  <2>3. faults' \in 0..MaxFaults
    BY <1>3 DEF Refused, SpendFault, TypeOK
  <2>4. QED
    BY <2>2, <2>3 DEF TypeOK
<1>4. ASSUME NEW i \in Isolates, Begin(i) PROVE TypeOK'
  <2>1. Batch(staged[i]) \in Seq(AnyChange)
    BY BatchType DEF TypeOK
  <2>2. txn' \in [Conns -> Txn]
    BY <1>4 DEF Begin, TypeOK, Txn
  <2>3. QED
    BY <1>4, <2>1, <2>2 DEF Begin, TypeOK
<1>5. ASSUME NEW i \in Isolates, RunStatement(i) PROVE TypeOK'
  <2>1. Head(todo[i]) \in AnyChange /\ Tail(todo[i]) \in Seq(AnyChange)
    BY <1>5 DEF RunStatement, TypeOK
  <2>2. log' \in Seq(AnyChange) /\ txn' \in [Conns -> Txn]
    BY <1>2, <1>5, <2>1 DEF RunStatement
  <2>3. QED
    BY <1>5, <2>1, <2>2 DEF RunStatement, TypeOK
<1>6. ASSUME NEW i \in Isolates, StatementFails(i) PROVE TypeOK'
  <2>1. Head(todo[i]) \in AnyChange /\ <<>> \in Seq(AnyChange)
    BY <1>6 DEF StatementFails, TypeOK
  <2>2. log' \in Seq(AnyChange) /\ txn' \in [Conns -> Txn] /\ faults' \in 0..MaxFaults
    BY <1>3, <1>6, <2>1 DEF StatementFails
  <2>3. QED
    BY <1>6, <2>1, <2>2 DEF StatementFails, TypeOK
<1>7. ASSUME NEW i \in Isolates, Commit(i) PROVE TypeOK'
  <2>1. log \o txn[Handle[i]].ran \in Seq(AnyChange)
    BY DEF TypeOK, Txn
  <2>2. <<>> \in Seq(Change({"add", "save", "remove"}))
    OBVIOUS
  <2>3. QED
    BY <1>0, <1>7, <2>1, <2>2 DEF Commit, TypeOK
<1>8. ASSUME NEW i \in Isolates, CommitFails(i) PROVE TypeOK'
  <2>1. log \o txn[Handle[i]].ran \in Seq(AnyChange)
    BY DEF TypeOK, Txn
  <2>2. log' \in Seq(AnyChange) /\ txn' \in [Conns -> Txn]
    <3>1. /\ log' = log \/ log' = log \o txn[Handle[i]].ran
          /\ \/ txn' = txn
             \/ txn' = [txn EXCEPT ![Handle[i]] = NoTxn]
             \/ txn' = [txn EXCEPT ![Handle[i]] = Lost]
      BY <1>8 DEF CommitFails
    <3>2. log \in Seq(AnyChange) /\ txn \in [Conns -> Txn]
      BY DEF TypeOK
    <3>3. txn' \in [Conns -> Txn]
      BY <1>0, <3>1, <3>2
    <3>4. QED
      BY <2>1, <3>1, <3>2, <3>3
  <2>3. faults' \in 0..MaxFaults
    BY <1>8 DEF CommitFails, SpendFault, TypeOK
  <2>4. QED
    BY <1>8, <2>2, <2>3 DEF CommitFails, TypeOK
<1>9. ASSUME NEW i \in Isolates, NEW k \in Keys, Insert(i, k) PROVE TypeOK'
  <2> DEFINE s == [kind |-> "insert", key |-> k]
  <2>1. s \in AnyChange
    BY DEF AnyChange, Change
  <2>2. log' \in Seq(AnyChange) /\ txn' \in [Conns -> Txn]
    BY <1>2, <1>3, <1>9, <2>1 DEF Insert
  <2>3. faults' \in 0..MaxFaults
    BY <1>3, <1>9, <2>1 DEF Insert, TypeOK
  <2>4. QED
    BY <1>9, <2>2, <2>3 DEF Insert, TypeOK
<1>10. ASSUME NEW i \in Isolates, Discard(i) PROVE TypeOK'
  <2>1. <<>> \in Seq(Change({"add", "save", "remove"}))
    OBVIOUS
  <2>2. QED
    BY <1>0, <1>10, <2>1 DEF Discard, TypeOK
<1>11. ASSUME NEW i \in Isolates, RunEngine(i) PROVE TypeOK'
  <2>1. log \o txn[Handle[i]].ran \in Seq(AnyChange)
    BY DEF TypeOK, Txn
  <2>2. /\ log' = log \/ log' = log \o txn[Handle[i]].ran
        /\ txn' = txn \/ txn' = [txn EXCEPT ![Handle[i]] = NoTxn]
    BY <1>11 DEF RunEngine
  <2>3. log' \in Seq(AnyChange) /\ txn' \in [Conns -> Txn]
    <3>1. log \in Seq(AnyChange) /\ txn \in [Conns -> Txn]
      BY DEF TypeOK
    <3>2. txn' \in [Conns -> Txn]
      BY <1>0, <2>2, <3>1
    <3>3. QED
      BY <2>1, <2>2, <3>1, <3>2
  <2>4. QED
    BY <1>11, <2>3 DEF RunEngine, TypeOK
<1>12. ASSUME NEW i \in Isolates, Die(i) PROVE TypeOK'
  <2>1. /\ <<>> \in Seq(AnyChange)
        /\ <<>> \in Seq(Change({"add", "save", "remove"}))
    OBVIOUS
  <2>2. faults' \in 0..MaxFaults
    BY <1>12 DEF Die, SpendFault, TypeOK
  <2>3. QED
    BY <1>0, <1>12, <2>1, <2>2 DEF Die, TypeOK
<1>13. ASSUME NEW c \in Conns, Reopen(c) PROVE TypeOK'
  BY <1>0, <1>13 DEF Reopen, TypeOK
<1>14. ASSUME NEW i \in Isolates, NEW k \in Keys, InsertUnanswered(i, k)
       PROVE  TypeOK'
  <2> DEFINE s == [kind |-> "insert", key |-> k]
  <2>1. Append(log, s) \in Seq(AnyChange)
    BY DEF AnyChange, Change, TypeOK
  <2>2. faults' \in 0..MaxFaults
    BY <1>14 DEF InsertUnanswered, SpendFault, TypeOK
  <2>3. QED
    BY <1>0, <1>14, <2>1, <2>2 DEF InsertUnanswered, TypeOK
<1>15. CASE UNCHANGED vars
  BY <1>15 DEF vars, TypeOK
<1>16. QED
  BY <1>1, <1>4, <1>5, <1>6, <1>7, <1>8, <1>9, <1>10, <1>11, <1>12, <1>13,
     <1>14, <1>15 DEF Next

\* Running the next statement moves it from what is left to what has run
\* (repo.noe flush).
LEMMA HeadMoves ==
  ASSUME NEW S, NEW ran \in Seq(S), NEW rest \in Seq(S), rest # <<>>
  PROVE  Append(ran, Head(rest)) \o Tail(rest) = ran \o rest
OBVIOUS

\* With a connection for each isolate, the transaction of a flush holds what
\* the flush has run and nothing else (repo.noe flush).
LEMMA FlushStep ==
  ASSUME OwnConnection, IInv, [Next]_vars
  PROVE  FlushInvariant'
<1> USE UnitOfWorkAssumption DEF IInv
<1>0. /\ \A i \in Isolates : Handle[i] \in Conns
      /\ \A i, j \in Isolates : i # j => Handle[i] # Handle[j]
      /\ \A i \in Isolates : /\ todo[i] \in Seq(AnyChange)
                             /\ Batch(staged[i]) \in Seq(AnyChange)
      /\ \A c \in Conns : txn[c].ran \in Seq(AnyChange)
  BY BatchType DEF OwnConnection, TypeOK, Txn
\* A step that leaves an isolate and its connection alone.
<1>1. ASSUME NEW j \in Isolates,
             pc'[j] = pc[j], todo'[j] = todo[j], staged'[j] = staged[j],
             txn'[Handle[j]] = txn[Handle[j]], engine' = engine
      PROVE  IF pc'[j] = "flush"
             THEN /\ txn'[Handle[j]].state = "open"
                  /\ txn'[Handle[j]].ran \o todo'[j] = Batch(staged'[j])
             ELSE engine' = "postgres" => txn'[Handle[j]].state # "open"
  <2>1. Batch(staged'[j]) = Batch(staged[j])
    BY <1>1
  <2>2. QED
    BY <1>1, <2>1 DEF FlushInvariant
<1>2. ASSUME NEW i \in Isolates, NEW s \in Change({"add", "save", "remove"}),
             Stage(i, s)
      PROVE  FlushInvariant'
  <2>1. \A j \in Isolates \ {i} : staged'[j] = staged[j]
    BY <1>2 DEF Stage, TypeOK
  <2>2. pc[i] = "idle" /\ UNCHANGED <<engine, txn, pc, todo>>
    BY <1>2 DEF Stage
  <2>3. QED
    BY <1>0, <1>1, <2>1, <2>2 DEF FlushInvariant
<1>3. ASSUME NEW i \in Isolates, Discard(i) PROVE FlushInvariant'
  <2>1. \A j \in Isolates \ {i} : staged'[j] = staged[j]
    BY <1>3 DEF Discard, TypeOK
  <2>2. pc[i] = "idle" /\ UNCHANGED <<engine, txn, pc, todo>>
    BY <1>3 DEF Discard
  <2>3. QED
    BY <1>0, <1>1, <2>1, <2>2 DEF FlushInvariant
<1>4. ASSUME NEW i \in Isolates, Begin(i) PROVE FlushInvariant'
  <2>1. txn[Handle[i]].state = "none" /\ txn[Handle[i]].ran = <<>>
    BY <1>0, <1>4 DEF Begin, FlushInvariant
  <2>2. /\ txn'[Handle[i]].state = "open" /\ txn'[Handle[i]].ran = <<>>
        /\ \A c \in Conns \ {Handle[i]} : txn'[c] = txn[c]
        /\ pc'[i] = "flush" /\ todo'[i] = Batch(staged[i])
        /\ \A j \in Isolates \ {i} : pc'[j] = pc[j] /\ todo'[j] = todo[j]
        /\ UNCHANGED <<engine, staged>>
    BY <1>0, <1>4, <2>1 DEF Begin, TypeOK, Txn
  <2>3. txn'[Handle[i]].ran \o todo'[i] = Batch(staged'[i])
    BY <1>0, <2>2
  <2>4. QED
    BY <1>0, <1>1, <2>2, <2>3 DEF FlushInvariant
<1>5. ASSUME NEW i \in Isolates, RunStatement(i) PROVE FlushInvariant'
  <2>1. pc[i] = "flush" /\ txn[Handle[i]].state = "open"
    BY <1>5 DEF RunStatement, FlushInvariant
  <2>2. /\ txn'[Handle[i]].state = "open"
        /\ txn'[Handle[i]].ran = Append(txn[Handle[i]].ran, Head(todo[i]))
        /\ \A c \in Conns \ {Handle[i]} : txn'[c] = txn[c]
    <3>1. txn' = [txn EXCEPT ![Handle[i]].ran = Append(@, Head(todo[i]))]
      BY <1>5, <2>1 DEF RunStatement, Executed
    <3>2. txn \in [Conns -> Txn]
      BY DEF TypeOK
    <3>3. QED
      BY <1>0, <2>1, <3>1, <3>2 DEF Txn
  <2>3. /\ todo[i] # <<>> /\ todo'[i] = Tail(todo[i])
        /\ \A j \in Isolates \ {i} : todo'[j] = todo[j]
        /\ UNCHANGED <<engine, staged, pc>>
    BY <1>5 DEF RunStatement, TypeOK
  <2>4. txn'[Handle[i]].ran \o todo'[i] = txn[Handle[i]].ran \o todo[i]
    <3>1. Append(txn[Handle[i]].ran, Head(todo[i])) \o Tail(todo[i])
            = txn[Handle[i]].ran \o todo[i]
      BY <1>0, <2>3, HeadMoves
    <3>2. QED
      BY <2>2, <2>3, <3>1
  <2>5. QED
    <3>1. txn'[Handle[i]].ran \o todo'[i] = Batch(staged'[i])
      BY <2>1, <2>3, <2>4 DEF FlushInvariant
    <3>2. \A c \in Conns : txn'[c].state # "open" => txn'[c].ran = <<>>
      BY <2>2 DEF FlushInvariant
    <3>3. QED
      BY <1>0, <1>1, <2>1, <2>2, <2>3, <3>1, <3>2 DEF FlushInvariant
\* A refused statement leaves the connection in a state the flush has left.
<1>6. ASSUME NEW i \in Isolates, NEW s, Refused(Handle[i], s)
      PROVE  /\ \A c \in Conns \ {Handle[i]} : txn'[c] = txn[c]
             /\ txn'[Handle[i]].state # "open" => txn'[Handle[i]].ran = <<>>
             /\ engine = "postgres" => txn'[Handle[i]].state # "open"
  <2>1. PICK after \in AfterFailure(Handle[i]) : txn' = [txn EXCEPT ![Handle[i]] = after]
    BY <1>6 DEF Refused
  <2>2. /\ after.state # "open" => after.ran = <<>>
        /\ engine = "postgres" => after.state # "open"
    BY <1>0, <2>1 DEF AfterFailure, NoTxn, Broken, FlushInvariant, TypeOK
  <2>3. QED
    BY <1>0, <2>1, <2>2 DEF TypeOK
<1>7. ASSUME NEW i \in Isolates, StatementFails(i) PROVE FlushInvariant'
  <2>1. /\ pc'[i] = "idle"
        /\ \A j \in Isolates \ {i} : pc'[j] = pc[j] /\ todo'[j] = todo[j]
        /\ UNCHANGED <<engine, staged>>
    BY <1>7 DEF StatementFails, TypeOK
  <2>2. Refused(Handle[i], Head(todo[i]))
    BY <1>7 DEF StatementFails
  <2>3. /\ \A c \in Conns \ {Handle[i]} : txn'[c] = txn[c]
        /\ txn'[Handle[i]].state # "open" => txn'[Handle[i]].ran = <<>>
        /\ engine = "postgres" => txn'[Handle[i]].state # "open"
    BY <1>6, <2>2
  <2>4. QED
    BY <1>0, <1>1, <2>1, <2>3 DEF FlushInvariant
\* The end of a transaction, by any call of an isolate that is idle after it.
<1>8. ASSUME NEW i \in Isolates, pc'[i] = "idle", engine' = engine,
             \A j \in Isolates \ {i} : /\ pc'[j] = pc[j] /\ todo'[j] = todo[j]
                                       /\ staged'[j] = staged[j],
             \A c \in Conns \ {Handle[i]} : txn'[c] = txn[c],
             \/ txn'[Handle[i]] \in {NoTxn, Lost}
             \/ txn'[Handle[i]] = txn[Handle[i]] /\ engine = "sqlite"
      PROVE  FlushInvariant'
  <2>1. /\ txn'[Handle[i]].state # "open" => txn'[Handle[i]].ran = <<>>
        /\ engine' = "postgres" => txn'[Handle[i]].state # "open"
    BY <1>0, <1>8 DEF NoTxn, Lost, FlushInvariant
  <2>2. \A c \in Conns : txn'[c].state # "open" => txn'[c].ran = <<>>
    BY <1>8, <2>1 DEF FlushInvariant
  <2>3. QED
    BY <1>0, <1>1, <1>8, <2>1, <2>2 DEF FlushInvariant
<1>9. ASSUME NEW i \in Isolates, Commit(i) PROVE FlushInvariant'
  BY <1>0, <1>8, <1>9 DEF Commit, TypeOK
<1>10. ASSUME NEW i \in Isolates, CommitFails(i) PROVE FlushInvariant'
  <2>1. \/ engine = "sqlite" /\ txn' = txn
        \/ txn' = [txn EXCEPT ![Handle[i]] = NoTxn]
        \/ txn' = [txn EXCEPT ![Handle[i]] = Lost]
    BY <1>0, <1>10 DEF CommitFails, FlushInvariant, Lost
  <2>2. /\ pc'[i] = "idle" /\ engine' = engine
        /\ \A j \in Isolates \ {i} : /\ pc'[j] = pc[j] /\ todo'[j] = todo[j]
                                     /\ staged'[j] = staged[j]
    BY <1>10 DEF CommitFails, TypeOK
  <2>3. QED
    BY <1>0, <1>8, <2>1, <2>2 DEF TypeOK
<1>11. ASSUME NEW i \in Isolates, NEW k \in Keys, Insert(i, k)
       PROVE  FlushInvariant'
  <2> DEFINE s == [kind |-> "insert", key |-> k]
  <2>1. pc[i] = "idle" /\ UNCHANGED <<engine, staged, pc, todo>>
    BY <1>11 DEF Insert
  <2>2. CASE Executed(Handle[i], s)
    <3>1. /\ \A c \in Conns \ {Handle[i]} : txn'[c] = txn[c]
          /\ txn'[Handle[i]].state = txn[Handle[i]].state
          /\ txn[Handle[i]].state # "open" => txn'[Handle[i]] = txn[Handle[i]]
      <4>1. \/ txn' = txn
            \/ /\ txn[Handle[i]].state = "open"
               /\ txn' = [txn EXCEPT ![Handle[i]].ran = Append(@, s)]
        BY <2>2 DEF Executed
      <4>2. txn \in [Conns -> Txn]
        BY DEF TypeOK
      <4>3. CASE txn' = txn
        BY <4>3
      <4>4. CASE /\ txn[Handle[i]].state = "open"
                 /\ txn' = [txn EXCEPT ![Handle[i]].ran = Append(@, s)]
        <5>1. /\ \A c \in Conns \ {Handle[i]} : txn'[c] = txn[c]
              /\ txn'[Handle[i]] =
                   [txn[Handle[i]] EXCEPT !.ran = Append(@, s)]
          BY <1>0, <4>2, <4>4
        <5>2. txn[Handle[i]] \in Txn
          BY <1>0, <4>2
        <5>3. QED
          BY <4>4, <5>1, <5>2 DEF Txn
      <4>5. QED
        BY <4>1, <4>3, <4>4
    <3>2. /\ txn'[Handle[i]].state # "open" => txn'[Handle[i]].ran = <<>>
          /\ engine' = "postgres" => txn'[Handle[i]].state # "open"
      BY <1>0, <2>1, <3>1 DEF FlushInvariant
    <3>3. QED
      BY <1>0, <1>1, <2>1, <3>1, <3>2 DEF FlushInvariant
  <2>3. CASE Refused(Handle[i], s)
    BY <1>0, <1>1, <1>6, <2>1, <2>3 DEF FlushInvariant
  <2>4. QED
    BY <1>11, <2>2, <2>3 DEF Insert
<1>12. ASSUME NEW i \in Isolates, RunEngine(i) PROVE FlushInvariant'
  <2>1. UNCHANGED <<engine, staged, pc, todo, txn>>
    BY <1>12 DEF RunEngine, FlushInvariant
  <2>2. QED
    BY <1>0, <1>1, <2>1 DEF FlushInvariant
<1>13. ASSUME NEW i \in Isolates, Die(i) PROVE FlushInvariant'
  <2>1. txn' = [txn EXCEPT ![Handle[i]] = NoTxn]
    BY <1>0, <1>13 DEF Die
  <2>2. /\ pc'[i] = "idle" /\ engine' = engine
        /\ \A j \in Isolates \ {i} : /\ pc'[j] = pc[j] /\ todo'[j] = todo[j]
                                     /\ staged'[j] = staged[j]
    BY <1>13 DEF Die, TypeOK
  <2>3. QED
    BY <1>0, <1>8, <2>1, <2>2 DEF TypeOK
<1>14. ASSUME NEW c \in Conns, Reopen(c) PROVE FlushInvariant'
  <2>1. /\ \A i \in Isolates : Handle[i] = c => pc[i] = "idle"
        /\ txn'[c] = NoTxn /\ \A d \in Conns \ {c} : txn'[d] = txn[d]
        /\ UNCHANGED <<engine, staged, pc, todo>>
    BY <1>14 DEF Reopen, TypeOK
  <2>2. txn'[c].state # "open" /\ txn'[c].ran = <<>>
    BY <2>1 DEF NoTxn
  <2>3. \A d \in Conns : txn'[d].state # "open" => txn'[d].ran = <<>>
    BY <2>1, <2>2 DEF FlushInvariant
  <2>4. ASSUME NEW i \in Isolates, Handle[i] = c
        PROVE  pc'[i] # "flush" /\ txn'[Handle[i]].state # "open"
    BY <2>1, <2>2, <2>4
  <2>5. QED
    BY <1>0, <1>1, <2>1, <2>3, <2>4 DEF FlushInvariant
<1>15. ASSUME NEW i \in Isolates, NEW k \in Keys, InsertUnanswered(i, k)
       PROVE  FlushInvariant'
  <2>1. /\ pc'[i] = "idle" /\ UNCHANGED <<engine, staged, pc, todo>>
        /\ txn' = [txn EXCEPT ![Handle[i]] = Lost]
    BY <1>15 DEF InsertUnanswered
  <2>2. QED
    BY <1>0, <1>8, <2>1 DEF TypeOK
<1>16. CASE UNCHANGED vars
  BY <1>0, <1>1, <1>16 DEF vars, FlushInvariant
<1>17. QED
  BY <1>2, <1>3, <1>4, <1>5, <1>7, <1>9, <1>10, <1>11, <1>12, <1>13, <1>14,
     <1>15, <1>16 DEF Next

\* The abstract batch is the one flush runs (repo.noe flush).
LEMMA SameBatch == \A lists : Promise!Block(lists) = Batch(lists)
BY DEF Promise!Block, Batch

\* Every step of an isolate is a step of the promise, or shows nothing in the
\* table and in the lists (repo.noe, conn.rs).
LEMMA PromiseStep ==
  ASSUME OwnConnection, IInv, TypeOK', [Next]_vars
  PROVE  [Promise!Next]_<<log, staged>>
<1> USE UnitOfWorkAssumption DEF IInv
<1>1. \A i \in Isolates : Handle[i] \in Conns
  OBVIOUS
<1>2. ASSUME NEW i \in Isolates, UNCHANGED log, staged'[i] \in Promise!Lists,
             staged' = [staged EXCEPT ![i] = staged'[i]]
      PROVE  Promise!Next
  BY <1>2 DEF Promise!Next, Promise!Edit
<1>3. \A i \in Isolates : staged'[i] \in Promise!Lists
  BY DEF TypeOK, Lists, Change, Promise!Lists, Promise!Change
<1>4. Nothing = Promise!Empty
  BY DEF Nothing, Promise!Empty
<1>5. ASSUME NEW i \in Isolates, NEW s \in Change({"add", "save", "remove"}),
             Stage(i, s)
      PROVE  Promise!Next
  BY <1>2, <1>3, <1>5 DEF Stage, TypeOK
<1>6. ASSUME NEW i \in Isolates, Discard(i) PROVE Promise!Next
  BY <1>2, <1>3, <1>6 DEF Discard, TypeOK
<1>7. ASSUME NEW i \in Isolates, Die(i) PROVE Promise!Next
  BY <1>2, <1>3, <1>7 DEF Die, TypeOK
<1>8. ASSUME NEW i \in Isolates, Begin(i) PROVE UNCHANGED <<log, staged>>
  BY <1>8 DEF Begin
<1>9. ASSUME NEW i \in Isolates, RunStatement(i)
      PROVE  UNCHANGED <<log, staged>>
  <2>1. txn[Handle[i]].state = "open"
    BY <1>9 DEF RunStatement, FlushInvariant
  <2>2. QED
    BY <1>9, <2>1 DEF RunStatement, Executed
<1>10. ASSUME NEW i \in Isolates, StatementFails(i)
       PROVE  UNCHANGED <<log, staged>>
  BY <1>10 DEF StatementFails, Refused
\* What a COMMIT of a flush commits is the batch.
<1>11. ASSUME NEW i \in Isolates, pc[i] = "flush", todo[i] = <<>>
       PROVE  log \o txn[Handle[i]].ran = log \o Promise!Block(staged[i])
  <2>1. txn[Handle[i]].ran \o <<>> = Batch(staged[i])
    BY <1>11 DEF FlushInvariant
  <2>2. txn[Handle[i]].ran \in Seq(AnyChange)
    BY <1>1 DEF TypeOK, Txn
  <2>3. QED
    BY <2>1, <2>2, SameBatch
<1>12. ASSUME NEW i \in Isolates, Commit(i) PROVE Promise!Next
  <2>1. log' = log \o Promise!Block(staged[i])
    BY <1>11, <1>12 DEF Commit
  <2>2. staged' = [staged EXCEPT ![i] = Promise!Empty]
    BY <1>4, <1>12 DEF Commit
  <2>3. QED
    BY <2>1, <2>2 DEF Promise!Next, Promise!Flush
<1>13. ASSUME NEW i \in Isolates, CommitFails(i)
       PROVE  Promise!Next \/ UNCHANGED <<log, staged>>
  <2>1. /\ pc[i] = "flush" /\ todo[i] = <<>> /\ UNCHANGED staged
        /\ log' = log \/ log' = log \o txn[Handle[i]].ran
    BY <1>13 DEF CommitFails
  <2>2. CASE log' = log \o txn[Handle[i]].ran
    BY <1>11, <2>1, <2>2 DEF Promise!Next, Promise!Flush
  <2>3. QED
    BY <2>1, <2>2
<1>14. ASSUME NEW i \in Isolates, NEW k \in Keys,
              Insert(i, k) \/ InsertUnanswered(i, k)
       PROVE  Promise!Next \/ UNCHANGED <<log, staged>>
  <2> DEFINE s == [kind |-> "insert", key |-> k]
  <2>1. UNCHANGED staged /\ (log' = log \/ log' = Append(log, s))
    BY <1>14 DEF Insert, InsertUnanswered, Executed, Refused
  <2>2. s \in Promise!Change({"insert"})
    BY DEF Promise!Change
  <2>3. QED
    BY <2>1, <2>2 DEF Promise!Next, Promise!Insert
<1>15. ASSUME NEW i \in Isolates, RunEngine(i)
       PROVE  UNCHANGED <<log, staged>>
  BY <1>15 DEF RunEngine, FlushInvariant
<1>16. ASSUME NEW c \in Conns, Reopen(c) PROVE UNCHANGED <<log, staged>>
  BY <1>16 DEF Reopen
<1>17. CASE UNCHANGED vars
  BY <1>17 DEF vars
<1>18. QED
  BY <1>5, <1>6, <1>7, <1>8, <1>9, <1>10, <1>12, <1>13, <1>14, <1>15, <1>16,
     <1>17 DEF Next

\* The program starts in the types and with no flush running (repo.noe new).
LEMMA Start == Init => IInv
<1>1. ASSUME Init PROVE TypeOK
  <2>1. NoTxn \in Txn /\ Nothing \in Lists
    BY DEF NoTxn, Txn, Nothing, Lists
  <2>2. /\ <<>> \in Seq(AnyChange)
        /\ <<>> \in Seq(Change({"add", "save", "remove"}))
    OBVIOUS
  <2>3. faults \in 0..MaxFaults
    BY <1>1, UnitOfWorkAssumption DEF Init
  <2>4. engine \in Engines
    BY <1>1 DEF Init
  <2>5. QED
    BY <1>1, <2>1, <2>2, <2>3, <2>4 DEF Init, TypeOK
<1>2. ASSUME Init PROVE FlushInvariant
  BY <1>2, UnitOfWorkAssumption DEF Init, FlushInvariant, NoTxn
<1>3. QED
  BY <1>1, <1>2 DEF IInv

\* For every number of isolates, keys, changes and faults: each variable
\* keeps its type (repo.noe, conn.rs).
THEOREM TypeCorrect == Spec => []TypeOK
<1>1. Init => TypeOK
  BY Start DEF IInv
<1>2. QED
  BY <1>1, TypeStep, PTL DEF Spec

\* For every number of isolates, keys, changes and faults: where no two
\* isolates share a connection, a unit of work takes effect as one block or
\* not at all (repo.noe flush).
THEOREM UnitsAreAtomic ==
  ASSUME OwnConnection
  PROVE  Spec => BatchesAtomic
<1>1. Init => Promise!Init
  BY DEF Init, Promise!Init, Nothing, Promise!Empty
<1>2. IInv /\ [Next]_vars => IInv'
  BY TypeStep, FlushStep DEF IInv
<1>3. IInv /\ IInv' /\ [Next]_vars => [Promise!Next]_<<log, staged>>
  BY PromiseStep DEF IInv
<1>4. QED
  BY Start, <1>1, <1>2, <1>3, PTL DEF Spec, BatchesAtomic, Promise!Spec

-----------------------------------------------------------------------------
\* The order of a flush.

RowStates == {"absent", "added", "saved"}

\* The row of a key goes on from its absence, change by change.
LEMMA RowSteps ==
  ASSUME NEW s \in Seq(AnyChange), NEW k \in Keys
  PROVE  /\ Rows(s, k)[0] = "absent"
         /\ \A i \in 0..Len(s) : Rows(s, k)[i] \in RowStates
         /\ \A i \in 0..(Len(s) - 1) : Rows(s, k)[i + 1] = Effect(Rows(s, k)[i], s[i + 1], k)
<1> DEFINE N == Len(s)
           f == [p \in Nat \X RowStates |-> IF p[1] < N THEN Effect(p[2], s[p[1] + 1], k)
                                            ELSE p[2]]
<1>1. N \in Nat /\ \A i \in 0..(N - 1) : i + 1 \in 1..N /\ s[i + 1] \in AnyChange
  OBVIOUS
<1> HIDE DEF N
<1>2. \A row \in RowStates, c \in AnyChange : Effect(row, c, k) \in RowStates
  BY DEF Effect, RowStates, AnyChange, Change
<1>3. f \in [Nat \X RowStates -> RowStates]
  <2>1. ASSUME NEW i \in Nat, NEW row \in RowStates
        PROVE  (IF i < N THEN Effect(row, s[i + 1], k) ELSE row) \in RowStates
    <3>1. CASE i < N
      <4>1. s[i + 1] \in AnyChange
        BY <1>1, <3>1
      <4>2. QED
        BY <1>2, <3>1, <4>1
    <3>2. QED
      BY <1>1, <3>1
  <2>2. \A p \in Nat \X RowStates : p[1] \in Nat /\ p[2] \in RowStates
    OBVIOUS
  <2>3. QED
    BY <2>1, <2>2
<1>4. "absent" \in RowStates
  BY DEF RowStates
<1>5. PICK g : Unfolds(g, RowStates, "absent", f)
  <2> HIDE DEF f
  <2>1. QED
    BY <1>3, <1>4, Recursion
<1>6. /\ g[0] = "absent" /\ \A i \in Nat : g[i] \in RowStates
      /\ \A i \in 0..(N - 1) : g[i + 1] = Effect(g[i], s[i + 1], k)
  <2>1. ASSUME NEW i \in 0..(N - 1)
        PROVE  g[i + 1] = Effect(g[i], s[i + 1], k)
    <3>1. i \in Nat /\ i < N
      BY <1>1
    <3>2. g[i] \in RowStates /\ g[i + 1] = f[<<i, g[i]>>]
      BY <1>5, <3>1 DEF Unfolds
    <3>3. QED
      BY <3>1, <3>2
  <2>2. QED
    BY <1>5, <2>1 DEF Unfolds
<1> DEFINE h == [i \in 0..N |-> g[i]]
<1>7. h = [i \in 0..N |-> IF i = 0 THEN "absent" ELSE Effect(h[i - 1], s[i], k)]
  <2>1. ASSUME NEW i \in 0..N
        PROVE  h[i] = IF i = 0 THEN "absent" ELSE Effect(h[i - 1], s[i], k)
    <3>1. CASE i = 0
      BY <1>6, <3>1
    <3>2. CASE i # 0
      <4>1. i - 1 \in 0..(N - 1) /\ (i - 1) + 1 = i /\ i - 1 \in 0..N
        BY <1>1, <3>2
      <4>2. g[(i - 1) + 1] = Effect(g[i - 1], s[(i - 1) + 1], k)
        BY <1>6, <4>1
      <4>3. QED
        BY <3>2, <4>1, <4>2
    <3>3. QED
      BY <3>1, <3>2
  <2>2. QED
    BY <2>1
<1>8. Rows(s, k) = [i \in 0..N |-> IF i = 0 THEN "absent" ELSE Effect(Rows(s, k)[i - 1], s[i], k)]
  <2> HIDE DEF h
  <2>1. QED
    BY <1>7 DEF Rows, N
<1> DEFINE S == {i \in Nat : i <= N => Rows(s, k)[i] \in RowStates}
<1>9. /\ Rows(s, k)[0] = "absent"
      /\ \A i \in 0..(N - 1) : Rows(s, k)[i + 1] = Effect(Rows(s, k)[i], s[i + 1], k)
  BY <1>1, <1>8
<1>10. 0 \in S /\ \A i \in Nat : i \in S => i + 1 \in S
  <2>1. ASSUME NEW i \in S, i + 1 <= N
        PROVE  Rows(s, k)[i + 1] \in RowStates
    <3>1. i \in 0..(N - 1) /\ Rows(s, k)[i] \in RowStates
      BY <1>1, <2>1
    <3>2. s[i + 1] \in AnyChange
      BY <1>1, <3>1
    <3>3. QED
      BY <1>2, <1>9, <3>1, <3>2
  <2>2. QED
    BY <1>4, <1>9, <2>1
<1>11. Nat \subseteq S
  <2> HIDE DEF S
  <2>1. QED
    BY <1>10, Induction
<1>12. QED
  BY <1>1, <1>9, <1>11 DEF N

\* A row passes through the changes of a prefix as if there were no others.
LEMMA RowPrefix ==
  ASSUME NEW s \in Seq(AnyChange), NEW t \in Seq(AnyChange), NEW k \in Keys
  PROVE  Rows(s \o t, k)[Len(s)] = RowAfter(s, k)
<1> DEFINE N == Len(s)
           S == {i \in Nat : i <= N => Rows(s \o t, k)[i] = Rows(s, k)[i]}
<1>1. /\ N \in Nat /\ s \o t \in Seq(AnyChange) /\ Len(s \o t) = N + Len(t) /\ Len(t) \in Nat
      /\ \A i \in 0..(N - 1) : (s \o t)[i + 1] = s[i + 1]
  OBVIOUS
<1>2. 0 \in S
  <2>1. Rows(s \o t, k)[0] = "absent" /\ Rows(s, k)[0] = "absent"
    BY <1>1, RowSteps
  <2>2. QED
    BY <2>1
<1>3. ASSUME NEW i \in S
      PROVE  i + 1 \in S
  <2> SUFFICES ASSUME i + 1 <= N
               PROVE  Rows(s \o t, k)[i + 1] = Rows(s, k)[i + 1]
    BY <1>3
  <2>1. i \in 0..(N - 1) /\ i \in 0..(Len(s \o t) - 1) /\ Rows(s \o t, k)[i] = Rows(s, k)[i]
    <3>1. i \in Nat /\ (i <= N => Rows(s \o t, k)[i] = Rows(s, k)[i])
      BY <1>3
    <3> HIDE DEF N
    <3>2. i \in 0..(N - 1) /\ i \in 0..(N + Len(t) - 1) /\ i <= N
      BY <1>1, <3>1
    <3>3. QED
      BY <1>1, <3>1, <3>2
  <2>2. /\ Rows(s, k)[i + 1] = Effect(Rows(s, k)[i], s[i + 1], k)
        /\ Rows(s \o t, k)[i + 1] = Effect(Rows(s \o t, k)[i], (s \o t)[i + 1], k)
    BY <1>1, <2>1, RowSteps
  <2>3. QED
    BY <1>1, <2>1, <2>2
<1>4. Nat \subseteq S
  <2> HIDE DEF S
  <2>1. QED
    BY <1>2, <1>3, Induction
<1>5. QED
  BY <1>1, <1>4 DEF RowAfter

-----------------------------------------------------------------------------
Stagings == Change({"add", "save", "remove"})

\* A key is only ever added before it is saved or removed.
AddsFirst(s) ==
  \A m, n \in DOMAIN s : m < n /\ s[m].key = s[n].key /\ s[n].kind = "add" => s[m].kind = "add"

\* The changes among the first n.
UpTo(s, n) == {s[m] : m \in 1..n}

\* What changes, their adds first, make of a row, whatever their order is.
Has(changes, kind, k) == [kind |-> kind, key |-> k] \in changes
Outcome(row, changes, k) ==
  IF Has(changes, "remove", k) THEN "absent"
  ELSE IF Has(changes, "save", k) /\ (Has(changes, "add", k) \/ row # "absent") THEN "saved"
  ELSE IF Has(changes, "add", k) THEN "added" ELSE row

\* One more change of those that come after the adds has the effect that the
\* outcome says.
LEMMA OutcomeSteps ==
  ASSUME NEW row \in RowStates, NEW changes, changes \subseteq Stagings, NEW c \in Stagings,
         NEW k \in Keys,
         c.kind = "add" /\ c.key = k => ~Has(changes, "save", k) /\ ~Has(changes, "remove", k)
  PROVE  Outcome(row, changes \cup {c}, k) = Effect(Outcome(row, changes, k), c, k)
<1>1. c = [kind |-> c.kind, key |-> c.key] /\ c.kind \in {"add", "save", "remove"}
  BY DEF Stagings, Change
<1>2. \A kind : Has(changes \cup {c}, kind, k) <=> Has(changes, kind, k) \/ (c.kind = kind /\ c.key = k)
  BY <1>1 DEF Has
<1> DEFINE all == changes \cup {c}
<1> HIDE DEF all
<1>3. \A kind : Has(all, kind, k) <=> Has(changes, kind, k) \/ (c.kind = kind /\ c.key = k)
  BY <1>2 DEF all
<1>4. Outcome(row, all, k) = Effect(Outcome(row, changes, k), c, k)
  <2>1. CASE c.key # k
    BY <1>3, <2>1 DEF Outcome, Effect
  <2>2. CASE c.key = k /\ c.kind = "add"
    BY <1>3, <2>2 DEF Outcome, Effect
  <2>3. CASE c.key = k /\ c.kind = "remove"
    BY <1>3, <2>3 DEF Outcome, Effect
  <2>4. CASE c.key = k /\ c.kind = "save"
    BY <1>3, <2>4 DEF Outcome, Effect, RowStates
  <2>5. QED
    BY <1>1, <2>1, <2>2, <2>3, <2>4
<1>5. QED
  BY <1>4 DEF all

\* The row after changes whose adds come first is their outcome.
LEMMA RowOutcome ==
  ASSUME NEW s \in Seq(AnyChange), NEW t \in Seq(Stagings), AddsFirst(t), NEW k \in Keys
  PROVE  RowAfter(s \o t, k) = Outcome(RowAfter(s, k), UpTo(t, Len(t)), k)
<1> DEFINE N == Len(s)
           all == s \o t
           row == RowAfter(s, k)
           S == {i \in Nat : i <= Len(t) =>
                   Rows(all, k)[N + i] = Outcome(row, UpTo(t, i), k)}
<1>1. Stagings \subseteq AnyChange /\ t \in Seq(AnyChange)
  <2>1. Stagings \subseteq AnyChange
    BY DEF Stagings, AnyChange, Change
  <2>2. QED
    BY <2>1
<1>2. /\ N \in Nat /\ Len(t) \in Nat /\ all \in Seq(AnyChange) /\ Len(all) = N + Len(t)
      /\ \A i \in 0..(Len(t) - 1) : all[N + i + 1] = t[i + 1] /\ t[i + 1] \in Stagings
      /\ DOMAIN t = 1..Len(t)
  BY <1>1
<1>3. row \in RowStates
  BY <1>2, RowSteps DEF RowAfter
<1> HIDE DEF row
<1>4. 0 \in S
  <2>1. UpTo(t, 0) = {}
    BY DEF UpTo
  <2>2. Outcome(row, {}, k) = row
    BY DEF Outcome, Has
  <2>3. Rows(all, k)[N] = row
    BY <1>1, RowPrefix DEF row
  <2>4. N + 0 = N
    BY <1>2
  <2> HIDE DEF all, N
  <2>5. QED
    BY <2>1, <2>2, <2>3, <2>4
<1>5. ASSUME NEW i \in S
      PROVE  i + 1 \in S
  <2> SUFFICES ASSUME i + 1 <= Len(t)
               PROVE  Rows(all, k)[N + (i + 1)] = Outcome(row, UpTo(t, i + 1), k)
    BY <1>5
  <2>1. /\ i \in Nat /\ i \in 0..(Len(t) - 1) /\ N + i \in 0..(Len(all) - 1)
        /\ N + (i + 1) = (N + i) + 1 /\ i + 1 \in DOMAIN t
    BY <1>2, <1>5
  <2>2. Rows(all, k)[N + i] = Outcome(row, UpTo(t, i), k)
    BY <1>2, <1>5, <2>1
  <2>3. PICK c \in Stagings : c = t[i + 1] /\ c = all[(N + i) + 1]
    BY <1>2, <2>1
  <2>4. Rows(all, k)[N + (i + 1)] = Effect(Rows(all, k)[N + i], c, k)
    <3>1. Rows(all, k)[(N + i) + 1] = Effect(Rows(all, k)[N + i], all[(N + i) + 1], k)
      BY <1>2, <2>1, RowSteps
    <3> HIDE DEF all
    <3>2. QED
      BY <2>1, <2>3, <3>1
  <2>5. UpTo(t, i + 1) = UpTo(t, i) \cup {c} /\ UpTo(t, i) \subseteq Stagings
    <3>1. \A m : m \in 1..(i + 1) <=> m \in 1..i \/ m = i + 1
      BY <2>1
    <3>2. \A m \in 1..i : t[m] \in Stagings
      BY <1>2, <2>1
    <3>3. QED
      BY <2>3, <3>1, <3>2 DEF UpTo
  <2>6. ASSUME c.kind = "add", c.key = k
        PROVE  ~Has(UpTo(t, i), "save", k) /\ ~Has(UpTo(t, i), "remove", k)
    <3>1. \A m \in 1..i : m \in DOMAIN t /\ m < i + 1
      BY <1>2, <2>1
    <3>2. \A m \in 1..i : t[m].key = k => t[m].kind = "add"
      BY <2>1, <2>3, <2>6, <3>1 DEF AddsFirst
    <3>3. QED
      BY <3>2 DEF Has, UpTo
  <2>7. Outcome(row, UpTo(t, i) \cup {c}, k) = Effect(Outcome(row, UpTo(t, i), k), c, k)
    BY <1>3, <2>5, <2>6, OutcomeSteps
  <2>8. QED
    BY <2>2, <2>4, <2>5, <2>7
<1>6. Nat \subseteq S
  <2> HIDE DEF S
  <2>1. QED
    BY <1>4, <1>5, Induction
<1>7. QED
  BY <1>2, <1>6 DEF RowAfter, row

Elements(s) == UpTo(s, Len(s))

\* A place in one of two sequences end to end is a place in the first of them or
\* in the second.
LEMMA Halves ==
  ASSUME NEW S, NEW s \in Seq(S), NEW t \in Seq(S), NEW n \in 1..Len(s \o t)
  PROVE  \/ n \in 1..Len(s) /\ (s \o t)[n] = s[n]
         \/ n > Len(s) /\ \E m \in 1..Len(t) : (s \o t)[n] = t[m]
<1>1. /\ Len(s) \in Nat /\ Len(t) \in Nat /\ Len(s \o t) = Len(s) + Len(t)
      /\ \A m \in 1..Len(s) : (s \o t)[m] = s[m]
      /\ \A m \in 1..Len(t) : (s \o t)[Len(s) + m] = t[m]
  OBVIOUS
<1>2. CASE n \in 1..Len(s)
  BY <1>1, <1>2
<1>3. CASE n \notin 1..Len(s)
  <2>1. n > Len(s) /\ n - Len(s) \in 1..Len(t) /\ n = Len(s) + (n - Len(s))
    BY <1>1, <1>3
  <2>2. QED
    BY <1>1, <2>1
<1>4. QED
  BY <1>2, <1>3

\* Sequences end to end have the elements of both.
LEMMA ElementsOfBoth ==
  ASSUME NEW S, NEW s \in Seq(S), NEW t \in Seq(S)
  PROVE  Elements(s \o t) = Elements(s) \cup Elements(t)
<1>1. /\ \A m \in 1..Len(s) : m \in 1..Len(s \o t) /\ (s \o t)[m] = s[m]
      /\ \A m \in 1..Len(t) : Len(s) + m \in 1..Len(s \o t) /\ (s \o t)[Len(s) + m] = t[m]
  OBVIOUS
<1>2. ASSUME NEW x \in Elements(s \o t)
      PROVE  x \in Elements(s) \cup Elements(t)
  <2>1. PICK m \in 1..Len(s \o t) : x = (s \o t)[m]
    BY DEF Elements, UpTo
  <2>2. QED
    BY <2>1, Halves DEF Elements, UpTo
<1>3. Elements(s) \cup Elements(t) \subseteq Elements(s \o t)
  BY <1>1, Zenon DEF Elements, UpTo
<1>4. QED
  BY <1>2, <1>3

\* One more change joins the elements.
LEMMA ElementsOfAppend ==
  ASSUME NEW S, NEW s \in Seq(S), NEW c \in S
  PROVE  Elements(Append(s, c)) = Elements(s) \cup {c}
<1>1. Append(s, c) = s \o <<c>>
  OBVIOUS
<1>2. Elements(<<c>>) = {c}
  <2>1. Len(<<c>>) = 1 /\ <<c>>[1] = c /\ \A m : m \in 1..1 <=> m = 1
    OBVIOUS
  <2>2. QED
    BY <2>1 DEF Elements, UpTo
<1>3. PICK t \in Seq(S) : t = <<c>>
  BY <<c>> \in Seq(S)
<1>4. Elements(s \o t) = Elements(s) \cup Elements(t)
  BY ElementsOfBoth
<1>5. QED
  BY <1>1, <1>2, <1>3, <1>4

\* A flush runs what the three lists hold, and the adds come first
\* (repo.noe flush).
LEMMA BatchInOrder ==
  ASSUME NEW lists \in Lists
  PROVE  /\ Batch(lists) \in Seq(Stagings)
         /\ AddsFirst(Batch(lists))
         /\ Elements(Batch(lists))
              = Elements(lists.new) \cup Elements(lists.dirty) \cup Elements(lists.removed)
<1> DEFINE a == lists.new
           b == lists.dirty
           c == lists.removed
<1>1. /\ a \in Seq(Change({"add"})) /\ b \in Seq(Change({"save"}))
      /\ c \in Seq(Change({"remove"}))
  BY DEF Lists
<1>2. /\ \A x \in Change({"add"}) : x \in Stagings /\ x.kind = "add"
      /\ \A x \in Change({"save"}) : x \in Stagings /\ x.kind = "save"
      /\ \A x \in Change({"remove"}) : x \in Stagings /\ x.kind = "remove"
  BY DEF Change, Stagings
<1>3. a \in Seq(Stagings) /\ b \in Seq(Stagings) /\ c \in Seq(Stagings)
  BY <1>1, <1>2
<1>4. PICK d \in Seq(Stagings) : d = b \o c
  <2>1. b \o c \in Seq(Stagings)
    BY <1>3
  <2>2. QED
    BY <2>1
<1>5. Batch(lists) = a \o d /\ a \o d \in Seq(Stagings)
  <2>1. \A x, y, z \in Seq(Stagings) : (x \o y) \o z = x \o (y \o z)
    OBVIOUS
  <2>2. (a \o b) \o c = a \o d
    BY <1>3, <1>4, <2>1
  <2>3. a \o d \in Seq(Stagings)
    BY <1>3
  <2>4. QED
    BY <2>2, <2>3 DEF Batch
<1>6. AddsFirst(a \o d)
  <2>1. ASSUME NEW n \in 1..Len(d)
        PROVE  d[n].kind # "add"
    <3>1. \/ \E m \in 1..Len(b) : d[n] = b[m]
          \/ \E m \in 1..Len(c) : d[n] = c[m]
      <4>1. PICK x \in Seq(Stagings), y \in Seq(Stagings) : x = b /\ y = c
        BY <1>3
      <4>2. n \in 1..Len(x \o y)
        BY <1>4, <4>1
      <4>3. (\E m \in 1..Len(x) : (x \o y)[n] = x[m]) \/ \E m \in 1..Len(y) : (x \o y)[n] = y[m]
        BY <4>2, Halves
      <4>4. QED
        BY <1>4, <4>1, <4>3
    <3>2. /\ \A m \in 1..Len(b) : b[m] \in Change({"save"})
          /\ \A m \in 1..Len(c) : c[m] \in Change({"remove"})
      BY <1>1
    <3> HIDE DEF a, b, c
    <3>3. QED
      BY <1>2, <3>1, <3>2
  <2>2. \A n \in 1..Len(a) : a[n].kind = "add"
    <3>1. \A n \in 1..Len(a) : a[n] \in Change({"add"})
      BY <1>1
    <3>2. QED
      BY <1>2, <3>1
  <2>3. ASSUME NEW m \in 1..Len(a \o d), NEW n \in 1..Len(a \o d),
               m < n, (a \o d)[n].kind = "add"
        PROVE  (a \o d)[m].kind = "add"
    <3>1. n \in 1..Len(a)
      BY <1>3, <2>1, <2>3, Halves
    <3>2. m \in 1..Len(a) /\ (a \o d)[m] = a[m]
      <4>1. Len(a) \in Nat
        BY <1>3
      <4>2. m \in 1..Len(a)
        BY <2>3, <3>1, <4>1
      <4>3. \A x \in 1..Len(a) : (a \o d)[x] = a[x]
        BY <1>3
      <4>4. QED
        BY <4>2, <4>3
    <3>3. QED
      BY <2>2, <3>2
  <2>4. DOMAIN (a \o d) = 1..Len(a \o d)
    BY <1>5
  <2>5. QED
    BY <2>3, <2>4 DEF AddsFirst
<1>7. Elements(a \o d) = Elements(a) \cup Elements(b) \cup Elements(c)
  <2>1. Elements(d) = Elements(b) \cup Elements(c)
    BY <1>3, <1>4, ElementsOfBoth
  <2>2. Elements(a \o d) = Elements(a) \cup Elements(d)
    BY <1>3, ElementsOfBoth
  <2>3. QED
    BY <2>1, <2>2
<1>8. QED
  BY <1>5, <1>6, <1>7

\* What an isolate asked for and what its lists hold are the same changes, the
\* order apart.
SameChanges == \A i \in Isolates : Elements(asked[i]) = Elements(Batch(staged[i]))

\* Staging puts the change in one of the lists, and neither a flush nor its
\* failure changes what is staged without forgetting all of it (repo.noe).
LEMMA SameChangesStep ==
  ASSUME TypeOK, SameChanges, [Next]_vars
  PROVE  SameChanges'
<1>1. ASSUME NEW i \in Isolates, NEW s \in Stagings, Stage(i, s)
      PROVE  SameChanges'
  <2>1. /\ staged[i] \in Lists /\ asked[i] \in Seq(Stagings)
        /\ staged'[i] = Staged(staged[i], s) /\ asked'[i] = Append(asked[i], s)
        /\ \A j \in Isolates \ {i} : staged'[j] = staged[j] /\ asked'[j] = asked[j]
    BY <1>1 DEF Stage, TypeOK, Stagings
  <2>2. PICK lists \in Lists : lists = staged[i]
    BY <2>1
  <2>3. Staged(lists, s) \in Lists
    BY StagedType DEF Stagings
  <2>4. Elements(Batch(Staged(lists, s))) = Elements(Batch(lists)) \cup {s}
    <3>1. /\ lists.new \in Seq(Change({"add"})) /\ lists.dirty \in Seq(Change({"save"}))
          /\ lists.removed \in Seq(Change({"remove"}))
      BY DEF Lists
    <3>2. CASE s.kind = "add"
      <4>1. s \in Change({"add"})
        BY <3>2 DEF Stagings, Change
      <4>2. Elements(Append(lists.new, s)) = Elements(lists.new) \cup {s}
        BY <3>1, <4>1, ElementsOfAppend
      <4>3. /\ Staged(lists, s).new = Append(lists.new, s)
            /\ Staged(lists, s).dirty = lists.dirty /\ Staged(lists, s).removed = lists.removed
        BY <3>2 DEF Staged, Lists
      <4>4. QED
        BY <2>3, <4>2, <4>3, BatchInOrder
    <3>3. CASE s.kind = "save"
      <4>1. s \in Change({"save"})
        BY <3>3 DEF Stagings, Change
      <4>2. Elements(Append(lists.dirty, s)) = Elements(lists.dirty) \cup {s}
        BY <3>1, <4>1, ElementsOfAppend
      <4>3. /\ Staged(lists, s).dirty = Append(lists.dirty, s)
            /\ Staged(lists, s).new = lists.new /\ Staged(lists, s).removed = lists.removed
        BY <3>3 DEF Staged, Lists
      <4>4. QED
        BY <2>3, <4>2, <4>3, BatchInOrder
    <3>4. CASE s.kind = "remove"
      <4>1. s \in Change({"remove"})
        BY <3>4 DEF Stagings, Change
      <4>2. Elements(Append(lists.removed, s)) = Elements(lists.removed) \cup {s}
        BY <3>1, <4>1, ElementsOfAppend
      <4>3. /\ Staged(lists, s).removed = Append(lists.removed, s)
            /\ Staged(lists, s).new = lists.new /\ Staged(lists, s).dirty = lists.dirty
        BY <3>4 DEF Staged, Lists
      <4>4. QED
        BY <2>3, <4>2, <4>3, BatchInOrder
    <3>5. QED
      BY <3>2, <3>3, <3>4 DEF Stagings, Change
  <2>5. Elements(asked'[i]) = Elements(asked[i]) \cup {s}
    BY <2>1, ElementsOfAppend
  <2>6. Elements(asked'[i]) = Elements(Batch(staged'[i]))
    BY <2>1, <2>2, <2>4, <2>5 DEF SameChanges
  <2>7. QED
    BY <2>1, <2>6 DEF SameChanges
<1>2. ASSUME NEW i \in Isolates, staged' = [staged EXCEPT ![i] = Nothing],
             asked' = [asked EXCEPT ![i] = <<>>]
      PROVE  SameChanges'
  <2>1. Elements(Batch(Nothing)) = Elements(<<>>)
    BY DEF Batch, Nothing
  <2>2. QED
    BY <1>2, <2>1 DEF SameChanges, TypeOK
<1>3. ASSUME NEW i \in Isolates, Discard(i) \/ Commit(i) \/ Die(i)
      PROVE  SameChanges'
  BY <1>2, <1>3 DEF Discard, Commit, Die
<1>4. ASSUME UNCHANGED <<staged, asked>>
      PROVE  SameChanges'
  BY <1>4 DEF SameChanges
<1>5. ASSUME NEW i \in Isolates, NEW k \in Keys,
             Insert(i, k) \/ InsertUnanswered(i, k)
      PROVE  SameChanges'
  BY <1>4, <1>5 DEF Insert, InsertUnanswered
<1>6. ASSUME NEW i \in Isolates,
             Begin(i) \/ RunStatement(i) \/ StatementFails(i) \/ CommitFails(i) \/ RunEngine(i)
      PROVE  SameChanges'
  BY <1>4, <1>6 DEF Begin, RunStatement, StatementFails, CommitFails, RunEngine
<1>7. ASSUME NEW c \in Conns, Reopen(c)
      PROVE  SameChanges'
  BY <1>4, <1>7 DEF Reopen
<1>8. CASE UNCHANGED vars
  BY <1>4, <1>8 DEF vars
<1>9. QED
  BY <1>1, <1>3, <1>5, <1>6, <1>7, <1>8 DEF Next, Stagings

\* Only a COMMIT that succeeds takes effect and forgets what was staged
\* (repo.noe flush).
LEMMA OnlyCommit ==
  ASSUME TypeOK, [Next]_vars, NEW i \in Isolates,
         staged[i] # Nothing, staged'[i] = Nothing, log' # log
  PROVE  Commit(i)
<1>1. staged' # staged
  OBVIOUS
<1>2. ASSUME NEW j \in Isolates, Commit(j)
      PROVE  Commit(i)
  <2>1. j # i => staged'[i] = staged[i]
    BY <1>2 DEF Commit, TypeOK
  <2>2. QED
    BY <1>2, <2>1
<1>3. ASSUME NEW j \in Isolates, NEW s \in Stagings, Stage(j, s)
      PROVE  FALSE
  BY <1>3 DEF Stage
<1>4. ASSUME NEW j \in Isolates, NEW k \in Keys,
             Insert(j, k) \/ InsertUnanswered(j, k)
      PROVE  FALSE
  BY <1>1, <1>4 DEF Insert, InsertUnanswered
<1>5. ASSUME NEW j \in Isolates,
             \/ Begin(j) \/ RunStatement(j) \/ StatementFails(j) \/ CommitFails(j)
             \/ RunEngine(j) \/ Discard(j) \/ Die(j)
      PROVE  FALSE
  BY <1>1, <1>5 DEF Begin, RunStatement, StatementFails, CommitFails, RunEngine, Discard, Die
<1>6. ASSUME NEW c \in Conns, Reopen(c)
      PROVE  FALSE
  BY <1>1, <1>6 DEF Reopen
<1>7. CASE UNCHANGED vars
  BY <1>1, <1>7 DEF vars
<1>8. QED
  BY <1>2, <1>3, <1>4, <1>5, <1>6, <1>7 DEF Next, Stagings

\* A COMMIT that succeeds leaves each row as the calls in their own order would
\* have, if no key was added after another change of it (repo.noe flush).
LEMMA OrderStep ==
  ASSUME IInv, SameChanges, NEW i \in Isolates, Commit(i), AddsFirst(asked[i]), NEW k \in Keys
  PROVE  RowAfter(log', k) = RowAfter(log \o asked[i], k)
<1> USE UnitOfWorkAssumption
<1>1. /\ Handle[i] \in Conns /\ staged[i] \in Lists /\ log \in Seq(AnyChange)
      /\ asked[i] \in Seq(Stagings) /\ txn[Handle[i]].ran \in Seq(AnyChange)
  BY DEF IInv, TypeOK, Txn, Stagings
<1>2. log' = log \o Batch(staged[i])
  <2>1. txn[Handle[i]].ran \o <<>> = Batch(staged[i]) /\ log' = log \o txn[Handle[i]].ran
    BY DEF Commit, IInv, FlushInvariant
  <2>2. txn[Handle[i]].ran \o <<>> = txn[Handle[i]].ran
    BY <1>1
  <2>3. QED
    BY <2>1, <2>2
<1>3. PICK b \in Seq(Stagings) : b = Batch(staged[i]) /\ AddsFirst(b)
  BY <1>1, BatchInOrder
<1>4. PICK a \in Seq(Stagings) : a = asked[i]
  BY <1>1
<1>5. RowAfter(log \o b, k) = Outcome(RowAfter(log, k), Elements(b), k)
  BY <1>1, <1>3, RowOutcome DEF Elements
<1>6. RowAfter(log \o a, k) = Outcome(RowAfter(log, k), Elements(a), k)
  BY <1>1, <1>4, RowOutcome DEF Elements
<1>7. Elements(a) = Elements(b)
  BY <1>3, <1>4 DEF SameChanges
<1>8. QED
  BY <1>2, <1>3, <1>4, <1>5, <1>6, <1>7

\* For every number of isolates, keys, changes and faults: where no two
\* isolates share a connection, a flush that succeeds leaves the rows that the
\* calls in their own order would have left (repo.noe flush).
THEOREM OrderIsKept ==
  ASSUME OwnConnection
  PROVE  Spec => StagingOrderKept
<1>1. Init => SameChanges
  <2>1. Batch(Nothing) = <<>>
    BY DEF Batch, Nothing
  <2>2. QED
    BY <2>1 DEF Init, SameChanges
<1>2. IInv /\ [Next]_vars => IInv'
  BY TypeStep, FlushStep DEF IInv
<1>3. IInv /\ SameChanges /\ [Next]_vars => SameChanges'
  BY SameChangesStep DEF IInv
<1> DEFINE Kept == \A i \in Isolates :
             /\ staged[i] # Nothing /\ staged'[i] = Nothing /\ log' # log
             /\ \A m, n \in DOMAIN asked[i] :
                  m < n /\ asked[i][m].key = asked[i][n].key /\ asked[i][n].kind = "add"
                    => asked[i][m].kind = "add"
             => \A k \in Keys : RowAfter(log', k) = RowAfter(log \o asked[i], k)
<1>4. IInv /\ SameChanges /\ [Next]_vars => [Kept]_vars
  <2> SUFFICES ASSUME IInv, SameChanges, [Next]_vars PROVE Kept
    OBVIOUS
  <2>1. ASSUME NEW i \in Isolates,
               staged[i] # Nothing, staged'[i] = Nothing, log' # log, AddsFirst(asked[i]),
               NEW k \in Keys
        PROVE  RowAfter(log', k) = RowAfter(log \o asked[i], k)
    BY <2>1, OnlyCommit, OrderStep DEF IInv
  <2>2. QED
    BY <2>1, Zenon DEF AddsFirst
<1>5. QED
  BY Start, <1>1, <1>2, <1>3, <1>4, PTL DEF Spec, StagingOrderKept
=============================================================================
