-------------------------- MODULE MigrationHistory --------------------------
(***************************************************************************)
(* What the migration engine promises about a database, whoever runs it    *)
(* and whatever fails: the durable state only ever changes by one          *)
(* migration taking effect together with its record, or by a wipe of both. *)
(* (migrate.rs, module documentation and apply_one / reset.)               *)
(***************************************************************************)
EXTENDS Integers, Sequences

CONSTANTS Names,     \* migration names, in apply order
          Versions,  \* bodies, as their checksums
          None       \* not recorded

VARIABLES rows,      \* the recorded version of each name
          history    \* the bodies in the order they took effect

vars == <<rows, history>>

Migration == [name : Names, version : Versions]

Init == /\ rows = [n \in Names |-> None]
        /\ history = <<>>

\* A migration that is not recorded takes effect and is recorded, at once.
TakeEffect(m) ==
  /\ rows[m.name] = None
  /\ rows' = [rows EXCEPT ![m.name] = m.version]
  /\ history' = Append(history, m)

Wipe == /\ rows' = [n \in Names |-> None]
        /\ history' = <<>>

Next == Wipe \/ \E m \in Migration : TakeEffect(m)

Spec == Init /\ [][Next]_vars

TypeOK == /\ rows \in [Names -> Versions \cup {None}]
          /\ history \in Seq(Migration)

\* A migration is recorded exactly when its body took effect, with the
\* version that ran, and no body takes effect twice: neither a retry nor a
\* second runner repeats one (the promise of apply_one in migrate.rs).
RecordedExactlyWhatRan ==
  /\ \A n \in Names : rows[n] # None =>
       \E i \in 1..Len(history) : history[i] = [name |-> n, version |-> rows[n]]
  /\ \A i \in 1..Len(history) : rows[history[i].name] = history[i].version
  /\ \A i, j \in 1..Len(history) : history[i].name = history[j].name => i = j
=============================================================================
