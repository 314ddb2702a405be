------------------------------ MODULE Batches ------------------------------
(***************************************************************************)
(* What a repository's unit of work promises of a table (repo.noe): staged *)
(* changes take effect together, each exactly as staged, or not at all;    *)
(* between two batches only single immediate inserts take effect.          *)
(***************************************************************************)
EXTENDS Sequences

CONSTANTS Isolates, Keys

VARIABLES
  log,    \* the changes that took effect, in order
  staged  \* the three pending lists of each isolate's repository

Change(kinds) == [kind : kinds, key : Keys]
Lists == [new : Seq(Change({"add"})), dirty : Seq(Change({"save"})),
          removed : Seq(Change({"remove"}))]
Empty == [new |-> <<>>, dirty |-> <<>>, removed |-> <<>>]

\* One batch: the inserts, then the updates, then the deletes.
Block(lists) == lists.new \o lists.dirty \o lists.removed

Init ==
  /\ log = <<>>
  /\ staged = [i \in Isolates |-> Empty]

\* The application edits what is staged, which changes nothing in the table.
Edit(i) ==
  /\ staged'[i] \in Lists
  /\ staged' = [staged EXCEPT ![i] = staged'[i]]
  /\ UNCHANGED log

\* A batch takes effect, whole, and its lists are cleared; or they are kept,
\* because the answer to the COMMIT never arrived.
Flush(i) ==
  /\ log' = log \o Block(staged[i])
  /\ \/ staged' = [staged EXCEPT ![i] = Empty]
     \/ UNCHANGED staged

\* An insert that is not staged.
Insert ==
  /\ \E change \in Change({"insert"}) : log' = Append(log, change)
  /\ UNCHANGED staged

Next == Insert \/ \E i \in Isolates : Edit(i) \/ Flush(i)

Spec == Init /\ [][Next]_<<log, staged>>
=============================================================================
