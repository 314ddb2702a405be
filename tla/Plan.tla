------------------------------- MODULE Plan -------------------------------
(***************************************************************************)
(* The pure planning step of the migration engine: `plan` in migrate.rs.   *)
(*                                                                         *)
(* A migration is a position 1..N in the sorted list of every name any     *)
(* checkout ever had (`load_dir` sorts by file name, so position order is  *)
(* apply order).  A tree gives, for each name, the version of the body a   *)
(* checkout holds, or None where it has no such file; a ledger gives the   *)
(* version recorded in `_noeta_migrations`, or None.  The version stands   *)
(* for the body and for its SHA-256 checksum at once: equal checksums mean *)
(* equal bodies.                                                           *)
(***************************************************************************)
EXTENDS Integers

CONSTANTS N,         \* how many migration names exist over all checkouts
          Versions,  \* the bodies a file may hold, as their checksums
          None       \* no such file / no such row

ASSUME PlanAssumption == N \in Nat /\ None \notin Versions

Names  == 1..N
Tree   == [Names -> Versions \cup {None}]
Ledger == [Names -> Versions \cup {None}]

Files(files)   == {n \in Names : files[n] # None}
Recorded(rows) == {n \in Names : rows[n] # None}

\* The applied records whose file is gone or has another checksum.
Offenders(files, rows) == {n \in Recorded(rows) : files[n] # rows[n]}

\* The integrity gates run over the records in file-name order and stop at
\* the first offender, before anything is planned.
FirstOffender(files, rows) ==
  CHOOSE n \in Offenders(files, rows) :
    \A m \in Offenders(files, rows) : n <= m

\* (A slip: only deleted files are looked for.)
VerdictWithoutChecksums(files, rows) ==
  IF Recorded(rows) \subseteq Files(files) THEN "planned" ELSE "DeletedApplied"

Verdict(files, rows) ==
  CASE Offenders(files, rows) = {} -> "planned"
    [] Offenders(files, rows) # {} /\ files[FirstOffender(files, rows)] = None
         -> "DeletedApplied"
    [] OTHER -> "ChecksumDrift"

\* The files with no record, applied in ascending order.
Pending(files, rows) == Files(files) \ Recorded(rows)

\* (A slip: the boundary is the first applied file, `position` for `rposition`.)
OutOfOrderFromFirst(files, rows) ==
  {n \in Pending(files, rows) :
     /\ Recorded(rows) # {}
     /\ \A m \in Files(files) \cap Recorded(rows) : n < m}

\* The pending files that sort before the last applied file of this tree.
OutOfOrder(files, rows) ==
  {n \in Pending(files, rows) :
     \E last \in Files(files) \cap Recorded(rows) : n < last}

\* (A slip: the loop runs in descending order.)
IsLast(n, todo) == n \in todo /\ \A m \in todo : m <= n

\* The next file of an apply loop that still has `todo` to run.
IsFirst(n, todo) == n \in todo /\ \A m \in todo : n <= m
=============================================================================
