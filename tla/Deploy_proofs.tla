--------------------------- MODULE Deploy_proofs ---------------------------
(***************************************************************************)
(* Why `noeta migrate` can be trusted with a database, for any directories, *)
(* any history of command lines, wipes cut short anywhere, and another      *)
(* process on the same files.                                               *)
(***************************************************************************)
EXTENDS Deploy, SequenceTheorems, WellFoundedInduction, TLAPS

Homes   == {"main", "mem"}
Objects == Filenames \cup {Track}
Points  == {"idle", "load", "confirm", "list", "drop", "ensure", "apply", "seed"}
Results == {"none", "ok", "usage", "failed", "refused", "crashed"}

\* What resolve_programs makes of the migrations on disk: what may be run.
Runnable == {Resolved(m) : m \in Sources}

Databases ==
  [tables : Seq(Objects),
   rows   : [Filenames -> {m.checksum : m \in Runnable} \cup {None}],
   ran    : [Filenames -> {Lowered(m) : m \in Runnable} \cup {None}],
   seeded : SUBSET Filenames]

Distinct(s) == \A i, j \in DOMAIN s : s[i] = s[j] => i = j

\* Object a comes before object b.
Older(a, b, s) == \E i, j \in DOMAIN s : i < j /\ s[i] = a /\ s[j] = b

-----------------------------------------------------------------------------
\* The inductive invariant, in six parts.

Typed ==
  /\ dbs \in [Homes -> Databases]
  /\ pc \in Points
  /\ url \in Urls
  /\ inv \in Invocations
  /\ answer \in {"none", "yes", "no"}
  /\ result \in Results
  /\ faults \in 0..MaxFaults

\* An invocation works with resolved migrations, one of each name, and is about
\* to load seeds from its own directory.
Loading ==
  /\ files \subseteq Runnable
  /\ \A m, o \in files : m.name = o.name => m = o
  /\ todo \subseteq {m.name : m \in files}
  /\ pc = "load" => todo = {}
  /\ seeds # {} => ~SeedsBad /\ seeds \subseteq SeedFiles.files
  /\ pc = "ensure" /\ Verb(inv.flags) = "seed" =>
       ~SeedsBad /\ seeds = SeedFiles.files

\* A recorded migration has a table that is younger than the tracking table,
\* and was made of what had the recorded identity.
Consistent(db) ==
  /\ Distinct(db.tables)
  /\ \A n \in Filenames \ Tolerant : db.rows[n] # None =>
       /\ Older(Track, n, db.tables)
       /\ \E m \in Runnable :
            /\ m.name = n
            /\ m.checksum = db.rows[n]
            /\ Lowered(m) = db.ran[n]
            /\ Lowered(m) # Broken

\* What a wipe has yet to drop is there, and no record outlives the tables that
\* are dropped before the tracking table.
Wiping ==
  pc = "drop" =>
    /\ script \in Seq(Objects)
    /\ Distinct(script)
    /\ ToSet(script) \subseteq ToSet(Db.tables)
    /\ \A n \in Filenames \ Tolerant :
         n \in ToSet(script) /\ Db.rows[n] # None => Older(Track, n, script)

\* Where an invocation can be, by what it was asked for.
Allowed ==
  /\ pc \in {"confirm", "list", "drop"} => Verb(inv.flags) = "reset"
  /\ pc = "confirm" => inv.tty
  /\ pc \in {"list", "drop"} => Consented
  /\ pc = "apply" => Verb(inv.flags) \in {"apply", "reset"}
  /\ pc = "seed" => \/ Verb(inv.flags) = "seed"
                    \/ Verb(inv.flags) \in {"apply", "reset"} /\ "seed" \in inv.flags

\* Migration m of this invocation is in the database, as it means today.
Done(m) ==
  /\ Db.rows[m.name] = m.checksum
  /\ m.name \notin Tolerant => Db.ran[m.name] = Lowered(m)

\* The loops have done what they no longer have to do.
Progress ==
  /\ pc = "apply" => \A m \in files : m.name \in todo \/ Done(m)
  /\ pc = "seed" =>
       /\ \A m \in files : Done(m)
       /\ Verb(inv.flags) = "seed" => PendingFiles = {}
       /\ \A m \in SeedFiles.files : m \in seeds \/ m.name \in Db.seeded

Sound == \A home \in Homes : Consistent(dbs[home])

IInv == Typed /\ Loading /\ Sound /\ Wiping /\ Allowed /\ Progress

-----------------------------------------------------------------------------
\* Sets of naturals and what is ordered by one.

Below == {p \in Nat \X Nat : p[1] < p[2]}

\* A set of names that is not empty has a smallest one (the order in which
\* the apply loop takes what is pending).
LEMMA Minimum ==
  ASSUME NEW S, S \subseteq Nat, S # {}
  PROVE  Min(S) \in S /\ \A n \in S : Min(S) <= n
<1>1. IsWellFoundedOn(Below, Nat)
  BY NatLessThanWellFounded DEF OpToRel, Below
<1>2. PICK x \in S : \A y \in S : <<y, x>> \notin Below
  BY <1>1, WFMin
<1>3. \A m, n \in Nat : m < n => <<m, n>> \in Below
  BY DEF Below
<1>4. ASSUME NEW y \in S
      PROVE  x <= y
  <2>1. x \in Nat /\ y \in Nat /\ ~(y < x)
    BY <1>2, <1>3
  <2>2. QED
    BY <2>1
<1>5. QED
  BY <1>4 DEF Min

\* Likewise the migration or seed of the smallest name.
LEMMA Least ==
  ASSUME NEW T, T # {}, \A m \in T : m.name \in Nat
  PROVE  \E m \in T : \A o \in T : m.name <= o.name
<1> DEFINE S == {m.name : m \in T}
<1>1. S \subseteq Nat /\ S # {}
  OBVIOUS
<1>2. Min(S) \in S /\ \A n \in S : Min(S) <= n
  BY <1>1, Minimum
<1>3. QED
  BY <1>2

-----------------------------------------------------------------------------
\* The list of tables.

\* Dropping an object takes it out of the list and keeps the order of the rest.
LEMMA Dropped ==
  ASSUME NEW S, NEW s \in Seq(S), Distinct(s), NEW e
  PROVE  /\ RemoveFirst(s, e) \in Seq(S)
         /\ Distinct(RemoveFirst(s, e))
         /\ ToSet(RemoveFirst(s, e)) = ToSet(s) \ {e}
         /\ \A a, b : Older(a, b, s) /\ a # e /\ b # e => Older(a, b, RemoveFirst(s, e))
<1>1. CASE \E k \in 1..Len(s) : s[k] = e
  <2> PICK k \in 1..Len(s) : s[k] = e
    BY <1>1
  <2> DEFINE t == RemoveFirst(s, e)
  <2>1. SelectInSeq(s, LAMBDA v : v = e) = k
    <3>1. {i \in 1..Len(s) : s[i] = e} = {k}
      BY DEF Distinct
    <3>2. Min({k}) = k
      BY Minimum
    <3>3. QED
      BY <3>1, <3>2 DEF SelectInSeq
  <2>2. t = SubSeq(s, 1, k - 1) \o SubSeq(s, k + 1, Len(s))
    BY <1>1, <2>1 DEF RemoveFirst, RemoveAt
  <2> DEFINE u == SubSeq(s, 1, k - 1)
             v == SubSeq(s, k + 1, Len(s))
  <2>3. /\ u \in Seq(S) /\ Len(u) = k - 1
        /\ \A i \in 1..(k - 1) : u[i] = s[i]
        /\ v \in Seq(S) /\ Len(v) = Len(s) - k
        /\ \A i \in 1..(Len(s) - k) : v[i] = s[k + i]
    OBVIOUS
  <2>4. /\ t \in Seq(S)
        /\ Len(t) = Len(s) - 1
        /\ \A i \in 1..Len(t) : t[i] = IF i < k THEN s[i] ELSE s[i + 1]
    <3> HIDE DEF t, u, v
    <3>1. /\ t \in Seq(S) /\ Len(t) = Len(s) - 1
          /\ \A i \in 1..Len(t) : t[i] = IF i <= Len(u) THEN u[i] ELSE v[i - Len(u)]
      <4>1. /\ u \o v \in Seq(S) /\ Len(u \o v) = Len(u) + Len(v)
            /\ \A i \in 1..(Len(u) + Len(v)) :
                 (u \o v)[i] = IF i <= Len(u) THEN u[i] ELSE v[i - Len(u)]
        BY <2>3, ConcatProperties
      <4>2. t = u \o v
        BY <2>2 DEF u, v
      <4>3. Len(u) + Len(v) = Len(s) - 1
        BY <2>3
      <4>4. QED
        BY <4>1, <4>2, <4>3
    <3>2. ASSUME NEW i \in 1..Len(t)
          PROVE  t[i] = IF i < k THEN s[i] ELSE s[i + 1]
      <4>1. CASE i < k
        BY <2>3, <3>1, <4>1
      <4>2. CASE ~(i < k)
        <5>1. i - (k - 1) \in 1..(Len(s) - k) /\ k + (i - (k - 1)) = i + 1
          BY <3>1, <4>2
        <5>2. t[i] = v[i - (k - 1)]
          BY <2>3, <3>1, <4>2
        <5>3. QED
          BY <2>3, <4>2, <5>1, <5>2
      <4>3. QED
        BY <4>1, <4>2
    <3>3. QED
      BY <3>1, <3>2
  <2> HIDE DEF t
  <2>5. \A i \in 1..Len(s) : i # k =>
          \E j \in 1..Len(t) : t[j] = s[i] /\ j = IF i < k THEN i ELSE i - 1
    <3>1. Len(s) \in Nat /\ k \in 1..Len(s)
      OBVIOUS
    <3>2. ASSUME NEW i \in 1..Len(s), i < k
          PROVE  i \in 1..Len(t) /\ t[i] = s[i]
      BY <2>4, <3>1, <3>2
    <3>3. ASSUME NEW i \in 1..Len(s), i # k, ~(i < k)
          PROVE  i - 1 \in 1..Len(t) /\ t[i - 1] = s[i]
      <4>1. i - 1 \in 1..Len(t) /\ ~(i - 1 < k) /\ (i - 1) + 1 = i
        BY <2>4, <3>1, <3>3
      <4>2. QED
        BY <2>4, <4>1
    <3>4. QED
      BY <3>2, <3>3
  <2>6. Distinct(t)
    <3>1. \A i \in 1..Len(t) :
            \E j \in 1..Len(s) : t[i] = s[j] /\ j # k /\ i = IF j < k THEN j ELSE j - 1
      BY <2>4
    <3>2. \A i, j \in 1..Len(s) : s[i] = s[j] => i = j
      BY DEF Distinct
    <3>3. \A i, j \in 1..Len(t) : t[i] = t[j] => i = j
      BY <3>1, <3>2
    <3>4. QED
      BY <2>4, <3>3 DEF Distinct
  <2>7. ToSet(t) = ToSet(s) \ {e}
    <3>1. ToSet(s) = {s[i] : i \in 1..Len(s)} /\ ToSet(t) = {t[i] : i \in 1..Len(t)}
      BY <2>4 DEF ToSet
    <3>2. \A i \in 1..Len(s) : s[i] = e <=> i = k
      BY DEF Distinct
    <3>3. \A i \in 1..Len(t) : \E j \in 1..Len(s) : t[i] = s[j] /\ j # k
      BY <2>4
    <3>4. \A i \in 1..Len(s) : i # k => \E j \in 1..Len(t) : t[j] = s[i]
      BY <2>5
    <3>5. ToSet(t) \subseteq ToSet(s) \ {e}
      BY <3>1, <3>2, <3>3
    <3>6. ToSet(s) \ {e} \subseteq ToSet(t)
      BY <3>1, <3>2, <3>4
    <3>7. QED
      BY <3>5, <3>6
  <2>8. ASSUME NEW a, NEW b, Older(a, b, s), a # e, b # e
        PROVE  Older(a, b, t)
    <3>1. PICK i, j \in 1..Len(s) : i < j /\ s[i] = a /\ s[j] = b
      BY <2>8 DEF Older
    <3>2. PICK x \in 1..Len(t) : t[x] = s[i] /\ x = IF i < k THEN i ELSE i - 1
      BY <2>5, <2>8, <3>1
    <3>3. PICK y \in 1..Len(t) : t[y] = s[j] /\ y = IF j < k THEN j ELSE j - 1
      BY <2>5, <2>8, <3>1
    <3>4. x < y
      BY <2>8, <3>1, <3>2, <3>3
    <3>5. QED
      BY <2>4, <3>1, <3>2, <3>3, <3>4 DEF Older
  <2>9. QED
    BY <2>4, <2>6, <2>7, <2>8 DEF t
<1>2. CASE \A k \in 1..Len(s) : s[k] # e
  <2>1. RemoveFirst(s, e) = s
    BY <1>2 DEF RemoveFirst
  <2>2. e \notin ToSet(s)
    BY <1>2 DEF ToSet
  <2>3. QED
    BY <2>1, <2>2
<1>3. QED
  BY <1>1, <1>2

\* A new object is younger than all that are there.
LEMMA Appended ==
  ASSUME NEW S, NEW s \in Seq(S), Distinct(s), NEW e \in S, e \notin ToSet(s)
  PROVE  /\ Append(s, e) \in Seq(S)
         /\ Distinct(Append(s, e))
         /\ ToSet(Append(s, e)) = ToSet(s) \cup {e}
         /\ \A a \in ToSet(s) : Older(a, e, Append(s, e))
         /\ \A a, b : Older(a, b, s) => Older(a, b, Append(s, e))
<1> DEFINE t == Append(s, e)
<1>1. /\ t \in Seq(S)
      /\ Len(t) = Len(s) + 1
      /\ t[Len(s) + 1] = e
      /\ \A i \in 1..Len(s) : t[i] = s[i]
  OBVIOUS
<1> HIDE DEF t
<1>2. \A i \in 1..Len(s) : s[i] # e
  BY DEF ToSet
<1>3. Distinct(t)
  BY <1>1, <1>2 DEF Distinct
<1>4. ToSet(t) = ToSet(s) \cup {e}
  BY <1>1 DEF ToSet
<1>5. \A a \in ToSet(s) : Older(a, e, t)
  BY <1>1 DEF ToSet, Older
<1>6. \A a, b : Older(a, b, s) => Older(a, b, t)
  BY <1>1 DEF Older
<1>7. QED
  BY <1>1, <1>3, <1>4, <1>5, <1>6 DEF t

-----------------------------------------------------------------------------
\* Migrations.

\* What is loaded from a directory has the kind and the identity of a file
\* that is there, and no two loaded migrations share a name.
LEMMA OnDisk ==
  ASSUME NEW dir, NEW dialect
  PROVE  /\ \A m \in Load(dir, dialect).files :
              /\ m.name \in Filenames /\ m.name \in Nat
              /\ KindOf[m.name] \in Kinds
              /\ \E body, from : m = Migration(m.name, body, from)
         /\ \A m, o \in Load(dir, dialect).files : m.name = o.name => m = o
<1>1. \A m \in Load(dir, dialect).files :
        \E n \in BodyFiles(dir.base) : m = Loaded(dir, dialect, n)
  BY DEF Load
<1>2. \A n : /\ Loaded(dir, dialect, n).name = n
             /\ \E body, from : Loaded(dir, dialect, n) = Migration(n, body, from)
  BY DEF Loaded, Migration
<1>3. \A n \in BodyFiles(dir.base) : n \in Filenames /\ n \in Nat /\ KindOf[n] \in Kinds
  BY LoadAssumption DEF BodyFiles, IsBodyFile
<1>4. QED
  BY <1>1, <1>2, <1>3

\* What may be run is SQL or a schema, as its extension says, with the identity
\* of the body that runs.
LEMMA Identity ==
  ASSUME NEW m \in Runnable
  PROVE  /\ m.name \in Filenames /\ m.name \in Nat
         /\ m.kind \in {"sql", "schema"}
         /\ m.kind = "sql" <=> KindOf[m.name] = "sql"
         /\ m.kind = "sql" => m \in Sources
         /\ m.checksum = Checksum(m.kind, m.body)
         /\ Lowered(m) = m.body.means
<1>1. PICK f \in Sources : m = Resolved(f)
  BY DEF Runnable
<1>2. PICK dir, dialect : f \in Load(dir, dialect).files
  BY <1>1 DEF Sources
<1>3. /\ f.name \in Filenames /\ f.name \in Nat
      /\ KindOf[f.name] \in Kinds
  BY <1>2, OnDisk
<1>4. PICK body, from : f = Migration(f.name, body, from)
  BY <1>2, OnDisk
<1> DEFINE n == f.name
<1>5. f = [name |-> n, kind |-> KindOf[n], body |-> body, from |-> from,
           checksum |-> Checksum(KindOf[n], body)]
  BY <1>4 DEF Migration
<1> HIDE DEF n
<1>6. m = [name |-> n, kind |-> IF KindOf[n] = "program" THEN "schema" ELSE KindOf[n],
           body |-> body, from |-> from,
           checksum |-> Checksum(IF KindOf[n] = "program" THEN "schema" ELSE KindOf[n], body)]
  BY <1>1, <1>5 DEF Resolved
<1>7. n \in Filenames /\ n \in Nat /\ KindOf[n] \in {"sql", "schema", "program"}
  BY <1>3 DEF n, Kinds
<1>8. KindOf[n] # "program" => m = f
  BY <1>1, <1>5 DEF Resolved
<1>9. QED
  BY <1>1, <1>6, <1>7, <1>8 DEF Lowered

\* Under one name, an identity that was recorded for a body that ran stands for
\* one meaning, and a meaning that a schema can have for one identity.
LEMMA SameMeaning ==
  ASSUME NEW m \in Runnable, NEW o \in Runnable, m.name = o.name, Lowered(o) # Broken
  PROVE  /\ m.checksum = o.checksum => Lowered(m) = Lowered(o)
         /\ m.kind = "schema" /\ Lowered(m) = Lowered(o) => m.checksum = o.checksum
<1>1. /\ m.kind = o.kind /\ m.kind \in {"sql", "schema"}
      /\ m.kind = "sql" => m \in Sources /\ o \in Sources
      /\ m.checksum = Checksum(m.kind, m.body) /\ Lowered(m) = m.body.means
      /\ o.checksum = Checksum(o.kind, o.body) /\ Lowered(o) = o.body.means
  BY Identity
<1>2. CASE m.kind = "sql"
  <2>1. m.checksum = <<"text", m.body.text>> /\ o.checksum = <<"text", o.body.text>>
    BY <1>1, <1>2 DEF Checksum
  <2>2. m.body.text = o.body.text => m.body.means = o.body.means
    BY <1>1, <1>2, DeployAssumption
  <2>3. QED
    BY <1>1, <1>2, <2>1, <2>2
<1>3. CASE m.kind = "schema"
  BY <1>1, <1>3 DEF Checksum
<1>4. QED
  BY <1>1, <1>2, <1>3

-----------------------------------------------------------------------------
\* What the operations make of one database.

\* An empty database records nothing.
LEMMA Emptied == EmptyDb \in Databases /\ Consistent(EmptyDb)
<1>1. <<>> \in Seq(Objects) /\ Distinct(<<>>)
  BY DEF Distinct
<1>2. QED
  BY <1>1 DEF EmptyDb, Databases, Consistent

\* ensure_tracking_table adds the tracking table at most.
LEMMA Tracked ==
  ASSUME NEW db \in Databases, Consistent(db)
  PROVE  /\ Ensured(db) \in Databases /\ Consistent(Ensured(db))
         /\ ToSet(Ensured(db).tables) = ToSet(db.tables) \cup {Track}
         /\ Ensured(db).rows = db.rows
         /\ Ensured(db).ran = db.ran
         /\ Ensured(db).seeded = db.seeded
<1> DEFINE d == Ensured(db)
<1>1. /\ d = [tables |-> IF Track \in ToSet(db.tables) THEN db.tables
                        ELSE Append(db.tables, Track),
              rows |-> db.rows, ran |-> db.ran, seeded |-> db.seeded]
      /\ db.tables \in Seq(Objects) /\ Track \in Objects
      /\ Distinct(db.tables)
  <2>1. db = [tables |-> db.tables, rows |-> db.rows, ran |-> db.ran, seeded |-> db.seeded]
    BY DEF Databases
  <2>2. d = [tables |-> IF Track \in ToSet(db.tables) THEN db.tables
                        ELSE Append(db.tables, Track),
             rows |-> db.rows, ran |-> db.ran, seeded |-> db.seeded]
    BY <2>1 DEF Ensured
  <2>3. QED
    BY <2>2 DEF Databases, Objects, Consistent
<1>2. CASE Track \in ToSet(db.tables)
  <2>1. d = db
    BY <1>1, <1>2 DEF Databases
  <2>2. QED
    BY <1>2, <2>1
<1>3. CASE Track \notin ToSet(db.tables)
  <2>1. /\ d.tables \in Seq(Objects) /\ Distinct(d.tables)
        /\ ToSet(d.tables) = ToSet(db.tables) \cup {Track}
        /\ \A a, b : Older(a, b, db.tables) => Older(a, b, d.tables)
    BY <1>1, <1>3, Appended
  <2>2. d \in Databases /\ d.rows = db.rows /\ d.ran = db.ran /\ d.seeded = db.seeded
    BY <1>1, <2>1 DEF Databases
  <2>3. Consistent(d)
    BY <2>1, <2>2 DEF Consistent
  <2>4. QED
    BY <2>1, <2>2, <2>3
<1>4. QED
  BY <1>2, <1>3

\* A migration whose body ran has its record and its meaning in a database
\* that has a tracking table, and nothing else changes.
LEMMA Applied ==
  ASSUME NEW db \in Databases, Consistent(db), Track \in ToSet(db.tables),
         NEW m \in Runnable, Lowered(m) # Broken,
         m.name \in Tolerant \/ m.name \notin ToSet(db.tables)
  PROVE  /\ WithMigration(db, m) \in Databases /\ Consistent(WithMigration(db, m))
         /\ ToSet(WithMigration(db, m).tables) = ToSet(db.tables) \cup {m.name}
         /\ WithMigration(db, m).seeded = db.seeded
         /\ WithMigration(db, m).rows[m.name] = m.checksum
         /\ m.name \notin Tolerant => WithMigration(db, m).ran[m.name] = Lowered(m)
         /\ \A n \in Filenames \ {m.name} :
              /\ WithMigration(db, m).rows[n] = db.rows[n]
              /\ WithMigration(db, m).ran[n] = db.ran[n]
<1> DEFINE d == WithMigration(db, m)
           there == m.name \in ToSet(db.tables)
<1>1. m.name \in Filenames /\ m.name \in Objects
  BY Identity DEF Objects
<1>2. /\ db = [tables |-> db.tables, rows |-> db.rows, ran |-> db.ran, seeded |-> db.seeded]
      /\ db.tables \in Seq(Objects) /\ Distinct(db.tables)
      /\ db.rows \in [Filenames -> {o.checksum : o \in Runnable} \cup {None}]
      /\ db.ran \in [Filenames -> {Lowered(o) : o \in Runnable} \cup {None}]
      /\ db.seeded \in SUBSET Filenames
  BY DEF Databases, Consistent
<1>3. d = [tables |-> IF there THEN db.tables ELSE Append(db.tables, m.name),
           rows   |-> [db.rows EXCEPT ![m.name] = m.checksum],
           ran    |-> IF there THEN db.ran ELSE [db.ran EXCEPT ![m.name] = Lowered(m)],
           seeded |-> db.seeded]
  BY DEF WithMigration
<1>4. /\ d.tables \in Seq(Objects) /\ Distinct(d.tables)
      /\ ToSet(d.tables) = ToSet(db.tables) \cup {m.name}
      /\ \A a, b : Older(a, b, db.tables) => Older(a, b, d.tables)
      /\ m.name \notin Tolerant => Older(Track, m.name, d.tables)
  <2>1. CASE there
    BY <1>2, <1>3, <2>1
  <2>2. CASE ~there
    BY <1>1, <1>2, <1>3, <2>2, Appended
  <2>3. QED
    BY <2>1, <2>2
<1>5. /\ d.rows \in [Filenames -> {o.checksum : o \in Runnable} \cup {None}]
      /\ d.rows[m.name] = m.checksum
      /\ \A n \in Filenames \ {m.name} : d.rows[n] = db.rows[n]
      /\ d.seeded = db.seeded
  BY <1>1, <1>2, <1>3
<1>6. /\ d.ran \in [Filenames -> {Lowered(o) : o \in Runnable} \cup {None}]
      /\ m.name \notin Tolerant => d.ran[m.name] = Lowered(m)
      /\ \A n \in Filenames \ {m.name} : d.ran[n] = db.ran[n]
  BY <1>1, <1>2, <1>3
<1>7. d \in Databases
  BY <1>2, <1>3, <1>4, <1>5, <1>6 DEF Databases
<1> HIDE DEF d
<1>8. Consistent(d)
  <2> SUFFICES ASSUME NEW n \in Filenames \ Tolerant, d.rows[n] # None
               PROVE  /\ Older(Track, n, d.tables)
                      /\ \E o \in Runnable :
                           /\ o.name = n /\ o.checksum = d.rows[n]
                           /\ Lowered(o) = d.ran[n] /\ Lowered(o) # Broken
    BY <1>4 DEF Consistent
  <2>1. CASE n = m.name
    BY <1>4, <1>5, <1>6, <2>1
  <2>2. CASE n # m.name
    BY <1>4, <1>5, <1>6, <2>2 DEF Consistent
  <2>3. QED
    BY <2>1, <2>2
<1>9. QED
  BY <1>4, <1>5, <1>6, <1>7, <1>8 DEF d

\* Dropping an object on which no record rests leaves a consistent database.
LEMMA Lost ==
  ASSUME NEW db \in Databases, Consistent(db), NEW e \in Objects,
         e \in Filenames \ Tolerant => db.rows[e] = None
  PROVE  /\ Without(db, e) \in Databases /\ Consistent(Without(db, e))
         /\ ToSet(Without(db, e).tables) = ToSet(db.tables) \ {e}
         /\ \A n \in Filenames : Without(db, e).rows[n] # None =>
              /\ db.rows[n] # None
              /\ e # Track
<1> DEFINE d == Without(db, e)
<1>1. Track \notin Filenames
  BY LoadAssumption DEF Track
<1>2. /\ db.tables \in Seq(Objects) /\ Distinct(db.tables)
      /\ db.rows \in [Filenames -> {o.checksum : o \in Runnable} \cup {None}]
      /\ db.ran \in [Filenames -> {Lowered(o) : o \in Runnable} \cup {None}]
      /\ db.seeded \in SUBSET Filenames
  BY DEF Databases, Consistent
<1>3. /\ d.tables \in Seq(Objects) /\ Distinct(d.tables)
      /\ ToSet(d.tables) = ToSet(db.tables) \ {e}
      /\ \A a, b : Older(a, b, db.tables) /\ a # e /\ b # e => Older(a, b, d.tables)
  BY <1>2, Dropped DEF Without
<1>4. /\ d.rows \in [Filenames -> {o.checksum : o \in Runnable} \cup {None}]
      /\ \A n \in Filenames : d.rows[n] # None => d.rows[n] = db.rows[n] /\ e # Track
  BY <1>2 DEF Without, EmptyDb
<1>5. /\ d.ran \in [Filenames -> {Lowered(o) : o \in Runnable} \cup {None}]
      /\ \A n \in Filenames : n # e => d.ran[n] = db.ran[n]
  BY <1>2 DEF Without
<1>6. d \in Databases
  BY <1>2, <1>3, <1>4, <1>5 DEF Databases, Without
<1>7. Consistent(d)
  <2> SUFFICES ASSUME NEW n \in Filenames \ Tolerant, d.rows[n] # None
               PROVE  /\ Older(Track, n, d.tables)
                      /\ \E o \in Runnable :
                           /\ o.name = n /\ o.checksum = d.rows[n]
                           /\ Lowered(o) = d.ran[n] /\ Lowered(o) # Broken
    BY <1>3 DEF Consistent
  <2>1. n # e /\ Track # e /\ d.rows[n] = db.rows[n] /\ d.ran[n] = db.ran[n]
    BY <1>4, <1>5
  <2> HIDE DEF d
  <2>2. QED
    BY <1>3, <2>1 DEF Consistent
<1>8. QED
  BY <1>3, <1>4, <1>6, <1>7

-----------------------------------------------------------------------------
\* The inductive invariant.

\* A wipe is asked for by `--reset` without the flags that only look, or seed.
LEMMA Verbs ==
  ASSUME NEW flags
  PROVE  /\ Verb(flags) \in {"seed", "status", "dry_run", "reset", "apply"}
         /\ Verb(flags) = "reset" =>
              /\ "reset" \in flags
              /\ flags \cap {"seed_only", "status", "dry_run"} = {}
BY DEF Verb

\* Where a run works: `main` unless its database is private.
LEMMA Places == /\ Home \in Homes
                /\ ~Private => Home = "main"
                /\ Backend \in {"sqlite", "postgres"}
BY DEF Home, Homes, Backend

\* What an invocation loads may be run, one migration of each name; what it
\* loads for seeds has names that are ordered.
LEMMA FromDisk ==
  ASSUME inv \in Invocations, inv.dir # Missing,
         Resolve(Load(inv.dir, Backend).files).error = "none"
  PROVE  /\ Resolve(Load(inv.dir, Backend).files).files \subseteq Runnable
         /\ \A m, o \in Resolve(Load(inv.dir, Backend).files).files :
              m.name = o.name => m = o
<1> DEFINE loaded == Load(inv.dir, Backend).files
<1>1. loaded \subseteq Sources
  BY Places DEF Sources
<1>2. \A m, o \in loaded : m.name = o.name => m = o
  BY OnDisk
<1>3. \A m \in loaded : Resolved(m).name = m.name
  <2> TAKE m \in loaded
  <2>1. PICK body, from : m = Migration(m.name, body, from)
    BY OnDisk
  <2> DEFINE n == m.name
  <2>2. m = [name |-> n, kind |-> KindOf[n], body |-> body, from |-> from,
             checksum |-> Checksum(KindOf[n], body)]
    BY <2>1 DEF Migration
  <2> HIDE DEF n
  <2>3. Resolved(m).name = n
    BY <2>2 DEF Resolved
  <2>4. QED
    BY <2>3 DEF n
<1> HIDE DEF loaded
<1>4. Resolve(loaded).error = "none" => Resolve(loaded).files = {Resolved(m) : m \in loaded}
  BY DEF Resolve
<1>5. Resolve(loaded).files = {Resolved(m) : m \in loaded}
  BY <1>4 DEF loaded
<1>6. QED
  BY <1>1, <1>2, <1>3, <1>5 DEF Runnable, loaded

\* No database holds anything yet.
THEOREM Initially == Init => IInv
<1> SUFFICES ASSUME Init
             PROVE  IInv
  OBVIOUS
<1>1. inv \in Invocations
  BY DeployAssumption DEF Init
<1>2. Typed
  BY <1>1, Emptied, DeployAssumption DEF Init, Typed, Homes, Points, Results
<1>3. Sound
  BY Emptied DEF Init, Sound, Homes
<1>4. Loading /\ Wiping /\ Allowed /\ Progress
  BY DEF Init, Loading, Wiping, Allowed, Progress
<1>5. QED
  BY <1>2, <1>3, <1>4 DEF IInv

\* A new process has loaded nothing yet.
LEMMA OnInvoke == ASSUME IInv, NEW i \in Invocations, Invoke(i)
                  PROVE  IInv'
<1>1. Typed'
  BY Emptied DEF IInv, Typed, Invoke, Homes, Points, Results
<1>2. Sound'
  BY Emptied DEF IInv, Sound, Typed, Invoke, Homes
<1>3. Loading' /\ Wiping' /\ Allowed' /\ Progress'
  BY DEF Loading, Wiping, Allowed, Progress, Invoke
<1>4. QED
  BY <1>1, <1>2, <1>3 DEF IInv

\* What is loaded can be run.
LEMMA OnLoad == ASSUME IInv, LoadFiles
                PROVE  IInv'
<1>1. UNCHANGED <<url, dbs, inv, answer, script, todo, faults>> /\ pc = "load" /\ todo = {}
  BY DEF IInv, Loading, LoadFiles
<1>2. pc' \in {"idle", "list", "confirm", "ensure"} /\ result' \in Results
  BY DEF LoadFiles, Exit, Goto, IInv, Typed, Results
<1>3. Typed'
  BY <1>1, <1>2 DEF IInv, Typed, Points
<1>4. Sound'
  BY <1>1 DEF IInv, Sound
<1>5. Wiping' /\ Progress'
  BY <1>2 DEF Wiping, Progress
<1>6. Allowed'
  BY <1>1, <1>2 DEF LoadFiles, Allowed, Consented, Exit, Goto
<1>7. /\ \/ UNCHANGED files
         \/ /\ files' \subseteq Runnable
            /\ \A m, o \in files' : m.name = o.name => m = o
      /\ seeds' # {} => UNCHANGED seeds \/ (~SeedsBad /\ seeds' = SeedFiles.files)
      /\ pc' = "ensure" /\ Verb(inv.flags) = "seed" => ~SeedsBad /\ seeds' = SeedFiles.files
  <2> DEFINE loaded   == Load(inv.dir, Backend)
             resolved == Resolve(loaded.files)
  <2>1. CASE \/ Dsn = None \/ OpenDriver(Dsn) = "unsupported"
             \/ inv.dir = Missing \/ loaded.error # "none"
             \/ resolved.error # "none"
    <3>1. UNCHANGED <<files, seeds>> /\ pc' = "idle"
      BY <2>1 DEF LoadFiles, Exit
    <3>2. QED
      BY <3>1
  <2>2. CASE ~(\/ Dsn = None \/ OpenDriver(Dsn) = "unsupported"
               \/ inv.dir = Missing \/ loaded.error # "none"
               \/ resolved.error # "none")
    <3> DEFINE seeding == Verb(inv.flags) = "seed"
    <3>1. /\ files' = resolved.files
          /\ seeds' = IF seeding /\ ~SeedsBad THEN SeedFiles.files ELSE {}
          /\ CASE seeding /\ SeedsBad -> Exit("usage")
               [] Verb(inv.flags) = "reset" /\ "yes" \in inv.flags -> Goto("list")
               [] Verb(inv.flags) = "reset" /\ "yes" \notin inv.flags ->
                    IF inv.tty THEN Goto("confirm") ELSE Exit("usage")
               [] OTHER -> Goto("ensure")
      BY <2>2 DEF LoadFiles
    <3>2. resolved.files \subseteq Runnable
          /\ \A m, o \in resolved.files : m.name = o.name => m = o
      BY <2>2, FromDisk DEF IInv, Typed
    <3>3. seeding /\ SeedsBad => pc' = "idle"
      BY <3>1 DEF Exit
    <3>4. QED
      BY <3>1, <3>2, <3>3
  <2>3. QED
    BY <2>1, <2>2
<1>8. SeedsBad' = SeedsBad /\ SeedFiles' = SeedFiles
  BY <1>1 DEF SeedsBad, SeedFiles, Backend, Dsn
<1>9. Loading'
  BY <1>1, <1>2, <1>7, <1>8 DEF IInv, Loading
<1>10. QED
  BY <1>3, <1>4, <1>5, <1>6, <1>9 DEF IInv

\* The user allows the wipe.
LEMMA OnConfirm == ASSUME IInv, Confirm
                   PROVE  IInv'
<1>1. UNCHANGED <<url, dbs, inv, files, script, todo, seeds, faults>>
  BY DEF Confirm, loopVars
<1>2. /\ pc = "confirm" /\ pc' \in {"list", "idle"} /\ result' \in Results
      /\ answer' \in {"none", "yes", "no"} /\ (pc' = "list" => answer' = "yes")
  BY DEF Confirm, Exit, Goto, IInv, Typed, Results
<1>3. Typed'
  BY <1>1, <1>2 DEF IInv, Typed, Points
<1>4. Loading'
  BY <1>1, <1>2 DEF IInv, Loading, SeedsBad, SeedFiles, Backend, Dsn
<1>5. Sound' /\ Wiping' /\ Allowed' /\ Progress'
  BY <1>1, <1>2 DEF IInv, Sound, Wiping, Allowed, Consented, Progress
<1>6. QED
  BY <1>3, <1>4, <1>5 DEF IInv

\* What a wipe lists is what is there, in the order of its age.
LEMMA OnBegin == ASSUME IInv, BeginWipe
                 PROVE  IInv'
<1>1. /\ UNCHANGED <<url, inv, answer, files, todo, seeds, faults, result>>
      /\ pc = "list" /\ pc' \in {"drop", "ensure"}
      /\ pc' = "drop" => script' = Db.tables /\ UNCHANGED dbs
      /\ UNCHANGED dbs \/ dbs' = [dbs EXCEPT ![Home] = EmptyDb]
  BY DEF BeginWipe, Goto
<1>2. dbs' \in [Homes -> Databases] /\ Sound'
  BY <1>1, Emptied, Places DEF IInv, Typed, Sound
<1>3. Typed'
  BY <1>1, <1>2 DEF IInv, Typed, Points
<1>4. Verb(inv.flags) = "reset" /\ Consented
  BY <1>1 DEF IInv, Allowed
<1>5. Loading'
  BY <1>1, <1>4 DEF IInv, Loading, SeedsBad, SeedFiles, Backend, Dsn
<1>6. Allowed' /\ Progress'
  BY <1>1, <1>4 DEF Allowed, Consented, Progress
<1>7. Wiping'
  <2> SUFFICES ASSUME pc' = "drop"
               PROVE  Wiping'
    BY DEF Wiping
  <2>1. Db' = Db /\ script' = Db.tables
    BY <1>1 DEF Db, Home, Private, Dsn
  <2>2. Db \in Databases /\ Consistent(Db)
    BY Places DEF IInv, Typed, Sound, Db
  <2>3. /\ Db.tables \in Seq(Objects) /\ Distinct(Db.tables)
        /\ \A n \in Filenames \ Tolerant : Db.rows[n] # None => Older(Track, n, Db.tables)
    BY <2>2 DEF Databases, Consistent
  <2>4. QED
    BY <2>1, <2>3 DEF Wiping
<1>8. QED
  BY <1>2, <1>3, <1>5, <1>6, <1>7 DEF IInv

\* The first of a list has nothing before it.
LEMMA First ==
  ASSUME NEW S, NEW s \in Seq(S), s # <<>>, Distinct(s)
  PROVE  /\ Head(s) \in S /\ Tail(s) \in Seq(S) /\ Distinct(Tail(s))
         /\ Head(s) \in ToSet(s)
         /\ ToSet(Tail(s)) = ToSet(s) \ {Head(s)}
         /\ \A a : ~Older(a, Head(s), s)
         /\ \A a, b : Older(a, b, s) /\ a # Head(s) => Older(a, b, Tail(s))
<1> DEFINE t == Tail(s)
<1>1. /\ Len(s) > 0 /\ Head(s) = s[1] /\ s[1] \in S
      /\ t \in Seq(S) /\ Len(t) = Len(s) - 1
      /\ \A i \in 1..Len(t) : t[i] = s[i + 1]
  OBVIOUS
<1> HIDE DEF t
<1>2. \A i, j \in 1..Len(s) : s[i] = s[j] => i = j
  BY DEF Distinct
<1>3. Distinct(t)
  <2>1. ASSUME NEW i \in 1..Len(t), NEW j \in 1..Len(t), t[i] = t[j]
        PROVE  i = j
    <3>1. i + 1 \in 1..Len(s) /\ j + 1 \in 1..Len(s) /\ s[i + 1] = s[j + 1]
      BY <1>1, <2>1
    <3>2. i + 1 = j + 1
      BY <1>2, <3>1
    <3>3. QED
      BY <3>2
  <2>2. QED
    BY <1>1, <2>1 DEF Distinct
<1>4. ToSet(t) = ToSet(s) \ {Head(s)}
  <2>1. ToSet(s) = {s[i] : i \in 1..Len(s)} /\ ToSet(t) = {t[i] : i \in 1..Len(t)}
    BY <1>1 DEF ToSet
  <2>2. \A i \in 1..Len(t) : i + 1 \in 1..Len(s) /\ i + 1 # 1
    BY <1>1
  <2>3. \A i \in 1..Len(s) : i # 1 => i - 1 \in 1..Len(t) /\ t[i - 1] = s[i]
    BY <1>1
  <2>4. 1 \in 1..Len(s)
    BY <1>1
  <2>5. ToSet(t) \subseteq ToSet(s) \ {Head(s)}
    BY <1>1, <1>2, <2>1, <2>2, <2>4
  <2>6. ToSet(s) \ {Head(s)} \subseteq ToSet(t)
    BY <1>1, <2>1, <2>3
  <2>7. QED
    BY <2>5, <2>6
<1>5. \A a : ~Older(a, Head(s), s)
  BY <1>1, <1>2 DEF Older
<1>6. ASSUME NEW a, NEW b, Older(a, b, s), a # Head(s)
      PROVE  Older(a, b, t)
  <2>1. PICK i, j \in 1..Len(s) : i < j /\ s[i] = a /\ s[j] = b
    BY <1>6 DEF Older
  <2>2. i - 1 \in 1..Len(t) /\ j - 1 \in 1..Len(t) /\ t[i - 1] = a /\ t[j - 1] = b
    BY <1>1, <1>6, <2>1
  <2>3. QED
    BY <1>1, <2>1, <2>2 DEF Older
<1>7. Head(s) \in ToSet(s)
  BY <1>1 DEF ToSet
<1>8. QED
  BY <1>1, <1>3, <1>4, <1>5, <1>6, <1>7 DEF t

\* A wipe cut short after any statement has dropped the tracking table before
\* what it records.
LEMMA OnDrop == ASSUME IInv, DropNext
                PROVE  IInv'
<1>1. UNCHANGED <<url, inv, answer, files, todo, seeds, faults, result>> /\ pc = "drop"
  BY DEF DropNext, Goto
<1>2. Verb(inv.flags) = "reset" /\ Consented
  BY <1>1 DEF IInv, Allowed
<1>3. CASE script = <<>>
  <2>1. UNCHANGED <<dbs, script>> /\ pc' = "ensure"
    BY <1>3 DEF DropNext, Goto
  <2>2. Typed'
    BY <1>1, <2>1 DEF IInv, Typed, Points
  <2>3. Loading'
    BY <1>1, <1>2, <2>1 DEF IInv, Loading, SeedsBad, SeedFiles, Backend, Dsn
  <2>4. Sound' /\ Wiping' /\ Allowed' /\ Progress'
    BY <2>1 DEF IInv, Sound, Wiping, Allowed, Progress
  <2>5. QED
    BY <2>2, <2>3, <2>4 DEF IInv
<1>4. CASE script # <<>>
  <2> DEFINE e == Head(script)
             d == Without(Db, e)
  <2>1. /\ dbs' = [dbs EXCEPT ![Home] = d] /\ script' = Tail(script)
        /\ pc' = "drop"
    BY <1>4 DEF DropNext, Db
  <2>2. /\ script \in Seq(Objects) /\ Distinct(script)
        /\ ToSet(script) \subseteq ToSet(Db.tables)
        /\ \A n \in Filenames \ Tolerant :
             n \in ToSet(script) /\ Db.rows[n] # None => Older(Track, n, script)
    BY <1>1 DEF IInv, Wiping
  <2>3. Db \in Databases /\ Consistent(Db)
    BY Places DEF IInv, Typed, Sound, Db
  <2>4. /\ e \in Objects /\ Tail(script) \in Seq(Objects) /\ Distinct(Tail(script))
        /\ e \in ToSet(script)
        /\ ToSet(Tail(script)) = ToSet(script) \ {e}
        /\ \A a : ~Older(a, e, script)
        /\ \A a, b : Older(a, b, script) /\ a # e => Older(a, b, Tail(script))
    BY <1>4, <2>2, First
  <2>5. e \in Filenames \ Tolerant => Db.rows[e] = None
    BY <2>2, <2>4
  <2> HIDE DEF e
  <2>6. /\ d \in Databases /\ Consistent(d)
        /\ ToSet(d.tables) = ToSet(Db.tables) \ {e}
        /\ \A n \in Filenames : d.rows[n] # None => Db.rows[n] # None /\ e # Track
    BY <2>3, <2>4, <2>5, Lost
  <2> HIDE DEF d
  <2>7. /\ dbs' \in [Homes -> Databases] /\ Sound' /\ Db' = d
    BY <1>1, <2>1, <2>6, Places DEF IInv, Typed, Sound, Db, Home, Private, Dsn
  <2>8. Typed'
    BY <1>1, <2>1, <2>7 DEF IInv, Typed, Points
  <2>9. Loading'
    BY <1>1, <2>1 DEF IInv, Loading, SeedsBad, SeedFiles, Backend, Dsn
  <2>10. Allowed' /\ Progress'
    BY <1>1, <1>2, <2>1 DEF Allowed, Consented, Progress
  <2>11. Wiping'
    <3>1. /\ script' \in Seq(Objects) /\ Distinct(script')
          /\ ToSet(script') \subseteq ToSet(d.tables)
      BY <2>1, <2>2, <2>4, <2>6
    <3>2. ASSUME NEW n \in Filenames \ Tolerant, n \in ToSet(script'), d.rows[n] # None
          PROVE  Older(Track, n, script')
      BY <2>1, <2>2, <2>4, <2>6, <3>2
    <3>3. QED
      BY <2>7, <3>1, <3>2 DEF Wiping
  <2>12. QED
    BY <2>7, <2>8, <2>9, <2>10, <2>11 DEF IInv
<1>5. QED
  BY <1>3, <1>4

\* Where the history is not refused, a recorded migration is in the database
\* as it means today.
LEMMA Agreed == ASSUME IInv, Offending = {}, NEW m \in files, m.name \in RecordedIn
                PROVE  Done(m)
<1> DEFINE n == m.name
<1>1. /\ m \in Runnable /\ n \in Filenames /\ Db.rows[n] # None
      /\ \A o \in files : o.name = n => o = m
  BY Identity DEF IInv, Loading, RecordedIn
<1>2. PICK o \in files : o.name = n /\ o.checksum = Db.rows[n]
  BY DEF Offending
<1>3. Db.rows[n] = m.checksum
  BY <1>1, <1>2
<1>4. CASE n \notin Tolerant
  <2>1. Consistent(Db)
    BY Places DEF IInv, Sound, Db
  <2>2. PICK p \in Runnable : /\ p.name = n /\ p.checksum = Db.rows[n]
                              /\ Lowered(p) = Db.ran[n] /\ Lowered(p) # Broken
    BY <1>1, <1>4, <2>1 DEF Consistent
  <2>3. Lowered(m) = Lowered(p)
    BY <1>1, <1>3, <2>2, SameMeaning
  <2>4. QED
    BY <1>3, <2>2, <2>3 DEF Done
<1>5. QED
  BY <1>3, <1>4 DEF Done

\* The plan leaves out only what is done; seeds of their own start only after
\* everything.
LEMMA OnPlan == ASSUME IInv, EnsureAndPlan
                PROVE  IInv'
<1> DEFINE d == Ensured(Db)
<1>1. /\ UNCHANGED <<url, inv, answer, files, script, seeds, faults>> /\ pc = "ensure"
      /\ dbs' = [dbs EXCEPT ![Home] = d]
  BY DEF EnsureAndPlan, Db
<1>2. Db \in Databases /\ Consistent(Db)
  BY Places DEF IInv, Typed, Sound, Db
<1>3. d \in Databases /\ Consistent(d) /\ d.rows = Db.rows /\ d.ran = Db.ran
  BY <1>2, Tracked
<1> HIDE DEF d
<1>4. /\ dbs' \in [Homes -> Databases] /\ Sound' /\ Db' = d
  BY <1>1, <1>3, Places DEF IInv, Typed, Sound, Db, Home, Private, Dsn
<1>5. /\ pc' \in {"idle", "seed", "apply"} /\ result' \in Results
      /\ pc' = "seed" => /\ Offending = {} /\ PendingFiles = {}
                         /\ Verb(inv.flags) = "seed" /\ UNCHANGED todo
      /\ pc' = "apply" => /\ Offending = {} /\ todo' = PendingFiles
                          /\ Verb(inv.flags) \in {"apply", "reset"}
      /\ UNCHANGED todo \/ todo' = PendingFiles
  <2>1. result \in Results
    BY DEF IInv, Typed
  <2>2. Verb(inv.flags) \in {"seed", "status", "dry_run", "reset", "apply"}
    BY Verbs
  <2>3. QED
    BY <2>1, <2>2 DEF EnsureAndPlan, Exit, Goto, Results
<1>6. Typed'
  BY <1>1, <1>4, <1>5 DEF IInv, Typed, Points
<1>7. Loading'
  BY <1>1, <1>5 DEF IInv, Loading, SeedsBad, SeedFiles, Backend, Dsn, PendingFiles
<1>8. Wiping' /\ Allowed'
  BY <1>1, <1>5 DEF Wiping, Allowed
<1>9. \A m \in files : Done(m) => Done(m)'
  BY <1>3, <1>4 DEF Done
<1>10. Progress'
  <2>1. ASSUME pc' = "apply", NEW m \in files
        PROVE  m.name \in todo' \/ Done(m)'
    <3>1. m.name \in RecordedIn \/ m.name \in todo'
      BY <1>5, <2>1 DEF PendingFiles
    <3>2. QED
      BY <1>5, <1>9, <2>1, <3>1, Agreed
  <2>2. ASSUME pc' = "seed"
        PROVE  /\ \A m \in files : Done(m)'
               /\ PendingFiles' = {}
               /\ seeds = SeedFiles.files
    <3>1. \A m \in files : m.name \in RecordedIn
      BY <1>5, <2>2 DEF PendingFiles
    <3>2. PendingFiles' = PendingFiles
      BY <1>1, <1>3, <1>4 DEF PendingFiles, RecordedIn
    <3>3. QED
      BY <1>1, <1>5, <1>9, <2>2, <3>1, <3>2, Agreed DEF IInv, Loading
  <2>3. SeedFiles' = SeedFiles
    BY <1>1 DEF SeedFiles, Backend, Dsn
  <2>4. QED
    BY <1>1, <1>5, <2>1, <2>2, <2>3 DEF Progress
<1>11. QED
  BY <1>4, <1>6, <1>7, <1>8, <1>10 DEF IInv

\* One more migration is done, and none undone.
LEMMA OneMore ==
  ASSUME IInv, UNCHANGED files, NEW m \in files, NEW db \in Databases, Consistent(db),
         Track \in ToSet(db.tables), db.rows = Db.rows, db.ran = Db.ran,
         Lowered(m) # Broken, m.name \in Tolerant \/ m.name \notin ToSet(db.tables),
         Db' = WithMigration(db, m)
  PROVE  Done(m)' /\ \A o \in files : Done(o) => Done(o)'
<1>1. m \in Runnable /\ \A o \in files : o.name = m.name => o = m
  BY DEF IInv, Loading
<1>2. \A o \in files : o.name \in Filenames
  BY Identity DEF IInv, Loading
<1>3. /\ Db'.rows[m.name] = m.checksum
      /\ m.name \notin Tolerant => Db'.ran[m.name] = Lowered(m)
      /\ \A n \in Filenames \ {m.name} : Db'.rows[n] = Db.rows[n] /\ Db'.ran[n] = Db.ran[n]
  BY <1>1, Applied
<1>4. Done(m)'
  BY <1>3 DEF Done
<1>5. \A o \in files : o.name # m.name /\ Done(o) => Done(o)'
  BY <1>2, <1>3 DEF Done
<1>6. QED
  BY <1>1, <1>4, <1>5

\* The apply loop takes what is pending in the order of names.
LEMMA OnApply == ASSUME IInv, ApplyNext
                 PROVE  IInv'
<1>1. UNCHANGED <<url, inv, answer, files, script, faults>> /\ pc = "apply"
  BY DEF ApplyNext
<1>2. Verb(inv.flags) \in {"apply", "reset"}
  BY <1>1 DEF IInv, Allowed
<1>3. SeedsBad' = SeedsBad /\ SeedFiles' = SeedFiles
  BY <1>1 DEF SeedsBad, SeedFiles, Backend, Dsn
<1> DEFINE m == File(Min(todo))
<1> DEFINE Takes == todo # {} /\ CanRun(m) /\ Has(Track) /\ Min(todo) \notin RecordedIn
<1>4. CASE Takes
  <2>1. /\ dbs' = [dbs EXCEPT ![Home] = WithMigration(Db, m)]
        /\ todo' = todo \ {Min(todo)}
        /\ UNCHANGED <<pc, result, seeds>>
    BY <1>4 DEF ApplyNext, Db
  <2>2. todo \subseteq Nat /\ todo \subseteq {o.name : o \in files}
    BY Identity DEF IInv, Loading
  <2>3. Min(todo) \in todo
    BY <1>4, <2>2, Minimum
  <2>4. PICK f \in files : f = m /\ f.name = Min(todo)
    BY <2>2, <2>3 DEF File
  <2> HIDE DEF m
  <2>5. /\ f \in Runnable /\ Lowered(f) # Broken /\ Track \in ToSet(Db.tables)
        /\ f.name \in Tolerant \/ f.name \notin ToSet(Db.tables)
    BY <1>4, <2>4 DEF IInv, Loading, CanRun, Has
  <2>6. Db \in Databases /\ Consistent(Db)
    BY Places DEF IInv, Typed, Sound, Db
  <2>7. WithMigration(Db, f) \in Databases /\ Consistent(WithMigration(Db, f))
    BY <2>5, <2>6, Applied
  <2>8. /\ dbs' \in [Homes -> Databases] /\ Sound' /\ Db' = WithMigration(Db, f)
    BY <1>1, <2>1, <2>4, <2>7, Places DEF IInv, Typed, Sound, Db, Home, Private, Dsn
  <2>9. Done(f)' /\ \A o \in files : Done(o) => Done(o)'
    BY <1>1, <2>4, <2>5, <2>6, <2>8, OneMore
  <2>10. Typed'
    BY <1>1, <2>1, <2>8 DEF IInv, Typed
  <2>11. Loading'
    BY <1>1, <1>3, <2>1 DEF IInv, Loading
  <2>12. Wiping' /\ Allowed'
    BY <1>1, <2>1 DEF IInv, Wiping, Allowed
  <2>13. Progress'
    <3>1. \A o \in files : o.name = f.name => o = f
      BY <2>4 DEF IInv, Loading
    <3>2. \A o \in files : o.name \in todo' \/ Done(o)'
      BY <1>1, <2>1, <2>4, <2>9, <3>1 DEF IInv, Progress
    <3>3. QED
      BY <1>1, <2>1, <3>2 DEF Progress
  <2>14. QED
    BY <2>8, <2>10, <2>11, <2>12, <2>13 DEF IInv
<1>5. CASE ~Takes
  <2>1. /\ UNCHANGED <<dbs, todo>> /\ pc' \in {"idle", "seed"} /\ result' \in Results
        /\ UNCHANGED seeds \/ (pc' = "seed" /\ ~SeedsBad /\ seeds' = SeedFiles.files)
        /\ pc' = "seed" => /\ todo = {} /\ "seed" \in inv.flags
                           /\ ~SeedsBad /\ seeds' = SeedFiles.files
    BY <1>5 DEF ApplyNext, Exit, Goto, IInv, Typed, Results
  <2>2. Typed'
    BY <1>1, <2>1 DEF IInv, Typed, Points
  <2>3. Loading'
    BY <1>1, <1>3, <2>1 DEF IInv, Loading
  <2>4. Sound' /\ Wiping' /\ Allowed'
    BY <1>1, <1>2, <2>1 DEF IInv, Sound, Wiping, Allowed
  <2>5. Progress'
    <3>1. Db' = Db
      BY <1>1, <2>1 DEF Db, Home, Private, Dsn
    <3>2. \A o \in files : Done(o) => Done(o)'
      BY <3>1 DEF Done
    <3>3. pc' = "seed" => \A o \in files : Done(o)'
      BY <1>1, <2>1, <3>2 DEF IInv, Progress
    <3>4. QED
      BY <1>1, <1>2, <1>3, <2>1, <3>3 DEF Progress
  <2>6. QED
    BY <2>2, <2>3, <2>4, <2>5 DEF IInv
<1>6. QED
  BY <1>4, <1>5

\* A seed that has run is in the database.
LEMMA OnSeed == ASSUME IInv, SeedNext
                PROVE  IInv'
<1>1. UNCHANGED <<url, inv, answer, files, script, todo, faults>> /\ pc = "seed"
  BY DEF SeedNext
<1>2. SeedsBad' = SeedsBad /\ SeedFiles' = SeedFiles
  BY <1>1 DEF SeedsBad, SeedFiles, Backend, Dsn
<1> DEFINE s == CHOOSE m \in seeds : \A o \in seeds : m.name <= o.name
<1>3. CASE seeds # {} /\ SeedRuns(s)
  <2>1. /\ dbs' = IF SeedsElsewhere(s) THEN dbs ELSE [dbs EXCEPT ![Home].seeded = @ \cup {s.name}]
        /\ seeds' = seeds \ {s} /\ UNCHANGED <<pc, result>>
    BY <1>3 DEF SeedNext
  <2>2. seeds \subseteq SeedFiles.files /\ \A f \in seeds : f.name \in Filenames /\ f.name \in Nat
    BY <1>3, OnDisk DEF IInv, Loading, SeedFiles
  <2>3. \E f \in seeds : \A o \in seeds : f.name <= o.name
    BY <1>3, <2>2, Least
  <2>4. PICK f \in seeds : f = s
    BY <2>3
  <2>5. ~SeedsElsewhere(f)
    BY <1>3, <2>4 DEF SeedRuns, SeedsElsewhere, Private, OpenDriver, IsPrivateMemoryDsn
  <2> HIDE DEF s
  <2> DEFINE d == [Db EXCEPT !.seeded = @ \cup {f.name}]
  <2>6. dbs' = [dbs EXCEPT ![Home] = d] /\ seeds' = seeds \ {f}
    BY <2>1, <2>4, <2>5 DEF Db
  <2>7. Db \in Databases /\ Consistent(Db)
    BY Places DEF IInv, Typed, Sound, Db
  <2>8. /\ d.tables = Db.tables /\ d.rows = Db.rows /\ d.ran = Db.ran
        /\ d.seeded = Db.seeded \cup {f.name}
        /\ d \in Databases
    BY <2>2, <2>4, <2>7 DEF Databases
  <2> HIDE DEF d
  <2>9. Consistent(d)
    BY <2>7, <2>8 DEF Consistent
  <2>10. /\ dbs' \in [Homes -> Databases] /\ Sound' /\ Db' = d
    BY <1>1, <2>6, <2>8, <2>9, Places DEF IInv, Typed, Sound, Db, Home, Private, Dsn
  <2>11. Typed'
    BY <1>1, <2>1, <2>10 DEF IInv, Typed
  <2>12. Loading'
    BY <1>1, <1>2, <2>1 DEF IInv, Loading
  <2>13. Wiping' /\ Allowed'
    BY <1>1, <2>1 DEF IInv, Wiping, Allowed
  <2>14. Progress'
    <3>1. \A o \in files : Done(o) => Done(o)'
      BY <2>8, <2>10 DEF Done
    <3>2. PendingFiles' = PendingFiles
      BY <1>1, <2>8, <2>10 DEF PendingFiles, RecordedIn
    <3>3. \A o \in SeedFiles.files : o \in seeds' \/ o.name \in Db'.seeded
      BY <1>1, <2>6, <2>8, <2>10 DEF IInv, Progress
    <3>4. QED
      BY <1>1, <1>2, <2>1, <3>1, <3>2, <3>3 DEF IInv, Progress
  <2>15. QED
    BY <2>10, <2>11, <2>12, <2>13, <2>14 DEF IInv
<1>4. CASE ~(seeds # {} /\ SeedRuns(s))
  <2>1. UNCHANGED <<dbs, seeds>> /\ pc' = "idle" /\ result' \in Results
    BY <1>4 DEF SeedNext, Exit, Results
  <2>2. Typed'
    BY <1>1, <2>1 DEF IInv, Typed, Points
  <2>3. Loading'
    BY <1>1, <1>2, <2>1 DEF IInv, Loading
  <2>4. Sound' /\ Wiping' /\ Allowed' /\ Progress'
    BY <2>1 DEF IInv, Sound, Wiping, Allowed, Progress
  <2>5. QED
    BY <2>2, <2>3, <2>4 DEF IInv
<1>5. QED
  BY <1>3, <1>4

\* Another process that applies the same files does what this one would.
LEMMA OnOther == ASSUME IInv, OtherApplies
                 PROVE  IInv'
<1> DEFINE pending == {m \in files : m.name \notin RecordedIn}
           d == Ensured(Db)
<1>1. PICK next \in pending : CanRun(next) /\ dbs' = [dbs EXCEPT !.main = WithMigration(Ensured(@), next)]
  <2>1. /\ pending # {}
        /\ CanRun(CHOOSE m \in pending : \A o \in pending : m.name <= o.name)
        /\ dbs' = [dbs EXCEPT !.main = WithMigration(Ensured(@),
                     CHOOSE m \in pending : \A o \in pending : m.name <= o.name)]
    BY DEF OtherApplies
  <2>2. \A m \in pending : m.name \in Nat
    BY Identity DEF IInv, Loading
  <2>3. \E m \in pending : \A o \in pending : m.name <= o.name
    BY <2>1, <2>2, Least
  <2>4. QED
    BY <2>1, <2>3
<1>2. /\ UNCHANGED <<url, pc, inv, answer, files, script, todo, seeds, result, faults>>
      /\ pc # "load" /\ Home = "main"
  BY Places DEF OtherApplies, loopVars
<1>3. /\ next \in files /\ next \in Runnable /\ Lowered(next) # Broken
      /\ next.name \in Filenames /\ next.name \notin RecordedIn
      /\ next.name \in Tolerant \/ next.name \notin ToSet(Db.tables)
  BY <1>1, Identity DEF IInv, Loading, CanRun, Has
<1>4. Db \in Databases /\ Consistent(Db)
  BY Places DEF IInv, Typed, Sound, Db
<1>5. /\ d \in Databases /\ Consistent(d)
      /\ ToSet(d.tables) = ToSet(Db.tables) \cup {Track}
      /\ d.rows = Db.rows /\ d.ran = Db.ran /\ d.seeded = Db.seeded
  BY <1>4, Tracked
<1>6. next.name \in Tolerant \/ next.name \notin ToSet(d.tables)
  BY <1>3, <1>5, LoadAssumption DEF Track
<1>7. dbs' = [dbs EXCEPT ![Home] = WithMigration(d, next)]
  BY <1>1, <1>2 DEF Db
<1> HIDE DEF d
<1> DEFINE e == WithMigration(d, next)
<1>8. /\ e \in Databases /\ Consistent(e)
      /\ ToSet(e.tables) = ToSet(d.tables) \cup {next.name}
      /\ e.seeded = d.seeded
      /\ \A n \in Filenames \ {next.name} : e.rows[n] = d.rows[n]
  BY <1>3, <1>5, <1>6, Applied
<1>9. /\ dbs' \in [Homes -> Databases] /\ Sound' /\ Db' = e
  BY <1>2, <1>7, <1>8, Places DEF IInv, Typed, Sound, Db, Home, Private, Dsn
<1>10. Done(next)' /\ \A o \in files : Done(o) => Done(o)'
  BY <1>2, <1>3, <1>5, <1>6, <1>9, OneMore
<1> HIDE DEF e
<1>11. Typed'
  BY <1>2, <1>9 DEF IInv, Typed
<1>12. Loading'
  BY <1>2 DEF IInv, Loading, SeedsBad, SeedFiles, Backend, Dsn
<1>13. Allowed'
  BY <1>2 DEF IInv, Allowed, Consented
<1>14. Wiping'
  <2> SUFFICES ASSUME pc = "drop"
               PROVE  Wiping'
    BY <1>2 DEF Wiping
  <2>1. /\ script \in Seq(Objects) /\ Distinct(script)
        /\ ToSet(script) \subseteq ToSet(Db.tables)
        /\ \A n \in Filenames \ Tolerant :
             n \in ToSet(script) /\ Db.rows[n] # None => Older(Track, n, script)
    BY DEF IInv, Wiping
  <2>2. ToSet(script) \subseteq ToSet(e.tables)
    BY <1>5, <1>8, <2>1
  <2>3. ASSUME NEW n \in Filenames \ Tolerant, n \in ToSet(script), e.rows[n] # None
        PROVE  Older(Track, n, script)
    BY <1>3, <1>5, <1>8, <2>1, <2>3
  <2>4. QED
    BY <1>2, <1>9, <2>1, <2>2, <2>3 DEF Wiping
<1>15. Progress'
  <2>1. SeedFiles' = SeedFiles
    BY <1>2 DEF SeedFiles, Backend, Dsn
  <2>2. ~(pc = "seed" /\ Verb(inv.flags) = "seed")
    BY <1>3 DEF IInv, Progress, PendingFiles
  <2>3. Db'.seeded = Db.seeded
    BY <1>5, <1>8, <1>9
  <2>4. QED
    BY <1>2, <1>10, <2>1, <2>2, <2>3 DEF IInv, Progress
<1>16. QED
  BY <1>9, <1>11, <1>12, <1>13, <1>14, <1>15 DEF IInv

\* A failed call, or a crash, leaves what is there.
LEMMA OnFail == ASSUME IInv, NEW outcome \in {"failed", "crashed"}, Fails(outcome)
                PROVE  IInv'
<1>1. /\ UNCHANGED <<url, dbs, inv, answer, files, script, todo, seeds>>
      /\ pc' = "idle" /\ result' \in Results /\ faults' \in 0..MaxFaults
  BY DeployAssumption DEF Fails, Exit, loopVars, Results, IInv, Typed
<1>2. Typed'
  BY <1>1 DEF IInv, Typed, Points
<1>3. Loading'
  BY <1>1 DEF IInv, Loading, SeedsBad, SeedFiles, Backend, Dsn
<1>4. Sound' /\ Wiping' /\ Allowed' /\ Progress'
  BY <1>1 DEF IInv, Sound, Wiping, Allowed, Progress
<1>5. QED
  BY <1>2, <1>3, <1>4 DEF IInv

\* Every step of every invocation keeps the invariant.
THEOREM Steps == IInv /\ [Next]_vars => IInv'
<1> SUFFICES ASSUME IInv, [Next]_vars
             PROVE  IInv'
  OBVIOUS
<1>1. CASE UNCHANGED vars
  BY <1>1 DEF vars, loopVars, IInv, Typed, Loading, Sound, Wiping, Allowed, Progress, Done,
              PendingFiles, RecordedIn, SeedsBad, SeedFiles, Backend, Dsn, Db, Home, Private,
              Consented
<1>2. CASE \E i \in Invocations : Invoke(i)
  BY <1>2, OnInvoke
<1>3. CASE LoadFiles
  BY <1>3, OnLoad
<1>4. CASE Confirm
  BY <1>4, OnConfirm
<1>5. CASE BeginWipe
  BY <1>5, OnBegin
<1>6. CASE DropNext
  BY <1>6, OnDrop
<1>7. CASE EnsureAndPlan
  BY <1>7, OnPlan
<1>8. CASE ApplyNext
  BY <1>8, OnApply
<1>9. CASE SeedNext
  BY <1>9, OnSeed
<1>10. CASE OtherApplies
  BY <1>10, OnOther
<1>11. CASE Fails("failed") \/ Fails("crashed")
  BY <1>11, OnFail
<1>12. QED
  BY <1>1, <1>2, <1>3, <1>4, <1>5, <1>6, <1>7, <1>8, <1>9, <1>10, <1>11 DEF Next

\* The invariant holds of every invocation, wherever a history of them leads.
THEOREM Invariance == Spec => []IInv
<1>1. QED
  BY Initially, Steps, PTL DEF Spec

-----------------------------------------------------------------------------
\* What follows for the user.

\* Every variable has its type, and only resolved migrations reach the engine.
THEOREM TypesHold == Spec => []TypeOK
<1>1. IInv => TypeOK
  <2> SUFFICES ASSUME IInv
               PROVE  TypeOK
    OBVIOUS
  <2>1. ASSUME NEW home \in Homes
        PROVE  ToSet(dbs[home].tables) \subseteq Objects /\ dbs[home].seeded \subseteq Filenames
    BY DEF IInv, Typed, Databases, ToSet
  <2>2. \A m \in files : m.kind \in {"sql", "schema"}
    BY Identity DEF IInv, Loading
  <2>3. QED
    BY <2>1, <2>2 DEF IInv, Typed, Loading, TypeOK, Homes, Objects, Points, Results
<1>2. QED
  BY <1>1, Invariance, PTL

\* A recorded migration has its table, through any crash inside a wipe and any
\* number of half-done wipes.
THEOREM RecordsAreTrue == Spec => []RecordedIsPresent
<1>1. IInv => RecordedIsPresent
  <2> SUFFICES ASSUME IInv, NEW home \in Homes, NEW n \in Filenames \ Tolerant,
                      dbs[home].rows[n] # None
               PROVE  n \in ToSet(dbs[home].tables)
    BY DEF RecordedIsPresent, Homes
  <2>1. Older(Track, n, dbs[home].tables)
    BY DEF IInv, Sound, Consistent
  <2>2. QED
    BY <2>1 DEF Older, ToSet
<1>2. QED
  BY <1>1, Invariance, PTL

\* A table is dropped only by a run that was asked to reset, not to look only, and
\* by `--yes` or a yes at its own prompt, whatever the flags, the answers and the
\* failures.
THEOREM Consent == Spec => WipesOnlyWithConsent
<1> DEFINE Kept == ToSet(dbs.main.tables) \subseteq ToSet(dbs'.main.tables)
           Step == ~Kept => /\ "reset" \in inv.flags
                            /\ inv.flags \cap {"seed_only", "status", "dry_run"} = {}
                            /\ Consented
<1>1. ASSUME IInv, [Next]_vars
      PROVE  Step
  <2>1. \A home \in Homes : dbs[home] \in Databases /\ Consistent(dbs[home])
    BY <1>1 DEF IInv, Typed, Sound
  <2>2. CASE dbs' = dbs \/ \E i \in Invocations : Invoke(i)
    BY <1>1, <2>2 DEF Invoke, IInv, Typed, Homes
  <2>3. CASE BeginWipe \/ DropNext
    BY <1>1, <2>3, Verbs DEF BeginWipe, DropNext, IInv, Allowed
  <2>4. CASE EnsureAndPlan
    <3>1. dbs' = [dbs EXCEPT ![Home] = Ensured(@)]
      BY <2>4 DEF EnsureAndPlan
    <3>2. \A home \in Homes : ToSet(dbs[home].tables) \subseteq ToSet(Ensured(dbs[home]).tables)
      BY <2>1, Tracked
    <3>3. QED
      BY <1>1, <3>1, <3>2, Places DEF IInv, Typed, Homes
  <2>5. CASE ApplyNext
    <3>1. dbs' = dbs \/ \E m : dbs' = [dbs EXCEPT ![Home] = WithMigration(@, m)]
      BY <2>5 DEF ApplyNext
    <3>2. ASSUME NEW m, NEW home \in Homes
          PROVE  ToSet(dbs[home].tables) \subseteq ToSet(WithMigration(dbs[home], m).tables)
      BY <2>1 DEF WithMigration, Databases, ToSet
    <3>3. QED
      BY <1>1, <3>1, <3>2, Places DEF IInv, Typed, Homes
  <2>6. CASE SeedNext
    <3>1. dbs' = dbs \/ \E n : dbs' = [dbs EXCEPT ![Home].seeded = @ \cup {n}]
      BY <2>6 DEF SeedNext
    <3>2. QED
      BY <1>1, <2>1, <3>1, Places DEF IInv, Typed, Homes, Databases
  <2>7. CASE OtherApplies
    <3>1. PICK m : dbs' = [dbs EXCEPT !.main = WithMigration(Ensured(@), m)]
      BY <2>7 DEF OtherApplies
    <3>2. /\ Ensured(dbs.main) \in Databases
          /\ ToSet(dbs.main.tables) \subseteq ToSet(Ensured(dbs.main).tables)
      BY <2>1, Tracked DEF Homes
    <3>3. ToSet(Ensured(dbs.main).tables)
            \subseteq ToSet(WithMigration(Ensured(dbs.main), m).tables)
      BY <3>2 DEF WithMigration, Databases, ToSet
    <3>4. QED
      BY <1>1, <3>1, <3>2, <3>3 DEF IInv, Typed, Homes
  <2>8. QED
    BY <1>1, <2>2, <2>3, <2>4, <2>5, <2>6, <2>7
    DEF Next, vars, LoadFiles, Confirm, Fails
<1>2. QED
  BY <1>1, Invariance, PTL DEF Spec, WipesOnlyWithConsent

\* `migrate seed` adds rows only to a database that has every migration.
THEOREM SeedsWait == Spec => SeedsOnlyWhenCurrent
<1> DEFINE Step == dbs'.main.seeded \ dbs.main.seeded # {} /\ Verb(inv.flags) = "seed"
                     => PendingFiles = {}
<1>1. ASSUME IInv, [Next]_vars
      PROVE  Step
  <2>1. \A home \in Homes : dbs[home] \in Databases /\ Consistent(dbs[home])
    BY <1>1 DEF IInv, Typed, Sound
  <2>2. CASE dbs' = dbs \/ \E i \in Invocations : Invoke(i)
    BY <1>1, <2>2 DEF Invoke, IInv, Typed, Homes
  <2>3. CASE SeedNext
    BY <1>1, <2>3 DEF SeedNext, IInv, Progress
  <2>4. CASE BeginWipe \/ DropNext \/ ApplyNext
    BY <1>1, <2>4 DEF BeginWipe, DropNext, ApplyNext, IInv, Allowed
  <2>5. CASE EnsureAndPlan
    <3>1. dbs' = [dbs EXCEPT ![Home] = Ensured(@)]
      BY <2>5 DEF EnsureAndPlan
    <3>2. \A home \in Homes : Ensured(dbs[home]).seeded = dbs[home].seeded
      BY <2>1, Tracked
    <3>3. QED
      BY <1>1, <3>1, <3>2, Places DEF IInv, Typed, Homes
  <2>6. CASE OtherApplies
    <3>1. PICK m : dbs' = [dbs EXCEPT !.main = WithMigration(Ensured(@), m)]
      BY <2>6 DEF OtherApplies
    <3>2. Ensured(dbs.main).seeded = dbs.main.seeded
      BY <2>1, Tracked DEF Homes
    <3>3. QED
      BY <1>1, <3>1, <3>2 DEF IInv, Typed, Homes, WithMigration
  <2>7. QED
    BY <1>1, <2>2, <2>3, <2>4, <2>5, <2>6
    DEF Next, vars, LoadFiles, Confirm, Fails
<1>2. QED
  BY <1>1, Invariance, PTL DEF Spec, SeedsOnlyWhenCurrent

\* An invocation that has not ended has no result.
Running == pc # "idle" => result = "none"

\* It is never found with one.
LEMMA NoResultYet == Spec => []Running
<1>1. Init => Running
  BY DEF Init, Running
<1>2. Running /\ [Next]_vars => Running'
  BY DEF Next, vars, Running, Invoke, LoadFiles, Confirm, BeginWipe, DropNext, EnsureAndPlan,
         ApplyNext, SeedNext, OtherApplies, Fails, Exit, Goto
<1>3. QED
  BY <1>1, <1>2, PTL DEF Spec

\* Exit code 0 after apply, reset or seed, unless a wipe was declined: every file
\* is recorded, was made of what its body means today, and every seed asked for is
\* in the database.
THEOREM ZeroIsDone == Spec => ZeroMeansDone
<1> DEFINE Step ==
      (/\ result' = "ok" /\ pc' # pc
       /\ Verb(inv.flags) \in {"apply", "reset", "seed"} /\ answer' # "no") =>
        /\ \A m \in files : /\ Db.rows[m.name] = m.checksum
                            /\ m.name \notin Tolerant => Db.ran[m.name] = Lowered(m)
        /\ Verb(inv.flags) = "seed" \/ "seed" \in inv.flags =>
             \A m \in SeedFiles.files : m.name \in Db.seeded
<1>1. ASSUME IInv, Running, [Next]_vars
      PROVE  Step
  <2> SUFFICES ASSUME result' = "ok", pc' # pc, answer' # "no",
                      Verb(inv.flags) \in {"apply", "reset", "seed"}
               PROVE  /\ \A m \in files : Done(m)
                      /\ Verb(inv.flags) = "seed" \/ "seed" \in inv.flags =>
                           \A m \in SeedFiles.files : m.name \in Db.seeded
    BY DEF Done
  <2>1. CASE ApplyNext
    <3>1. todo = {} /\ "seed" \notin inv.flags /\ pc = "apply"
      BY <1>1, <2>1 DEF ApplyNext, Exit, Goto, Running
    <3>2. Verb(inv.flags) # "seed"
      BY <1>1, <3>1 DEF IInv, Allowed
    <3>3. QED
      BY <1>1, <3>1, <3>2 DEF IInv, Progress
  <2>2. CASE SeedNext
    <3>1. seeds = {} /\ pc = "seed"
      BY <1>1, <2>2 DEF SeedNext, Exit
    <3>2. QED
      BY <1>1, <3>1 DEF IInv, Progress
  <2>3. CASE EnsureAndPlan
    BY <1>1, <2>3 DEF EnsureAndPlan, Exit, Goto, Running
  <2>4. CASE LoadFiles
    BY <1>1, <2>4 DEF LoadFiles, Exit, Goto, Running
  <2>5. QED
    BY <1>1, <2>1, <2>2, <2>3, <2>4
    DEF Next, vars, Invoke, Confirm, BeginWipe, DropNext, OtherApplies, Fails, Exit, Goto, Running
<1>2. QED
  BY <1>1, Invariance, NoResultYet, PTL DEF Spec, ZeroMeansDone

\* A run is refused for its history only where a recorded migration is gone or
\* means something else now.
THEOREM DriftIsReal == Spec => DriftIsRealChange
<1> DEFINE Step ==
      result' = "refused" /\ pc' # pc =>
        \E n \in RecordedIn :
          \A m \in files : m.name = n =>
            \/ Lowered(m) # Db.ran[n] \/ n \in Tolerant
            \/ m.kind = "sql" /\ m.checksum # Db.rows[n]
<1>1. ASSUME IInv, Running, [Next]_vars
      PROVE  Step
  <2> SUFFICES ASSUME result' = "refused", pc' # pc
               PROVE  \E n \in RecordedIn :
                        \A m \in files : m.name = n =>
                          \/ Lowered(m) # Db.ran[n] \/ n \in Tolerant
                          \/ m.kind = "sql" /\ m.checksum # Db.rows[n]
    OBVIOUS
  <2>1. Offending # {}
    BY <1>1
    DEF Next, vars, Invoke, LoadFiles, Confirm, BeginWipe, DropNext, EnsureAndPlan, ApplyNext,
        SeedNext, OtherApplies, Fails, Exit, Goto, Running
  <2>2. PICK n \in RecordedIn : \A m \in files : m.name # n \/ m.checksum # Db.rows[n]
    BY <2>1 DEF Offending
  <2>3. ASSUME NEW m \in files, m.name = n, n \notin Tolerant, m.kind # "sql",
               Lowered(m) = Db.ran[n]
        PROVE  FALSE
    <3>1. m \in Runnable /\ m.kind = "schema" /\ n \in Filenames
      BY <1>1, <2>3, Identity DEF IInv, Loading
    <3>2. Consistent(Db) /\ Db.rows[n] # None
      BY <1>1, Places DEF IInv, Sound, Db, RecordedIn
    <3>3. PICK o \in Runnable : /\ o.name = n /\ o.checksum = Db.rows[n]
                                /\ Lowered(o) = Db.ran[n] /\ Lowered(o) # Broken
      BY <2>3, <3>1, <3>2 DEF Consistent
    <3>4. m.checksum = o.checksum
      BY <2>3, <3>1, <3>3, SameMeaning
    <3>5. QED
      BY <2>2, <2>3, <3>3, <3>4
  <2>4. QED
    BY <2>2, <2>3
<1>2. QED
  BY <1>1, Invariance, NoResultYet, PTL DEF Spec, DriftIsRealChange

\* Where each dialect has at most one directory, the listing order of the file
\* system decides nothing about what is loaded.
THEOREM ListingIsIrrelevant == Spec => []ListingOrderIsIrrelevant
<1> DEFINE subs == inv.dir.subs
           turned == Directory(inv.dir.base, Reverse(subs))
<1>1. ASSUME IInv, inv.dir # Missing,
             \A i, j \in DOMAIN subs :
               i # j => DialectOf(subs[i].name) # DialectOf(subs[j].name)
                        \/ DialectOf(subs[i].name) = "none"
      PROVE  Load(inv.dir, Backend).files = Load(turned, Backend).files
  <2> DEFINE S == ToSet(subs)
             back(i) == Len(subs) + 1 - i
  <2>1. subs \in Seq(S)
    BY <1>1, DeployAssumption DEF IInv, Typed
  <2>2. /\ turned.base = inv.dir.base
        /\ DOMAIN turned.subs = DOMAIN subs
        /\ \A i \in DOMAIN subs : turned.subs[i] = subs[back(i)]
    BY <2>1 DEF Directory, Reverse
  <2>3. \A i \in DOMAIN subs : back(i) \in DOMAIN subs /\ back(back(i)) = i
    BY <2>1
  <2>4. \A i, j \in DOMAIN subs : i \in Nat /\ (back(i) = back(j) => i = j)
    BY <2>1
  <2> HIDE DEF back, turned, subs
  <2> DEFINE Bad(dir) == {i \in DOMAIN dir.subs : Problem(dir, dir.subs[i]) # "none"}
  <2>5. Bad(turned) = {} <=> Bad(inv.dir) = {}
    <3>1. \A s : Problem(turned, s) = Problem(inv.dir, s)
      BY <2>2 DEF Problem
    <3>2. QED
      BY <2>2, <2>3, <3>1 DEF subs
  <2>6. \A n : Loaded(turned, Backend, n) = Loaded(inv.dir, Backend, n)
    <3> TAKE n
    <3> DEFINE here  == Overriding(inv.dir, Backend, n)
               there == Overriding(turned, Backend, n)
    <3>1. here \subseteq DOMAIN subs /\ \A i, j \in here : i = j
      BY <1>1, Places DEF Overriding, subs
    <3>2. there = {i \in DOMAIN subs : back(i) \in here}
      BY <2>2, <2>3 DEF Overriding, subs
    <3> HIDE DEF here, there
    <3>3. CASE here = {}
      BY <2>2, <3>2, <3>3 DEF Loaded, here, there
    <3>4. CASE here # {}
      <4>1. PICK i \in here : here = {i}
        BY <3>1, <3>4
      <4>2. i \in DOMAIN subs /\ back(i) \in DOMAIN subs /\ there = {back(i)}
        BY <2>3, <2>4, <3>1, <3>2, <4>1
      <4>3. Max(here) = i /\ Max(there) = back(i)
        BY <2>4, <4>1, <4>2 DEF Max
      <4>4. turned.subs[Max(there)] = inv.dir.subs[Max(here)]
        BY <2>2, <2>3, <4>2, <4>3 DEF subs
      <4>5. QED
        BY <2>2, <4>1, <4>2, <4>4 DEF Loaded, here, there
    <3>5. QED
      BY <3>3, <3>4
  <2>7. BodyFiles(turned.base) = BodyFiles(inv.dir.base)
    BY <2>2
  <2>8. \A dir : Load(dir, Backend).files =
                  IF Bad(dir) = {} THEN {Loaded(dir, Backend, n) : n \in BodyFiles(dir.base)}
                  ELSE {}
    BY DEF Load
  <2> HIDE DEF Bad
  <2>9. {Loaded(turned, Backend, n) : n \in BodyFiles(turned.base)}
          = {Loaded(inv.dir, Backend, n) : n \in BodyFiles(inv.dir.base)}
    BY <2>6, <2>7
  <2>10. Load(turned, Backend).files =
           IF Bad(turned) = {} THEN {Loaded(turned, Backend, n) : n \in BodyFiles(turned.base)}
           ELSE {}
    BY <2>8
  <2>11. Load(inv.dir, Backend).files =
           IF Bad(inv.dir) = {} THEN {Loaded(inv.dir, Backend, n) : n \in BodyFiles(inv.dir.base)}
           ELSE {}
    BY <2>8
  <2>12. QED
    BY <2>5, <2>9, <2>10, <2>11
<1>2. IInv => ListingOrderIsIrrelevant
  BY <1>1 DEF ListingOrderIsIrrelevant
<1>3. QED
  BY <1>2, Invariance, PTL
=============================================================================
