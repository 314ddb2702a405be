------------------------------- MODULE LoadDir -------------------------------
(***************************************************************************)
(* What `noeta migrate` takes from disk (migrate.rs): discovery of the     *)
(* body files of a directory, the per-dialect overrides, the identity of a *)
(* body, and the resolution of `.noe` migrations by running them.          *)
(*                                                                         *)
(* A file name is its position in the sorted list of all names, and its    *)
(* extension is KindOf of it.  A body is its text and what it means: the   *)
(* SQL it is, or the schema change that it parses to (a program: builds),  *)
(* or Broken where it does neither.                                        *)
(***************************************************************************)
EXTENDS Integers, FiniteSets, FiniteSetsExt

CONSTANTS Filenames,  \* positions 1..n of the sorted names
          KindOf,     \* the extension of each: a kind, or "other"
          NoFile,     \* no such file
          Broken      \* means nothing that could run

Kinds == {"sql", "schema", "program"}

ASSUME LoadAssumption ==
  /\ Filenames \subseteq Nat \ {0} /\ IsFiniteSet(Filenames)
  /\ KindOf \in [Filenames -> Kinds \cup {"other"}]

Body(text, means) == [text |-> text, means |-> means]

\* A directory: the files directly under it, and the sub-directories in the
\* order the file system lists them.
Directory(base, subs) == [base |-> base, subs |-> subs]

IsBodyFile(n) == KindOf[n] \in Kinds

\* The dialect a sub-directory is for, whatever its case.
DialectOf(name) ==
  CASE name \in {"sqlite", "SQLite"}     -> "sqlite"
    [] name \in {"postgres", "Postgres"} -> "postgres"
    [] OTHER                             -> "none"

\* (A slip: the text of a schema migration is hashed as it was written.)
ChecksumOfText(kind, body) == <<"text", body.text>>

\* The identity of a body: its canonical rendering where it is a schema that
\* parses, its text otherwise.
Checksum(kind, body) ==
  IF kind = "schema" /\ body.means # Broken THEN <<"ir", body.means>>
  ELSE <<"text", body.text>>

Migration(n, body, from) ==
  [name |-> n, kind |-> KindOf[n], body |-> body, from |-> from,
   checksum |-> Checksum(KindOf[n], body)]

\* The body files of a directory, or of a sub-directory.
BodyFiles(files) == {n \in Filenames : IsBodyFile(n) /\ files[n] # NoFile}

\* What is wrong with a sub-directory, whichever backend is connected.
Problem(dir, sub) ==
  CASE DialectOf(sub.name) = "none" /\ BodyFiles(sub.files) # {} -> "UnknownDialectDir"
    [] /\ DialectOf(sub.name) # "none"
       /\ ~(BodyFiles(sub.files) \subseteq BodyFiles(dir.base)) -> "OverrideWithoutBase"
    [] OTHER -> "none"

\* (A slip: the override of any dialect replaces the body.)
OverridingAnyDialect(dir, dialect, n) ==
  {i \in DOMAIN dir.subs : n \in BodyFiles(dir.subs[i].files)}

\* The sub-directories that replace the body of n on a dialect.
Overriding(dir, dialect, n) ==
  {i \in DOMAIN dir.subs : /\ DialectOf(dir.subs[i].name) = dialect
                           /\ n \in BodyFiles(dir.subs[i].files)}

\* (A slip: an override swaps the body and keeps the checksum of the base.)
LoadedKeepingChecksum(dir, dialect, n) ==
  LET over == Overriding(dir, dialect, n)
  IN IF over = {} THEN Migration(n, dir.base[n], "base")
     ELSE [Migration(n, dir.subs[Max(over)].files[n], dialect) EXCEPT
             !.checksum = Migration(n, dir.base[n], "base").checksum]

\* A base file, or the override that replaces it; of two directories for one
\* dialect, the one that is listed last.
Loaded(dir, dialect, n) ==
  LET over == Overriding(dir, dialect, n)
  IN IF over = {} THEN Migration(n, dir.base[n], "base")
     ELSE Migration(n, dir.subs[Max(over)].files[n], dialect)

\* load_dir: the first problem of the listing, or every migration.
Load(dir, dialect) ==
  LET problems == {i \in DOMAIN dir.subs : Problem(dir, dir.subs[i]) # "none"}
  IN IF problems = {}
     THEN [error |-> "none",
           files |-> {Loaded(dir, dialect, n) : n \in BodyFiles(dir.base)}]
     ELSE [error |-> Problem(dir, dir.subs[Min(problems)]), files |-> {}]

\* (A slip: the resolved migration is still a program to the engine.)
ResolvedInName(m) ==
  IF m.kind # "program" THEN m ELSE [m EXCEPT !.checksum = Checksum("schema", m.body)]

\* resolve_programs: each `.noe` migration runs, and becomes the schema that
\* it built; one that fails, or builds what does not parse, is an error.
Resolved(m) ==
  IF m.kind # "program" THEN m
  ELSE [m EXCEPT !.kind = "schema", !.checksum = Checksum("schema", m.body)]

Resolve(files) ==
  IF \E m \in files : m.kind = "program" /\ m.body.means = Broken
  THEN [error |-> "Emit", files |-> {}]
  ELSE [error |-> "none", files |-> {Resolved(m) : m \in files}]

\* What runs for a migration, or nothing where its schema does not parse (or
\* it was not resolved).
Lowered(m) ==
  IF m.kind = "program" THEN Broken ELSE m.body.means
=============================================================================
