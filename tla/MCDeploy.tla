------------------------------ MODULE MCDeploy ------------------------------
(***************************************************************************)
(* A small instance of Deploy for TLC: three migrations, one of each body  *)
(* language, and a README next to them.                                    *)
(***************************************************************************)
EXTENDS Deploy

MCKindOf == <<"sql", "schema", "program", "other">>

Sql      == Body("create", "t1")
SqlFixed == Body("create for one backend", "t1 for one backend")
Dsl      == Body("one line", "ir2")
DslWide  == Body("many lines", "ir2")
DslNew   == Body("one line more", "ir2 and more")
Program  == Body("program", "ir3")
Fails3   == Body("program that throws", Broken)

Files(f1, f2, f3) == <<f1, f2, f3, NoFile>>
Nothing == Files(NoFile, NoFile, NoFile)
Sub(name, its) == [name |-> name, files |-> its]

Plain     == Directory(Files(Sql, Dsl, Program), <<>>)
Wide      == Directory(Files(Sql, DslWide, Program),
                       <<Sub("Postgres", Files(SqlFixed, NoFile, NoFile)),
                         Sub("notes", <<NoFile, NoFile, NoFile, Sql>>)>>)
Fixed     == Directory(Files(Sql, Dsl, Program),
                       <<Sub("sqlite", Files(SqlFixed, DslWide, NoFile))>>)
Moved     == Directory(Files(Sql, Dsl, Program),
                       <<Sub("sqlite", Files(NoFile, DslWide, NoFile)),
                         Sub("postgres", Files(NoFile, DslNew, NoFile))>>)
Edited    == Directory(Files(Sql, DslNew, Program), <<>>)
Deleted   == Directory(Files(Sql, NoFile, Program), <<>>)
Throws    == Directory(Files(Sql, Dsl, Fails3), <<>>)
Mistyped  == Directory(Files(Sql, Dsl, NoFile), <<Sub("mysql", Files(Sql, NoFile, NoFile))>>)
Orphan    == Directory(Files(NoFile, Dsl, NoFile), <<Sub("postgres", Files(Sql, NoFile, NoFile))>>)
SeedDir   == Directory(Files(Sql, NoFile, Program), <<>>)

Line(flags, db, dir, seedDir, tty) ==
  [flags |-> flags, db |-> db, dir |-> dir, seeds |-> seedDir, tty |-> tty]

MCInvocations ==
  {Line({}, None, dir, Missing, FALSE) :
     dir \in {Plain, Wide, Fixed, Moved, Edited, Deleted, Throws, Mistyped, Orphan}}
  \cup {Line(flags, None, Plain, SeedDir, TRUE) :
     flags \in {{"seed"}, {"seed_only"}, {"reset", "seed"}, {"status", "reset", "yes"},
                {"dry_run", "reset", "yes"}, {"seed_only", "reset", "yes"}}}
  \cup {Line(flags, None, Fixed, Missing, FALSE) :
     flags \in {{"reset"}, {"reset", "yes"}, {"seed"}, {"seed_only"}}}
  \cup {Line({"seed"}, db, Plain, SeedDir, FALSE) :
     db \in {":memory:", "sqlite::memory:", "sqlite:"}}
  \cup {Line({}, "mysql://", Plain, Missing, FALSE),
        Line({}, None, Missing, Missing, FALSE)}
=============================================================================
