------------------------------- MODULE Schema -------------------------------
(***************************************************************************)
(* The portable schema DSL of schema.rs: how a chain of calls is built     *)
(* into a statement, call by call; how a statement is rendered back into   *)
(* the canonical calls whose text is the identity of a migration; and how  *)
(* it is lowered to each backend's DDL.  What a backend does with that DDL *)
(* is external.                                                            *)
(*                                                                         *)
(* The state machine is the builder's loop over one chain, for any chain   *)
(* of the given calls; an option is a sequence of at most one element.     *)
(***************************************************************************)
EXTENDS SchemaSource, FiniteSets

CONSTANTS Roots,     \* the root calls a chain may open with
          Links,     \* the calls it may go on with
          Layouts,   \* what an author may put between two tokens
          MaxLinks   \* bound on the links of a chain

VARIABLES chain,     \* the calls read so far
          statement, \* what the builder has made of them
          closed     \* the chain has ended

vars == <<chain, statement, closed>>

-----------------------------------------------------------------------------
Dialects    == {"sqlite", "postgres"}
ColumnTypes == {"id", "text", "int", "bigint", "float", "bool", "timestamp"}
RefActions  == {"cascade", "restrict", "set_null", "set_default", "no_action"}
AddOf == [text |-> "add_text", int |-> "add_int", bigint |-> "add_bigint",
          float |-> "add_float", bool |-> "add_bool",
          timestamp |-> "add_timestamp"]

\* The words that a canonical source may hold besides the author's.
Vocabulary ==
  {"create_table", "create_index", "alter_table", "drop_table", "drop_index",
   "if_not_exists", "if_exists", "primary_key", "unique", "not_null", "default",
   "default_now", "references", "on_delete", "on_update", "name", "columns",
   "drop_column", "rename_to", "rename_column", "created_at", "updated_at"}
  \cup ColumnTypes \cup {AddOf[ty] : ty \in DOMAIN AddOf} \cup RefActions

ASSUME SchemaAssumption ==
  /\ Vocabulary \subseteq Words \ Foreign
  /\ \A call \in Roots \cup Links : IsCall(call)
  /\ \A root \in Roots : ~root.link
  /\ \A call \in Links : call.link
  /\ \A gap \in Layouts : IsLayout(gap)

Refused == [kind |-> "refused"]
Now     == Token("now", <<>>)

NewColumn(name, ty) ==
  [name |-> name, ty |-> ty, not_null |-> ty = "id", unique |-> FALSE,
   primary_key |-> FALSE, default |-> <<>>, references |-> <<>>]

Stamp(name) ==
  [NewColumn(name, "timestamp") EXCEPT !.not_null = TRUE, !.default = <<Now>>]

\* The spellings of a referential action: any case, and a blank or a dash for
\* the underscore.
RefAction(text) ==
  CASE Len(text) = 1 /\ text[1] \in RefActions -> <<text[1]>>
    [] text = <<"CASCADE">> -> <<"cascade">>
    [] text \in {<<"set", " ", "null">>, <<"SET", "-", "NULL">>} -> <<"set_null">>
    [] OTHER -> <<>>

\* A name that needs no quoting on either backend.
IsIdent(arg) == /\ arg.kind = "str"
                /\ Len(arg.value) = 1
                /\ IsWord(arg.value[1])
                /\ arg.value[1] \notin Foreign

NameIn(call, i)  == call.args[i].value[1]
NamesIn(call)    == [i \in DOMAIN call.args |-> NameIn(call, i)]
NoArgs(call)     == call.args = <<>>
Idents(call)     == \A i \in DOMAIN call.args : IsIdent(call.args[i])
ManyIdents(call) == Idents(call) /\ ~NoArgs(call)
ExactIdents(call, n) == Idents(call) /\ Len(call.args) = n

-----------------------------------------------------------------------------
\* One modifier link of a column, or Refused.
Modified(column, call) ==
  CASE call.name \in {"not_null", "unique", "primary_key"} /\ NoArgs(call) ->
         [column EXCEPT ![call.name] = TRUE]
    [] call.name = "default" /\ Len(call.args) = 1 ->
         [column EXCEPT !.default = call.args]
    [] call.name = "default_now" /\ NoArgs(call) ->
         [column EXCEPT !.default = <<Now>>]
    [] call.name = "references" /\ ExactIdents(call, 2) ->
         [column EXCEPT !.references =
            <<[table |-> NameIn(call, 1), column |-> NameIn(call, 2),
               on_delete |-> <<>>, on_update |-> <<>>]>>]
    [] /\ call.name \in {"on_delete", "on_update"}
       /\ Len(call.args) = 1 /\ call.args[1].kind = "str"
       /\ RefAction(call.args[1].value) # <<>>
       /\ column.references # <<>> ->
         [column EXCEPT !.references[1][call.name] =
                          RefAction(call.args[1].value)]
    [] OTHER -> Refused

\* The column a type call declares, named `id` where an identity has no name.
Declares(call, ty) == ExactIdents(call, 1) \/ (ty = "id" /\ NoArgs(call))
Declared(call, ty) == NewColumn(IF NoArgs(call) THEN "id" ELSE NameIn(call, 1), ty)

\* One link of a create_table chain.  primary_key and unique are keys of the
\* table with arguments, and modifiers of the last column without.
TableLink(table, call) ==
  LET n == Len(table.columns)
  IN CASE call.name \in ColumnTypes /\ Declares(call, call.name) ->
            [table EXCEPT !.columns = Append(@, Declared(call, call.name))]
       [] call.name = "timestamps" /\ NoArgs(call) ->
            [table EXCEPT !.columns =
               @ \o <<Stamp("created_at"), Stamp("updated_at")>>]
       [] call.name = "if_not_exists" /\ NoArgs(call) ->
            [table EXCEPT !.if_not_exists = TRUE]
       [] call.name = "primary_key" /\ ManyIdents(call)
                                    /\ table.primary_key = <<>> ->
            [table EXCEPT !.primary_key = NamesIn(call)]
       [] call.name = "unique" /\ ManyIdents(call) ->
            [table EXCEPT !.uniques = Append(@, NamesIn(call))]
       [] n > 0 /\ Modified(table.columns[n], call) # Refused ->
            [table EXCEPT !.columns[n] = Modified(@, call)]
       [] OTHER -> Refused

IndexLink(index, call) ==
  CASE call.name = "column" /\ ExactIdents(call, 1) ->
         [index EXCEPT !.columns = Append(@, NameIn(call, 1))]
    [] call.name = "columns" /\ Idents(call) ->
         [index EXCEPT !.columns = @ \o NamesIn(call)]
    [] call.name = "name" /\ ExactIdents(call, 1) ->
         [index EXCEPT !.name = NamesIn(call)]
    [] call.name \in {"unique", "if_not_exists"} /\ NoArgs(call) ->
         [index EXCEPT ![call.name] = TRUE]
    [] OTHER -> Refused

\* One link of an alter_table chain; a modifier is for the column that the
\* action before it adds.
AlterLink(alter, call) ==
  LET n == Len(alter.actions)
      Added(ty) == [do |-> "add", column |-> Declared(call, ty)]
      Do(what)  == [do |-> what, names |-> NamesIn(call)]
  IN CASE \E ty \in DOMAIN AddOf : call.name = AddOf[ty] /\ Declares(call, ty) ->
            [alter EXCEPT !.actions = Append(@,
               Added(CHOOSE ty \in DOMAIN AddOf : call.name = AddOf[ty]))]
       [] call.name \in {"drop_column", "rename_to"} /\ ExactIdents(call, 1) ->
            [alter EXCEPT !.actions = Append(@, Do(call.name))]
       [] call.name = "rename_column" /\ ExactIdents(call, 2) ->
            [alter EXCEPT !.actions = Append(@, Do(call.name))]
       [] /\ n > 0
          /\ alter.actions[n].do = "add"
          /\ Modified(alter.actions[n].column, call) # Refused ->
            [alter EXCEPT !.actions[n].column = Modified(@, call)]
       [] OTHER -> Refused

\* The only link of drop_table and drop_index.
DropLink(drop, call) ==
  IF call.name = "if_exists" /\ NoArgs(call)
  THEN [drop EXCEPT !.if_exists = TRUE] ELSE Refused

Opened(root) ==
  IF ~ExactIdents(root, 1) THEN Refused
  ELSE CASE root.name = "create_table" ->
              [kind |-> "create_table", on |-> NameIn(root, 1),
               if_not_exists |-> FALSE, columns |-> <<>>,
               primary_key |-> <<>>, uniques |-> <<>>]
         [] root.name = "create_index" ->
              [kind |-> "create_index", on |-> NameIn(root, 1), name |-> <<>>,
               columns |-> <<>>, unique |-> FALSE, if_not_exists |-> FALSE]
         [] root.name = "alter_table" ->
              [kind |-> "alter_table", on |-> NameIn(root, 1), actions |-> <<>>]
         [] root.name \in {"drop_table", "drop_index"} ->
              [kind |-> root.name, on |-> NameIn(root, 1), if_exists |-> FALSE]
         [] OTHER -> Refused

Linked(stmt, call) ==
  CASE stmt.kind = "create_table" -> TableLink(stmt, call)
    [] stmt.kind = "create_index" -> IndexLink(stmt, call)
    [] stmt.kind = "alter_table"  -> AlterLink(stmt, call)
    [] stmt.kind \in {"drop_table", "drop_index"} -> DropLink(stmt, call)
    [] OTHER -> Refused

-----------------------------------------------------------------------------
\* What a finished create_table has to be.
TableHolds(table) ==
  LET identities == {i \in DOMAIN table.columns : table.columns[i].ty = "id"}
      keys       == {i \in DOMAIN table.columns : table.columns[i].primary_key}
  IN /\ table.columns # <<>>
     /\ table.primary_key # <<>> => identities \cup keys = {}
     /\ Cardinality(identities) <= 1
     /\ Cardinality(keys) <= 1

\* (A slip: a default is a default, CURRENT_TIMESTAMP or not.)
AddHoldsWithNow(column) ==
  /\ column.not_null => column.default # <<>>
  /\ ~column.unique /\ ~column.primary_key
  /\ column.references = <<>> \/ column.default = <<>>

\* What SQLite's ADD COLUMN can add (validate_alter).
AddHolds(column) ==
  /\ column.not_null => column.default # <<>>
  /\ ~column.unique /\ ~column.primary_key
  /\ column.default # <<Now>>
  /\ column.references = <<>> \/ column.default = <<>>

AlterHolds(alter) ==
  /\ alter.actions # <<>>
  /\ Len(alter.actions) > 1 =>
       \A i \in DOMAIN alter.actions : alter.actions[i].do # "rename_to"
  /\ \A i \in DOMAIN alter.actions :
       alter.actions[i].do = "add" => AddHolds(alter.actions[i].column)

Finished(stmt) ==
  IF \/ stmt.kind = "create_table" /\ ~TableHolds(stmt)
     \/ stmt.kind = "create_index" /\ stmt.columns = <<>>
     \/ stmt.kind = "alter_table" /\ ~AlterHolds(stmt)
  THEN Refused ELSE stmt

\* parse: the statements of a source; a source with one refused statement, or
\* that does not read, has none (<<Refused>>).
Parse(src) ==
  LET calls == Chains(src)
      \* The last statement that the first k calls build, and those before it.
      build[k \in 1..Len(calls)] ==
        IF k > 1 /\ calls[k].link
        THEN [build[k - 1] EXCEPT !.last = Linked(@, calls[k])]
        ELSE [before |-> IF k = 1 THEN <<>>
                         ELSE Append(build[k - 1].before, Finished(build[k - 1].last)),
              last   |-> Opened(calls[k])]
      all == IF calls = <<>> THEN <<>>
             ELSE Append(build[Len(calls)].before, Finished(build[Len(calls)].last))
  IN IF Refused \in ToSet(all) THEN <<Refused>> ELSE all

-----------------------------------------------------------------------------
\* The canonical calls of a statement: one fixed order, whatever the author's.
Named(name, names) == Call(TRUE, name, [i \in DOMAIN names |-> Str(<<names[i]>>)])
Flag(name, set)    == IF set THEN <<Call(TRUE, name, <<>>)>> ELSE <<>>
Option(name, some) == [i \in DOMAIN some |-> Named(name, <<some[i]>>)]

DefaultCalls(default) ==
  [i \in DOMAIN default |->
     IF default[i] = Now THEN Call(TRUE, "default_now", <<>>)
     ELSE Call(TRUE, "default", <<Printed(default[i])>>)]

ReferenceCalls(references) ==
  FlattenSeq([i \in DOMAIN references |->
    <<Named("references", <<references[i].table, references[i].column>>)>>
      \o Option("on_delete", references[i].on_delete)
      \o Option("on_update", references[i].on_update)])

ColumnCalls(column, declare) ==
  <<Named(declare, <<column.name>>)>>
    \o Flag("primary_key", column.primary_key)
    \o Flag("not_null", column.not_null)
    \o Flag("unique", column.unique)
    \o DefaultCalls(column.default)
    \o ReferenceCalls(column.references)

ActionCalls(action) ==
  IF action.do = "add" THEN ColumnCalls(action.column, AddOf[action.column.ty])
  ELSE <<Named(action.do, action.names)>>

\* (A slip: the keys of the table come before its columns.)
TableCallsKeysFirst(table) ==
  (IF table.primary_key = <<>> THEN <<>>
   ELSE <<Named("primary_key", table.primary_key)>>)
  \o [i \in DOMAIN table.uniques |-> Named("unique", table.uniques[i])]
  \o Flag("if_not_exists", table.if_not_exists)

TableCalls(table) ==
  FlattenSeq([i \in DOMAIN table.columns |->
                ColumnCalls(table.columns[i], table.columns[i].ty)])
  \o (IF table.primary_key = <<>> THEN <<>>
      ELSE <<Named("primary_key", table.primary_key)>>)
  \o [i \in DOMAIN table.uniques |-> Named("unique", table.uniques[i])]
  \o Flag("if_not_exists", table.if_not_exists)

IndexCalls(index) ==
  Option("name", index.name)
  \o <<Named("columns", index.columns)>>
  \o Flag("unique", index.unique)
  \o Flag("if_not_exists", index.if_not_exists)

Canonical(stmt) ==
  <<[Named(stmt.kind, <<stmt.on>>) EXCEPT !.link = FALSE]>>
  \o CASE stmt.kind = "create_table" -> TableCalls(stmt)
       [] stmt.kind = "create_index" -> IndexCalls(stmt)
       [] stmt.kind = "alter_table"  ->
            FlattenSeq([i \in DOMAIN stmt.actions |-> ActionCalls(stmt.actions[i])])
       [] OTHER -> Flag("if_exists", stmt.if_exists)

\* render: what the checksum of a schema migration is taken of.
Render(statements) ==
  FlattenSeq([i \in DOMAIN statements |->
                Source(Canonical(statements[i]), <<>>) \o <<"nl">>])

-----------------------------------------------------------------------------
\* The DDL of a statement: the statement with each column's type spelled for
\* the backend, one ALTER TABLE per action, and every index named.
SqlType(ty, dialect) ==
  CASE ty = "id" -> IF dialect = "sqlite" THEN "INTEGER AUTOINCREMENT" ELSE "BIGSERIAL"
    [] ty = "float" -> IF dialect = "sqlite" THEN "REAL" ELSE "DOUBLE PRECISION"
    [] ty = "int" -> "INTEGER"
    [] ty = "bigint" -> "BIGINT"
    [] ty = "text" -> "TEXT"
    [] ty = "bool" -> "BOOLEAN"
    [] ty = "timestamp" -> "TIMESTAMP"

\* An identity is written as a whole: its name, its type and PRIMARY KEY.
ColumnDdl(column, dialect) ==
  IF column.ty = "id"
  THEN [NewColumn(column.name, SqlType("id", dialect)) EXCEPT !.primary_key = TRUE]
  ELSE [column EXCEPT !.ty = SqlType(column.ty, dialect)]

IndexName(index) == IF index.name # <<>> THEN index.name
                    ELSE <<"idx", index.on>> \o index.columns

Lower(stmt, dialect) ==
  CASE stmt.kind = "create_table" ->
         <<[stmt EXCEPT !.columns =
              [i \in DOMAIN @ |-> ColumnDdl(@[i], dialect)]]>>
    [] stmt.kind = "create_index" -> <<[stmt EXCEPT !.name = IndexName(stmt)]>>
    [] stmt.kind = "alter_table" ->
         [i \in DOMAIN stmt.actions |->
            [kind |-> "alter_table", on |-> stmt.on, action |->
               IF stmt.actions[i].do # "add" THEN stmt.actions[i]
               ELSE [stmt.actions[i] EXCEPT !.column = ColumnDdl(@, dialect)]]]
    [] OTHER -> <<stmt>>

-----------------------------------------------------------------------------
\* External: the columns that ALTER TABLE ... ADD COLUMN takes in SQLite.
SqliteAdds(column) ==
  /\ column.not_null => column.default # <<>>
  /\ ~column.unique /\ ~column.primary_key
  /\ column.default # <<Now>>
  /\ column.references # <<>> => column.default = <<>>

SqliteRuns(ddl) ==
  ddl.kind = "alter_table" /\ ddl.action.do = "add" => SqliteAdds(ddl.action.column)

-----------------------------------------------------------------------------
Init == chain = <<>> /\ statement = [kind |-> "none"] /\ closed = FALSE

Open(root) ==
  /\ chain = <<>>
  /\ chain' = <<root>>
  /\ statement' = Opened(root)
  /\ UNCHANGED closed

\* The builder stops at the first call it refuses.
ReadLink(call) ==
  /\ chain # <<>> /\ ~closed /\ statement # Refused
  /\ Len(chain) <= MaxLinks
  /\ chain' = Append(chain, call)
  /\ statement' = Linked(statement, call)
  /\ UNCHANGED closed

Close ==
  /\ chain # <<>> /\ ~closed
  /\ statement' = Finished(statement)
  /\ closed' = TRUE
  /\ UNCHANGED chain

Next == (\E root \in Roots : Open(root)) \/ (\E call \in Links : ReadLink(call)) \/ Close

Spec == Init /\ [][Next]_vars

-----------------------------------------------------------------------------
Accepted == closed /\ statement # Refused

\* However an author lays a chain out, blanks and comments of either style
\* (with quotes in them) between any two tokens, the source reads as the same
\* statement.  (lex: a migration keeps its identity through reformatting.)
LayoutIsNoIdentity ==
  Accepted =>
    \A gap \in Layouts : Parse(Source(chain, gap)) = <<statement>>

\* The canonical rendering reads back as the very statement it is taken of,
\* alone or next to another: no two statements share an identity.
\* (render: parse(render(parse(src))) == parse(src).)
RenderingReparses ==
  Accepted => Parse(Render(<<statement, statement>>)) = <<statement, statement>>

\* No default is a float that prints with an exponent.
PlainFloats ==
  \A i \in DOMAIN chain : \A arg \in ToSet(chain[i].args) : ~IsScientific(arg)

\* That, where no default prints with an exponent.
PlainRenderingReparses == PlainFloats => RenderingReparses

\* Every ADD COLUMN that leaves the builder is one that SQLite can run, in
\* whatever order the author put the modifiers.
\* (validate_alter: rejects the shapes that only one backend accepts.)
AltersSuitSqlite ==
  Accepted /\ statement.kind = "alter_table" =>
    \A i \in DOMAIN statement.actions :
      SqliteRuns(Lower(statement, "sqlite")[i])
=============================================================================
