---------------------------- MODULE Schema_proofs ----------------------------
(***************************************************************************)
(* What the builder of schema.rs keeps and the rendering preserves, for    *)
(* any literals and names and chains of any length: an ADD COLUMN that     *)
(* leaves the builder is one that SQLite can run (of any calls at all);    *)
(* the layout of a source is no part of its identity; and the canonical    *)
(* rendering of a statement reads back as that statement.                  *)
(*                                                                         *)
(* The rendering is followed backwards: its calls lead the builder, link   *)
(* by link, from the root to the statement they were rendered from.        *)
(***************************************************************************)
EXTENDS Schema, SchemaSource_proofs

\* A column that an alter_table may add.
IsAdded(column) ==
  /\ column = [name |-> column.name, ty |-> column.ty, not_null |-> column.not_null,
               unique |-> column.unique, primary_key |-> column.primary_key,
               default |-> column.default, references |-> column.references]
  /\ column.ty \in DOMAIN AddOf

IsAction(action) ==
  action.do = "add" => /\ action = [do |-> "add", column |-> action.column]
                       /\ IsAdded(action.column)

IsAlter(alter) ==
  /\ alter = [kind |-> "alter_table", on |-> alter.on, actions |-> alter.actions]
  /\ \E S : alter.actions \in Seq(S) /\ \A action \in S : IsAction(action)

\* What is built is of a kind; an alter_table has the shape of one, and it
\* holds once its chain has ended.
Built ==
  /\ closed => chain # <<>>
  /\ "kind" \in DOMAIN statement
  /\ statement.kind = "alter_table" =>
       IsAlter(statement) /\ (closed => AlterHolds(statement))

-----------------------------------------------------------------------------
\* A modifier changes a column that can be added into one that can, or is
\* refused.
LEMMA ModifiedIsAdded ==
  ASSUME NEW column, IsAdded(column), NEW call, Modified(column, call) # Refused
  PROVE  IsAdded(Modified(column, call))
<1> DEFINE IsLike(c) ==
             c = [name |-> column.name, ty |-> column.ty, not_null |-> c.not_null,
                  unique |-> c.unique, primary_key |-> c.primary_key,
                  default |-> c.default, references |-> c.references]
<1>1. \A x : /\ IsLike([column EXCEPT !.not_null = x])
             /\ IsLike([column EXCEPT !.unique = x])
             /\ IsLike([column EXCEPT !.primary_key = x])
             /\ IsLike([column EXCEPT !.default = x])
             /\ IsLike([column EXCEPT !.references = x])
  BY DEF IsAdded
<1>2. \A c : IsLike(c) => IsAdded(c)
  BY DEF IsAdded
<1> HIDE DEF IsLike
<1>3. CASE call.name \in {"not_null", "unique", "primary_key"} /\ NoArgs(call)
  <2>1. Modified(column, call) = [column EXCEPT ![call.name] = TRUE]
    BY <1>3 DEF Modified
  <2>2. QED
    BY <1>1, <1>2, <1>3, <2>1
<1>4. CASE call.name = "default" /\ Len(call.args) = 1
  <2>1. Modified(column, call) = [column EXCEPT !.default = call.args]
    BY <1>4 DEF Modified
  <2>2. QED
    BY <1>1, <1>2, <2>1
<1>5. CASE call.name = "default_now" /\ NoArgs(call)
  <2>1. Modified(column, call) = [column EXCEPT !.default = <<Now>>]
    BY <1>5 DEF Modified
  <2>2. QED
    BY <1>1, <1>2, <2>1
<1>6. CASE call.name = "references" /\ ExactIdents(call, 2)
  <2>1. \E x : Modified(column, call) = [column EXCEPT !.references = x]
    BY <1>6 DEF Modified
  <2>2. QED
    BY <1>1, <1>2, <2>1
<1>7. CASE /\ call.name \in {"on_delete", "on_update"}
           /\ Len(call.args) = 1 /\ call.args[1].kind = "str"
           /\ RefAction(call.args[1].value) # <<>>
           /\ column.references # <<>>
  <2>1. \E x : Modified(column, call) = [column EXCEPT !.references = x]
    BY <1>7 DEF Modified
  <2>2. QED
    BY <1>1, <1>2, <2>1
<1>8. QED
  BY <1>3, <1>4, <1>5, <1>6, <1>7 DEF Modified

\* The names of the calls that add an action, which no modifier has.
AddNames == {AddOf[ty] : ty \in DOMAIN AddOf}
Verbs    == AddNames \cup {"drop_column", "rename_to", "rename_column"}

\* One link makes an alter_table of an alter_table, or is refused.
LEMMA AlterLinkIsAlter ==
  ASSUME NEW alter, IsAlter(alter), NEW call, AlterLink(alter, call) # Refused
  PROVE  IsAlter(AlterLink(alter, call))
<1>1. PICK S : alter.actions \in Seq(S) /\ \A action \in S : IsAction(action)
  BY DEF IsAlter
<1>2. ASSUME NEW actions, NEW T, actions \in Seq(T), \A action \in T : IsAction(action)
      PROVE  IsAlter([alter EXCEPT !.actions = actions])
  <2>1. [alter EXCEPT !.actions = actions] =
          [kind |-> "alter_table", on |-> alter.on, actions |-> actions]
    BY DEF IsAlter
  <2>2. QED
    BY <1>2, <2>1 DEF IsAlter
<1>3. ASSUME NEW action, IsAction(action)
      PROVE  IsAlter([alter EXCEPT !.actions = Append(@, action)])
  <2>1. Append(alter.actions, action) \in Seq(S \cup {action})
    <3>1. alter.actions \in Seq(S \cup {action})
      BY <1>1, SeqMonotonic
    <3>2. QED
      BY <3>1
  <2>2. \A a \in S \cup {action} : IsAction(a)
    BY <1>1, <1>3
  <2>3. IsAlter([alter EXCEPT !.actions = Append(alter.actions, action)])
    BY <1>2, <2>1, <2>2
  <2>4. QED
    BY <2>3
<1> DEFINE n == Len(alter.actions)
           Added(ty) == [do |-> "add", column |-> Declared(call, ty)]
           Do(what)  == [do |-> what, names |-> NamesIn(call)]
<1>4. call.name \in Verbs => \A column : Modified(column, call) = Refused
  <2>1. AddNames = {"add_text", "add_int", "add_bigint", "add_float", "add_bool",
                    "add_timestamp"}
    BY DEF AddNames, AddOf
  <2>2. QED
    BY <2>1 DEF Modified, Verbs
<1>5. AddNames \cap {"drop_column", "rename_to", "rename_column"} = {}
      /\ \A ty \in DOMAIN AddOf : AddOf[ty] \in AddNames
  BY DEF AddOf, AddNames
<1>6. CASE \E ty \in DOMAIN AddOf : call.name = AddOf[ty] /\ Declares(call, ty)
  <2> DEFINE ty == CHOOSE ty \in DOMAIN AddOf : call.name = AddOf[ty]
  <2>1. ty \in DOMAIN AddOf
    BY <1>6
  <2>2. AlterLink(alter, call) = [alter EXCEPT !.actions = Append(@, Added(ty))]
    <3>1. call.name \in AddNames /\ call.name \in Verbs
      BY <1>6, <1>5 DEF Verbs
    <3>2. /\ Modified(alter.actions[n].column, call) = Refused
          /\ call.name \notin {"drop_column", "rename_to"} /\ call.name # "rename_column"
      BY <1>4, <1>5, <3>1
    <3>3. QED
      BY <1>6, <3>2 DEF AlterLink
  <2> HIDE DEF ty
  <2>3. IsAction(Added(ty))
    BY <2>1 DEF IsAction, IsAdded, Declared, NewColumn
  <2>4. QED
    BY <1>3, <2>2, <2>3
<1>7. CASE \/ call.name \in {"drop_column", "rename_to"} /\ ExactIdents(call, 1)
           \/ call.name = "rename_column" /\ ExactIdents(call, 2)
  <2>1. AlterLink(alter, call) = [alter EXCEPT !.actions = Append(@, Do(call.name))]
    <3>1. \A ty \in DOMAIN AddOf : call.name # AddOf[ty]
      BY <1>7, <1>5
    <3>2. Modified(alter.actions[n].column, call) = Refused
      BY <1>7, <1>4 DEF Verbs
    <3>3. QED
      BY <1>7, <3>1, <3>2 DEF AlterLink
  <2>2. IsAction(Do(call.name))
    BY <1>7 DEF IsAction
  <2>3. QED
    BY <1>3, <2>1, <2>2
<1>8. CASE /\ ~\E ty \in DOMAIN AddOf : call.name = AddOf[ty] /\ Declares(call, ty)
           /\ ~(call.name \in {"drop_column", "rename_to"} /\ ExactIdents(call, 1))
           /\ ~(call.name = "rename_column" /\ ExactIdents(call, 2))
  <2> DEFINE column == alter.actions[n].column
             action == [do |-> "add", column |-> Modified(column, call)]
  <2>1. /\ n > 0 /\ alter.actions[n].do = "add" /\ Modified(column, call) # Refused
        /\ AlterLink(alter, call) = [alter EXCEPT !.actions[n].column = Modified(@, call)]
    BY <1>8 DEF AlterLink
  <2>2. n \in 1..Len(alter.actions) /\ alter.actions[n] \in S
    BY <1>1, <2>1
  <2>3. IsAction(action)
    <3>1. IsAdded(column)
      BY <1>1, <2>1, <2>2 DEF IsAction
    <3>2. IsAdded(Modified(column, call))
      BY <2>1, <3>1, ModifiedIsAdded
    <3>3. QED
      BY <3>2 DEF IsAction
  <2>4. [alter.actions EXCEPT ![n] = action] \in Seq(S \cup {action})
    <3>1. alter.actions \in Seq(S \cup {action})
      BY <1>1, SeqMonotonic
    <3> HIDE DEF action
    <3>2. QED
      BY <2>2, <3>1, ExceptSeq
  <2>5. AlterLink(alter, call) = [alter EXCEPT !.actions = [alter.actions EXCEPT ![n] = action]]
    <3>1. [alter.actions[n] EXCEPT !.column = Modified(column, call)] = action
      BY <1>1, <2>1, <2>2 DEF IsAction
    <3>2. AlterLink(alter, call) =
            [alter EXCEPT !.actions =
               [alter.actions EXCEPT ![n] =
                  [alter.actions[n] EXCEPT !.column = Modified(column, call)]]]
      BY <2>1
    <3>3. QED
      BY <3>1, <3>2
  <2>6. \A a \in S \cup {action} : IsAction(a)
    BY <1>1, <2>3
  <2>7. QED
    BY <1>2, <2>4, <2>5, <2>6
<1>9. QED
  BY <1>6, <1>7, <1>8

-----------------------------------------------------------------------------
\* What opens is of a kind; an alter_table opens as one.
LEMMA OpenedIsBuilt ==
  ASSUME NEW root
  PROVE  /\ "kind" \in DOMAIN Opened(root)
         /\ Opened(root).kind = "alter_table" => IsAlter(Opened(root))
<1>1. \A name : IsAlter([kind |-> "alter_table", on |-> name, actions |-> <<>>])
  <2>1. \E S : <<>> \in Seq(S) /\ \A action \in S : IsAction(action)
    <3> DEFINE S == {[do |-> "drop_column"]}
    <3>1. <<>> \in Seq(S) /\ \A action \in S : IsAction(action)
      BY DEF IsAction
    <3> HIDE DEF S
    <3>2. QED
      BY <3>1
  <2>2. QED
    BY <2>1 DEF IsAlter
<1>2. CASE ~ExactIdents(root, 1)
  BY <1>2 DEF Opened, Refused
<1>3. CASE ExactIdents(root, 1)
  BY <1>1, <1>3 DEF Opened, Refused
<1>4. QED
  BY <1>2, <1>3

\* A link leaves the kind of a statement as it is, or is refused.
LEMMA LinkedIsBuilt ==
  ASSUME NEW stmt, "kind" \in DOMAIN stmt, stmt.kind = "alter_table" => IsAlter(stmt), NEW call
  PROVE  /\ "kind" \in DOMAIN Linked(stmt, call)
         /\ Linked(stmt, call).kind = "alter_table" => IsAlter(Linked(stmt, call))
<1> DEFINE Keeps(s) == s = Refused \/ ("kind" \in DOMAIN s /\ s.kind = stmt.kind)
<1>1. /\ Keeps(Refused)
      /\ \A x : /\ Keeps([stmt EXCEPT !.columns = x]) /\ Keeps([stmt EXCEPT !.if_not_exists = x])
                /\ Keeps([stmt EXCEPT !.primary_key = x]) /\ Keeps([stmt EXCEPT !.uniques = x])
                /\ Keeps([stmt EXCEPT !.name = x]) /\ Keeps([stmt EXCEPT !.unique = x])
                /\ Keeps([stmt EXCEPT !.if_exists = x])
  OBVIOUS
<1>2. \A s : Keeps(s) => "kind" \in DOMAIN s /\ (s.kind = "alter_table" => stmt.kind = "alter_table")
  BY DEF Refused
<1> HIDE DEF Keeps
<1>3. CASE stmt.kind = "create_table"
  <2>1. Keeps(TableLink(stmt, call))
    BY <1>1 DEF TableLink
  <2>2. QED
    BY <1>2, <1>3, <2>1 DEF Linked
<1>4. CASE stmt.kind = "create_index"
  <2>1. Keeps(IndexLink(stmt, call))
    BY <1>1 DEF IndexLink
  <2>2. QED
    BY <1>2, <1>4, <2>1 DEF Linked
<1>5. CASE stmt.kind = "alter_table"
  <2>1. AlterLink(stmt, call) = Refused \/ IsAlter(AlterLink(stmt, call))
    BY <1>5, AlterLinkIsAlter
  <2>2. \A s : IsAlter(s) => "kind" \in DOMAIN s
    BY DEF IsAlter
  <2>3. QED
    BY <1>5, <2>1, <2>2 DEF Linked, Refused
<1>6. CASE stmt.kind \in {"drop_table", "drop_index"}
  <2>1. Keeps(DropLink(stmt, call))
    BY <1>1 DEF DropLink
  <2>2. QED
    BY <1>2, <1>6, <2>1 DEF Linked
<1>7. CASE stmt.kind \notin {"create_table", "create_index", "alter_table", "drop_table",
                             "drop_index"}
  BY <1>7 DEF Linked, Refused
<1>8. QED
  BY <1>3, <1>4, <1>5, <1>6, <1>7

\* What is built is built in every reachable state.
THEOREM Building == Spec => []Built
<1>1. Init => Built
  BY DEF Init, Built
<1>2. Built /\ [Next]_vars => Built'
  <2> SUFFICES ASSUME Built, [Next]_vars
               PROVE  Built'
    OBVIOUS
  <2>1. CASE UNCHANGED vars
    BY <2>1 DEF Built, vars, AlterHolds
  <2>2. ASSUME NEW root \in Roots, Open(root)
        PROVE  Built'
    BY <2>2, OpenedIsBuilt DEF Open, Built
  <2>3. ASSUME NEW call \in Links, ReadLink(call)
        PROVE  Built'
    <3>1. "kind" \in DOMAIN statement /\ (statement.kind = "alter_table" => IsAlter(statement))
      BY DEF Built
    <3>2. statement' = Linked(statement, call) /\ ~closed'
      BY <2>3 DEF ReadLink
    <3>3. QED
      BY <3>1, <3>2, LinkedIsBuilt DEF Built
  <2>4. ASSUME Close
        PROVE  Built'
    BY <2>4 DEF Close, Finished, Refused, Built
  <2>5. QED
    BY <2>1, <2>2, <2>3, <2>4 DEF Next
<1>3. QED
  BY <1>1, <1>2, PTL DEF Spec

\* An added column that holds is one that SQLite adds: its DDL differs from it
\* in the spelling of its type.
LEMMA HeldIsAdded ==
  ASSUME NEW column, IsAdded(column), AddHolds(column)
  PROVE  SqliteAdds(ColumnDdl(column, "sqlite"))
<1>1. column.ty # "id"
  BY DEF IsAdded, AddOf
<1>2. ColumnDdl(column, "sqlite") = [column EXCEPT !.ty = SqlType(column.ty, "sqlite")]
  BY <1>1 DEF ColumnDdl
<1>3. \A x : /\ [column EXCEPT !.ty = x].not_null = column.not_null
             /\ [column EXCEPT !.ty = x].unique = column.unique
             /\ [column EXCEPT !.ty = x].primary_key = column.primary_key
             /\ [column EXCEPT !.ty = x].default = column.default
             /\ [column EXCEPT !.ty = x].references = column.references
  BY DEF IsAdded
<1>4. QED
  BY <1>2, <1>3 DEF AddHolds, SqliteAdds

\* Every ADD COLUMN that leaves the builder is one that SQLite can run, for any
\* calls in any order (validate_alter).
THEOREM AddsSuitSqlite == Spec => []AltersSuitSqlite
<1>1. Built => AltersSuitSqlite
  <2> SUFFICES ASSUME Built, Accepted, statement.kind = "alter_table",
                      NEW i \in DOMAIN statement.actions
               PROVE  SqliteRuns(Lower(statement, "sqlite")[i])
    BY DEF AltersSuitSqlite
  <2> DEFINE action == statement.actions[i]
             ddl    == Lower(statement, "sqlite")[i]
  <2>1. /\ AlterHolds(statement)
        /\ \E S : statement.actions \in Seq(S) /\ \A a \in S : IsAction(a)
    BY DEF Built, Accepted, IsAlter
  <2>2. IsAction(action)
    BY <2>1
  <2>3. ddl = [kind |-> "alter_table", on |-> statement.on, action |->
                 IF action.do # "add" THEN action
                 ELSE [action EXCEPT !.column = ColumnDdl(@, "sqlite")]]
    BY DEF Lower
  <2>4. CASE action.do # "add"
    BY <2>3, <2>4 DEF SqliteRuns
  <2>5. CASE action.do = "add"
    <3>1. AddHolds(action.column) /\ IsAdded(action.column)
      BY <2>1, <2>2, <2>5 DEF AlterHolds, IsAction
    <3>2. ddl.kind = "alter_table" /\ ddl.action.do = "add"
          /\ ddl.action.column = ColumnDdl(action.column, "sqlite")
      BY <2>2, <2>3, <2>5 DEF IsAction
    <3>3. SqliteAdds(ddl.action.column)
      BY <3>1, <3>2, HeldIsAdded
    <3> HIDE DEF ddl
    <3>4. QED
      BY <3>2, <3>3 DEF SqliteRuns, ddl
  <2>6. QED
    BY <2>4, <2>5
<1>2. QED
  BY <1>1, Building, PTL

-----------------------------------------------------------------------------
(* What parse makes of chains of calls.                                    *)

\* One step of the recursion in Parse, and its equation.
Stage(b, calls, k) ==
  IF k > 1 /\ calls[k].link
  THEN [b[k - 1] EXCEPT !.last = Linked(b[k - 1].last, calls[k])]
  ELSE [before |-> IF k = 1 THEN <<>>
                   ELSE Append(b[k - 1].before, Finished(b[k - 1].last)),
        last   |-> Opened(calls[k])]

Builds(b, calls) == b = [k \in 1..Len(calls) |-> Stage(b, calls, k)]

Everything(b, calls) ==
  IF calls = <<>> THEN <<>>
  ELSE Append(b[Len(calls)].before, Finished(b[Len(calls)].last))

\* What Parse recurs on is defined, and gives what it parses.
LEMMA ParseBuilds ==
  ASSUME NEW src, NEW calls, Chains(src) = calls, Len(calls) \in Nat
  PROVE  \E b : /\ Builds(b, calls)
                /\ Parse(src) = IF Refused \in ToSet(Everything(b, calls)) THEN <<Refused>>
                                ELSE Everything(b, calls)
<1>1. PICK n \in Nat : n = Len(calls)
  OBVIOUS
<1>2. \E b : Builds(b, calls)
  <2> DEFINE Low(m, b) == /\ b = [k \in 1..n |-> b[k]]
                          /\ \A k \in 1..n : k <= m => b[k] = Stage(b, calls, k)
             S == {m \in Nat : m <= n => \E b : Low(m, b)}
  <2>1. 0 \in S
    <3>1. Low(0, [k \in 1..n |-> 0])
      OBVIOUS
    <3>2. QED
      BY <3>1
  <2>2. ASSUME NEW m \in Nat, m \in S
        PROVE  m + 1 \in S
    <3>1. SUFFICES ASSUME m + 1 <= n
                   PROVE  \E b : Low(m + 1, b)
      OBVIOUS
    <3>2. PICK b : Low(m, b)
      BY <2>2, <3>1
    <3>3. PICK i \in 1..n : i = m + 1
      BY <3>1
    <3> DEFINE c == [k \in 1..n |-> IF k = i THEN Stage(b, calls, i) ELSE b[k]]
    <3>4. c[i] = Stage(b, calls, i) /\ \A k \in 1..n : k # i => c[k] = b[k]
      OBVIOUS
    <3>5. c = [k \in 1..n |-> c[k]]
      OBVIOUS
    <3> HIDE DEF c
    <3>6. \A k \in 1..n : k <= i => Stage(c, calls, k) = Stage(b, calls, k)
      <4> SUFFICES ASSUME NEW k \in 1..n, k <= i
                   PROVE  Stage(c, calls, k) = Stage(b, calls, k)
        OBVIOUS
      <4>1. CASE k = 1
        BY <4>1 DEF Stage
      <4>2. CASE k # 1
        <5>1. k - 1 \in 1..n /\ k - 1 # i
          BY <4>2
        <5>2. c[k - 1] = b[k - 1]
          BY <3>4, <5>1
        <5>3. QED
          BY <5>2 DEF Stage
      <4>3. QED
        BY <4>1, <4>2
    <3>7. \A k \in 1..n : k <= m + 1 => c[k] = Stage(c, calls, k)
      <4> SUFFICES ASSUME NEW k \in 1..n, k <= m + 1
                   PROVE  c[k] = Stage(c, calls, k)
        OBVIOUS
      <4>1. k <= i /\ (k # i => k <= m)
        BY <3>3
      <4>2. CASE k = i
        BY <3>4, <3>6, <4>1, <4>2
      <4>3. CASE k # i
        BY <3>2, <3>4, <3>6, <4>1, <4>3
      <4>4. QED
        BY <4>2, <4>3
    <3>8. QED
      BY <3>5, <3>7
  <2>3. Nat \subseteq S
    <3> HIDE DEF S
    <3>1. QED
      BY <2>1, <2>2, Induction
  <2>4. PICK b : Low(n, b)
    <3>1. n \in S /\ n <= n
      BY <2>3
    <3> HIDE DEF Low
    <3>2. QED
      BY <3>1
  <2>5. \A k \in 1..n : b[k] = Stage(b, calls, k)
    BY <2>4
  <2>6. b = [k \in 1..n |-> b[k]]
    BY <2>4
  <2>7. Builds(b, calls)
    BY <1>1, <2>5, <2>6 DEF Builds
  <2>8. QED
    BY <2>7
<1> DEFINE build == CHOOSE b : Builds(b, calls)
           all   == Everything(build, calls)
<1>3. Builds(build, calls)
  BY <1>2
<1>4. Parse(src) = IF Refused \in ToSet(all) THEN <<Refused>> ELSE all
  BY DEF Parse, Everything, Builds, Stage
<1> HIDE DEF build
<1>5. QED
  BY <1>3, <1>4

\* Links that make statement t of statement s, through the statements h.
Follows(h, s, links, t) ==
  /\ h[0] = s /\ h[Len(links)] = t
  /\ \A k \in 1..Len(links) : links[k].link /\ h[k] = Linked(h[k - 1], links[k])

Leads(s, links, t) == \E h : Follows(h, s, links, t)

\* A chain stands behind the first m calls.
ChainAt(calls, m, root, links) ==
  /\ m + 1 + Len(links) <= Len(calls) /\ calls[m + 1] = root
  /\ \A k \in 1..Len(links) : calls[m + 1 + k] = links[k]

\* Its l links behind, it is built into s and the statement before it has ended.
BuiltAt(b, m, l, s) ==
  b[m + 1 + l] = [before |-> IF m = 0 THEN <<>> ELSE Append(b[m].before, Finished(b[m].last)),
                  last |-> s]

\* A chain among the calls of a source is built into its statement, and ends
\* the statement before it.
LEMMA ChainIsBuilt ==
  ASSUME NEW b, NEW S, NEW calls \in Seq(S), Builds(b, calls),
         NEW m \in Nat, NEW root, NEW links \in Seq(S), NEW s,
         ChainAt(calls, m, root, links), ~root.link, Leads(Opened(root), links, s)
  PROVE  BuiltAt(b, m, Len(links), s)
<1>1. PICK h : Follows(h, Opened(root), links, s)
  BY DEF Leads
<1>2. PICK n, l \in Nat : n = Len(calls) /\ l = Len(links)
  OBVIOUS
<1>11. /\ m + 1 + l <= n /\ calls[m + 1] = root
       /\ \A k \in 1..l : calls[m + 1 + k] = links[k]
  BY <1>2 DEF ChainAt
<1>3. PICK before : before = IF m = 0 THEN <<>> ELSE Append(b[m].before, Finished(b[m].last))
  OBVIOUS
<1> DEFINE T == {k \in Nat : k <= l => b[m + 1 + k] = [before |-> before, last |-> h[k]]}
<1>4. \A k \in 1..n : b[k] = Stage(b, calls, k)
  BY <1>2 DEF Builds
<1>5. 0 \in T
  <2>1. m + 1 \in 1..n /\ m + 1 + 0 = m + 1 /\ (m + 1) - 1 = m /\ (m + 1 = 1 <=> m = 0)
    BY <1>2, <1>11
  <2>2. b[m + 1] = Stage(b, calls, m + 1)
    BY <1>4, <2>1
  <2>3. Stage(b, calls, m + 1) = [before |-> before, last |-> Opened(root)]
    BY <1>3, <1>11, <2>1 DEF Stage
  <2>4. h[0] = Opened(root)
    BY <1>1 DEF Follows
  <2>5. QED
    BY <2>1, <2>2, <2>3, <2>4
<1>6. ASSUME NEW k \in Nat, k \in T
      PROVE  k + 1 \in T
  <2>1. SUFFICES ASSUME k + 1 <= l
                 PROVE  b[m + 1 + (k + 1)] = [before |-> before, last |-> h[k + 1]]
    OBVIOUS
  <2>2. PICK i : i = m + 1 + (k + 1)
    OBVIOUS
  <2>3. i \in 1..n /\ i > 1 /\ i - 1 = m + 1 + k /\ k + 1 \in 1..l /\ (k + 1) - 1 = k /\ k <= l
    BY <1>2, <1>11, <2>1, <2>2
  <2>4. calls[i] = links[k + 1] /\ links[k + 1].link /\ h[k + 1] = Linked(h[k], links[k + 1])
    BY <1>1, <1>2, <1>11, <2>2, <2>3 DEF Follows
  <2>5. b[i - 1] = [before |-> before, last |-> h[k]]
    BY <1>6, <2>3
  <2>6. b[i] = [b[i - 1] EXCEPT !.last = Linked(b[i - 1].last, calls[i])]
    BY <1>4, <2>3, <2>4 DEF Stage
  <2>7. b[i] = [before |-> before, last |-> Linked(h[k], links[k + 1])]
    BY <2>4, <2>5, <2>6
  <2>8. QED
    BY <2>2, <2>4, <2>7
<1>7. Nat \subseteq T
  <2> HIDE DEF T
  <2>1. QED
    BY <1>5, <1>6, Induction
<1>8. b[m + 1 + l] = [before |-> before, last |-> h[l]]
  BY <1>2, <1>7
<1>9. h[l] = s
  BY <1>1, <1>2 DEF Follows
<1>10. QED
  BY <1>2, <1>3, <1>8, <1>9 DEF BuiltAt

\* A chain as a source is its statement.
LEMMA ParseOne ==
  ASSUME NEW src, NEW S, NEW root \in S, NEW links \in Seq(S), Chains(src) = <<root>> \o links,
         ~root.link, NEW s, Leads(Opened(root), links, s), Finished(s) # Refused
  PROVE  Parse(src) = <<Finished(s)>>
<1>1. PICK calls : calls = <<root>> \o links
  OBVIOUS
<1>2. /\ calls \in Seq(S) /\ Len(calls) = 1 + Len(links) /\ calls # <<>> /\ Len(calls) \in Nat
      /\ calls[1] = root /\ \A k \in 1..Len(links) : calls[1 + k] = links[k]
  BY <1>1
<1>3. PICK b : /\ Builds(b, calls)
               /\ Parse(src) = IF Refused \in ToSet(Everything(b, calls)) THEN <<Refused>>
                               ELSE Everything(b, calls)
  BY <1>1, <1>2, ParseBuilds
<1>4. /\ 0 + 1 + Len(links) = Len(calls) /\ calls[0 + 1] = root
      /\ \A k \in 1..Len(links) : calls[0 + 1 + k] = links[k]
  BY <1>2
<1>5. b[Len(calls)] = [before |-> <<>>, last |-> s]
  <2>1. PICK m \in Nat : m = 0
    OBVIOUS
  <2>2. /\ m + 1 + Len(links) <= Len(calls) /\ calls[m + 1] = root
        /\ \A k \in 1..Len(links) : calls[m + 1 + k] = links[k]
    BY <1>2, <1>4, <2>1
  <2>3. Builds(b, calls) /\ calls \in Seq(S) /\ ChainAt(calls, m, root, links)
    BY <1>2, <1>3, <2>2 DEF ChainAt
  <2>4. b[m + 1 + Len(links)] =
          [before |-> IF m = 0 THEN <<>> ELSE Append(b[m].before, Finished(b[m].last)), last |-> s]
    <3>1. BuiltAt(b, m, Len(links), s)
      BY <2>3, ChainIsBuilt
    <3>2. QED
      BY <3>1 DEF BuiltAt
  <2>5. m + 1 + Len(links) = Len(calls)
    BY <1>4, <2>1
  <2>6. QED
    BY <2>1, <2>4, <2>5
<1>6. Everything(b, calls) = <<Finished(s)>>
  <2>1. Everything(b, calls) = Append(<<>>, Finished(s))
    BY <1>2, <1>5 DEF Everything
  <2>2. QED
    BY <2>1
<1>7. ToSet(<<Finished(s)>>) = {Finished(s)}
  BY DEF ToSet
<1>8. QED
  BY <1>3, <1>6, <1>7

\* Two chains as a source are their statements.
LEMMA ParseTwo ==
  ASSUME NEW src, NEW S, NEW root \in S, NEW links \in Seq(S),
         Chains(src) = (<<root>> \o links) \o (<<root>> \o links),
         ~root.link, NEW s, Leads(Opened(root), links, s), Finished(s) # Refused
  PROVE  Parse(src) = <<Finished(s), Finished(s)>>
<1>1. PICK chain1, calls : chain1 = <<root>> \o links /\ calls = chain1 \o chain1
  OBVIOUS
<1>2. PICK l \in Nat : l = Len(links)
  OBVIOUS
<1>3. /\ chain1 \in Seq(S) /\ Len(chain1) = 1 + l /\ chain1[1] = root
      /\ \A k \in 1..l : chain1[1 + k] = links[k]
  BY <1>1, <1>2
<1>4. /\ calls \in Seq(S) /\ Len(calls) = (1 + l) + (1 + l) /\ calls # <<>> /\ Len(calls) \in Nat
      /\ \A k \in 1..1 + l : calls[k] = chain1[k] /\ calls[(1 + l) + k] = chain1[k]
  <2>1. calls \in Seq(S) /\ Len(calls) = (1 + l) + (1 + l)
    <3>1. PICK c \in Seq(S) : c = chain1
      BY <1>3
    <3>2. c \o c \in Seq(S) /\ Len(c \o c) = Len(c) + Len(c)
      OBVIOUS
    <3>3. QED
      BY <1>1, <1>3, <3>1, <3>2
  <2>2. \A k \in 1..1 + l : calls[k] = chain1[k] /\ calls[(1 + l) + k] = chain1[k]
    <3>1. PICK c \in Seq(S) : c = chain1
      BY <1>3
    <3>2. \A k \in 1..Len(c) : (c \o c)[k] = c[k] /\ (c \o c)[Len(c) + k] = c[k]
      OBVIOUS
    <3>3. Len(c) = 1 + l /\ calls = c \o c
      BY <1>1, <1>3, <3>1
    <3>4. QED
      BY <3>1, <3>2, <3>3
  <2>3. QED
    BY <2>1, <2>2
<1>5. PICK b : /\ Builds(b, calls)
               /\ Parse(src) = IF Refused \in ToSet(Everything(b, calls)) THEN <<Refused>>
                               ELSE Everything(b, calls)
  BY <1>1, <1>4, ParseBuilds
<1>6. ASSUME NEW m \in {0, 1 + l}
      PROVE  b[m + 1 + l] = [before |-> IF m = 0 THEN <<>>
                                        ELSE Append(b[m].before, Finished(b[m].last)),
                             last |-> s]
  <2>1. m + 1 + Len(links) <= Len(calls) /\ m \in Nat
    BY <1>2, <1>4
  <2>2. calls[m + 1] = root
    BY <1>3, <1>4
  <2>3. \A k \in 1..Len(links) : calls[m + 1 + k] = links[k]
    <3> SUFFICES ASSUME NEW k \in 1..l
                 PROVE  calls[m + 1 + k] = links[k]
      BY <1>2
    <3>1. 1 + k \in 1..1 + l /\ m + 1 + k = m + (1 + k) /\ 0 + (1 + k) = 1 + k
      OBVIOUS
    <3>2. calls[m + (1 + k)] = chain1[1 + k]
      BY <1>4, <3>1
    <3>3. QED
      BY <1>3, <3>1, <3>2
  <2>4. QED
    <3>1. Builds(b, calls) /\ calls \in Seq(S) /\ m \in Nat /\ ChainAt(calls, m, root, links)
      BY <1>4, <1>5, <2>1, <2>2, <2>3 DEF ChainAt
    <3>2. b[m + 1 + Len(links)] = [before |-> IF m = 0 THEN <<>>
                                              ELSE Append(b[m].before, Finished(b[m].last)),
                                   last |-> s]
      <4>1. BuiltAt(b, m, Len(links), s)
        BY <3>1, ChainIsBuilt
      <4>2. QED
        BY <4>1 DEF BuiltAt
    <3>3. QED
      BY <1>2, <3>2
<1>7. b[1 + l] = [before |-> <<>>, last |-> s]
  <2>1. 0 + 1 + l = 1 + l
    OBVIOUS
  <2>2. QED
    BY <1>6, <2>1
<1>8. b[Len(calls)] = [before |-> Append(<<>>, Finished(s)), last |-> s]
  <2>1. Len(calls) = (1 + l) + 1 + l /\ 1 + l # 0
    BY <1>4
  <2>2. b[(1 + l) + 1 + l] = [before |-> Append(b[1 + l].before, Finished(b[1 + l].last)),
                              last |-> s]
    BY <1>6, <2>1
  <2>3. QED
    BY <1>7, <2>1, <2>2
<1>9. Everything(b, calls) = <<Finished(s), Finished(s)>>
  <2>1. Everything(b, calls) = Append(Append(<<>>, Finished(s)), Finished(s))
    BY <1>4, <1>8 DEF Everything
  <2>2. PICK x, one : x = Finished(s) /\ one = Append(<<>>, x)
    OBVIOUS
  <2>3. one = <<x>> /\ Append(one, x) = one \o <<x>>
    BY <2>2
  <2>4. <<x>> \o <<x>> = <<x, x>>
    <3>1. x \in {x}
      OBVIOUS
    <3>2. QED
      BY <3>1, OneThenOther
  <2>5. QED
    BY <2>1, <2>2, <2>3, <2>4
<1>10. ToSet(<<Finished(s), Finished(s)>>) = {Finished(s)}
  BY DEF ToSet
<1>11. QED
  BY <1>5, <1>9, <1>10

\* No link leads nowhere.
LEMMA LeadsNowhere == \A s : Leads(s, <<>>, s)
<1> SUFFICES ASSUME NEW s
             PROVE  Leads(s, <<>>, s)
  OBVIOUS
<1> DEFINE h == [k \in {0} |-> s]
<1>1. h[0] = s /\ Len(<<>>) = 0 /\ 1..0 = {}
  OBVIOUS
<1>2. Follows(h, s, <<>>, s)
  BY <1>1 DEF Follows
<1>3. QED
  BY <1>2 DEF Leads

\* One link leads to what it makes.
LEMMA LeadsOne ==
  ASSUME NEW s, NEW call, call.link
  PROVE  Leads(s, <<call>>, Linked(s, call))
<1> DEFINE h == [k \in 0..1 |-> IF k = 0 THEN s ELSE Linked(s, call)]
<1>1. PICK links : links = <<call>>
  OBVIOUS
<1>2. Len(links) = 1 /\ links[1] = call
  BY <1>1
<1>3. h[0] = s /\ h[1] = Linked(s, call) /\ 1 - 1 = 0 /\ 1..1 = {1}
  OBVIOUS
<1> HIDE DEF h
<1>4. Follows(h, s, links, Linked(s, call))
  BY <1>2, <1>3 DEF Follows
<1>5. QED
  BY <1>1, <1>4 DEF Leads

\* Links behind links lead on.
LEMMA LeadsOn ==
  ASSUME NEW S, NEW c \in Seq(S), NEW d \in Seq(S), NEW s, NEW t, NEW u,
         Leads(s, c, t), Leads(t, d, u)
  PROVE  Leads(s, c \o d, u)
<1>1. PICK g, h : Follows(g, s, c, t) /\ Follows(h, t, d, u)
  BY DEF Leads
<1>2. PICK m, n \in Nat : m = Len(c) /\ n = Len(d)
  OBVIOUS
<1>3. PICK e : e = c \o d
  OBVIOUS
<1>4. Len(e) = m + n /\ (\A k \in 1..m : e[k] = c[k]) /\ \A k \in 1..n : e[m + k] = d[k]
  BY <1>2, <1>3
<1>5. /\ g[0] = s /\ g[m] = t /\ h[0] = t /\ h[n] = u
      /\ \A k \in 1..m : c[k].link /\ g[k] = Linked(g[k - 1], c[k])
      /\ \A k \in 1..n : d[k].link /\ h[k] = Linked(h[k - 1], d[k])
  BY <1>1, <1>2 DEF Follows
<1> DEFINE f == [k \in 0..m + n |-> IF k <= m THEN g[k] ELSE h[k - m]]
<1>6. /\ \A k \in 0..m : f[k] = g[k]
      /\ \A k \in 0..n : f[m + k] = h[k]
  <2>1. \A k \in 0..m : f[k] = g[k]
    BY <1>2
  <2>2. \A k \in 0..n : k # 0 => m + k \in 0..m + n /\ ~(m + k <= m) /\ (m + k) - m = k
    BY <1>2
  <2>3. \A k \in 0..n : k # 0 => f[m + k] = h[k]
    BY <2>2
  <2>4. m + 0 = m /\ m \in 0..m /\ f[m] = h[0]
    BY <1>2, <1>5, <2>1
  <2> HIDE DEF f
  <2>5. QED
    BY <2>1, <2>3, <2>4
<1> HIDE DEF f
<1>7. ASSUME NEW k \in 1..m + n
      PROVE  e[k].link /\ f[k] = Linked(f[k - 1], e[k])
  <2>1. CASE k <= m
    <3>1. k \in 1..m /\ k \in 0..m /\ k - 1 \in 0..m
      BY <2>1
    <3>2. QED
      BY <1>4, <1>5, <1>6, <3>1
  <2>2. CASE k > m
    <3>1. PICK i : i = k - m
      OBVIOUS
    <3>2. i \in 1..n /\ i \in 0..n /\ i - 1 \in 0..n /\ m + i = k /\ m + (i - 1) = k - 1
      BY <2>2, <3>1
    <3>3. e[k] = d[i] /\ f[k] = h[i] /\ f[k - 1] = h[i - 1]
      BY <1>4, <1>6, <3>2
    <3>4. QED
      BY <1>5, <3>2, <3>3
  <2>3. QED
    BY <2>1, <2>2
<1>8. f[0] = s /\ f[m + n] = u
  BY <1>5, <1>6
<1>9. Follows(f, s, e, u)
  BY <1>4, <1>7, <1>8 DEF Follows
<1>10. QED
  BY <1>3, <1>9 DEF Leads

\* What is flattened of two equal parts.
LEMMA FlatteningTwo ==
  ASSUME NEW T, NEW p \in Seq(T)
  PROVE  FlattenSeq([i \in 1..2 |-> p]) = p \o p
<1> DEFINE s == [i \in 1..2 |-> p]
<1>1. s \in [1..2 -> Seq(T)] /\ s[1] = p /\ s[2] = p /\ 2 \in Nat
  OBVIOUS
<1> HIDE DEF s
<1>2. s \in Seq(Seq(T)) /\ Len(s) = 2
  BY <1>1, Tabled
<1>3. PICK f : Joins(f, s, T) /\ f[Len(s)] = FlattenSeq(s)
  BY <1>2, Flattening
<1>4. f[0] = <<>> /\ f[0 + 1] = f[0] \o s[0 + 1] /\ f[1 + 1] = f[1] \o s[1 + 1]
  <2>1. 0 \in 0..2 - 1 /\ 1 \in 0..2 - 1
    OBVIOUS
  <2>2. QED
    BY <1>2, <1>3, <2>1 DEF Joins
<1>5. 0 + 1 = 1 /\ 1 + 1 = 2
  OBVIOUS
<1>6. f[1] = <<>> \o p /\ f[2] = f[1] \o p
  BY <1>1, <1>4, <1>5
<1>7. <<>> \o p = p
  OBVIOUS
<1>8. FlattenSeq(s) = p \o p
  BY <1>2, <1>3, <1>6, <1>7
<1>9. QED
  BY <1>8 DEF s

\* A chain as a source in any layout is its statement, alone or twice.
LEMMA SourceParses ==
  ASSUME NEW S, NEW root \in S, NEW links \in Seq(S), \A call \in S : IsCall(call),
         ~root.link, ExactIdents(root, 1), NEW s, Leads(Opened(root), links, s),
         Finished(s) # Refused, NEW gap, IsLayout(gap), NEW src,
         src = Source(<<root>> \o links, gap)
  PROVE  /\ Parse(src) = <<Finished(s)>>
         /\ Parse((src \o <<"nl">>) \o (src \o <<"nl">>)) = <<Finished(s), Finished(s)>>
<1>1. PICK calls : calls = <<root>> \o links
  OBVIOUS
<1>2. /\ calls \in Seq(S) /\ Len(calls) = 1 + Len(links) /\ calls # <<>> /\ calls[1] = root
      /\ \A k \in 1..Len(links) : calls[1 + k] = links[k]
  BY <1>1
<1>3. Says(src, calls)
  BY <1>1, <1>2, SaysCalls
<1>4. Says(src \o <<"nl">>, calls)
  BY <1>3, SaysGap, Layouts0
<1>5. Says((src \o <<"nl">>) \o (src \o <<"nl">>), calls \o calls)
  BY <1>4, SaysBoth
<1>6. \A i \in 1..Len(calls) : calls[i] # Unreadable
  <2>1. root # Unreadable
    <3>1. Unreadable.args = <<>>
      BY DEF Unreadable, Call
    <3>2. Len(<<>>) = 0 /\ Len(root.args) = 1
      BY DEF ExactIdents
    <3>3. QED
      BY <3>1, <3>2
  <2>2. \A k \in 1..Len(links) : links[k].link
    BY DEF Leads, Follows
  <2>3. ~Unreadable.link
    BY DEF Unreadable, Call
  <2>4. \A i \in 1..Len(calls) : i = 1 \/ (i - 1 \in 1..Len(links) /\ 1 + (i - 1) = i)
    BY <1>2
  <2>5. SUFFICES ASSUME NEW i \in 1..Len(calls) PROVE calls[i] # Unreadable
    OBVIOUS
  <2>6. CASE i = 1
    BY <1>2, <2>1, <2>6
  <2>7. CASE i # 1
    <3>1. PICK k : k = i - 1
      OBVIOUS
    <3>2. k \in 1..Len(links) /\ 1 + k = i
      BY <2>4, <2>7, <3>1
    <3>3. calls[i].link
      BY <1>2, <2>2, <3>2
    <3>4. QED
      BY <2>3, <3>3
  <2>8. QED
    BY <2>6, <2>7
<1>7. Unreadable \notin ToSet(calls) /\ ~calls[1].link
  BY <1>2, <1>6 DEF ToSet
<1>8. Parse(src) = <<Finished(s)>>
  <2>1. Chains(src) = calls
    BY <1>2, <1>3, <1>7, ChainsOf
  <2>2. QED
    BY <1>1, <2>1, ParseOne
<1>9. Parse((src \o <<"nl">>) \o (src \o <<"nl">>)) = <<Finished(s), Finished(s)>>
  <2>1. calls \o calls # <<>> /\ ~(calls \o calls)[1].link
    <3>1. (calls \o calls)[1] = calls[1] /\ calls \o calls # <<>>
      BY <1>2, OpensBoth
    <3>2. QED
      BY <1>7, <3>1
  <2>2. Unreadable \notin ToSet(calls \o calls)
    <3>1. \A i \in DOMAIN (calls \o calls) : (calls \o calls)[i] \in ToSet(calls)
      BY <1>2 DEF ToSet
    <3>2. QED
      BY <1>7, <3>1 DEF ToSet
  <2>3. Chains((src \o <<"nl">>) \o (src \o <<"nl">>)) = calls \o calls
    BY <1>5, <2>1, <2>2, ChainsOf
  <2>4. QED
    BY <1>1, <2>3, ParseTwo
<1>10. QED
  BY <1>8, <1>9

-----------------------------------------------------------------------------
\* The statement is what the chain leads to from its root, finished once the
\* chain is closed.
HasRead(root, links, s) ==
  /\ chain = <<root>> \o links
  /\ Leads(Opened(root), links, s)
  /\ statement = IF closed THEN Finished(s) ELSE s
  /\ s # Refused => Opened(root) # Refused

ChainRead ==
  /\ closed => chain # <<>>
  /\ chain # <<>> => \E root \in Roots, links \in Seq(Links) : \E s : HasRead(root, links, s)

\* The statement is always the one that the calls of the chain lead to.
THEOREM Chained == Spec => []ChainRead
<1>1. Init => ChainRead
  BY DEF Init, ChainRead
<1>2. ChainRead /\ [Next]_vars => ChainRead'
  <2> SUFFICES ASSUME ChainRead, [Next]_vars PROVE ChainRead'
    OBVIOUS
  <2>1. CASE UNCHANGED vars
    BY <2>1 DEF vars, ChainRead, HasRead
  <2>2. ASSUME NEW root \in Roots, Open(root) PROVE ChainRead'
    <3>1. chain' = <<root>> /\ statement' = Opened(root) /\ closed' = FALSE
      BY <2>2 DEF Open, ChainRead
    <3>2. <<root>> \o <<>> = <<root>> /\ <<>> \in Seq(Links)
      OBVIOUS
    <3>3. Leads(Opened(root), <<>>, Opened(root))
      BY LeadsNowhere
    <3>4. HasRead(root, <<>>, Opened(root))'
      BY <3>1, <3>2, <3>3 DEF HasRead
    <3>5. QED
      BY <3>1, <3>2, <3>4 DEF ChainRead
  <2>3. ASSUME NEW call \in Links, ReadLink(call) PROVE ChainRead'
    <3>1. /\ chain # <<>> /\ ~closed /\ statement # Refused
          /\ chain' = Append(chain, call) /\ statement' = Linked(statement, call)
          /\ closed' = FALSE
      BY <2>3 DEF ReadLink
    <3>2. PICK root \in Roots, links \in Seq(Links) : \E s : HasRead(root, links, s)
      BY <3>1 DEF ChainRead
    <3>2a. PICK s : HasRead(root, links, s)
      BY <3>2
    <3>3. /\ chain = <<root>> \o links /\ Leads(Opened(root), links, s)
          /\ statement = s /\ (s # Refused => Opened(root) # Refused)
      BY <3>1, <3>2a DEF HasRead
    <3>4. <<call>> \in Seq(Links) /\ links \o <<call>> \in Seq(Links)
      OBVIOUS
    <3>5. Leads(s, <<call>>, Linked(s, call))
      BY SchemaAssumption, LeadsOne
    <3>6. Leads(Opened(root), links \o <<call>>, Linked(s, call))
      BY <3>3, <3>4, <3>5, LeadsOn
    <3>7. Append(<<root>> \o links, call) = <<root>> \o (links \o <<call>>)
      OBVIOUS
    <3>8. HasRead(root, links \o <<call>>, Linked(s, call))'
      BY <3>1, <3>3, <3>6, <3>7 DEF HasRead
    <3>9. chain' # <<>>
      <4>1. chain \in Seq(Roots \cup Links)
        BY <3>3
      <4>2. QED
        BY <3>1, <4>1
    <3>10. QED
      BY <3>4, <3>8, <3>9 DEF ChainRead
  <2>4. ASSUME Close PROVE ChainRead'
    <3>1. /\ chain # <<>> /\ ~closed /\ chain' = chain /\ closed' = TRUE
          /\ statement' = Finished(statement)
      BY <2>4 DEF Close
    <3>2. PICK root \in Roots, links \in Seq(Links) : \E s : HasRead(root, links, s)
      BY <3>1 DEF ChainRead
    <3>2a. PICK s : HasRead(root, links, s)
      BY <3>2
    <3>3. HasRead(root, links, s)'
      BY <3>1, <3>2a DEF HasRead
    <3>4. QED
      BY <3>1, <3>3 DEF ChainRead
  <2>5. QED
    BY <2>1, <2>2, <2>3, <2>4 DEF Next
<1>3. QED
  BY <1>1, <1>2, PTL DEF Spec

\* However an author lays a chain out, blanks and comments of either style
\* between any two tokens, the source reads as the same statement: a migration
\* keeps its identity through reformatting.
THEOREM LaidOutAlike == Spec => []LayoutIsNoIdentity
<1>1. ChainRead => LayoutIsNoIdentity
  <2> SUFFICES ASSUME ChainRead, Accepted, NEW gap \in Layouts
               PROVE  Parse(Source(chain, gap)) = <<statement>>
    BY DEF LayoutIsNoIdentity
  <2>1. closed /\ statement # Refused /\ chain # <<>>
    BY DEF Accepted, ChainRead
  <2>2. PICK root \in Roots, links \in Seq(Links) : \E s : HasRead(root, links, s)
    BY <2>1 DEF ChainRead
  <2>2a. PICK s : HasRead(root, links, s)
    BY <2>2
  <2>3. /\ chain = <<root>> \o links /\ Leads(Opened(root), links, s)
        /\ statement = Finished(s) /\ (s # Refused => Opened(root) # Refused)
    BY <2>1, <2>2a DEF HasRead
  <2>4. s # Refused
    BY <2>1, <2>3 DEF Finished, Refused
  <2>5. ExactIdents(root, 1)
    BY <2>3, <2>4 DEF Opened
  <2>6. PICK S : S = {chain[i] : i \in DOMAIN chain}
    OBVIOUS
  <2>7. chain \in Seq(Roots \cup Links) /\ Len(chain) = 1 + Len(links) /\ chain[1] = root
        /\ \A k \in 1..Len(links) : chain[1 + k] = links[k]
    BY <2>3
  <2>8. root \in S /\ links \in Seq(S)
    <3>1. 1 \in DOMAIN chain /\ \A k \in 1..Len(links) : 1 + k \in DOMAIN chain
      BY <2>7
    <3>2. \A k \in 1..Len(links) : links[k] \in S
      BY <2>6, <2>7, <3>1
    <3>3. links \in [1..Len(links) -> S] /\ Len(links) \in Nat
      BY <3>2
    <3>4. links \in Seq(S)
      BY <3>3, Tabled
    <3>5. QED
      BY <2>6, <2>7, <3>1, <3>4
  <2>9. \A call \in S : IsCall(call)
    <3> SUFFICES ASSUME NEW i \in DOMAIN chain PROVE IsCall(chain[i])
      BY <2>6
    <3>1. chain[i] \in Roots \cup Links
      BY <2>7
    <3>2. QED
      BY <3>1, SchemaAssumption
  <2>10. ~root.link /\ IsLayout(gap)
    BY SchemaAssumption
  <2>11. PICK src : src = Source(<<root>> \o links, gap)
    OBVIOUS
  <2>12. Parse(src) = <<Finished(s)>>
    <3> HIDE DEF Refused
    <3>1. QED
      BY <2>1, <2>3, <2>5, <2>8, <2>9, <2>10, <2>11, SourceParses
  <2>13. QED
    BY <2>3, <2>11, <2>12
<1>2. QED
  BY <1>1, Chained, PTL

-----------------------------------------------------------------------------
(* What the builder can build of names and of literals of a set L.         *)

PlainNames  == Words \ Foreign
Optional(S) == {<<>>} \cup {<<x>> : x \in S}

References ==
  [table : PlainNames, column : PlainNames,
   on_delete : Optional(RefActions), on_update : Optional(RefActions)]

AnyColumns(L) ==
  [name : PlainNames, ty : ColumnTypes, not_null : BOOLEAN, unique : BOOLEAN,
   primary_key : BOOLEAN, default : Optional(L \cup {Now}),
   references : Optional(References)]

\* An identity is never null.
Columns(L) == {column \in AnyColumns(L) : column.ty = "id" => column.not_null}

Tables(L) ==
  [kind : {"create_table"}, on : PlainNames, if_not_exists : BOOLEAN,
   columns : Seq(Columns(L)), primary_key : Seq(PlainNames),
   uniques : Seq(Seq(PlainNames) \ {<<>>})]

Indexes ==
  [kind : {"create_index"}, on : PlainNames, name : Optional(PlainNames),
   columns : Seq(PlainNames), unique : BOOLEAN, if_not_exists : BOOLEAN]

Adds(L) == [do : {"add"}, column : {column \in Columns(L) : column.ty # "id"}]
Moves   == {move \in [do : {"drop_column", "rename_to", "rename_column"},
                      names : Seq(PlainNames)] :
              Len(move.names) = IF move.do = "rename_column" THEN 2 ELSE 1}

Alters(L) ==
  [kind : {"alter_table"}, on : PlainNames, actions : Seq(Adds(L) \cup Moves)]

Drops == [kind : {"drop_table", "drop_index"}, on : PlainNames, if_exists : BOOLEAN]

Statements(L) == Tables(L) \cup Indexes \cup Alters(L) \cup Drops

\* The names that a call's arguments spell.
LEMMA NamesArePlain ==
  ASSUME NEW call, IsCall(call), Idents(call)
  PROVE  /\ NamesIn(call) \in Seq(PlainNames) /\ Len(NamesIn(call)) = Len(call.args)
         /\ \A i \in 1..Len(call.args) : NameIn(call, i) \in PlainNames
                                         /\ NamesIn(call)[i] = NameIn(call, i)
         /\ ~NoArgs(call) => NamesIn(call) # <<>>
<1>1. PICK n \in Nat : n = Len(call.args) /\ DOMAIN call.args = 1..n
  BY DEF IsCall
<1>2. \A i \in 1..n : NameIn(call, i) \in PlainNames
  BY <1>1 DEF Idents, IsIdent, NameIn, PlainNames, IsWord
<1>3. NamesIn(call) \in [1..n -> PlainNames] /\ \A i \in 1..n : NamesIn(call)[i] = NameIn(call, i)
  BY <1>1, <1>2 DEF NamesIn
<1>4. NamesIn(call) \in Seq(PlainNames) /\ Len(NamesIn(call)) = n
  BY <1>3, Tabled
<1>5. n = 0 => NoArgs(call)
  <2>1. call.args \in Seq(ToSet(call.args))
    BY DEF IsCall
  <2>2. PICK args : args = call.args
    OBVIOUS
  <2>3. PICK T : args \in Seq(T)
    BY <2>1, <2>2
  <2>4. Len(args) = 0 => args = <<>>
    BY <2>3
  <2>5. QED
    BY <1>1, <2>2, <2>4 DEF NoArgs
<1>6. QED
  BY <1>1, <1>2, <1>3, <1>4, <1>5

\* A referential action is spelled as one.
LEMMA RefActionIsOne == \A text : RefAction(text) # <<>> => RefAction(text) \in Optional(RefActions)
<1> SUFFICES ASSUME NEW text, RefAction(text) # <<>>
             PROVE  RefAction(text) \in Optional(RefActions)
  OBVIOUS
<1>1. "cascade" \in RefActions /\ "set_null" \in RefActions
  BY DEF RefActions
<1>2. CASE Len(text) = 1 /\ text[1] \in RefActions
  <2>1. text # <<"CASCADE">> /\ text \notin {<<"set", " ", "null">>, <<"SET", "-", "NULL">>}
    <3>1. "CASCADE" \notin RefActions /\ "set" \notin RefActions /\ "SET" \notin RefActions
      BY DEF RefActions
    <3>2. <<"CASCADE">>[1] = "CASCADE" /\ <<"set", " ", "null">>[1] = "set"
          /\ <<"SET", "-", "NULL">>[1] = "SET"
      OBVIOUS
    <3>3. text # <<"CASCADE">>
      BY <1>2, <3>1, <3>2
    <3>4. text # <<"set", " ", "null">> /\ text # <<"SET", "-", "NULL">>
      BY <1>2, <3>1, <3>2
    <3>5. QED
      BY <3>3, <3>4
  <2>2. RefAction(text) = <<text[1]>>
    BY <1>2, <2>1 DEF RefAction
  <2>3. QED
    BY <1>2, <2>2 DEF Optional
<1>3. CASE ~(Len(text) = 1 /\ text[1] \in RefActions)
  <2>1. RefAction(text) \in {<<"cascade">>, <<"set_null">>, <<>>}
    BY <1>3 DEF RefAction
  <2>2. QED
    BY <1>1, <2>1 DEF Optional
<1>4. QED
  BY <1>2, <1>3

\* A modifier makes a column of a column, of the same name and type.
LEMMA ModifiedIsColumn ==
  ASSUME NEW L, NEW column \in Columns(L), NEW call, IsCall(call), ToSet(call.args) \subseteq L,
         Modified(column, call) # Refused
  PROVE  Modified(column, call) \in Columns(L) /\ Modified(column, call).ty = column.ty
<1> DEFINE Keeps(c) == c \in Columns(L) /\ c.ty = column.ty
<1>1. /\ Keeps([column EXCEPT !.not_null = TRUE])
      /\ Keeps([column EXCEPT !.unique = TRUE])
      /\ Keeps([column EXCEPT !.primary_key = TRUE])
  BY DEF Columns, AnyColumns
<1>2. \A d \in Optional(L \cup {Now}) : Keeps([column EXCEPT !.default = d])
  BY DEF Columns, AnyColumns
<1>3. \A r \in Optional(References) : Keeps([column EXCEPT !.references = r])
  BY DEF Columns, AnyColumns
<1> HIDE DEF Keeps
<1>4. CASE call.name \in {"not_null", "unique", "primary_key"} /\ NoArgs(call)
  <2>1. Modified(column, call) = [column EXCEPT ![call.name] = TRUE]
    BY <1>4 DEF Modified
  <2>2. QED
    BY <1>1, <1>4, <2>1 DEF Keeps
<1>5. CASE call.name = "default" /\ Len(call.args) = 1
  <2>1. Modified(column, call) = [column EXCEPT !.default = call.args]
    BY <1>5 DEF Modified
  <2>2. call.args = <<call.args[1]>> /\ call.args[1] \in L
    BY <1>5 DEF IsCall, ToSet
  <2>3. call.args \in Optional(L \cup {Now})
    BY <2>2 DEF Optional
  <2>4. QED
    BY <1>2, <2>1, <2>3 DEF Keeps
<1>6. CASE call.name = "default_now" /\ NoArgs(call)
  <2>1. Modified(column, call) = [column EXCEPT !.default = <<Now>>]
    BY <1>6 DEF Modified
  <2>2. <<Now>> \in Optional(L \cup {Now})
    BY DEF Optional
  <2>3. QED
    BY <1>2, <2>1, <2>2 DEF Keeps
<1>7. CASE call.name = "references" /\ ExactIdents(call, 2)
  <2> DEFINE reference == [table |-> NameIn(call, 1), column |-> NameIn(call, 2),
                           on_delete |-> <<>>, on_update |-> <<>>]
  <2>1. Modified(column, call) = [column EXCEPT !.references = <<reference>>]
    BY <1>7 DEF Modified
  <2>2. NameIn(call, 1) \in PlainNames /\ NameIn(call, 2) \in PlainNames
    BY <1>7, NamesArePlain DEF ExactIdents
  <2>3. reference \in References
    BY <2>2 DEF References, Optional
  <2> HIDE DEF reference
  <2>4. <<reference>> \in Optional(References)
    BY <2>3 DEF Optional
  <2>5. QED
    BY <1>3, <2>1, <2>4 DEF Keeps
<1>8. CASE /\ call.name \in {"on_delete", "on_update"}
           /\ Len(call.args) = 1 /\ call.args[1].kind = "str"
           /\ RefAction(call.args[1].value) # <<>>
           /\ column.references # <<>>
  <2>1. PICK a : a = RefAction(call.args[1].value) /\ a \in Optional(RefActions)
    BY <1>8, RefActionIsOne
  <2>2. Modified(column, call) = [column EXCEPT !.references[1][call.name] = a]
    BY <1>8, <2>1 DEF Modified
  <2>3. PICK r \in References : column.references = <<r>>
    BY <1>8 DEF Columns, AnyColumns, Optional
  <2>4. PICK u : u = [r EXCEPT ![call.name] = a]
    OBVIOUS
  <2>5. u \in References
    BY <1>8, <2>1, <2>4 DEF References
  <2>6. [column.references EXCEPT ![1] = u] = <<u>>
    BY <2>3
  <2>7. Modified(column, call) = [column EXCEPT !.references = <<u>>]
    <3>1. Modified(column, call) =
            [column EXCEPT !.references =
               [column.references EXCEPT ![1] = [column.references[1] EXCEPT ![call.name] = a]]]
      BY <2>2
    <3>2. column.references[1] = r
      BY <2>3
    <3>3. QED
      BY <2>4, <2>6, <3>1, <3>2
  <2>8. <<u>> \in Optional(References)
    BY <2>5 DEF Optional
  <2>9. QED
    BY <1>3, <2>7, <2>8 DEF Keeps
<1>9. QED
  BY <1>4, <1>5, <1>6, <1>7, <1>8 DEF Modified

\* A column type that is declared.
LEMMA DeclaredIsColumn ==
  ASSUME NEW L, NEW call, IsCall(call), NEW ty \in ColumnTypes, Declares(call, ty),
         "id" \in PlainNames
  PROVE  Declared(call, ty) \in Columns(L) /\ Declared(call, ty).ty = ty
<1>1. PICK name : name = IF NoArgs(call) THEN "id" ELSE NameIn(call, 1)
  OBVIOUS
<1>2. ~NoArgs(call) => ExactIdents(call, 1)
  BY DEF Declares
<1>3. ~NoArgs(call) => NameIn(call, 1) \in PlainNames
  BY <1>2, NamesArePlain DEF ExactIdents
<1>4. name \in PlainNames
  BY <1>1, <1>3
<1>5. Declared(call, ty) = NewColumn(name, ty)
  BY <1>1 DEF Declared
<1>6. <<>> \in Optional(L \cup {Now}) /\ <<>> \in Optional(References)
  BY DEF Optional
<1>7. NewColumn(name, ty) \in AnyColumns(L) /\ NewColumn(name, ty).ty = ty
  BY <1>4, <1>6 DEF NewColumn, AnyColumns
<1>8. NewColumn(name, ty).not_null = (ty = "id")
  BY DEF NewColumn
<1>9. QED
  BY <1>5, <1>7, <1>8 DEF Columns

\* A link makes a table of a table.
LEMMA TableLinkIsTable ==
  ASSUME NEW L, NEW table \in Tables(L), NEW call, IsCall(call), ToSet(call.args) \subseteq L,
         TableLink(table, call) # Refused, {"id", "created_at", "updated_at"} \subseteq PlainNames
  PROVE  TableLink(table, call) \in Tables(L)
<1> DEFINE n == Len(table.columns)
<1>1. table.columns \in Seq(Columns(L)) /\ table.uniques \in Seq(Seq(PlainNames) \ {<<>>})
  BY DEF Tables
<1>2. \A columns \in Seq(Columns(L)) : [table EXCEPT !.columns = columns] \in Tables(L)
  BY DEF Tables
<1>3. CASE call.name \in ColumnTypes /\ Declares(call, call.name)
  <2>1. Declared(call, call.name) \in Columns(L)
    BY <1>3, DeclaredIsColumn
  <2>2. Append(table.columns, Declared(call, call.name)) \in Seq(Columns(L))
    BY <1>1, <2>1
  <2>3. TableLink(table, call) =
          [table EXCEPT !.columns = Append(table.columns, Declared(call, call.name))]
    <3>1. /\ ~(call.name = "timestamps" /\ NoArgs(call))
          /\ ~(call.name = "if_not_exists" /\ NoArgs(call))
          /\ ~(call.name = "primary_key" /\ ManyIdents(call) /\ table.primary_key = <<>>)
          /\ ~(call.name = "unique" /\ ManyIdents(call))
          /\ ~(n > 0 /\ Modified(table.columns[n], call) # Refused)
      BY <1>3 DEF ColumnTypes, Modified
    <3>2. QED
      BY <1>3, <3>1 DEF TableLink
  <2>4. QED
    BY <1>2, <2>2, <2>3
<1>4. CASE call.name = "timestamps" /\ NoArgs(call)
  <2>1. <<Now>> \in Optional(L \cup {Now}) /\ <<>> \in Optional(References)
    BY DEF Optional
  <2>2. "timestamp" \in ColumnTypes
    BY DEF ColumnTypes
  <2>3. Stamp("created_at") \in Columns(L) /\ Stamp("updated_at") \in Columns(L)
    BY <2>1, <2>2 DEF Stamp, NewColumn, Columns, AnyColumns
  <2>4. PICK a, b \in Columns(L) : a = Stamp("created_at") /\ b = Stamp("updated_at")
    BY <2>3
  <2>5. table.columns \o <<a, b>> \in Seq(Columns(L))
    BY <1>1
  <2>6. TableLink(table, call) =
          [table EXCEPT !.columns = @ \o <<Stamp("created_at"), Stamp("updated_at")>>]
    <3>1. /\ ~(call.name \in ColumnTypes /\ Declares(call, call.name))
          /\ ~(n > 0 /\ Modified(table.columns[n], call) # Refused)
      BY <1>4 DEF ColumnTypes, Modified
    <3>2. QED
      BY <1>4, <3>1 DEF TableLink
  <2>7. TableLink(table, call) = [table EXCEPT !.columns = table.columns \o <<a, b>>]
    BY <2>4, <2>6
  <2>8. QED
    BY <1>2, <2>5, <2>7
<1>5. CASE call.name = "if_not_exists" /\ NoArgs(call)
  <2>1. TableLink(table, call) = [table EXCEPT !.if_not_exists = TRUE]
    <3>1. /\ ~(call.name \in ColumnTypes /\ Declares(call, call.name))
          /\ ~(n > 0 /\ Modified(table.columns[n], call) # Refused)
      BY <1>5 DEF ColumnTypes, Modified
    <3>2. QED
      BY <1>5, <3>1 DEF TableLink
  <2>2. QED
    BY <2>1 DEF Tables
<1>6. CASE call.name = "primary_key" /\ ManyIdents(call) /\ table.primary_key = <<>>
  <2>1. TableLink(table, call) = [table EXCEPT !.primary_key = NamesIn(call)]
    <3>1. /\ ~(call.name \in ColumnTypes /\ Declares(call, call.name))
          /\ ~(n > 0 /\ Modified(table.columns[n], call) # Refused)
      BY <1>6 DEF ColumnTypes, Modified, ManyIdents
    <3>2. QED
      BY <1>6, <3>1 DEF TableLink
  <2>2. NamesIn(call) \in Seq(PlainNames)
    BY <1>6, NamesArePlain DEF ManyIdents
  <2>3. QED
    BY <2>1, <2>2 DEF Tables
<1>7. CASE call.name = "unique" /\ ManyIdents(call)
  <2>1. TableLink(table, call) = [table EXCEPT !.uniques = Append(table.uniques, NamesIn(call))]
    <3>1. /\ ~(call.name \in ColumnTypes /\ Declares(call, call.name))
          /\ ~(n > 0 /\ Modified(table.columns[n], call) # Refused)
      BY <1>7 DEF ColumnTypes, Modified, ManyIdents
    <3>2. QED
      BY <1>7, <3>1 DEF TableLink
  <2>2. NamesIn(call) \in Seq(PlainNames) \ {<<>>}
    BY <1>7, NamesArePlain DEF ManyIdents
  <2>3. Append(table.uniques, NamesIn(call)) \in Seq(Seq(PlainNames) \ {<<>>})
    BY <1>1, <2>2
  <2>4. QED
    BY <2>1, <2>3 DEF Tables
<1>8. CASE /\ ~(call.name \in ColumnTypes /\ Declares(call, call.name))
           /\ ~(call.name = "timestamps" /\ NoArgs(call))
           /\ ~(call.name = "if_not_exists" /\ NoArgs(call))
           /\ ~(call.name = "primary_key" /\ ManyIdents(call) /\ table.primary_key = <<>>)
           /\ ~(call.name = "unique" /\ ManyIdents(call))
  <2>1. /\ n > 0 /\ Modified(table.columns[n], call) # Refused
        /\ TableLink(table, call) = [table EXCEPT !.columns[n] = Modified(@, call)]
    BY <1>8 DEF TableLink
  <2>2. PICK c : c = Modified(table.columns[n], call)
    OBVIOUS
  <2>3. c \in Columns(L) /\ n \in 1..Len(table.columns)
    <3>1. n \in 1..Len(table.columns) /\ table.columns[n] \in Columns(L)
      BY <1>1, <2>1
    <3>2. QED
      BY <2>1, <2>2, <3>1, ModifiedIsColumn
  <2>4. [table.columns EXCEPT ![n] = c] \in Seq(Columns(L))
    BY <1>1, <2>3, ExceptSeq
  <2>5. TableLink(table, call) = [table EXCEPT !.columns = [table.columns EXCEPT ![n] = c]]
    BY <2>1, <2>2
  <2>6. QED
    BY <1>2, <2>4, <2>5
<1>9. QED
  BY <1>3, <1>4, <1>5, <1>6, <1>7, <1>8

\* A link makes an index of an index.
LEMMA IndexLinkIsIndex ==
  ASSUME NEW index \in Indexes, NEW call, IsCall(call), IndexLink(index, call) # Refused
  PROVE  IndexLink(index, call) \in Indexes
<1>1. index.columns \in Seq(PlainNames)
  BY DEF Indexes
<1>2. Idents(call) => NamesIn(call) \in Seq(PlainNames) /\ Len(NamesIn(call)) = Len(call.args)
                      /\ (Len(call.args) = 1 => NameIn(call, 1) \in PlainNames
                                                /\ NamesIn(call)[1] = NameIn(call, 1))
  BY NamesArePlain
<1>3. CASE call.name = "column" /\ ExactIdents(call, 1)
  <2>1. IndexLink(index, call) = [index EXCEPT !.columns = Append(index.columns, NameIn(call, 1))]
    BY <1>3 DEF IndexLink
  <2>2. Append(index.columns, NameIn(call, 1)) \in Seq(PlainNames)
    BY <1>1, <1>2, <1>3 DEF ExactIdents
  <2>3. QED
    BY <2>1, <2>2 DEF Indexes
<1>4. CASE call.name = "columns" /\ Idents(call)
  <2>1. IndexLink(index, call) = [index EXCEPT !.columns = index.columns \o NamesIn(call)]
    BY <1>4 DEF IndexLink
  <2>2. index.columns \o NamesIn(call) \in Seq(PlainNames)
    BY <1>1, <1>2, <1>4
  <2>3. QED
    BY <2>1, <2>2 DEF Indexes
<1>5. CASE call.name = "name" /\ ExactIdents(call, 1)
  <2>1. IndexLink(index, call) = [index EXCEPT !.name = NamesIn(call)]
    BY <1>5 DEF IndexLink
  <2>2. NamesIn(call) = <<NameIn(call, 1)>> /\ NameIn(call, 1) \in PlainNames
    BY <1>2, <1>5 DEF ExactIdents
  <2>3. NamesIn(call) \in Optional(PlainNames)
    BY <2>2 DEF Optional
  <2>4. QED
    BY <2>1, <2>3 DEF Indexes
<1>6. CASE call.name \in {"unique", "if_not_exists"} /\ NoArgs(call)
  <2>1. IndexLink(index, call) = [index EXCEPT ![call.name] = TRUE]
    BY <1>6 DEF IndexLink
  <2>2. QED
    BY <1>6, <2>1 DEF Indexes
<1>7. QED
  BY <1>3, <1>4, <1>5, <1>6 DEF IndexLink

\* A link makes an alteration of an alteration.
LEMMA AlterLinkIsAlteration ==
  ASSUME NEW L, NEW alter \in Alters(L), NEW call, IsCall(call), ToSet(call.args) \subseteq L,
         AlterLink(alter, call) # Refused, "id" \in PlainNames
  PROVE  AlterLink(alter, call) \in Alters(L)
<1> DEFINE n == Len(alter.actions)
           Added(ty) == [do |-> "add", column |-> Declared(call, ty)]
           Do(what)  == [do |-> what, names |-> NamesIn(call)]
           A == Adds(L) \cup Moves
<1>1. alter.actions \in Seq(A)
  BY DEF Alters
<1>2. \A actions \in Seq(A) : [alter EXCEPT !.actions = actions] \in Alters(L)
  BY DEF Alters
<1>3. ASSUME NEW action \in A
      PROVE  [alter EXCEPT !.actions = Append(@, action)] \in Alters(L)
  <2> HIDE DEF A
  <2>1. PICK actions : actions = Append(alter.actions, action)
    OBVIOUS
  <2>2. actions \in Seq(A)
    BY <1>1, <2>1
  <2>3. [alter EXCEPT !.actions = actions] \in Alters(L)
    BY <1>2, <2>2
  <2>4. QED
    BY <2>1, <2>3
<1>4. call.name \in Verbs => \A column : Modified(column, call) = Refused
  <2>1. AddNames = {"add_text", "add_int", "add_bigint", "add_float", "add_bool",
                    "add_timestamp"}
    BY DEF AddNames, AddOf
  <2>2. QED
    BY <2>1 DEF Modified, Verbs
<1>5. AddNames \cap {"drop_column", "rename_to", "rename_column"} = {}
      /\ \A ty \in DOMAIN AddOf : AddOf[ty] \in AddNames
  BY DEF AddOf, AddNames
<1>6. CASE \E ty \in DOMAIN AddOf : call.name = AddOf[ty] /\ Declares(call, ty)
  <2> DEFINE ty == CHOOSE ty \in DOMAIN AddOf : call.name = AddOf[ty]
  <2>1. ty \in DOMAIN AddOf /\ Declares(call, ty)
    <3>1. PICK t \in DOMAIN AddOf : call.name = AddOf[t] /\ Declares(call, t)
      BY <1>6
    <3>2. \A u, v \in DOMAIN AddOf : AddOf[u] = AddOf[v] => u = v
      BY DEF AddOf
    <3>3. ty \in DOMAIN AddOf /\ call.name = AddOf[ty]
      BY <3>1
    <3> HIDE DEF ty
    <3>4. QED
      BY <3>1, <3>2, <3>3
  <2>2. AlterLink(alter, call) = [alter EXCEPT !.actions = Append(@, Added(ty))]
    <3>1. call.name \in AddNames /\ call.name \in Verbs
      BY <1>6, <1>5 DEF Verbs
    <3>2. /\ Modified(alter.actions[n].column, call) = Refused
          /\ call.name \notin {"drop_column", "rename_to"} /\ call.name # "rename_column"
      BY <1>4, <1>5, <3>1
    <3>3. QED
      BY <1>6, <3>2 DEF AlterLink
  <2> HIDE DEF ty
  <2>3. ty \in ColumnTypes /\ ty # "id"
    BY <2>1 DEF AddOf, ColumnTypes
  <2>4. Declared(call, ty) \in Columns(L) /\ Declared(call, ty).ty # "id"
    BY <2>1, <2>3, DeclaredIsColumn
  <2>5. Added(ty) \in A
    BY <2>4 DEF Adds
  <2> HIDE DEF A
  <2>6. QED
    BY <1>3, <2>2, <2>5
<1>7. CASE \/ call.name \in {"drop_column", "rename_to"} /\ ExactIdents(call, 1)
           \/ call.name = "rename_column" /\ ExactIdents(call, 2)
  <2>1. AlterLink(alter, call) = [alter EXCEPT !.actions = Append(@, Do(call.name))]
    <3>1. \A ty \in DOMAIN AddOf : call.name # AddOf[ty]
      BY <1>7, <1>5
    <3>2. Modified(alter.actions[n].column, call) = Refused
      BY <1>7, <1>4 DEF Verbs
    <3>3. QED
      BY <1>7, <3>1, <3>2 DEF AlterLink
  <2>2. Do(call.name) \in A
    <3>1. NamesIn(call) \in Seq(PlainNames) /\ Len(NamesIn(call)) = Len(call.args)
      BY <1>7, NamesArePlain DEF ExactIdents
    <3>2. Do(call.name) \in Moves
      BY <1>7, <3>1 DEF Moves, ExactIdents
    <3>3. QED
      BY <3>2
  <2> HIDE DEF A
  <2>3. QED
    BY <1>3, <2>1, <2>2
<1>8. CASE /\ ~\E ty \in DOMAIN AddOf : call.name = AddOf[ty] /\ Declares(call, ty)
           /\ ~(call.name \in {"drop_column", "rename_to"} /\ ExactIdents(call, 1))
           /\ ~(call.name = "rename_column" /\ ExactIdents(call, 2))
  <2> DEFINE action == alter.actions[n]
  <2>1. /\ n > 0 /\ action.do = "add" /\ Modified(action.column, call) # Refused
        /\ AlterLink(alter, call) = [alter EXCEPT !.actions[n].column = Modified(@, call)]
    BY <1>8 DEF AlterLink
  <2>2. n \in 1..Len(alter.actions) /\ action \in A
    <3> HIDE DEF A
    <3>1. QED
      BY <1>1, <2>1
  <2>3. action \in Adds(L)
    BY <2>1, <2>2 DEF Moves
  <2>4. PICK c : c = Modified(action.column, call)
    OBVIOUS
  <2>5. action.column \in Columns(L) /\ action.column.ty # "id" /\ action.do = "add"
    BY <2>3 DEF Adds
  <2>6. c \in Columns(L) /\ c.ty # "id"
    BY <2>1, <2>4, <2>5, ModifiedIsColumn
  <2>7. PICK more : more = [action EXCEPT !.column = c]
    OBVIOUS
  <2>8. more \in A
    BY <2>3, <2>6, <2>7 DEF Adds
  <2>9. [alter.actions EXCEPT ![n] = more] \in Seq(A)
    <3> HIDE DEF A
    <3>1. QED
      BY <1>1, <2>2, <2>8, ExceptSeq
  <2>10. AlterLink(alter, call) = [alter EXCEPT !.actions = [alter.actions EXCEPT ![n] = more]]
    BY <2>1, <2>4, <2>7
  <2> HIDE DEF A
  <2>11. QED
    BY <1>2, <2>9, <2>10
<1>9. QED
  BY <1>6, <1>7, <1>8

\* What is linked is a statement of the names and literals that its parts hold.
LEMMA LinkedIsStatement ==
  ASSUME NEW L, NEW stmt \in Statements(L), NEW call, IsCall(call), ToSet(call.args) \subseteq L,
         Linked(stmt, call) # Refused, {"id", "created_at", "updated_at"} \subseteq PlainNames
  PROVE  Linked(stmt, call) \in Statements(L)
<1>1. CASE stmt \in Tables(L)
  <2>1. Linked(stmt, call) = TableLink(stmt, call)
    BY <1>1 DEF Tables, Linked
  <2>2. QED
    BY <1>1, <2>1, TableLinkIsTable DEF Statements
<1>2. CASE stmt \in Indexes
  <2>1. Linked(stmt, call) = IndexLink(stmt, call)
    BY <1>2 DEF Indexes, Linked
  <2>2. QED
    BY <1>2, <2>1, IndexLinkIsIndex DEF Statements
<1>3. CASE stmt \in Alters(L)
  <2>1. Linked(stmt, call) = AlterLink(stmt, call)
    BY <1>3 DEF Alters, Linked
  <2>2. QED
    BY <1>3, <2>1, AlterLinkIsAlteration DEF Statements
<1>4. CASE stmt \in Drops
  <2>1. Linked(stmt, call) = DropLink(stmt, call)
    BY <1>4 DEF Drops, Linked
  <2>2. Linked(stmt, call) = [stmt EXCEPT !.if_exists = TRUE]
    BY <2>1 DEF DropLink
  <2>3. [stmt EXCEPT !.if_exists = TRUE] \in Drops
    BY <1>4 DEF Drops
  <2>4. QED
    BY <2>2, <2>3 DEF Statements
<1>5. QED
  BY <1>1, <1>2, <1>3, <1>4 DEF Statements

\* What opens is a statement of the name that its root holds.
LEMMA OpenedIsStatement ==
  ASSUME NEW L, NEW root, IsCall(root), Opened(root) # Refused
  PROVE  Opened(root) \in Statements(L)
<1>1. ExactIdents(root, 1)
  BY DEF Opened
<1>2. PICK name \in PlainNames : name = NameIn(root, 1)
  BY <1>1, NamesArePlain DEF ExactIdents
<1>3. <<>> \in Optional(PlainNames) /\ \A S : <<>> \in Seq(S)
  BY DEF Optional
<1>4. [kind |-> "create_table", on |-> name, if_not_exists |-> FALSE, columns |-> <<>>,
       primary_key |-> <<>>, uniques |-> <<>>] \in Tables(L)
  BY <1>3 DEF Tables
<1>5. [kind |-> "create_index", on |-> name, name |-> <<>>, columns |-> <<>>,
       unique |-> FALSE, if_not_exists |-> FALSE] \in Indexes
  BY <1>3 DEF Indexes
<1>6. [kind |-> "alter_table", on |-> name, actions |-> <<>>] \in Alters(L)
  BY <1>3 DEF Alters
<1>7. root.name \in {"drop_table", "drop_index"} =>
        [kind |-> root.name, on |-> name, if_exists |-> FALSE] \in Drops
  BY DEF Drops
<1>8. QED
  BY <1>1, <1>2, <1>4, <1>5, <1>6, <1>7 DEF Opened, Statements

\* More literals make more statements.
LEMMA StatementsGrow ==
  ASSUME NEW L, NEW M, L \subseteq M
  PROVE  Statements(L) \subseteq Statements(M)
<1>1. Optional(L \cup {Now}) \subseteq Optional(M \cup {Now})
  BY DEF Optional
<1>2. Columns(L) \subseteq Columns(M)
  BY <1>1 DEF Columns, AnyColumns
<1>3. Tables(L) \subseteq Tables(M)
  <2>1. Seq(Columns(L)) \subseteq Seq(Columns(M))
    BY <1>2, SeqMonotonic
  <2>2. QED
    BY <2>1 DEF Tables
<1>4. Alters(L) \subseteq Alters(M)
  <2>1. Adds(L) \cup Moves \subseteq Adds(M) \cup Moves
    BY <1>2 DEF Adds
  <2>2. Seq(Adds(L) \cup Moves) \subseteq Seq(Adds(M) \cup Moves)
    BY <2>1, SeqMonotonic
  <2>3. QED
    BY <2>2 DEF Alters
<1>5. QED
  BY <1>3, <1>4 DEF Statements

\* The names that the builder and the canonical rendering use are plain.
LEMMA OwnNamesArePlain == Vocabulary \subseteq PlainNames
  BY SchemaAssumption DEF PlainNames

\* The literals of a chain.
LiteralsOf(calls) == UNION {ToSet(calls[i].args) : i \in DOMAIN calls}

Typed == chain # <<>> /\ statement # Refused => statement \in Statements(LiteralsOf(chain))

\* What is built has the shape of a statement, of the literals of its chain.
THEOREM Typing == Spec => [](ChainRead /\ Typed)
<1>1. Init => ChainRead /\ Typed
  BY DEF Init, ChainRead, Typed
<1>2. ChainRead /\ Typed /\ [Next]_vars => Typed'
  <2> SUFFICES ASSUME ChainRead, Typed, [Next]_vars
               PROVE  Typed'
    OBVIOUS
  <2>1. CASE UNCHANGED vars
    BY <2>1 DEF vars, Typed
  <2>2. ASSUME NEW root \in Roots, Open(root)
        PROVE  Typed'
    <3>1. statement' = Opened(root) /\ IsCall(root)
      BY <2>2, SchemaAssumption DEF Open
    <3>2. QED
      BY <3>1, OpenedIsStatement DEF Typed
  <2>3. ASSUME NEW call \in Links, ReadLink(call)
        PROVE  Typed'
    <3>1. /\ chain # <<>> /\ statement # Refused /\ IsCall(call)
          /\ statement' = Linked(statement, call) /\ chain' = Append(chain, call)
      BY <2>3, SchemaAssumption DEF ReadLink
    <3>2. PICK n \in Nat : n = Len(chain) /\ chain \in Seq(Roots \cup Links)
      <4>1. PICK root \in Roots, links \in Seq(Links) : chain = <<root>> \o links
        BY <3>1 DEF ChainRead, HasRead
      <4>2. QED
        BY <4>1
    <3>3. /\ DOMAIN chain = 1..n /\ DOMAIN chain' = 1..n + 1
          /\ \A i \in 1..n : i \in 1..n + 1 /\ chain'[i] = chain[i]
          /\ n + 1 \in 1..n + 1 /\ chain'[n + 1] = call
      BY <3>1, <3>2
    <3>4. LiteralsOf(chain) \subseteq LiteralsOf(chain')
      BY <3>3 DEF LiteralsOf
    <3>5. ToSet(call.args) \subseteq LiteralsOf(chain')
      BY <3>3 DEF LiteralsOf
    <3>6. statement \in Statements(LiteralsOf(chain'))
      BY <3>1, <3>4, StatementsGrow DEF Typed
    <3>7. {"id", "created_at", "updated_at"} \subseteq PlainNames
      <4>1. {"id", "created_at", "updated_at"} \subseteq Vocabulary
        BY DEF Vocabulary, ColumnTypes
      <4>2. QED
        BY <4>1, OwnNamesArePlain
    <3>8. QED
      BY <3>1, <3>5, <3>6, <3>7, LinkedIsStatement DEF Typed
  <2>4. ASSUME Close
        PROVE  Typed'
    BY <2>4 DEF Close, Finished, Typed
  <2>5. QED
    BY <2>1, <2>2, <2>3, <2>4 DEF Next
<1>3. QED
  BY <1>1, <1>2, Chained, PTL DEF Spec

-----------------------------------------------------------------------------
(* The canonical calls of a statement build it.                            *)

\* The calls that a canonical rendering is made of.
Spoken(L) ==
  [link : BOOLEAN, name : Vocabulary, args : Seq(L \cup {Str(<<name>>) : name \in PlainNames})]

Reaches(L, s, calls, t) == calls \in Seq(Spoken(L)) /\ Leads(s, calls, t)

\* Of literals that an author can write, so is every canonical call.
LEMMA SpokenIsCall ==
  ASSUME NEW L, \A literal \in L : IsLiteral(literal), NEW call \in Spoken(L)
  PROVE  IsCall(call)
<1> DEFINE A == L \cup {Str(<<name>>) : name \in PlainNames}
<1>1. \A arg \in A : IsLiteral(arg)
  <2>1. ASSUME NEW name \in PlainNames
        PROVE  IsLiteral(Str(<<name>>))
    <3>1. PICK value : value = <<name>>
      OBVIOUS
    <3>2. value \in Seq(Symbols)
      BY <3>1 DEF PlainNames, Symbols
    <3>3. Str(value).value = value /\ Str(value).kind = "str"
      BY DEF Str, Token
    <3>4. QED
      BY <3>1, <3>2, <3>3 DEF IsLiteral
  <2>2. QED
    BY <2>1
<1>2. call.args \in Seq(A) /\ call.link \in BOOLEAN /\ call.name \in Vocabulary
      /\ call = [link |-> call.link, name |-> call.name, args |-> call.args]
  BY DEF Spoken
<1>3. IsWord(call.name) /\ call.name \notin Truths
  <2>1. Vocabulary \cap Truths = {}
    BY DEF Vocabulary, Truths, ColumnTypes, AddOf, RefActions
  <2>2. QED
    BY <1>2, <2>1, OwnNamesArePlain DEF PlainNames, IsWord
<1> HIDE DEF A
<1>4. \A arg \in ToSet(call.args) : IsLiteral(arg)
  BY <1>1, <1>2 DEF ToSet
<1>5. call.args \in Seq(ToSet(call.args))
  <2>1. PICK n \in Nat : n = Len(call.args) /\ call.args \in [1..n -> A]
    BY <1>2
  <2>2. call.args \in [1..n -> ToSet(call.args)]
    BY <2>1 DEF ToSet
  <2>3. QED
    BY <2>2, Tabled
<1>6. QED
  BY <1>2, <1>3, <1>4, <1>5 DEF IsCall, Call

\* A call that spells names.
Spells(call, L, name, names) ==
  /\ call \in Spoken(L) /\ call.link /\ call.name = name
  /\ Idents(call) /\ Len(call.args) = Len(names) /\ NamesIn(call) = names
  /\ NoArgs(call) => names = <<>>
  /\ \A i \in 1..Len(names) : /\ NameIn(call, i) = names[i]
                              /\ call.args[i] = Str(<<names[i]>>)

\* The canonical call of given names spells them.
LEMMA NamedSpells ==
  ASSUME NEW L, NEW name \in Vocabulary, NEW names \in Seq(PlainNames)
  PROVE  Spells(Named(name, names), L, name, names)
<1> DEFINE A    == L \cup {Str(<<n>>) : n \in PlainNames}
           args == [i \in DOMAIN names |-> Str(<<names[i]>>)]
<1>1. PICK n \in Nat : n = Len(names) /\ DOMAIN names = 1..n
  OBVIOUS
<1>2. args \in [1..n -> A] /\ \A i \in 1..n : args[i] = Str(<<names[i]>>)
  BY <1>1
<1>3. Named(name, names) = [link |-> TRUE, name |-> name, args |-> args]
  BY DEF Named, Call
<1> HIDE DEF args, A
<1>4. args \in Seq(A) /\ Len(args) = n /\ DOMAIN args = 1..n
  BY <1>2, Tabled
<1>5. Named(name, names) \in Spoken(L)
  BY <1>3, <1>4 DEF Spoken, A
<1>6. PICK call : call = Named(name, names)
  OBVIOUS
<1>7. call.link /\ call.name = name /\ call.args = args
  BY <1>3, <1>6
<1>8. \A i \in 1..n : /\ call.args[i].kind = "str" /\ call.args[i].value = <<names[i]>>
                      /\ Len(<<names[i]>>) = 1 /\ <<names[i]>>[1] = names[i]
                      /\ names[i] \in PlainNames
  BY <1>1, <1>2, <1>7 DEF Str, Token
<1>9. Idents(call) /\ \A i \in 1..n : NameIn(call, i) = names[i]
  <2>1. DOMAIN call.args = 1..n
    BY <1>4, <1>7
  <2>2. ASSUME NEW i \in 1..n
        PROVE  IsIdent(call.args[i]) /\ NameIn(call, i) = names[i]
    <3>1. PICK arg : arg = call.args[i]
      OBVIOUS
    <3>2. arg.kind = "str" /\ Len(arg.value) = 1 /\ arg.value[1] = names[i]
      BY <1>8, <3>1
    <3>3. names[i] \in Words /\ names[i] \notin Foreign
      BY <1>8 DEF PlainNames
    <3>4. IsIdent(arg)
      BY <3>2, <3>3 DEF IsIdent, IsWord
    <3>5. QED
      BY <3>1, <3>2, <3>4 DEF NameIn
  <2>3. QED
    BY <2>1, <2>2 DEF Idents
<1>10. NamesIn(call) = names
  <2>1. NamesIn(call) = [i \in 1..n |-> names[i]]
    BY <1>4, <1>7, <1>9 DEF NamesIn
  <2>2. QED
    BY <1>1, <2>1
<1>11. NoArgs(call) => names = <<>>
  <2>1. args = <<>> => n = 0
    BY <1>4
  <2>2. QED
    BY <1>1, <1>7, <2>1 DEF NoArgs
<1>12. Spells(call, L, name, names)
  BY <1>1, <1>2, <1>4, <1>5, <1>6, <1>7, <1>9, <1>10, <1>11 DEF Spells
<1>13. QED
  BY <1>6, <1>12

\* A call that spells one name, or two.
SpellsName(call, L, name, a) ==
  /\ call \in Spoken(L) /\ call.link /\ call.name = name
  /\ ExactIdents(call, 1) /\ Len(call.args) = 1 /\ ~NoArgs(call)
  /\ NameIn(call, 1) = a /\ NamesIn(call) = <<a>> /\ call.args[1] = Str(<<a>>)

\* So does that of a single name.
LEMMA SpellsOne ==
  ASSUME NEW L, NEW name \in Vocabulary, NEW a \in PlainNames, NEW call, call = Named(name, <<a>>)
  PROVE  SpellsName(call, L, name, a)
<1>1. PICK names : names = <<a>>
  OBVIOUS
<1>2. names \in Seq(PlainNames) /\ Len(names) = 1 /\ names[1] = a /\ names # <<>>
      /\ 1 \in 1..Len(names)
  BY <1>1
<1>3. call = Named(name, names)
  BY <1>1
<1>4. Spells(call, L, name, names)
  BY <1>2, <1>3, NamedSpells
<1>5. QED
  BY <1>1, <1>2, <1>4 DEF Spells, SpellsName, ExactIdents

\* So does that of a pair of names.
LEMMA SpellsTwo ==
  ASSUME NEW L, NEW name \in Vocabulary, NEW a \in PlainNames, NEW b \in PlainNames,
         NEW call, call = Named(name, <<a, b>>)
  PROVE  /\ call \in Spoken(L) /\ call.link /\ call.name = name
         /\ ExactIdents(call, 2) /\ NameIn(call, 1) = a /\ NameIn(call, 2) = b
<1>1. PICK names : names = <<a, b>>
  OBVIOUS
<1>2. names \in Seq(PlainNames) /\ Len(names) = 2 /\ names[1] = a /\ names[2] = b
      /\ 1 \in 1..Len(names) /\ 2 \in 1..Len(names)
  BY <1>1
<1>3. call = Named(name, names)
  BY <1>1
<1>4. Spells(call, L, name, names)
  BY <1>2, <1>3, NamedSpells
<1>5. QED
  BY <1>2, <1>4 DEF Spells, ExactIdents

\* A call without arguments.
LEMMA BareSpells ==
  ASSUME NEW L, NEW name \in Vocabulary
  PROVE  /\ Call(TRUE, name, <<>>) \in Spoken(L)
         /\ Call(TRUE, name, <<>>).link /\ Call(TRUE, name, <<>>).name = name
         /\ NoArgs(Call(TRUE, name, <<>>))
<1>1. \A S : <<>> \in Seq(S)
  OBVIOUS
<1>2. QED
  BY <1>1 DEF Call, Spoken, NoArgs

\* No call leads nowhere else.
LEMMA ReachesNowhere == \A L, s : Reaches(L, s, <<>>, s)
  BY LeadsNowhere DEF Reaches

\* One call leads to what the builder makes of it.
LEMMA ReachesOne ==
  ASSUME NEW L, NEW call \in Spoken(L), call.link, NEW s, NEW t, Linked(s, call) = t
  PROVE  Reaches(L, s, <<call>>, t)
<1>1. <<call>> \in Seq(Spoken(L))
  OBVIOUS
<1>2. QED
  BY <1>1, LeadsOne DEF Reaches

\* Calls behind calls lead on.
LEMMA ReachesOn ==
  ASSUME NEW L, NEW s, NEW c, NEW t, Reaches(L, s, c, t), NEW d, NEW u, Reaches(L, t, d, u)
  PROVE  Reaches(L, s, c \o d, u)
<1>1. c \in Seq(Spoken(L)) /\ d \in Seq(Spoken(L)) /\ Leads(s, c, t) /\ Leads(t, d, u)
  BY DEF Reaches
<1>2. c \o d \in Seq(Spoken(L))
  BY <1>1
<1>3. QED
  BY <1>1, <1>2, LeadsOn DEF Reaches

\* Parts that lead from statement to statement lead from the first to the last.
LEMMA ReachesMany ==
  ASSUME NEW L, NEW n \in Nat, NEW parts, parts = [k \in 1..n |-> parts[k]], NEW g,
         \A k \in 1..n : Reaches(L, g[k - 1], parts[k], g[k])
  PROVE  Reaches(L, g[0], FlattenSeq(parts), g[n])
<1>1. parts \in [1..n -> Seq(Spoken(L))]
  BY DEF Reaches
<1>2. parts \in Seq(Seq(Spoken(L))) /\ Len(parts) = n
  BY <1>1, Tabled
<1>3. PICK f : Joins(f, parts, Spoken(L)) /\ f[n] = FlattenSeq(parts)
  BY <1>2, Flattening
<1> DEFINE T == {k \in Nat : k <= n => Reaches(L, g[0], f[k], g[k])}
<1>4. 0 \in T
  BY <1>3, ReachesNowhere DEF Joins
<1>5. ASSUME NEW k \in Nat, k \in T
      PROVE  k + 1 \in T
  <2>1. SUFFICES ASSUME k + 1 <= n
                 PROVE  Reaches(L, g[0], f[k + 1], g[k + 1])
    OBVIOUS
  <2>2. k \in 0..n - 1 /\ k + 1 \in 1..n /\ (k + 1) - 1 = k /\ k <= n
    BY <2>1
  <2>3. f[k + 1] = f[k] \o parts[k + 1]
    BY <1>2, <1>3, <2>2 DEF Joins
  <2>4. Reaches(L, g[0], f[k], g[k])
    BY <1>5, <2>2
  <2>5. Reaches(L, g[k], parts[k + 1], g[k + 1])
    BY <2>2
  <2>6. QED
    BY <2>3, <2>4, <2>5, ReachesOn
<1>6. Nat \subseteq T
  <2> HIDE DEF T
  <2>1. QED
    BY <1>4, <1>5, Induction
<1>7. Reaches(L, g[0], f[n], g[n])
  BY <1>6
<1>8. QED
  BY <1>3, <1>7

\* The links that are for a column, and what holds one: F gives, for each
\* column, the statement that holds it last.
IsModifier(call) ==
  \/ call.name \in {"not_null", "unique", "primary_key"} /\ NoArgs(call)
  \/ call.name \in {"default", "default_now", "references", "on_delete", "on_update"}

Holder(F, L) ==
  \A column \in Columns(L), call \in Spoken(L) :
    IsModifier(call) /\ Modified(column, call) \in Columns(L) =>
      Linked(F[column], call) = F[Modified(column, call)]

\* A modifier leads from what holds a column to what holds the modified one.
LEMMA HolderLinks ==
  ASSUME NEW L, NEW F, Holder(F, L), NEW column \in Columns(L), NEW call \in Spoken(L),
         IsModifier(call), NEW more \in Columns(L), Modified(column, call) = more
  PROVE  Linked(F[column], call) = F[more]
  BY DEF Holder

\* A modifier of the last column leads from holding it to holding it modified.
LEMMA ReachesModified ==
  ASSUME NEW L, NEW F, Holder(F, L), NEW column \in Columns(L), NEW call \in Spoken(L), call.link,
         IsModifier(call), NEW more \in Columns(L), Modified(column, call) = more
  PROVE  Reaches(L, F[column], <<call>>, F[more])
  BY HolderLinks, ReachesOne

\* A column with other constraints.
Constrained(column, pk, nn, u, d, r) ==
  [name |-> column.name, ty |-> column.ty, not_null |-> nn, unique |-> u,
   primary_key |-> pk, default |-> d, references |-> r]

\* A column that is constrained anew is a column.
LEMMA ConstrainedIsColumn ==
  ASSUME NEW L, NEW column \in Columns(L), NEW pk \in BOOLEAN, NEW nn \in BOOLEAN,
         NEW u \in BOOLEAN, column.ty = "id" => nn, NEW d \in Optional(L \cup {Now}),
         NEW r \in Optional(References)
  PROVE  Constrained(column, pk, nn, u, d, r) \in Columns(L)
<1>1. column.name \in PlainNames /\ column.ty \in ColumnTypes
  BY DEF Columns, AnyColumns
<1>2. PICK c : c = Constrained(column, pk, nn, u, d, r)
  OBVIOUS
<1>3. c \in AnyColumns(L) /\ c.ty = column.ty /\ c.not_null = nn
  BY <1>1, <1>2 DEF Constrained, AnyColumns
<1>4. QED
  BY <1>2, <1>3 DEF Columns

\* A column is not a refusal.
LEMMA ColumnStands == \A L : Refused \notin Columns(L)
<1> SUFFICES ASSUME NEW L, Refused \in Columns(L) PROVE FALSE
  OBVIOUS
<1>1. "name" \in DOMAIN Refused
  BY DEF Columns, AnyColumns
<1>2. DOMAIN Refused = {"kind"}
  BY DEF Refused
<1>3. QED
  BY <1>1, <1>2

\* A function of one index, or of none, as a sequence.
LEMMA OneEntry ==
  ASSUME NEW f, f = [i \in 1..1 |-> f[i]]
  PROVE  f = <<f[1]>>
OBVIOUS

\* What is tabled of nothing is nothing.
LEMMA NoEntry ==
  ASSUME NEW f, f = [i \in 1..0 |-> f[i]]
  PROVE  f = <<>>
OBVIOUS

\* A single part is flattened to itself.
LEMMA FlatteningOne ==
  ASSUME NEW T, NEW p \in Seq(T)
  PROVE  FlattenSeq(<<p>>) = p
<1> DEFINE s == [i \in 1..1 |-> p]
<1>1. s \in [1..1 -> Seq(T)] /\ s[1] = p /\ 1 \in Nat
  OBVIOUS
<1>2. s = <<p>>
  OBVIOUS
<1> HIDE DEF s
<1>3. s \in Seq(Seq(T)) /\ Len(s) = 1
  BY <1>1, Tabled
<1>4. PICK f : Joins(f, s, T) /\ f[Len(s)] = FlattenSeq(s)
  BY <1>3, Flattening
<1>5. f[0] = <<>> /\ f[0 + 1] = f[0] \o s[0 + 1] /\ 0 + 1 = 1
  <2>1. f[0] = <<>> /\ \A k \in 0..1 - 1 : f[k + 1] = f[k] \o s[k + 1]
    BY <1>3, <1>4 DEF Joins
  <2>2. PICK k \in 0..1 - 1 : k = 0
    OBVIOUS
  <2>3. f[k + 1] = f[k] \o s[k + 1]
    BY <2>1
  <2>4. QED
    BY <2>1, <2>2, <2>3
<1>6. f[1] = <<>> \o p
  BY <1>1, <1>5
<1>7. <<>> \o p = p
  OBVIOUS
<1>8. QED
  BY <1>2, <1>3, <1>4, <1>6, <1>7

\* The one entry of a sequence is read and replaced.
LEMMA ExceptOne == \A q, u : <<q>>[1] = q /\ [<<q>> EXCEPT ![1] = u] = <<u>>
  OBVIOUS

\* Of no part, nothing is flattened.
LEMMA FlatteningNone == FlattenSeq(<<>>) = <<>>
<1>1. <<>> \in Seq(Seq({})) /\ Len(<<>>) = 0
  OBVIOUS
<1>2. PICK f : Joins(f, <<>>, {}) /\ f[Len(<<>>)] = FlattenSeq(<<>>)
  BY <1>1, Flattening
<1>3. QED
  BY <1>1, <1>2 DEF Joins

\* A flag is set by the call of its name.
LEMMA ReachesFlag ==
  ASSUME NEW L, NEW s, NEW t, NEW name \in Vocabulary, NEW set \in BOOLEAN,
         ~set => t = s, set => Linked(s, Call(TRUE, name, <<>>)) = t
  PROVE  Reaches(L, s, Flag(name, set), t)
<1>1. CASE ~set
  BY <1>1, ReachesNowhere DEF Flag
<1>2. CASE set
  <2>1. PICK call : call = Call(TRUE, name, <<>>)
    OBVIOUS
  <2>2. call \in Spoken(L) /\ call.link
    BY <2>1, BareSpells
  <2>3. Reaches(L, s, <<call>>, t)
    BY <1>2, <2>1, <2>2, ReachesOne
  <2>4. Flag(name, set) = <<call>>
    BY <1>2, <2>1 DEF Flag
  <2>5. QED
    BY <2>3, <2>4
<1>3. QED
  BY <1>1, <1>2

\* No literal prints with an exponent.
PrintsPlain(L) == \A literal \in L : ~IsScientific(literal)

\* A default that prints as it is written is given by its call.
LEMMA ReachesDefault ==
  ASSUME NEW L, PrintsPlain(L), NEW F, Holder(F, L), NEW column \in Columns(L), NEW more \in Columns(L),
         NEW default \in Optional(L \cup {Now}),
         more = [column EXCEPT !.default = default], column.default = <<>>
  PROVE  Reaches(L, F[column], DefaultCalls(default), F[more])
<1>1. CASE default = <<>>
  <2>1. DefaultCalls(default) = <<>>
    <3>1. DOMAIN default = 1..0
      BY <1>1
    <3>2. PICK f : f = DefaultCalls(default)
      OBVIOUS
    <3>3. f = [i \in 1..0 |-> f[i]]
      BY <3>1, <3>2 DEF DefaultCalls
    <3>4. QED
      BY <3>2, <3>3, NoEntry
  <2>2. more = column
    BY <1>1 DEF Columns, AnyColumns
  <2>3. QED
    BY <2>1, <2>2, ReachesNowhere
<1>2. ASSUME NEW x \in L \cup {Now}, default = <<x>>
      PROVE  Reaches(L, F[column], DefaultCalls(default), F[more])
  <2> DEFINE call == IF x = Now THEN Call(TRUE, "default_now", <<>>)
                     ELSE Call(TRUE, "default", <<x>>)
  <2>0. x # Now => Printed(x) = x
    BY DEF PrintsPlain, Printed
  <2>1. DefaultCalls(default) = <<call>>
    <3>1. DOMAIN default = 1..1 /\ 1 \in 1..1 /\ default[1] = x
      BY <1>2
    <3>2. PICK f : f = DefaultCalls(default)
      OBVIOUS
    <3>3. f = [i \in 1..1 |-> f[i]] /\ f[1] = call
      BY <2>0, <3>1, <3>2 DEF DefaultCalls
    <3>4. QED
      BY <3>2, <3>3, OneEntry
  <2>2. call \in Spoken(L) /\ call.link /\ IsModifier(call) /\ Modified(column, call) = more
    <3>1. CASE x = Now
      <4>1. call = Call(TRUE, "default_now", <<>>)
        BY <3>1
      <4>2. call \in Spoken(L) /\ call.link /\ call.name = "default_now" /\ NoArgs(call)
        <5>1. PICK name \in Vocabulary : name = "default_now"
          BY DEF Vocabulary
        <5>2. QED
          BY <4>1, <5>1, BareSpells
      <4> HIDE DEF call
      <4>3. Modified(column, call) = [column EXCEPT !.default = <<Now>>]
        BY <4>2 DEF Modified
      <4>4. QED
        BY <1>2, <3>1, <4>2, <4>3 DEF IsModifier
    <3>2. CASE x # Now
      <4>1. call = [link |-> TRUE, name |-> "default", args |-> <<x>>] /\ x \in L
        BY <1>2, <3>2 DEF Call
      <4>2. PICK args : args = <<x>>
        OBVIOUS
      <4>3. args \in Seq(L \cup {Str(<<name>>) : name \in PlainNames}) /\ Len(args) = 1
        BY <4>1, <4>2
      <4>4. PICK name \in Vocabulary : name = "default"
        BY DEF Vocabulary
      <4>5. call = [link |-> TRUE, name |-> name, args |-> args]
        BY <4>1, <4>2, <4>4
      <4> HIDE DEF call
      <4>6. call \in Spoken(L)
        BY <4>3, <4>5 DEF Spoken
      <4>7. call.link /\ call.name = "default" /\ call.args = args
        BY <4>4, <4>5
      <4> HIDE DEF call
      <4>8. Modified(column, call) = [column EXCEPT !.default = args]
        BY <4>3, <4>7 DEF Modified
      <4>9. QED
        BY <1>2, <4>2, <4>6, <4>7, <4>8 DEF IsModifier
    <3>3. QED
      BY <3>1, <3>2
  <2> HIDE DEF call
  <2>3. QED
    BY <2>1, <2>2, ReachesModified
<1>3. QED
  BY <1>1, <1>2 DEF Optional

\* What a referential action makes of a column with a reference.
LEMMA ActionModifies ==
  ASSUME NEW column, NEW q, column.references = <<q>>, NEW call, NEW a \in RefActions,
         call.name \in {"on_delete", "on_update"}, Len(call.args) = 1,
         call.args[1] = Str(<<a>>)
  PROVE  Modified(column, call) = [column EXCEPT !.references = <<[q EXCEPT ![call.name] = <<a>>]>>]
<1>1. call.args[1].kind = "str" /\ call.args[1].value = <<a>>
  BY DEF Str, Token
<1>2. RefAction(<<a>>) = <<a>>
  <2>1. PICK text : text = <<a>>
    OBVIOUS
  <2>2. Len(text) = 1 /\ text[1] = a
    BY <2>1
  <2>3. /\ "CASCADE" \notin RefActions /\ "set" \notin RefActions
        /\ "SET" \notin RefActions
    BY DEF RefActions
  <2>4. <<"CASCADE">>[1] = "CASCADE" /\ <<"set", " ", "null">>[1] = "set"
        /\ <<"SET", "-", "NULL">>[1] = "SET"
    OBVIOUS
  <2>5. text # <<"CASCADE">> /\ text # <<"set", " ", "null">> /\ text # <<"SET", "-", "NULL">>
    BY <2>2, <2>3, <2>4
  <2>6. RefAction(text) = <<text[1]>>
    BY <2>2, <2>5 DEF RefAction
  <2>7. QED
    BY <2>1, <2>2, <2>6
<1>3. Modified(column, call) = [column EXCEPT !.references[1][call.name] = <<a>>]
  <2>1. column.references # <<>> /\ RefAction(call.args[1].value) = <<a>> /\ <<a>> # <<>>
    BY <1>1, <1>2
  <2>2. QED
    BY <1>1, <2>1 DEF Modified
<1>4. PICK u : u = [q EXCEPT ![call.name] = <<a>>]
  OBVIOUS
<1>5. PICK s : s = column.references
  OBVIOUS
<1>6. s[1] = q /\ [s EXCEPT ![1] = u] = <<u>>
  <2>1. s = <<q>>
    BY <1>5
  <2>2. <<q>>[1] = q /\ [<<q>> EXCEPT ![1] = u] = <<u>>
    BY ExceptOne
  <2>3. QED
    BY <2>1, <2>2
<1>7. Modified(column, call) =
        [column EXCEPT !.references = [s EXCEPT ![1] = [s[1] EXCEPT ![call.name] = <<a>>]]]
  BY <1>3, <1>5
<1>8. QED
  BY <1>4, <1>6, <1>7

\* A referential action is given by its call: q is the reference before it, u
\* the one after it.
Acted(q, name, some, u) ==
  /\ q \in References /\ u \in References
  /\ name \in {"on_delete", "on_update"}
  /\ some \in Optional(RefActions)
  /\ q[name] = <<>> /\ u = [q EXCEPT ![name] = some]

\* The canonical call of a referential action, where there is one, sets it.
LEMMA ReachesAction ==
  ASSUME NEW L, NEW F, Holder(F, L), NEW column \in Columns(L), NEW q,
         column.references = <<q>>, NEW name, NEW some, NEW u, Acted(q, name, some, u),
         NEW more \in Columns(L), more = [column EXCEPT !.references = <<u>>]
  PROVE  Reaches(L, F[column], Option(name, some), F[more])
<1>1. CASE some = <<>>
  <2>1. Option(name, some) = <<>>
    <3>1. DOMAIN some = 1..0
      BY <1>1
    <3>2. PICK f : f = Option(name, some)
      OBVIOUS
    <3>3. f = [i \in 1..0 |-> f[i]]
      BY <3>1, <3>2 DEF Option
    <3>4. QED
      BY <3>2, <3>3, NoEntry
  <2>2. u = q
    BY <1>1 DEF References, Acted
  <2>3. more = column
    BY <2>2 DEF Columns, AnyColumns
  <2>4. QED
    BY <2>1, <2>3, ReachesNowhere
<1>2. ASSUME NEW a \in RefActions, some = <<a>>
      PROVE  Reaches(L, F[column], Option(name, some), F[more])
  <2>1. a \in PlainNames /\ name \in Vocabulary
    <3>1. RefActions \subseteq Vocabulary /\ {"on_delete", "on_update"} \subseteq Vocabulary
      BY DEF Vocabulary
    <3>2. name \in {"on_delete", "on_update"}
      BY DEF Acted
    <3>3. QED
      BY <3>1, <3>2, OwnNamesArePlain
  <2>2. PICK call : call = Named(name, <<a>>)
    OBVIOUS
  <2>3. Option(name, some) = <<call>>
    <3>1. DOMAIN some = 1..1 /\ 1 \in 1..1 /\ some[1] = a
      BY <1>2
    <3>2. PICK f : f = Option(name, some)
      OBVIOUS
    <3>3. f = [i \in 1..1 |-> f[i]] /\ f[1] = call
      BY <2>2, <3>1, <3>2 DEF Option
    <3>4. QED
      BY <3>2, <3>3, OneEntry
  <2>4. SpellsName(call, L, name, a)
    BY <2>1, <2>2, SpellsOne
  <2>5. /\ call \in Spoken(L) /\ call.link /\ call.name = name
        /\ Len(call.args) = 1 /\ call.args[1] = Str(<<a>>)
    BY <2>4 DEF SpellsName
  <2>6. call.name \in {"on_delete", "on_update"}
    BY <2>5 DEF Acted
  <2>7. Modified(column, call) = [column EXCEPT !.references = <<[q EXCEPT ![call.name] = <<a>>]>>]
    BY <2>5, <2>6, ActionModifies
  <2>8. Modified(column, call) = more
    BY <1>2, <2>5, <2>7 DEF Acted
  <2>9. IsModifier(call)
    BY <2>6 DEF IsModifier
  <2>10. QED
    BY <2>3, <2>5, <2>8, <2>9, ReachesModified
<1>3. some \in Optional(RefActions)
  BY DEF Acted
<1>4. QED
  BY <1>1, <1>2, <1>3 DEF Optional

\* A reference is given by its call and those of its actions.
LEMMA ReachesReferences ==
  ASSUME NEW L, NEW F, Holder(F, L), NEW column \in Columns(L), NEW more \in Columns(L),
         NEW references \in Optional(References), column.references = <<>>,
         more = [column EXCEPT !.references = references]
  PROVE  Reaches(L, F[column], ReferenceCalls(references), F[more])
<1>1. CASE references = <<>>
  <2>1. ReferenceCalls(references) = <<>>
    <3> DEFINE f == [i \in DOMAIN references |->
                      <<Named("references", <<references[i].table, references[i].column>>)>>
                        \o Option("on_delete", references[i].on_delete)
                        \o Option("on_update", references[i].on_update)]
    <3>1. f = [i \in 1..0 |-> f[i]]
      BY <1>1
    <3>2. ReferenceCalls(references) = FlattenSeq(f)
      BY DEF ReferenceCalls
    <3> HIDE DEF f
    <3>3. QED
      BY <3>1, <3>2, NoEntry, FlatteningNone
  <2>2. more = column
    BY <1>1 DEF Columns, AnyColumns
  <2>3. QED
    BY <2>1, <2>2, ReachesNowhere
<1>2. ASSUME NEW r \in References, references = <<r>>
      PROVE  Reaches(L, F[column], ReferenceCalls(references), F[more])
  <2> DEFINE all == <<Named("references", <<r.table, r.column>>)>>
                      \o Option("on_delete", r.on_delete) \o Option("on_update", r.on_update)
  <2>1. PICK q, p : /\ q = [table |-> r.table, column |-> r.column,
                            on_delete |-> <<>>, on_update |-> <<>>]
                    /\ p = [table |-> r.table, column |-> r.column,
                            on_delete |-> r.on_delete, on_update |-> <<>>]
    OBVIOUS
  <2>2. q \in References /\ p \in References /\ q.on_delete = <<>> /\ p.on_update = <<>>
        /\ p = [q EXCEPT !.on_delete = r.on_delete]
        /\ r = [p EXCEPT !.on_update = r.on_update]
        /\ r.on_delete \in Optional(RefActions) /\ r.on_update \in Optional(RefActions)
        /\ r.table \in PlainNames /\ r.column \in PlainNames
    <3>1. r.on_delete \in Optional(RefActions) /\ r.on_update \in Optional(RefActions)
          /\ r.table \in PlainNames /\ r.column \in PlainNames /\ <<>> \in Optional(RefActions)
          /\ r = [table |-> r.table, column |-> r.column,
                  on_delete |-> r.on_delete, on_update |-> r.on_update]
      BY DEF References, Optional
    <3>2. q \in References /\ p \in References
      BY <2>1, <3>1 DEF References
    <3>3. QED
      BY <2>1, <3>1, <3>2
  <2>3. PICK c, d : /\ c = [column EXCEPT !.references = <<q>>]
                    /\ d = [column EXCEPT !.references = <<p>>]
    OBVIOUS
  <2>4. \A t \in References : /\ [column EXCEPT !.references = <<t>>] \in Columns(L)
                              /\ [column EXCEPT !.references = <<t>>].references = <<t>>
    BY DEF Columns, AnyColumns, Optional
  <2>5. \A x, y : [[column EXCEPT !.references = x] EXCEPT !.references = y] =
                    [column EXCEPT !.references = y]
    BY DEF Columns, AnyColumns
  <2>6. c \in Columns(L) /\ c.references = <<q>> /\ d \in Columns(L) /\ d.references = <<p>>
        /\ d = [c EXCEPT !.references = <<p>>] /\ more = [d EXCEPT !.references = <<r>>]
    BY <1>2, <2>2, <2>3, <2>4, <2>5
  <2>7. PICK call : call = Named("references", <<r.table, r.column>>)
    OBVIOUS
  <2>10. /\ call \in Spoken(L) /\ call.link /\ call.name = "references" /\ ExactIdents(call, 2)
         /\ NameIn(call, 1) = r.table /\ NameIn(call, 2) = r.column
    <3>1. PICK name \in Vocabulary : name = "references"
      BY DEF Vocabulary
    <3>2. PICK a, b \in PlainNames : a = r.table /\ b = r.column
      BY <2>2
    <3>3. call = Named(name, <<a, b>>)
      BY <2>7, <3>1, <3>2
    <3>4. QED
      BY <3>1, <3>2, <3>3, SpellsTwo, SMTT(30)
  <2>11. Modified(column, call) = c
    <3>1. Modified(column, call) = [column EXCEPT !.references =
            <<[table |-> NameIn(call, 1), column |-> NameIn(call, 2),
               on_delete |-> <<>>, on_update |-> <<>>]>>]
      BY <2>10 DEF Modified
    <3>2. QED
      BY <2>1, <2>3, <2>10, <3>1
  <2>12. Reaches(L, F[column], <<call>>, F[c])
    <3>1. IsModifier(call)
      BY <2>10 DEF IsModifier
    <3>2. QED
      BY <2>6, <2>10, <2>11, <3>1, ReachesModified
  <2>13. Reaches(L, F[c], Option("on_delete", r.on_delete), F[d])
    <3>1. Acted(q, "on_delete", r.on_delete, p)
      BY <2>2 DEF Acted
    <3>2. QED
      BY <2>6, <3>1, ReachesAction
  <2>14. Reaches(L, F[d], Option("on_update", r.on_update), F[more])
    <3>1. Acted(p, "on_update", r.on_update, r)
      BY <2>2 DEF Acted
    <3>2. QED
      BY <2>6, <3>1, ReachesAction, ZenonT(30)
  <2>15. Reaches(L, F[column], all, F[more])
    BY <2>7, <2>12, <2>13, <2>14, ReachesOn
  <2>16. ReferenceCalls(references) = all
    <3> DEFINE f == [i \in DOMAIN references |->
                      <<Named("references", <<references[i].table, references[i].column>>)>>
                        \o Option("on_delete", references[i].on_delete)
                        \o Option("on_update", references[i].on_update)]
    <3>1. DOMAIN references = 1..1 /\ references[1] = r /\ 1 \in 1..1
      BY <1>2
    <3>2. f = [i \in 1..1 |-> f[i]] /\ f[1] = all
      BY <3>1
    <3>3. ReferenceCalls(references) = FlattenSeq(f)
      BY DEF ReferenceCalls
    <3> HIDE DEF f, all
    <3>4. all \in Seq(Spoken(L))
      BY <2>15 DEF Reaches
    <3>5. QED
      BY <3>2, <3>3, <3>4, OneEntry, FlatteningOne
  <2> HIDE DEF all
  <2>17. QED
    BY <2>15, <2>16
<1>3. QED
  BY <1>1, <1>2 DEF Optional

\* A flag of a column is set by the call of its name.
LEMMA ReachesColumnFlag ==
  ASSUME NEW L, NEW F, Holder(F, L), NEW column \in Columns(L), NEW more \in Columns(L),
         NEW name \in {"not_null", "unique", "primary_key"}, NEW set \in BOOLEAN,
         ~set => more = column, more = [column EXCEPT ![name] = set]
  PROVE  Reaches(L, F[column], Flag(name, set), F[more])
<1>1. name \in Vocabulary
  BY DEF Vocabulary
<1>2. PICK call : call = Call(TRUE, name, <<>>)
  OBVIOUS
<1>3. call \in Spoken(L) /\ call.link /\ call.name = name /\ NoArgs(call)
  BY <1>1, <1>2, BareSpells
<1>4. Modified(column, call) = [column EXCEPT ![name] = TRUE]
  BY <1>3 DEF Modified
<1>4a. IsModifier(call)
  BY <1>3 DEF IsModifier
<1>5. set => Linked(F[column], call) = F[more]
  <2> SUFFICES ASSUME set PROVE Linked(F[column], call) = F[more]
    OBVIOUS
  <2>1. set = TRUE
    OBVIOUS
  <2>2. Modified(column, call) = more
    BY <1>4, <2>1
  <2>3. call \in Spoken(L)
    BY <1>3
  <2>4. PICK other \in Columns(L) : other = more /\ other = Modified(column, call)
    BY <2>2
  <2>5. Linked(F[column], call) = F[other]
    BY <1>4a, <2>3, <2>4 DEF Holder
  <2>6. QED
    BY <2>4, <2>5
<1>6. ~set => F[more] = F[column]
  OBVIOUS
<1>7. QED
  BY <1>1, <1>2, <1>5, <1>6, ReachesFlag

\* The canonical calls of a column lead to what holds it.
LEMMA ReachesColumn ==
  ASSUME NEW L, PrintsPlain(L), NEW F, Holder(F, L), NEW column \in Columns(L), NEW s, NEW declare,
         Reaches(L, s, <<Named(declare, <<column.name>>)>>, F[NewColumn(column.name, column.ty)])
  PROVE  Reaches(L, s, ColumnCalls(column, declare), F[column])
<1>0. PICK no, nn, none, pk, nt, un, df, rf :
        /\ no = FALSE /\ nn = (column.ty = "id") /\ none = <<>>
        /\ pk = column.primary_key /\ nt = column.not_null /\ un = column.unique
        /\ df = column.default /\ rf = column.references
  OBVIOUS
<1> DEFINE C0 == Constrained(column, no, nn, no, none, none)
           C1 == Constrained(column, pk, nn, no, none, none)
           C2 == Constrained(column, pk, nt, no, none, none)
           C3 == Constrained(column, pk, nt, un, none, none)
           C4 == Constrained(column, pk, nt, un, df, none)
<1>1. /\ pk \in BOOLEAN /\ nt \in BOOLEAN /\ un \in BOOLEAN
      /\ df \in Optional(L \cup {Now}) /\ rf \in Optional(References)
      /\ column = Constrained(column, pk, nt, un, df, rf)
      /\ column.ty = "id" => nt
  BY <1>0 DEF Columns, AnyColumns, Constrained
<1>1a. /\ no \in BOOLEAN /\ nn \in BOOLEAN /\ (column.ty = "id" => nn)
       /\ none \in Optional(L \cup {Now}) /\ none \in Optional(References)
  BY <1>0 DEF Optional
<1>2. C0 = NewColumn(column.name, column.ty)
  BY <1>0 DEF Constrained, NewColumn
<1>3. C0 \in Columns(L) /\ C1 \in Columns(L)
  BY <1>1, <1>1a, ConstrainedIsColumn
<1>4. C2 \in Columns(L) /\ C3 \in Columns(L) /\ C4 \in Columns(L)
  BY <1>1, <1>1a, ConstrainedIsColumn
<1>5. /\ ~pk => C1 = C0
      /\ C1 = [C0 EXCEPT !["primary_key"] = pk]
  <2>1. C1 = [C0 EXCEPT !["primary_key"] = pk]
    BY DEF Constrained
  <2>2. ~pk => pk = no
    BY <1>0, <1>1
  <2>3. pk = no => C1 = C0
    OBVIOUS
  <2> HIDE DEF C0, C1
  <2>4. QED
    BY <2>1, <2>2, <2>3
<1>6. /\ ~nt => C2 = C1
      /\ C2 = [C1 EXCEPT !["not_null"] = nt]
  <2>1. C2 = [C1 EXCEPT !["not_null"] = nt]
    BY DEF Constrained
  <2>2. ~nt => nt = no /\ nn = no
    BY <1>0, <1>1
  <2>3. nt = no /\ nn = no => C2 = C1
    OBVIOUS
  <2> HIDE DEF C1, C2
  <2>4. QED
    BY <2>1, <2>2, <2>3
<1>7. /\ ~un => C3 = C2
      /\ C3 = [C2 EXCEPT !["unique"] = un]
  <2>1. C3 = [C2 EXCEPT !["unique"] = un]
    BY DEF Constrained
  <2>2. ~un => un = no
    BY <1>0, <1>1
  <2>3. un = no => C3 = C2
    OBVIOUS
  <2> HIDE DEF C2, C3
  <2>4. QED
    BY <2>1, <2>2, <2>3
<1>8. C4 = [C3 EXCEPT !.default = df] /\ C3.default = <<>>
  BY <1>0 DEF Constrained
<1>9. column = [C4 EXCEPT !.references = rf] /\ C4.references = <<>>
  BY <1>0, <1>1 DEF Constrained
<1> HIDE DEF C0, C1, C2, C3, C4
<1>10. Reaches(L, F[C0], Flag("primary_key", pk), F[C1])
  BY <1>0, <1>1, <1>3, <1>5, ReachesColumnFlag
<1>11. Reaches(L, F[C1], Flag("not_null", nt), F[C2])
  BY <1>1, <1>3, <1>4, <1>6, ReachesColumnFlag
<1>12. Reaches(L, F[C2], Flag("unique", un), F[C3])
  BY <1>1, <1>4, <1>7, ReachesColumnFlag
<1>13. Reaches(L, F[C3], DefaultCalls(df), F[C4])
  BY <1>1, <1>4, <1>8, ReachesDefault
<1>14. Reaches(L, F[C4], ReferenceCalls(rf), F[column])
  BY <1>1, <1>4, <1>9, ReachesReferences
<1>15. PICK a, b, c, d, e, f :
         /\ a = <<Named(declare, <<column.name>>)>>
         /\ b = Flag("primary_key", pk)
         /\ c = Flag("not_null", nt) /\ d = Flag("unique", un)
         /\ e = DefaultCalls(df) /\ f = ReferenceCalls(rf)
  OBVIOUS
<1>16. Reaches(L, s, a, F[C0]) /\ Reaches(L, F[C0], b, F[C1])
  BY <1>2, <1>10, <1>15
<1>17. Reaches(L, s, a \o b, F[C1])
  BY <1>16, ReachesOn
<1>18. Reaches(L, s, a \o b \o c, F[C2])
  BY <1>11, <1>15, <1>17, ReachesOn
<1>19. Reaches(L, s, a \o b \o c \o d, F[C3])
  BY <1>12, <1>15, <1>18, ReachesOn
<1>20. Reaches(L, s, a \o b \o c \o d \o e, F[C4])
  BY <1>13, <1>15, <1>19, ReachesOn
<1>21. Reaches(L, s, a \o b \o c \o d \o e \o f, F[column])
  BY <1>14, <1>15, <1>20, ReachesOn
<1>22. ColumnCalls(column, declare) = a \o b \o c \o d \o e \o f
  BY <1>0, <1>15 DEF ColumnCalls
<1>23. QED
  BY <1>21, <1>22

\* The last of a sequence is replaced.
LEMMA LastReplaced ==
  ASSUME NEW S, NEW s \in Seq(S), NEW x \in S, NEW y \in S
  PROVE  /\ Append(s, x) \in Seq(S) /\ Len(Append(s, x)) = Len(s) + 1 /\ Len(s) + 1 > 0
         /\ Append(s, x)[Len(s) + 1] = x
         /\ [Append(s, x) EXCEPT ![Len(s) + 1] = y] = Append(s, y)
<1>1. PICK n \in Nat : n = Len(s)
  OBVIOUS
<1>2. PICK t : t = Append(s, x)
  OBVIOUS
<1>3. t \in Seq(S) /\ Len(t) = n + 1 /\ n + 1 > 0 /\ t[n + 1] = x
      /\ \A i \in 1..n : t[i] = s[i]
  BY <1>1, <1>2
<1>4. PICK u : u = [t EXCEPT ![n + 1] = y]
  OBVIOUS
<1>5. n + 1 \in 1..Len(t)
  BY <1>3
<1>6. u \in Seq(S) /\ Len(u) = n + 1 /\ u[n + 1] = y /\ \A i \in 1..n : u[i] = s[i]
  <2>1. u \in Seq(S) /\ Len(u) = n + 1
    BY <1>3, <1>4, <1>5, ExceptSeq
  <2>2. DOMAIN t = 1..n + 1
    BY <1>3
  <2>3. QED
    BY <1>3, <1>4, <2>1, <2>2
<1>7. PICK v : v = Append(s, y)
  OBVIOUS
<1>8. v \in Seq(S) /\ Len(v) = n + 1 /\ v[n + 1] = y /\ \A i \in 1..n : v[i] = s[i]
  BY <1>1, <1>7
<1>9. u = v
  <2>1. \A i \in 1..n + 1 : i \in 1..n \/ i = n + 1
    OBVIOUS
  <2>2. \A i \in 1..n + 1 : u[i] = v[i]
    BY <1>6, <1>8, <2>1
  <2>3. QED
    BY <1>6, <1>8, <2>2
<1>10. QED
  BY <1>1, <1>2, <1>3, <1>4, <1>7, <1>9

\* A table holds its last column.
LEMMA TableHolder ==
  ASSUME NEW L, NEW table \in Tables(L), NEW columns \in Seq(Columns(L)), NEW F,
         F = [column \in Columns(L) |-> [table EXCEPT !.columns = Append(columns, column)]]
  PROVE  Holder(F, L)
<1> SUFFICES ASSUME NEW column \in Columns(L), NEW call \in Spoken(L), IsModifier(call),
                    Modified(column, call) \in Columns(L)
             PROVE  Linked(F[column], call) = F[Modified(column, call)]
  BY DEF Holder
<1>1. PICK more \in Columns(L) : more = Modified(column, call)
  OBVIOUS
<1>2. PICK n, cs : n = Len(columns) + 1 /\ cs = Append(columns, column)
  OBVIOUS
<1>3. Len(cs) = n /\ n > 0 /\ cs[n] = column /\ [cs EXCEPT ![n] = more] = Append(columns, more)
  BY <1>2, LastReplaced
<1>4. PICK t : t = [table EXCEPT !.columns = cs]
  OBVIOUS
<1>5. t.kind = "create_table" /\ t.columns = cs /\ \A x : [t EXCEPT !.columns = x] = [table EXCEPT !.columns = x]
  BY <1>4 DEF Tables
<1>6. F[column] = t /\ F[more] = [table EXCEPT !.columns = Append(columns, more)]
  BY <1>2, <1>4
<1>7. TableLink(t, call) = [t EXCEPT !.columns[n] = Modified(@, call)]
  <2>1. /\ ~(call.name \in ColumnTypes /\ Declares(call, call.name))
        /\ ~(call.name = "timestamps" /\ NoArgs(call))
        /\ ~(call.name = "if_not_exists" /\ NoArgs(call))
        /\ ~(call.name = "primary_key" /\ ManyIdents(call) /\ t.primary_key = <<>>)
        /\ ~(call.name = "unique" /\ ManyIdents(call))
    BY DEF IsModifier, ColumnTypes, ManyIdents
  <2>2. more # Refused
    BY ColumnStands
  <2>3. Len(t.columns) = n /\ n > 0 /\ Modified(t.columns[n], call) # Refused
    BY <1>1, <1>3, <1>5, <2>2
  <2>4. QED
    BY <2>1, <2>3 DEF TableLink
<1>8. TableLink(t, call) = [t EXCEPT !.columns = [cs EXCEPT ![n] = more]]
  BY <1>1, <1>3, <1>5, <1>7
<1>9. Linked(t, call) = TableLink(t, call)
  BY <1>5 DEF Linked
<1>10. QED
  BY <1>1, <1>3, <1>5, <1>6, <1>8, <1>9

\* An alter_table holds the column that its last action adds.
LEMMA AlterHolder ==
  ASSUME NEW L, NEW alter \in Alters(L), NEW actions \in Seq(Adds(L) \cup Moves), NEW F,
         F = [column \in Columns(L) |->
                [alter EXCEPT !.actions = Append(actions, [do |-> "add", column |-> column])]]
  PROVE  Holder(F, L)
<1> SUFFICES ASSUME NEW column \in Columns(L), NEW call \in Spoken(L), IsModifier(call),
                    Modified(column, call) \in Columns(L)
             PROVE  Linked(F[column], call) = F[Modified(column, call)]
  BY DEF Holder
<1>1. PICK more \in Columns(L) : more = Modified(column, call)
  OBVIOUS
<1>2. PICK add, added : /\ add = [do |-> "add", column |-> column]
                        /\ added = [do |-> "add", column |-> more]
  OBVIOUS
<1>3. PICK n, as : n = Len(actions) + 1 /\ as = Append(actions, add)
  OBVIOUS
<1>4. Len(as) = n /\ n > 0 /\ as[n] = add /\ [as EXCEPT ![n] = added] = Append(actions, added)
  <2>1. PICK S : S = (Adds(L) \cup Moves) \cup {add, added}
    OBVIOUS
  <2>2. actions \in Seq(S) /\ add \in S /\ added \in S
    <3>1. Adds(L) \cup Moves \subseteq S /\ add \in S /\ added \in S
      BY <2>1
    <3>2. QED
      BY <3>1, SeqMonotonic
  <2>3. QED
    BY <1>3, <2>2, LastReplaced
<1>5. PICK a : a = [alter EXCEPT !.actions = as]
  OBVIOUS
<1>6. a.kind = "alter_table" /\ a.actions = as
      /\ \A x : [a EXCEPT !.actions = x] = [alter EXCEPT !.actions = x]
  BY <1>5 DEF Alters
<1>7. F[column] = a /\ F[more] = [alter EXCEPT !.actions = Append(actions, added)]
  BY <1>2, <1>3, <1>5
<1>8. AlterLink(a, call) = [a EXCEPT !.actions[n].column = Modified(@, call)]
  <2>1. /\ ~\E ty \in DOMAIN AddOf : call.name = AddOf[ty] /\ Declares(call, ty)
        /\ ~(call.name \in {"drop_column", "rename_to"} /\ ExactIdents(call, 1))
        /\ ~(call.name = "rename_column" /\ ExactIdents(call, 2))
    BY DEF IsModifier, AddOf
  <2>2. more # Refused
    BY ColumnStands
  <2>3. add.do = "add" /\ add.column = column
    BY <1>2
  <2>4. /\ Len(a.actions) = n /\ n > 0 /\ a.actions[n].do = "add"
        /\ Modified(a.actions[n].column, call) # Refused
    BY <1>1, <1>4, <1>6, <2>2, <2>3
  <2>5. QED
    BY <2>1, <2>4 DEF AlterLink
<1>9. AlterLink(a, call) = [a EXCEPT !.actions = [as EXCEPT ![n] = added]]
  <2>1. [add EXCEPT !.column = Modified(add.column, call)] = added
    BY <1>1, <1>2
  <2>2. AlterLink(a, call) =
          [a EXCEPT !.actions =
             [a.actions EXCEPT ![n] = [a.actions[n] EXCEPT !.column = Modified(a.actions[n].column, call)]]]
    BY <1>8
  <2>3. QED
    BY <1>4, <1>6, <2>1, <2>2
<1>10. Linked(a, call) = AlterLink(a, call)
  BY <1>6 DEF Linked
<1>11. QED
  BY <1>1, <1>4, <1>6, <1>7, <1>9, <1>10

\* The prefixes of a sequence.
LEMMA PrefixGrows ==
  ASSUME NEW S, NEW s \in Seq(S)
  PROVE  /\ SubSeq(s, 1, 0) = <<>> /\ SubSeq(s, 1, Len(s)) = s
         /\ \A k \in 1..Len(s) : /\ SubSeq(s, 1, k - 1) \in Seq(S)
                                 /\ s[k] \in S
                                 /\ SubSeq(s, 1, k) = Append(SubSeq(s, 1, k - 1), s[k])
<1>1. SubSeq(s, 1, 0) = <<>> /\ SubSeq(s, 1, Len(s)) = s
  OBVIOUS
<1>2. ASSUME NEW k \in 1..Len(s)
      PROVE  /\ SubSeq(s, 1, k - 1) \in Seq(S) /\ s[k] \in S
             /\ SubSeq(s, 1, k) = Append(SubSeq(s, 1, k - 1), s[k])
  <2>1. PICK a, b : a = SubSeq(s, 1, k - 1) /\ b = SubSeq(s, 1, k)
    OBVIOUS
  <2>2. a \in Seq(S) /\ Len(a) = k - 1 /\ \A i \in 1..k - 1 : a[i] = s[i]
    BY <2>1
  <2>3. b \in Seq(S) /\ Len(b) = k /\ \A i \in 1..k : b[i] = s[i]
    BY <2>1
  <2>4. s[k] \in S
    OBVIOUS
  <2>5. PICK c : c = Append(a, s[k])
    OBVIOUS
  <2>6. c \in Seq(S) /\ Len(c) = k /\ c[k] = s[k] /\ \A i \in 1..k - 1 : c[i] = s[i]
    BY <2>2, <2>4, <2>5
  <2>7. \A i \in 1..k : i \in 1..k - 1 \/ i = k
    OBVIOUS
  <2>8. b = c
    <3>1. \A i \in 1..k : b[i] = c[i]
      BY <2>3, <2>6, <2>7
    <3>2. QED
      BY <2>3, <2>6, <3>1
  <2>9. QED
    BY <2>1, <2>2, <2>4, <2>5, <2>8
<1>3. QED
  BY <1>1, <1>2

\* A call that declares a column.
LEMMA TableDeclares ==
  ASSUME NEW L, NEW table \in Tables(L), NEW ty \in ColumnTypes, NEW name \in PlainNames,
         NEW call, SpellsName(call, L, ty, name)
  PROVE  Linked(table, call) =
           [table EXCEPT !.columns = Append(table.columns, NewColumn(name, ty))]
<1>1. call.name = ty /\ ExactIdents(call, 1) /\ ~NoArgs(call) /\ NameIn(call, 1) = name
  BY DEF SpellsName
<1>2. Declares(call, ty) /\ Declared(call, ty) = NewColumn(name, ty)
  BY <1>1 DEF Declares, Declared
<1>3. TableLink(table, call) =
        [table EXCEPT !.columns = Append(table.columns, Declared(call, call.name))]
  <2>1. /\ ~(call.name = "timestamps" /\ NoArgs(call))
        /\ ~(call.name = "if_not_exists" /\ NoArgs(call))
        /\ ~(call.name = "primary_key" /\ ManyIdents(call) /\ table.primary_key = <<>>)
        /\ ~(call.name = "unique" /\ ManyIdents(call))
        /\ ~(Len(table.columns) > 0
             /\ Modified(table.columns[Len(table.columns)], call) # Refused)
    BY <1>1 DEF ColumnTypes, Modified
  <2>2. QED
    BY <1>1, <1>2, <2>1 DEF TableLink
<1>4. Linked(table, call) = TableLink(table, call)
  BY DEF Linked, Tables
<1>5. QED
  BY <1>1, <1>2, <1>3, <1>4

\* The columns of a table are built one by one.
LEMMA ReachesColumns ==
  ASSUME NEW L, PrintsPlain(L), NEW table \in Tables(L), NEW columns \in Seq(Columns(L)), table.columns = <<>>
  PROVE  Reaches(L, table,
                 FlattenSeq([i \in DOMAIN columns |-> ColumnCalls(columns[i], columns[i].ty)]),
                 [table EXCEPT !.columns = columns])
<1> DEFINE parts == [i \in DOMAIN columns |-> ColumnCalls(columns[i], columns[i].ty)]
           With(cs) == [table EXCEPT !.columns = cs]
<1>1. PICK n \in Nat : n = Len(columns) /\ DOMAIN columns = 1..n
  OBVIOUS
<1>2. PICK g : g = [k \in 0..n |-> With(SubSeq(columns, 1, k))]
  OBVIOUS
<1>3. \A k \in 0..n : g[k] = With(SubSeq(columns, 1, k))
  BY <1>2
<1>4. ASSUME NEW k \in 1..n
      PROVE  Reaches(L, g[k - 1], parts[k], g[k])
  <2>1. PICK before : before = SubSeq(columns, 1, k - 1)
    OBVIOUS
  <2>2. PICK column : column = columns[k]
    OBVIOUS
  <2>3. /\ before \in Seq(Columns(L)) /\ column \in Columns(L)
        /\ SubSeq(columns, 1, k) = Append(before, column)
    BY <1>1, <2>1, <2>2, PrefixGrows
  <2>4. k - 1 \in 0..n /\ k \in 0..n
    OBVIOUS
  <2>5. g[k - 1] = With(before) /\ g[k] = With(Append(before, column))
    BY <1>3, <2>1, <2>3, <2>4
  <2>6. PICK t : t = With(before)
    OBVIOUS
  <2>7. t \in Tables(L) /\ t.columns = before /\ \A cs : [t EXCEPT !.columns = cs] = With(cs)
    BY <2>3, <2>6 DEF Tables
  <2>8. PICK F : F = [c \in Columns(L) |-> [t EXCEPT !.columns = Append(before, c)]]
    OBVIOUS
  <2>9. Holder(F, L)
    BY <2>3, <2>7, <2>8, TableHolder
  <2>10. PICK name, ty : name = column.name /\ ty = column.ty
    OBVIOUS
  <2>11. name \in PlainNames /\ ty \in ColumnTypes
    BY <2>3, <2>10 DEF Columns, AnyColumns
  <2>12. PICK start : start = NewColumn(name, ty)
    OBVIOUS
  <2>13. start \in Columns(L)
    <3>1. <<>> \in Optional(L \cup {Now}) /\ <<>> \in Optional(References)
      BY DEF Optional
    <3>2. start \in AnyColumns(L) /\ start.not_null = (ty = "id") /\ start.ty = ty
      BY <2>11, <2>12, <3>1 DEF NewColumn, AnyColumns
    <3>3. QED
      BY <3>2 DEF Columns
  <2>14. PICK call : call = Named(ty, <<name>>)
    OBVIOUS
  <2>15. SpellsName(call, L, ty, name)
    <3>1. ty \in Vocabulary
      BY <2>11 DEF Vocabulary
    <3>2. QED
      BY <2>11, <2>14, <3>1, SpellsOne
  <2>16. Linked(t, call) = [t EXCEPT !.columns = Append(before, start)]
    BY <2>7, <2>11, <2>12, <2>15, TableDeclares
  <2>17. F[start] = [t EXCEPT !.columns = Append(before, start)]
    BY <2>8, <2>13
  <2>18. Reaches(L, t, <<call>>, F[start])
    BY <2>15, <2>16, <2>17, ReachesOne DEF SpellsName
  <2>19. Reaches(L, t, ColumnCalls(column, ty), F[column])
    BY <2>3, <2>9, <2>10, <2>12, <2>14, <2>18, ReachesColumn
  <2>20. F[column] = With(Append(before, column))
    BY <2>3, <2>7, <2>8
  <2>21. parts[k] = ColumnCalls(column, ty)
    BY <1>1, <2>2, <2>10
  <2> HIDE DEF parts, With
  <2>22. QED
    BY <2>5, <2>6, <2>19, <2>20, <2>21
<1>5. parts = [k \in 1..n |-> parts[k]]
  BY <1>1
<1>6. g[0] = table /\ g[n] = With(columns)
  <2>1. 0 \in 0..n /\ n \in 0..n
    OBVIOUS
  <2>2. SubSeq(columns, 1, 0) = <<>> /\ SubSeq(columns, 1, n) = columns
    BY <1>1, PrefixGrows
  <2>3. With(<<>>) = table
    BY DEF Tables
  <2>4. QED
    BY <1>3, <2>1, <2>2, <2>3
<1> HIDE DEF parts
<1>7. Reaches(L, g[0], FlattenSeq(parts), g[n])
  BY <1>4, <1>5, ReachesMany
<1>8. QED
  BY <1>6, <1>7 DEF parts

\* Calls that each make the next statement.
LEMMA ReachesEach ==
  ASSUME NEW L, NEW n \in Nat, NEW links, links = [k \in 1..n |-> links[k]], NEW g,
         \A k \in 1..n : /\ links[k] \in Spoken(L) /\ links[k].link
                         /\ Linked(g[k - 1], links[k]) = g[k]
  PROVE  Reaches(L, g[0], links, g[n])
<1>1. links \in [1..n -> Spoken(L)]
  OBVIOUS
<1>2. links \in Seq(Spoken(L)) /\ Len(links) = n
  BY <1>1, Tabled
<1>3. Follows(g, g[0], links, g[n])
  BY <1>2 DEF Follows
<1>4. QED
  BY <1>2, <1>3 DEF Reaches, Leads

\* The primary key of a table is given by its call.
LEMMA ReachesKey ==
  ASSUME NEW L, NEW table \in Tables(L), table.primary_key = <<>>, NEW key \in Seq(PlainNames)
  PROVE  Reaches(L, table, IF key = <<>> THEN <<>> ELSE <<Named("primary_key", key)>>,
                 [table EXCEPT !.primary_key = key])
<1>1. CASE key = <<>>
  <2>1. [table EXCEPT !.primary_key = key] = table
    BY <1>1 DEF Tables
  <2>2. QED
    BY <1>1, <2>1, ReachesNowhere
<1>2. CASE key # <<>>
  <2>1. PICK call : call = Named("primary_key", key)
    OBVIOUS
  <2>2. Spells(call, L, "primary_key", key)
    <3>1. PICK name \in Vocabulary : name = "primary_key"
      BY DEF Vocabulary
    <3>2. QED
      BY <2>1, <3>1, NamedSpells
  <2>3. /\ call \in Spoken(L) /\ call.link /\ call.name = "primary_key" /\ ManyIdents(call)
        /\ NamesIn(call) = key /\ ~NoArgs(call)
    BY <1>2, <2>2 DEF Spells, ManyIdents
  <2>4. TableLink(table, call) = [table EXCEPT !.primary_key = key]
    <3>1. /\ ~(call.name \in ColumnTypes /\ Declares(call, call.name))
          /\ ~(Len(table.columns) > 0
               /\ Modified(table.columns[Len(table.columns)], call) # Refused)
      BY <2>3 DEF ColumnTypes, Modified
    <3>2. QED
      BY <2>3, <3>1 DEF TableLink
  <2>5. Linked(table, call) = TableLink(table, call)
    BY DEF Linked, Tables
  <2>6. QED
    BY <1>2, <2>1, <2>3, <2>4, <2>5, ReachesOne
<1>3. QED
  BY <1>1, <1>2

\* The unique keys of a table are given one by one.
LEMMA ReachesUniques ==
  ASSUME NEW L, NEW table \in Tables(L), table.uniques = <<>>,
         NEW uniques \in Seq(Seq(PlainNames) \ {<<>>})
  PROVE  Reaches(L, table, [i \in DOMAIN uniques |-> Named("unique", uniques[i])],
                 [table EXCEPT !.uniques = uniques])
<1> DEFINE links == [i \in DOMAIN uniques |-> Named("unique", uniques[i])]
           With(us) == [table EXCEPT !.uniques = us]
<1>1. PICK n \in Nat : n = Len(uniques) /\ DOMAIN uniques = 1..n
  OBVIOUS
<1>2. PICK g : g = [k \in 0..n |-> With(SubSeq(uniques, 1, k))]
  OBVIOUS
<1>3. \A k \in 0..n : g[k] = With(SubSeq(uniques, 1, k))
  BY <1>2
<1>4. ASSUME NEW k \in 1..n
      PROVE  /\ links[k] \in Spoken(L) /\ links[k].link
             /\ Linked(g[k - 1], links[k]) = g[k]
  <2>1. PICK before, key : before = SubSeq(uniques, 1, k - 1) /\ key = uniques[k]
    OBVIOUS
  <2>2. /\ before \in Seq(Seq(PlainNames) \ {<<>>}) /\ key \in Seq(PlainNames) /\ key # <<>>
        /\ SubSeq(uniques, 1, k) = Append(before, key)
    BY <1>1, <2>1, PrefixGrows
  <2>3. k - 1 \in 0..n /\ k \in 0..n
    OBVIOUS
  <2>4. g[k - 1] = With(before) /\ g[k] = With(Append(before, key))
    BY <1>3, <2>1, <2>2, <2>3
  <2>5. PICK t : t = With(before)
    OBVIOUS
  <2>6. t \in Tables(L) /\ t.uniques = before /\ \A us : [t EXCEPT !.uniques = us] = With(us)
    BY <2>2, <2>5 DEF Tables
  <2>7. PICK call : call = Named("unique", key)
    OBVIOUS
  <2>8. Spells(call, L, "unique", key)
    <3>1. PICK name \in Vocabulary : name = "unique"
      BY DEF Vocabulary
    <3>2. QED
      BY <2>2, <2>7, <3>1, NamedSpells
  <2>9. /\ call \in Spoken(L) /\ call.link /\ call.name = "unique" /\ ManyIdents(call)
        /\ NamesIn(call) = key /\ ~NoArgs(call)
    BY <2>2, <2>8 DEF Spells, ManyIdents
  <2>10. TableLink(t, call) = [t EXCEPT !.uniques = Append(t.uniques, NamesIn(call))]
    <3>1. /\ ~(call.name \in ColumnTypes /\ Declares(call, call.name))
          /\ ~(Len(t.columns) > 0 /\ Modified(t.columns[Len(t.columns)], call) # Refused)
      BY <2>9 DEF ColumnTypes, Modified
    <3>2. QED
      BY <2>9, <3>1 DEF TableLink
  <2>11. Linked(t, call) = TableLink(t, call)
    BY <2>6 DEF Linked, Tables
  <2>12. links[k] = call
    BY <1>1, <2>1, <2>7
  <2> HIDE DEF links, With
  <2>13. TableLink(t, call) = With(Append(before, key))
    <3>1. TableLink(t, call) = [t EXCEPT !.uniques = Append(before, key)]
      BY <2>6, <2>9, <2>10
    <3>2. QED
      BY <2>6, <3>1
  <2>14. QED
    BY <2>4, <2>5, <2>9, <2>11, <2>12, <2>13
<1>5. links = [k \in 1..n |-> links[k]]
  BY <1>1
<1>6. g[0] = table /\ g[n] = With(uniques)
  <2>1. 0 \in 0..n /\ n \in 0..n
    OBVIOUS
  <2>2. SubSeq(uniques, 1, 0) = <<>> /\ SubSeq(uniques, 1, n) = uniques
    BY <1>1, PrefixGrows
  <2>3. With(<<>>) = table
    BY DEF Tables
  <2>4. QED
    BY <1>3, <2>1, <2>2, <2>3
<1> HIDE DEF links
<1>7. Reaches(L, g[0], links, g[n])
  BY <1>4, <1>5, ReachesEach
<1>8. QED
  BY <1>6, <1>7 DEF links

\* The canonical calls of a table build it.
LEMMA ReachesTable ==
  ASSUME NEW L, PrintsPlain(L), NEW table \in Tables(L), NEW no, no = FALSE, NEW opened,
         opened = [kind |-> "create_table", on |-> table.on, if_not_exists |-> no,
                   columns |-> <<>>, primary_key |-> <<>>, uniques |-> <<>>]
  PROVE  Reaches(L, opened, TableCalls(table), table)
<1> DEFINE Of(cs, pk, us, once) ==
             [kind |-> "create_table", on |-> table.on, if_not_exists |-> once,
              columns |-> cs, primary_key |-> pk, uniques |-> us]
<1>1. PICK cs, pk, us, once : /\ cs = table.columns /\ pk = table.primary_key
                              /\ us = table.uniques /\ once = table.if_not_exists
  OBVIOUS
<1>2. /\ cs \in Seq(Columns(L)) /\ pk \in Seq(PlainNames)
      /\ us \in Seq(Seq(PlainNames) \ {<<>>}) /\ once \in BOOLEAN /\ no \in BOOLEAN
      /\ table = Of(cs, pk, us, once) /\ table.on \in PlainNames
  BY <1>1 DEF Tables
<1>3. PICK t1, t2, t3 : /\ t1 = Of(cs, <<>>, <<>>, no) /\ t2 = Of(cs, pk, <<>>, no)
                        /\ t3 = Of(cs, pk, us, no)
  OBVIOUS
<1>4. opened \in Tables(L) /\ t1 \in Tables(L) /\ t2 \in Tables(L) /\ t3 \in Tables(L)
  <2>1. \A S : <<>> \in Seq(S)
    OBVIOUS
  <2>2. opened = Of(<<>>, <<>>, <<>>, no)
    BY <1>1
  <2>3. QED
    BY <1>2, <1>3, <2>1, <2>2 DEF Tables
<1>5. /\ opened.columns = <<>> /\ t1 = [opened EXCEPT !.columns = cs]
      /\ t1.primary_key = <<>> /\ t2 = [t1 EXCEPT !.primary_key = pk]
      /\ t2.uniques = <<>> /\ t3 = [t2 EXCEPT !.uniques = us]
      /\ table = [t3 EXCEPT !.if_not_exists = once]
  <2>1. opened = Of(<<>>, <<>>, <<>>, no)
    BY <1>1
  <2>2. opened.columns = <<>> /\ t1 = [opened EXCEPT !.columns = cs]
    BY <1>3, <2>1
  <2>3. t1.primary_key = <<>> /\ t2 = [t1 EXCEPT !.primary_key = pk]
    BY <1>3
  <2>4. t2.uniques = <<>> /\ t3 = [t2 EXCEPT !.uniques = us]
    BY <1>3
  <2>5. table = [t3 EXCEPT !.if_not_exists = once]
    BY <1>2, <1>3
  <2>6. QED
    BY <2>2, <2>3, <2>4, <2>5
<1>6. PICK a, b, c, d :
        /\ a = FlattenSeq([i \in DOMAIN cs |-> ColumnCalls(cs[i], cs[i].ty)])
        /\ b = IF pk = <<>> THEN <<>> ELSE <<Named("primary_key", pk)>>
        /\ c = [i \in DOMAIN us |-> Named("unique", us[i])]
        /\ d = Flag("if_not_exists", once)
  OBVIOUS
<1>7. Reaches(L, opened, a, t1)
  BY <1>2, <1>4, <1>5, <1>6, ReachesColumns
<1>8. Reaches(L, t1, b, t2)
  BY <1>2, <1>4, <1>5, <1>6, ReachesKey
<1>9. Reaches(L, t2, c, t3)
  BY <1>2, <1>4, <1>5, <1>6, ReachesUniques
<1>10. Reaches(L, t3, d, table)
  <2>1. PICK name \in Vocabulary : name = "if_not_exists"
    BY DEF Vocabulary
  <2>2. PICK call : call = Call(TRUE, name, <<>>)
    OBVIOUS
  <2>3. call.name = "if_not_exists" /\ NoArgs(call)
    BY <2>1, <2>2, BareSpells
  <2>4. Linked(t3, call) = [t3 EXCEPT !.if_not_exists = TRUE]
    <3>1. /\ ~(call.name \in ColumnTypes /\ Declares(call, call.name))
          /\ ~(Len(t3.columns) > 0 /\ Modified(t3.columns[Len(t3.columns)], call) # Refused)
      BY <2>3 DEF ColumnTypes, Modified
    <3>2. TableLink(t3, call) = [t3 EXCEPT !.if_not_exists = TRUE]
      BY <2>3, <3>1 DEF TableLink
    <3>3. QED
      BY <1>4, <3>2 DEF Linked, Tables
  <2>5. once => Linked(t3, call) = table
    <3>1. once => once = TRUE
      BY <1>2
    <3>2. QED
      BY <1>5, <2>4, <3>1
  <2>6. ~once => table = t3
    <3>1. ~once => once = no
      BY <1>1, <1>2
    <3>2. QED
      BY <1>2, <1>3, <3>1
  <2>7. Reaches(L, t3, Flag(name, once), table)
    BY <1>2, <2>2, <2>5, <2>6, ReachesFlag
  <2>8. QED
    BY <1>6, <2>1, <2>7
<1>11. Reaches(L, opened, a \o b, t2)
  BY <1>7, <1>8, ReachesOn
<1>12. Reaches(L, opened, a \o b \o c, t3)
  BY <1>9, <1>11, ReachesOn
<1>13. Reaches(L, opened, a \o b \o c \o d, table)
  BY <1>10, <1>12, ReachesOn
<1>14. TableCalls(table) = a \o b \o c \o d
  BY <1>1, <1>6 DEF TableCalls
<1>15. QED
  BY <1>13, <1>14

\* The canonical calls of an index build it.
LEMMA ReachesIndex ==
  ASSUME NEW L, NEW index \in Indexes, NEW no, no = FALSE, NEW opened,
         opened = [kind |-> "create_index", on |-> index.on, name |-> <<>>, columns |-> <<>>,
                   unique |-> no, if_not_exists |-> no]
  PROVE  Reaches(L, opened, IndexCalls(index), index)
<1> DEFINE Of(name, cs, unique, once) ==
             [kind |-> "create_index", on |-> index.on, name |-> name, columns |-> cs,
              unique |-> unique, if_not_exists |-> once]
<1>1. PICK nm, cs, un, once : /\ nm = index.name /\ cs = index.columns /\ un = index.unique
                              /\ once = index.if_not_exists
  OBVIOUS
<1>2. /\ nm \in Optional(PlainNames) /\ cs \in Seq(PlainNames) /\ un \in BOOLEAN
      /\ once \in BOOLEAN /\ no \in BOOLEAN
      /\ index = Of(nm, cs, un, once) /\ index.on \in PlainNames
  BY <1>1 DEF Indexes
<1>3. PICK t1, t2, t3 : /\ t1 = Of(nm, <<>>, no, no) /\ t2 = Of(nm, cs, no, no)
                        /\ t3 = Of(nm, cs, un, no)
  OBVIOUS
<1>4. opened = Of(<<>>, <<>>, no, no)
  BY <1>1
<1>5. /\ opened.kind = "create_index" /\ opened.name = <<>> /\ t1 = [opened EXCEPT !.name = nm]
      /\ t1.kind = "create_index" /\ t1.columns = <<>> /\ t2 = [t1 EXCEPT !.columns = cs]
      /\ t2.kind = "create_index" /\ t3 = [t2 EXCEPT !.unique = un]
      /\ t3.kind = "create_index" /\ index = [t3 EXCEPT !.if_not_exists = once]
  <2>1. opened.kind = "create_index" /\ opened.name = <<>> /\ t1 = [opened EXCEPT !.name = nm]
    BY <1>3, <1>4
  <2>2. t1.kind = "create_index" /\ t1.columns = <<>> /\ t2 = [t1 EXCEPT !.columns = cs]
    BY <1>3
  <2>3. t2.kind = "create_index" /\ t3 = [t2 EXCEPT !.unique = un]
    BY <1>3
  <2>4. t3.kind = "create_index" /\ index = [t3 EXCEPT !.if_not_exists = once]
    BY <1>2, <1>3
  <2>5. QED
    BY <2>1, <2>2, <2>3, <2>4
<1>6. PICK a, b, c, d :
        /\ a = Option("name", nm) /\ b = <<Named("columns", cs)>>
        /\ c = Flag("unique", un) /\ d = Flag("if_not_exists", once)
  OBVIOUS
<1>7. Reaches(L, opened, a, t1)
  <2>1. CASE nm = <<>>
    <3>1. Option("name", nm) = <<>>
      <4>1. PICK f : f = Option("name", nm)
        OBVIOUS
      <4>2. DOMAIN nm = 1..0
        BY <2>1
      <4>3. f = [i \in 1..0 |-> f[i]]
        BY <4>1, <4>2 DEF Option
      <4>4. QED
        BY <4>1, <4>3, NoEntry
    <3>2. t1 = opened
      BY <1>3, <1>4, <2>1
    <3>3. QED
      BY <1>6, <3>1, <3>2, ReachesNowhere
  <2>2. ASSUME NEW x \in PlainNames, nm = <<x>>
        PROVE  Reaches(L, opened, a, t1)
    <3>1. PICK call : call = Named("name", <<x>>)
      OBVIOUS
    <3>2. Option("name", nm) = <<call>>
      <4>1. PICK f : f = Option("name", nm)
        OBVIOUS
      <4>2. DOMAIN nm = 1..1 /\ 1 \in 1..1 /\ nm[1] = x
        BY <2>2
      <4>3. f = [i \in 1..1 |-> f[i]] /\ f[1] = call
        BY <3>1, <4>1, <4>2 DEF Option
      <4>4. QED
        BY <4>1, <4>3, OneEntry
    <3>3. SpellsName(call, L, "name", x)
      <4>1. PICK name \in Vocabulary : name = "name"
        BY DEF Vocabulary
      <4>2. call = Named(name, <<x>>)
        BY <3>1, <4>1
      <4>3. QED
        BY <4>1, <4>2, SpellsOne
    <3>4. IndexLink(opened, call) = [opened EXCEPT !.name = <<x>>]
      BY <3>3 DEF SpellsName, IndexLink
    <3>5. Linked(opened, call) = t1
      BY <1>5, <2>2, <3>4 DEF Linked
    <3>6. QED
      BY <1>6, <3>2, <3>3, <3>5, ReachesOne DEF SpellsName
  <2>3. QED
    BY <1>2, <2>1, <2>2 DEF Optional
<1>8. Reaches(L, t1, b, t2)
  <2>1. PICK call : call = Named("columns", cs)
    OBVIOUS
  <2>2. Spells(call, L, "columns", cs)
    <3>1. PICK name \in Vocabulary : name = "columns"
      BY DEF Vocabulary
    <3>2. QED
      BY <1>2, <2>1, <3>1, NamedSpells
  <2>3. /\ call \in Spoken(L) /\ call.link /\ call.name = "columns" /\ Idents(call)
        /\ NamesIn(call) = cs
    BY <2>2 DEF Spells
  <2>4. IndexLink(t1, call) = [t1 EXCEPT !.columns = t1.columns \o NamesIn(call)]
    BY <2>3 DEF IndexLink
  <2>5. t1.columns \o NamesIn(call) = cs
    <3>1. <<>> \o cs = cs
      BY <1>2
    <3>2. QED
      BY <1>5, <2>3, <3>1
  <2>6. Linked(t1, call) = t2
    BY <1>5, <2>4, <2>5 DEF Linked
  <2>7. QED
    BY <1>6, <2>1, <2>3, <2>6, ReachesOne
<1>9. Reaches(L, t2, c, t3)
  <2>1. PICK name \in Vocabulary : name = "unique"
    BY DEF Vocabulary
  <2>2. PICK call : call = Call(TRUE, name, <<>>)
    OBVIOUS
  <2>3. call.name = "unique" /\ NoArgs(call)
    BY <2>1, <2>2, BareSpells
  <2>4. IndexLink(t2, call) = [t2 EXCEPT !.unique = TRUE]
    BY <2>3 DEF IndexLink
  <2>5. un => Linked(t2, call) = t3
    <3>1. un => un = TRUE
      BY <1>2
    <3>2. Linked(t2, call) = IndexLink(t2, call)
      BY <1>5 DEF Linked
    <3>3. QED
      BY <1>5, <2>4, <3>1, <3>2
  <2>6. ~un => t3 = t2
    <3>1. ~un => un = no
      BY <1>1, <1>2
    <3>2. QED
      BY <1>3, <3>1
  <2>7. Reaches(L, t2, Flag(name, un), t3)
    BY <1>2, <2>2, <2>5, <2>6, ReachesFlag
  <2>8. QED
    BY <1>6, <2>1, <2>7
<1>10. Reaches(L, t3, d, index)
  <2>1. PICK name \in Vocabulary : name = "if_not_exists"
    BY DEF Vocabulary
  <2>2. PICK call : call = Call(TRUE, name, <<>>)
    OBVIOUS
  <2>3. call.name = "if_not_exists" /\ NoArgs(call)
    BY <2>1, <2>2, BareSpells
  <2>4. IndexLink(t3, call) = [t3 EXCEPT !.if_not_exists = TRUE]
    BY <2>3 DEF IndexLink
  <2>5. once => Linked(t3, call) = index
    <3>1. once => once = TRUE
      BY <1>2
    <3>2. Linked(t3, call) = IndexLink(t3, call)
      BY <1>5 DEF Linked
    <3>3. QED
      BY <1>5, <2>4, <3>1, <3>2
  <2>6. ~once => index = t3
    <3>1. ~once => once = no
      BY <1>1, <1>2
    <3>2. QED
      BY <1>2, <1>3, <3>1
  <2>7. Reaches(L, t3, Flag(name, once), index)
    BY <1>2, <2>2, <2>5, <2>6, ReachesFlag
  <2>8. QED
    BY <1>6, <2>1, <2>7
<1>11. Reaches(L, opened, a \o b, t2)
  BY <1>7, <1>8, ReachesOn
<1>12. Reaches(L, opened, a \o b \o c, t3)
  BY <1>9, <1>11, ReachesOn
<1>13. Reaches(L, opened, a \o b \o c \o d, index)
  BY <1>10, <1>12, ReachesOn
<1>14. IndexCalls(index) = a \o b \o c \o d
  BY <1>1, <1>6 DEF IndexCalls
<1>15. QED
  BY <1>13, <1>14

\* A call that adds a column.
LEMMA AlterDeclares ==
  ASSUME NEW L, NEW alter \in Alters(L), NEW ty \in DOMAIN AddOf, NEW name \in PlainNames,
         NEW call, SpellsName(call, L, AddOf[ty], name)
  PROVE  Linked(alter, call) =
           [alter EXCEPT !.actions =
              Append(alter.actions, [do |-> "add", column |-> NewColumn(name, ty)])]
<1> DEFINE n == Len(alter.actions)
<1>1. call.name = AddOf[ty] /\ ExactIdents(call, 1) /\ ~NoArgs(call) /\ NameIn(call, 1) = name
  BY DEF SpellsName
<1>2. Declares(call, ty) /\ Declared(call, ty) = NewColumn(name, ty)
  BY <1>1 DEF Declares, Declared
<1>3. (CHOOSE t \in DOMAIN AddOf : call.name = AddOf[t]) = ty
  <2>1. \A t \in DOMAIN AddOf : AddOf[t] = AddOf[ty] => t = ty
    BY DEF AddOf
  <2>2. QED
    BY <1>1, <2>1
<1>4. call.name \in Verbs
  BY <1>1 DEF Verbs, AddNames
<1>5. /\ \A column : Modified(column, call) = Refused
      /\ call.name \notin {"drop_column", "rename_to"} /\ call.name # "rename_column"
  <2>1. AddNames = {"add_text", "add_int", "add_bigint", "add_float", "add_bool",
                    "add_timestamp"}
    BY DEF AddNames, AddOf
  <2>2. call.name \in AddNames
    BY <1>1 DEF AddNames
  <2>3. QED
    BY <2>1, <2>2 DEF Modified
<1>6. AlterLink(alter, call) =
        [alter EXCEPT !.actions =
           Append(@, [do |-> "add",
                      column |-> Declared(call, CHOOSE t \in DOMAIN AddOf : call.name = AddOf[t])])]
  <2>1. Modified(alter.actions[n].column, call) = Refused
    BY <1>5
  <2>2. QED
    BY <1>1, <1>2, <1>5, <2>1 DEF AlterLink
<1>7. Linked(alter, call) = AlterLink(alter, call)
  BY DEF Linked, Alters
<1>8. QED
  BY <1>2, <1>3, <1>6, <1>7

\* A call that drops or renames.
LEMMA AlterMoves ==
  ASSUME NEW L, NEW alter \in Alters(L), NEW move \in Moves, NEW call,
         Spells(call, L, move.do, move.names)
  PROVE  Linked(alter, call) = [alter EXCEPT !.actions = Append(alter.actions, move)]
<1> DEFINE n == Len(alter.actions)
<1>1. call.name = move.do /\ Idents(call) /\ Len(call.args) = Len(move.names)
      /\ NamesIn(call) = move.names
  BY DEF Spells
<1>2. /\ move.do \in {"drop_column", "rename_to", "rename_column"}
      /\ Len(move.names) = IF move.do = "rename_column" THEN 2 ELSE 1
      /\ move = [do |-> move.do, names |-> move.names]
  BY DEF Moves
<1>3. \A ty \in DOMAIN AddOf : call.name # AddOf[ty]
  BY <1>1, <1>2 DEF AddOf
<1>4. Modified(alter.actions[n].column, call) = Refused
  BY <1>1, <1>2 DEF Modified
<1>5. \/ call.name \in {"drop_column", "rename_to"} /\ ExactIdents(call, 1)
      \/ call.name = "rename_column" /\ ExactIdents(call, 2)
  BY <1>1, <1>2 DEF ExactIdents
<1>6. AlterLink(alter, call) =
        [alter EXCEPT !.actions = Append(@, [do |-> call.name, names |-> NamesIn(call)])]
  BY <1>3, <1>4, <1>5 DEF AlterLink
<1>7. Linked(alter, call) = AlterLink(alter, call)
  BY DEF Linked, Alters
<1>8. QED
  BY <1>1, <1>2, <1>6, <1>7

\* The actions of an alter_table are built one by one.
LEMMA ReachesAlter ==
  ASSUME NEW L, PrintsPlain(L), NEW alter \in Alters(L), NEW opened,
         opened = [kind |-> "alter_table", on |-> alter.on, actions |-> <<>>]
  PROVE  Reaches(L, opened,
                 FlattenSeq([i \in DOMAIN alter.actions |-> ActionCalls(alter.actions[i])]), alter)
<1> DEFINE A == Adds(L) \cup Moves
           With(as) == [alter EXCEPT !.actions = as]
<1>0. PICK actions : actions = alter.actions
  OBVIOUS
<1>2. actions \in Seq(A)
  BY <1>0 DEF Alters
<1>1. PICK n \in Nat : n = Len(actions) /\ DOMAIN actions = 1..n
  BY <1>2
<1>3. PICK parts : parts = [i \in DOMAIN actions |-> ActionCalls(actions[i])]
  OBVIOUS
<1>4. PICK g : g = [k \in 0..n |-> With(SubSeq(actions, 1, k))]
  OBVIOUS
<1>5. \A k \in 0..n : g[k] = With(SubSeq(actions, 1, k))
  BY <1>4
<1>6. ASSUME NEW k \in 1..n
      PROVE  Reaches(L, g[k - 1], parts[k], g[k])
  <2>1. PICK before, action : before = SubSeq(actions, 1, k - 1) /\ action = actions[k]
    OBVIOUS
  <2>2. before \in Seq(A) /\ action \in A /\ SubSeq(actions, 1, k) = Append(before, action)
    <3> HIDE DEF A
    <3>1. QED
      BY <1>1, <1>2, <2>1, PrefixGrows
  <2>3. k - 1 \in 0..n /\ k \in 0..n
    OBVIOUS
  <2>4. g[k - 1] = With(before) /\ g[k] = With(Append(before, action))
    BY <1>5, <2>1, <2>2, <2>3
  <2>5. PICK t : t = With(before)
    OBVIOUS
  <2>6. t \in Alters(L) /\ t.actions = before /\ \A as : [t EXCEPT !.actions = as] = With(as)
    BY <2>2, <2>5 DEF Alters
  <2>7. parts[k] = ActionCalls(action)
    BY <1>1, <1>3, <2>1
  <2> HIDE DEF With
  <2>8. CASE action \in Adds(L)
    <3>1. PICK column, name, ty : column = action.column /\ name = column.name /\ ty = column.ty
      OBVIOUS
    <3>2. /\ column \in Columns(L) /\ action = [do |-> "add", column |-> column]
          /\ action.do = "add" /\ ty # "id"
      BY <2>8, <3>1 DEF Adds
    <3>3. name \in PlainNames /\ ty \in ColumnTypes
      BY <3>1, <3>2 DEF Columns, AnyColumns
    <3>4. ty \in DOMAIN AddOf /\ AddOf[ty] \in Vocabulary
      <4>1. ty \in DOMAIN AddOf
        BY <3>2, <3>3 DEF ColumnTypes, AddOf
      <4>2. QED
        BY <4>1 DEF Vocabulary
    <3>5. PICK start : start = NewColumn(name, ty)
      OBVIOUS
    <3>6. start \in Columns(L)
      <4>1. <<>> \in Optional(L \cup {Now}) /\ <<>> \in Optional(References)
        BY DEF Optional
      <4>2. start \in AnyColumns(L) /\ start.not_null = (ty = "id") /\ start.ty = ty
        BY <3>3, <3>5, <4>1 DEF NewColumn, AnyColumns
      <4>3. QED
        BY <4>2 DEF Columns
    <3>7. PICK F : F = [c \in Columns(L) |->
                          [t EXCEPT !.actions = Append(before, [do |-> "add", column |-> c])]]
      OBVIOUS
    <3>8. Holder(F, L)
      BY <2>2, <2>6, <3>7, AlterHolder
    <3>9. PICK declare, call : declare = AddOf[ty] /\ call = Named(declare, <<name>>)
      OBVIOUS
    <3>10. SpellsName(call, L, declare, name)
      BY <3>3, <3>4, <3>9, SpellsOne
    <3>11. Linked(t, call) =
             [t EXCEPT !.actions = Append(before, [do |-> "add", column |-> start])]
      <4>1. SpellsName(call, L, AddOf[ty], name)
        BY <3>9, <3>10
      <4>2. Linked(t, call) =
              [t EXCEPT !.actions =
                 Append(t.actions, [do |-> "add", column |-> NewColumn(name, ty)])]
        BY <2>6, <3>3, <3>4, <4>1, AlterDeclares
      <4>3. QED
        BY <2>6, <3>5, <4>2
    <3>12. F[start] = [t EXCEPT !.actions = Append(before, [do |-> "add", column |-> start])]
      BY <3>6, <3>7
    <3>13. Reaches(L, t, <<call>>, F[start])
      BY <3>10, <3>11, <3>12, ReachesOne DEF SpellsName
    <3>14. Reaches(L, t, ColumnCalls(column, declare), F[column])
      BY <3>1, <3>2, <3>5, <3>8, <3>9, <3>13, ReachesColumn
    <3>15. F[column] = With(Append(before, action))
      BY <2>6, <3>2, <3>7
    <3>16. ActionCalls(action) = ColumnCalls(column, declare)
      BY <3>1, <3>2, <3>9 DEF ActionCalls
    <3>17. QED
      BY <2>4, <2>5, <2>7, <3>14, <3>15, <3>16
  <2>9. CASE action \in Moves
    <3>1. /\ action.do \in {"drop_column", "rename_to", "rename_column"}
          /\ action.names \in Seq(PlainNames)
      BY <2>9 DEF Moves
    <3>2. PICK call : call = Named(action.do, action.names)
      OBVIOUS
    <3>3. Spells(call, L, action.do, action.names)
      <4>1. action.do \in Vocabulary
        BY <3>1 DEF Vocabulary
      <4>2. QED
        BY <3>1, <3>2, <4>1, NamedSpells
    <3>4. Linked(t, call) = With(Append(before, action))
      <4>1. Linked(t, call) = [t EXCEPT !.actions = Append(t.actions, action)]
        BY <2>6, <2>9, <3>3, AlterMoves
      <4>2. QED
        BY <2>6, <4>1
    <3>5. ActionCalls(action) = <<call>>
      BY <3>1, <3>2 DEF ActionCalls
    <3>6. Reaches(L, t, <<call>>, With(Append(before, action)))
      BY <3>3, <3>4, ReachesOne DEF Spells
    <3>7. QED
      BY <2>4, <2>5, <2>7, <3>5, <3>6
  <2>10. QED
    BY <2>2, <2>8, <2>9
<1>7. parts = [k \in 1..n |-> parts[k]]
  BY <1>1, <1>3
<1>8. g[0] = opened /\ g[n] = alter
  <2>1. 0 \in 0..n /\ n \in 0..n
    OBVIOUS
  <2>2. SubSeq(actions, 1, 0) = <<>> /\ SubSeq(actions, 1, n) = actions
    <3> HIDE DEF A
    <3>1. QED
      BY <1>1, <1>2, PrefixGrows
  <2>3. With(<<>>) = opened /\ With(actions) = alter
    BY <1>0 DEF Alters
  <2>4. QED
    BY <1>5, <2>1, <2>2, <2>3
<1>9. Reaches(L, g[0], FlattenSeq(parts), g[n])
  BY <1>6, <1>7, ReachesMany
<1>10. QED
  BY <1>0, <1>3, <1>8, <1>9

\* A drop is built by its one flag.
LEMMA ReachesDrop ==
  ASSUME NEW L, NEW drop \in Drops, NEW no, no = FALSE, NEW opened,
         opened = [kind |-> drop.kind, on |-> drop.on, if_exists |-> no]
  PROVE  Reaches(L, opened, Flag("if_exists", drop.if_exists), drop)
<1>1. PICK kind, on, once : kind = drop.kind /\ on = drop.on /\ once = drop.if_exists
  OBVIOUS
<1>2. /\ once \in BOOLEAN /\ drop = [kind |-> kind, on |-> on, if_exists |-> once]
      /\ kind \in {"drop_table", "drop_index"}
  BY <1>1 DEF Drops
<1>3. opened.kind = kind /\ drop = [opened EXCEPT !.if_exists = once]
  BY <1>1, <1>2
<1>4. PICK name \in Vocabulary : name = "if_exists"
  BY DEF Vocabulary
<1>5. PICK call : call = Call(TRUE, name, <<>>)
  OBVIOUS
<1>6. call.name = "if_exists" /\ NoArgs(call)
  BY <1>4, <1>5, BareSpells
<1>7. Linked(opened, call) = [opened EXCEPT !.if_exists = TRUE]
  BY <1>2, <1>3, <1>6 DEF Linked, DropLink
<1>8. once => Linked(opened, call) = drop
  <2>1. once => once = TRUE
    BY <1>2
  <2>2. QED
    BY <1>3, <1>7, <2>1
<1>9. ~once => drop = opened
  <2>1. ~once => once = no
    BY <1>2
  <2>2. QED
    BY <1>1, <1>2, <2>1
<1>10. Reaches(L, opened, Flag(name, once), drop)
  BY <1>2, <1>5, <1>8, <1>9, ReachesFlag
<1>11. QED
  BY <1>1, <1>4, <1>10

\* A root and the links that lead from it to a statement.
LeadsFrom(L, root, links, stmt) ==
  /\ root \in Spoken(L) /\ ~root.link /\ ExactIdents(root, 1)
  /\ Reaches(L, Opened(root), links, stmt)

\* The root that opens a statement of a kind on a name.
LEMMA RootOpens ==
  ASSUME NEW L, NEW kind \in Vocabulary, NEW on \in PlainNames, NEW no, no = FALSE, NEW root,
         root = [Named(kind, <<on>>) EXCEPT !.link = FALSE]
  PROVE  /\ root \in Spoken(L) /\ ~root.link /\ root.name = kind
         /\ ExactIdents(root, 1) /\ NameIn(root, 1) = on
<1>1. PICK call : call = Named(kind, <<on>>)
  OBVIOUS
<1>2. SpellsName(call, L, kind, on)
  BY <1>1, SpellsOne
<1>3. /\ call \in Spoken(L) /\ call.name = kind /\ ExactIdents(call, 1) /\ NameIn(call, 1) = on
  BY <1>2 DEF SpellsName
<1>4. root = [call EXCEPT !.link = no]
  BY <1>1
<1>5. root.args = call.args /\ root.name = call.name /\ root.link = no /\ root \in Spoken(L)
  BY <1>3, <1>4 DEF Spoken
<1>6. ExactIdents(root, 1) /\ NameIn(root, 1) = on
  BY <1>3, <1>5 DEF ExactIdents, Idents, NameIn
<1>7. QED
  BY <1>3, <1>5, <1>6

\* The canonical calls of every statement build it.
LEMMA CanonicalBuilds ==
  ASSUME NEW L, PrintsPlain(L), NEW stmt \in Statements(L)
  PROVE  \E root, links : Canonical(stmt) = <<root>> \o links /\ LeadsFrom(L, root, links, stmt)
<1>1. PICK no : no = FALSE
  OBVIOUS
<1>2. PICK kind, on : kind = stmt.kind /\ on = stmt.on
  OBVIOUS
<1>3. PICK root : root = [Named(kind, <<on>>) EXCEPT !.link = FALSE]
  OBVIOUS
<1>4. kind \in {"create_table", "create_index", "alter_table", "drop_table", "drop_index"}
      /\ on \in PlainNames
  BY <1>2 DEF Statements, Tables, Indexes, Alters, Drops
<1>5. kind \in Vocabulary
  BY <1>4 DEF Vocabulary
<1>6. /\ root \in Spoken(L) /\ ~root.link /\ root.name = kind
      /\ ExactIdents(root, 1) /\ NameIn(root, 1) = on
  BY <1>1, <1>3, <1>4, <1>5, RootOpens, ZenonT(30)
<1>7. PICK opened : opened = Opened(root)
  OBVIOUS
<1>8. SUFFICES \E links : Canonical(stmt) = <<root>> \o links /\ Reaches(L, opened, links, stmt)
  BY <1>6, <1>7 DEF LeadsFrom
<1>9. CASE stmt \in Tables(L)
  <2>1. kind = "create_table"
    BY <1>2, <1>9 DEF Tables
  <2>2. Canonical(stmt) = <<root>> \o TableCalls(stmt)
    BY <1>2, <1>3, <2>1 DEF Canonical
  <2>3. opened = [kind |-> "create_table", on |-> stmt.on, if_not_exists |-> no,
                  columns |-> <<>>, primary_key |-> <<>>, uniques |-> <<>>]
    BY <1>1, <1>2, <1>6, <1>7, <2>1 DEF Opened
  <2>4. Reaches(L, opened, TableCalls(stmt), stmt)
    BY <1>1, <1>9, <2>3, ReachesTable
  <2>5. QED
    BY <2>2, <2>4
<1>10. CASE stmt \in Indexes
  <2>1. kind = "create_index"
    BY <1>2, <1>10 DEF Indexes
  <2>2. Canonical(stmt) = <<root>> \o IndexCalls(stmt)
    BY <1>2, <1>3, <2>1 DEF Canonical
  <2>3. opened = [kind |-> "create_index", on |-> stmt.on, name |-> <<>>, columns |-> <<>>,
                  unique |-> no, if_not_exists |-> no]
    BY <1>1, <1>2, <1>6, <1>7, <2>1 DEF Opened
  <2>4. Reaches(L, opened, IndexCalls(stmt), stmt)
    BY <1>1, <1>10, <2>3, ReachesIndex
  <2>5. QED
    BY <2>2, <2>4
<1>11. CASE stmt \in Alters(L)
  <2>1. kind = "alter_table"
    BY <1>2, <1>11 DEF Alters
  <2>2. PICK links : links = FlattenSeq([i \in DOMAIN stmt.actions |-> ActionCalls(stmt.actions[i])])
    OBVIOUS
  <2>3. Canonical(stmt) = <<root>> \o links
    BY <1>2, <1>3, <2>1, <2>2 DEF Canonical
  <2>4. opened = [kind |-> "alter_table", on |-> stmt.on, actions |-> <<>>]
    BY <1>2, <1>6, <1>7, <2>1 DEF Opened
  <2>5. Reaches(L, opened, links, stmt)
    BY <1>11, <2>2, <2>4, ReachesAlter
  <2>6. QED
    BY <2>3, <2>5
<1>12. CASE stmt \in Drops
  <2>1. kind \in {"drop_table", "drop_index"}
    BY <1>2, <1>12 DEF Drops
  <2>2. Canonical(stmt) = <<root>> \o Flag("if_exists", stmt.if_exists)
    BY <1>2, <1>3, <2>1 DEF Canonical
  <2>3. opened = [kind |-> stmt.kind, on |-> stmt.on, if_exists |-> no]
    BY <1>1, <1>2, <1>6, <1>7, <2>1 DEF Opened
  <2>4. Reaches(L, opened, Flag("if_exists", stmt.if_exists), stmt)
    BY <1>1, <1>12, <2>3, ReachesDrop
  <2>5. QED
    BY <2>2, <2>4
<1>13. QED
  BY <1>9, <1>10, <1>11, <1>12 DEF Statements

\* A statement of literals that print as they are written, finished as it is,
\* reads back from its rendering, next to another such.
LEMMA RenderedReads ==
  ASSUME NEW L, \A literal \in L : IsLiteral(literal), PrintsPlain(L),
         NEW stmt \in Statements(L), Finished(stmt) = stmt, stmt # Refused
  PROVE  Parse(Render(<<stmt, stmt>>)) = <<stmt, stmt>>
<1>1. PICK root, links : Canonical(stmt) = <<root>> \o links /\ LeadsFrom(L, root, links, stmt)
  BY CanonicalBuilds
<1>2. /\ root \in Spoken(L) /\ ~root.link /\ ExactIdents(root, 1)
      /\ links \in Seq(Spoken(L)) /\ Leads(Opened(root), links, stmt)
  BY <1>1 DEF LeadsFrom, Reaches
<1>3. PICK S : S = Spoken(L)
  OBVIOUS
<1>4. root \in S /\ links \in Seq(S) /\ \A call \in S : IsCall(call)
  BY <1>2, <1>3, SpokenIsCall
<1>5. PICK gap : gap = <<>>
  OBVIOUS
<1>6. IsLayout(gap)
  BY <1>5, Layouts0
<1>7. PICK calls, src : calls = <<root>> \o links /\ src = Source(calls, gap)
  OBVIOUS
<1>8. Parse((src \o <<"nl">>) \o (src \o <<"nl">>)) = <<stmt, stmt>>
  <2> HIDE DEF Refused
  <2>1. Finished(stmt) # Refused
    OBVIOUS
  <2>2. src = Source(<<root>> \o links, gap)
    BY <1>7
  <2>3. Parse((src \o <<"nl">>) \o (src \o <<"nl">>)) = <<Finished(stmt), Finished(stmt)>>
    BY <1>2, <1>4, <1>6, <2>1, <2>2, SourceParses
  <2>4. QED
    BY <2>3
<1>9. src \in Seq(Symbols)
  <2>1. calls \in Seq(S)
    BY <1>4, <1>7
  <2>2. Says(src, calls)
    BY <1>4, <1>6, <1>7, <2>1, SaysCalls
  <2>3. QED
    BY <2>2 DEF Says, ReadsAs, Lexed
<1>10. PICK p : p = src \o <<"nl">>
  OBVIOUS
<1>11. p \in Seq(Symbols)
  BY <1>9, <1>10, Known
<1>12. FlattenSeq([i \in 1..2 |-> p]) = p \o p
  BY <1>11, FlatteningTwo
<1>13. Render(<<stmt, stmt>>) = FlattenSeq([i \in 1..2 |-> p])
  <2>1. PICK both : both = <<stmt, stmt>>
    OBVIOUS
  <2>2. DOMAIN both = 1..2 /\ \A i \in 1..2 : both[i] = stmt
    BY <2>1
  <2>3. [i \in DOMAIN both |-> Source(Canonical(both[i]), <<>>) \o <<"nl">>] = [i \in 1..2 |-> p]
    BY <1>1, <1>5, <1>7, <1>10, <2>2
  <2>4. QED
    BY <2>1, <2>3 DEF Render
<1>14. QED
  BY <1>8, <1>10, <1>12, <1>13

\* The canonical rendering of whatever statement a chain without exponents was
\* accepted as reads back as that statement, alone or next to another: no two of
\* them share an identity.
THEOREM RenderedAlike == Spec => []PlainRenderingReparses
<1>1. ChainRead /\ Typed => PlainRenderingReparses
  <2> SUFFICES ASSUME ChainRead, Typed, Accepted, PlainFloats
               PROVE  Parse(Render(<<statement, statement>>)) = <<statement, statement>>
    BY DEF PlainRenderingReparses, RenderingReparses
  <2>1. closed /\ statement # Refused /\ chain # <<>>
    BY DEF Accepted, ChainRead
  <2>2. PICK root \in Roots, links \in Seq(Links) : \E s : HasRead(root, links, s)
    BY <2>1 DEF ChainRead
  <2>3. PICK s : HasRead(root, links, s)
    BY <2>2
  <2>4. chain = <<root>> \o links /\ statement = Finished(s)
    BY <2>1, <2>3 DEF HasRead
  <2>5. Finished(s) \in {Refused, s}
    BY DEF Finished
  <2>6. Finished(statement) = statement
    <3>1. statement = s
      BY <2>1, <2>4, <2>5
    <3>2. QED
      BY <2>4, <3>1
  <2>7. PICK L : L = LiteralsOf(chain)
    OBVIOUS
  <2>8. statement \in Statements(L)
    BY <2>1, <2>7 DEF Typed
  <2>9. \A literal \in L : IsLiteral(literal)
    <3>1. chain \in Seq(Roots \cup Links)
      BY <2>4
    <3>2. SUFFICES ASSUME NEW i \in DOMAIN chain, NEW literal \in ToSet(chain[i].args)
                   PROVE  IsLiteral(literal)
      BY <2>7 DEF LiteralsOf
    <3>3. IsCall(chain[i])
      BY <3>1, SchemaAssumption
    <3>4. QED
      BY <3>3 DEF IsCall
  <2>10. PrintsPlain(L)
    BY <2>7 DEF PrintsPlain, LiteralsOf, PlainFloats
  <2>11. QED
    <3> HIDE DEF Refused
    <3>1. QED
      BY <2>1, <2>6, <2>8, <2>9, <2>10, RenderedReads
<1>2. QED
  BY <1>1, Typing, PTL
=============================================================================
