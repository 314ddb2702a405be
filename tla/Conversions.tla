---------------------------- MODULE Conversions ----------------------------
(***************************************************************************)
(* One value on its way through a bound statement and back: conn.rs turns  *)
(* the program's value into a SqlValue and a column value into the         *)
(* program's, sqlite.rs and pg.rs turn those into what the database takes  *)
(* and gives.  The two databases run side by side, so that one call can be *)
(* compared on both.                                                       *)
(*                                                                         *)
(* Numbers are scaled down: a program integer has IntBits bits, a double   *)
(* Mantissa bits of precision, counted in halves (<<"float", 7>> is 3.5).  *)
(* A text is a word or the spelling of a number.  Statements are sequences *)
(* of characters, of which only quotes and the ? matter.                   *)
(***************************************************************************)
EXTENDS Integers, Sequences, FiniteSets, TLC

CONSTANTS
  IntBits,   \* width of an i64
  ColBits,   \* width of an int4 column; an int2 has one bit less
  Mantissa,  \* precision of an f64; an f32 has one bit less
  Calls      \* the calls to try: [sql, value, column] records

\* A value is its kind and its payload: a number, a truth value, or a text that
\* may spell a number.
IsValue(v) ==
  /\ v = <<v[1], v[2]>>
  /\ v[1] \in {"int", "float", "f32"} => v[2] \in Int
  /\ v[1] = "bool" => v[2] \in BOOLEAN
  /\ v[1] \in {"text", "case"} /\ v[2][1] \in {"int", "float"} =>
       v[2] \in {"int", "float"} \X Int

ASSUME ConversionsAssumption ==
  /\ {IntBits, ColBits, Mantissa} \subseteq Nat \ {0, 1}
  /\ ColBits < IntBits
  /\ \A c \in Calls : IsValue(c.value) /\ c.sql \in Seq(STRING)

VARIABLES call, step, sql, value

vars == <<call, step, sql, value>>

Backends == {"sqlite", "postgres"}
Null     == <<"null", 0>>
Refused  == <<"refused", 0>>

-----------------------------------------------------------------------------
\* Numbers.
Pow2[k \in Nat] == IF k = 0 THEN 1 ELSE 2 * Pow2[k - 1]

MinOf(bits) == -Pow2[bits - 1]
MaxOf(bits) == Pow2[bits - 1] - 1
Fits(n, bits) == n \in MinOf(bits)..MaxOf(bits)

Magnitude(x) == IF x < 0 THEN -x ELSE x

\* The float of that precision nearest to x halves, ties to the even mantissa.
Nearest(x, bits) ==
  LET m  == Magnitude(x)
      e  == CHOOSE k \in 0..m : m < Pow2[bits + k] /\ (k = 0 \/ m >= Pow2[bits + k - 1])
      u  == Pow2[e]
      q  == m \div u
      up == 2 * (m % u) > u \/ (2 * (m % u) = u /\ q % 2 = 1)
      r  == (IF up THEN q + 1 ELSE q) * u
  IN IF x < 0 THEN -r ELSE r

\* `n as f64`, and `f as i64`, which truncates and saturates.
AsFloat(n) == Nearest(2 * n, Mantissa)
AsInt(h) ==
  LET n == IF h < 0 THEN -((-h) \div 2) ELSE h \div 2
  IN IF n > MaxOf(IntBits) THEN MaxOf(IntBits)
     ELSE IF n < MinOf(IntBits) THEN MinOf(IntBits) ELSE n

-----------------------------------------------------------------------------
\* conn.rs: a program value as a bind parameter.  A case without a payload
\* is its name; one with a payload, and anything richer, is refused.
SqlValueOf(v) ==
  CASE v[1] \in {"int", "float", "bool", "bytes", "text"} -> v
    [] v[1] = "f32"  -> <<"float", v[2]>>
    [] v[1] = "case" -> <<"text", v[2]>>
    [] v[1] = "unit" -> Null
    [] OTHER         -> Refused

\* conn.rs: a column value as a program value.
OutOf(v) == IF v = Null THEN <<"none", 0>> ELSE v

\* pg.rs: one character of a statement; a ? outside of a literal or a quoted
\* identifier is numbered.  (First a slip: a quote of one kind inside the other
\* kind opens or closes a literal.)
ReadCharAnyQuote(s, c) ==
  LET parameter == c = "?" /\ ~s.single /\ ~s.double
  IN [out    |-> Append(s.out, IF parameter THEN ToString(s.n + 1) ELSE c),
      n      |-> IF parameter THEN s.n + 1 ELSE s.n,
      single |-> s.single # (c = "'"),
      double |-> s.double # (c = "\"")]

ReadChar(s, c) ==
  LET parameter == c = "?" /\ ~s.single /\ ~s.double
  IN [out    |-> Append(s.out, IF parameter THEN ToString(s.n + 1) ELSE c),
      n      |-> IF parameter THEN s.n + 1 ELSE s.n,
      single |-> s.single # (c = "'" /\ ~s.double),
      double |-> s.double # (c = "\"" /\ ~s.single)]

\* What has become of a statement after each of its characters.
Scan(text) ==
  LET read[i \in 0..Len(text)] ==
        IF i = 0 THEN [out |-> <<>>, n |-> 0, single |-> FALSE, double |-> FALSE]
        ELSE ReadChar(read[i - 1], text[i])
  IN read

ToDollarPlaceholders(text) == Scan(text)[Len(text)].out

-----------------------------------------------------------------------------
\* SQLite.  A bool is bound as 0 or 1.
ToRusqlite(v) == IF v[1] = "bool" THEN <<"int", IF v[2] THEN 1 ELSE 0>> ELSE v

\* The affinity of a declared type, given as the set of the words it holds
\* ("none" for a column without a declaration).
Affinity(decl) ==
  CASE "INT" \in decl -> "integer"
    [] "INT" \notin decl /\ decl \cap {"CHAR", "CLOB", "TEXT"} # {} -> "text"
    [] decl \cap {"INT", "CHAR", "CLOB", "TEXT"} = {}
       /\ decl \cap {"BLOB", "none"} # {} -> "blob"
    [] decl \cap {"INT", "CHAR", "CLOB", "TEXT", "BLOB", "none"} = {} ->
         IF decl \cap {"REAL", "FLOA", "DOUB"} # {} THEN "real" ELSE "numeric"

\* What SQLite stores: its affinity converts numbers and their spellings.
Stored(v, affinity) ==
  LET number  == IF v[1] = "text" THEN v[2] ELSE v
      exactly == number[1] = "float" /\ number[2] % 2 = 0
                 /\ AsInt(number[2]) > MinOf(IntBits) /\ AsInt(number[2]) < MaxOf(IntBits)
  IN IF number[1] \notin {"int", "float"} \/ affinity = "blob" THEN v
     ELSE CASE affinity = "text" -> <<"text", number>>
            [] affinity = "real" ->
                 IF number[1] = "int" THEN <<"float", AsFloat(number[2])>> ELSE number
            [] affinity \in {"integer", "numeric"} ->
                 IF exactly THEN <<"int", AsInt(number[2])>> ELSE number

\* ColumnIntent::of: the first test that a declared type passes.
ColumnIntent(decl) ==
  CASE "BOOL" \in decl -> "bool"
    [] "BOOL" \notin decl /\ decl \cap {"DATE", "TIME"} # {} -> "unconstrained"
    [] decl \cap {"BOOL", "DATE", "TIME"} = {} ->
         IF "INT" \in decl THEN "int"
         ELSE IF decl \cap {"CHAR", "CLOB", "TEXT"} # {} THEN "text"
         ELSE IF decl \cap {"REAL", "FLOA", "DOUB", "NUMERIC", "DEC"} # {} THEN "float"
         ELSE "unconstrained"

\* (A slip: an integer of a real column is widened whether or not that is
\* exact.)
PresentWidened(intent, v) ==
  CASE intent = "bool" /\ v \in {<<"int", 0>>, <<"int", 1>>} -> <<"bool", v[2] = 1>>
    [] intent = "float" /\ v[1] = "int" -> <<"float", AsFloat(v[2])>>
    [] OTHER -> v

\* ColumnIntent::present.
Present(intent, v) ==
  CASE intent = "bool" /\ v \in {<<"int", 0>>, <<"int", 1>>} -> <<"bool", v[2] = 1>>
    [] intent = "float" /\ v[1] = "int" /\ AsInt(AsFloat(v[2])) = v[2] ->
         <<"float", AsFloat(v[2])>>
    [] intent = "int" /\ v[1] = "float" /\ v[2] % 2 = 0
       /\ v[2] >= AsFloat(MinOf(IntBits)) /\ v[2] <= AsFloat(MaxOf(IntBits)) ->
         <<"int", AsInt(v[2])>>
    [] OTHER -> v

-----------------------------------------------------------------------------
\* PostgreSQL.
ColumnWidth == [int2 |-> ColBits - 1, int4 |-> ColBits]

\* (A slip: an integer is cut to the width of its column.)
ToSqlCut(v, ty) ==
  CASE v = Null -> Null
    [] v[1] = "int" /\ ty \in {"int2", "int4"} ->
         <<"int", ((v[2] - MinOf(ColumnWidth[ty])) % Pow2[ColumnWidth[ty]])
                  + MinOf(ColumnWidth[ty])>>
    [] v[1] = "int" /\ ty = "float8" -> <<"float", AsFloat(v[2])>>
    [] <<v[1], ty>> \in {<<"int", "int8">>, <<"float", "float8">>, <<"bool", "bool">>,
                         <<"text", "text">>, <<"bytes", "bytea">>} -> v
    [] OTHER -> Refused

\* A parameter is encoded for the type of its column, or refused.
ToSql(v, ty) ==
  CASE v = Null -> Null
    [] v[1] = "int" /\ ty \in {"int2", "int4"} ->
         IF Fits(v[2], ColumnWidth[ty]) THEN v ELSE Refused
    [] v[1] = "int" /\ ty = "float8" -> <<"float", AsFloat(v[2])>>
    [] v[1] = "int" /\ ty = "float4" -> <<"float", Nearest(2 * v[2], Mantissa - 1)>>
    [] v[1] = "float" /\ ty = "float4" -> <<"float", Nearest(v[2], Mantissa - 1)>>
    [] <<v[1], ty>> \in {<<"int", "int8">>, <<"float", "float8">>, <<"bool", "bool">>,
                         <<"text", "text">>, <<"bytes", "bytea">>} -> v
    [] OTHER -> Refused

\* A column value as a neutral one; a type that is none of these can only
\* be read where it renders as text (a timestamp does not).
ValueOf(v, ty) ==
  IF v = Null \/ ty \in {"int2", "int4", "int8", "float4", "float8", "bool", "bytea", "text"}
  THEN v ELSE Refused

-----------------------------------------------------------------------------
\* A column is [decl, pg]: its declared type on SQLite, its type on Postgres.
Init ==
  /\ call \in Calls
  /\ step = [b \in Backends |-> "bind"]
  /\ sql = [b \in Backends |-> call.sql]
  /\ value = [b \in Backends |-> call.value]

Goto(b, from, to, v) ==
  /\ step[b] = from
  /\ step' = [step EXCEPT ![b] = IF v = Refused THEN "refused" ELSE to]
  /\ value' = [value EXCEPT ![b] = v]
  /\ UNCHANGED call

\* execute: the parameter is marshalled and handed to the driver.
Bind(b) ==
  /\ Goto(b, "bind", "bound", SqlValueOf(call.value))
  /\ sql' = [sql EXCEPT ![b] =
               IF b = "postgres" THEN ToDollarPlaceholders(@) ELSE @]

\* The driver encodes it and the database stores it.
Store(b) ==
  /\ Goto(b, "bound", "stored",
          IF b = "sqlite" THEN Stored(ToRusqlite(value[b]), Affinity(call.column.decl))
          ELSE ToSql(value[b], call.column.pg))
  /\ UNCHANGED sql

\* query: the driver decodes the column, and the value goes to the program.
Read(b) ==
  /\ Goto(b, "stored", "read",
          IF b = "sqlite" THEN OutOf(Present(ColumnIntent(call.column.decl), value[b]))
          ELSE OutOf(ValueOf(value[b], call.column.pg)))
  /\ UNCHANGED sql

Next == \E b \in Backends : Bind(b) \/ Store(b) \/ Read(b)

Spec == Init /\ [][Next]_vars

-----------------------------------------------------------------------------
\* The columns of the portable schema that hold a value of their own kind.
Portable ==
  [text   |-> [decl |-> {"TEXT"}, pg |-> "text"],
   int    |-> [decl |-> {"INT"},  pg |-> "int4"],
   bigint |-> [decl |-> {"INT"},  pg |-> "int8"],
   float  |-> [decl |-> {"REAL"}, pg |-> "float8"],
   bool   |-> [decl |-> {"BOOL"}, pg |-> "bool"]]

KindOf(column) == IF column \in {"int", "bigint"} THEN "int" ELSE column

\* What a program binds to a column of the portable schema it reads back, on
\* either database, in the kind it had; the one exception is an integer that
\* the 32-bit column of PostgreSQL refuses.  (ColumnType: "the same value
\* round-trip through SqlValue"; timestamps are not among them.)
PortableRoundTrip ==
  \A column \in DOMAIN Portable, b \in Backends :
    LET bound == SqlValueOf(call.value)
    IN call.column = Portable[column] /\ bound[1] \in {KindOf(column), "null"} =>
       /\ step[b] = "read" => value[b] = OutOf(bound)
       /\ step[b] = "refused" =>
            b = "postgres" /\ column = "int" /\ ~Fits(bound[2], ColBits)

\* A value that both databases take and give back for a column of the
\* portable schema is the same value, whatever its kind was.
DatabasesAgree ==
  call.column \in {Portable[column] : column \in DOMAIN Portable}
  /\ (\A b \in Backends : step[b] = "read")
  => value["sqlite"] = value["postgres"]

\* A literal or quoted identifier runs from its quote to the next one of its
\* kind: the prefixes of a text, by their length, that end outside of them.
Ends(text) ==
  LET ends[i \in 0..Len(text)] ==
        IF i = 0 THEN TRUE
        ELSE IF text[i] \notin {"'", "\""} THEN ends[i - 1]
             ELSE \E j \in 1..(i - 1) :
                    /\ text[j] = text[i] /\ ends[j - 1]
                    /\ \A k \in (j + 1)..(i - 1) : text[k] # text[i]
  IN ends

\* The positions outside of literals and quoted identifiers.
Outside(text) == {i \in DOMAIN text : Ends(text)[i - 1]}

\* The n-th parameter goes where SQLite, which reads the ? itself, puts it:
\* the n-th ? outside of literals is n, and nothing else has changed.
ParametersMeetTheirPlaces ==
  step["postgres"] # "bind" =>
    LET free == {i \in Outside(call.sql) : call.sql[i] = "?"}
    IN /\ Len(sql["postgres"]) = Len(call.sql)
       /\ \A i \in DOMAIN call.sql :
            sql["postgres"][i] =
              IF i \in free THEN ToString(Cardinality({j \in free : j <= i}))
              ELSE call.sql[i]

\* A value as a number of halves.
Number(v) == IF v[1] = "int" THEN 2 * v[2] ELSE v[2]

\* What the declared type makes of a stored number is that number.
\* (ColumnIntent::present: "Only lossless recoveries are applied".)
RecoversExactly(v, intent) ==
  v[1] \in {"int", "float"} /\ Present(intent, v)[1] \in {"int", "float"}
  => Number(Present(intent, v)) = Number(v)

OnlyLosslessRecoveries ==
  step["sqlite"] = "stored" =>
    RecoversExactly(value["sqlite"], ColumnIntent(call.column.decl))

\* So it is for every stored number but the largest integer and the double
\* next above it, where the cast saturates.
LosslessBelowTheEdge ==
  step["sqlite"] = "stored"
  /\ value["sqlite"] \notin {<<"int", MaxOf(IntBits)>>, <<"float", 2 * (MaxOf(IntBits) + 1)>>}
  => RecoversExactly(value["sqlite"], ColumnIntent(call.column.decl))
=============================================================================
