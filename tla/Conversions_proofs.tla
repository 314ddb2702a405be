-------------------------- MODULE Conversions_proofs --------------------------
(***************************************************************************)
(* Why a value comes back from either database as what it was, for every    *)
(* width of the numbers and any calls.                                      *)
(***************************************************************************)
EXTENDS Conversions, NaturalRecursion, FiniteSetTheorems, TLAPS

\* What each step makes of the value of a call.
Bound == SqlValueOf(call.value)

Kept(b) == IF b = "sqlite" THEN Stored(ToRusqlite(Bound), Affinity(call.column.decl))
           ELSE ToSql(Bound, call.column.pg)

Got(b) == IF b = "sqlite" THEN OutOf(Present(ColumnIntent(call.column.decl), Kept(b)))
          ELSE OutOf(ValueOf(Kept(b), call.column.pg))

\* On its way a value is what the steps so far have made of it, and it is
\* refused only where one of them refuses.
OnItsWay ==
  /\ call \in Calls
  /\ step \in [Backends -> {"bind", "bound", "stored", "read", "refused"}]
  /\ value = [b \in Backends |-> value[b]]
  /\ \A b \in Backends :
       /\ step[b] = "bound"   => value[b] = Bound /\ Bound # Refused
       /\ step[b] = "stored"  => value[b] = Kept(b) /\ Bound # Refused /\ Kept(b) # Refused
       /\ step[b] = "read"    => /\ value[b] = Got(b)
                                 /\ Bound # Refused /\ Kept(b) # Refused /\ Got(b) # Refused
       /\ step[b] = "refused" => Refused \in {Bound, Kept(b), Got(b)}

\* Every value is on its way.
THEOREM Way == Spec => []OnItsWay
<1>1. Init => OnItsWay
  BY DEF Init, OnItsWay
<1>2. OnItsWay /\ [Next]_vars => OnItsWay'
  <2> SUFFICES ASSUME OnItsWay, [Next]_vars
               PROVE  OnItsWay'
    OBVIOUS
  <2>1. CASE UNCHANGED vars
    BY <2>1 DEF OnItsWay, vars, Bound, Kept, Got
  <2>2. ASSUME NEW b \in Backends, Bind(b) \/ Store(b) \/ Read(b)
        PROVE  OnItsWay'
    <3>1. /\ UNCHANGED call
          /\ value' = [value EXCEPT ![b] = value'[b]]
          /\ \/ /\ value'[b] = Bound
                /\ step' = [step EXCEPT ![b] = IF value'[b] = Refused THEN "refused" ELSE "bound"]
             \/ /\ step[b] = "bound" /\ value'[b] = Kept(b)
                /\ step' = [step EXCEPT ![b] = IF value'[b] = Refused THEN "refused" ELSE "stored"]
             \/ /\ step[b] = "stored" /\ value'[b] = Got(b)
                /\ step' = [step EXCEPT ![b] = IF value'[b] = Refused THEN "refused" ELSE "read"]
      <4>1. CASE Bind(b)
        BY <4>1 DEF Bind, Goto, OnItsWay, Bound
      <4>2. CASE Store(b)
        BY <4>2 DEF Store, Goto, OnItsWay, Kept
      <4>3. CASE Read(b)
        BY <4>3 DEF Read, Goto, OnItsWay, Got
      <4>4. QED
        BY <2>2, <4>1, <4>2, <4>3
    <3>2. Bound' = Bound /\ \A a \in Backends : Kept(a)' = Kept(a) /\ Got(a)' = Got(a)
      BY <3>1 DEF Bound, Kept, Got
    <3>3. QED
      BY <3>1, <3>2 DEF OnItsWay
  <2>3. QED
    BY <2>1, <2>2 DEF Next
<1>3. QED
  BY <1>1, <1>2, PTL DEF Spec

-----------------------------------------------------------------------------
\* What the steps make of a value for a column of the portable schema.

\* What is bound is a value of a program, or nothing.
LEMMA BoundIsValue ==
  ASSUME call \in Calls
  PROVE  /\ Bound = <<Bound[1], Bound[2]>>
         /\ Bound[1] \in {"int", "float", "bool", "bytes", "text", "null", "refused"}
         /\ Bound[1] \in {"int", "float"} => Bound[2] \in Int
         /\ Bound[1] = "bool" => Bound[2] \in BOOLEAN
         /\ Bound[1] = "text" /\ Bound[2][1] \in {"int", "float"} =>
              Bound[2] \in {"int", "float"} \X Int
         /\ Bound[1] = "null" => Bound = Null
         /\ Bound[1] = "refused" => Bound = Refused
<1> DEFINE v == call.value
<1>1. IsValue(v)
  BY ConversionsAssumption
<1> HIDE DEF v
<1>2. Bound = SqlValueOf(v)
  BY DEF Bound, v
<1>3. QED
  BY <1>1, <1>2 DEF IsValue, SqlValueOf, Null, Refused

\* Nothing is kept and given back as nothing, whatever the column.
LEMMA NullStays ==
  ASSUME Bound = Null
  PROVE  \A b \in Backends : Kept(b) = Null /\ Got(b) = OutOf(Null)
<1>1. \A affinity : ToRusqlite(Null) = Null /\ Stored(Null, affinity) = Null
  BY DEF ToRusqlite, Stored, Null
<1>2. \A intent : Present(intent, Null) = Null
  BY DEF Present, Null
<1>3. \A ty : ToSql(Null, ty) = Null /\ ValueOf(Null, ty) = Null
  BY DEF ToSql, ValueOf, Null
<1>4. QED
  BY <1>1, <1>2, <1>3 DEF Kept, Got, Backends

\* A text column keeps a text; PostgreSQL takes nothing else.
LEMMA TextColumn ==
  ASSUME call \in Calls, call.column = Portable.text
  PROVE  /\ Bound[1] = "text" => \A b \in Backends : Kept(b) = Bound /\ Got(b) = Bound
         /\ Kept("postgres") # Refused => Bound = Null \/ Bound[1] = "text"
<1>1. /\ call.column.decl = {"TEXT"} /\ call.column.pg = "text"
      /\ Affinity({"TEXT"}) = "text" /\ ColumnIntent({"TEXT"}) = "text"
  BY DEF Portable, Affinity, ColumnIntent
<1>2. CASE Bound[1] = "text"
  <2>1. ToRusqlite(Bound) = Bound /\ Bound = <<"text", Bound[2]>>
    BY <1>2, BoundIsValue DEF ToRusqlite
  <2>2. Stored(Bound, "text") = Bound /\ ToSql(Bound, "text") = Bound
    BY <1>2, <2>1 DEF Stored, ToSql, Null
  <2>3. Present("text", Bound) = Bound /\ ValueOf(Bound, "text") = Bound /\ OutOf(Bound) = Bound
    BY <1>2, <2>1 DEF Present, ValueOf, OutOf, Null
  <2>4. QED
    BY <1>1, <1>2, <2>1, <2>2, <2>3 DEF Kept, Got, Backends, Null
<1>3. Kept("postgres") # Refused => Bound = Null \/ Bound[1] = "text"
  BY <1>1 DEF Kept, ToSql
<1>4. QED
  BY <1>2, <1>3

\* An integer column keeps an integer, where it is wide enough for it;
\* PostgreSQL takes nothing else.
LEMMA IntColumn ==
  ASSUME call \in Calls, NEW c \in {"int", "bigint"}, call.column = Portable[c]
  PROVE  /\ Bound[1] = "int" =>
              /\ Kept("sqlite") = Bound /\ Got("sqlite") = Bound
              /\ c = "bigint" \/ Fits(Bound[2], ColBits) =>
                   Kept("postgres") = Bound /\ Got("postgres") = Bound
              /\ Kept("postgres") # Refused =>
                   Kept("postgres") = Bound /\ Got("postgres") = Bound
         /\ Kept("postgres") # Refused => Bound = Null \/ Bound[1] = "int"
<1>1. /\ call.column.decl = {"INT"}
      /\ call.column.pg = (IF c = "int" THEN "int4" ELSE "int8")
      /\ Affinity({"INT"}) = "integer" /\ ColumnIntent({"INT"}) = "int"
  BY DEF Portable, Affinity, ColumnIntent
<1>2. CASE Bound[1] = "int"
  <2>1. ToRusqlite(Bound) = Bound /\ Bound = <<"int", Bound[2]>>
    BY <1>2, BoundIsValue DEF ToRusqlite
  <2>2. Stored(Bound, "integer") = Bound
    BY <1>2, <2>1 DEF Stored
  <2>3. /\ ToSql(Bound, "int4") = IF Fits(Bound[2], ColBits) THEN Bound ELSE Refused
        /\ ToSql(Bound, "int8") = Bound
    BY <1>2, <2>1 DEF ToSql, Null, ColumnWidth
  <2>4. /\ Present("int", Bound) = Bound /\ OutOf(Bound) = Bound
        /\ ValueOf(Bound, "int4") = Bound /\ ValueOf(Bound, "int8") = Bound
    BY <1>2, <2>1 DEF Present, ValueOf, OutOf, Null
  <2>5. QED
    BY <1>1, <1>2, <2>1, <2>2, <2>3, <2>4 DEF Kept, Got, Backends, Null
<1>3. Kept("postgres") # Refused => Bound = Null \/ Bound[1] = "int"
  BY <1>1 DEF Kept, ToSql
<1>4. QED
  BY <1>2, <1>3

\* A float column keeps a float, and makes one of an integer the same way on
\* both databases; PostgreSQL takes nothing else.
LEMMA FloatColumn ==
  ASSUME call \in Calls, call.column = Portable.float
  PROVE  /\ Bound[1] = "float" => \A b \in Backends : Kept(b) = Bound /\ Got(b) = Bound
         /\ Bound[1] = "int" => Got("sqlite") = Got("postgres")
         /\ Kept("postgres") # Refused => Bound = Null \/ Bound[1] \in {"int", "float"}
<1>1. /\ call.column.decl = {"REAL"} /\ call.column.pg = "float8"
      /\ Affinity({"REAL"}) = "real" /\ ColumnIntent({"REAL"}) = "float"
  BY DEF Portable, Affinity, ColumnIntent
<1>2. CASE Bound[1] = "float"
  <2>1. ToRusqlite(Bound) = Bound /\ Bound = <<"float", Bound[2]>>
    BY <1>2, BoundIsValue DEF ToRusqlite
  <2>2. Stored(Bound, "real") = Bound /\ ToSql(Bound, "float8") = Bound
    BY <1>2, <2>1 DEF Stored, ToSql, Null
  <2>3. Present("float", Bound) = Bound /\ ValueOf(Bound, "float8") = Bound /\ OutOf(Bound) = Bound
    BY <1>2, <2>1 DEF Present, ValueOf, OutOf, Null
  <2>4. QED
    BY <1>1, <1>2, <2>1, <2>2, <2>3 DEF Kept, Got, Backends, Null
<1>3. CASE Bound[1] = "int"
  <2> DEFINE f == <<"float", AsFloat(Bound[2])>>
  <2>1. ToRusqlite(Bound) = Bound /\ Bound = <<"int", Bound[2]>>
    BY <1>3, BoundIsValue DEF ToRusqlite
  <2>2. Stored(Bound, "real") = f /\ ToSql(Bound, "float8") = f
    BY <1>3, <2>1 DEF Stored, ToSql, Null
  <2>3. Present("float", f) = f /\ ValueOf(f, "float8") = f
    BY DEF Present, ValueOf
  <2>4. QED
    BY <1>1, <2>1, <2>2, <2>3 DEF Kept, Got
<1>4. Kept("postgres") # Refused => Bound = Null \/ Bound[1] \in {"int", "float"}
  BY <1>1 DEF Kept, ToSql
<1>5. QED
  BY <1>2, <1>3, <1>4

\* A bool column keeps a bool (as an integer on SQLite); PostgreSQL takes
\* nothing else.
LEMMA BoolColumn ==
  ASSUME call \in Calls, call.column = Portable.bool
  PROVE  /\ Bound[1] = "bool" => \A b \in Backends : Kept(b) # Refused /\ Got(b) = Bound
         /\ Kept("postgres") # Refused => Bound = Null \/ Bound[1] = "bool"
<1>1. /\ call.column.decl = {"BOOL"} /\ call.column.pg = "bool"
      /\ Affinity({"BOOL"}) = "numeric" /\ ColumnIntent({"BOOL"}) = "bool"
  BY DEF Portable, Affinity, ColumnIntent
<1>2. CASE Bound[1] = "bool"
  <2> DEFINE i == <<"int", IF Bound[2] THEN 1 ELSE 0>>
  <2>1. ToRusqlite(Bound) = i /\ Bound = <<"bool", Bound[2]>> /\ Bound[2] \in BOOLEAN
    BY <1>2, BoundIsValue DEF ToRusqlite
  <2>2. Stored(i, "numeric") = i /\ ToSql(Bound, "bool") = Bound
    BY <1>2, <2>1 DEF Stored, ToSql, Null
  <2>3. /\ Present("bool", i) = <<"bool", i[2] = 1>>
        /\ ValueOf(Bound, "bool") = Bound /\ OutOf(Bound) = Bound
    BY <1>2, <2>1 DEF Present, ValueOf, OutOf, Null
  <2>4. <<"bool", i[2] = 1>> = Bound
    <3>1. CASE Bound[2] = TRUE
      BY <2>1, <3>1
    <3>2. CASE Bound[2] = FALSE
      BY <2>1, <3>2
    <3>3. QED
      BY <2>1, <3>1, <3>2
  <2>5. i # Refused /\ Bound # Refused
    BY <1>2 DEF Refused
  <2> HIDE DEF i
  <2>6. QED
    BY <1>1, <2>1, <2>2, <2>3, <2>4, <2>5 DEF Kept, Got, Backends
<1>3. Kept("postgres") # Refused => Bound = Null \/ Bound[1] = "bool"
  BY <1>1 DEF Kept, ToSql
<1>4. QED
  BY <1>2, <1>3

-----------------------------------------------------------------------------
\* What a program binds to a column of the portable schema it reads back in its
\* kind, on either database; only PostgreSQL's 32-bit column refuses anything.
THEOREM RoundTrip == Spec => []PortableRoundTrip
<1>1. OnItsWay => PortableRoundTrip
  <2> SUFFICES ASSUME OnItsWay, NEW c \in DOMAIN Portable, NEW b \in Backends,
                      call.column = Portable[c], Bound[1] \in {KindOf(c), "null"}
               PROVE  /\ step[b] = "read" => value[b] = OutOf(Bound)
                      /\ step[b] = "refused" =>
                           b = "postgres" /\ c = "int" /\ ~Fits(Bound[2], ColBits)
    BY DEF PortableRoundTrip, Bound
  <2>1. call \in Calls /\ c \in {"text", "int", "bigint", "float", "bool"}
    BY DEF OnItsWay, Portable
  <2>2. Bound[1] # "null" => OutOf(Bound) = Bound
    BY DEF OutOf, Null
  <2>3. /\ \/ Kept(b) # Refused /\ Got(b) = OutOf(Bound)
           \/ b = "postgres" /\ c = "int" /\ ~Fits(Bound[2], ColBits)
        /\ Kept(b) # Refused => Got(b) = OutOf(Bound)
    <3>1. CASE Bound = Null
      BY <3>1, NullStays DEF Null, Refused
    <3>2. CASE Bound # Null
      <4>1. Bound[1] = KindOf(c) /\ Bound # Refused
        BY <2>1, <3>2, BoundIsValue DEF Refused, KindOf
      <4>2. CASE c = "text"
        BY <2>1, <2>2, <4>1, <4>2, TextColumn DEF KindOf
      <4>3. CASE c \in {"int", "bigint"}
        BY <2>1, <2>2, <4>1, <4>3, IntColumn DEF KindOf, Backends
      <4>4. CASE c = "float"
        BY <2>1, <2>2, <4>1, <4>4, FloatColumn DEF KindOf
      <4>5. CASE c = "bool"
        BY <2>1, <2>2, <4>1, <4>5, BoolColumn DEF KindOf
      <4>6. QED
        BY <2>1, <4>2, <4>3, <4>4, <4>5
    <3>3. QED
      BY <3>1, <3>2
  <2>4. Bound # Refused /\ OutOf(Bound) # Refused
    BY <2>1 DEF Refused, OutOf, Null, KindOf
  <2>5. QED
    BY <2>3, <2>4 DEF OnItsWay
<1>2. QED
  BY <1>1, Way, PTL

\* What both databases take and give back for a column of the portable schema
\* is the same value.
THEOREM Agreement == Spec => []DatabasesAgree
<1>1. OnItsWay => DatabasesAgree
  <2> SUFFICES ASSUME OnItsWay, NEW c \in DOMAIN Portable, call.column = Portable[c],
                      \A b \in Backends : step[b] = "read"
               PROVE  value["sqlite"] = value["postgres"]
    BY DEF DatabasesAgree
  <2>1. call \in Calls /\ c \in {"text", "int", "bigint", "float", "bool"}
    BY DEF OnItsWay, Portable
  <2>2. /\ value["sqlite"] = Got("sqlite") /\ value["postgres"] = Got("postgres")
        /\ Kept("postgres") # Refused
    BY DEF OnItsWay, Backends
  <2>3. Got("sqlite") = Got("postgres")
    <3>1. CASE Bound = Null
      BY <3>1, NullStays DEF Backends
    <3>2. CASE Bound # Null
      <4>1. CASE c = "text"
        BY <2>1, <2>2, <3>2, <4>1, TextColumn DEF Backends
      <4>2. CASE c \in {"int", "bigint"}
        BY <2>1, <2>2, <3>2, <4>2, IntColumn
      <4>3. CASE c = "float"
        BY <2>1, <2>2, <3>2, <4>3, FloatColumn DEF Backends
      <4>4. CASE c = "bool"
        BY <2>1, <2>2, <3>2, <4>4, BoolColumn DEF Backends
      <4>5. QED
        BY <2>1, <4>1, <4>2, <4>3, <4>4
    <3>3. QED
      BY <3>1, <3>2
  <2>4. QED
    BY <2>2, <2>3
<1>2. QED
  BY <1>1, Way, PTL

-----------------------------------------------------------------------------
\* Powers of two and rounding.

\* The powers of two.
LEMMA Powers == /\ Pow2 \in [Nat -> Nat \ {0}]
                /\ Pow2[0] = 1
                /\ \A n \in Nat : Pow2[n + 1] = 2 * Pow2[n]
<1> DEFINE V == Nat \ {0}
           f == [p \in Nat \X V |-> 2 * p[2]]
<1>1. f \in [Nat \X V -> V] /\ 1 \in V
  OBVIOUS
<1>2. PICK g \in [Nat -> Nat \ {0}] : g[0] = 1 /\ \A n \in Nat : g[n + 1] = f[<<n, g[n]>>]
  <2> HIDE DEF f, V
  <2>1. \E g : Unfolds(g, V, 1, f)
    BY <1>1, Recursion
  <2>2. QED
    BY <2>1 DEF V, Unfolds
<1>3. \A n \in Nat : g[n + 1] = 2 * g[n]
  BY <1>2
<1>4. g = [k \in Nat |-> IF k = 0 THEN 1 ELSE 2 * g[k - 1]]
  <2>1. \A k \in Nat : g[k] = IF k = 0 THEN 1 ELSE 2 * g[k - 1]
    <3> TAKE k \in Nat
    <3>1. k # 0 => k - 1 \in Nat /\ (k - 1) + 1 = k
      OBVIOUS
    <3>2. QED
      BY <1>2, <1>3, <3>1
  <2>2. QED
    BY <2>1
<1>5. Pow2 = [k \in Nat |-> IF k = 0 THEN 1 ELSE 2 * Pow2[k - 1]]
  BY <1>4 DEF Pow2
<1>6. Pow2[0] = 1 /\ \A n \in Nat : Pow2[n + 1] = 2 * Pow2[n]
  BY <1>5
<1> DEFINE S == {n \in Nat : Pow2[n] \in Nat \ {0}}
<1>7. 0 \in S /\ \A n \in Nat : n \in S => n + 1 \in S
  BY <1>6
<1>8. Nat \subseteq S
  <2> HIDE DEF S
  <2>1. QED
    BY <1>7, Induction
<1>9. QED
  BY <1>5, <1>6, <1>8

\* A power of two is larger than its exponent, and a multiple of every smaller
\* one.
LEMMA Growth ==
  /\ \A n \in Nat : n < Pow2[n]
  /\ \A m, n \in Nat : Pow2[m + n] = Pow2[m] * Pow2[n]
  /\ \A m, n \in Nat : m <= n => Pow2[m] <= Pow2[n]
  /\ \A m, n \in Nat : Pow2[m] < Pow2[n] => m < n
<1>1. \A n \in Nat : n < Pow2[n]
  <2> DEFINE S == {n \in Nat : n < Pow2[n]}
  <2>1. 0 \in S /\ \A n \in Nat : n \in S => n + 1 \in S
    BY Powers
  <2> HIDE DEF S
  <2>2. Nat \subseteq S
    BY <2>1, Induction
  <2>3. QED
    BY <2>2 DEF S
<1>2. ASSUME NEW m \in Nat
      PROVE  \A n \in Nat : Pow2[m + n] = Pow2[m] * Pow2[n]
  <2> DEFINE S == {n \in Nat : Pow2[m + n] = Pow2[m] * Pow2[n]}
  <2>1. 0 \in S
    <3>1. Pow2[m] \in Nat /\ m + 0 = m
      BY Powers
    <3>2. QED
      BY <3>1, Powers
  <2>2. ASSUME NEW n \in Nat, n \in S
        PROVE  n + 1 \in S
    <3>1. Pow2[(m + n) + 1] = 2 * (Pow2[m] * Pow2[n]) /\ m + (n + 1) = (m + n) + 1
      BY <2>2, Powers
    <3>2. Pow2[m] \in Nat /\ Pow2[n] \in Nat /\ Pow2[n + 1] = 2 * Pow2[n]
      BY Powers
    <3>3. \A a, b \in Nat : 2 * (a * b) = a * (2 * b)
      OBVIOUS
    <3>4. QED
      BY <3>1, <3>2, <3>3
  <2> HIDE DEF S
  <2>3. Nat \subseteq S
    BY <2>1, <2>2, Induction
  <2>4. QED
    BY <2>3 DEF S
<1>3. ASSUME NEW m \in Nat, NEW n \in Nat, m <= n
      PROVE  Pow2[m] <= Pow2[n]
  <2>1. n - m \in Nat /\ n = m + (n - m)
    BY <1>3
  <2>2. Pow2[n] = Pow2[m] * Pow2[n - m]
    BY <1>2, <2>1
  <2>3. Pow2[m] \in Nat /\ Pow2[n - m] \in Nat \ {0}
    BY <2>1, Powers
  <2>4. \A a \in Nat, b \in Nat \ {0} : a <= a * b
    OBVIOUS
  <2>5. QED
    BY <2>2, <2>3, <2>4
<1>4. ASSUME NEW m \in Nat, NEW n \in Nat, Pow2[m] < Pow2[n]
      PROVE  m < n
  <2>1. Pow2[m] \in Nat /\ Pow2[n] \in Nat
    BY Powers
  <2>2. ~(n <= m)
    BY <1>3, <1>4, <2>1
  <2>3. QED
    BY <2>2
<1>5. QED
  BY <1>1, <1>2, <1>3, <1>4

\* Division with a remainder.
LEMMA Division ==
  ASSUME NEW m \in Nat, NEW u \in Nat \ {0}
  PROVE  /\ m \div u \in Nat /\ m % u \in Nat
         /\ m % u < u
         /\ m = (m \div u) * u + (m % u)
OBVIOUS

\* The unit of the last place of a magnitude, and what rounding to it makes.
Unit(m, bits) == CHOOSE k \in 0..m : m < Pow2[bits + k] /\ (k = 0 \/ m >= Pow2[bits + k - 1])

\* Every integer rounds to a mantissa of the given bits and an exponent.
LEMMA Rounding ==
  ASSUME NEW x \in Int, NEW bits \in Nat \ {0}
  PROVE  \E e \in Nat, k \in Nat :
           /\ Magnitude(x) < Pow2[bits + e]
           /\ e = 0 \/ Magnitude(x) >= Pow2[bits + e - 1]
           /\ Nearest(x, bits) = IF x < 0 THEN -(k * Pow2[e]) ELSE k * Pow2[e]
           /\ k * Pow2[e] <= Pow2[bits + e]
           /\ Magnitude(x) % Pow2[e] = 0 => k * Pow2[e] = Magnitude(x)
<1> DEFINE m == Magnitude(x)
<1>1. m \in Nat
  BY DEF Magnitude
<1> HIDE DEF m
<1>2. \E k \in 0..m : m < Pow2[bits + k] /\ (k = 0 \/ m >= Pow2[bits + k - 1])
  <2>1. SUFFICES ASSUME \A k \in 0..m : m < Pow2[bits + k] =>
                                         ~(k = 0 \/ m >= Pow2[bits + k - 1])
                 PROVE  FALSE
    OBVIOUS
  <2> DEFINE T == {j \in Nat : j <= m => m < Pow2[bits + (m - j)]}
  <2>2. 0 \in T
    <3>1. m < Pow2[m] /\ Pow2[m] <= Pow2[bits + m] /\ m - 0 = m
      BY <1>1, Growth
    <3>2. Pow2[m] \in Nat /\ Pow2[bits + m] \in Nat
      BY <1>1, Powers
    <3>3. QED
      BY <1>1, <3>1, <3>2
  <2>3. ASSUME NEW j \in Nat, j \in T
        PROVE  j + 1 \in T
    <3>1. SUFFICES ASSUME j + 1 <= m
                   PROVE  m < Pow2[bits + (m - (j + 1))]
      OBVIOUS
    <3>2. m - j \in 0..m /\ m < Pow2[bits + (m - j)]
      BY <1>1, <2>3, <3>1
    <3>3. m < Pow2[bits + (m - j) - 1]
      <4>1. m - j # 0 /\ ~(m >= Pow2[bits + (m - j) - 1])
        BY <2>1, <3>2
      <4>2. bits + (m - j) - 1 \in Nat
        BY <3>2, <4>1
      <4>3. QED
        BY <1>1, <4>1, <4>2, Powers
    <3>4. bits + (m - j) - 1 = bits + (m - (j + 1))
      BY <1>1
    <3>5. QED
      BY <3>3, <3>4
  <2>4. Nat \subseteq T
    <3> HIDE DEF T
    <3>1. QED
      BY <2>2, <2>3, Induction
  <2>5. m < Pow2[bits + 0]
    BY <1>1, <2>4
  <2>6. QED
    BY <1>1, <2>1, <2>5
<1> DEFINE e == Unit(m, bits)
<1>3. /\ e \in Nat
      /\ m < Pow2[bits + e] /\ (e = 0 \/ m >= Pow2[bits + e - 1])
  <2>1. e \in 0..m /\ m < Pow2[bits + e] /\ (e = 0 \/ m >= Pow2[bits + e - 1])
    BY <1>2, Zenon DEF Unit
  <2>2. QED
    BY <1>1, <2>1
<1> HIDE DEF e
<1> DEFINE u  == Pow2[e]
           q  == m \div u
           up == 2 * (m % u) > u \/ (2 * (m % u) = u /\ q % 2 = 1)
           k  == IF up THEN q + 1 ELSE q
<1>4. Nearest(x, bits) = IF x < 0 THEN -(k * u) ELSE k * u
  BY DEF Nearest, Unit, m, e
<1>5. u \in Nat \ {0} /\ Pow2[bits] \in Nat /\ Pow2[bits + e] = Pow2[bits] * u
  BY <1>3, Powers, Growth
<1> HIDE DEF u
<1>6. q \in Nat /\ m % u \in Nat /\ m % u < u /\ m = q * u + (m % u)
  BY <1>1, <1>5, Division
<1>7. k \in Nat
  BY <1>6
<1>8. q + 1 <= Pow2[bits]
  <2>1. q * u < Pow2[bits] * u
    BY <1>1, <1>3, <1>5, <1>6
  <2>2. \A a, b \in Nat, c \in Nat \ {0} : a * c < b * c => a < b
    OBVIOUS
  <2>3. QED
    BY <1>5, <1>6, <2>1, <2>2
<1>9. k * u <= Pow2[bits + e]
  <2>1. k <= Pow2[bits]
    BY <1>5, <1>6, <1>8
  <2>2. \A a, b, c \in Nat : a <= b => a * c <= b * c
    OBVIOUS
  <2>3. QED
    BY <1>5, <1>7, <2>1, <2>2
<1>10. m % u = 0 => k * u = m
  BY <1>1, <1>5, <1>6
<1>11. QED
  BY <1>3, <1>4, <1>7, <1>9, <1>10 DEF m, u

-----------------------------------------------------------------------------
\* Numbers as floats and back.

\* An integer as a float: a whole number again, itself where it is a power of
\* two, and no larger than the next power of two.
LEMMA AsFloatBounds ==
  ASSUME NEW n \in Int, NEW b \in Nat \ {0}
  PROVE  /\ AsFloat(n) \in Int
         /\ \E w \in Int : AsFloat(n) = 2 * w
         /\ n \in 0..(Pow2[b - 1] - 1) => AsFloat(n) <= Pow2[b]
         /\ n = -Pow2[b - 1] => AsFloat(n) = -Pow2[b]
<1> DEFINE x == 2 * n
           m == Magnitude(x)
<1>1. Mantissa \in Nat \ {0} /\ x \in Int /\ m \in Nat
  BY ConversionsAssumption DEF Magnitude
<1>2. PICK e \in Nat, k \in Nat :
        /\ m < Pow2[Mantissa + e]
        /\ e = 0 \/ m >= Pow2[Mantissa + e - 1]
        /\ Nearest(x, Mantissa) = IF x < 0 THEN -(k * Pow2[e]) ELSE k * Pow2[e]
        /\ k * Pow2[e] <= Pow2[Mantissa + e]
        /\ m % Pow2[e] = 0 => k * Pow2[e] = m
  BY <1>1, Rounding
<1> DEFINE r == k * Pow2[e]
<1>3. Pow2[e] \in Nat \ {0} /\ r \in Nat
  BY Powers
<1>4. AsFloat(n) = IF n < 0 THEN -r ELSE r
  BY <1>2 DEF AsFloat
<1>5. e = 0 => r = m
  BY <1>1, <1>2, Powers
<1>6. \E w \in Int : r = 2 * w
  <2>1. CASE e = 0
    <3>1. m = 2 * (IF n < 0 THEN -n ELSE n) /\ (IF n < 0 THEN -n ELSE n) \in Int
      BY DEF Magnitude
    <3> HIDE DEF m
    <3>2. QED
      BY <1>5, <2>1, <3>1
  <2>2. CASE e # 0
    <3>1. e - 1 \in Nat /\ Pow2[e] = 2 * Pow2[e - 1] /\ Pow2[e - 1] \in Nat
      <4>1. e - 1 \in Nat /\ (e - 1) + 1 = e
        BY <2>2
      <4>2. QED
        BY <4>1, Powers
    <3>2. \A a, c \in Nat : a * (2 * c) = 2 * (a * c) /\ a * c \in Int
      OBVIOUS
    <3>3. QED
      BY <3>1, <3>2
  <2>3. QED
    BY <2>1, <2>2
<1> HIDE DEF r, m
<1>7. \E w \in Int : AsFloat(n) = 2 * w
  <2>1. PICK w \in Int : r = 2 * w
    BY <1>6
  <2>2. -r = 2 * (-w) /\ -w \in Int
    BY <2>1
  <2>3. QED
    BY <1>4, <2>1, <2>2
<1>8. b - 1 \in Nat /\ Pow2[b] = 2 * Pow2[b - 1] /\ Pow2[b - 1] \in Nat \ {0} /\ Pow2[b] \in Nat
  <2>1. b - 1 \in Nat /\ (b - 1) + 1 = b
    OBVIOUS
  <2>2. QED
    BY <2>1, Powers
<1>9. ASSUME n \in 0..(Pow2[b - 1] - 1)
      PROVE  AsFloat(n) <= Pow2[b]
  <2>1. m = 2 * n /\ m < Pow2[b]
    BY <1>8, <1>9 DEF m, Magnitude
  <2>2. CASE e = 0
    BY <1>4, <1>5, <1>8, <1>9, <2>1, <2>2
  <2>3. CASE e # 0
    <3>1. Mantissa + e - 1 \in Nat /\ Pow2[Mantissa + e - 1] \in Nat /\ Pow2[Mantissa + e] \in Nat
      BY <1>1, <2>3, Powers
    <3>2. Pow2[Mantissa + e - 1] < Pow2[b]
      BY <1>1, <1>2, <1>8, <2>1, <2>3, <3>1
    <3>3. Mantissa + e - 1 < b
      BY <3>1, <3>2, Growth
    <3>4. Mantissa + e <= b
      BY <1>1, <3>3
    <3>5. Pow2[Mantissa + e] <= Pow2[b]
      BY <1>1, <3>4, Growth
    <3>6. r <= Pow2[b]
      BY <1>2, <1>3, <1>8, <3>1, <3>5 DEF r
    <3>7. QED
      BY <1>4, <1>9, <3>6
  <2>4. QED
    BY <2>2, <2>3
<1>10. ASSUME n = -Pow2[b - 1]
       PROVE  AsFloat(n) = -Pow2[b]
  <2>1. n < 0 /\ m = Pow2[b]
    BY <1>8, <1>10 DEF m, Magnitude
  <2>2. e <= b
    <3>1. CASE e # 0
      <4>1. Mantissa + e - 1 \in Nat /\ e <= Mantissa + e - 1
        BY <1>1, <3>1
      <4>2. Pow2[Mantissa + e - 1] <= Pow2[b]
        BY <1>2, <2>1, <3>1
      <4>3. ~(b < Mantissa + e - 1)
        <5>1. ASSUME b < Mantissa + e - 1
              PROVE  Pow2[b] < Pow2[Mantissa + e - 1]
          <6>1. b + 1 <= Mantissa + e - 1 /\ Pow2[b + 1] = 2 * Pow2[b] /\ Pow2[b] > 0
            BY <4>1, <5>1, Powers
          <6>2. Pow2[b + 1] <= Pow2[Mantissa + e - 1]
            <7>1. \A i, j \in Nat : i <= j => Pow2[i] <= Pow2[j]
              BY Growth
            <7>2. b + 1 \in Nat
              OBVIOUS
            <7>3. QED
              BY <4>1, <6>1, <7>1, <7>2
          <6>3. Pow2[Mantissa + e - 1] \in Nat
            BY <4>1, Powers
          <6>4. QED
            BY <1>8, <6>1, <6>2, <6>3
        <5>2. Pow2[Mantissa + e - 1] \in Nat
          BY <4>1, Powers
        <5>3. QED
          BY <1>8, <4>2, <5>1, <5>2
      <4>4. QED
        BY <4>1, <4>3
    <3>2. CASE e = 0
      BY <3>2
    <3>3. QED
      BY <3>1, <3>2
  <2>3. b - e \in Nat /\ e + (b - e) = b
    BY <2>2
  <2>4. Pow2[b] = Pow2[e] * Pow2[b - e] /\ Pow2[b - e] \in Nat
    <3>1. Pow2[b - e] \in Nat
      BY <2>3, Powers
    <3>2. \A i, j \in Nat : Pow2[i + j] = Pow2[i] * Pow2[j]
      BY Growth
    <3>3. Pow2[e + (b - e)] = Pow2[e] * Pow2[b - e]
      BY <1>1, <2>3, <3>2
    <3>4. QED
      BY <2>3, <3>1, <3>3
  <2>5. \A u \in Nat \ {0}, c \in Nat : (u * c) % u = 0
    OBVIOUS
  <2>6. r = m
    BY <1>2, <1>3, <2>1, <2>4, <2>5 DEF r
  <2>7. QED
    BY <1>4, <2>1, <2>6
<1>11. AsFloat(n) \in Int
  BY <1>3, <1>4
<1>12. QED
  BY <1>7, <1>9, <1>10, <1>11

\* `f as i64` of a whole number is that number within the range of an integer,
\* and the nearest end of the range beyond it.
LEMMA AsIntWhole ==
  ASSUME NEW w \in Int
  PROVE  AsInt(2 * w) = IF w > MaxOf(IntBits) THEN MaxOf(IntBits)
                        ELSE IF w < MinOf(IntBits) THEN MinOf(IntBits) ELSE w
<1>1. (IF 2 * w < 0 THEN -((-(2 * w)) \div 2) ELSE (2 * w) \div 2) = w
  OBVIOUS
<1>2. QED
  BY <1>1 DEF AsInt

\* The ends of the range of an integer.
LEMMA Range64 ==
  /\ MinOf(IntBits) = -Pow2[IntBits - 1] /\ MaxOf(IntBits) = Pow2[IntBits - 1] - 1
  /\ Pow2[IntBits] = 2 * Pow2[IntBits - 1] /\ Pow2[IntBits - 1] \in Nat \ {0}
  /\ IntBits \in Nat \ {0}
<1>1. IntBits - 1 \in Nat /\ (IntBits - 1) + 1 = IntBits /\ IntBits \in Nat \ {0}
  BY ConversionsAssumption
<1>2. QED
  BY <1>1, Powers DEF MinOf, MaxOf

\* What SQLite has stored is a number where it says so.
LEMMA StoredIsNumber ==
  ASSUME call \in Calls
  PROVE  /\ Kept("sqlite")[1] \in {"int", "float"} => Kept("sqlite")[2] \in Int
         /\ Kept("sqlite") = <<Kept("sqlite")[1], Kept("sqlite")[2]>>
<1> DEFINE v == ToRusqlite(Bound)
           a == Affinity(call.column.decl)
           number == IF v[1] = "text" THEN v[2] ELSE v
<1>1. /\ v = <<v[1], v[2]>>
      /\ v[1] \in {"int", "float"} => v[2] \in Int
      /\ v[1] = "text" /\ v[2][1] \in {"int", "float"} => v[2] \in {"int", "float"} \X Int
  BY BoundIsValue DEF ToRusqlite
<1>2. a \in {"integer", "text", "blob", "real", "numeric"}
  BY DEF Affinity
<1>3. \A n \in Int : AsFloat(n) \in Int
  BY AsFloatBounds, Range64
<1>4. \A h \in Int : AsInt(h) \in Int
  <2>1. MaxOf(IntBits) \in Int /\ MinOf(IntBits) \in Int
    BY Range64
  <2>2. \A h \in Int : (IF h < 0 THEN -((-h) \div 2) ELSE h \div 2) \in Int
    OBVIOUS
  <2>3. QED
    BY <2>1, <2>2 DEF AsInt
<1> HIDE DEF v, a
<1>5. Kept("sqlite") = Stored(v, a)
  BY DEF Kept, v, a
<1>6. CASE number[1] \notin {"int", "float"} \/ a = "blob"
  BY <1>1, <1>5, <1>6 DEF Stored
<1>7. CASE number[1] \in {"int", "float"} /\ a # "blob"
  <2>1. number = <<number[1], number[2]>> /\ number[2] \in Int
    BY <1>1, <1>7
  <2> HIDE DEF number
  <2>2. Stored(v, a) \in {<<"text", number>>, number, <<"float", AsFloat(number[2])>>,
                         <<"int", AsInt(number[2])>>}
    BY <1>2, <1>7 DEF Stored, number
  <2>3. QED
    BY <1>3, <1>4, <1>5, <2>1, <2>2
<1>8. QED
  BY <1>6, <1>7

\* What a declared type makes of a stored number is that number, save for the
\* largest integer and the double next above it.
LEMMA Recovered ==
  ASSUME NEW v, v = <<v[1], v[2]>>, v[1] \in {"int", "float"}, v[2] \in Int, NEW intent,
         v # <<"int", MaxOf(IntBits)>>, v # <<"float", 2 * (MaxOf(IntBits) + 1)>>
  PROVE  RecoversExactly(v, intent)
<1> DEFINE n == v[2]
<1>1. CASE Present(intent, v) = v
  BY <1>1 DEF RecoversExactly
<1>2. CASE Present(intent, v)[1] = "bool"
  BY <1>2 DEF RecoversExactly
<1>3. CASE intent = "float" /\ v[1] = "int" /\ AsInt(AsFloat(n)) = n
  <2>1. Present(intent, v) = <<"float", AsFloat(n)>>
    BY <1>3 DEF Present
  <2>2. PICK w \in Int : AsFloat(n) = 2 * w
    BY AsFloatBounds, Range64
  <2>3. w = n
    <3>1. n = IF w > MaxOf(IntBits) THEN MaxOf(IntBits)
              ELSE IF w < MinOf(IntBits) THEN MinOf(IntBits) ELSE w
      BY <1>3, <2>2, AsIntWhole
    <3>2. n # MaxOf(IntBits)
      BY <1>3
    <3>3. n = MinOf(IntBits) => w = MinOf(IntBits)
      <4>1. AsFloat(-Pow2[IntBits - 1]) = -Pow2[IntBits]
        BY AsFloatBounds, Range64
      <4>2. QED
        BY <2>2, <4>1, Range64
    <3>4. QED
      BY <3>1, <3>2, <3>3
  <2>4. QED
    BY <1>3, <2>1, <2>2, <2>3 DEF RecoversExactly, Number
<1>4. CASE /\ intent = "int" /\ v[1] = "float" /\ n % 2 = 0
           /\ n >= AsFloat(MinOf(IntBits)) /\ n <= AsFloat(MaxOf(IntBits))
  <2>1. Present(intent, v) = <<"int", AsInt(n)>>
    BY <1>4 DEF Present
  <2>2. PICK w \in Int : n = 2 * w
    <3>1. n = 2 * (n \div 2) /\ n \div 2 \in Int
      BY <1>4
    <3>2. QED
      BY <3>1
  <2>3. w >= MinOf(IntBits)
    <3>1. AsFloat(MinOf(IntBits)) = -Pow2[IntBits]
      BY AsFloatBounds, Range64
    <3>2. QED
      BY <1>4, <2>2, <3>1, Range64
  <2>4. w <= MaxOf(IntBits)
    <3>1. MaxOf(IntBits) \in 0..(Pow2[IntBits - 1] - 1) /\ MaxOf(IntBits) \in Int
      BY Range64
    <3>2. AsFloat(MaxOf(IntBits)) <= Pow2[IntBits] /\ AsFloat(MaxOf(IntBits)) \in Int
      BY <3>1, AsFloatBounds, Range64
    <3>3. w # MaxOf(IntBits) + 1
      BY <1>4, <2>2
    <3>4. QED
      BY <1>4, <2>2, <3>2, <3>3, Range64
  <2>5. AsInt(n) = w
    BY <2>2, <2>3, <2>4, AsIntWhole, Range64
  <2>6. QED
    BY <1>4, <2>1, <2>2, <2>5 DEF RecoversExactly, Number
<1>5. QED
  BY <1>1, <1>2, <1>3, <1>4 DEF Present

\* The recoveries on SQLite lose nothing below the edge of the range of an
\* integer, whatever the widths.
THEOREM NothingIsLost == Spec => []LosslessBelowTheEdge
<1>1. OnItsWay => LosslessBelowTheEdge
  <2> SUFFICES ASSUME OnItsWay, step["sqlite"] = "stored",
                      value["sqlite"] \notin {<<"int", MaxOf(IntBits)>>,
                                              <<"float", 2 * (MaxOf(IntBits) + 1)>>}
               PROVE  RecoversExactly(value["sqlite"], ColumnIntent(call.column.decl))
    BY DEF LosslessBelowTheEdge
  <2>1. value["sqlite"] = Kept("sqlite") /\ call \in Calls
    BY DEF OnItsWay, Backends
  <2>2. CASE value["sqlite"][1] \notin {"int", "float"}
    BY <2>2 DEF RecoversExactly
  <2>3. CASE value["sqlite"][1] \in {"int", "float"}
    BY <2>1, <2>3, StoredIsNumber, Recovered
  <2>4. QED
    BY <2>2, <2>3
<1>2. QED
  BY <1>1, Way, PTL

-----------------------------------------------------------------------------
\* Placeholders.

Symbols    == STRING \cup {ToString(k) : k \in Nat}
ScanStates == [out : Seq(Symbols), n : Nat, single : BOOLEAN, double : BOOLEAN]
ScanStart  == [out |-> <<>>, n |-> 0, single |-> FALSE, double |-> FALSE]

\* What one character does.
LEMMA OneChar ==
  ASSUME NEW s \in ScanStates, NEW c \in STRING
  PROVE  /\ ReadChar(s, c) \in ScanStates
         /\ ReadChar(s, c).single = IF c = "'" /\ ~s.double THEN ~s.single ELSE s.single
         /\ ReadChar(s, c).double = IF c = "\"" /\ ~s.single THEN ~s.double ELSE s.double
         /\ ReadChar(s, c).n = IF c = "?" /\ ~s.single /\ ~s.double THEN s.n + 1 ELSE s.n
         /\ ReadChar(s, c).out =
              Append(s.out, IF c = "?" /\ ~s.single /\ ~s.double THEN ToString(s.n + 1) ELSE c)
<1> DEFINE parameter == c = "?" /\ ~s.single /\ ~s.double
           put == IF parameter THEN ToString(s.n + 1) ELSE c
<1>1. s.out \in Seq(Symbols) /\ s.n \in Nat /\ s.single \in BOOLEAN /\ s.double \in BOOLEAN
  BY DEF ScanStates
<1>2. put \in Symbols
  BY <1>1 DEF Symbols
<1>3. Append(s.out, put) \in Seq(Symbols)
  <2> HIDE DEF put
  <2>1. QED
    BY <1>1, <1>2
<1> DEFINE o  == Append(s.out, put)
           k  == IF parameter THEN s.n + 1 ELSE s.n
           si == s.single # (c = "'" /\ ~s.double)
           do == s.double # (c = "\"" /\ ~s.single)
<1>4. ReadChar(s, c) = [out |-> o, n |-> k, single |-> si, double |-> do]
  BY DEF ReadChar
<1>5. /\ si = IF c = "'" /\ ~s.double THEN ~s.single ELSE s.single
      /\ do = IF c = "\"" /\ ~s.single THEN ~s.double ELSE s.double
  BY <1>1, Zenon
<1>6. si \in BOOLEAN /\ do \in BOOLEAN /\ k \in Nat
  BY <1>1
<1>7. /\ ReadChar(s, c) \in ScanStates
      /\ ReadChar(s, c).out = o /\ ReadChar(s, c).n = k
      /\ ReadChar(s, c).single = si /\ ReadChar(s, c).double = do
  <2> HIDE DEF put, parameter, k, si, do
  <2>1. o \in Seq(Symbols)
    BY <1>3
  <2> HIDE DEF o
  <2>2. QED
    BY <1>4, <1>6, <2>1 DEF ScanStates
<1>8. QED
  BY <1>5, <1>7, Zenon

\* The scan of a statement goes on from its start, character by character.
LEMMA ScanSteps ==
  ASSUME NEW text \in Seq(STRING)
  PROVE  /\ Scan(text)[0] = ScanStart
         /\ \A i \in 0..Len(text) : Scan(text)[i] \in ScanStates
         /\ \A i \in 0..(Len(text) - 1) : Scan(text)[i + 1] = ReadChar(Scan(text)[i], text[i + 1])
<1> DEFINE N == Len(text)
           f == [p \in Nat \X ScanStates |-> IF p[1] < N THEN ReadChar(p[2], text[p[1] + 1])
                                            ELSE p[2]]
<1>1. N \in Nat /\ \A i \in 0..(N - 1) : i + 1 \in 1..N /\ text[i + 1] \in STRING
  OBVIOUS
<1> HIDE DEF N
<1>2. f \in [Nat \X ScanStates -> ScanStates]
  <2>1. ASSUME NEW i \in Nat, NEW s \in ScanStates
        PROVE  (IF i < N THEN ReadChar(s, text[i + 1]) ELSE s) \in ScanStates
    <3>1. CASE i < N
      <4>1. text[i + 1] \in STRING
        BY <1>1, <3>1
      <4>2. QED
        BY <3>1, <4>1, OneChar
    <3>2. QED
      BY <1>1, <3>1
  <2>2. \A p \in Nat \X ScanStates : p[1] \in Nat /\ p[2] \in ScanStates
    OBVIOUS
  <2>3. QED
    BY <2>1, <2>2
<1>3. ScanStart \in ScanStates
  BY DEF ScanStart, ScanStates
<1>4. PICK g : Unfolds(g, ScanStates, ScanStart, f)
  <2> HIDE DEF f
  <2>1. QED
    BY <1>2, <1>3, Recursion
<1>5. /\ g[0] = ScanStart /\ \A i \in Nat : g[i] \in ScanStates
      /\ \A i \in 0..(N - 1) : g[i + 1] = ReadChar(g[i], text[i + 1])
  <2>1. ASSUME NEW i \in 0..(N - 1)
        PROVE  g[i + 1] = ReadChar(g[i], text[i + 1])
    <3>1. i \in Nat /\ i < N
      BY <1>1
    <3>2. g[i] \in ScanStates /\ g[i + 1] = f[<<i, g[i]>>]
      BY <1>4, <3>1 DEF Unfolds
    <3>3. QED
      BY <3>1, <3>2
  <2>2. QED
    BY <1>4, <2>1 DEF Unfolds
<1> DEFINE h == [i \in 0..N |-> g[i]]
<1>6. h = [i \in 0..N |-> IF i = 0 THEN ScanStart ELSE ReadChar(h[i - 1], text[i])]
  <2>1. ASSUME NEW i \in 0..N
        PROVE  h[i] = IF i = 0 THEN ScanStart ELSE ReadChar(h[i - 1], text[i])
    <3>1. CASE i = 0
      BY <1>5, <3>1
    <3>2. CASE i # 0
      <4>1. i - 1 \in 0..(N - 1) /\ (i - 1) + 1 = i /\ i - 1 \in 0..N
        BY <1>1, <3>2
      <4>2. g[(i - 1) + 1] = ReadChar(g[i - 1], text[(i - 1) + 1])
        BY <1>5, <4>1
      <4>3. QED
        BY <3>2, <4>1, <4>2
    <3>3. QED
      BY <3>1, <3>2
  <2>2. QED
    BY <2>1
<1>7. Scan(text) = [i \in 0..N |-> IF i = 0 THEN ScanStart ELSE ReadChar(Scan(text)[i - 1], text[i])]
  <2> HIDE DEF h
  <2>1. QED
    BY <1>6 DEF Scan, ScanStart, N
<1> DEFINE S == {i \in Nat : i <= N => Scan(text)[i] \in ScanStates}
<1>8. /\ Scan(text)[0] = ScanStart
      /\ \A i \in 0..(N - 1) : Scan(text)[i + 1] = ReadChar(Scan(text)[i], text[i + 1])
  BY <1>1, <1>7
<1>9. 0 \in S /\ \A i \in Nat : i \in S => i + 1 \in S
  <2>1. ASSUME NEW i \in S, i + 1 <= N
        PROVE  Scan(text)[i + 1] \in ScanStates
    <3>1. i \in 0..(N - 1) /\ Scan(text)[i] \in ScanStates
      BY <1>1, <2>1
    <3>2. text[i + 1] \in STRING
      BY <1>1, <3>1
    <3>3. Scan(text)[i + 1] = ReadChar(Scan(text)[i], text[i + 1])
      BY <1>8, <3>1
    <3>4. QED
      BY <3>1, <3>2, <3>3, OneChar
  <2>2. QED
    BY <1>3, <1>8, <2>1
<1>10. Nat \subseteq S
  <2> HIDE DEF S
  <2>1. QED
    BY <1>9, Induction
<1>11. QED
  BY <1>1, <1>8, <1>10 DEF N

\* Neither in a literal nor in a quoted identifier.
Free(s) == ~s.single /\ ~s.double

\* A quote opens what is not open, and closes what its kind has opened.
LEMMA OneQuote ==
  ASSUME NEW s \in ScanStates, NEW c \in STRING, ~(s.single /\ s.double)
  PROVE  /\ ~(ReadChar(s, c).single /\ ReadChar(s, c).double)
         /\ ReadChar(s, c).single <=> IF c = "'" THEN Free(s) ELSE s.single
         /\ ReadChar(s, c).double <=> IF c = "\"" THEN Free(s) ELSE s.double
<1> DEFINE t == ReadChar(s, c)
<1>1. /\ t.single = IF c = "'" /\ ~s.double THEN ~s.single ELSE s.single
      /\ t.double = IF c = "\"" /\ ~s.single THEN ~s.double ELSE s.double
      /\ t \in ScanStates
  BY OneChar
<1> HIDE DEF t
<1>2. s.single \in BOOLEAN /\ s.double \in BOOLEAN /\ t.single \in BOOLEAN /\ t.double \in BOOLEAN
  BY <1>1 DEF ScanStates
<1>3. CASE c = "'"
  <2>1. c # "\""
    BY <1>3
  <2>2. CASE s.double
    BY <1>1, <1>2, <1>3, <2>1, <2>2 DEF Free, t
  <2>3. CASE ~s.double
    BY <1>1, <1>2, <1>3, <2>1, <2>3 DEF Free, t
  <2>4. QED
    BY <2>2, <2>3
<1>4. CASE c = "\""
  <2>1. c # "'"
    BY <1>4
  <2>2. CASE s.single
    BY <1>1, <1>2, <1>4, <2>1, <2>2 DEF Free, t
  <2>3. CASE ~s.single
    BY <1>1, <1>2, <1>4, <2>1, <2>3 DEF Free, t
  <2>4. QED
    BY <2>2, <2>3
<1>5. CASE c # "'" /\ c # "\""
  BY <1>1, <1>2, <1>5 DEF Free, t
<1>6. QED
  BY <1>3, <1>4, <1>5

\* A quote before i opened what no quote of its kind has closed by i.
Open(text, i, q) ==
  \E j \in 1..i : /\ text[j] = q /\ Free(Scan(text)[j - 1])
                  /\ \A k \in (j + 1)..i : text[k] # q

\* What one more character does to an open literal.
LEMMA OpenSteps ==
  ASSUME NEW text \in Seq(STRING), NEW i \in 0..(Len(text) - 1), NEW q
  PROVE  Open(text, i + 1, q) <=> IF text[i + 1] = q THEN Free(Scan(text)[i])
                                  ELSE Open(text, i, q)
<1> DEFINE N == Len(text)
<1>1. i \in Nat /\ i + 1 \in 1..(i + 1) /\ (i + 1) - 1 = i
  OBVIOUS
<1>2. \A j \in 1..(i + 1) : j = i + 1 \/ j \in 1..i
  BY <1>1
<1>3. CASE text[i + 1] = q
  <2>1. ASSUME Free(Scan(text)[i])
        PROVE  Open(text, i + 1, q)
    <3>1. \A k \in (i + 2)..(i + 1) : FALSE
      BY <1>1
    <3>2. text[i + 1] = q /\ Free(Scan(text)[(i + 1) - 1])
          /\ \A k \in ((i + 1) + 1)..(i + 1) : text[k] # q
      BY <1>1, <1>3, <2>1, <3>1
    <3>3. QED
      BY <1>1, <3>2 DEF Open
  <2>2. ASSUME Open(text, i + 1, q)
        PROVE  Free(Scan(text)[i])
    <3>1. PICK j \in 1..(i + 1) : /\ Free(Scan(text)[j - 1])
                                  /\ \A k \in (j + 1)..(i + 1) : text[k] # q
      BY <2>2 DEF Open
    <3>2. j = i + 1
      <4>1. j \notin 1..i
        BY <1>1, <1>3, <3>1
      <4>2. QED
        BY <1>2, <4>1
    <3>3. QED
      BY <1>1, <3>1, <3>2
  <2>3. QED
    BY <1>3, <2>1, <2>2
<1>4. CASE text[i + 1] # q
  <2>1. ASSUME Open(text, i + 1, q)
        PROVE  Open(text, i, q)
    <3>1. PICK j \in 1..(i + 1) : /\ text[j] = q /\ Free(Scan(text)[j - 1])
                                  /\ \A k \in (j + 1)..(i + 1) : text[k] # q
      BY <2>1 DEF Open
    <3>2. j \in 1..i
      BY <1>2, <1>4, <3>1
    <3>3. \A k \in (j + 1)..i : k \in (j + 1)..(i + 1)
      BY <1>1, <3>2
    <3>4. QED
      BY <3>1, <3>2, <3>3 DEF Open
  <2>2. ASSUME Open(text, i, q)
        PROVE  Open(text, i + 1, q)
    <3>1. PICK j \in 1..i : /\ text[j] = q /\ Free(Scan(text)[j - 1])
                            /\ \A k \in (j + 1)..i : text[k] # q
      BY <2>2 DEF Open
    <3>2. \A k \in (j + 1)..(i + 1) : k = i + 1 \/ k \in (j + 1)..i
      BY <1>1
    <3>3. j \in 1..(i + 1) /\ \A k \in (j + 1)..(i + 1) : text[k] # q
      BY <1>1, <1>4, <3>1, <3>2
    <3>4. QED
      BY <3>1, <3>3 DEF Open
  <2>3. QED
    BY <1>4, <2>1, <2>2
<1>5. QED
  BY <1>3, <1>4

\* The scan is in a literal exactly when a quote has opened one, and never in
\* a literal and a quoted identifier at once.
InQuotes(text, i) ==
  /\ ~(Scan(text)[i].single /\ Scan(text)[i].double)
  /\ Scan(text)[i].single <=> Open(text, i, "'")
  /\ Scan(text)[i].double <=> Open(text, i, "\"")

\* So it is after each character.
LEMMA QuotesOpen ==
  ASSUME NEW text \in Seq(STRING)
  PROVE  \A i \in 0..Len(text) : InQuotes(text, i)
<1> DEFINE N == Len(text)
           sc == Scan(text)
           S == {i \in Nat : i <= N => InQuotes(text, i)}
<1>1. N \in Nat /\ \A i \in 0..(N - 1) : text[i + 1] \in STRING
  OBVIOUS
<1>2. 0 \in S
  <2>1. ~Open(text, 0, "'") /\ ~Open(text, 0, "\"")
    BY DEF Open
  <2>2. ~sc[0].single /\ ~sc[0].double
    BY ScanSteps DEF ScanStart
  <2>3. QED
    BY <2>1, <2>2 DEF InQuotes
<1>3. ASSUME NEW i \in S
      PROVE  i + 1 \in S
  <2> SUFFICES ASSUME i + 1 <= N
               PROVE  InQuotes(text, i + 1)
    BY <1>3
  <2>1. i \in 0..(N - 1) /\ i \in 0..N /\ InQuotes(text, i)
    BY <1>1, <1>3
  <2>2. sc[i] \in ScanStates /\ sc[i + 1] = ReadChar(sc[i], text[i + 1]) /\ text[i + 1] \in STRING
    BY <1>1, <2>1, ScanSteps
  <2>3. /\ Open(text, i + 1, "'") <=> IF text[i + 1] = "'" THEN Free(sc[i])
                                      ELSE Open(text, i, "'")
        /\ Open(text, i + 1, "\"") <=> IF text[i + 1] = "\"" THEN Free(sc[i])
                                       ELSE Open(text, i, "\"")
    BY <2>1, OpenSteps
  <2>4. /\ ~(sc[i + 1].single /\ sc[i + 1].double)
        /\ sc[i + 1].single <=> IF text[i + 1] = "'" THEN Free(sc[i]) ELSE sc[i].single
        /\ sc[i + 1].double <=> IF text[i + 1] = "\"" THEN Free(sc[i]) ELSE sc[i].double
    <3>1. ~(sc[i].single /\ sc[i].double)
      BY <2>1 DEF InQuotes
    <3> HIDE DEF sc
    <3>2. PICK s \in ScanStates, c \in STRING : s = sc[i] /\ c = text[i + 1]
      BY <2>2
    <3>3. /\ ~(ReadChar(s, c).single /\ ReadChar(s, c).double)
          /\ ReadChar(s, c).single <=> IF c = "'" THEN Free(s) ELSE s.single
          /\ ReadChar(s, c).double <=> IF c = "\"" THEN Free(s) ELSE s.double
      <4>1. ~(s.single /\ s.double)
        BY <3>1, <3>2, Zenon
      <4>2. QED
        BY <4>1, OneQuote, Zenon
    <3>4. sc[i + 1] = ReadChar(s, c)
      BY <2>2, <3>2
    <3>5. QED
      BY <3>2, <3>3, <3>4, Zenon
  <2>5. /\ sc[i].single <=> Open(text, i, "'")
        /\ sc[i].double <=> Open(text, i, "\"")
    BY <2>1 DEF InQuotes
  <2>6. /\ sc[i + 1].single <=> Open(text, i + 1, "'")
        /\ sc[i + 1].double <=> Open(text, i + 1, "\"")
    BY <2>3, <2>4, <2>5
  <2>7. QED
    BY <2>4, <2>6 DEF InQuotes
<1>4. Nat \subseteq S
  <2> HIDE DEF S
  <2>1. QED
    BY <1>2, <1>3, Induction
<1>5. QED
  BY <1>1, <1>4

\* f says of each prefix whether it ends outside of literals.
Ending(f, text, i) ==
  IF i = 0 THEN TRUE
  ELSE IF text[i] \notin {"'", "\""} THEN f[i - 1]
       ELSE \E j \in 1..(i - 1) : /\ text[j] = text[i] /\ f[j - 1]
                                  /\ \A k \in (j + 1)..(i - 1) : text[k] # text[i]

Divides(f, text) == f = [i \in 0..Len(text) |-> Ending(f, text, i)]

\* The scan divides a text that way.
LEMMA ScanDivides ==
  ASSUME NEW text \in Seq(STRING)
  PROVE  Divides([i \in 0..Len(text) |-> Free(Scan(text)[i])], text)
<1> DEFINE N == Len(text)
           sc == Scan(text)
           h == [i \in 0..N |-> Free(sc[i])]
           Rhs(i) == Ending(h, text, i)
<1> USE DEF Ending
<1>1. N \in Nat /\ \A i \in 1..N : text[i] \in STRING
  OBVIOUS
<1>2. \A i \in 0..N : h[i] = Free(sc[i])
  OBVIOUS
<1>3. ASSUME NEW i \in 0..N
      PROVE  Free(sc[i]) <=> Rhs(i)
  <2>1. CASE i = 0
    <3>1. Free(sc[0])
      BY ScanSteps DEF ScanStart, Free
    <3>2. QED
      BY <2>1, <3>1
  <2>2. CASE i # 0
    <3>1. /\ i - 1 \in 0..(N - 1) /\ i - 1 \in 0..N /\ (i - 1) + 1 = i /\ i \in 1..N
          /\ \A j \in 1..(i - 1) : j - 1 \in 0..N
      BY <1>1, <2>2
    <3>2. PICK s \in ScanStates, c \in STRING :
            s = sc[i - 1] /\ c = text[i] /\ sc[i] = ReadChar(s, c)
      <4>1. sc[i - 1] \in ScanStates
        BY <3>1, ScanSteps
      <4>2. sc[(i - 1) + 1] = ReadChar(sc[i - 1], text[(i - 1) + 1])
        BY <3>1, ScanSteps
      <4> HIDE DEF sc
      <4>3. sc[i] = ReadChar(sc[i - 1], text[i])
        BY <3>1, <4>2
      <4>4. QED
        BY <1>1, <3>1, <4>1, <4>3
    <3>3. /\ ~(s.single /\ s.double)
          /\ s.single <=> Open(text, i - 1, "'")
          /\ s.double <=> Open(text, i - 1, "\"")
      <4>1. InQuotes(text, i - 1)
        BY <3>1, QuotesOpen
      <4>2. QED
        BY <3>2, <4>1, Zenon DEF InQuotes
    <3>4. /\ sc[i].single <=> IF c = "'" THEN Free(s) ELSE s.single
          /\ sc[i].double <=> IF c = "\"" THEN Free(s) ELSE s.double
      <4>1. /\ ReadChar(s, c).single <=> IF c = "'" THEN Free(s) ELSE s.single
            /\ ReadChar(s, c).double <=> IF c = "\"" THEN Free(s) ELSE s.double
        BY <3>3, OneQuote, Zenon
      <4> HIDE DEF sc
      <4>2. QED
        BY <3>2, <4>1, Zenon
    <3>5. CASE c \notin {"'", "\""}
      <4>1. Rhs(i) <=> Free(s)
        <5>1. h[i - 1] = Free(sc[i - 1])
          BY <1>2, <3>1
        <5> HIDE DEF h, sc
        <5>2. QED
          BY <2>2, <3>2, <3>5, <5>1, Zenon
      <4>2. Free(sc[i]) <=> Free(s)
        <5> HIDE DEF sc
        <5>1. QED
          BY <3>4, <3>5 DEF Free
      <4>3. QED
        BY <4>1, <4>2
    <3>6. CASE c \in {"'", "\""}
      <4>1. Rhs(i) <=> Open(text, i - 1, c)
        <5>1. Rhs(i) <=> \E j \in 1..(i - 1) : /\ text[j] = c /\ h[j - 1]
                                               /\ \A k \in (j + 1)..(i - 1) : text[k] # c
          BY <2>2, <3>2, <3>6
        <5>2. \A j \in 1..(i - 1) : h[j - 1] = Free(sc[j - 1])
          BY <1>2, <3>1
        <5> HIDE DEF h, Rhs
        <5>3. QED
          BY <5>1, <5>2, Zenon DEF Open
      <4>2. Free(sc[i]) <=> Open(text, i - 1, c)
        <5>1. "'" # "\""
          OBVIOUS
        <5> HIDE DEF sc
        <5>2. CASE c = "'"
          <6>1. /\ sc[i].single <=> Free(s)
                /\ sc[i].double <=> s.double
                /\ s.single <=> Open(text, i - 1, c)
            BY <3>3, <3>4, <5>1, <5>2, Zenon
          <6>2. QED
            BY <3>3, <6>1, Zenon DEF Free
        <5>3. CASE c = "\""
          <6>1. /\ sc[i].double <=> Free(s)
                /\ sc[i].single <=> s.single
                /\ s.double <=> Open(text, i - 1, c)
            BY <3>3, <3>4, <5>1, <5>3, Zenon
          <6>2. QED
            BY <3>3, <6>1, Zenon DEF Free
        <5>4. QED
          BY <3>6, <5>2, <5>3
      <4>3. QED
        BY <4>1, <4>2
    <3>7. QED
      BY <3>5, <3>6
  <2>3. QED
    BY <2>1, <2>2
<1>4. \A i \in 0..N : Rhs(i) \in BOOLEAN /\ Free(sc[i]) \in BOOLEAN
  <2>1. \A i \in 0..N : h[i] \in BOOLEAN
    BY DEF Free
  <2>2. \A i \in 0..N : i # 0 => h[i - 1] \in BOOLEAN
    <3>1. \A i \in 0..N : i # 0 => i - 1 \in 0..N
      BY <1>1
    <3> HIDE DEF h
    <3>2. QED
      BY <2>1, <3>1
  <2> HIDE DEF h
  <2>3. QED
    BY <2>2 DEF Free
<1>5. h = [i \in 0..N |-> Rhs(i)]
  <2>1. \A i \in 0..N : Free(sc[i]) = Rhs(i)
    <3> HIDE DEF Rhs
    <3>1. QED
      BY <1>3, <1>4, Zenon
  <2> HIDE DEF Rhs, sc
  <2>2. QED
    BY <2>1 DEF h
<1>6. QED
  <2>1. Divides(h, text)
    <3> HIDE DEF h
    <3>1. QED
      BY <1>5 DEF Divides
  <2>2. QED
    BY <2>1

\* There is only one way to divide a text, so the scan's is that of Ends.
LEMMA EndsFree ==
  ASSUME NEW text \in Seq(STRING)
  PROVE  \A i \in 0..Len(text) : Ends(text)[i] <=> Free(Scan(text)[i])
<1> DEFINE N == Len(text)
           h == [i \in 0..N |-> Free(Scan(text)[i])]
           e == Ends(text)
<1>1. N \in Nat
  OBVIOUS
<1>2. Divides(h, text)
  BY ScanDivides
<1>3. Divides(e, text)
  <2> HIDE DEF h
  <2>1. QED
    BY <1>2 DEF Divides, Ending, Ends
<1> HIDE DEF e
<1> DEFINE S == {n \in Nat : \A i \in 0..n : i <= N => (e[i] <=> h[i])}
<1>4. \A i \in 0..N : h[i] <=> Free(Scan(text)[i])
  OBVIOUS
<1> HIDE DEF h
<1>5. \A f : Divides(f, text) =>
        \A i \in 0..N : f[i] = Ending(f, text, i)
  BY DEF Divides
<1>6. e[0] /\ h[0]
  <2>1. e[0] = Ending(e, text, 0) /\ h[0] = Ending(h, text, 0)
    BY <1>1, <1>2, <1>3, <1>5
  <2>2. QED
    BY <2>1 DEF Ending
<1>7. 0 \in S
  BY <1>1, <1>6
<1>8. ASSUME NEW n \in S
      PROVE  n + 1 \in S
  <2> SUFFICES ASSUME n + 1 <= N
               PROVE  e[n + 1] <=> h[n + 1]
    BY <1>1, <1>8
  <2>1. /\ n \in Nat /\ n + 1 \in 0..N /\ n + 1 # 0 /\ (n + 1) - 1 = n
        /\ \A j \in 1..n : j - 1 \in 0..n /\ j - 1 <= N
    BY <1>1
  <2>2. /\ \A i \in 0..n : i <= N => (e[i] <=> h[i])
        /\ n \in 0..n /\ n <= N
    BY <1>1, <2>1
  <2>3. e[n + 1] = Ending(e, text, n + 1) /\ h[n + 1] = Ending(h, text, n + 1)
    BY <1>2, <1>3, <1>5, <2>1
  <2>4. CASE text[n + 1] \notin {"'", "\""}
    <3>1. e[n + 1] = e[n] /\ h[n + 1] = h[n]
      BY <2>1, <2>3, <2>4 DEF Ending
    <3>2. QED
      BY <2>2, <3>1
  <2>5. CASE text[n + 1] \in {"'", "\""}
    <3>1. /\ e[n + 1] = \E j \in 1..n : /\ text[j] = text[n + 1] /\ e[j - 1]
                                        /\ \A k \in (j + 1)..n : text[k] # text[n + 1]
          /\ h[n + 1] = \E j \in 1..n : /\ text[j] = text[n + 1] /\ h[j - 1]
                                        /\ \A k \in (j + 1)..n : text[k] # text[n + 1]
      BY <2>1, <2>3, <2>5 DEF Ending
    <3>2. \A j \in 1..n : e[j - 1] <=> h[j - 1]
      BY <2>1, <2>2
    <3>3. QED
      BY <3>1, <3>2, Zenon
  <2>6. QED
    BY <2>4, <2>5
<1>9. Nat \subseteq S
  <2> HIDE DEF S
  <2>1. QED
    BY <1>7, <1>8, Induction
<1>10. \A i \in 0..N : e[i] <=> h[i]
  <2>1. \A i \in 0..N : i \in Nat /\ i \in 0..i /\ i <= N
    BY <1>1
  <2>2. QED
    BY <1>9, <2>1
<1>11. QED
  BY <1>4, <1>10, Zenon DEF e, N

\* The placeholders of a text, and those up to i.
Placeholders(text) == {k \in 1..Len(text) : text[k] = "?" /\ Free(Scan(text)[k - 1])}
UpTo(text, i)      == {k \in Placeholders(text) : k <= i}

\* What is put in the place of a character.
Put(text, j) == IF j \in Placeholders(text) THEN ToString(Cardinality(UpTo(text, j)))
                ELSE text[j]

\* One more character is one more placeholder or none.
LEMMA Counting ==
  ASSUME NEW text \in Seq(STRING), NEW i \in 0..(Len(text) - 1)
  PROVE  /\ Cardinality(UpTo(text, i)) \in Nat
         /\ Cardinality(UpTo(text, i + 1)) =
              IF i + 1 \in Placeholders(text) THEN Cardinality(UpTo(text, i)) + 1
              ELSE Cardinality(UpTo(text, i))
<1> DEFINE N == Len(text)
<1>1. N \in Nat /\ i \in Nat /\ Placeholders(text) \subseteq 1..N
  BY DEF Placeholders
<1>2. IsFiniteSet(UpTo(text, i))
  <2>1. UpTo(text, i) \subseteq 1..N /\ IsFiniteSet(1..N)
    BY <1>1, FS_Interval DEF UpTo
  <2>2. QED
    BY <2>1, FS_Subset
<1>3. i + 1 \notin UpTo(text, i)
  BY <1>1 DEF UpTo
<1>4. UpTo(text, i + 1) = IF i + 1 \in Placeholders(text) THEN UpTo(text, i) \cup {i + 1}
                          ELSE UpTo(text, i)
  <2>1. \A k \in Placeholders(text) : k <= i + 1 <=> k <= i \/ k = i + 1
    BY <1>1
  <2>2. QED
    BY <2>1 DEF UpTo
<1>5. QED
  <2>1. Cardinality(UpTo(text, i)) \in Nat
    BY <1>2, FS_CardinalityType
  <2>2. Cardinality(UpTo(text, i) \cup {i + 1}) = Cardinality(UpTo(text, i)) + 1
    BY <1>2, <1>3, FS_AddElement
  <2>3. QED
    BY <1>4, <2>1, <2>2

\* The scan numbers the placeholders and leaves the rest as it was.
LEMMA ScanPuts ==
  ASSUME NEW text \in Seq(STRING)
  PROVE  \A i \in 0..Len(text) : /\ Len(Scan(text)[i].out) = i
                                 /\ \A j \in 1..i : Scan(text)[i].out[j] = Put(text, j)
<1> DEFINE N == Len(text)
           sc == Scan(text)
           P(i) == /\ Len(sc[i].out) = i
                   /\ \A j \in 1..i : sc[i].out[j] = Put(text, j)
                   /\ sc[i].n = Cardinality(UpTo(text, i))
           S == {i \in Nat : i <= N => P(i)}
<1>1. N \in Nat
  OBVIOUS
<1>2. 0 \in S
  <2>1. sc[0] = ScanStart
    BY ScanSteps
  <2>2. UpTo(text, 0) = {}
    BY <1>1 DEF UpTo, Placeholders
  <2>3. sc[0].out = <<>> /\ sc[0].n = 0
    BY <2>1 DEF ScanStart
  <2>4. Cardinality(UpTo(text, 0)) = 0
    BY <2>2, FS_EmptySet
  <2> HIDE DEF sc
  <2>5. QED
    BY <2>3, <2>4
<1>3. ASSUME NEW i \in S
      PROVE  i + 1 \in S
  <2> SUFFICES ASSUME i + 1 <= N
               PROVE  P(i + 1)
    <3> HIDE DEF P, N
    <3>1. QED
      BY <1>3
  <2>1. /\ i \in Nat /\ i \in 0..(N - 1) /\ i \in 0..N /\ i + 1 \in 1..N /\ (i + 1) - 1 = i
        /\ Len(sc[i].out) = i /\ \A j \in 1..i : sc[i].out[j] = Put(text, j)
        /\ sc[i].n = Cardinality(UpTo(text, i))
    BY <1>1, <1>3
  <2>2. PICK s \in ScanStates, c \in STRING, t \in ScanStates :
          s = sc[i] /\ c = text[i + 1] /\ t = sc[i + 1] /\ t = ReadChar(s, c)
    <3>1. /\ sc[i] \in ScanStates /\ sc[i + 1] \in ScanStates
          /\ sc[i + 1] = ReadChar(sc[i], text[i + 1])
      BY <2>1, ScanSteps
    <3>2. text[i + 1] \in STRING
      BY <2>1
    <3> HIDE DEF sc
    <3>3. QED
      BY <3>1, <3>2
  <2>3. i + 1 \in Placeholders(text) <=> c = "?" /\ Free(s)
    BY <2>1, <2>2 DEF Placeholders
  <2>4. /\ t.n = IF i + 1 \in Placeholders(text) THEN s.n + 1 ELSE s.n
        /\ t.out = Append(s.out, IF i + 1 \in Placeholders(text) THEN ToString(s.n + 1) ELSE c)
    <3>1. /\ ReadChar(s, c).n = IF c = "?" /\ ~s.single /\ ~s.double THEN s.n + 1 ELSE s.n
          /\ ReadChar(s, c).out =
               Append(s.out, IF c = "?" /\ ~s.single /\ ~s.double THEN ToString(s.n + 1) ELSE c)
      BY OneChar
    <3>2. QED
      BY <2>2, <2>3, <3>1 DEF Free
  <2>5. t.n = Cardinality(UpTo(text, i + 1))
    BY <2>1, <2>2, <2>4, Counting
  <2>6. t.out = Append(s.out, Put(text, i + 1))
    <3>1. CASE i + 1 \in Placeholders(text)
      BY <2>1, <2>2, <2>4, <2>5, <3>1 DEF Put
    <3>2. CASE i + 1 \notin Placeholders(text)
      BY <2>2, <2>4, <3>2 DEF Put
    <3>3. QED
      BY <3>1, <3>2
  <2>7. s.out \in Seq(Symbols) /\ Len(s.out) = i /\ \A j \in 1..i : s.out[j] = Put(text, j)
    BY <2>1, <2>2 DEF ScanStates
  <2>8. Len(t.out) = i + 1 /\ \A j \in 1..(i + 1) : t.out[j] = Put(text, j)
    <3>1. \A x : /\ Len(Append(s.out, x)) = i + 1
                 /\ \A j \in 1..i : Append(s.out, x)[j] = s.out[j]
                 /\ Append(s.out, x)[i + 1] = x
      BY <2>1, <2>7
    <3>2. \A j \in 1..(i + 1) : j \in 1..i \/ j = i + 1
      BY <2>1
    <3>3. QED
      BY <2>6, <2>7, <3>1, <3>2
  <2>9. QED
    BY <2>2, <2>5, <2>8
<1>4. Nat \subseteq S
  <2> HIDE DEF S
  <2>1. QED
    BY <1>2, <1>3, Induction
<1>5. QED
  BY <1>1, <1>4

\* The text that is sent is the one of the call, with its placeholders numbered
\* from its Bind on.
TextSent ==
  /\ call \in Calls
  /\ step = [b \in Backends |-> step[b]]
  /\ sql = [b \in Backends |-> sql[b]]
  /\ sql["postgres"] = IF step["postgres"] = "bind" THEN call.sql
                       ELSE ToDollarPlaceholders(call.sql)

\* The text is so in every reachable state.
LEMMA Sending == Spec => []TextSent
<1>1. Init => TextSent
  BY DEF Init, TextSent, Backends
<1>2. TextSent /\ [Next]_vars => TextSent'
  <2> SUFFICES ASSUME TextSent, [Next]_vars
               PROVE  TextSent'
    OBVIOUS
  <2>1. CASE UNCHANGED vars
    BY <2>1 DEF TextSent, vars
  <2>2. ASSUME NEW b \in Backends, Bind(b)
        PROVE  TextSent'
    <3>1. step'[b] # "bind" /\ step[b] = "bind"
      BY <2>2 DEF Bind, Goto, TextSent
    <3>2. QED
      BY <2>2, <3>1 DEF Bind, Goto, TextSent, Backends
  <2>3. ASSUME NEW b \in Backends, Store(b) \/ Read(b)
        PROVE  TextSent'
    <3>1. step'[b] # "bind" /\ step[b] # "bind"
      BY <2>3 DEF Store, Read, Goto, TextSent
    <3>2. QED
      BY <2>3, <3>1 DEF Store, Read, Goto, TextSent, Backends
  <2>4. QED
    BY <2>1, <2>2, <2>3 DEF Next
<1>3. QED
  BY <1>1, <1>2, PTL DEF Spec

\* On PostgreSQL the n-th parameter goes where SQLite, which reads the ?
\* itself, puts it, and the rest of the statement is as it was, for any
\* statement (to_dollar_placeholders).
THEOREM PlacesMet == Spec => []ParametersMeetTheirPlaces
<1>1. TextSent => ParametersMeetTheirPlaces
  <2> SUFFICES ASSUME TextSent, step["postgres"] # "bind"
               PROVE  ParametersMeetTheirPlaces
    BY DEF ParametersMeetTheirPlaces
  <2>1. PICK text \in Seq(STRING) : text = call.sql
    BY ConversionsAssumption DEF TextSent
  <2>2. /\ sql["postgres"] = Scan(text)[Len(text)].out
        /\ Len(text) \in Nat /\ DOMAIN text = 1..Len(text)
    BY <2>1 DEF TextSent, ToDollarPlaceholders
  <2>3. /\ Len(sql["postgres"]) = Len(text)
        /\ \A j \in 1..Len(text) : sql["postgres"][j] = Put(text, j)
    BY <2>2, ScanPuts
  <2>4. {i \in Outside(text) : text[i] = "?"} = Placeholders(text)
    <3>1. \A i \in 1..Len(text) : i - 1 \in 0..Len(text)
      BY <2>2
    <3>2. \A i \in 1..Len(text) : Ends(text)[i - 1] <=> Free(Scan(text)[i - 1])
      BY <3>1, EndsFree
    <3>3. QED
      BY <2>2, <3>2 DEF Outside, Placeholders
  <2>5. QED
    BY <2>1, <2>2, <2>3, <2>4 DEF ParametersMeetTheirPlaces, Put, UpTo
<1>2. QED
  BY <1>1, Sending, PTL
=============================================================================
