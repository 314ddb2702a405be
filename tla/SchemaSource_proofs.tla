------------------------- MODULE SchemaSource_proofs -------------------------
(***************************************************************************)
(* Why what an author writes is read as what was meant: the lexer and the  *)
(* call reader give back the calls that a source was printed from,         *)
(* whatever layout stands between its tokens, and whatever is around it.   *)
(***************************************************************************)
EXTENDS SchemaSource, NaturalRecursion, SequenceTheorems, TLAPS

-----------------------------------------------------------------------------
(* Concatenations of many parts.                                           *)

\* The concatenation of parts that f goes through, part by part.
Joins(f, s, T) ==
  /\ f \in [0..Len(s) -> Seq(T)]
  /\ f[0] = <<>>
  /\ \A k \in 0..Len(s) - 1 : f[k + 1] = f[k] \o s[k + 1]

\* The equation of the recursion in FlattenSeq.
Flattens(h, s) ==
  h = [i \in 1..Len(s) |-> IF i = 1 THEN s[i] ELSE h[i - 1] \o s[i]]

\* Parts are concatenated one after the other.
LEMMA Flattening ==
  ASSUME NEW T, NEW s \in Seq(Seq(T))
  PROVE  /\ FlattenSeq(s) \in Seq(T)
         /\ \E f : Joins(f, s, T) /\ f[Len(s)] = FlattenSeq(s)
<1> DEFINE V == Seq(T)
           next == [p \in Nat \X V |-> IF p[1] < Len(s) THEN p[2] \o s[p[1] + 1] ELSE p[2]]
<1>1. next \in [Nat \X V -> V]
  OBVIOUS
<1>2. <<>> \in V
  OBVIOUS
<1>3. PICK g : Unfolds(g, V, <<>>, next)
  <2> HIDE DEF V, next
  <2>1. QED
    BY <1>1, <1>2, Recursion
<1> DEFINE f == [k \in 0..Len(s) |-> g[k]]
<1>4. Joins(f, s, T)
  <2>1. g \in [Nat -> Seq(T)] /\ g[0] = <<>>
    BY <1>3 DEF Unfolds
  <2>2. ASSUME NEW k \in 0..Len(s) - 1
        PROVE  g[k + 1] = g[k] \o s[k + 1]
    <3>1. k \in Nat /\ k < Len(s)
      OBVIOUS
    <3>2. g[k + 1] = next[<<k, g[k]>>] /\ g[k] \in V
      BY <1>3, <3>1 DEF Unfolds
    <3>3. \A x \in V : next[<<k, x>>] = x \o s[k + 1]
      BY <3>1
    <3> HIDE DEF next
    <3>4. QED
      BY <3>2, <3>3
  <2> HIDE DEF next
  <2>3. f \in [0..Len(s) -> Seq(T)] /\ f[0] = <<>>
    BY <2>1
  <2>4. \A k \in 0..Len(s) - 1 : f[k + 1] = f[k] \o s[k + 1]
    <3>1. \A k \in 0..Len(s) : f[k] = g[k]
      OBVIOUS
    <3>2. \A k \in 0..Len(s) - 1 : k \in 0..Len(s) /\ k + 1 \in 0..Len(s)
      OBVIOUS
    <3> HIDE DEF f
    <3>3. QED
      BY <2>2, <3>1, <3>2
  <2> HIDE DEF f
  <2>5. QED
    BY <2>3, <2>4 DEF Joins
<1> HIDE DEF f, next
<1>5. f \in [0..Len(s) -> Seq(T)] /\ f[0] = <<>> /\ Len(s) \in Nat
  BY <1>4 DEF Joins
<1>6. \A i \in 1..Len(s) : f[i] = f[i - 1] \o s[i]
  <2> SUFFICES ASSUME NEW i \in 1..Len(s)
               PROVE  f[i] = f[i - 1] \o s[i]
    OBVIOUS
  <2>1. i - 1 \in 0..Len(s) - 1 /\ (i - 1) + 1 = i
    OBVIOUS
  <2>2. QED
    BY <1>4, <2>1 DEF Joins
<1>7. f[Len(s)] = FlattenSeq(s)
  <2>1. CASE Len(s) = 0
    BY <2>1, <1>5 DEF FlattenSeq
  <2>2. CASE Len(s) # 0
    <3> DEFINE flatten == CHOOSE h : Flattens(h, s)
    <3>1. Flattens([i \in 1..Len(s) |-> f[i]], s)
      <4>1. \A i \in 1..Len(s) : i = 1 => f[i - 1] \o s[i] = s[i]
        BY <1>5
      <4>2. \A i \in 1..Len(s) : f[i] = IF i = 1 THEN s[i] ELSE f[i - 1] \o s[i]
        BY <1>6, <4>1
      <4>3. \A i \in 1..Len(s) : i # 1 => i - 1 \in 1..Len(s)
        OBVIOUS
      <4>4. QED
        BY <4>2, <4>3 DEF Flattens
    <3>2. Flattens(flatten, s)
      BY <3>1
    <3>3. FlattenSeq(s) = flatten[Len(s)]
      BY <2>2 DEF FlattenSeq, Flattens
    <3> HIDE DEF flatten
    <3> DEFINE S == {k \in Nat : k \in 1..Len(s) => flatten[k] = f[k]}
    <3>4. 0 \in S
      OBVIOUS
    <3>5. ASSUME NEW k \in Nat, k \in S
          PROVE  k + 1 \in S
      <4>1. SUFFICES ASSUME k + 1 \in 1..Len(s)
                     PROVE  flatten[k + 1] = f[k + 1]
        OBVIOUS
      <4>2. f[k + 1] = f[k] \o s[k + 1]
        <5>1. f[k + 1] = f[(k + 1) - 1] \o s[k + 1]
          BY <1>6, <4>1
        <5>2. (k + 1) - 1 = k
          OBVIOUS
        <5>3. QED
          BY <5>1, <5>2
      <4>3. flatten[k + 1] = IF k + 1 = 1 THEN s[k + 1] ELSE flatten[k] \o s[k + 1]
        <5>1. flatten[k + 1] = IF k + 1 = 1 THEN s[k + 1] ELSE flatten[(k + 1) - 1] \o s[k + 1]
          BY <3>2, <4>1 DEF Flattens
        <5>2. (k + 1) - 1 = k
          OBVIOUS
        <5>3. QED
          BY <5>1, <5>2
      <4>4. CASE k = 0
        BY <1>5, <4>1, <4>2, <4>3, <4>4
      <4>5. CASE k # 0
        <5>1. flatten[k] = f[k] /\ k + 1 # 1
          BY <3>5, <4>1, <4>5
        <5>2. QED
          BY <4>2, <4>3, <5>1
      <4>6. QED
        BY <4>4, <4>5
    <3>6. Nat \subseteq S
      <4> HIDE DEF S
      <4>1. QED
        BY <3>4, <3>5, Induction
    <3>7. flatten[Len(s)] = f[Len(s)]
      BY <1>5, <2>2, <3>6
    <3>8. QED
      BY <3>3, <3>7
  <2>3. QED
    BY <2>1, <2>2
<1>8. f[Len(s)] \in Seq(T)
  BY <1>5
<1>9. QED
  BY <1>4, <1>7, <1>8

\* A relation between sequences that concatenation keeps holds of what parts
\* make when it holds of the parts.
LEMMA FlatteningRelates ==
  ASSUME NEW T, NEW U, NEW R \in SUBSET (Seq(T) \X Seq(U)),
         <<<<>>, <<>>>> \in R,
         \A p, q \in R : <<p[1] \o q[1], p[2] \o q[2]>> \in R,
         NEW s \in Seq(Seq(T)), NEW t \in Seq(Seq(U)), Len(t) = Len(s),
         \A k \in 1..Len(s) : <<s[k], t[k]>> \in R
  PROVE  <<FlattenSeq(s), FlattenSeq(t)>> \in R
<1>1. PICK f : Joins(f, s, T) /\ f[Len(s)] = FlattenSeq(s)
  BY Flattening
<1>2. PICK g : Joins(g, t, U) /\ g[Len(s)] = FlattenSeq(t)
  BY Flattening
<1> DEFINE S == {k \in Nat : k <= Len(s) => <<f[k], g[k]>> \in R}
<1>3. 0 \in S
  BY <1>1, <1>2 DEF Joins
<1>4. ASSUME NEW k \in Nat, k \in S
      PROVE  k + 1 \in S
  <2>1. SUFFICES ASSUME k + 1 <= Len(s)
                 PROVE  <<f[k + 1], g[k + 1]>> \in R
    OBVIOUS
  <2>2. k \in 0..Len(s) - 1 /\ k + 1 \in 1..Len(s)
    BY <2>1
  <2>3. f[k + 1] = f[k] \o s[k + 1] /\ g[k + 1] = g[k] \o t[k + 1]
    BY <1>1, <1>2, <2>2 DEF Joins
  <2>4. <<f[k], g[k]>> \in R /\ <<s[k + 1], t[k + 1]>> \in R
    BY <1>4, <2>1, <2>2, SMTT(30)
  <2>5. QED
    BY <2>3, <2>4
<1>5. Nat \subseteq S
  <2> HIDE DEF S
  <2>1. QED
    BY <1>3, <1>4, Induction
<1>6. <<f[Len(s)], g[Len(s)]>> \in R
  BY <1>5
<1>7. QED
  BY <1>1, <1>2, <1>6

-----------------------------------------------------------------------------
(* Readers.                                                                *)

\* A step at position j of n takes items of T and goes forward.
IsStep(step, j, n, T) ==
  /\ step.items \in Seq(T)
  /\ step.last \in BOOLEAN
  /\ step.next \in j + 1..n \/ (step.last /\ step.next = 0)

IsReader(steps, n, T) ==
  /\ n \in Nat /\ DOMAIN steps = 1..n
  /\ \A j \in 1..n : IsStep(steps[j], j, n, T)

\* What a reader of n positions reads of T from position j on.
Reading(j, n, T) == {r \in [items : Seq(T), next : Nat] : r.next = 0 \/ r.next \in j + 1..n}

\* One step of the recursion in ReadFrom, and its equation.
ReadStep(h, steps, j) ==
  IF steps[j].last THEN [items |-> steps[j].items, next |-> steps[j].next]
  ELSE [h[steps[j].next] EXCEPT !.items = steps[j].items \o @]

Reads(h, steps) == h = [j \in DOMAIN steps |-> ReadStep(h, steps, j)]

\* What is read from position j on, in terms of its step.
Unfolded(steps, j) ==
  IF steps[j].last
  THEN ReadFrom(steps, j) = [items |-> steps[j].items, next |-> steps[j].next]
  ELSE ReadFrom(steps, j) = [items |-> steps[j].items \o ReadFrom(steps, steps[j].next).items,
                             next |-> ReadFrom(steps, steps[j].next).next]

\* A reader that goes forward reads something from every position, and what it
\* reads is what its step takes and what is read from where that goes on.
LEMMA Reader ==
  ASSUME NEW T, NEW steps, NEW n, IsReader(steps, n, T), NEW j \in 1..n
  PROVE  ReadFrom(steps, j) \in Reading(j, n, T) /\ Unfolded(steps, j)
<1>1. n \in Nat /\ DOMAIN steps = 1..n
  BY DEF IsReader, IsStep
<1>2. \A k \in 1..n : ~steps[k].last => steps[k].next \in k + 1..n
  BY DEF IsReader, IsStep
<1>3. \E h : Reads(h, steps)
  <2> DEFINE Top(m, h) == /\ h = [k \in 1..n |-> h[k]]
                          /\ \A k \in 1..n : k > n - m => h[k] = ReadStep(h, steps, k)
             S == {m \in Nat : m <= n => \E h : Top(m, h)}
  <2>1. 0 \in S
    <3>1. Top(0, [k \in 1..n |-> 0])
      BY <1>1
    <3>2. QED
      BY <3>1
  <2>2. ASSUME NEW m \in Nat, m \in S
        PROVE  m + 1 \in S
    <3>1. SUFFICES ASSUME m + 1 <= n
                   PROVE  \E h : Top(m + 1, h)
      OBVIOUS
    <3>2. PICK h : Top(m, h)
      BY <1>1, <2>2, <3>1
    <3>3. PICK i \in 1..n : i = n - m
      BY <1>1, <3>1
    <3> DEFINE h2 == [k \in 1..n |-> IF k = i THEN ReadStep(h, steps, i) ELSE h[k]]
    <3>4. \A k \in 1..n : k >= i => ReadStep(h2, steps, k) = ReadStep(h, steps, k)
      <4> SUFFICES ASSUME NEW k \in 1..n, k >= i
                   PROVE  ReadStep(h2, steps, k) = ReadStep(h, steps, k)
        OBVIOUS
      <4>1. CASE steps[k].last
        BY <4>1 DEF ReadStep
      <4>2. CASE ~steps[k].last
        <5>1. steps[k].next \in 1..n /\ steps[k].next # i
          BY <1>1, <1>2, <4>2
        <5>2. h2[steps[k].next] = h[steps[k].next]
          BY <5>1
        <5> HIDE DEF h2
        <5>3. QED
          BY <4>2, <5>2 DEF ReadStep
      <4>3. QED
        BY <4>1, <4>2
    <3>5. h2[i] = ReadStep(h, steps, i) /\ \A k \in 1..n : k # i => h2[k] = h[k]
      OBVIOUS
    <3>6. h2 = [k \in 1..n |-> h2[k]]
      OBVIOUS
    <3> HIDE DEF h2
    <3>7. \A k \in 1..n : k > n - (m + 1) => h2[k] = ReadStep(h2, steps, k)
      <4> SUFFICES ASSUME NEW k \in 1..n, k > n - (m + 1)
                   PROVE  h2[k] = ReadStep(h2, steps, k)
        OBVIOUS
      <4>1. k >= i /\ (k # i => k > n - m)
        BY <1>1, <3>3
      <4>2. CASE k = i
        BY <3>4, <3>5, <4>1, <4>2
      <4>3. CASE k # i
        BY <3>2, <3>4, <3>5, <4>1, <4>3
      <4>4. QED
        BY <4>2, <4>3
    <3>8. QED
      BY <3>6, <3>7
  <2>3. Nat \subseteq S
    <3> HIDE DEF S
    <3>1. QED
      BY <2>1, <2>2, Induction
  <2>4. PICK h : Top(n, h)
    <3>1. n \in S /\ n <= n
      BY <1>1, <2>3
    <3> HIDE DEF Top
    <3>2. QED
      BY <3>1
  <2>5. \A k \in 1..n : h[k] = ReadStep(h, steps, k)
    BY <1>1, <2>4
  <2>6. h = [k \in 1..n |-> h[k]]
    BY <2>4
  <2>7. Reads(h, steps)
    BY <1>1, <2>5, <2>6 DEF Reads
  <2>8. QED
    BY <2>7
<1> DEFINE read == CHOOSE h : Reads(h, steps)
<1>4. Reads(read, steps)
  BY <1>3
<1>5. \A k : ReadFrom(steps, k) = read[k]
  BY DEF ReadFrom, Reads, ReadStep
<1> HIDE DEF read
<1>6. \A k \in 1..n : read[k] = ReadStep(read, steps, k)
  BY <1>1, <1>4 DEF Reads
<1>7. \A k \in 1..n : read[k] \in Reading(k, n, T)
  <2> DEFINE S == {m \in Nat : \A k \in 1..n : k > n - m => read[k] \in Reading(k, n, T)}
  <2>1. 0 \in S
    BY <1>1
  <2>2. ASSUME NEW m \in Nat, m \in S
        PROVE  m + 1 \in S
    <3> SUFFICES ASSUME NEW k \in 1..n, k > n - (m + 1)
                 PROVE  read[k] \in Reading(k, n, T)
      OBVIOUS
    <3>1. CASE steps[k].last
      <4>1. read[k] = [items |-> steps[k].items, next |-> steps[k].next]
        BY <1>6, <3>1 DEF ReadStep
      <4>2. steps[k].items \in Seq(T) /\ steps[k].next \in Nat
            /\ (steps[k].next = 0 \/ steps[k].next \in k + 1..n)
        BY <3>1 DEF IsReader, IsStep
      <4>3. QED
        BY <4>1, <4>2 DEF Reading
    <3>2. CASE ~steps[k].last
      <4>1. steps[k].next \in 1..n /\ steps[k].next > k /\ steps[k].next > n - m
        BY <1>1, <1>2, <3>2
      <4>2. PICK r \in Reading(steps[k].next, n, T) : r = read[steps[k].next]
        BY <2>2, <4>1
      <4>3. read[k] = [items |-> steps[k].items \o r.items, next |-> r.next]
        BY <1>6, <3>2, <4>2 DEF ReadStep, Reading
      <4>4. steps[k].items \in Seq(T)
        BY DEF IsReader, IsStep
      <4>5. QED
        BY <4>1, <4>2, <4>3, <4>4 DEF Reading
    <3>3. QED
      BY <3>1, <3>2 DEF IsReader, IsStep
  <2>3. Nat \subseteq S
    <3> HIDE DEF S
    <3>1. QED
      BY <2>1, <2>2, Induction
  <2>4. n \in S
    BY <1>1, <2>3
  <2>5. QED
    BY <1>1, <2>4
<1>8. ~steps[j].last => steps[j].next \in 1..n
  BY <1>1, <1>2
<1>9. ~steps[j].last => read[steps[j].next] \in [items : Seq(T), next : Nat]
  BY <1>7, <1>8 DEF Reading
<1>10. steps[j].last => read[j] = [items |-> steps[j].items, next |-> steps[j].next]
  BY <1>6 DEF ReadStep
<1>11. ~steps[j].last =>
         read[j] = [items |-> steps[j].items \o read[steps[j].next].items,
                    next |-> read[steps[j].next].next]
  <2> SUFFICES ASSUME ~steps[j].last
               PROVE  read[j] = [items |-> steps[j].items \o read[steps[j].next].items,
                                 next |-> read[steps[j].next].next]
    OBVIOUS
  <2>1. PICK r \in [items : Seq(T), next : Nat] : r = read[steps[j].next]
    BY <1>9
  <2>2. read[j] = [r EXCEPT !.items = steps[j].items \o @]
    BY <1>6, <2>1 DEF ReadStep
  <2>3. QED
    BY <2>1, <2>2
<1>12. QED
  BY <1>5, <1>7, <1>10, <1>11 DEF Unfolded

\* Between positions i and j the reader takes the items x.
Goes(steps, i, x, j) ==
  ReadFrom(steps, i) = [items |-> x \o ReadFrom(steps, j).items, next |-> ReadFrom(steps, j).next]

\* A reader that has not moved has taken nothing.
LEMMA GoesNowhere ==
  ASSUME NEW T, NEW steps, NEW n, IsReader(steps, n, T), NEW j \in 1..n
  PROVE  Goes(steps, j, <<>>, j)
<1>1. PICK r \in [items : Seq(T), next : Nat] : r = ReadFrom(steps, j)
  BY Reader DEF Reading
<1>2. <<>> \o r.items = r.items
  OBVIOUS
<1>3. QED
  BY <1>1, <1>2 DEF Goes

\* A step goes where it says.
LEMMA GoesOneStep ==
  ASSUME NEW T, NEW steps, NEW n, IsReader(steps, n, T), NEW j \in 1..n,
         NEW x, NEW k, steps[j] = Step(x, k)
  PROVE  Goes(steps, j, x, k)
<1>1. ~steps[j].last /\ steps[j].items = x /\ steps[j].next = k
  BY DEF Step
<1>2. Unfolded(steps, j)
  BY Reader
<1>3. ReadFrom(steps, j) = [items |-> x \o ReadFrom(steps, k).items,
                            next |-> ReadFrom(steps, k).next]
  BY <1>1, <1>2 DEF Unfolded
<1>4. QED
  BY <1>3 DEF Goes

\* What is taken on the way to a position, then from there on, is taken on the whole way.
LEMMA GoesOn ==
  ASSUME NEW T, NEW steps, NEW n, IsReader(steps, n, T),
         NEW i \in 1..n, NEW j \in 1..n, NEW k \in 1..n, NEW x \in Seq(T), NEW y \in Seq(T),
         Goes(steps, i, x, j), Goes(steps, j, y, k)
  PROVE  Goes(steps, i, x \o y, k)
<1>1. PICK r \in [items : Seq(T), next : Nat] : r = ReadFrom(steps, k)
  BY Reader DEF Reading
<1>2. x \o (y \o r.items) = (x \o y) \o r.items
  BY <1>1
<1>3. ReadFrom(steps, j) = [items |-> y \o r.items, next |-> r.next]
  BY <1>1 DEF Goes
<1>4. ReadFrom(steps, i) = [items |-> x \o (y \o r.items), next |-> r.next]
  <2>1. ReadFrom(steps, j).items = y \o r.items /\ ReadFrom(steps, j).next = r.next
    BY <1>3
  <2>2. QED
    BY <2>1 DEF Goes
<1>5. QED
  BY <1>1, <1>2, <1>4 DEF Goes

\* Both kinds of step go forward, and a stop may also say that nothing reads.
LEMMA Steps ==
  ASSUME NEW T, NEW n \in Nat, NEW j \in 1..n, NEW x \in Seq(T), NEW k
  PROVE  /\ k \in j + 1..n => IsStep(Step(x, k), j, n, T)
         /\ k = 0 \/ k \in j + 1..n => IsStep(Stop(x, k), j, n, T)
BY DEF IsStep, Step, Stop

-----------------------------------------------------------------------------
(* The readers of the lexer and of the call reader.                        *)

Tokens == [kind : Marks \cup LiteralKinds \cup {"word", "error"}, value : Seq(Symbols)]

\* The inside of a string is read forward, symbol by symbol (lex_string).
LEMMA StringReader ==
  ASSUME NEW src \in Seq(Symbols)
  PROVE  IsReader(StringSteps(src), Len(src) + 1, Symbols)
<1> DEFINE n == Len(src) + 1
<1>1. n \in Nat /\ Len(src) \in Nat /\ <<>> \in Seq(Symbols)
  OBVIOUS
<1>2. ASSUME NEW j \in 1..n
      PROVE  IsStep(StringSteps(src)[j], j, n, Symbols)
  <2> DEFINE s == StringSteps(src)[j]
  <2>1. CASE j <= Len(src) /\ src[j] = "quote"
    <3>1. s = Stop(<<>>, j + 1)
      BY <2>1 DEF StringSteps
    <3>2. j + 1 \in j + 1..n
      BY <2>1
    <3> HIDE DEF n
    <3>3. QED
      BY <1>1, <3>1, <3>2, Steps
  <2>2. CASE j < Len(src) /\ src[j] = "backslash"
    <3>1. s = Step(<<Unescaped(src[j + 1])>>, j + 2)
      BY <2>2 DEF StringSteps
    <3>2. j + 2 \in j + 1..n
      BY <2>2
    <3>3. src[j + 1] \in Symbols
      BY <2>2
    <3>4. Unescaped(src[j + 1]) \in Symbols
      <4>1. Unescaped(src[j + 1]) \in {"nl", "tab", src[j + 1]}
        BY DEF Unescaped
      <4>2. QED
        BY <3>3, <4>1 DEF Symbols, Blanks
    <3>5. <<Unescaped(src[j + 1])>> \in Seq(Symbols)
      BY <3>4
    <3> HIDE DEF n
    <3>6. QED
      BY <1>1, <3>1, <3>2, <3>5, Steps
  <2>3. CASE j <= Len(src) /\ src[j] \notin {"quote", "backslash"}
    <3>1. s = Step(<<src[j]>>, j + 1)
      BY <2>3 DEF StringSteps
    <3>2. j + 1 \in j + 1..n /\ <<src[j]>> \in Seq(Symbols)
      BY <2>3
    <3> HIDE DEF n
    <3>3. QED
      BY <1>1, <3>1, <3>2, Steps
  <2>4. CASE \/ j > Len(src)
             \/ j = Len(src) /\ src[j] = "backslash"
    <3>1. s = Stop(<<>>, 0)
      BY <2>4 DEF StringSteps
    <3> HIDE DEF n
    <3>2. QED
      BY <1>1, <3>1, Steps
  <2>5. QED
    BY <2>1, <2>2, <2>3, <2>4
<1>3. DOMAIN StringSteps(src) = 1..n
  BY DEF StringSteps
<1> HIDE DEF n
<1>4. IsReader(StringSteps(src), n, Symbols)
  BY <1>1, <1>2, <1>3 DEF IsReader
<1>5. QED
  BY <1>4 DEF n

\* A set of naturals has a least one.
LEMMA Least ==
  ASSUME NEW S \in SUBSET Nat, S # {}
  PROVE  \E x \in S : \A y \in S : x <= y
<1>1. IsWellFoundedOn(Below, Nat)
  BY NatLessThanWellFounded DEF OpToRel, Below
<1>2. PICK x \in S : \A y \in S : <<y, x>> \notin Below
  BY <1>1, WFMin
<1>3. ASSUME NEW y \in S
      PROVE  x <= y
  <2>1. x \in Nat /\ y \in Nat /\ <<y, x>> \notin Below
    BY <1>2
  <2>2. ~(y < x)
    BY <2>1 DEF Below
  <2>3. QED
    BY <2>1, <2>2
<1>4. QED
  BY <1>3

\* A comment ends after it opens, at the latest with the source.
LEMMA CommentEnds ==
  ASSUME NEW src \in Seq(Symbols), NEW i \in 1..Len(src), src[i] # "nl"
  PROVE  /\ CommentEnd(src, i) \in i + 1..Len(src) + 1
         /\ CommentEnd(src, i) <= Len(src) => src[CommentEnd(src, i)] = "nl"
         /\ \A k \in i..CommentEnd(src, i) - 1 : src[k] # "nl"
<1> DEFINE S == {j \in i..Len(src) + 1 : j > Len(src) \/ src[j] = "nl"}
<1>1. Len(src) + 1 \in S /\ S \in SUBSET Nat
  OBVIOUS
<1>2. PICK j \in S : \A k \in S : j <= k
  <2> HIDE DEF S
  <2>1. QED
    BY <1>1, Least
<1>3. j \in i..Len(src) + 1 /\ (j > Len(src) \/ src[j] = "nl")
  OBVIOUS
<1>4. \A k \in i..j - 1 : src[k] # "nl"
  BY <1>2
<1> DEFINE Ends(e) == /\ e > Len(src) \/ src[e] = "nl"
                      /\ \A k \in i..e - 1 : src[k] # "nl"
<1>5. \E e \in i..Len(src) + 1 : Ends(e)
  BY <1>3, <1>4
<1>6. CommentEnd(src, i) = CHOOSE e \in i..Len(src) + 1 : Ends(e)
  BY DEF CommentEnd
<1>7. CommentEnd(src, i) \in i..Len(src) + 1 /\ Ends(CommentEnd(src, i))
  <2> HIDE DEF Ends
  <2>1. QED
    BY <1>5, <1>6
<1>8. QED
  BY <1>7

\* Number tokens hold the symbols they were read from.
LEMMA NumberStep ==
  ASSUME NEW src \in Seq(Symbols), NEW i \in 1..Len(src), StartsNumber(src, i)
  PROVE  IsStep(NumberAt(src, i), i, Len(src) + 1, Tokens)
<1> DEFINE n == Len(src) + 1
           Is(j, symbols) == j <= Len(src) /\ src[j] \in symbols
           digits   == IF src[i] = "-" THEN i + 1 ELSE i
           fraction == Is(digits + 1, {"."}) /\ Is(digits + 2, Numerals)
<1>1. n \in Nat /\ i \in 1..n /\ Len(src) \in Nat
  OBVIOUS
<1>2. digits \in i..Len(src)
  BY SourceAssumption DEF StartsNumber, Others
<1>3. \A j \in i..Len(src) : SubSeq(src, i, j) \in Seq(Symbols)
  OBVIOUS
<1>4. ASSUME NEW kind \in LiteralKinds, NEW j \in i..Len(src)
      PROVE  IsStep(Step(<<Token(kind, SubSeq(src, i, j))>>, j + 1), i, n, Tokens)
  <2>1. <<Token(kind, SubSeq(src, i, j))>> \in Seq(Tokens)
    BY <1>3 DEF Token, Tokens
  <2>2. j + 1 \in i + 1..n
    OBVIOUS
  <2> HIDE DEF n
  <2>3. QED
    BY <1>1, <2>1, <2>2, Steps
<1>5. IsStep(Stop(<<Unlexable>>, 0), i, n, Tokens)
  <2>1. <<Unlexable>> \in Seq(Tokens)
    BY DEF Unlexable, Token, Tokens
  <2> HIDE DEF n
  <2>2. QED
    BY <1>1, <2>1, Steps
<1> HIDE DEF digits, n
<1>6. NumberAt(src, i) =
        CASE fraction ->
               Step(<<Token("float", SubSeq(src, i, digits + 2))>>, digits + 3)
          [] ~fraction /\ src[digits] \notin Huge ->
               Step(<<Token("int", SubSeq(src, i, digits))>>, digits + 1)
          [] OTHER -> Stop(<<Unlexable>>, 0)
  BY DEF NumberAt, digits
<1>7. CASE fraction
  <2>1. digits + 2 \in i..Len(src) /\ (digits + 2) + 1 = digits + 3
    BY <1>2, <1>7
  <2>2. NumberAt(src, i) = Step(<<Token("float", SubSeq(src, i, digits + 2))>>, digits + 3)
    BY <1>6, <1>7
  <2>3. "float" \in LiteralKinds
    BY DEF LiteralKinds
  <2>4. IsStep(NumberAt(src, i), i, n, Tokens)
    BY <1>4, <2>1, <2>2, <2>3
  <2>5. QED
    BY <2>4 DEF n
<1>8. CASE ~fraction /\ src[digits] \notin Huge
  <2>1. NumberAt(src, i) = Step(<<Token("int", SubSeq(src, i, digits))>>, digits + 1)
    BY <1>6, <1>8
  <2>2. "int" \in LiteralKinds
    BY DEF LiteralKinds
  <2>3. IsStep(NumberAt(src, i), i, n, Tokens)
    BY <1>2, <1>4, <2>1, <2>2
  <2>4. QED
    BY <2>3 DEF n
<1>9. CASE ~fraction /\ src[digits] \in Huge
  <2>1. NumberAt(src, i) = Stop(<<Unlexable>>, 0)
    BY <1>6, <1>9
  <2>2. QED
    BY <1>5, <2>1 DEF n
<1>10. QED
  BY <1>7, <1>8, <1>9

\* No symbol is of two sorts.
LEMMA Sorts ==
  /\ \A s \in Blanks : s \notin Marks \cup Others /\ s \notin Numerals /\ ~IsWord(s)
  /\ \A s \in Marks  : s \notin Blanks \cup Others /\ s \notin Numerals /\ ~IsWord(s)
  /\ \A s \in Others : s \notin Blanks \cup Marks /\ s \notin Numerals /\ ~IsWord(s)
  /\ \A s \in Numerals : s \notin Blanks \cup Marks \cup Others /\ ~IsWord(s)
  /\ \A s \in Words : s \notin Blanks \cup Marks \cup Others /\ s \notin Numerals
BY SourceAssumption DEF Blanks, Marks, Others, IsWord

\* What the lexer does at the symbol of each sort.
LEMMA LexCases ==
  ASSUME NEW src \in Seq(Symbols), NEW i \in 1..Len(src)
  PROVE  /\ src[i] \in Blanks => LexStep(src, i) = Step(<<>>, i + 1)
         /\ OpensComment(src, i) => LexStep(src, i) = Step(<<>>, CommentEnd(src, i))
         /\ src[i] \in Marks => LexStep(src, i) = Step(<<Mark(src[i])>>, i + 1)
         /\ src[i] = "quote" => LexStep(src, i) = StringAt(src, i)
         /\ ~OpensComment(src, i) /\ StartsNumber(src, i) => LexStep(src, i) = NumberAt(src, i)
         /\ IsWord(src[i]) =>
              LexStep(src, i) =
                Step(<<Token(IF src[i] \in Truths THEN "bool" ELSE "word", <<src[i]>>)>>, i + 1)
         /\ \/ src[i] \in Blanks \cup Marks \cup {"quote"} \/ IsWord(src[i])
            \/ OpensComment(src, i)
            \/ ~OpensComment(src, i) /\ StartsNumber(src, i)
            \/ LexStep(src, i) = Stop(<<Unlexable>>, 0)
<1>1. i <= Len(src) /\ ~(i > Len(src))
  OBVIOUS
<1>2. StartsNumber(src, i) => src[i] \in Numerals \cup {"-"}
  BY DEF StartsNumber
<1>3. OpensComment(src, i) => src[i] \in {"/", "-"}
  BY DEF OpensComment
<1>4. {"/", "-", "quote"} \subseteq Others
  BY DEF Others
<1>5. "quote" # "/" /\ "quote" # "-"
  OBVIOUS
<1>6. CASE src[i] \in Blanks
  BY <1>1, <1>2, <1>3, <1>4, <1>6, Sorts DEF LexStep
<1>7. CASE OpensComment(src, i)
  BY <1>1, <1>2, <1>3, <1>4, <1>5, <1>7, Sorts DEF LexStep
<1>8. CASE src[i] \in Marks
  BY <1>1, <1>2, <1>3, <1>4, <1>8, Sorts DEF LexStep
<1>9. CASE src[i] = "quote"
  BY <1>1, <1>2, <1>3, <1>4, <1>5, <1>9, Sorts DEF LexStep
<1>10. CASE ~OpensComment(src, i) /\ StartsNumber(src, i)
  BY <1>1, <1>2, <1>4, <1>5, <1>10, Sorts DEF LexStep
<1>11. CASE IsWord(src[i])
  BY <1>1, <1>2, <1>3, <1>4, <1>11, Sorts DEF LexStep, IsWord
<1>12. CASE /\ src[i] \notin Blanks \cup Marks \cup {"quote"} /\ ~IsWord(src[i])
            /\ ~OpensComment(src, i) /\ ~StartsNumber(src, i)
  BY <1>1, <1>12 DEF LexStep
<1>13. QED
  BY <1>6, <1>7, <1>8, <1>9, <1>10, <1>11, <1>12

\* Every round of the lexer's loop goes forward or ends it (lex).
LEMMA LexReader ==
  ASSUME NEW src \in Seq(Symbols)
  PROVE  IsReader(LexSteps(src), Len(src) + 1, Tokens)
<1> DEFINE n == Len(src) + 1
<1>1. n \in Nat /\ <<>> \in Seq(Tokens) /\ Len(src) \in Nat
  OBVIOUS
<1>2. <<Unlexable>> \in Seq(Tokens)
  BY DEF Unlexable, Token, Tokens
<1>3. ASSUME NEW i \in 1..n
      PROVE  IsStep(LexStep(src, i), i, n, Tokens)
  <2>1. CASE i > Len(src)
    <3>1. LexStep(src, i) = Stop(<<>>, 0)
      BY <2>1 DEF LexStep
    <3> HIDE DEF n
    <3>2. QED
      BY <1>1, <3>1, Steps
  <2>2. CASE i \in 1..Len(src)
    <3>1. i + 1 \in i + 1..n /\ src[i] \in Symbols
      BY <2>2
    <3> DEFINE step == LexStep(src, i)
    <3> HIDE DEF n
    <3>2. \A x \in Seq(Tokens) : /\ IsStep(Step(x, i + 1), i, n, Tokens)
                                 /\ IsStep(Stop(x, 0), i, n, Tokens)
      BY <1>1, <3>1, Steps
    <3>3. CASE src[i] \in Blanks
      BY <1>1, <2>2, <3>2, <3>3, LexCases
    <3>4. CASE OpensComment(src, i)
      <4>1. src[i] # "nl"
        BY <3>4 DEF OpensComment
      <4>2. CommentEnd(src, i) \in i + 1..n
        BY <2>2, <4>1, CommentEnds DEF n
      <4>3. QED
        BY <1>1, <2>2, <3>4, <4>2, LexCases, Steps
    <3>5. CASE src[i] \in Marks
      <4>1. <<Mark(src[i])>> \in Seq(Tokens)
        BY <3>5 DEF Mark, Token, Tokens
      <4>2. QED
        BY <2>2, <3>2, <3>5, <4>1, LexCases
    <3>6. CASE src[i] = "quote"
      <4>1. IsReader(StringSteps(src), n, Symbols) /\ i + 1 \in 1..n
        BY <2>2, StringReader DEF n
      <4>2. PICK string \in Reading(i + 1, n, Symbols) : string = ReadFrom(StringSteps(src), i + 1)
        BY <4>1, Reader
      <4>3. StringAt(src, i) = IF string.next = 0 THEN Stop(<<Unlexable>>, 0)
                               ELSE Step(<<Str(string.items)>>, string.next)
        BY <4>2 DEF StringAt
      <4>4. <<Str(string.items)>> \in Seq(Tokens)
        BY DEF Reading, Str, Token, Tokens, LiteralKinds
      <4>5. string.next # 0 => string.next \in i + 1..n
        BY <4>1 DEF Reading
      <4>6. IsStep(StringAt(src, i), i, n, Tokens)
        BY <1>1, <1>2, <3>2, <4>3, <4>4, <4>5, Steps
      <4>7. QED
        BY <2>2, <3>6, <4>6, LexCases
    <3>7. CASE ~OpensComment(src, i) /\ StartsNumber(src, i)
      BY <2>2, <3>7, LexCases, NumberStep DEF n
    <3>8. CASE IsWord(src[i])
      <4>1. \A kind \in {"bool", "word"} : <<Token(kind, <<src[i]>>)>> \in Seq(Tokens)
        BY <3>1 DEF Token, Tokens, LiteralKinds
      <4>2. QED
        BY <2>2, <3>2, <3>8, <4>1, LexCases
    <3>9. QED
      BY <1>2, <2>2, <3>2, <3>3, <3>4, <3>5, <3>6, <3>7, <3>8, LexCases
  <2>3. QED
    BY <1>1, <2>1, <2>2
<1>4. DOMAIN LexSteps(src) = 1..n /\ \A i \in 1..n : LexSteps(src)[i] = LexStep(src, i)
  BY DEF LexSteps
<1> HIDE DEF n
<1>5. IsReader(LexSteps(src), n, Tokens)
  BY <1>1, <1>3, <1>4 DEF IsReader
<1>6. QED
  BY <1>5 DEF n

\* The arguments of a call are read forward (read_call).
LEMMA ArgumentReader ==
  ASSUME NEW tokens \in Seq(Tokens)
  PROVE  IsReader(ArgumentSteps(tokens), Len(tokens) + 1, Tokens)
<1> DEFINE n == Len(tokens) + 1
           Is(j, kinds) == j <= Len(tokens) /\ tokens[j].kind \in kinds
<1>1. n \in Nat /\ <<>> \in Seq(Tokens) /\ Len(tokens) \in Nat
  OBVIOUS
<1>2. ASSUME NEW j \in 1..n
      PROVE  IsStep(ArgumentSteps(tokens)[j], j, n, Tokens)
  <2> DEFINE step == ArgumentSteps(tokens)[j]
  <2>1. \/ step = Stop(<<>>, j + 1) /\ Is(j, {")"})
        \/ step = Step(<<tokens[j]>>, j + 2) /\ Is(j, LiteralKinds) /\ Is(j + 1, {","})
        \/ step = Step(<<tokens[j]>>, j + 1) /\ Is(j, LiteralKinds)
        \/ step = Stop(<<>>, 0)
    <3>1. step = CASE Is(j, {")"}) -> Stop(<<>>, j + 1)
                   [] Is(j, LiteralKinds) /\ Is(j + 1, {","}) -> Step(<<tokens[j]>>, j + 2)
                   [] Is(j, LiteralKinds) /\ Is(j + 1, {")"}) -> Step(<<tokens[j]>>, j + 1)
                   [] OTHER -> Stop(<<>>, 0)
      BY DEF ArgumentSteps
    <3>2. QED
      BY <3>1
  <2>2. Is(j, LiteralKinds) => <<tokens[j]>> \in Seq(Tokens)
    OBVIOUS
  <2>3. /\ j <= Len(tokens) => j + 1 \in j + 1..n
        /\ j + 1 <= Len(tokens) => j + 2 \in j + 1..n
    OBVIOUS
  <2> HIDE DEF step, n
  <2>4. IsStep(step, j, n, Tokens)
    BY <1>1, <2>1, <2>2, <2>3, Steps
  <2>5. QED
    BY <2>4 DEF step
<1>3. DOMAIN ArgumentSteps(tokens) = 1..n
  BY DEF ArgumentSteps
<1> HIDE DEF n
<1>4. IsReader(ArgumentSteps(tokens), n, Tokens)
  BY <1>1, <1>2, <1>3 DEF IsReader
<1>5. QED
  BY <1>4 DEF n

\* The calls that may be read; the name is the first symbol of a token.
ReadCalls ==
  [link : BOOLEAN, name : Symbols \cup {"error", <<>>[1]}, args : Seq(Tokens)]

\* The calls of a chain are read forward (chains).
LEMMA CallReader ==
  ASSUME NEW tokens \in Seq(Tokens)
  PROVE  IsReader(CallSteps(tokens), Len(tokens) + 1, ReadCalls)
<1> DEFINE n == Len(tokens) + 1
           T == ReadCalls
<1>1. n \in Nat /\ <<>> \in Seq(T) /\ Len(tokens) \in Nat
  OBVIOUS
<1>2. <<Unreadable>> \in Seq(T)
  BY DEF Unreadable, Call, ReadCalls
<1>3. ASSUME NEW i \in 1..n
      PROVE  IsStep(CallStep(tokens, i), i, n, T)
  <2> DEFINE link  == i > 1 /\ i <= Len(tokens) /\ tokens[i].kind = "."
             head  == IF link THEN i + 1 ELSE i
             opens == head < Len(tokens) /\ tokens[head].kind = "word"
                        /\ tokens[head + 1].kind = "("
             list  == ReadFrom(ArgumentSteps(tokens), head + 2)
  <2>1. CallStep(tokens, i) =
          IF i = n THEN Stop(<<>>, 0)
          ELSE IF ~opens \/ list.next = 0 THEN Stop(<<Unreadable>>, 0)
          ELSE Step(<<Call(link, tokens[head].value[1], list.items)>>, list.next)
    BY DEF CallStep
  <2>2. link \in BOOLEAN /\ head \in {i, i + 1}
    OBVIOUS
  <2> HIDE DEF link
  <2>3. CASE i # n /\ opens /\ list.next # 0
    <3>1. head \in 1..Len(tokens) /\ head + 2 \in 1..n /\ head + 2 > i
      BY <2>2, <2>3
    <3>2. IsReader(ArgumentSteps(tokens), n, Tokens)
      BY ArgumentReader DEF n
    <3> HIDE DEF head, n
    <3>3. PICK r \in Reading(head + 2, n, Tokens) : r = list
      BY <3>1, <3>2, Reader
    <3>4. r.items \in Seq(Tokens) /\ r.next \in i + 1..n
      BY <1>1, <2>3, <3>1, <3>3 DEF Reading
    <3>5. CallStep(tokens, i) = Step(<<Call(link, tokens[head].value[1], r.items)>>, r.next)
      BY <2>1, <2>3, <3>3
    <3>6. tokens[head].value[1] \in Symbols \cup {<<>>[1]}
      <4>1. PICK value \in Seq(Symbols) : value = tokens[head].value
        <5>1. tokens[head] \in Tokens
          BY <3>1
        <5>2. QED
          BY <5>1 DEF Tokens
      <4>2. value = <<>> \/ value[1] \in Symbols
        OBVIOUS
      <4>3. QED
        BY <4>1, <4>2
    <3>7. Call(link, tokens[head].value[1], r.items) \in T
      BY <2>2, <3>4, <3>6 DEF Call, ReadCalls
    <3>8. <<Call(link, tokens[head].value[1], r.items)>> \in Seq(T)
      BY <3>7
    <3> HIDE DEF T
    <3>9. QED
      BY <1>1, <3>4, <3>5, <3>8, Steps
  <2>4. CASE i = n \/ ~opens \/ list.next = 0
    <3>1. CallStep(tokens, i) \in {Stop(<<>>, 0), Stop(<<Unreadable>>, 0)}
      BY <2>1, <2>4
    <3> HIDE DEF T, n, head
    <3>2. QED
      BY <1>1, <1>2, <3>1, Steps
  <2>5. QED
    BY <2>3, <2>4
<1>4. DOMAIN CallSteps(tokens) = 1..n /\ \A i \in 1..n : CallSteps(tokens)[i] = CallStep(tokens, i)
  BY DEF CallSteps
<1> HIDE DEF n, T
<1>5. IsReader(CallSteps(tokens), n, T)
  BY <1>1, <1>3, <1>4 DEF IsReader
<1>6. QED
  BY <1>5 DEF n, T

-----------------------------------------------------------------------------
(* Texts, and what they are read as wherever they stand.                   *)

\* Text t stands at position i of src.
Stands(src, i, t) ==
  /\ i + Len(t) <= Len(src) + 1
  /\ \A k \in 1..Len(t) : src[i + k - 1] = t[k]

\* A language: what its texts are made of, what is taken from them, the reader
\* of each text, and what no text opens with.
IsLanguage(L) ==
  \A src \in Seq(L.of) : IsReader(L.steps[src], Len(src) + 1, L.taking)

\* Wherever t stands, with none of D behind it, it is read as x.
ReadsAs(L, t, x, D) ==
  /\ t \in Seq(L.of) /\ x \in Seq(L.taking)
  /\ \A src \in Seq(L.of) : \A i \in 1..Len(src) + 1 :
       /\ Stands(src, i, t)
       /\ i = 1 /\ t # <<>> => t[1] \notin L.first
       /\ i + Len(t) <= Len(src) => src[i + Len(t)] \notin D
       => Goes(L.steps[src], i, x, i + Len(t))

\* Where nothing stands, nothing is read.
LEMMA ReadsNothing ==
  ASSUME NEW L, IsLanguage(L), NEW D
  PROVE  ReadsAs(L, <<>>, <<>>, D)
<1>1. ASSUME NEW src \in Seq(L.of), NEW i \in 1..Len(src) + 1
      PROVE  Goes(L.steps[src], i, <<>>, i + 0)
  <2>1. IsReader(L.steps[src], Len(src) + 1, L.taking) /\ i + 0 = i
    BY DEF IsLanguage
  <2>2. QED
    BY <2>1, GoesNowhere
<1>2. QED
  BY <1>1 DEF ReadsAs

\* Two texts that stand one after the other are read one after the other.
LEMMA ReadsBoth ==
  ASSUME NEW L, IsLanguage(L), NEW D, NEW E,
         NEW t, NEW x, ReadsAs(L, t, x, D), NEW u, NEW y, ReadsAs(L, u, y, E),
         IF u = <<>> THEN D \subseteq E ELSE u[1] \notin D
  PROVE  ReadsAs(L, t \o u, x \o y, E)
<1>1. t \in Seq(L.of) /\ u \in Seq(L.of) /\ x \in Seq(L.taking) /\ y \in Seq(L.taking)
  BY DEF ReadsAs
<1>2. ASSUME NEW src \in Seq(L.of), NEW i \in 1..Len(src) + 1, Stands(src, i, t \o u),
             i = 1 /\ t \o u # <<>> => (t \o u)[1] \notin L.first,
             i + Len(t \o u) <= Len(src) => src[i + Len(t \o u)] \notin E
      PROVE  Goes(L.steps[src], i, x \o y, i + Len(t \o u))
  <2> DEFINE j == i + Len(t)
             k == j + Len(u)
             n == Len(src) + 1
  <2>1. IsReader(L.steps[src], n, L.taking)
    BY DEF IsLanguage
  <2>2. Len(t \o u) = Len(t) + Len(u) /\ i + Len(t \o u) = k /\ Len(t) \in Nat /\ Len(u) \in Nat
    BY <1>1
  <2>3. /\ \A m \in 1..Len(t) : (t \o u)[m] = t[m]
        /\ \A m \in 1..Len(u) : (t \o u)[Len(t) + m] = u[m]
    BY <1>1
  <2>4. k <= n /\ j \in 1..n /\ k \in 1..n
    BY <1>2, <2>2 DEF Stands
  <2>5. Stands(src, i, t)
    <3>1. \A m \in 1..Len(t) : m \in 1..Len(t \o u)
      BY <2>2
    <3>2. QED
      BY <1>2, <2>2, <2>3, <2>4, <3>1 DEF Stands
  <2>6. Stands(src, j, u)
    <3>1. \A m \in 1..Len(u) : Len(t) + m \in 1..Len(t \o u) /\ j + m - 1 = i + (Len(t) + m) - 1
      BY <2>2
    <3>2. QED
      BY <1>2, <2>3, <2>4, <3>1 DEF Stands
  <2>7. i = 1 /\ t # <<>> => t[1] \notin L.first
    <3>1. t # <<>> => 1 \in 1..Len(t) /\ t \o u # <<>>
      BY <1>1
    <3>2. QED
      BY <1>2, <2>3, <3>1
  <2>8. j = 1 /\ u # <<>> => u[1] \notin L.first
    <3>1. j = 1 => t = <<>> /\ i = 1
      BY <1>1, <2>2
    <3>2. t = <<>> => t \o u = u
      BY <1>1
    <3>3. QED
      BY <1>2, <3>1, <3>2
  <2>9. j <= Len(src) => src[j] \notin D
    <3>1. CASE u = <<>>
      <4>1. k = j
        BY <3>1
      <4>2. QED
        BY <1>2, <2>2, <3>1, <4>1
    <3>2. CASE u # <<>>
      <4>1. 1 \in 1..Len(u) /\ j + 1 - 1 = j
        BY <1>1, <2>4, <3>2
      <4>2. src[j] = u[1]
        BY <2>6, <4>1 DEF Stands
      <4>3. QED
        BY <3>2, <4>2
    <3>3. QED
      BY <3>1, <3>2
  <2>10. k <= Len(src) => src[k] \notin E
    BY <1>2, <2>2
  <2> HIDE DEF j, k, n
  <2>11. Goes(L.steps[src], i, x, j)
    BY <2>5, <2>7, <2>9 DEF ReadsAs, j
  <2>12. Goes(L.steps[src], j, y, k)
    BY <2>4, <2>6, <2>8, <2>10 DEF ReadsAs, k, n
  <2>13. i \in 1..n
    BY DEF n
  <2>14. QED
    BY <1>1, <2>1, <2>2, <2>4, <2>11, <2>12, <2>13, GoesOn
<1>3. t \o u \in Seq(L.of) /\ x \o y \in Seq(L.taking)
  BY <1>1
<1>4. QED
  BY <1>2, <1>3 DEF ReadsAs

\* So are many.
LEMMA ReadsMany ==
  ASSUME NEW L, IsLanguage(L), NEW D,
         NEW s \in Seq(Seq(L.of)), NEW t \in Seq(Seq(L.taking)), Len(t) = Len(s),
         \A k \in 1..Len(s) : /\ ReadsAs(L, s[k], t[k], D)
                              /\ s[k] # <<>> => s[k][1] \notin D
  PROVE  /\ ReadsAs(L, FlattenSeq(s), FlattenSeq(t), D)
         /\ FlattenSeq(s) # <<>> => FlattenSeq(s)[1] \notin D
<1> DEFINE R == {p \in Seq(L.of) \X Seq(L.taking) :
                   ReadsAs(L, p[1], p[2], D) /\ (p[1] # <<>> => p[1][1] \notin D)}
<1>1. R \in SUBSET (Seq(L.of) \X Seq(L.taking))
  OBVIOUS
<1> DEFINE Both(a, x) == ReadsAs(L, a, x, D) /\ (a # <<>> => a[1] \notin D)
<1>0. \A a \in Seq(L.of), x \in Seq(L.taking) : Both(a, x) <=> <<a, x>> \in R
  <2> HIDE DEF Both
  <2>1. R = {p \in Seq(L.of) \X Seq(L.taking) : Both(p[1], p[2])}
    BY DEF Both
  <2> HIDE DEF R
  <2>2. QED
    BY <2>1
<1>2. <<<<>>, <<>>>> \in R
  <2>1. Both(<<>>, <<>>) /\ <<>> \in Seq(L.of) /\ <<>> \in Seq(L.taking)
    BY ReadsNothing
  <2> HIDE DEF Both, R
  <2>2. QED
    BY <1>0, <2>1
<1>3. ASSUME NEW p \in R, NEW q \in R
      PROVE  <<p[1] \o q[1], p[2] \o q[2]>> \in R
  <2>1. PICK a \in Seq(L.of), b \in Seq(L.of), x \in Seq(L.taking), y \in Seq(L.taking) :
          a = p[1] /\ b = q[1] /\ x = p[2] /\ y = q[2]
    OBVIOUS
  <2>2. ReadsAs(L, a, x, D) /\ ReadsAs(L, b, y, D) /\ (b # <<>> => b[1] \notin D)
        /\ (a # <<>> => a[1] \notin D)
    BY <2>1
  <2>3. ReadsAs(L, a \o b, x \o y, D)
    BY <2>2, ReadsBoth
  <2>4. a \o b # <<>> => (a \o b)[1] \notin D
    <3>1. CASE a = <<>>
      <4>1. a \o b = b
        BY <3>1
      <4>2. QED
        BY <2>2, <4>1
    <3>2. CASE a # <<>>
      <4>1. (a \o b)[1] = a[1]
        BY <3>2
      <4>2. QED
        BY <2>2, <3>2, <4>1
    <3>3. QED
      BY <3>1, <3>2
  <2>5. <<a \o b, x \o y>> \in R
    <3>1. Both(a \o b, x \o y) /\ a \o b \in Seq(L.of) /\ x \o y \in Seq(L.taking)
      BY <2>3, <2>4
    <3> HIDE DEF Both, R
    <3>2. QED
      BY <1>0, <3>1
  <2>6. QED
    BY <2>1, <2>5
<1>4. \A k \in 1..Len(s) : <<s[k], t[k]>> \in R
  OBVIOUS
<1>5. <<FlattenSeq(s), FlattenSeq(t)>> \in R
  <2> HIDE DEF R
  <2>1. QED
    BY <1>1, <1>2, <1>3, <1>4, FlatteningRelates
<1>6. QED
  BY <1>5

\* A text that one step reads.
LEMMA ReadsOneStep ==
  ASSUME NEW L, IsLanguage(L), NEW D, NEW t \in Seq(L.of), t # <<>>, NEW x \in Seq(L.taking),
         \A src \in Seq(L.of) : \A i \in 1..Len(src) :
           /\ Stands(src, i, t)
           /\ i = 1 => t[1] \notin L.first
           /\ i + Len(t) <= Len(src) => src[i + Len(t)] \notin D
           => L.steps[src][i] = Step(x, i + Len(t))
  PROVE  ReadsAs(L, t, x, D)
<1>1. ASSUME NEW src \in Seq(L.of), NEW i \in 1..Len(src) + 1, Stands(src, i, t),
             i = 1 => t[1] \notin L.first,
             i + Len(t) <= Len(src) => src[i + Len(t)] \notin D
      PROVE  Goes(L.steps[src], i, x, i + Len(t))
  <2>1. i \in 1..Len(src)
    BY <1>1 DEF Stands
  <2>2. L.steps[src][i] = Step(x, i + Len(t))
    BY <1>1, <2>1
  <2>3. IsReader(L.steps[src], Len(src) + 1, L.taking)
    BY DEF IsLanguage
  <2>4. QED
    BY <2>2, <2>3, GoesOneStep
<1>2. QED
  BY <1>1 DEF ReadsAs

-----------------------------------------------------------------------------
(* What the lexer makes of each token, and of what stands between them.    *)

\* Sources, read as tokens, and the insides of strings, read as their texts.
Lexed   == [of |-> Symbols, taking |-> Tokens, first |-> {},
            steps |-> [src \in Seq(Symbols) |-> LexSteps(src)]]
Strings == [of |-> Symbols, taking |-> Symbols, first |-> {},
            steps |-> [src \in Seq(Symbols) |-> StringSteps(src)]]

\* The lexer reads every source of symbols.
LEMMA LexedIsLanguage == IsLanguage(Lexed)
BY LexReader DEF IsLanguage, Lexed

\* So does the reader of strings.
LEMMA StringsIsLanguage == IsLanguage(Strings)
BY StringReader DEF IsLanguage, Strings

\* The sorts have the symbols that the texts need.
LEMMA Known ==
  /\ Blanks \cup Marks \cup Others \cup Numerals \cup Words \subseteq Symbols
  /\ {"quote", "backslash", "/", "-"} \subseteq Others
  /\ {"nl", "tab"} \subseteq Blanks
  /\ {"n", "t"} \subseteq Words
BY SourceAssumption DEF Symbols, Others, Blanks

\* A mark is read as itself.
LEMMA LexMark ==
  ASSUME NEW mark \in Marks
  PROVE  ReadsAs(Lexed, <<mark>>, <<Mark(mark)>>, {})
<1>1. <<mark>> \in Seq(Lexed.of) /\ <<mark>> # <<>>
  BY Known DEF Lexed
<1>2. <<Mark(mark)>> \in Seq(Lexed.taking)
  BY DEF Lexed, Mark, Token, Tokens
<1>3. ASSUME NEW src \in Seq(Lexed.of), NEW i \in 1..Len(src), Stands(src, i, <<mark>>)
      PROVE  Lexed.steps[src][i] = Step(<<Mark(mark)>>, i + Len(<<mark>>))
  <2>1. src \in Seq(Symbols) /\ Lexed.steps[src][i] = LexStep(src, i)
    BY DEF Lexed, LexSteps
  <2>2. src[i] = mark
    BY <1>3 DEF Stands
  <2>3. QED
    BY <2>1, <2>2, LexCases
<1>4. QED
  BY <1>1, <1>2, <1>3, LexedIsLanguage, ReadsOneStep

\* So is a word, save the two that are literals.
LEMMA LexWord ==
  ASSUME NEW word \in Words
  PROVE  ReadsAs(Lexed, <<word>>,
                 <<Token(IF word \in Truths THEN "bool" ELSE "word", <<word>>)>>, {})
<1> DEFINE kind == IF word \in Truths THEN "bool" ELSE "word"
<1>1. <<word>> \in Seq(Lexed.of) /\ <<word>> # <<>>
  BY Known DEF Lexed
<1>2. <<Token(kind, <<word>>)>> \in Seq(Lexed.taking)
  <2>1. kind \in LiteralKinds \cup {"word"} /\ <<word>> \in Seq(Symbols)
    BY <1>1 DEF LiteralKinds, Lexed
  <2>2. QED
    BY <2>1 DEF Lexed, Token, Tokens
<1>3. ASSUME NEW src \in Seq(Lexed.of), NEW i \in 1..Len(src), Stands(src, i, <<word>>)
      PROVE  Lexed.steps[src][i] = Step(<<Token(kind, <<word>>)>>, i + Len(<<word>>))
  <2>1. src \in Seq(Symbols) /\ Lexed.steps[src][i] = LexStep(src, i)
    BY DEF Lexed, LexSteps
  <2>2. src[i] = word /\ IsWord(src[i])
    BY <1>3 DEF Stands, IsWord
  <2>3. QED
    BY <2>1, <2>2, LexCases
<1>4. QED
  BY <1>1, <1>2, <1>3, LexedIsLanguage, ReadsOneStep

\* A layout is read as nothing.
LEMMA LexLayout ==
  ASSUME NEW gap, IsLayout(gap)
  PROVE  ReadsAs(Lexed, gap, <<>>, {})
<1>1. PICK starts \in SUBSET (1..Len(gap) + 1) :
        /\ 1 \in starts
        /\ \A i \in starts :
             \/ i = Len(gap) + 1
             \/ gap[i] \in Blanks /\ i + 1 \in starts
             \/ /\ OpensComment(gap, i)
                /\ \E j \in i..Len(gap) : /\ gap[j] = "nl" /\ j \in starts
                                          /\ \A k \in i..j - 1 : gap[k] # "nl"
  BY DEF IsLayout
<1>2. gap \in Seq(Symbols) /\ Len(gap) \in Nat
  BY DEF IsLayout
<1>3. ASSUME NEW src \in Seq(Symbols), NEW at \in 1..Len(src) + 1, Stands(src, at, gap)
      PROVE  Goes(LexSteps(src), at, <<>>, at + Len(gap))
  <2> DEFINE n == Len(src) + 1
             end == at + Len(gap)
             From(i) == at + i - 1
  <2>1. IsReader(LexSteps(src), n, Tokens) /\ end \in 1..n /\ n \in Nat /\ <<>> \in Seq(Tokens)
    BY <1>2, <1>3, LexReader DEF Stands
  <2>2. \A i \in 1..Len(gap) : /\ src[From(i)] = gap[i] /\ From(i) \in 1..Len(src)
                               /\ From(i) \in 1..n
                               /\ LexSteps(src)[From(i)] = LexStep(src, From(i))
    BY <1>2, <1>3 DEF Stands, LexSteps
  <2> DEFINE S == {m \in Nat : \A i \in starts :
                     i >= Len(gap) + 1 - m => Goes(LexSteps(src), From(i), <<>>, end)}
  <2>3. 0 \in S
    <3> SUFFICES ASSUME NEW i \in starts, i >= Len(gap) + 1
                 PROVE  Goes(LexSteps(src), From(i), <<>>, end)
      OBVIOUS
    <3>1. From(i) = end
      BY <1>2
    <3> HIDE DEF n, end, From
    <3>2. QED
      BY <2>1, <3>1, GoesNowhere
  <2>4. ASSUME NEW m \in Nat, m \in S
        PROVE  m + 1 \in S
    <3> SUFFICES ASSUME NEW i \in starts, i >= Len(gap) + 1 - (m + 1)
                 PROVE  Goes(LexSteps(src), From(i), <<>>, end)
      OBVIOUS
    <3>1. CASE i >= Len(gap) + 1 - m
      BY <2>4, <3>1
    <3>2. CASE i = Len(gap) - m
      <4>1. i \in 1..Len(gap) /\ From(i) \in 1..n
        BY <1>2, <2>2, <3>2
      <4>2. ASSUME NEW j \in starts, j > i, Goes(LexSteps(src), From(i), <<>>, From(j))
            PROVE  Goes(LexSteps(src), From(i), <<>>, end)
        <5>1. Goes(LexSteps(src), From(j), <<>>, end) /\ From(j) \in 1..n
          BY <1>2, <1>3, <2>1, <2>4, <3>2, <4>2
        <5>2. <<>> \o <<>> = <<>>
          OBVIOUS
        <5> HIDE DEF n, end, From, S
        <5>3. QED
          BY <2>1, <4>1, <4>2, <5>1, <5>2, GoesOn
      <4>3. CASE gap[i] \in Blanks /\ i + 1 \in starts
        <5>1. LexSteps(src)[From(i)] = Step(<<>>, From(i + 1))
          <6>1. LexStep(src, From(i)) = Step(<<>>, From(i) + 1)
            BY <2>2, <4>1, <4>3, LexCases
          <6>2. From(i) + 1 = From(i + 1)
            OBVIOUS
          <6>3. QED
            BY <2>2, <4>1, <6>1, <6>2
        <5>2. Goes(LexSteps(src), From(i), <<>>, From(i + 1))
          <6> HIDE DEF n, end, From, S
          <6>1. QED
            BY <2>1, <4>1, <5>1, GoesOneStep
        <5>3. QED
          BY <4>2, <4>3, <5>2
      <4>4. CASE /\ OpensComment(gap, i)
                 /\ \E j \in i..Len(gap) : /\ gap[j] = "nl" /\ j \in starts
                                           /\ \A k \in i..j - 1 : gap[k] # "nl"
        <5>1. PICK j \in i..Len(gap) : /\ gap[j] = "nl" /\ j \in starts
                                       /\ \A k \in i..j - 1 : gap[k] # "nl"
          BY <4>4
        <5>2. OpensComment(src, From(i)) /\ src[From(i)] # "nl"
          <6>1. i + 1 \in 1..Len(gap) /\ From(i) + 1 = From(i + 1)
            BY <4>1, <4>4 DEF OpensComment
          <6>2. src[From(i)] = gap[i] /\ src[From(i) + 1] = gap[i + 1] /\ From(i) < Len(src)
            BY <2>2, <4>1, <6>1
          <6>3. QED
            BY <4>4, <6>2 DEF OpensComment
        <5>3. CommentEnd(src, From(i)) = From(j)
          <6> DEFINE e == CommentEnd(src, From(i))
          <6>1. /\ e \in From(i) + 1..Len(src) + 1
                /\ e <= Len(src) => src[e] = "nl"
                /\ \A k \in From(i)..e - 1 : src[k] # "nl"
            BY <2>2, <4>1, <5>2, CommentEnds
          <6>2. src[From(j)] = "nl" /\ From(j) \in From(i)..Len(src)
            BY <2>2, <4>1, <5>1
          <6>3. ~(From(j) < e)
            BY <6>1, <6>2
          <6>4. ASSUME e < From(j)
                PROVE  FALSE
            <7>1. PICK k \in i..j - 1 : e = From(k)
              <8>1. e - at + 1 \in i..j - 1 /\ From(e - at + 1) = e
                BY <1>3, <4>1, <5>1, <6>1, <6>4
              <8>2. QED
                BY <8>1
            <7>2. k \in 1..Len(gap)
              BY <4>1, <5>1
            <7>3. src[e] = gap[k] /\ e <= Len(src)
              BY <2>2, <7>1, <7>2
            <7>4. QED
              BY <5>1, <6>1, <7>3
          <6>5. QED
            BY <6>1, <6>2, <6>3, <6>4
        <5>4. LexSteps(src)[From(i)] = Step(<<>>, From(j))
          BY <2>2, <4>1, <5>2, <5>3, LexCases
        <5>5. Goes(LexSteps(src), From(i), <<>>, From(j))
          <6> HIDE DEF n, end, From, S
          <6>1. QED
            BY <2>1, <4>1, <5>4, GoesOneStep
        <5>6. j > i
          <6>1. gap[i] # "nl"
            BY <4>4 DEF OpensComment
          <6>2. QED
            BY <5>1, <6>1
        <5>7. QED
          BY <4>2, <5>1, <5>5, <5>6
      <4>5. QED
        BY <1>1, <4>1, <4>3, <4>4
    <3>3. QED
      BY <1>2, <3>1, <3>2
  <2>5. Nat \subseteq S
    <3> HIDE DEF S
    <3>1. QED
      BY <2>3, <2>4, Induction
  <2>6. Goes(LexSteps(src), From(1), <<>>, end)
    BY <1>1, <1>2, <2>5
  <2>7. From(1) = at
    OBVIOUS
  <2>8. QED
    BY <2>6, <2>7
<1>4. QED
  BY <1>2, <1>3 DEF ReadsAs, Lexed

\* What may have some symbols behind it may have more of them barred.
LEMMA ReadsWeaker ==
  ASSUME NEW L, NEW t, NEW x, NEW D, NEW E, ReadsAs(L, t, x, D), D \subseteq E
  PROVE  ReadsAs(L, t, x, E)
BY DEF ReadsAs

\* What is tabled from 1 on is a sequence.
LEMMA Tabled ==
  ASSUME NEW V, NEW n \in Nat, NEW g \in [1..n -> V]
  PROVE  g \in Seq(V) /\ Len(g) = n
OBVIOUS

\* The elements of a sequence, one by one, make it.
LEMMA FlatteningSingles ==
  ASSUME NEW T, NEW s \in Seq(T)
  PROVE  FlattenSeq([i \in DOMAIN s |-> <<s[i]>>]) = s
<1> DEFINE parts == [i \in DOMAIN s |-> <<s[i]>>]
<1>1. parts \in Seq(Seq(T)) /\ Len(parts) = Len(s) /\ \A i \in 1..Len(s) : parts[i] = <<s[i]>>
  <2>1. \A i \in 1..Len(s) : s[i] \in T /\ <<s[i]>> \in Seq(T)
    OBVIOUS
  <2>2. DOMAIN s = 1..Len(s) /\ Len(s) \in Nat
    OBVIOUS
  <2>3. parts \in [1..Len(s) -> Seq(T)]
    BY <2>1, <2>2
  <2>4. \A i \in 1..Len(s) : parts[i] = <<s[i]>>
    BY <2>2
  <2> HIDE DEF parts
  <2>5. QED
    BY <2>2, <2>3, <2>4, Tabled
<1> HIDE DEF parts
<1>2. PICK f : Joins(f, parts, T) /\ f[Len(s)] = FlattenSeq(parts)
  BY <1>1, Flattening
<1> DEFINE S == {k \in Nat : k <= Len(s) => /\ Len(f[k]) = k
                                           /\ \A i \in 1..k : f[k][i] = s[i]}
<1>3. 0 \in S
  BY <1>2 DEF Joins
<1>4. ASSUME NEW k \in Nat, k \in S
      PROVE  k + 1 \in S
  <2> SUFFICES ASSUME k + 1 <= Len(s)
               PROVE  Len(f[k + 1]) = k + 1 /\ \A i \in 1..k + 1 : f[k + 1][i] = s[i]
    OBVIOUS
  <2>1. k \in 0..Len(s) - 1 /\ k + 1 \in 1..Len(s) /\ k \in 0..Len(s)
    OBVIOUS
  <2>2. f[k + 1] = f[k] \o <<s[k + 1]>> /\ f[k] \in Seq(T) /\ s[k + 1] \in T
    <3>1. f[k + 1] = f[k] \o parts[k + 1] /\ f[k] \in Seq(T)
      BY <1>1, <1>2, <2>1 DEF Joins
    <3>2. parts[k + 1] = <<s[k + 1]>>
      BY <1>1, <2>1
    <3>3. QED
      BY <2>1, <3>1, <3>2
  <2>3. Len(f[k]) = k /\ \A i \in 1..k : f[k][i] = s[i]
    BY <1>4
  <2>4. QED
    BY <2>2, <2>3
<1>5. Nat \subseteq S
  <2> HIDE DEF S
  <2>1. QED
    BY <1>3, <1>4, Induction
<1>6. f[Len(s)] \in Seq(T) /\ Len(f[Len(s)]) = Len(s) /\ \A i \in 1..Len(s) : f[Len(s)][i] = s[i]
  BY <1>1, <1>2, <1>5 DEF Joins
<1>7. f[Len(s)] = s
  BY <1>6
<1>8. QED
  BY <1>2, <1>7 DEF parts

\* An escaped symbol is read back as the symbol.
LEMMA ReadEscaped ==
  ASSUME NEW s \in Symbols
  PROVE  ReadsAs(Strings, Escaped(s), <<s>>, {})
<1>1. <<s>> \in Seq(Strings.taking)
  BY DEF Strings
<1>2. Escaped(s) \in Seq(Strings.of) /\ Escaped(s) # <<>>
  <2>1. \A a, b \in Symbols : <<a, b>> \in Seq(Symbols) /\ <<a>> \in Seq(Symbols)
                              /\ <<a, b>> # <<>> /\ <<a>> # <<>>
    OBVIOUS
  <2>2. {"quote", "backslash", "n", "t", s} \subseteq Symbols
    BY Known
  <2>3. Escaped(s) \in {<<"backslash", "quote">>, <<"backslash", "backslash">>,
                        <<"backslash", "n">>, <<"backslash", "t">>, <<s>>}
    BY DEF Escaped
  <2>4. QED
    BY <2>1, <2>2, <2>3 DEF Strings
<1>3. ASSUME NEW src \in Seq(Strings.of), NEW i \in 1..Len(src), Stands(src, i, Escaped(s))
      PROVE  Strings.steps[src][i] = Step(<<s>>, i + Len(Escaped(s)))
  <2>1. src \in Seq(Symbols) /\ Strings.steps[src] = StringSteps(src)
    BY DEF Strings
  <2>2. ASSUME NEW c, Escaped(s) = <<"backslash", c>>
        PROVE  /\ StringSteps(src)[i] = Step(<<Unescaped(c)>>, i + 2)
               /\ Len(Escaped(s)) = 2
    <3>1. i + 2 <= Len(src) + 1 /\ src[i] = "backslash" /\ src[i + 1] = c
      <4>1. Len(Escaped(s)) = 2 /\ Escaped(s)[1] = "backslash" /\ Escaped(s)[2] = c
        BY <2>2
      <4>2. i + 1 - 1 = i /\ i + 2 - 1 = i + 1
        OBVIOUS
      <4>3. QED
        BY <1>3, <4>1, <4>2 DEF Stands
    <3>2. i < Len(src) /\ src[i] # "quote"
      BY <2>1, <3>1
    <3>3. QED
      BY <2>2, <3>1, <3>2, SMTT(30) DEF StringSteps
  <2>3. CASE s \in {"quote", "backslash", "nl", "tab"}
    <3>1. /\ s = "quote" => Escaped(s) = <<"backslash", "quote">>
          /\ s = "backslash" => Escaped(s) = <<"backslash", "backslash">>
          /\ s = "nl" => Escaped(s) = <<"backslash", "n">>
          /\ s = "tab" => Escaped(s) = <<"backslash", "t">>
      BY DEF Escaped
    <3>2. /\ Unescaped("quote") = "quote" /\ Unescaped("backslash") = "backslash"
          /\ Unescaped("n") = "nl" /\ Unescaped("t") = "tab"
      BY DEF Unescaped
    <3>3. QED
      BY <2>1, <2>2, <2>3, <3>1, <3>2
  <2>4. CASE s \notin {"quote", "backslash", "nl", "tab"}
    <3>1. Escaped(s) = <<s>>
      BY <2>4 DEF Escaped
    <3>2. src[i] = s /\ i <= Len(src) /\ Len(Escaped(s)) = 1
      BY <1>3, <3>1 DEF Stands
    <3>3. StringSteps(src)[i] = Step(<<s>>, i + 1)
      BY <2>4, <3>2 DEF StringSteps
    <3>4. QED
      BY <2>1, <3>2, <3>3
  <2>5. QED
    BY <2>3, <2>4
<1>4. QED
  BY <1>1, <1>2, <1>3, StringsIsLanguage, ReadsOneStep

\* A string is read as its text.
LEMMA LexString ==
  ASSUME NEW text \in Seq(Symbols)
  PROVE  /\ Spelled(Str(text))[1] = "quote" /\ Spelled(Str(text)) # <<>>
         /\ ReadsAs(Lexed, Spelled(Str(text)), <<Str(text)>>, {})
<1> DEFINE parts == [i \in DOMAIN text |-> Escaped(text[i])]
           body  == FlattenSeq(parts)
           t     == <<"quote">> \o body \o <<"quote">>
<1>1. Spelled(Str(text)) = t
  BY DEF Spelled, Str, Token
<1>2. ReadsAs(Strings, body, text, {})
  <2> DEFINE singles == [i \in DOMAIN text |-> <<text[i]>>]
  <2>1. \A i \in 1..Len(text) : ReadsAs(Strings, Escaped(text[i]), <<text[i]>>, {})
    BY ReadEscaped
  <2>2. \A i \in 1..Len(text) : Escaped(text[i]) \in Seq(Strings.of)
    BY <2>1 DEF ReadsAs
  <2>3. parts \in Seq(Seq(Strings.of)) /\ Len(parts) = Len(text)
        /\ \A i \in 1..Len(text) : parts[i] = Escaped(text[i])
    BY <2>2
  <2>4. singles \in Seq(Seq(Strings.taking)) /\ Len(singles) = Len(text)
        /\ \A i \in 1..Len(text) : singles[i] = <<text[i]>>
    <3>1. \A i \in 1..Len(text) : <<text[i]>> \in Seq(Strings.taking)
      BY DEF Strings
    <3>2. singles \in [1..Len(text) -> Seq(Strings.taking)]
          /\ \A i \in 1..Len(text) : singles[i] = <<text[i]>>
      BY <3>1
    <3> HIDE DEF singles
    <3>3. Len(text) \in Nat
      OBVIOUS
    <3>4. QED
      BY <3>2, <3>3, Tabled
  <2>5. FlattenSeq(singles) = text
    BY FlatteningSingles
  <2> HIDE DEF parts, singles
  <2>6. ReadsAs(Strings, FlattenSeq(parts), FlattenSeq(singles), {})
    <3>1. \A i \in 1..Len(parts) : ReadsAs(Strings, parts[i], singles[i], {})
      BY <2>1, <2>3, <2>4
    <3>2. QED
      BY <2>3, <2>4, <3>1, StringsIsLanguage, ReadsMany
  <2>7. QED
    BY <2>5, <2>6
<1>3. body \in Seq(Symbols)
  BY <1>2 DEF ReadsAs, Strings
<1> HIDE DEF body
<1>4. t \in Seq(Symbols) /\ t # <<>> /\ t[1] = "quote" /\ Len(t) = Len(body) + 2
      /\ t[Len(body) + 2] = "quote" /\ \A k \in 1..Len(body) : t[k + 1] = body[k]
  <2>1. "quote" \in Symbols
    BY Known
  <2>2. QED
    BY <1>3, <2>1
<1>5. <<Str(text)>> \in Seq(Lexed.taking)
  BY DEF Lexed, Str, Token, Tokens, LiteralKinds
<1>6. ASSUME NEW src \in Seq(Symbols), NEW i \in 1..Len(src), Stands(src, i, t)
      PROVE  LexSteps(src)[i] = Step(<<Str(text)>>, i + Len(t))
  <2> DEFINE steps == StringSteps(src)
             n == Len(src) + 1
             end == i + 1 + Len(body)
  <2>1. IsReader(steps, n, Symbols)
    BY StringReader
  <2>2. /\ end \in 1..Len(src) /\ i + 1 \in 1..n /\ i + Len(t) = end + 1
        /\ src[i] = "quote" /\ src[end] = "quote"
    <3>1. i + Len(t) <= Len(src) + 1 /\ Len(body) \in Nat /\ Len(t) = Len(body) + 2
      BY <1>3, <1>4, <1>6 DEF Stands
    <3>2. 1 \in 1..Len(t) /\ Len(body) + 2 \in 1..Len(t) /\ i + 1 - 1 = i
          /\ i + (Len(body) + 2) - 1 = end
      BY <3>1
    <3>3. src[i] = t[1] /\ src[end] = t[Len(body) + 2]
      BY <1>6, <3>2 DEF Stands
    <3>4. QED
      BY <1>4, <3>1, <3>3, SMTT(30)
  <2>3. Stands(src, i + 1, body)
    <3>1. \A k \in 1..Len(body) : k + 1 \in 1..Len(t) /\ i + (k + 1) - 1 = i + 1 + k - 1
      BY <1>3, <1>4
    <3>2. \A k \in 1..Len(body) : src[i + 1 + k - 1] = t[k + 1]
      BY <1>6, <3>1 DEF Stands
    <3>3. QED
      BY <1>4, <2>2, <3>2 DEF Stands
  <2>4. Goes(steps, i + 1, text, end)
    <3>1. src \in Seq(Strings.of) /\ Strings.steps[src] = steps /\ Strings.first = {}
      BY DEF Strings
    <3>2. QED
      BY <1>2, <2>2, <2>3, <3>1 DEF ReadsAs
  <2>5. steps[end] = Stop(<<>>, end + 1)
    BY <2>2 DEF StringSteps
  <2> HIDE DEF steps, n, end
  <2>6. ReadFrom(steps, end) = [items |-> <<>>, next |-> end + 1]
    <3>1. end \in 1..n /\ steps[end].last
      BY <2>2, <2>5 DEF Stop, n
    <3>2. Unfolded(steps, end)
      BY <2>1, <3>1, Reader
    <3>3. QED
      BY <2>5, <3>1, <3>2 DEF Unfolded, Stop
  <2>7. ReadFrom(steps, i + 1) = [items |-> text, next |-> end + 1]
    <3>1. text \o <<>> = text
      OBVIOUS
    <3>2. QED
      BY <2>4, <2>6, <3>1 DEF Goes
  <2>8. end + 1 # 0
    BY <2>2
  <2>9. StringAt(src, i) = Step(<<Str(text)>>, end + 1)
    BY <2>7, <2>8 DEF StringAt, steps
  <2>10. LexSteps(src)[i] = StringAt(src, i)
    <3>1. i \in 1..Len(src) + 1 /\ src[i] = "quote"
      BY <2>2
    <3>2. LexSteps(src)[i] = LexStep(src, i)
      BY <3>1 DEF LexSteps
    <3>3. QED
      BY <3>1, <3>2, LexCases
  <2>11. QED
    BY <2>2, <2>9, <2>10
<1> HIDE DEF t
<1>7. ReadsAs(Lexed, t, <<Str(text)>>, {})
  <2>1. t \in Seq(Lexed.of)
    BY <1>4 DEF Lexed
  <2>2. \A src \in Seq(Lexed.of) : \A i \in 1..Len(src) :
          Stands(src, i, t) => Lexed.steps[src][i] = Step(<<Str(text)>>, i + Len(t))
    BY <1>6 DEF Lexed
  <2>3. QED
    BY <1>4, <1>5, <2>1, <2>2, LexedIsLanguage, ReadsOneStep
<1>8. QED
  BY <1>1, <1>4, <1>7

\* A text that stands somewhere is what stands there.
LEMMA StandsThere ==
  ASSUME NEW src \in Seq(Symbols), NEW i \in 1..Len(src), NEW t \in Seq(Symbols), t # <<>>,
         Stands(src, i, t)
  PROVE  SubSeq(src, i, i + Len(t) - 1) = t
<1> DEFINE u == SubSeq(src, i, i + Len(t) - 1)
<1>1. Len(t) \in Nat \ {0} /\ i + Len(t) - 1 \in i..Len(src)
  BY DEF Stands
<1>2. u \in Seq(Symbols) /\ Len(u) = Len(t)
  BY <1>1
<1>3. \A k \in 1..Len(t) : u[k] = src[i + k - 1]
  BY <1>1
<1>4. \A k \in 1..Len(t) : u[k] = t[k]
  BY <1>3 DEF Stands
<1> HIDE DEF u
<1>5. QED
  BY <1>2, <1>4 DEF u

\* What a number opens with.
LEMMA NumberOpens ==
  ASSUME NEW src \in Seq(Symbols), NEW i \in 1..Len(src), NEW sign \in {<<>>, <<"-">>},
         NEW d \in Numerals, NEW t \in Seq(Symbols), Stands(src, i, t),
         Len(t) > Len(sign), t[Len(sign) + 1] = d, sign # <<>> => t[1] = "-"
  PROVE  /\ ~OpensComment(src, i) /\ StartsNumber(src, i)
         /\ (IF src[i] = "-" THEN i + 1 ELSE i) = i + Len(sign)
         /\ src[i + Len(sign)] = d
<1>1. d \notin {"-", "/", "."}
  BY Known, Sorts DEF Marks
<1>2. CASE sign = <<>>
  <2>1. Len(t) >= 1 /\ t[1] = d /\ Len(sign) = 0
    BY <1>2
  <2>2. src[i] = d
    BY <2>1, <1>2 DEF Stands
  <2>3. QED
    BY <1>1, <2>1, <2>2 DEF StartsNumber, OpensComment
<1>3. CASE sign = <<"-">>
  <2>1. Len(t) >= 2 /\ t[1] = "-" /\ t[2] = d /\ Len(sign) = 1
    BY <1>3
  <2>2. i + Len(t) <= Len(src) + 1 /\ src[i + 1 - 1] = t[1] /\ src[i + 2 - 1] = t[2]
    BY <2>1 DEF Stands
  <2>3. src[i] = "-" /\ src[i + 1] = d /\ i + 1 <= Len(src)
    BY <2>1, <2>2
  <2>4. QED
    BY <1>1, <2>1, <2>3 DEF StartsNumber, OpensComment
<1>4. QED
  BY <1>2, <1>3

\* A whole number that fits is read as itself where no point follows.
LEMMA LexInt ==
  ASSUME NEW sign \in {<<>>, <<"-">>}, NEW d \in Numerals \ Huge
  PROVE  ReadsAs(Lexed, sign \o <<d>>, <<Token("int", sign \o <<d>>)>>, {"."})
<1> DEFINE t == sign \o <<d>>
<1>1. /\ t \in Seq(Symbols) /\ t # <<>> /\ Len(t) = Len(sign) + 1 /\ Len(sign) \in {0, 1}
      /\ t[Len(sign) + 1] = d /\ (sign # <<>> => t[1] = "-")
  <2>1. d \in Symbols /\ "-" \in Symbols
    BY Known
  <2>2. CASE sign = <<>>
    BY <2>1, <2>2
  <2>3. CASE sign = <<"-">>
    BY <2>1, <2>3
  <2>4. QED
    BY <2>2, <2>3
<1> HIDE DEF t
<1>3. t \in Seq(Lexed.of) /\ <<Token("int", t)>> \in Seq(Lexed.taking)
  BY <1>1 DEF Lexed, Token, Tokens, LiteralKinds
<1>4. ASSUME NEW src \in Seq(Symbols), NEW i \in 1..Len(src), Stands(src, i, t),
             i + Len(t) <= Len(src) => src[i + Len(t)] # "."
      PROVE  LexSteps(src)[i] = Step(<<Token("int", t)>>, i + Len(t))
  <2> DEFINE digits == IF src[i] = "-" THEN i + 1 ELSE i
             Is(j, symbols) == j <= Len(src) /\ src[j] \in symbols
             fraction == Is(digits + 1, {"."}) /\ Is(digits + 2, Numerals)
  <2>1. /\ ~OpensComment(src, i) /\ StartsNumber(src, i) /\ digits = i + Len(sign)
        /\ src[digits] = d
    <3>1. Len(t) > Len(sign) /\ d \in Numerals /\ t \in Seq(Symbols) /\ t[Len(sign) + 1] = d
          /\ (sign # <<>> => t[1] = "-") /\ Stands(src, i, t)
      BY <1>1, <1>4
    <3> HIDE DEF digits
    <3>2. /\ ~OpensComment(src, i) /\ StartsNumber(src, i)
          /\ (IF src[i] = "-" THEN i + 1 ELSE i) = i + Len(sign)
          /\ src[i + Len(sign)] = d
      BY <3>1, NumberOpens
    <3>3. QED
      BY <3>2 DEF digits
  <2>2. digits + 1 = i + Len(t) /\ digits = i + Len(t) - 1
    BY <1>1, <2>1
  <2>3. SubSeq(src, i, digits) = t
    BY <1>1, <1>4, <2>2, StandsThere
  <2>4. ~fraction
    BY <1>4, <2>2
  <2>5. NumberAt(src, i) =
          CASE fraction ->
                 Step(<<Token("float", SubSeq(src, i, digits + 2))>>, digits + 3)
            [] ~fraction /\ src[digits] \notin Huge ->
                 Step(<<Token("int", SubSeq(src, i, digits))>>, digits + 1)
            [] OTHER -> Stop(<<Unlexable>>, 0)
    BY DEF NumberAt
  <2> HIDE DEF digits, fraction
  <2>6. NumberAt(src, i) = Step(<<Token("int", t)>>, i + Len(t))
    BY <2>1, <2>2, <2>3, <2>4, <2>5
  <2>7. LexSteps(src)[i] = LexStep(src, i)
    BY DEF LexSteps
  <2>8. QED
    BY <2>1, <2>6, <2>7, LexCases
<1>5. \A src \in Seq(Lexed.of) : \A i \in 1..Len(src) :
        Stands(src, i, t) /\ (i + Len(t) <= Len(src) => src[i + Len(t)] \notin {"."})
        => Lexed.steps[src][i] = Step(<<Token("int", t)>>, i + Len(t))
  BY <1>4 DEF Lexed
<1>6. ReadsAs(Lexed, t, <<Token("int", t)>>, {"."})
  BY <1>1, <1>3, <1>5, LexedIsLanguage, ReadsOneStep
<1>7. QED
  BY <1>6 DEF t

\* So is a number with a fraction.
LEMMA LexFloat ==
  ASSUME NEW sign \in {<<>>, <<"-">>}, NEW d \in Numerals, NEW e \in Numerals
  PROVE  ReadsAs(Lexed, sign \o <<d, ".", e>>, <<Token("float", sign \o <<d, ".", e>>)>>, {})
<1> DEFINE t == sign \o <<d, ".", e>>
<1>1. d \in Symbols /\ "-" \in Symbols /\ e \in Symbols /\ "." \in Symbols
  BY Known DEF Marks
<1>2. /\ t \in Seq(Symbols) /\ t # <<>> /\ Len(t) = Len(sign) + 3 /\ Len(sign) \in {0, 1}
      /\ t[Len(sign) + 1] = d /\ t[Len(sign) + 2] = "." /\ t[Len(sign) + 3] = e
      /\ (sign # <<>> => t[1] = "-")
  <2>1. CASE sign = <<>>
    BY <1>1, <2>1
  <2>2. CASE sign = <<"-">>
    BY <1>1, <2>2
  <2>3. QED
    BY <2>1, <2>2
<1> HIDE DEF t
<1>4. t \in Seq(Lexed.of) /\ <<Token("float", t)>> \in Seq(Lexed.taking)
  BY <1>2 DEF Lexed, Token, Tokens, LiteralKinds
<1>5. ASSUME NEW src \in Seq(Symbols), NEW i \in 1..Len(src), Stands(src, i, t)
      PROVE  LexSteps(src)[i] = Step(<<Token("float", t)>>, i + Len(t))
  <2> DEFINE digits == IF src[i] = "-" THEN i + 1 ELSE i
             Is(j, symbols) == j <= Len(src) /\ src[j] \in symbols
             fraction == Is(digits + 1, {"."}) /\ Is(digits + 2, Numerals)
  <2>1. /\ ~OpensComment(src, i) /\ StartsNumber(src, i) /\ digits = i + Len(sign)
        /\ src[digits] = d
    <3>1. Len(t) > Len(sign) /\ d \in Numerals /\ t \in Seq(Symbols) /\ t[Len(sign) + 1] = d
          /\ (sign # <<>> => t[1] = "-") /\ Stands(src, i, t)
      BY <1>2, <1>5
    <3> HIDE DEF digits
    <3>2. /\ ~OpensComment(src, i) /\ StartsNumber(src, i)
          /\ (IF src[i] = "-" THEN i + 1 ELSE i) = i + Len(sign)
          /\ src[i + Len(sign)] = d
      BY <3>1, NumberOpens, SMTT(30)
    <3>3. QED
      BY <3>2 DEF digits
  <2>2. digits + 3 = i + Len(t) /\ digits + 2 = i + Len(t) - 1
    BY <1>2, <2>1
  <2>3. SubSeq(src, i, digits + 2) = t
    BY <1>2, <1>5, <2>2, StandsThere
  <2>4. fraction
    <3>1. Len(sign) + 2 \in 1..Len(t) /\ Len(sign) + 3 \in 1..Len(t)
          /\ i + (Len(sign) + 2) - 1 = digits + 1 /\ i + (Len(sign) + 3) - 1 = digits + 2
          /\ digits + 2 <= Len(src)
      BY <1>2, <1>5, <2>1 DEF Stands
    <3>2. src[digits + 1] = "." /\ src[digits + 2] = e
      BY <1>2, <1>5, <3>1 DEF Stands
    <3>3. digits + 1 <= Len(src)
      BY <2>1, <1>2, <3>1
    <3>4. QED
      BY <3>1, <3>2, <3>3
  <2>5. NumberAt(src, i) =
          CASE fraction ->
                 Step(<<Token("float", SubSeq(src, i, digits + 2))>>, digits + 3)
            [] ~fraction /\ src[digits] \notin Huge ->
                 Step(<<Token("int", SubSeq(src, i, digits))>>, digits + 1)
            [] OTHER -> Stop(<<Unlexable>>, 0)
    BY DEF NumberAt
  <2> HIDE DEF digits, fraction
  <2>6. NumberAt(src, i) = Step(<<Token("float", t)>>, i + Len(t))
    BY <2>1, <2>2, <2>3, <2>4, <2>5
  <2>7. LexSteps(src)[i] = LexStep(src, i)
    BY DEF LexSteps
  <2>8. QED
    BY <2>1, <2>6, <2>7, LexCases
<1>6. \A src \in Seq(Lexed.of) : \A i \in 1..Len(src) :
        Stands(src, i, t) => Lexed.steps[src][i] = Step(<<Token("float", t)>>, i + Len(t))
  BY <1>5 DEF Lexed
<1>7. ReadsAs(Lexed, t, <<Token("float", t)>>, {})
  BY <1>2, <1>4, <1>6, LexedIsLanguage, ReadsOneStep
<1>8. QED
  BY <1>7 DEF t

\* What a sign and digits open with.
LEMMA FirstOf ==
  ASSUME NEW sign \in {<<>>, <<"-">>}, NEW d, d # ".", NEW e
  PROVE  /\ sign \o <<d>> # <<>> /\ (sign \o <<d>>)[1] # "."
         /\ sign \o <<d, ".", e>> # <<>> /\ (sign \o <<d, ".", e>>)[1] # "."
<1> DEFINE S == {d, "-", ".", e}
<1>1. <<d>> \in Seq(S) /\ <<d, ".", e>> \in Seq(S) /\ <<"-">> \in Seq(S)
  OBVIOUS
<1>2. <<>> \o <<d>> = <<d>> /\ <<>> \o <<d, ".", e>> = <<d, ".", e>>
  BY <1>1
<1>3. /\ (<<"-">> \o <<d>>)[1] = "-" /\ (<<"-">> \o <<d, ".", e>>)[1] = "-"
      /\ <<"-">> \o <<d>> # <<>> /\ <<"-">> \o <<d, ".", e>> # <<>>
  BY <1>1
<1>4. QED
  BY <1>2, <1>3

\* A literal is read as itself where no point follows.
LEMMA LexLiteral ==
  ASSUME NEW literal, IsLiteral(literal)
  PROVE  /\ ReadsAs(Lexed, Spelled(literal), <<literal>>, {"."})
         /\ Spelled(literal) # <<>> /\ Spelled(literal)[1] # "."
         /\ literal \in Tokens /\ literal.kind \in LiteralKinds
<1>1. CASE literal = Str(literal.value) /\ literal.value \in Seq(Symbols)
  <2>1. literal \in Tokens /\ literal.kind \in LiteralKinds
    <3>1. Str(literal.value) \in Tokens /\ Str(literal.value).kind = "str"
      BY <1>1 DEF Str, Token, Tokens, LiteralKinds
    <3>2. QED
      BY <1>1, <3>1 DEF LiteralKinds
  <2>2. ReadsAs(Lexed, Spelled(literal), <<literal>>, {}) /\ Spelled(literal) # <<>>
        /\ Spelled(literal)[1] = "quote"
    BY <1>1, LexString
  <2>3. QED
    BY <2>1, <2>2, ReadsWeaker
<1>2. ASSUME NEW sign \in {<<>>, <<"-">>}, NEW d \in Numerals \ Huge,
             literal = Token("int", sign \o <<d>>)
      PROVE  /\ ReadsAs(Lexed, Spelled(literal), <<literal>>, {"."})
             /\ Spelled(literal) # <<>> /\ Spelled(literal)[1] # "."
             /\ literal \in Tokens /\ literal.kind \in LiteralKinds
  <2>1. literal.kind = "int" /\ literal.value = sign \o <<d>>
    BY <1>2 DEF Token
  <2>2. Spelled(literal) = sign \o <<d>>
    BY <2>1 DEF Spelled
  <2>3. ReadsAs(Lexed, sign \o <<d>>, <<literal>>, {"."})
    BY <1>2, LexInt
  <2>4. sign \o <<d>> # <<>> /\ (sign \o <<d>>)[1] # "."
    <3>1. d # "."
      BY Sorts DEF Marks
    <3>2. QED
      BY <3>1, FirstOf
  <2>5. <<literal>> \in Seq(Tokens)
    BY <2>3 DEF ReadsAs, Lexed
  <2>6. literal \in Tokens
    BY <2>5
  <2>7. QED
    BY <2>1, <2>2, <2>3, <2>4, <2>6 DEF LiteralKinds
<1>3. ASSUME NEW sign \in {<<>>, <<"-">>}, NEW d \in Numerals, NEW e \in Numerals,
             literal = Token("float", sign \o <<d, ".", e>>)
      PROVE  /\ ReadsAs(Lexed, Spelled(literal), <<literal>>, {"."})
             /\ Spelled(literal) # <<>> /\ Spelled(literal)[1] # "."
             /\ literal \in Tokens /\ literal.kind \in LiteralKinds
  <2>1. literal.kind = "float" /\ literal.value = sign \o <<d, ".", e>>
    BY <1>3 DEF Token
  <2>2. Spelled(literal) = sign \o <<d, ".", e>>
    BY <2>1 DEF Spelled
  <2>3. ReadsAs(Lexed, sign \o <<d, ".", e>>, <<literal>>, {"."})
    <3>1. ReadsAs(Lexed, sign \o <<d, ".", e>>, <<literal>>, {})
      BY <1>3, LexFloat
    <3>2. QED
      BY <3>1, ReadsWeaker
  <2>4. sign \o <<d, ".", e>> # <<>> /\ (sign \o <<d, ".", e>>)[1] # "."
    <3>1. d # "."
      BY Sorts DEF Marks
    <3>2. QED
      BY <3>1, FirstOf
  <2>5. <<literal>> \in Seq(Tokens)
    BY <2>3 DEF ReadsAs, Lexed
  <2>6. literal \in Tokens
    BY <2>5
  <2>7. QED
    BY <2>1, <2>2, <2>3, <2>4, <2>6 DEF LiteralKinds
<1>4. ASSUME NEW truth \in Truths, literal = Token("bool", <<truth>>)
      PROVE  /\ ReadsAs(Lexed, Spelled(literal), <<literal>>, {"."})
             /\ Spelled(literal) # <<>> /\ Spelled(literal)[1] # "."
             /\ literal \in Tokens /\ literal.kind \in LiteralKinds
  <2>1. literal.kind = "bool" /\ literal.value = <<truth>>
    BY <1>4 DEF Token
  <2>2. Spelled(literal) = <<truth>> /\ <<truth>> # <<>> /\ <<truth>>[1] # "."
    BY <2>1 DEF Spelled, Truths
  <2>3. truth \in Words
    BY SourceAssumption
  <2>4. ReadsAs(Lexed, <<truth>>, <<literal>>, {})
    BY <1>4, <2>3, LexWord
  <2>5. <<literal>> \in Seq(Tokens)
    BY <2>4 DEF ReadsAs, Lexed
  <2>6. literal \in Tokens
    BY <2>5
  <2>7. QED
    BY <2>1, <2>2, <2>4, <2>6, ReadsWeaker DEF LiteralKinds
<1>5. QED
  BY <1>1, <1>2, <1>3, <1>4 DEF IsLiteral

-----------------------------------------------------------------------------
(* Calls as a source.                                                      *)

\* The source of an argument and of a call, as Source puts them together.
ArgumentText(call, gap, i) ==
  (IF i = 1 THEN <<>> ELSE <<",">> \o gap) \o Spelled(call.args[i]) \o gap

CallText(call, gap) ==
  (IF call.link THEN <<".">> \o gap ELSE <<>>)
  \o <<call.name>> \o gap \o <<"(">> \o gap
  \o FlattenSeq([i \in DOMAIN call.args |-> ArgumentText(call, gap, i)])
  \o <<")">> \o gap

\* Their tokens.
ArgumentTokens(call, i) == (IF i = 1 THEN <<>> ELSE <<Mark(",")>>) \o <<call.args[i]>>

CallTokens(call) ==
  (IF call.link THEN <<Mark(".")>> ELSE <<>>)
  \o <<Token("word", <<call.name>>)>> \o <<Mark("(")>>
  \o FlattenSeq([i \in DOMAIN call.args |-> ArgumentTokens(call, i)])
  \o <<Mark(")")>>

\* Two texts open as the first does.
LEMMA OpensBoth ==
  ASSUME NEW S, NEW t \in Seq(S), NEW u \in Seq(S), t # <<>>
  PROVE  t \o u # <<>> /\ (t \o u)[1] = t[1]
<1>1. Len(t) \in Nat /\ Len(t) # 0
  OBVIOUS
<1>2. 1 \in 1..Len(t)
  BY <1>1
<1>3. \A k \in 1..Len(t) : (t \o u)[k] = t[k]
  OBVIOUS
<1>4. Len(t \o u) = Len(t) + Len(u) /\ Len(u) \in Nat
  OBVIOUS
<1>5. QED
  BY <1>1, <1>2, <1>3, <1>4

\* A layout after a text changes nothing.
LEMMA LexGap ==
  ASSUME NEW t, NEW x, NEW D \in SUBSET {"."}, ReadsAs(Lexed, t, x, D), NEW gap, IsLayout(gap)
  PROVE  /\ ReadsAs(Lexed, t \o gap, x, D)
         /\ t # <<>> => t \o gap # <<>> /\ (t \o gap)[1] = t[1]
<1>1. t \in Seq(Symbols) /\ x \in Seq(Tokens) /\ gap \in Seq(Symbols)
  BY DEF ReadsAs, Lexed, IsLayout
<1>2. gap # <<>> => gap[1] # "."
  <2>1. gap # <<>> => 1 # Len(gap) + 1
    BY <1>1
  <2>2. gap # <<>> => gap[1] \in Blanks \/ OpensComment(gap, 1)
    BY <2>1 DEF IsLayout
  <2>3. "." \notin Blanks
    BY DEF Blanks
  <2>4. QED
    BY <2>2, <2>3 DEF OpensComment
<1>3. ReadsAs(Lexed, gap, <<>>, D)
  BY LexLayout, ReadsWeaker
<1>4. IF gap = <<>> THEN D \subseteq D ELSE gap[1] \notin D
  BY <1>2
<1>5. ReadsAs(Lexed, t \o gap, x \o <<>>, D)
  BY <1>3, <1>4, LexedIsLanguage, ReadsBoth
<1>6. x \o <<>> = x
  BY <1>1
<1>7. t # <<>> => t \o gap # <<>> /\ (t \o gap)[1] = t[1]
  BY <1>1
<1>8. QED
  BY <1>5, <1>6, <1>7

\* An argument is read as itself, after its comma.
LEMMA LexArgument ==
  ASSUME NEW call, IsCall(call), NEW i \in DOMAIN call.args, NEW gap, IsLayout(gap)
  PROVE  /\ ReadsAs(Lexed, ArgumentText(call, gap, i), ArgumentTokens(call, i), {"."})
         /\ ArgumentText(call, gap, i) # <<>> /\ ArgumentText(call, gap, i)[1] # "."
<1> DEFINE comma == IF i = 1 THEN <<>> ELSE <<",">> \o gap
           mark  == IF i = 1 THEN <<>> ELSE <<Mark(",")>>
           arg   == call.args[i]
           text  == comma \o Spelled(arg)
<1>1. IsLiteral(arg)
  BY DEF IsCall, ToSet
<1>2. /\ ReadsAs(Lexed, Spelled(arg), <<arg>>, {"."})
      /\ Spelled(arg) # <<>> /\ Spelled(arg)[1] # "."
  BY <1>1, LexLiteral
<1>3. ReadsAs(Lexed, comma, mark, {}) /\ (comma # <<>> => comma[1] = ",")
  <2>1. CASE i = 1
    BY <2>1, LexedIsLanguage, ReadsNothing
  <2>2. CASE i # 1
    <3>1. ReadsAs(Lexed, <<",">>, <<Mark(",")>>, {}) /\ <<",">> # <<>> /\ <<",">>[1] = ","
      BY LexMark DEF Marks
    <3>2. ReadsAs(Lexed, <<",">> \o gap, <<Mark(",")>>, {}) /\ (<<",">> \o gap)[1] = ","
      <4>1. ReadsAs(Lexed, <<",">> \o gap, <<Mark(",")>>, {}) /\ (<<",">> \o gap)[1] = <<",">>[1]
        <5>1. {} \in SUBSET {"."}
          OBVIOUS
        <5>2. ReadsAs(Lexed, <<",">> \o gap, <<Mark(",")>>, {})
          BY <3>1, <5>1, LexGap
        <5>3. <<",">> \in Seq(Symbols) /\ gap \in Seq(Symbols)
          BY <3>1 DEF ReadsAs, Lexed, IsLayout
        <5>4. (<<",">> \o gap)[1] = <<",">>[1]
          BY <5>3, OpensBoth
        <5>5. QED
          BY <5>2, <5>4
      <4>2. QED
        BY <3>1, <4>1
    <3>3. QED
      BY <2>2, <3>2
  <2>3. QED
    BY <2>1, <2>2
<1>4. comma \in Seq(Symbols) /\ Spelled(arg) \in Seq(Symbols)
  BY <1>2, <1>3 DEF ReadsAs, Lexed
<1> HIDE DEF comma, mark, arg
<1>5. ReadsAs(Lexed, text, mark \o <<arg>>, {"."})
  <2>1. IF Spelled(arg) = <<>> THEN {} \subseteq {"."} ELSE Spelled(arg)[1] \notin {}
    OBVIOUS
  <2>2. ReadsAs(Lexed, Spelled(arg), <<arg>>, {"."})
    BY <1>2
  <2> DEFINE u == Spelled(arg)
             y == <<arg>>
  <2> HIDE DEF u, y
  <2>3. ReadsAs(Lexed, comma \o u, mark \o y, {"."})
    <3>1. /\ ReadsAs(Lexed, u, y, {"."})
          /\ IF u = <<>> THEN {} \subseteq {"."} ELSE u[1] \notin {}
      BY <2>1, <2>2 DEF u, y
    <3>2. ReadsAs(Lexed, comma, mark, {})
      BY <1>3
    <3>3. QED
      BY <3>1, <3>2, LexedIsLanguage, ReadsBoth
  <2>4. QED
    BY <2>3 DEF u, y
<1>6. text # <<>> /\ text[1] # "."
  <2>1. CASE comma = <<>>
    <3>1. text = Spelled(arg)
      BY <1>4, <2>1
    <3>2. QED
      BY <1>2, <3>1
  <2>2. CASE comma # <<>>
    <3>1. text # <<>> /\ text[1] = comma[1]
      BY <1>4, <2>2
    <3>2. QED
      BY <1>3, <2>2, <3>1
  <2>3. QED
    BY <2>1, <2>2
<1> HIDE DEF text
<1>7. /\ ReadsAs(Lexed, text \o gap, mark \o <<arg>>, {"."})
      /\ text \o gap # <<>> /\ (text \o gap)[1] # "."
  BY <1>5, <1>6, LexGap
<1>8. /\ ArgumentText(call, gap, i) = text \o gap
      /\ ArgumentTokens(call, i) = mark \o <<arg>>
  BY DEF ArgumentText, ArgumentTokens, text, comma, mark, arg
<1>9. QED
  BY <1>7, <1>8

\* A call is read as its tokens.
LEMMA LexCall ==
  ASSUME NEW call, IsCall(call), NEW gap, IsLayout(gap)
  PROVE  ReadsAs(Lexed, CallText(call, gap), CallTokens(call), {})
<1> DEFINE dot   == IF call.link THEN <<".">> \o gap ELSE <<>>
           point == IF call.link THEN <<Mark(".")>> ELSE <<>>
           word  == <<Token("word", <<call.name>>)>>
           args  == [i \in DOMAIN call.args |-> ArgumentText(call, gap, i)]
           toks  == [i \in DOMAIN call.args |-> ArgumentTokens(call, i)]
<1>1. ReadsAs(Lexed, dot, point, {})
  <2>1. CASE call.link
    <3>1. ReadsAs(Lexed, <<".">>, <<Mark(".")>>, {})
      BY LexMark DEF Marks
    <3>2. ReadsAs(Lexed, <<".">> \o gap, <<Mark(".")>>, {})
      BY <3>1, LexGap
    <3>3. QED
      BY <2>1, <3>2
  <2>2. CASE ~call.link
    BY <2>2, LexedIsLanguage, ReadsNothing
  <2>3. QED
    BY <2>1, <2>2
<1>2. ReadsAs(Lexed, <<call.name>>, word, {})
  BY LexWord DEF IsCall, IsWord
<1>3. ReadsAs(Lexed, <<"(">>, <<Mark("(")>>, {}) /\ ReadsAs(Lexed, <<")">>, <<Mark(")")>>, {})
  BY LexMark DEF Marks
<1>4. ReadsAs(Lexed, FlattenSeq(args), FlattenSeq(toks), {"."})
  <2>1. DOMAIN call.args = 1..Len(call.args) /\ Len(call.args) \in Nat
    <3>1. PICK S : call.args \in Seq(S)
      BY DEF IsCall
    <3>2. QED
      BY <3>1
  <2>2. \A i \in 1..Len(call.args) :
          /\ ReadsAs(Lexed, ArgumentText(call, gap, i), ArgumentTokens(call, i), {"."})
          /\ ArgumentText(call, gap, i)[1] \notin {"."}
    BY <2>1, LexArgument
  <2>3. \A i \in 1..Len(call.args) : /\ ArgumentText(call, gap, i) \in Seq(Lexed.of)
                                     /\ ArgumentTokens(call, i) \in Seq(Lexed.taking)
    BY <2>2 DEF ReadsAs
  <2>4. args \in [1..Len(call.args) -> Seq(Lexed.of)]
        /\ \A i \in 1..Len(call.args) : args[i] = ArgumentText(call, gap, i)
    BY <2>1, <2>3
  <2>5. toks \in [1..Len(call.args) -> Seq(Lexed.taking)]
        /\ \A i \in 1..Len(call.args) : toks[i] = ArgumentTokens(call, i)
    BY <2>1, <2>3
  <2> HIDE DEF args, toks
  <2>6. /\ args \in Seq(Seq(Lexed.of)) /\ Len(args) = Len(call.args)
        /\ toks \in Seq(Seq(Lexed.taking)) /\ Len(toks) = Len(call.args)
    BY <2>1, <2>4, <2>5, Tabled
  <2>7. \A i \in 1..Len(args) : /\ ReadsAs(Lexed, args[i], toks[i], {"."})
                                /\ args[i] # <<>> => args[i][1] \notin {"."}
    BY <2>2, <2>4, <2>5, <2>6
  <2>8. QED
    BY <2>6, <2>7, LexedIsLanguage, ReadsMany
<1> DEFINE A == FlattenSeq(args)
           B == FlattenSeq(toks)
           R(t, x) == ReadsAs(Lexed, t, x, {})
<1> HIDE DEF dot, point, word, args, toks
<1>5. \A t, x, u, y : R(t, x) /\ R(u, y) => R(t \o u, x \o y)
  <2>1. \A u : IF u = <<>> THEN {} \subseteq {} ELSE u[1] \notin {}
    OBVIOUS
  <2>2. QED
    BY <2>1, LexedIsLanguage, ReadsBoth
<1>6. \A t, x : R(t, x) => R(t \o gap, x)
  BY LexGap
<1> HIDE DEF R
<1>7. R(dot \o <<call.name>> \o gap, point \o word)
  BY <1>1, <1>2, <1>5, <1>6 DEF R
<1>8. R(dot \o <<call.name>> \o gap \o <<"(">> \o gap, point \o word \o <<Mark("(")>>)
  <2>1. R(<<"(">>, <<Mark("(")>>)
    BY <1>3 DEF R
  <2>2. QED
    BY <1>5, <1>6, <1>7, <2>1
<1>9. ReadsAs(Lexed, dot \o <<call.name>> \o gap \o <<"(">> \o gap \o A,
              point \o word \o <<Mark("(")>> \o B, {"."})
  <2> DEFINE t == dot \o <<call.name>> \o gap \o <<"(">> \o gap
             x == point \o word \o <<Mark("(")>>
  <2>1. ReadsAs(Lexed, t, x, {}) /\ ReadsAs(Lexed, A, B, {"."})
    BY <1>4, <1>8 DEF R
  <2>2. IF A = <<>> THEN {} \subseteq {"."} ELSE A[1] \notin {}
    OBVIOUS
  <2> HIDE DEF t, x, A, B
  <2>3. ReadsAs(Lexed, t \o A, x \o B, {"."})
    BY <2>1, <2>2, LexedIsLanguage, ReadsBoth
  <2>4. QED
    BY <2>3 DEF t, x
<1>10. R(dot \o <<call.name>> \o gap \o <<"(">> \o gap \o A \o <<")">>,
         point \o word \o <<Mark("(")>> \o B \o <<Mark(")")>>)
  <2> DEFINE t == dot \o <<call.name>> \o gap \o <<"(">> \o gap \o A
             x == point \o word \o <<Mark("(")>> \o B
  <2>1. ReadsAs(Lexed, t, x, {"."}) /\ ReadsAs(Lexed, <<")">>, <<Mark(")")>>, {})
    BY <1>3, <1>9
  <2>2. <<")">> # <<>> /\ <<")">>[1] \notin {"."}
    OBVIOUS
  <2> HIDE DEF t, x
  <2>3. ReadsAs(Lexed, t \o <<")">>, x \o <<Mark(")")>>, {})
    BY <2>1, <2>2, LexedIsLanguage, ReadsBoth
  <2>4. QED
    BY <2>3 DEF t, x, R
<1>11. R(dot \o <<call.name>> \o gap \o <<"(">> \o gap \o A \o <<")">> \o gap,
         point \o word \o <<Mark("(")>> \o B \o <<Mark(")")>>)
  BY <1>6, <1>10
<1>12. QED
  BY <1>11 DEF R, CallText, CallTokens, dot, point, word, A, B, args, toks

\* The tokens of many calls.
TokensOf(calls) == FlattenSeq([i \in DOMAIN calls |-> CallTokens(calls[i])])

\* Calls, as a source in any layout, are read as their tokens.
LEMMA LexSource ==
  ASSUME NEW calls, NEW S, calls \in Seq(S), \A call \in S : IsCall(call),
         NEW gap, IsLayout(gap)
  PROVE  ReadsAs(Lexed, Source(calls, gap), TokensOf(calls), {})
<1> DEFINE texts == [i \in DOMAIN calls |-> CallText(calls[i], gap)]
           toks  == [i \in DOMAIN calls |-> CallTokens(calls[i])]
<1>1. Source(calls, gap) = FlattenSeq(texts)
  BY DEF Source, CallText, ArgumentText
<1>2. \A i \in 1..Len(calls) : ReadsAs(Lexed, CallText(calls[i], gap), CallTokens(calls[i]), {})
  BY LexCall
<1>3. \A i \in 1..Len(calls) : /\ CallText(calls[i], gap) \in Seq(Lexed.of)
                               /\ CallTokens(calls[i]) \in Seq(Lexed.taking)
  BY <1>2 DEF ReadsAs
<1>4. DOMAIN calls = 1..Len(calls) /\ Len(calls) \in Nat
  OBVIOUS
<1>5. /\ texts \in [1..Len(calls) -> Seq(Lexed.of)]
      /\ toks \in [1..Len(calls) -> Seq(Lexed.taking)]
      /\ \A i \in 1..Len(calls) : /\ texts[i] = CallText(calls[i], gap)
                                  /\ toks[i] = CallTokens(calls[i])
  BY <1>3, <1>4
<1> HIDE DEF texts, toks
<1>6. /\ texts \in Seq(Seq(Lexed.of)) /\ Len(texts) = Len(calls)
      /\ toks \in Seq(Seq(Lexed.taking)) /\ Len(toks) = Len(calls)
  BY <1>4, <1>5, Tabled
<1>7. \A i \in 1..Len(texts) : /\ ReadsAs(Lexed, texts[i], toks[i], {})
                               /\ texts[i] # <<>> => texts[i][1] \notin {}
  BY <1>2, <1>5, <1>6
<1>8. ReadsAs(Lexed, FlattenSeq(texts), FlattenSeq(toks), {})
  BY <1>6, <1>7, LexedIsLanguage, ReadsMany
<1>9. QED
  BY <1>1, <1>8 DEF TokensOf, toks

-----------------------------------------------------------------------------
(* What the call reader makes of the tokens of calls.                      *)

Separated(args, comma) ==
  FlattenSeq([i \in DOMAIN args |-> (IF i = 1 THEN <<>> ELSE <<comma>>) \o <<args[i]>>])

ArgumentList(args) == Separated(args, Mark(","))

\* The sequence of one thing and then another.
LEMMA OneThenOther ==
  ASSUME NEW T, NEW a \in T, NEW b \in T
  PROVE  <<a>> \o <<b>> = <<a, b>> /\ <<a, b>> \in Seq(T)
<1>1. PICK w : w = <<a>> \o <<b>>
  OBVIOUS
<1>2. w \in Seq(T) /\ Len(w) = 2 /\ w[1] = a /\ w[2] = b
  BY <1>1
<1>3. PICK z : z = <<a, b>>
  OBVIOUS
<1>4. z \in Seq(T) /\ Len(z) = 2 /\ z[1] = a /\ z[2] = b
  BY <1>3
<1>5. w = z
  BY <1>2, <1>4
<1>6. QED
  BY <1>1, <1>3, <1>4, <1>5

\* What two more things at the end of a sequence change.
LEMMA TwoMore ==
  ASSUME NEW T, NEW s \in Seq(T), NEW a \in T, NEW b \in T
  PROVE  /\ Len(s \o <<a, b>>) = Len(s) + 2
         /\ \A i \in 1..Len(s) : (s \o <<a, b>>)[i] = s[i]
         /\ (s \o <<a, b>>)[Len(s) + 1] = a
         /\ (s \o <<a, b>>)[Len(s) + 2] = b
  OBVIOUS

\* Arguments alternate with commas.
LEMMA Alternating ==
  ASSUME NEW T, NEW args \in Seq(T), NEW comma \in T
  PROVE  /\ Separated(args, comma) \in Seq(T)
         /\ args = <<>> => Len(Separated(args, comma)) = 0
         /\ args # <<>> =>
              /\ Len(Separated(args, comma)) = 2 * Len(args) - 1
              /\ \A k \in 1..Len(args) : Separated(args, comma)[2 * k - 1] = args[k]
              /\ \A k \in 1..Len(args) - 1 : Separated(args, comma)[2 * k] = comma
<1>1. PICK n : n = Len(args)
  OBVIOUS
<1> DEFINE parts == [i \in 1..n |-> (IF i = 1 THEN <<>> ELSE <<comma>>) \o <<args[i]>>]
<1>2. n \in Nat /\ DOMAIN args = 1..n
  BY <1>1
<1>4. parts \in Seq(Seq(T)) /\ Len(parts) = n
      /\ \A i \in 1..n : parts[i] = IF i = 1 THEN <<args[i]>> ELSE <<comma, args[i]>>
  <2>1. \A i \in 1..n : args[i] \in T
    BY <1>1, <1>2
  <2>2. \A b \in T : <<>> \o <<b>> = <<b>> /\ <<b>> \in Seq(T)
    OBVIOUS
  <2>3. \A b \in T : <<comma>> \o <<b>> = <<comma, b>> /\ <<comma, b>> \in Seq(T)
    BY OneThenOther
  <2>4. \A i \in 1..n : parts[i] = IF i = 1 THEN <<args[i]>> ELSE <<comma, args[i]>>
    BY <2>1, <2>2, <2>3
  <2>5. \A i \in 1..n : parts[i] \in Seq(T)
    <3> SUFFICES ASSUME NEW i \in 1..n
                 PROVE  parts[i] \in Seq(T)
      OBVIOUS
    <3>1. CASE i = 1
      <4>1. parts[i] = <<args[i]>> /\ args[i] \in T
        BY <2>1, <2>4, <3>1
      <4> HIDE DEF parts
      <4>2. QED
        BY <2>2, <4>1
    <3>2. CASE i # 1
      <4>1. parts[i] = <<comma, args[i]>> /\ args[i] \in T
        BY <2>1, <2>4, <3>2
      <4> HIDE DEF parts
      <4>2. QED
        BY <2>3, <4>1
    <3>3. QED
      BY <3>1, <3>2
  <2>6. parts \in [1..n -> Seq(T)]
    BY <2>5
  <2> HIDE DEF parts
  <2>7. parts \in Seq(Seq(T)) /\ Len(parts) = n
    BY <1>2, <2>6, Tabled
  <2>8. QED
    BY <2>4, <2>7
<1>5. Separated(args, comma) = FlattenSeq(parts)
  BY <1>2 DEF Separated
<1> HIDE DEF parts
<1>6. PICK f : Joins(f, parts, T) /\ f[n] = FlattenSeq(parts)
  BY <1>4, Flattening
<1>7. f \in [0..n -> Seq(T)] /\ f[0] = <<>>
      /\ \A k \in 0..n - 1 : f[k + 1] = f[k] \o parts[k + 1]
  BY <1>4, <1>6 DEF Joins
<1> DEFINE Laid(k) == /\ Len(f[k]) = 2 * k - 1
                      /\ \A m \in 1..k : f[k][2 * m - 1] = args[m]
                      /\ \A m \in 1..k - 1 : f[k][2 * m] = comma
           S == {k \in Nat : k + 1 <= n => Laid(k + 1)}
<1>8. 0 \in S
  <2>0. 0 + 1 = 1
    OBVIOUS
  <2> SUFFICES ASSUME 1 <= n
               PROVE  Laid(1)
    BY <2>0
  <2>1. 0 \in 0..n - 1 /\ 1 \in 1..n /\ 0 + 1 = 1
    BY <1>2
  <2>2. f[1] = <<>> \o <<args[1]>>
    BY <1>4, <1>7, <2>1
  <2>3. args[1] \in T
    BY <1>1, <2>1
  <2>4. Len(f[1]) = 1 /\ f[1][1] = args[1]
    BY <2>2, <2>3
  <2>5. QED
    BY <2>4
<1>9. ASSUME NEW k \in Nat, k \in S
      PROVE  k + 1 \in S
  <2>1. PICK j : j = k + 1
    OBVIOUS
  <2>2. SUFFICES ASSUME j + 1 <= n
                 PROVE  Laid(j + 1)
    BY <2>1
  <2>3. j \in Nat /\ j >= 1 /\ j \in 0..n - 1 /\ j + 1 \in 1..n /\ j + 1 # 1 /\ j \in 0..n
        /\ k + 1 <= n
    BY <1>2, <2>1, <2>2
  <2>4. Laid(j)
    BY <1>9, <2>1, <2>3
  <2>5. PICK g : g = f[j]
    OBVIOUS
  <2>6. g \in Seq(T) /\ args[j + 1] \in T
    BY <1>1, <1>7, <2>3, <2>5
  <2>7. f[j + 1] = g \o <<comma, args[j + 1]>>
    BY <1>4, <1>7, <2>3, <2>5
  <2>8. Len(g) = 2 * j - 1
        /\ (\A m \in 1..j : g[2 * m - 1] = args[m])
        /\ (\A m \in 1..j - 1 : g[2 * m] = comma)
    BY <2>4, <2>5
  <2>9. PICK w : w = f[j + 1]
    OBVIOUS
  <2>10. /\ Len(w) = Len(g) + 2
         /\ \A m \in 1..Len(g) : w[m] = g[m]
         /\ w[Len(g) + 1] = comma
         /\ w[Len(g) + 2] = args[j + 1]
    BY <2>6, <2>7, <2>9, TwoMore
  <2>11. ASSUME NEW m \in 1..j + 1
         PROVE  w[2 * m - 1] = args[m]
    <3>1. CASE m = j + 1
      <4>1. 2 * m - 1 = Len(g) + 2
        BY <2>3, <2>8, <3>1
      <4>2. QED
        BY <2>10, <3>1, <4>1
    <3>2. CASE m \in 1..j
      <4>1. 2 * m - 1 \in 1..Len(g)
        BY <2>3, <2>8, <3>2
      <4>2. QED
        BY <2>8, <2>10, <3>2, <4>1
    <3>3. QED
      BY <2>3, <3>1, <3>2
  <2>12. ASSUME NEW m \in 1..j
         PROVE  w[2 * m] = comma
    <3>1. CASE m = j
      <4>1. 2 * m = Len(g) + 1
        BY <2>3, <2>8, <3>1
      <4>2. QED
        BY <2>10, <4>1
    <3>2. CASE m \in 1..j - 1
      <4>1. 2 * m \in 1..Len(g)
        BY <2>3, <2>8, <3>2
      <4>2. QED
        BY <2>8, <2>10, <3>2, <4>1
    <3>3. QED
      BY <2>3, <3>1, <3>2
  <2>13. Len(w) = 2 * (j + 1) - 1 /\ (j + 1) - 1 = j
    BY <2>3, <2>8, <2>10
  <2>14. QED
    BY <2>9, <2>11, <2>12, <2>13
<1>10. Nat \subseteq S
  <2> HIDE DEF S
  <2>1. QED
    BY <1>8, <1>9, Induction
<1>11. n # 0 => Laid(n)
  <2> SUFFICES ASSUME n # 0
               PROVE  Laid(n)
    OBVIOUS
  <2>1. n - 1 \in Nat /\ (n - 1) + 1 = n
    BY <1>2
  <2>2. n - 1 \in S
    BY <1>10, <2>1
  <2>3. (n - 1) + 1 <= n => Laid((n - 1) + 1)
    BY <2>2
  <2> HIDE DEF Laid
  <2>4. QED
    BY <1>2, <2>1, <2>3
<1>12. args = <<>> <=> n = 0
  BY <1>1
<1>13. PICK w : w = f[n]
  OBVIOUS
<1>14. w \in Seq(T) /\ Separated(args, comma) = w /\ (n = 0 => Len(w) = 0)
  BY <1>2, <1>5, <1>6, <1>7, <1>13
<1>15. n # 0 => /\ Len(w) = 2 * n - 1
                /\ \A k \in 1..n : w[2 * k - 1] = args[k]
                /\ \A k \in 1..n - 1 : w[2 * k] = comma
  BY <1>11, <1>13
<1> HIDE DEF S, Laid
<1>16. QED
  BY <1>1, <1>12, <1>14, <1>15

\* Marks are tokens.
LEMMA MarkTokens ==
  \A mark \in Marks : Mark(mark) \in Tokens
<1>1. <<>> \in Seq(Symbols)
  OBVIOUS
<1>2. QED
  BY <1>1 DEF Mark, Token, Tokens

\* Literals with commas between them and a parenthesis behind are read as the
\* arguments that they are.
LEMMA ArgumentsRead ==
  ASSUME NEW args \in Seq(Tokens), \A i \in 1..Len(args) : args[i].kind \in LiteralKinds,
         NEW tokens \in Seq(Tokens), NEW p \in 1..Len(tokens),
         Stands(tokens, p, ArgumentList(args)),
         p + Len(ArgumentList(args)) \in 1..Len(tokens),
         tokens[p + Len(ArgumentList(args))] = Mark(")")
  PROVE  ReadFrom(ArgumentSteps(tokens), p) =
           [items |-> args, next |-> p + Len(ArgumentList(args)) + 1]
<1> DEFINE Is(j, kinds) == j <= Len(tokens) /\ tokens[j].kind \in kinds
<1>1. PICK steps : steps = ArgumentSteps(tokens)
  OBVIOUS
<1>2. PICK n, m, l, F : n = Len(args) /\ m = Len(tokens) /\ F = ArgumentList(args) /\ l = Len(F)
  OBVIOUS
<1>14. Mark(",") \in Tokens
  BY MarkTokens DEF Marks
<1>3. n \in Nat /\ m \in Nat /\ l \in Nat /\ p \in Nat /\ p >= 1 /\ p + l <= m
  <2>1. F \in Seq(Tokens)
    BY <1>2, <1>14, Alternating DEF ArgumentList
  <2>2. QED
    BY <1>2, <2>1
<1>4. IsReader(steps, m + 1, Tokens)
  BY <1>1, <1>2, ArgumentReader
<1>5. \A mark : Mark(mark).kind = mark
  BY DEF Mark, Token
<1>6. \A j \in 1..m + 1 :
        steps[j] = CASE Is(j, {")"}) -> Stop(<<>>, j + 1)
                     [] Is(j, LiteralKinds) /\ Is(j + 1, {","}) -> Step(<<tokens[j]>>, j + 2)
                     [] Is(j, LiteralKinds) /\ Is(j + 1, {")"}) -> Step(<<tokens[j]>>, j + 1)
                     [] OTHER -> Stop(<<>>, 0)
  BY <1>1, <1>2 DEF ArgumentSteps
<1>7. ASSUME NEW j \in 1..m, tokens[j] = Mark(")")
      PROVE  ReadFrom(steps, j) = [items |-> <<>>, next |-> j + 1]
  <2>1. steps[j] = Stop(<<>>, j + 1)
    <3>1. Is(j, {")"}) /\ ~Is(j, LiteralKinds) /\ j \in 1..m + 1
      BY <1>2, <1>3, <1>5, <1>7 DEF LiteralKinds
    <3>2. QED
      BY <1>6, <3>1
  <2>2. j \in 1..m + 1 /\ steps[j].last
    BY <1>3, <2>1 DEF Stop
  <2>3. Unfolded(steps, j)
    BY <1>4, <2>2, Reader
  <2>4. QED
    BY <2>1, <2>2, <2>3 DEF Unfolded, Stop
<1>8. ASSUME NEW j \in 1..m, tokens[j].kind \in LiteralKinds,
             NEW mark, mark = "," \/ mark = ")", j + 1 <= m, tokens[j + 1] = Mark(mark)
      PROVE  Goes(steps, j, <<tokens[j]>>, IF mark = "," THEN j + 2 ELSE j + 1)
  <2>1. j \in 1..m + 1 /\ j <= Len(tokens) /\ j + 1 <= Len(tokens)
    <3>1. j \in 1..m + 1 /\ j <= m
      BY <1>3
    <3>2. j + 1 <= m
      BY <1>8
    <3>3. QED
      BY <1>2, <3>1, <3>2
  <2>2. tokens[j + 1].kind = mark
    BY <1>5, <1>8
  <2>3. /\ ~Is(j, {")"}) /\ Is(j, LiteralKinds)
        /\ Is(j + 1, {","}) <=> mark = ","
        /\ Is(j + 1, {")"}) <=> mark = ")"
    BY <1>8, <2>1, <2>2 DEF LiteralKinds
  <2>4. steps[j] = Step(<<tokens[j]>>, IF mark = "," THEN j + 2 ELSE j + 1)
    <3> HIDE DEF Is
    <3>1. CASE mark = ","
      BY <1>6, <2>1, <2>3, <3>1
    <3>2. CASE mark = ")"
      BY <1>6, <2>1, <2>3, <3>2
    <3>3. QED
      BY <1>8, <3>1, <3>2
  <2>5. QED
    BY <1>4, <2>1, <2>4, GoesOneStep
<1> HIDE DEF Is
<1>9. \A k \in 1..l : tokens[p + k - 1] = F[k]
  BY <1>2 DEF Stands
<1>10. tokens[p + l] = Mark(")")
  BY <1>2
<1>11. CASE args = <<>>
  <2>1. l = 0
    BY <1>2, <1>11, <1>14, Alternating DEF ArgumentList
  <2>2. ReadFrom(steps, p) = [items |-> <<>>, next |-> p + 1] /\ p + l = p
    <3>1. p + l = p /\ p \in 1..m
      BY <1>3, <2>1
    <3>2. QED
      BY <1>7, <1>10, <3>1
  <2>3. QED
    BY <1>1, <1>2, <1>11, <2>2
<1>12. CASE args # <<>>
  <2>1. /\ l = 2 * n - 1
        /\ \A k \in 1..n : F[2 * k - 1] = args[k]
        /\ \A k \in 1..n - 1 : F[2 * k] = Mark(",")
    <3>1. F = Separated(args, Mark(",")) /\ n = Len(args) /\ l = Len(F)
      BY <1>2 DEF ArgumentList
    <3>2. PICK comma \in Tokens : comma = Mark(",")
      BY <1>14
    <3>3. F = Separated(args, comma)
      BY <3>1, <3>2
    <3>6. /\ Len(Separated(args, comma)) = 2 * Len(args) - 1
          /\ \A k \in 1..Len(args) : Separated(args, comma)[2 * k - 1] = args[k]
          /\ \A k \in 1..Len(args) - 1 : Separated(args, comma)[2 * k] = comma
      BY <1>12, Alternating
    <3>4. /\ Len(F) = 2 * Len(args) - 1
          /\ \A k \in 1..Len(args) : F[2 * k - 1] = args[k]
          /\ \A k \in 1..Len(args) - 1 : F[2 * k] = comma
      BY <3>3, <3>6
    <3>5. QED
      BY <3>1, <3>2, <3>4
  <2>2. n >= 1
    BY <1>2, <1>12
  <2>21. l = 2 * n - 1
    BY <2>1
  <2>3. ASSUME NEW k \in 1..n
        PROVE  /\ tokens[p + 2 * k - 2] = args[k]
               /\ p + 2 * k - 1 \in 1..m
               /\ p + 2 * k - 2 \in 1..m
               /\ args[k].kind \in LiteralKinds
    <3>1. 2 * k - 1 \in 1..l /\ p + (2 * k - 1) - 1 = p + 2 * k - 2
      BY <1>3, <2>21
    <3>2. tokens[p + 2 * k - 2] = args[k]
      BY <1>9, <2>1, <3>1
    <3>3. p + 2 * k - 1 \in 1..m /\ p + 2 * k - 2 \in 1..m
      BY <1>3, <2>21
    <3>4. QED
      BY <1>2, <3>2, <3>3
  <2>4. ASSUME NEW k \in 1..n - 1
        PROVE  tokens[p + 2 * k - 1] = Mark(",")
    <3>1. 2 * k \in 1..l /\ p + (2 * k) - 1 = p + 2 * k - 1
      BY <1>3, <2>21
    <3>2. QED
      BY <1>9, <2>1, <3>1
  <2> DEFINE S == {k \in Nat : k <= n - 1 => Goes(steps, p, SubSeq(args, 1, k), p + 2 * k)}
  <2>5. 0 \in S
    <3>1. SubSeq(args, 1, 0) = <<>> /\ p + 2 * 0 = p /\ p \in 1..m + 1
      BY <1>3
    <3>2. Goes(steps, p, <<>>, p)
      BY <1>4, <3>1, GoesNowhere
    <3>3. QED
      BY <3>1, <3>2
  <2>6. ASSUME NEW k \in Nat, k \in S
        PROVE  k + 1 \in S
    <3> SUFFICES ASSUME k + 1 <= n - 1
                 PROVE  Goes(steps, p, SubSeq(args, 1, k + 1), p + 2 * (k + 1))
      OBVIOUS
    <3>1. PICK q : q = p + 2 * k
      OBVIOUS
    <3>2. /\ k + 1 \in 1..n /\ k + 1 \in 1..n - 1 /\ k <= n - 1
          /\ p + 2 * (k + 1) - 2 = q /\ p + 2 * (k + 1) - 1 = q + 1 /\ p + 2 * (k + 1) = q + 2
      BY <1>3, <3>1
    <3>3. Goes(steps, p, SubSeq(args, 1, k), q)
      BY <2>6, <3>1, <3>2
    <3>4. /\ tokens[q] = args[k + 1] /\ q \in 1..m /\ q + 1 \in 1..m /\ q + 1 <= m
          /\ args[k + 1].kind \in LiteralKinds /\ tokens[q + 1] = Mark(",")
      <4>1. tokens[q] = args[k + 1] /\ q \in 1..m /\ q + 1 \in 1..m
            /\ args[k + 1].kind \in LiteralKinds
        BY <2>3, <3>2
      <4>2. tokens[q + 1] = Mark(",")
        BY <2>4, <3>2
      <4>3. \A x \in 1..m : x <= m
        BY <1>3
      <4>4. QED
        BY <4>1, <4>2, <4>3
    <3>5. Goes(steps, q, <<args[k + 1]>>, q + 2)
      BY <1>8, <3>4
    <3>6. SubSeq(args, 1, k) \o <<args[k + 1]>> = SubSeq(args, 1, k + 1)
          /\ SubSeq(args, 1, k) \in Seq(Tokens) /\ <<args[k + 1]>> \in Seq(Tokens)
      BY <1>2, <3>2, SMTT(30)
    <3>7. p \in 1..m + 1 /\ q \in 1..m + 1 /\ q + 2 \in 1..m + 1
      <4>1. q + 1 \in 1..m
        BY <3>4
      <4>2. QED
        BY <1>3, <3>1, <4>1
    <3>8. Goes(steps, p, SubSeq(args, 1, k) \o <<args[k + 1]>>, q + 2)
      BY <1>4, <3>3, <3>5, <3>6, <3>7, GoesOn
    <3>9. QED
      BY <3>2, <3>6, <3>8
  <2>7. Nat \subseteq S
    <3> HIDE DEF S
    <3>1. QED
      BY <2>5, <2>6, Induction
  <2>8. PICK q : q = p + 2 * (n - 1)
    OBVIOUS
  <2>9. n \in 1..n /\ n - 1 \in Nat /\ q = p + 2 * n - 2 /\ q + 1 = p + 2 * n - 1 /\ q + 1 = p + l
        /\ q \in Int
    BY <1>3, <2>21, <2>2, <2>8
  <2>10. /\ q \in 1..m /\ q + 1 \in 1..m /\ tokens[q] = args[n]
         /\ tokens[q + 1] = Mark(")") /\ args[n].kind \in LiteralKinds
    BY <1>10, <2>3, <2>9
  <2>11. Goes(steps, p, SubSeq(args, 1, n - 1), q)
    BY <2>7, <2>8, <2>9
  <2>12. Goes(steps, q, <<args[n]>>, q + 1)
    <3>1. q + 1 <= m
      BY <1>3, <2>9
    <3>2. Goes(steps, q, <<tokens[q]>>, IF ")" = "," THEN q + 2 ELSE q + 1)
      BY <1>8, <2>10, <3>1
    <3>3. QED
      BY <2>10, <3>2
  <2>13. SubSeq(args, 1, n - 1) \o <<args[n]>> = args
         /\ SubSeq(args, 1, n - 1) \in Seq(Tokens) /\ <<args[n]>> \in Seq(Tokens)
    BY <1>2, <2>2
  <2>14. p \in 1..m + 1 /\ q \in 1..m + 1 /\ q + 1 \in 1..m + 1
    BY <1>3, <2>10
  <2>15. Goes(steps, p, SubSeq(args, 1, n - 1) \o <<args[n]>>, q + 1)
    BY <1>4, <2>11, <2>12, <2>13, <2>14, GoesOn
  <2>16. Goes(steps, p, args, q + 1)
    BY <2>13, <2>15
  <2>17. ReadFrom(steps, q + 1) = [items |-> <<>>, next |-> (q + 1) + 1]
    BY <1>7, <2>10
  <2>18. args \o <<>> = args
    OBVIOUS
  <2>19. ReadFrom(steps, p) = [items |-> args, next |-> (q + 1) + 1]
    <3>1. PICK r : r = ReadFrom(steps, q + 1)
      OBVIOUS
    <3>2. r.items = <<>> /\ r.next = (q + 1) + 1
      BY <2>17, <3>1
    <3>3. ReadFrom(steps, p) = [items |-> args \o r.items, next |-> r.next]
      BY <2>16, <3>1 DEF Goes
    <3>4. QED
      BY <2>18, <3>2, <3>3
  <2>20. QED
    BY <1>1, <1>2, <2>9, <2>19
<1>13. QED
  BY <1>11, <1>12

\* Texts that stand one behind the other.
LEMMA StandsBoth ==
  ASSUME NEW S, NEW src \in Seq(S), NEW i \in Nat, NEW t \in Seq(S), NEW u \in Seq(S),
         Stands(src, i, t \o u)
  PROVE  /\ Stands(src, i, t) /\ Stands(src, i + Len(t), u)
         /\ i + Len(t \o u) = i + Len(t) + Len(u)
<1>1. PICK v, a, b, n : v = t \o u /\ a = Len(t) /\ b = Len(u) /\ n = Len(src)
  OBVIOUS
<1>2. a \in Nat /\ b \in Nat /\ n \in Nat /\ Len(v) = a + b
  BY <1>1
<1>3. (\A m \in 1..a : v[m] = t[m]) /\ (\A m \in 1..b : v[a + m] = u[m])
  BY <1>1
<1>4. i + (a + b) <= n + 1 /\ \A k \in 1..a + b : src[i + k - 1] = v[k]
  BY <1>1, <1>2 DEF Stands
<1>5. Stands(src, i, t)
  <2>1. \A m \in 1..a : m \in 1..a + b
    BY <1>2
  <2>2. i + a <= n + 1
    BY <1>2, <1>4
  <2>3. QED
    BY <1>1, <1>3, <1>4, <2>1, <2>2 DEF Stands
<1>6. Stands(src, i + a, u)
  <2>1. \A m \in 1..b : a + m \in 1..a + b /\ i + (a + m) - 1 = i + a + m - 1
    BY <1>2
  <2>2. i + a + b <= n + 1
    BY <1>2, <1>4
  <2>3. \A m \in 1..b : src[i + a + m - 1] = u[m]
    BY <1>3, <1>4, <2>1
  <2>4. QED
    BY <1>1, <2>2, <2>3 DEF Stands
<1>7. i + (a + b) = i + a + b
  BY <1>2
<1>8. QED
  BY <1>1, <1>2, <1>5, <1>6, <1>7

\* One thing stands where it is.
LEMMA StandsOne ==
  ASSUME NEW S, NEW src \in Seq(S), NEW i \in Nat, i >= 1, NEW a \in S, Stands(src, i, <<a>>)
  PROVE  src[i] = a /\ i \in 1..Len(src) /\ Len(<<a>>) = 1
<1>1. PICK t : t = <<a>>
  OBVIOUS
<1>2. Len(t) = 1 /\ t[1] = a
  BY <1>1
<1>3. i + 1 <= Len(src) + 1 /\ src[i + 1 - 1] = a
  BY <1>1, <1>2 DEF Stands
<1>4. i + 1 - 1 = i /\ Len(src) \in Nat
  OBVIOUS
<1>5. QED
  BY <1>1, <1>2, <1>3, <1>4

ReadsCalls == [of |-> Tokens, taking |-> ReadCalls, first |-> {Mark(".")},
               steps |-> [tokens \in Seq(Tokens) |-> CallSteps(tokens)]]

\* The tokens of calls are a language of which no text opens with a dot.
LEMMA ReadsCallsIsLanguage == IsLanguage(ReadsCalls)
  BY CallReader DEF IsLanguage, ReadsCalls

\* The tokens of a call: its head and its arguments.
LEMMA CallParts ==
  ASSUME NEW call, IsCall(call)
  PROVE  /\ call.args \in Seq(Tokens) /\ \A i \in 1..Len(call.args) : call.args[i].kind \in LiteralKinds
         /\ Token("word", <<call.name>>) \in Tokens
         /\ \A mark \in Marks : Mark(mark) \in Tokens
         /\ call \in ReadCalls /\ call = Call(call.link, call.name, call.args)
         /\ call.link \in BOOLEAN
         /\ ArgumentList(call.args) \in Seq(Tokens)
<1>1. PICK S : call.args \in Seq(S) /\ S = ToSet(call.args)
  BY DEF IsCall
<1>2. \A arg \in S : arg \in Tokens /\ arg.kind \in LiteralKinds
  BY <1>1, LexLiteral DEF IsCall
<1>3. \A i \in 1..Len(call.args) : call.args[i] \in S
  BY <1>1
<1>4. call.args \in Seq(Tokens) /\ \A i \in 1..Len(call.args) : call.args[i].kind \in LiteralKinds
  BY <1>1, <1>2, <1>3
<1>5. call.name \in Symbols /\ <<call.name>> \in Seq(Symbols) /\ <<>> \in Seq(Symbols)
  BY Known DEF IsCall, IsWord
<1>6. Token("word", <<call.name>>) \in Tokens
  BY <1>5 DEF Token, Tokens
<1>10. Mark(",") \in Tokens
  BY MarkTokens DEF Marks
<1>7. call = Call(call.link, call.name, call.args) /\ call.link \in BOOLEAN
  BY DEF IsCall
<1>8. call \in ReadCalls
  BY <1>4, <1>5, <1>7 DEF Call, ReadCalls
<1>9. QED
  BY <1>4, <1>6, <1>7, <1>8, <1>10, MarkTokens, Alternating DEF ArgumentList

\* The tokens of a call are read as the call, wherever they stand.
LEMMA ReadCall ==
  ASSUME NEW call, IsCall(call)
  PROVE  ReadsAs(ReadsCalls, CallTokens(call), <<call>>, {}) /\ CallTokens(call) # <<>>
<1> DEFINE link == call.link
           args == call.args
           F == ArgumentList(args)
           dot == Mark(".")
           word == Token("word", <<call.name>>)
           open == Mark("(")
           shut == Mark(")")
           pre == IF link THEN <<dot>> ELSE <<>>
           t == pre \o <<word>> \o <<open>> \o F \o <<shut>>
<1>1. /\ args \in Seq(Tokens) /\ F \in Seq(Tokens)
      /\ \A i \in 1..Len(args) : args[i].kind \in LiteralKinds
  <2>1. call.args \in Seq(Tokens) /\ \A i \in 1..Len(call.args) : call.args[i].kind \in LiteralKinds
    BY CallParts
  <2>2. ArgumentList(call.args) \in Seq(Tokens)
    BY CallParts
  <2>3. QED
    BY <2>1, <2>2
<1>2. dot \in Tokens /\ word \in Tokens /\ open \in Tokens /\ shut \in Tokens
  BY CallParts DEF Marks
<1>3. link \in BOOLEAN /\ call = Call(link, call.name, args) /\ <<call>> \in Seq(ReadCalls)
  <2>1. call \in ReadCalls
    BY CallParts
  <2>2. call.link \in BOOLEAN /\ call = Call(call.link, call.name, call.args)
    BY CallParts
  <2>3. <<call>> \in Seq(ReadCalls)
    BY <2>1
  <2>4. QED
    BY <2>2, <2>3
<1>4. dot.kind = "." /\ word.kind = "word" /\ word.value[1] = call.name /\ open.kind = "("
  BY DEF Mark, Token
<1>5. CallTokens(call) = t
  BY DEF CallTokens, ArgumentTokens, ArgumentList, Separated
<1> HIDE DEF args, F, dot, word, open, link
<1>6. pre \in Seq(Tokens) /\ Len(pre) = (IF link THEN 1 ELSE 0)
      /\ pre \o <<word>> \in Seq(Tokens) /\ pre \o <<word>> \o <<open>> \in Seq(Tokens)
      /\ pre \o <<word>> \o <<open>> \o F \in Seq(Tokens) /\ t \in Seq(Tokens) /\ t # <<>>
  BY <1>1, <1>2, <1>3
<1>7. link => t[1] = dot
  <2> SUFFICES ASSUME link
               PROVE  t[1] = dot
    OBVIOUS
  <2>1. pre # <<>> /\ pre[1] = dot
    OBVIOUS
  <2> HIDE DEF pre
  <2>2. PICK u \in Seq(Tokens) : t = pre \o u
    <3>1. <<word>> \o <<open>> \o F \o <<shut>> \in Seq(Tokens)
      BY <1>1, <1>2
    <3>2. t = pre \o (<<word>> \o <<open>> \o F \o <<shut>>)
      BY <1>1, <1>2, <1>6
    <3>3. QED
      BY <3>1, <3>2
  <2> HIDE DEF t
  <2>3. QED
    BY <1>6, <2>1, <2>2, OpensBoth
<1>8. ASSUME NEW tokens \in Seq(Tokens), NEW i \in 1..Len(tokens), Stands(tokens, i, t),
             i = 1 => t[1] # dot
      PROVE  CallStep(tokens, i) = Step(<<call>>, i + Len(t))
  <2>1. PICK a, b : a = Len(pre) /\ b = Len(F)
    OBVIOUS
  <2>22. i \in Nat
    OBVIOUS
  <2>2. a \in {0, 1} /\ b \in Nat /\ (link <=> a = 1)
    BY <1>1, <1>6, <2>1
  <2> HIDE DEF pre
  <2> DEFINE W == <<word>>
             O == <<open>>
             C == <<shut>>
             t1 == pre \o W
             t2 == t1 \o O
             t3 == t2 \o F
  <2>23. /\ W \in Seq(Tokens) /\ O \in Seq(Tokens) /\ C \in Seq(Tokens)
         /\ t1 \in Seq(Tokens) /\ t2 \in Seq(Tokens) /\ t3 \in Seq(Tokens)
    BY <1>2, <1>6
  <2>24. t = t3 \o C
    OBVIOUS
  <2> HIDE DEF W, O, C, t
  <2>3. Stands(tokens, i, t3) /\ Stands(tokens, i + Len(t3), C) /\ i + Len(t) = i + Len(t3) + Len(C)
    <3> HIDE DEF t3
    <3>1. QED
      BY <1>8, <2>22, <2>23, <2>24, StandsBoth
  <2>4. Stands(tokens, i, t2) /\ Stands(tokens, i + Len(t2), F) /\ i + Len(t3) = i + Len(t2) + b
    <3> HIDE DEF t2
    <3>1. QED
      BY <1>1, <2>1, <2>3, <2>22, <2>23, StandsBoth
  <2>5. Stands(tokens, i, t1) /\ Stands(tokens, i + Len(t1), O) /\ i + Len(t2) = i + Len(t1) + Len(O)
    <3> HIDE DEF t1
    <3>1. QED
      BY <2>4, <2>22, <2>23, StandsBoth
  <2>6. Stands(tokens, i, pre) /\ Stands(tokens, i + a, W) /\ i + Len(t1) = i + a + Len(W)
    <3>1. pre \in Seq(Tokens)
      BY <1>6
    <3>2. Stands(tokens, i, pre) /\ Stands(tokens, i + Len(pre), W) /\ i + Len(t1) = i + Len(pre) + Len(W)
      BY <2>5, <2>22, <2>23, <3>1, StandsBoth
    <3>3. QED
      BY <2>1, <3>2
  <2> HIDE DEF t1, t2, t3
  <2>7. PICK head, m : head = i + a /\ m = Len(tokens)
    OBVIOUS
  <2>8. head \in Nat /\ head >= 1 /\ m \in Nat
    BY <2>2, <2>7
  <2>9. tokens[head] = word /\ head \in 1..m /\ Len(W) = 1
    BY <1>2, <2>6, <2>7, <2>8, StandsOne DEF W
  <2>10. i + Len(t1) = head + 1 /\ head + 1 \in Nat /\ head + 1 >= 1
    BY <2>6, <2>7, <2>8, <2>9
  <2>11. tokens[head + 1] = open /\ head + 1 \in 1..m /\ Len(O) = 1
    BY <1>2, <2>5, <2>7, <2>10, StandsOne DEF O
  <2>12. i + Len(t2) = head + 2
    BY <2>5, <2>8, <2>10, <2>11
  <2>13. Stands(tokens, head + 2, F) /\ Stands(tokens, head + 2 + b, C)
         /\ head + 2 + b \in Nat /\ head + 2 + b >= 1
         /\ i + Len(t) = head + 2 + b + Len(C)
    BY <2>2, <2>3, <2>4, <2>8, <2>12
  <2>14. tokens[head + 2 + b] = shut /\ head + 2 + b \in 1..m /\ Len(C) = 1
    BY <1>2, <2>7, <2>13, StandsOne DEF C
  <2>15. head + 2 \in 1..m
    BY <2>2, <2>8, <2>14
  <2>16. ReadFrom(ArgumentSteps(tokens), head + 2) = [items |-> args, next |-> head + 2 + b + 1]
    BY <1>1, <2>1, <2>7, <2>13, <2>14, <2>15, ArgumentsRead DEF F
  <2>17. link <=> i > 1 /\ i <= m /\ tokens[i].kind = "."
    <3>1. CASE link
      <4>1. Len(pre) = 1 /\ pre = <<dot>>
        BY <1>6, <3>1 DEF pre
      <4>2. tokens[i] = dot /\ i \in 1..m
        BY <1>2, <2>6, <2>7, <4>1, StandsOne
      <4>3. i # 1
        BY <1>7, <1>8, <3>1
      <4>4. QED
        BY <1>4, <2>8, <3>1, <4>2, <4>3
    <3>2. CASE ~link
      BY <1>4, <2>2, <2>7, <2>9, <3>2
    <3>3. QED
      BY <3>1, <3>2
  <2>18. head = (IF link THEN i + 1 ELSE i)
    BY <2>2, <2>7
  <2>19. i # m + 1 /\ head < m /\ head + 2 + b + 1 # 0
    BY <2>2, <2>7, <2>8, <2>11
  <2>20. CallStep(tokens, i) = Step(<<Call(link, word.value[1], args)>>, head + 2 + b + 1)
    <3> DEFINE lk == i > 1 /\ i <= m /\ tokens[i].kind = "."
               hd == IF lk THEN i + 1 ELSE i
               opens == hd < m /\ tokens[hd].kind = "word" /\ tokens[hd + 1].kind = "("
               list == ReadFrom(ArgumentSteps(tokens), hd + 2)
    <3>1. CallStep(tokens, i) =
            IF i = m + 1 THEN Stop(<<>>, 0)
            ELSE IF ~opens \/ list.next = 0 THEN Stop(<<Unreadable>>, 0)
            ELSE Step(<<Call(lk, tokens[hd].value[1], list.items)>>, list.next)
      BY <2>7 DEF CallStep
    <3>2. lk = link
      BY <1>3, <2>17
    <3>3. hd = head
      BY <2>18, <3>2
    <3> HIDE DEF lk, hd
    <3>4. opens
      BY <1>4, <2>9, <2>11, <2>19, <3>3
    <3>5. list = [items |-> args, next |-> head + 2 + b + 1]
      BY <2>16, <3>3
    <3>6. list.items = args /\ list.next = head + 2 + b + 1
      BY <3>5
    <3> HIDE DEF opens, list
    <3>7. QED
      BY <2>9, <2>19, <3>1, <3>2, <3>3, <3>4, <3>6
  <2>21. QED
    BY <1>3, <1>4, <2>13, <2>14, <2>20
<1> HIDE DEF t
<1>9. \A tokens \in Seq(ReadsCalls.of) : \A i \in 1..Len(tokens) :
        /\ Stands(tokens, i, t)
        /\ i = 1 => t[1] \notin ReadsCalls.first
        /\ i + Len(t) <= Len(tokens) => tokens[i + Len(t)] \notin {}
        => ReadsCalls.steps[tokens][i] = Step(<<call>>, i + Len(t))
  <2> SUFFICES ASSUME NEW tokens \in Seq(Tokens), NEW i \in 1..Len(tokens), Stands(tokens, i, t),
                      i = 1 => t[1] # dot
               PROVE  CallSteps(tokens)[i] = Step(<<call>>, i + Len(t))
    BY DEF ReadsCalls, dot
  <2>1. i \in 1..Len(tokens) + 1
    OBVIOUS
  <2>2. CallSteps(tokens)[i] = CallStep(tokens, i)
    BY <2>1 DEF CallSteps
  <2>3. QED
    BY <1>8, <2>2
<1>10. t \in Seq(ReadsCalls.of) /\ <<call>> \in Seq(ReadsCalls.taking)
  BY <1>3, <1>6 DEF ReadsCalls
<1>11. ReadsAs(ReadsCalls, t, <<call>>, {})
  BY <1>6, <1>9, <1>10, ReadsCallsIsLanguage, ReadsOneStep
<1>12. QED
  BY <1>5, <1>6, <1>11

-----------------------------------------------------------------------------
(* A source as a whole.                                                    *)

Sound == {token \in Tokens : token.kind # "error"}

\* Tokens that are read as calls; those of a chain do not open with a dot.
Tells(tokens, calls) ==
  /\ tokens \in Seq(Sound) /\ ReadsAs(ReadsCalls, tokens, calls, {})
  /\ calls = <<>> <=> tokens = <<>>
  /\ calls # <<>> /\ ~calls[1].link => tokens[1] # Mark(".")

\* Sound tokens are tokens.
LEMMA SoundTokens == \A tokens \in Seq(Sound) : tokens \in Seq(Tokens)
  BY DEF Sound

\* No tokens tell no calls.
LEMMA TellsNothing == Tells(<<>>, <<>>)
  BY ReadsCallsIsLanguage, ReadsNothing DEF Tells

\* Tokens one after the other tell calls one after the other.
LEMMA TellsBoth ==
  ASSUME NEW t, NEW c, Tells(t, c), NEW u, NEW d, Tells(u, d)
  PROVE  Tells(t \o u, c \o d)
<1>1. ReadsAs(ReadsCalls, t, c, {}) /\ ReadsAs(ReadsCalls, u, d, {})
  BY DEF Tells
<1>2. IF u = <<>> THEN {} \subseteq {} ELSE u[1] \notin {}
  OBVIOUS
<1>3. ReadsAs(ReadsCalls, t \o u, c \o d, {})
  BY <1>1, <1>2, ReadsCallsIsLanguage, ReadsBoth
<1>4. t \in Seq(Sound) /\ u \in Seq(Sound) /\ c \in Seq(ReadCalls) /\ d \in Seq(ReadCalls)
  BY <1>1 DEF Tells, ReadsAs, ReadsCalls
<1>5. t \o u \in Seq(Sound)
  BY <1>4
<1>6. (c = <<>> <=> t = <<>>) /\ (d = <<>> <=> u = <<>>)
  BY DEF Tells
<1>7. c \o d = <<>> <=> t \o u = <<>>
  BY <1>4, <1>6
<1>8. c \o d # <<>> /\ ~(c \o d)[1].link => (t \o u)[1] # Mark(".")
  <2>1. CASE c = <<>>
    <3>1. t \o u = u /\ c \o d = d
      BY <1>4, <1>6, <2>1
    <3>2. QED
      BY <3>1 DEF Tells
  <2>2. CASE c # <<>>
    <3>1. (t \o u)[1] = t[1] /\ (c \o d)[1] = c[1]
      BY <1>4, <1>6, <2>2, OpensBoth
    <3>2. QED
      BY <2>2, <3>1 DEF Tells
  <2>3. QED
    BY <2>1, <2>2
<1>9. QED
  BY <1>3, <1>5, <1>7, <1>8 DEF Tells

\* The tokens of a call tell it.
LEMMA TellsCall ==
  ASSUME NEW call, IsCall(call)
  PROVE  Tells(CallTokens(call), <<call>>)
<1> DEFINE F == ArgumentList(call.args)
           word == Token("word", <<call.name>>)
           pre == IF call.link THEN <<Mark(".")>> ELSE <<>>
           t == pre \o <<word>> \o <<Mark("(")>> \o F \o <<Mark(")")>>
<1>1. CallTokens(call) = t
  BY DEF CallTokens, ArgumentTokens, ArgumentList, Separated
<1>2. \A mark \in Marks : Mark(mark) \in Sound
  BY MarkTokens DEF Sound, Mark, Token, Marks
<1>3. word \in Sound /\ word.kind = "word"
  BY CallParts DEF Sound, Token
<1>4. F \in Seq(Sound)
  <2>1. call.args \in Seq(Sound)
    <3>1. call.args \in Seq(Tokens) /\ \A i \in 1..Len(call.args) : call.args[i].kind \in LiteralKinds
      BY CallParts
    <3>2. \A i \in 1..Len(call.args) : call.args[i] \in Sound
      BY <3>1 DEF Sound, LiteralKinds
    <3>3. QED
      BY <3>1, <3>2
  <2>2. PICK comma \in Sound : comma = Mark(",")
    BY <1>2 DEF Marks
  <2>3. Separated(call.args, comma) \in Seq(Sound)
    BY <2>1, Alternating
  <2>4. QED
    BY <2>2, <2>3 DEF ArgumentList
<1>5. PICK dot, open, shut \in Sound : dot = Mark(".") /\ open = Mark("(") /\ shut = Mark(")")
  BY <1>2 DEF Marks
<1>6. pre = (IF call.link THEN <<dot>> ELSE <<>>) /\ t = pre \o <<word>> \o <<open>> \o F \o <<shut>>
  BY <1>5
<1> HIDE DEF F, word
<1>7. t \in Seq(Sound) /\ pre \in Seq(Sound) /\ pre \o <<word>> \in Seq(Sound)
      /\ <<open>> \o F \o <<shut>> \in Seq(Sound) /\ <<word>> \in Seq(Sound)
  <2>1. pre \in Seq(Sound) /\ <<word>> \in Seq(Sound)
    BY <1>3, <1>6
  <2>2. <<open>> \o F \o <<shut>> \in Seq(Sound)
    BY <1>4
  <2> HIDE DEF pre
  <2>3. pre \o <<word>> \in Seq(Sound) /\ pre \o <<word>> \o <<open>> \o F \o <<shut>> \in Seq(Sound)
    BY <1>4, <2>1
  <2>4. QED
    BY <1>6, <2>1, <2>2, <2>3
<1>8. ~call.link => t[1] # Mark(".")
  <2> SUFFICES ASSUME ~call.link
               PROVE  t[1] # Mark(".")
    OBVIOUS
  <2>1. t = <<word>> \o (<<open>> \o F \o <<shut>>)
    BY <1>3, <1>4, <1>6
  <2>2. PICK u, v \in Seq(Sound) : u = <<word>> /\ v = <<open>> \o F \o <<shut>>
    BY <1>7
  <2>3. u # <<>> /\ u[1] = word
    BY <2>2
  <2> HIDE DEF t
  <2>4. t[1] = word
    BY <2>1, <2>2, <2>3, OpensBoth
  <2>5. Mark(".").kind = "."
    BY DEF Mark, Token
  <2>6. QED
    BY <1>3, <2>4, <2>5
<1> HIDE DEF t
<1>9. ReadsAs(ReadsCalls, t, <<call>>, {}) /\ t # <<>>
  BY <1>1, ReadCall
<1>10. <<call>> # <<>> /\ <<call>>[1] = call
  OBVIOUS
<1>11. QED
  BY <1>1, <1>7, <1>8, <1>9, <1>10 DEF Tells

\* The tokens of calls tell them.
LEMMA TellsCalls ==
  ASSUME NEW S, NEW calls \in Seq(S), \A call \in S : IsCall(call)
  PROVE  Tells(TokensOf(calls), calls)
<1> DEFINE R == {r \in Seq(Sound) \X Seq(ReadCalls) : Tells(r[1], r[2])}
           toks == [i \in DOMAIN calls |-> CallTokens(calls[i])]
           ones == [i \in DOMAIN calls |-> <<calls[i]>>]
<1>1. \A t, c : Tells(t, c) => <<t, c>> \in R
  BY DEF Tells, ReadsAs, ReadsCalls
<1>2. <<<<>>, <<>>>> \in R
  BY <1>1, TellsNothing
<1>3. \A p, q \in R : <<p[1] \o q[1], p[2] \o q[2]>> \in R
  <2> SUFFICES ASSUME NEW p \in R, NEW q \in R
               PROVE  Tells(p[1] \o q[1], p[2] \o q[2])
    BY <1>1
  <2>1. Tells(p[1], p[2]) /\ Tells(q[1], q[2])
    OBVIOUS
  <2>2. QED
    BY <2>1, TellsBoth
<1>4. DOMAIN calls = 1..Len(calls) /\ Len(calls) \in Nat /\ calls \in Seq(ReadCalls)
  <2>1. \A call \in S : call \in ReadCalls
    BY CallParts
  <2>2. QED
    BY <2>1
<1>5. \A i \in 1..Len(calls) : Tells(CallTokens(calls[i]), <<calls[i]>>)
  BY TellsCall
<1>6. \A i \in 1..Len(calls) : <<CallTokens(calls[i]), <<calls[i]>>>> \in R
  BY <1>1, <1>5
<1>7. \A i \in 1..Len(calls) : CallTokens(calls[i]) \in Seq(Sound) /\ <<calls[i]>> \in Seq(ReadCalls)
  <2>1. \A i \in 1..Len(calls) : calls[i] \in ReadCalls
    BY <1>4
  <2>2. \A i \in 1..Len(calls) : CallTokens(calls[i]) \in Seq(Sound)
    BY <1>5 DEF Tells
  <2>3. \A call \in ReadCalls : <<call>> \in Seq(ReadCalls)
    OBVIOUS
  <2>4. QED
    BY <2>1, <2>2, <2>3
<1> HIDE DEF R
<1>8. /\ toks \in [1..Len(calls) -> Seq(Sound)] /\ ones \in [1..Len(calls) -> Seq(ReadCalls)]
      /\ \A i \in 1..Len(calls) : toks[i] = CallTokens(calls[i]) /\ ones[i] = <<calls[i]>>
  BY <1>4, <1>7
<1>9. R \in SUBSET (Seq(Sound) \X Seq(ReadCalls))
  BY DEF R
<1>10. FlattenSeq(ones) = calls
  BY <1>4, FlatteningSingles
<1> HIDE DEF toks, ones
<1>11. /\ toks \in Seq(Seq(Sound)) /\ Len(toks) = Len(calls)
       /\ ones \in Seq(Seq(ReadCalls)) /\ Len(ones) = Len(calls)
  BY <1>4, <1>8, Tabled
<1>12. \A i \in 1..Len(toks) : <<toks[i], ones[i]>> \in R
  BY <1>6, <1>8, <1>11
<1>13. <<FlattenSeq(toks), FlattenSeq(ones)>> \in R
  BY <1>2, <1>3, <1>9, <1>11, <1>12, FlatteningRelates
<1>14. Tells(FlattenSeq(toks), calls)
  BY <1>10, <1>13 DEF R
<1>15. QED
  BY <1>14 DEF TokensOf, toks

\* A text that is a whole is read to its end.
LEMMA ReadsWhole ==
  ASSUME NEW L, IsLanguage(L), NEW t, NEW x, ReadsAs(L, t, x, {}),
         t # <<>> => t[1] \notin L.first,
         L.steps[t][Len(t) + 1] = Stop(<<>>, 0)
  PROVE  ReadFrom(L.steps[t], 1).items = x
<1>1. PICK steps, n : steps = L.steps[t] /\ n = Len(t) + 1
  OBVIOUS
<1>2. t \in Seq(L.of) /\ x \in Seq(L.taking)
  BY DEF ReadsAs
<1>3. IsReader(steps, n, L.taking) /\ n \in 1..n /\ 1 \in 1..Len(t) + 1 /\ 1 + Len(t) = n
      /\ ~(1 + Len(t) <= Len(t))
  BY <1>1, <1>2 DEF IsLanguage
<1>4. Stands(t, 1, t)
  <2>1. \A k \in 1..Len(t) : 1 + k - 1 = k
    OBVIOUS
  <2>2. QED
    BY <1>2, <2>1 DEF Stands
<1>5. Goes(steps, 1, x, n)
  BY <1>1, <1>2, <1>3, <1>4 DEF ReadsAs
<1>6. Unfolded(steps, n) /\ steps[n] = Stop(<<>>, 0)
  BY <1>1, <1>3, Reader
<1>7. ReadFrom(steps, n) = [items |-> <<>>, next |-> 0]
  BY <1>6 DEF Unfolded, Stop
<1>8. ReadFrom(steps, 1).items = x \o <<>>
  BY <1>5, <1>7 DEF Goes
<1>9. QED
  BY <1>1, <1>2, <1>8

\* A source of calls: it is read as tokens that tell them.
Says(src, calls) ==
  \E tokens : ReadsAs(Lexed, src, tokens, {}) /\ Tells(tokens, calls)

\* Calls as a source, in any layout, say them.
LEMMA SaysCalls ==
  ASSUME NEW S, NEW calls \in Seq(S), \A call \in S : IsCall(call), NEW gap, IsLayout(gap)
  PROVE  Says(Source(calls, gap), calls)
  BY LexSource, TellsCalls DEF Says

\* A layout behind a source changes nothing.
LEMMA SaysGap ==
  ASSUME NEW src, NEW calls, Says(src, calls), NEW gap, IsLayout(gap)
  PROVE  Says(src \o gap, calls)
<1>1. {} \in SUBSET {"."}
  OBVIOUS
<1>2. QED
  BY <1>1, LexGap DEF Says

\* Sources one after the other say calls one after the other.
LEMMA SaysBoth ==
  ASSUME NEW src, NEW calls, Says(src, calls), NEW more, NEW others, Says(more, others)
  PROVE  Says(src \o more, calls \o others)
<1>1. IF more = <<>> THEN {} \subseteq {} ELSE more[1] \notin {}
  OBVIOUS
<1>2. PICK t : ReadsAs(Lexed, src, t, {}) /\ Tells(t, calls)
  BY DEF Says
<1>3. PICK u : ReadsAs(Lexed, more, u, {}) /\ Tells(u, others)
  BY DEF Says
<1>4. ReadsAs(Lexed, src \o more, t \o u, {})
  BY <1>1, <1>2, <1>3, LexedIsLanguage, ReadsBoth
<1>5. Tells(t \o u, calls \o others)
  BY <1>2, <1>3, TellsBoth
<1>6. QED
  BY <1>4, <1>5 DEF Says

\* What a source says is what its chains are, unless it says what cannot be
\* told from a source that does not read.
LEMMA ChainsOf ==
  ASSUME NEW src, NEW calls, Says(src, calls), calls # <<>>, ~calls[1].link,
         Unreadable \notin ToSet(calls)
  PROVE  Chains(src) = calls
<1>1. PICK t : ReadsAs(Lexed, src, t, {}) /\ Tells(t, calls)
  BY DEF Says
<1>2. src \in Seq(Symbols) /\ t \in Seq(Tokens)
  BY <1>1 DEF ReadsAs, Lexed
<1>3. Lexed.steps[src] = LexSteps(src) /\ ReadsCalls.steps[t] = CallSteps(t)
  BY <1>2 DEF Lexed, ReadsCalls
<1>4. LexSteps(src)[Len(src) + 1] = Stop(<<>>, 0)
  <2>1. LexSteps(src)[Len(src) + 1] = LexStep(src, Len(src) + 1)
    BY <1>2 DEF LexSteps
  <2>2. PICK i : i = Len(src) + 1
    OBVIOUS
  <2>3. i > Len(src) /\ ~(i <= Len(src))
    BY <1>2, <2>2
  <2>4. LexStep(src, i) = Stop(<<>>, 0)
    BY <2>3 DEF LexStep
  <2>5. QED
    BY <2>1, <2>2, <2>4
<1>5. CallSteps(t)[Len(t) + 1] = Stop(<<>>, 0)
  BY <1>2 DEF CallSteps, CallStep
<1>6. Lex(src) = t
  <2>1. src # <<>> => src[1] \notin Lexed.first
    BY DEF Lexed
  <2>2. QED
    BY <1>1, <1>3, <1>4, <2>1, LexedIsLanguage, ReadsWhole DEF Lex
<1>7. Calls(t) = calls
  <2>1. ReadsAs(ReadsCalls, t, calls, {}) /\ (t # <<>> => t[1] \notin ReadsCalls.first)
    BY <1>1 DEF Tells, ReadsCalls
  <2>2. QED
    BY <1>3, <1>5, <2>1, ReadsCallsIsLanguage, ReadsWhole DEF Calls
<1>8. Unlexable \notin ToSet(t)
  <2>1. t \in Seq(Sound)
    BY <1>1 DEF Tells
  <2>2. \A token \in ToSet(t) : token \in Sound
    BY <2>1 DEF ToSet
  <2>3. Unlexable.kind = "error"
    BY DEF Unlexable, Token
  <2>4. QED
    BY <2>2, <2>3 DEF Sound
<1>9. QED
  BY <1>6, <1>7, <1>8 DEF Chains

\* Nothing between two tokens is a layout, and so is a line end.
LEMMA Layouts0 == IsLayout(<<>>) /\ IsLayout(<<"nl">>)
<1>1. IsLayout(<<>>)
  <2>1. <<>> \in Seq(Symbols) /\ Len(<<>>) = 0
    OBVIOUS
  <2>2. {1} \in SUBSET (1..0 + 1) /\ 1 \in {1}
    OBVIOUS
  <2>3. \A i \in {1} : i = 0 + 1
    OBVIOUS
  <2>4. QED
    BY <2>1, <2>2, <2>3 DEF IsLayout
<1>2. IsLayout(<<"nl">>)
  <2>1. PICK gap : gap = <<"nl">>
    OBVIOUS
  <2>2. "nl" \in Symbols /\ "nl" \in Blanks
    BY Known
  <2>3. gap \in Seq(Symbols) /\ Len(gap) = 1 /\ gap[1] \in Blanks
    BY <2>1, <2>2
  <2>4. {1, 2} \in SUBSET (1..1 + 1) /\ 1 \in {1, 2}
    OBVIOUS
  <2>5. \A i \in {1, 2} : i = 1 + 1 \/ (gap[i] \in Blanks /\ i + 1 \in {1, 2})
    BY <2>3
  <2>6. IsLayout(gap)
    BY <2>3, <2>4, <2>5 DEF IsLayout
  <2>7. QED
    BY <2>1, <2>6
<1>3. QED
  BY <1>1, <1>2
=============================================================================
