---------------------------- MODULE SchemaSource ----------------------------
(***************************************************************************)
(* The text of a `.schema` migration: from symbols to tokens to calls (lex *)
(* and chains of schema.rs), and from calls back to symbols.               *)
(*                                                                         *)
(* A symbol is a blank, a punctuation mark, a whole run of digits or a     *)
(* whole word; a string holds any symbols.  Line numbers, which only the   *)
(* wording of errors uses, are left out.                                   *)
(***************************************************************************)
EXTENDS Integers, SequencesExt

CONSTANTS Numerals,   \* the runs of digits a source may hold
          Huge,       \* those beyond 64 bits
          Scientific, \* the floats, as whole part and fraction, that print with
                      \* an exponent: below 0.0001, or 1e16 and more
          Words,      \* the words it may hold
          Foreign     \* those that hold a letter outside ASCII

Blanks == {" ", "tab", "nl"}
Marks  == {".", "(", ")", ","}
Others == {"quote", "backslash", "/", "-", "#"}
Truths == {"true", "false"}

Symbols == Blanks \cup Marks \cup Others \cup Numerals \cup Words

ASSUME SourceAssumption ==
  /\ Huge \subseteq Numerals
  /\ Scientific \subseteq Numerals \X Numerals
  /\ Foreign \subseteq Words
  /\ Truths \cup {"n", "t", "e16"} \subseteq Words
  /\ Numerals \cap Words = {}
  /\ (Numerals \cup Words) \cap (Blanks \cup Marks \cup Others) = {}

IsWord(symbol) == symbol \in Words

\* A token is a mark, a word in call position, or a literal; its value is the
\* text it stands for.
Token(kind, value) == [kind |-> kind, value |-> value]
Mark(symbol)   == Token(symbol, <<>>)
Str(text)      == Token("str", text)
Unlexable      == Token("error", <<>>)
LiteralKinds   == {"str", "int", "float", "bool"}

\* A call; `link` says that a dot came before it.
Call(link, name, args) == [link |-> link, name |-> name, args |-> args]
Unreadable == Call(FALSE, "error", <<>>)

-----------------------------------------------------------------------------
\* \n and \t name a character, any other escaped symbol stands for itself.
Unescaped(symbol) ==
  CASE symbol = "n" -> "nl"
    [] symbol = "t" -> "tab"
    [] OTHER        -> symbol

\* (A slip: a backslash is printed as it is.)
EscapedMarksOnly(symbol) ==
  CASE symbol = "quote"     -> <<"backslash", "quote">>
    [] symbol = "nl"        -> <<"backslash", "n">>
    [] symbol = "tab"       -> <<"backslash", "t">>
    [] OTHER                -> <<symbol>>

Escaped(symbol) ==
  CASE symbol = "quote"     -> <<"backslash", "quote">>
    [] symbol = "backslash" -> <<"backslash", "backslash">>
    [] symbol = "nl"        -> <<"backslash", "n">>
    [] symbol = "tab"       -> <<"backslash", "t">>
    [] OTHER                -> <<symbol>>

\* Both `//` and `--` open a comment, which ends with its line.
OpensComment(src, i) ==
  i < Len(src) /\ src[i] \in {"/", "-"} /\ src[i + 1] = src[i]

\* A reader goes from position to position: at each it takes some items and
\* either goes on at the next position or stops, having read up to it.
Step(items, next) == [items |-> items, next |-> next, last |-> FALSE]
Stop(items, next) == [items |-> items, next |-> next, last |-> TRUE]

\* What is read from position i on, and the position after it; 0 if there is none.
ReadFrom(steps, i) ==
  LET read[j \in DOMAIN steps] ==
        LET step == steps[j]
        IN IF step.last THEN [items |-> step.items, next |-> step.next]
           ELSE [read[step.next] EXCEPT !.items = step.items \o @]
  IN read[i]

\* Inside a string, up to the quote that ends it; a source that ends before
\* that quote, or after a backslash, has no such string.
StringSteps(src) ==
  [j \in 1..Len(src) + 1 |->
     CASE j <= Len(src) /\ src[j] = "quote" -> Stop(<<>>, j + 1)
       [] j < Len(src) /\ src[j] = "backslash" -> Step(<<Unescaped(src[j + 1])>>, j + 2)
       [] j <= Len(src) /\ src[j] \notin {"quote", "backslash"} -> Step(<<src[j]>>, j + 1)
       [] OTHER -> Stop(<<>>, 0)]

\* The string that a quote at position i opens.
StringAt(src, i) ==
  LET string == ReadFrom(StringSteps(src), i + 1)
  IN IF string.next = 0 THEN Stop(<<Unlexable>>, 0)
     ELSE Step(<<Str(string.items)>>, string.next)

\* The number at position i: an optional sign, digits, and a fraction where
\* digits follow the point.  A whole number has to fit 64 bits.
NumberAt(src, i) ==
  LET Is(j, symbols) == j <= Len(src) /\ src[j] \in symbols
      digits   == IF src[i] = "-" THEN i + 1 ELSE i
      fraction == Is(digits + 1, {"."}) /\ Is(digits + 2, Numerals)
  IN CASE fraction ->
            Step(<<Token("float", SubSeq(src, i, digits + 2))>>, digits + 3)
       [] ~fraction /\ src[digits] \notin Huge ->
            Step(<<Token("int", SubSeq(src, i, digits))>>, digits + 1)
       [] OTHER -> Stop(<<Unlexable>>, 0)

StartsNumber(src, i) ==
  \/ src[i] \in Numerals
  \/ src[i] = "-" /\ i < Len(src) /\ src[i + 1] \in Numerals

\* Where the comment at position i ends: with its line or with the source.
CommentEnd(src, i) ==
  CHOOSE j \in i..Len(src) + 1 : /\ j > Len(src) \/ src[j] = "nl"
                                 /\ \A k \in i..j - 1 : src[k] # "nl"

LexStep(src, i) ==
  CASE i > Len(src) -> Stop(<<>>, 0)
    [] i <= Len(src) /\ src[i] \in Blanks -> Step(<<>>, i + 1)
    [] i <= Len(src) /\ OpensComment(src, i) -> Step(<<>>, CommentEnd(src, i))
    [] i <= Len(src) /\ src[i] \in Marks -> Step(<<Mark(src[i])>>, i + 1)
    [] i <= Len(src) /\ src[i] = "quote" -> StringAt(src, i)
    [] i <= Len(src) /\ ~OpensComment(src, i) /\ StartsNumber(src, i) -> NumberAt(src, i)
    [] i <= Len(src) /\ IsWord(src[i]) ->
         Step(<<Token(IF src[i] \in Truths THEN "bool" ELSE "word", <<src[i]>>)>>, i + 1)
    [] OTHER -> Stop(<<Unlexable>>, 0)

LexSteps(src) == [i \in 1..Len(src) + 1 |-> LexStep(src, i)]

Lex(src) == ReadFrom(LexSteps(src), 1).items

-----------------------------------------------------------------------------
\* Inside the parentheses of a call: literals separated by commas, the last one
\* of which may be followed by a comma too.
ArgumentSteps(tokens) ==
  LET Is(j, kinds) == j <= Len(tokens) /\ tokens[j].kind \in kinds
  IN [j \in 1..Len(tokens) + 1 |->
        CASE Is(j, {")"}) -> Stop(<<>>, j + 1)
          [] Is(j, LiteralKinds) /\ Is(j + 1, {","}) -> Step(<<tokens[j]>>, j + 2)
          [] Is(j, LiteralKinds) /\ Is(j + 1, {")"}) -> Step(<<tokens[j]>>, j + 1)
          [] OTHER -> Stop(<<>>, 0)]

\* The call at token i.  A chain ends at the first token that is not a dot, so
\* a call without one starts the next statement.
CallStep(tokens, i) ==
  LET n     == Len(tokens)
      link  == i > 1 /\ i <= n /\ tokens[i].kind = "."
      head  == IF link THEN i + 1 ELSE i
      opens == head < n /\ tokens[head].kind = "word" /\ tokens[head + 1].kind = "("
      list  == ReadFrom(ArgumentSteps(tokens), head + 2)
  IN IF i = n + 1 THEN Stop(<<>>, 0)
     ELSE IF ~opens \/ list.next = 0 THEN Stop(<<Unreadable>>, 0)
     ELSE Step(<<Call(link, tokens[head].value[1], list.items)>>, list.next)

CallSteps(tokens) == [i \in 1..Len(tokens) + 1 |-> CallStep(tokens, i)]

\* Every call of a token stream, in order.
Calls(tokens) == ReadFrom(CallSteps(tokens), 1).items

\* The call chains of a source; one that does not read as a whole is Unreadable.
Chains(src) ==
  LET tokens == Lex(src)
      calls  == Calls(tokens)
  IN IF Unlexable \in ToSet(tokens) \/ Unreadable \in ToSet(calls)
     THEN <<Unreadable>> ELSE calls

-----------------------------------------------------------------------------
\* A literal as a source has it.
Spelled(literal) ==
  IF literal.kind = "str"
  THEN <<"quote">> \o FlattenSeq([i \in DOMAIN literal.value |->
                                    Escaped(literal.value[i])]) \o <<"quote">>
  ELSE literal.value

\* `{f:?}` prints the shortest decimal, which is what a float is written as here,
\* and an exponent behind the digits where the float is small or large.
IsScientific(literal) ==
  /\ literal.kind = "float"
  /\ \E f \in Scientific : IsSuffix(<<f[1], ".", f[2]>>, literal.value)

\* A literal as it prints in a canonical call.  The exponent is a word to the
\* lexer; which digits it leaves before it is left out.
Printed(literal) ==
  IF IsScientific(literal) THEN [literal EXCEPT !.value = Append(@, "e16")] ELSE literal

\* Calls as a source: every token followed by `gap` (the canonical rendering
\* has a blank after a comma and a line end after a statement, and no other).
Source(calls, gap) ==
  LET Argument(call, i) ==
        (IF i = 1 THEN <<>> ELSE <<",">> \o gap) \o Spelled(call.args[i]) \o gap
      Written(call) ==
        (IF call.link THEN <<".">> \o gap ELSE <<>>)
        \o <<call.name>> \o gap \o <<"(">> \o gap
        \o FlattenSeq([i \in DOMAIN call.args |-> Argument(call, i)])
        \o <<")">> \o gap
  IN FlattenSeq([i \in DOMAIN calls |-> Written(calls[i])])

-----------------------------------------------------------------------------
\* The literals, calls and layouts that an author can write.
IsLiteral(literal) ==
  \/ literal = Str(literal.value) /\ literal.value \in Seq(Symbols)
  \/ \E sign \in {<<>>, <<"-">>}, d \in Numerals :
       \/ d \notin Huge /\ literal = Token("int", sign \o <<d>>)
       \/ \E e \in Numerals : literal = Token("float", sign \o <<d, ".", e>>)
  \/ \E truth \in Truths : literal = Token("bool", <<truth>>)

IsCall(call) ==
  /\ call = Call(call.link, call.name, call.args)
  /\ call.link \in BOOLEAN
  /\ IsWord(call.name) /\ call.name \notin Truths
  /\ call.args \in Seq(ToSet(call.args))
  /\ \A arg \in ToSet(call.args) : IsLiteral(arg)

\* Blanks and comments, each of which ends with its line: `starts` has the
\* positions where a blank, a comment or the end is.
IsLayout(gap) ==
  /\ gap \in Seq(Symbols)
  /\ \E starts \in SUBSET (1..Len(gap) + 1) :
       /\ 1 \in starts
       /\ \A i \in starts :
            \/ i = Len(gap) + 1
            \/ gap[i] \in Blanks /\ i + 1 \in starts
            \/ /\ OpensComment(gap, i)
               /\ \E j \in i..Len(gap) : /\ gap[j] = "nl" /\ j \in starts
                                         /\ \A k \in i..j - 1 : gap[k] # "nl"
=============================================================================
