--------------------------- MODULE MCConversions ---------------------------
(***************************************************************************)
(* Small instances of Conversions for TLC.                                 *)
(***************************************************************************)
EXTENDS Conversions, SequencesExt

\* The numbers around every boundary of the scaled widths.
Ints   == MinOf(IntBits)..MaxOf(IntBits)
Halves == {Nearest(x, Mantissa) : x \in (4 * MinOf(IntBits))..(4 * (MaxOf(IntBits) + 1))}

Values ==
  {<<"int", n>> : n \in Ints} \cup {<<"float", h>> : h \in Halves}
  \cup {<<"f32", 3>>, <<"bool", TRUE>>, <<"bool", FALSE>>, <<"unit", 0>>,
        <<"text", <<"word", 1>>>>, <<"text", <<"int", 7>>>>, <<"text", <<"float", 7>>>>,
        <<"case", <<"word", 2>>>>, <<"sum", <<"word", 2>>>>, <<"list", 0>>,
        <<"bytes", <<"word", 1>>>>}

\* Declared types: every one or two of the words that the classification
\* looks for, and the columns of the portable schema.
Words == {"BOOL", "DATE", "TIME", "INT", "CHAR", "CLOB", "TEXT", "REAL", "FLOA",
          "DOUB", "NUMERIC", "DEC", "BLOB"}
Columns ==
  {Portable[column] : column \in DOMAIN Portable}
  \cup {[decl |-> {a, b}, pg |-> "other"] : a, b \in Words}
  \cup {[decl |-> {"BLOB"}, pg |-> "bytea"], [decl |-> {"TIME"}, pg |-> "timestamp"],
        [decl |-> {"INT"}, pg |-> "int2"], [decl |-> {"FLOA"}, pg |-> "float4"],
        [decl |-> {"none"}, pg |-> "other"]}

\* Every text of at most five characters.
Texts == SeqOf({"'", "\"", "?", "x"}, 5)

MCCalls ==
  {[sql |-> <<"?">>, value |-> v, column |-> c] : v \in Values, c \in Columns}
  \cup {[sql |-> text, value |-> <<"unit", 0>>, column |-> Portable["text"]] : text \in Texts}
=============================================================================
