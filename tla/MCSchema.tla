----------------------------- MODULE MCSchema -----------------------------
(***************************************************************************)
(* Small instances of Schema for TLC: calls that are right, calls with the *)
(* wrong arguments, and calls that are right in another chain only.        *)
(***************************************************************************)
EXTENDS Schema

On(name, args)   == Call(TRUE, name, args)
Root(name, args) == Call(FALSE, name, args)
A == Str(<<"a">>)
B == Str(<<"b">>)

MCWords == Vocabulary \cup {"rename_table", "timestamps", "column", "true", "false",
                           "a", "b", "n", "t", "e16", "SET", "NULL", "CASCADE", "eacute"}

\* The largest is beyond 64 bits; 0.00005 prints as 5e-5.
MCHuge     == {"99999999999999999999"}
MCNumerals == {"0", "7", "00005", "10000000000000000"} \cup MCHuge
MCScientific ==
  {<<"0", "00005">>} \cup (({"10000000000000000"} \cup MCHuge) \X MCNumerals)

\* A text with everything that has an escape, a comment and a letter n.
Tricky == Str(<<"quote", "backslash", "n", "nl", "-", "-", "eacute">>)

MCRoots == {Root("create_table", <<A>>), Root("create_index", <<A>>),
            Root("alter_table", <<A>>), Root("drop_table", <<A>>),
            Root("drop_index", <<A>>), Root("drop_table", <<Str(<<"eacute">>)>>),
            Root("rename_table", <<A>>)}

MCLinks == {On("id", <<>>), On("text", <<A>>), On("bool", <<B>>),
            On("timestamps", <<>>), On("if_not_exists", <<>>),
            On("if_exists", <<>>), On("not_null", <<>>), On("unique", <<>>),
            On("unique", <<A, B>>), On("primary_key", <<>>),
            On("primary_key", <<A, B>>), On("default", <<Tricky>>),
            On("default", <<Token("int", <<"-", "7">>)>>),
            On("default", <<Token("float", <<"7", ".", "0">>)>>),
            On("default", <<Token("float", <<"-", "0", ".", "00005">>)>>),
            On("default", <<Token("float", <<"10000000000000000", ".", "0">>)>>),
            On("default", <<Token("bool", <<"true">>)>>),
            On("default_now", <<>>), On("references", <<B, A>>),
            On("on_delete", <<Str(<<"SET", "-", "NULL">>)>>),
            On("on_update", <<Str(<<"CASCADE">>)>>), On("on_update", <<A>>),
            On("column", <<A>>), On("columns", <<A, B>>), On("name", <<B>>),
            On("add_int", <<A>>), On("drop_column", <<B>>),
            On("rename_column", <<A, B>>), On("rename_to", <<B>>)}

\* No layout, blanks, line ends, and both comments with a quote in them.
MCLayouts == {<<>>, <<" ", "tab">>, <<"nl">>, <<"-", "-", "quote", "nl">>,
              <<" ", "/", "/", "a", "quote", "nl">>}
=============================================================================
