--------------------------- MODULE MCCompileCommand ---------------------------
(***************************************************************************)
(* Small documents: tables with and without a namespace, names with        *)
(* capitals, digits, quotes, punctuation and reserved words, composite     *)
(* keys, indexes, a view, foreign keys within a namespace, across          *)
(* namespaces and from a table to itself; one document with a comment of   *)
(* two lines, one with a reserved word the code does not list.             *)
(***************************************************************************)
EXTENDS CompileCommand

F(name, pk, notNull, comment) ==
    [name |-> name, pk |-> pk, notNull |-> notNull, embeds |-> FALSE, comment |-> comment]
T(name, fields, paths) ==
    [name |-> name, kind |-> "table", comment |-> << >>, fields |-> fields, paths |-> paths]
FK(from, to) == [from |-> from, fromField |-> <<"d", "o">>, to |-> to, toField |-> <<"i">>]

key   == F(<<"i">>, TRUE, TRUE, << >>)
do    == F(<<"d", "o">>, FALSE, TRUE, <<"o", ",", "\"">>)   \* a reserved word
big   == F(<<"A">>, TRUE, TRUE, << >>)
say   == F(<<"a", "\"", ",", ")">>, TRUE, FALSE, <<";">>)
digit == F(<<"1">>, FALSE, FALSE, << >>)
oneLine  == <<"t", "-">>
twoLines == <<"t", "\n", "a">>

orders == <<"o">>
lines  == <<"A", "-", ".", "l">>
items  == <<"A", "-", ".", "d", "o">>
report == <<".", "r">>

FirstDoc ==
    [entities |-> <<[T(orders, <<key, do>>, << >>) EXCEPT !.comment = oneLine],
                    T(lines, <<key, big, say, do>>,
                      <<[name |-> <<"1">>, cols |-> <<do.name, say.name>>, unique |-> FALSE]>>),
                    T(items, <<digit, key, do>>,
                      <<[name |-> <<"t">>, cols |-> <<key.name>>, unique |-> TRUE]>>),
                    [T(report, <<say, do>>, << >>) EXCEPT !.kind = "view"]>>,
     edges |-> <<FK(lines, orders), FK(lines, items), FK(items, items)>>]

\* A document database: embedded documents, punctuation in names.
payload == [F(<<"p", "|", "a">>, FALSE, FALSE, << >>) EXCEPT !.embeds = TRUE]
pipe    == <<"a", "|", "b">>
comma   == <<"a", ",", ":", "#", "b">>
SecondDoc ==
    [entities |-> <<T(orders, << >>, << >>), T(items, <<key>>, << >>),
                    T(pipe, <<key, payload, [payload EXCEPT !.name = <<"d", "o">>]>>, << >>),
                    T(comma, <<key, do>>, << >>)>>,
     edges |-> <<FK(comma, pipe), FK(pipe, items)>>]

TwoLineDoc ==
    [entities |-> <<T(orders, <<key, [do EXCEPT !.comment = twoLines]>>, << >>), T(lines, <<key>>, << >>)>>,
     edges |-> <<FK(orders, lines)>>]

UnlistedDoc ==
    [entities |-> <<T(orders, <<key, [do EXCEPT !.name = <<"a", "t">>]>>, << >>)>>, edges |-> << >>]

\* Namespaces that differ in punctuation only.
ClashDoc ==
    [entities |-> <<T(<<"a", "-", "b", ".", "t">>, <<key>>, << >>),
                    T(<<"a", "_", "b", ".", "t">>, <<key>>, << >>)>>,
     edges |-> << >>]

MCExports == {FirstDoc, SecondDoc, TwoLineDoc, UnlistedDoc}
ClashExports == {ClashDoc}
MCDigits == {"1"}
MCWordChars == {"a", "b", "d", "o", "l", "i", "p", "t", "r", "default"} \cup MCDigits
MCLower == [c \in MCWordChars \cup {"A", "-", "_", ".", "\"", ",", ")", "|", ":", "#", ";"} |->
               IF c = "A" THEN "a" ELSE c]
MCReserved == {<<"d", "o">>}
MCSqlWords == MCReserved \cup {<<"a", "t">>}   \* stands for "using", "analyze" and the like
AllModes == {"full", "schema", "lighthouse"}
SchemaMode == {"schema"}
=============================================================================
