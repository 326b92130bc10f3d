-------------------------- MODULE MCPostgresExtract --------------------------
(***************************************************************************)
(* A catalog with a table of the same name in two schemas, foreign keys    *)
(* that cross them, one of two columns, a partitioned table, and columns   *)
(* whose names PostgreSQL quotes in a text array, one of them NULL.        *)
(***************************************************************************)
EXTENDS PostgresExtract

Rel(ns, name) == [ns |-> ns, name |-> name]
Key(s, c, t, d) == [src |-> s, srcCols |-> c, tgt |-> t, tgtCols |-> d]
Index(keyList, unique) == [keys |-> keyList, unique |-> unique]

billingUsers  == Rel("billing", "users")
publicEvents  == Rel("public", "events")
publicOrders  == Rel("public", "orders")
publicUsers   == Rel("public", "users")

\* "id", "u", a name with a comma and a quote, and a column whose name is one backslash
MCExpression == <<"(", ")">>
id      == <<"i", "d">>
user    == <<"u">>
account == <<"a", ",", "\"">>
owner   == <<"\\">>

MCRelOrder    == <<publicEvents, publicOrders, billingUsers, publicUsers>>
MCPartitioned == {publicEvents}
MCInitialCols == [r \in {publicEvents, publicOrders, billingUsers, publicUsers} |->
                    CASE r = publicOrders -> <<id, user>>
                      [] r = billingUsers -> <<id, account, Null>>
                      [] OTHER -> <<id>>]
MCInitialIndexes == [r \in {publicEvents, publicOrders, billingUsers, publicUsers} |->
                       CASE r = publicOrders -> {Index(<<user>>, FALSE), Index(<<MCExpression>>, TRUE)}
                         [] r = billingUsers -> {Index(<<account, MCExpression, id>>, TRUE), Index(<<Null, id>>, FALSE)}
                         [] OTHER -> {}]
MCKeys == {Key(publicOrders, <<user>>, publicUsers, <<id>>),
           Key(publicOrders, <<id, user>>, billingUsers, <<id, account>>),
           Key(billingUsers, <<owner>>, publicUsers, <<id>>),
           Key(publicOrders, <<user>>, publicEvents, <<id>>)}

BothSchemas == {<<"public", "billing">>, <<"billing", "", "public">>,
                <<"billing", "billing">>, <<"">>}
OneSchema   == {<<"public">>, <<"billing">>}
=============================================================================
