--------------------------- MODULE MCMongoExtract ---------------------------
(***************************************************************************)
(* Collections "order" and "user"; "user_id" refers to one of them and     *)
(* "batch_id" to none.  Values of one field differ in type, and embedded   *)
(* documents in the types of their members.                                *)
(***************************************************************************)
EXTENDS MongoExtract, TLC

order == <<"order">>
user  == <<"user">>
MCColls == <<order, user>>

MCNameOrder == << << >>, <<"_id">>, <<"batch", "_id">>, <<"contact">>, <<"host">>, <<"total">>, <<"user", "_id">>>>
MCTypeOrder == <<"null", "object", "objectId", "string">>

Value(t) == [type |-> t, sub |-> << >>]
Doc(c, id, names, value) ==
    [coll |-> c, id |-> id,
     fields |-> (<<"_id">> :> Value("objectId")) @@ [f \in names |-> value]]
Contact(t) == [type |-> "object", sub |-> <<"host">> :> t]

MCDocuments == {Doc(order, 1, {<<"batch", "_id">>}, Value("objectId")),
                Doc(order, 2, {<<"batch", "_id">>, <<"user", "_id">>}, Value("string")),
                Doc(user, 1, {<<"contact">>}, Value("string")),
                Doc(user, 2, {<<"contact">>}, Contact("string")),
                Doc(user, 3, {<<"contact">>}, Contact("null")),
                Doc(user, 4, {<< >>, <<"contact">>}, Value("string"))}

\* bsonType as a string, and as an array that also allows null
Plain(t)    == [array |-> FALSE, types |-> <<t>>, sub |-> << >>]
Nullable(t) == [array |-> TRUE, types |-> <<"null", t>>, sub |-> << >>]
Validator(props, req) == [props |-> props, required |-> req]

None == Validator(<< >>, {})
MCValidators == [c \in {order, user} |->
    IF c = order
    THEN {None, Validator((<<"_id">> :> Plain("objectId")) @@ (<<"user", "_id">> :> Nullable("objectId")),
                          {<<"user", "_id">>})}
    ELSE {None, Validator(<<"contact">> :> [Plain("object") EXCEPT !.sub = <<"host">> :> Nullable("string")],
                          {<<"contact">>})}]
MCIndexes == [c \in {order, user} |-> IF c = order THEN {<<"total">>} ELSE {<<"contact">>}]
=============================================================================
