---------------------------- MODULE FieldInference ----------------------------
(***************************************************************************)
(* What the MongoDB extractor (internal/extract/mongodb.go) makes of       *)
(* sampled documents and of $jsonSchema validators, without the database.  *)
(*                                                                         *)
(* A name is a sequence of parts, so that <<"user", "_id">> is user_id.    *)
(* A document gives each of its fields a value [type, sub]; sub gives the  *)
(* types of the members of an embedded document and is empty otherwise.  A *)
(* validator is [props, required], props giving each property its schema   *)
(* [array, types, sub]: types is the bsonType, written as an array or not, *)
(* and sub the schemas of nested properties.                               *)
(***************************************************************************)
EXTENDS Selection, FiniteSets

CONSTANTS NameOrder,   \* the field names, sorted
          TypeOrder    \* the names of BSON types, sorted

Names == ToSet(NameOrder)

\* The names bsonTypeName gives to the types that occur.
Types == ToSet(TypeOrder)

ASSUME OrdersAssumption ==
    /\ NameOrder \in Seq(Names) /\ IsInjective(NameOrder)
    /\ TypeOrder \in Seq(Types) /\ IsInjective(TypeOrder) /\ "" \notin Types

Ordered(names) == Where(NameOrder, {i \in DOMAIN NameOrder : NameOrder[i] \in names})
TypeBefore(s, t) == \E i, j \in DOMAIN TypeOrder :
                       i < j /\ TypeOrder[i] = s /\ TypeOrder[j] = t

\* refBase: what user_id refers to; << >> for a name that is no reference.
RefBase(field) ==
    IF Len(field) > 1 /\ Last(field) = "_id" THEN Front(field) ELSE << >>
Reference(field) == RefBase(field) # << >>

\* Every order in which Go may range over a map whose keys are S.
Iterations(S) == {s \in [1..Cardinality(S) -> S] : ToSet(s) = S}

\* Faulty variant (as those below): the last of the most frequent types wins.
MajorityTypeLast(counts, order) ==
    LET best[n \in 0..Len(order)] ==
          IF n = 0 THEN [name |-> "", count |-> 0]
          ELSE IF counts[order[n]] >= best[n - 1].count
               THEN [name |-> order[n], count |-> counts[order[n]]] ELSE best[n - 1]
    IN  best[Len(order)].name

\* The loop that picks the most frequent type, ranging over the map in some order,
\* and breaks ties alphabetically.
MajorityType(counts, order) ==
    LET Better(t, old) == \/ counts[t] > old.count
                          \/ counts[t] = old.count /\ TypeBefore(t, old.name)
        best[n \in 0..Len(order)] ==
          IF n = 0 THEN [name |-> "", count |-> 0]
          ELSE IF Better(order[n], best[n - 1])
               THEN [name |-> order[n], count |-> counts[order[n]]] ELSE best[n - 1]
    IN  best[Len(order)].name

\* How often each type occurs in a bag of values (values are told apart by key).
Tally(types) == [t \in Types |-> Cardinality({k \in DOMAIN types : types[k] = t})]

\* inferSubfields, over the embedded documents of one field.
InferSubfields(subs, order) ==
    LET With(f) == {k \in DOMAIN subs : f \in DOMAIN subs[k]}
        names == Ordered(UNION {DOMAIN subs[k] : k \in DOMAIN subs})
    IN  [i \in DOMAIN names |->
           [name |-> names[i],
            type |-> MajorityType(Tally([k \in With(names[i]) |-> subs[k][names[i]]]), order)]]

\* inferFieldsWithStats: the union of the top-level fields of the sample, sorted,
\* each with its majority type; a field with an embedded document among its values
\* has the sub-fields of those, whatever its majority type.
InferFields(sample, order) ==
    LET With(f) == {d \in sample : f \in DOMAIN d.fields}
        Embedded(f) == {d \in With(f) : d.fields[f].type = "object"}
        names == Ordered(UNION {DOMAIN d.fields : d \in sample})
    IN  [i \in DOMAIN names |->
           LET f == names[i] IN
           [name |-> f, notNull |-> FALSE,
            type |-> MajorityType(Tally([d \in With(f) |-> d.fields[f].type]), order),
            sub  |-> InferSubfields([d \in Embedded(f) |-> d.fields[f].sub], order)]]

\* Per field of the sample: how often it occurs, and how often as an objectId.
StatsOf(sample) ==
    [f \in UNION {DOMAIN d.fields : d \in sample} |->
        LET with == {d \in sample : f \in DOMAIN d.fields} IN
        [total |-> Cardinality(with),
         objectIds |-> Cardinality({d \in with : d.fields[f].type = "objectId"})]]

\* A bsonType string as it stands, of an array the first entry that is not null.
DeclaredType(schema) ==
    LET candidates == IF schema.array THEN SelectSeq(schema.types, LAMBDA t : t # "null")
                      ELSE schema.types
    IN  IF candidates = << >> THEN "" ELSE Head(candidates)

\* parseJSONSchemaValidator: the declared properties, sorted; the sub-fields of
\* those declared as objects keep the order of the declaration, here any order.
ParseJSONSchemaValidator(validator) ==
    LET names == Ordered(DOMAIN validator.props)
        Subfields(sub) == LET inner == Ordered(DOMAIN sub) IN
                          [i \in DOMAIN inner |-> [name |-> inner[i],
                                                   type |-> DeclaredType(sub[inner[i]])]]
    IN  [i \in DOMAIN names |->
           LET f == names[i]
               schema == validator.props[f]
           IN  [name |-> f, notNull |-> f \in validator.required,
                type |-> DeclaredType(schema),
                sub  |-> IF DeclaredType(schema) = "object" THEN Subfields(schema.sub)
                         ELSE << >>]]
=============================================================================
