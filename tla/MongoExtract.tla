----------------------------- MODULE MongoExtract -----------------------------
(***************************************************************************)
(* MongoExtractor.Extract (internal/extract/mongodb.go) against a database *)
(* that other clients write to while it runs.  It lists the collections,   *)
(* reads their validators, and then for each collection counts the         *)
(* documents, samples them and lists the indexes: separate commands, each  *)
(* of which sees the database of its own moment.                           *)
(*                                                                         *)
(* A collection is named by a sequence of parts, as a field is.  A document *)
(* is [coll, id, fields].  What the extractor makes of documents and        *)
(* validators is FieldInference.                                           *)
(***************************************************************************)
EXTENDS CtxExport, FieldInference

CONSTANTS
    CollOrder,   \* user collections, in name order
    Documents,   \* documents that may exist
    Validators,  \* Validators[c]: the validators collection c may have
    NoValidator, \* among them, for a collection without a $jsonSchema
    IndexCols,   \* IndexCols[c]: columns an index on c may have
    SampleSize,  \* --sample-size
    MaxWrites    \* bound: commands of other clients during the extraction

Colls == ToSetOf(CollOrder)

\* Only an embedded document has members.
IsValue(v) ==
    /\ v.type \in Types
    /\ DOMAIN v.sub \subseteq Names /\ \A f \in DOMAIN v.sub : v.sub[f] \in Types
    /\ v.type # "object" => DOMAIN v.sub = {}

ASSUME DatabaseAssumption ==
    /\ CollOrder \in Seq(Colls) /\ << >> \notin Colls
    /\ \A i, j \in DOMAIN CollOrder : CollOrder[i] = CollOrder[j] => i = j
    /\ \A d \in Documents :
          /\ d.coll \in Colls
          /\ <<"_id">> \in DOMAIN d.fields /\ DOMAIN d.fields \subseteq Names
          /\ \A f \in DOMAIN d.fields : IsValue(d.fields[f])
    /\ SampleSize \in Nat \ {0}
    /\ MaxWrites \in Nat

VARIABLES
    docs, indexes, validators, writes,        \* the database
    stage, todo, found, count, fields, stats, \* the extractor's loop
    entities, edges, warnings,                \* what it has built
    whole                                     \* history: every sample was the whole collection

database  == <<docs, indexes, validators>>
result    == <<entities, edges, warnings>>
locals    == <<found, count, fields, stats, whole>>
vars      == <<database, writes, stage, todo, locals, result>>

Export == [version |-> "ctxexport.v0", entities |-> entities, edges |-> edges]

DocsOf(c) == {d \in docs : d.coll = c}

Smaller(a, b) == IF a < b THEN a ELSE b

-----------------------------------------------------------------------------
\* The types that occur among the values of a sample, embedded ones included.
ValueTypes(sample) ==
    UNION {UNION {{d.fields[f].type} \cup ToSetOf(d.fields[f].sub) : f \in DOMAIN d.fields} :
              d \in sample}

InferredEdge(c, f) == [from |-> c, fromField |-> f, to |-> RefBase(f), toField |-> <<"_id">>]

\* Faulty variants, for the mutation runs: an edge without a look at the
\* collections; a likely reference reported a second time.
InferredEdgesUnchecked(c, names) ==
    {InferredEdge(c, f) : f \in {f \in names : Reference(f)}}

InferenceWarningsTwice(c, names) ==
    {<<kind, c, f>> : kind \in {"objectId", "skipped"},
                      f \in {f \in names : Reference(f) /\ RefBase(f) \notin Colls}}

\* Edge inference over the fields of collection c: an edge to the collection a
\* reference field names, otherwise a warning that says how likely it is one.
InferredEdges(c, names) ==
    {InferredEdge(c, f) : f \in {f \in names : Reference(f) /\ RefBase(f) \in Colls}}

InferenceWarnings(c, names) ==
    {LET likely == /\ f \in DOMAIN stats
                   /\ stats[f].objectIds * 10 >= stats[f].total * 9
     IN  <<IF likely THEN "objectId" ELSE "skipped", c, f>> :
        f \in {f \in names : Reference(f) /\ RefBase(f) \notin Colls}}

-----------------------------------------------------------------------------
Init ==
    /\ docs \in SUBSET Documents /\ IsFiniteSet(docs)
    /\ validators \in {v \in [Colls -> UNION {Validators[c] : c \in Colls}] :
                          \A c \in Colls : v[c] \in Validators[c]}
    /\ indexes \in {x \in [Colls -> SUBSET UNION {IndexCols[c] : c \in Colls}] :
                       \A c \in Colls : x[c] \subseteq IndexCols[c]}
    /\ writes = 0
    /\ stage = "validators"
    /\ todo = CollOrder
    /\ found = [c \in Colls |-> << >>] /\ count = 0 /\ fields = << >> /\ stats = << >>
    /\ entities = {} /\ edges = {} /\ warnings = {}
    /\ whole = TRUE

\* extractValidators.  A failing listCollections only costs a warning; a cursor
\* that fails half way costs not even that, its error being ignored.
ExtractValidators ==
    /\ stage = "validators"
    /\ \/ /\ \E seen \in SUBSET {c \in Colls : validators[c] # NoValidator} :
                found' = [c \in Colls |-> IF c \in seen
                                          THEN ParseJSONSchemaValidator(validators[c])
                                          ELSE << >>]
          /\ warnings' = warnings
       \/ /\ found' = found
          /\ warnings' = warnings \cup {<<"validators">>}
    /\ stage' = "count"
    /\ UNCHANGED <<database, writes, todo, count, fields, stats, whole, entities, edges>>

\* Faulty variant: a sample size that is not capped.
CountEverything ==
    /\ stage = "count"
    /\ todo # << >>
    /\ count' = Cardinality(DocsOf(Head(todo)))
    /\ stage' = "sample"
    /\ UNCHANGED <<database, writes, todo, found, fields, stats, whole, result>>

\* CountDocuments; the warning about a small collection is only given when the
\* fields are to be inferred from the sample.
CountDocuments ==
    /\ stage = "count"
    /\ todo # << >>
    /\ LET c == Head(todo)
           n == Cardinality(DocsOf(c))
       IN  /\ count' = Smaller(n, SampleSize)
           /\ warnings' = IF found[c] = << >> /\ n < SampleSize
                          THEN warnings \cup {<<"small", c>>} ELSE warnings
    /\ stage' = "sample"
    /\ UNCHANGED <<database, writes, todo, found, fields, stats, whole, entities, edges>>

\* The $sample stage draws as many documents as were counted from those there
\* now; with a count of zero nothing is drawn.
Sample ==
    /\ stage = "sample"
    /\ LET c == Head(todo) IN
       \E sample \in SUBSET DocsOf(c) :
          /\ Cardinality(sample) = Smaller(count, Cardinality(DocsOf(c)))
          /\ stats' = StatsOf(sample)
          /\ whole' = (whole /\ sample = DocsOf(c))
          /\ IF found[c] # << >> THEN fields' = found[c]
             ELSE \E order \in Iterations(ValueTypes(sample)) :
                     fields' = InferFields(sample, order)
    /\ stage' = "indexes"
    /\ UNCHANGED <<database, writes, todo, found, count, result>>

\* extractIndexes: all but the index MongoDB makes on _id.
PathsOf(c) == {[columns |-> <<col>>] : col \in indexes[c]}

\* The indexes, edge inference and the entity of the collection.
FinishCollection ==
    /\ stage = "indexes"
    /\ LET c == Head(todo)
           names == [i \in DOMAIN fields |-> fields[i].name]
       IN  /\ edges' = edges \cup InferredEdges(c, ToSetOf(names))
           /\ warnings' = warnings \cup InferenceWarnings(c, ToSetOf(names))
           /\ entities' = entities \cup {[at |-> Cardinality(entities) + 1, name |-> c,
                                          fields |-> names, detail |-> fields,
                                          paths |-> PathsOf(c)]}
    /\ todo' = Tail(todo)
    /\ stage' = "count" /\ fields' = << >> /\ stats' = << >> /\ count' = 0
    /\ UNCHANGED <<database, writes, found, whole>>

Finish ==
    /\ stage = "count"
    /\ todo = << >>
    /\ stage' = "done"
    /\ UNCHANGED <<database, writes, todo, locals, result>>

\* A cancelled context, or an error of any command but listCollections.
Fail ==
    /\ stage \in {"count", "sample", "indexes"}
    /\ stage' = "failed"
    /\ UNCHANGED <<database, writes, todo, locals, result>>

Extract == ExtractValidators \/ CountDocuments \/ Sample \/ FinishCollection \/ Finish

-----------------------------------------------------------------------------
(* Other clients.                                                          *)
Write ==
    /\ writes < MaxWrites
    /\ writes' = writes + 1
    /\ UNCHANGED <<validators, stage, todo, locals, result>>

Insert ==
    /\ \E d \in Documents \ docs : docs' = docs \cup {d}
    /\ UNCHANGED indexes
    /\ Write

\* deleteMany, or dropping the collection
Empty ==
    /\ \E c \in Colls : /\ DocsOf(c) # {}
                        /\ docs' = docs \ DocsOf(c)
    /\ UNCHANGED indexes
    /\ Write

CreateIndex ==
    /\ \E c \in Colls : \E col \in IndexCols[c] \ indexes[c] :
          indexes' = [indexes EXCEPT ![c] = @ \cup {col}]
    /\ UNCHANGED docs
    /\ Write

OtherClients == Insert \/ Empty \/ CreateIndex

Stop == stage \in {"done", "failed"} /\ UNCHANGED vars

Next == Extract \/ Fail \/ OtherClients \/ Stop

Spec == Init /\ [][Next]_vars

-----------------------------------------------------------------------------
TypeOK ==
    /\ docs \subseteq Documents
    /\ writes \in 0..MaxWrites
    /\ stage \in {"validators", "count", "sample", "indexes", "done", "failed"}
    /\ ToSetOf(todo) \subseteq Colls
    /\ count \in 0..SampleSize
    /\ \A f \in DOMAIN stats : stats[f].objectIds \in 0..stats[f].total
    /\ NamesOf(Export) \subseteq Colls

\* Whatever other clients do, every collection is one entity, and every edge
\* leaves a field of its entity and ends in an entity.
BasicallyValid ==
    stage = "done" =>
        /\ Validate(Export)
        /\ NamesOf(Export) = Colls
        /\ \A e \in edges : e.fromField \in FieldsOf(Export, e.from)

\* Every field that looks like a reference is either an edge or the subject of
\* exactly one warning: none is dropped in silence, none is reported twice.
ReferencesAccounted ==
    stage = "done" =>
        \A ent \in entities : \A f \in ToSetOf(ent.fields) :
            LET about == {w \in warnings : w[1] \in {"objectId", "skipped"} /\ <<w[2], w[3]>> = <<ent.name, f>>}
                out == {e \in edges : e.from = ent.name /\ e.fromField = f}
            IN  Cardinality(about) + Cardinality(out) = (IF Reference(f) THEN 1 ELSE 0)

\* The contract: the field an edge ends in exists in its target.
EdgeTargetsExist ==
    stage = "done" => \A e \in edges : e.toField \in FieldsOf(Export, e.to)

\* What LoadExport makes of the export of a database nobody writes to, whose samples
\* were whole: it is accepted when, and only when, no field has an empty name, no
\* reference enters a collection without an _id to be seen, and every indexed column
\* is seen too.  A field is seen if the validator the extractor used declares it, or
\* without one if a document has it.
QuietExportValidates ==
    LET Seen(c) == IF found[c] # << >> THEN {found[c][i].name : i \in DOMAIN found[c]}
                   ELSE UNION {DOMAIN d.fields : d \in DocsOf(c)}
    IN  stage = "done" /\ writes = 0 /\ whole =>
           (ValidateStrict(Export) <=>
              \A c \in Colls :
                 /\ << >> \notin Seen(c)
                 /\ indexes[c] \ DottedNames \subseteq Seen(c)
                 /\ \A f \in Seen(c) : Reference(f) /\ RefBase(f) \in Colls =>
                                          <<"_id">> \in Seen(RefBase(f)))

\* types[d] is the type of a field in document d.
IsMajority(t, types) ==
    LET number(u) == Cardinality({d \in DOMAIN types : types[d] = u})
    IN  /\ number(t) > 0
        /\ \A u \in Types \ {t} : \/ number(u) < number(t)
                                  \/ number(u) = number(t) /\ TypeBefore(t, u)

\* The fields of an entity made from a whole, unchanging collection are its
\* documents' fields, each once and in order; the type of each is one that no other
\* type outnumbers, the first in the alphabet of those; its sub-fields are the
\* members of the embedded documents there, with types chosen the same way.  The
\* order in which Go ranges over its maps makes no difference.
FieldsFollowDocuments ==
    stage = "done" /\ writes = 0 /\ whole =>
       \A ent \in {e \in entities : found[e.name] = << >>} :
             LET Having(f) == {d \in DocsOf(ent.name) : f \in DOMAIN d.fields} IN
             /\ ent.fields = Ordered(UNION {DOMAIN d.fields : d \in DocsOf(ent.name)})
             /\ \A i \in DOMAIN ent.fields :
                   LET f == ent.fields[i]
                       field == ent.detail[i]
                       Inside(g) == {d \in Having(f) : g \in DOMAIN d.fields[f].sub}
                   IN  /\ IsMajority(field.type, [d \in Having(f) |-> d.fields[f].type])
                       /\ {field.sub[k].name : k \in DOMAIN field.sub}
                            = UNION {DOMAIN d.fields[f].sub : d \in Having(f)}
                       /\ \A k \in DOMAIN field.sub :
                             LET g == field.sub[k].name IN
                             IsMajority(field.sub[k].type, [d \in Inside(g) |-> d.fields[f].sub[g]])
=============================================================================
