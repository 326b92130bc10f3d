--------------------------- MODULE PostgresExtract ---------------------------
(***************************************************************************)
(* PostgresExtractor.Extract (internal/extract/postgres.go) against a      *)
(* catalog that other sessions may alter while it runs.  Extract opens no  *)
(* transaction: the table list of a schema, the fields and the indexes of  *)
(* each table, and the foreign keys of a schema are each one query, and    *)
(* each query sees the catalog of its own moment.                          *)
(*                                                                         *)
(* A relation is [ns, name].  Names exclude a dot inside a table name.  A   *)
(* column name is a sequence of characters, because the columns of an      *)
(* index travel through a text array that quotes and escapes some of them. *)
(***************************************************************************)
EXTENDS CtxExport, Selection

CONSTANTS
    RelOrder,     \* relations that may exist, in the order of their names
    Partitioned,  \* those of a relkind listTables does not select
    InitialCols,  \* InitialCols[r]: columns a relation is created with, in order
    InitialIndexes,\* InitialIndexes[r]: its indexes, but the primary key's: [keys, unique]
    Expression,   \* an index key that is no column
    CandidateKeys,\* foreign keys that may exist: [src, srcCols, tgt, tgtCols]
    Configs,      \* the --schemas arguments considered, split at the commas
    MaxDDL        \* bound: statements other sessions run during the extraction

Rels == ToSetOf(RelOrder)
ColumnNames == Seq(STRING)
Before(r, s) == \E i, j \in DOMAIN RelOrder : i < j /\ RelOrder[i] = r /\ RelOrder[j] = s

ASSUME CatalogAssumption ==
    /\ Partitioned \subseteq Rels
    /\ \A r, s \in Rels : r.ns = s.ns /\ r.name = s.name => r = s
    /\ \A r \in Rels :
          /\ InitialCols[r] \in Seq(ColumnNames) /\ << >> \notin ToSetOf(InitialCols[r])
          /\ \A i, j \in DOMAIN InitialCols[r] : InitialCols[r][i] = InitialCols[r][j] => i = j
          /\ \A ix \in InitialIndexes[r] :
                /\ ix.keys \in Seq(ColumnNames) /\ ix.keys # << >>
                /\ ToSetOf(ix.keys) \ {Expression} \subseteq ToSetOf(InitialCols[r])
    /\ \A k \in CandidateKeys :
          /\ k.src \in Rels /\ k.tgt \in Rels
          /\ DOMAIN k.srcCols = DOMAIN k.tgtCols
          /\ << >> \notin ToSetOf(k.srcCols) \cup ToSetOf(k.tgtCols)
    /\ Configs \subseteq Seq(STRING)
    /\ MaxDDL \in Nat

VARIABLES
    rels, cols, indexes, keys,   \* the catalog
    ddl,                         \* statements run so far
    schemas,                     \* the schemas to read
    stage, at, todo, tbl,        \* the loop: query, schema, tables left, table read now
    entities, edges, warnings,   \* what it has built
    stable                       \* history: keys that existed since the start

catalog   == <<rels, cols, indexes, keys>>
result    == <<entities, edges, warnings>>
extractor == <<schemas, stage, at, todo, tbl, result>>
vars      == <<catalog, ddl, extractor, stable>>

Export == [version |-> "ctxexport.v0", entities |-> entities, edges |-> edges]

-----------------------------------------------------------------------------
\* Faulty variant (for the mutation runs, as those below): a bare table name.
QualifiedNameBare(r) == <<r.name>>

\* qualifiedName: schema-qualified unless one schema is exported, or public.
Multi == Len(schemas) > 1
QualifiedName(r) == IF Multi /\ r.ns # "public" THEN <<r.ns, r.name>> ELSE <<r.name>>

\* A key of several columns becomes one edge per pair of columns.
EdgesOf(k) == {[from |-> QualifiedName(k.src), fromField |-> k.srcCols[i],
                to |-> QualifiedName(k.tgt), toField |-> k.tgtCols[i]] :
                  i \in DOMAIN k.srcCols}

\* A key needs both relations and their columns.
Holds(k) == /\ {k.src, k.tgt} \subseteq rels
            /\ ToSetOf(k.srcCols) \subseteq ToSetOf(cols[k.src])
            /\ ToSetOf(k.tgtCols) \subseteq ToSetOf(cols[k.tgt])

\* splitSchemas leaves blank parts out and nothing else; buildExtractor refuses an
\* empty list.
SplitSchemas(parts) == Where(parts, {i \in DOMAIN parts : parts[i] # ""})
BuildExtractor(parts) ==
    [schemas |-> SplitSchemas(parts),
     stage   |-> IF SplitSchemas(parts) = << >> THEN "failed" ELSE "list"]

-----------------------------------------------------------------------------
\* What PostgreSQL sends for a text array: an element is quoted when it is empty,
\* holds a special character or would read as the NULL element.
Null == <<"N", "U", "L", "L">>
Escaped(ch) == IF ch \in {"\"", "\\"} THEN <<"\\", ch>> ELSE <<ch>>
Special(name) == \/ name \in {<< >>, Null}
                 \/ ToSetOf(name) \cap {"{", "}", ",", "\"", "\\", " "} # {}
Element(name) ==
    IF Special(name)
    THEN <<"\"">> \o FlattenSeq([i \in 1..Len(name) |-> Escaped(name[i])]) \o <<"\"">>
    ELSE name
ArrayOut(names) ==
    <<"{">> \o FlattenSeq([i \in 1..Len(names) |->
                             IF i = 1 THEN Element(names[i]) ELSE <<",">> \o Element(names[i])])
            \o <<"}">>

\* parseTextArray, over the characters between the braces: what has been found, the
\* element being read, and whether it is inside quotes or after a backslash.
Found(acc) == IF acc.current = Null THEN acc.found ELSE Append(acc.found, acc.current)
NothingRead == [found |-> << >>, current |-> << >>, quoted |-> FALSE, escaped |-> FALSE]

\* Faulty variant: a comma ends an element inside quotes too.
ReadCharUnquoted(acc, ch) ==
    CASE acc.escaped -> [acc EXCEPT !.current = Append(@, ch), !.escaped = FALSE]
      [] ~acc.escaped /\ ch = "\\" -> [acc EXCEPT !.escaped = TRUE]
      [] ~acc.escaped /\ ch = "\"" -> acc
      [] ~acc.escaped /\ ch = "," -> [acc EXCEPT !.found = Found(acc), !.current = << >>]
      [] OTHER -> [acc EXCEPT !.current = Append(@, ch)]

ReadChar(acc, ch) ==
    CASE acc.escaped -> [acc EXCEPT !.current = Append(@, ch), !.escaped = FALSE]
      [] ~acc.escaped /\ ch = "\\" -> [acc EXCEPT !.escaped = TRUE]
      [] ~acc.escaped /\ ch = "\"" -> [acc EXCEPT !.quoted = ~@]
      [] ~acc.escaped /\ ch = "," /\ ~acc.quoted ->
            [acc EXCEPT !.found = Found(acc), !.current = << >>]
      [] OTHER -> [acc EXCEPT !.current = Append(@, ch)]

ParseTextArray(text) ==
    LET inner == SubSeq(text, 2, Len(text) - 1)
        read[n \in 0..Len(inner)] == IF n = 0 THEN NothingRead
                                     ELSE ReadChar(read[n - 1], inner[n])
    IN  IF Len(text) <= 2 THEN << >> ELSE Found(read[Len(inner)])

\* The index query joins the keys with the columns: a key that is an expression
\* has no row, and an index of expressions only is not in the result.
ColumnsIn(ix) == Where(ix.keys, {i \in DOMAIN ix.keys : ix.keys[i] # Expression})
PathsOf(r) ==
    {[columns |-> ParseTextArray(ArrayOut(ColumnsIn(ix))), unique |-> ix.unique] :
        ix \in {ix \in indexes[r] : ToSetOf(ix.keys) # {Expression}}}

Init ==
    /\ rels \in SUBSET Rels
    /\ cols = InitialCols
    /\ indexes = InitialIndexes
    /\ keys \in {ks \in SUBSET CandidateKeys : \A k \in ks : Holds(k)}
    /\ ddl = 0
    /\ \E parts \in Configs : /\ schemas = BuildExtractor(parts).schemas
                             /\ stage = BuildExtractor(parts).stage
    /\ at = 1 /\ todo = {} /\ tbl = << >>
    /\ entities = {} /\ edges = {} /\ warnings = {}
    /\ stable = keys

-----------------------------------------------------------------------------
(* The extractor.                                                          *)
\* Faulty variants: one schema too many; edges kept without classifyEdge; edges
\* kept only inside the schema being read.
NextSchemaTooFar ==
    /\ stage = "fields"
    /\ todo = {}
    /\ IF at <= Len(schemas) THEN stage' = "list"  /\ at' = at + 1
                             ELSE stage' = "edges" /\ at' = 1
    /\ UNCHANGED <<catalog, ddl, schemas, todo, tbl, result, stable>>

ExtractEdgesUnclassified ==
    /\ stage = "edges"
    /\ edges' = edges \cup UNION {EdgesOf(k) : k \in {k \in keys : k.src.ns = schemas[at]}}
    /\ IF at < Len(schemas) THEN stage' = stage  /\ at' = at + 1
                            ELSE stage' = "done" /\ at' = at
    /\ UNCHANGED <<catalog, ddl, schemas, todo, tbl, entities, warnings, stable>>

ExtractEdgesPerSchema ==
    /\ stage = "edges"
    /\ LET found == UNION {EdgesOf(k) : k \in {k \in keys : k.src.ns = schemas[at]}}
           kept == UNION {EdgesOf(k) : k \in {k \in keys : k.src.ns = schemas[at] /\ k.tgt.ns = schemas[at]}}
       IN  /\ edges' = edges \cup kept
           /\ warnings' = warnings \cup (found \ kept)
    /\ IF at < Len(schemas) THEN stage' = stage  /\ at' = at + 1
                            ELSE stage' = "done" /\ at' = at
    /\ UNCHANGED <<catalog, ddl, schemas, todo, tbl, entities, stable>>

\* listTables: the relations of the schema, partitioned ones left out.
ListTables ==
    /\ stage = "list"
    /\ todo' = {r \in rels \ Partitioned : r.ns = schemas[at]}
    /\ stage' = "fields"
    /\ UNCHANGED <<catalog, ddl, schemas, at, tbl, result, stable>>

\* extractFields for the next table, by name; one that is gone has no rows.
ExtractFields ==
    /\ stage = "fields"
    /\ \E r \in todo :
          /\ \A other \in todo \ {r} : Before(r, other)
          /\ tbl' = [rel |-> r, fields |-> IF r \in rels THEN cols[r] ELSE << >>]
    /\ stage' = "paths"
    /\ UNCHANGED <<catalog, ddl, schemas, at, todo, result, stable>>

\* extractAccessPaths for the same table, which completes its entity.
ExtractAccessPaths ==
    /\ stage = "paths"
    /\ entities' = entities \cup
          {[at |-> Cardinality(entities) + 1, name |-> QualifiedName(tbl.rel),
            fields |-> tbl.fields, paths |-> IF tbl.rel \in rels THEN PathsOf(tbl.rel) ELSE {}]}
    /\ todo' = todo \ {tbl.rel}
    /\ tbl' = << >>
    /\ stage' = "fields"
    /\ UNCHANGED <<catalog, ddl, schemas, at, edges, warnings, stable>>

NextSchema ==
    /\ stage = "fields"
    /\ todo = {}
    /\ IF at < Len(schemas) THEN stage' = "list"  /\ at' = at + 1
                            ELSE stage' = "edges" /\ at' = 1
    /\ UNCHANGED <<catalog, ddl, schemas, todo, tbl, result, stable>>

\* extractEdges for one schema: classifyEdge keeps an edge when both names are
\* exported and warns otherwise.
ExtractEdges ==
    /\ stage = "edges"
    /\ LET found == UNION {EdgesOf(k) : k \in {k \in keys : k.src.ns = schemas[at]}}
           kept == {e \in found : {e.from, e.to} \subseteq NamesOf(Export)}
       IN  /\ edges' = edges \cup kept
           /\ warnings' = warnings \cup (found \ kept)
    /\ IF at < Len(schemas) THEN stage' = stage  /\ at' = at + 1
                            ELSE stage' = "done" /\ at' = at
    /\ UNCHANGED <<catalog, ddl, schemas, todo, tbl, entities, stable>>

\* A cancelled context or a failed query ends Extract without an export.
Fail ==
    /\ stage \notin {"done", "failed"}
    /\ stage' = "failed"
    /\ UNCHANGED <<catalog, ddl, schemas, at, todo, tbl, result, stable>>

Extract == ListTables \/ ExtractFields \/ ExtractAccessPaths \/ NextSchema \/ ExtractEdges

-----------------------------------------------------------------------------
(* Other sessions.  Each action is one committed statement.                *)
Alter ==
    /\ ddl < MaxDDL
    /\ ddl' = ddl + 1
    /\ stable' = stable \cap keys'
    /\ UNCHANGED extractor

\* DROP TABLE ... CASCADE
DropRelation ==
    /\ \E r \in rels : /\ rels' = rels \ {r}
                       /\ keys' = {k \in keys : r \notin {k.src, k.tgt}}
    /\ UNCHANGED <<cols, indexes>>
    /\ Alter

CreateRelation ==
    /\ \E r \in Rels \ rels : /\ rels' = rels \cup {r}
                              /\ cols' = [cols EXCEPT ![r] = InitialCols[r]]
                              /\ indexes' = [indexes EXCEPT ![r] = InitialIndexes[r]]
    /\ UNCHANGED keys
    /\ Alter

\* ALTER TABLE ... ADD FOREIGN KEY, or ADD COLUMN ... REFERENCES
AddReference ==
    /\ \E k \in CandidateKeys \ keys :
          /\ {k.src, k.tgt} \subseteq rels
          /\ ToSetOf(k.tgtCols) \subseteq ToSetOf(cols[k.tgt])
          /\ keys' = keys \cup {k}
          /\ LET new == SelectSeq(k.srcCols, LAMBDA c : c \notin ToSetOf(cols[k.src]))
             IN  cols' = [cols EXCEPT ![k.src] = @ \o new]
    /\ UNCHANGED <<rels, indexes>>
    /\ Alter

\* ALTER TABLE ... DROP COLUMN ... CASCADE, of a column that is not the first
DropColumn ==
    /\ \E r \in rels : \E c \in ToSetOf(cols[r]) \ {cols[r][1]} :
          /\ cols' = [cols EXCEPT ![r] = SelectSeq(@, LAMBDA d : d # c)]
          /\ indexes' = [indexes EXCEPT ![r] = {ix \in @ : c \notin ToSetOf(ix.keys)}]
          /\ keys' = {k \in keys : /\ ~(k.src = r /\ c \in ToSetOf(k.srcCols))
                                  /\ ~(k.tgt = r /\ c \in ToSetOf(k.tgtCols))}
    /\ UNCHANGED rels
    /\ Alter

OtherSessions == DropRelation \/ CreateRelation \/ AddReference \/ DropColumn

Stop == stage \in {"done", "failed"} /\ UNCHANGED vars

Next == Extract \/ Fail \/ OtherSessions \/ Stop

Spec == Init /\ [][Next]_vars

-----------------------------------------------------------------------------
TypeOK ==
    /\ rels \subseteq Rels
    /\ keys \subseteq CandidateKeys
    /\ stable \subseteq keys
    /\ ddl \in 0..MaxDDL
    /\ stage \in {"list", "fields", "paths", "edges", "done", "failed"}
    /\ at \in DOMAIN schemas \cup {1}
    /\ todo \subseteq Rels
    /\ \A ent \in entities : ent.at \in 1..Cardinality(entities)

Exported == {r \in Rels \ Partitioned : r.ns \in ToSetOf(schemas)}

Quiet == stage = "done" /\ ddl = 0

\* A schema that is listed again is read again.
ListedTwice == {s \in ToSetOf(schemas) : \E i, j \in DOMAIN schemas :
                                            i # j /\ schemas[i] = s /\ schemas[j] = s}

\* "... so the resulting export always validates end-to-end": whatever other
\* sessions do, an export whose schemas are listed once each has no duplicate
\* entity and no edge to an entity it does not hold.  When nobody alters the
\* catalog between the queries, the strict validation of LoadExport accepts the
\* export, unless a schema that holds an exported relation is listed twice: then,
\* and only then, it refuses it.
ExportValidates ==
    /\ stage = "done" /\ ListedTwice = {} => Validate(Export)
    /\ Quiet => (ValidateStrict(Export)
                   <=> {r \in rels \cap Exported : r.ns \in ListedTwice} = {})

\* Read from a catalog nobody alters, the export says what the catalog says.  Its
\* entities have the columns of the relations, in order, and for every index that
\* has a column its columns, in order, whatever characters their names hold, but for
\* a column whose name is NULL.  Its edges are the foreign keys between exported
\* relations, column by column, under the names of the relations they join, and every
\* other key of an exported relation is reported: a key is neither lost nor attached
\* to another table.
QuietExportIsCatalog ==
    Quiet =>
        LET own == {k \in keys : k.src.ns \in ToSetOf(schemas)}
            internal == {k \in own : {k.src, k.tgt} \subseteq Exported}
            Known(names) == Where(names, {i \in DOMAIN names : names[i] # Null})
        IN  /\ {<<ent.name, ent.fields, ent.paths>> : ent \in entities} =
               {<<QualifiedName(r), cols[r],
                  {[columns |-> Known(ColumnsIn(ix)), unique |-> ix.unique] :
                      ix \in {ix \in indexes[r] : \E c \in ToSetOf(ix.keys) : c # Expression}}>> :
                  r \in rels \cap Exported}
            /\ edges = UNION {EdgesOf(k) : k \in internal}
            /\ warnings = UNION {EdgesOf(k) : k \in own \ internal}

\* A foreign key that is there during the whole extraction, between relations of
\* the exported schemas, is in the export however the catalog changes meanwhile.
StableKeysKept ==
    stage = "done" =>
        \A k \in stable : {k.src, k.tgt} \subseteq Exported => EdgesOf(k) \subseteq edges
=============================================================================
