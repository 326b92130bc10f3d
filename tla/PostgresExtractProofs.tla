------------------------- MODULE PostgresExtractProofs -------------------------
(***************************************************************************)
(* For every catalog, every list of schemas and any number of statements   *)
(* other sessions run between the queries: a foreign key that is there     *)
(* during the whole extraction is in the export.  And when there are none, *)
(* the export is what the catalog says and passes the strict validation.   *)
(*                                                                         *)
(* The first argument follows the loops of Extract.  Such a key keeps its  *)
(* two relations from being dropped (CatalogInv).  Each of them is         *)
(* therefore listed when the schema it is in is read, and becomes an       *)
(* entity before the next schema is (ListedInv).  When the keys are        *)
(* classified every entity is known, so the key is kept (KeptInv).  The    *)
(* second (QuietInv) makes of it an equality, for every relation and key.  *)
(***************************************************************************)
EXTENDS PostgresExtract, SequenceLemmas

Stages == {"list", "fields", "paths", "edges", "done", "failed"}

CatalogInv ==
    /\ rels \subseteq Rels
    /\ stable \subseteq keys
    /\ keys \subseteq CandidateKeys
    /\ \A k \in keys : {k.src, k.tgt} \subseteq rels
    /\ ddl \in 0..MaxDDL

LoopInv ==
    /\ schemas \in Seq(STRING)
    /\ stage \in Stages
    /\ at \in Nat /\ at >= 1
    /\ stage # "failed" => at <= Len(schemas)
    /\ at <= Len(schemas) \/ at = 1

\* The relations a stable key joins, if they are to be exported.
Pinned(r) == /\ r \in Exported
             /\ \E k \in stable : r \in {k.src, k.tgt}

Named(r) == \E ent \in entities : ent.name = QualifiedName(r)

\* Schema i has been read.
Read(i) == stage \in {"edges", "done"} \/ i < at

ListedInv ==
    \A r \in Rels, i \in DOMAIN schemas :
        Pinned(r) /\ r.ns = schemas[i] =>
            /\ stage # "failed" /\ Read(i) => Named(r)
            /\ stage \in {"fields", "paths"} /\ i = at => r \in todo \/ Named(r)

\* The keys of schema i have been classified.
Classified(i) == stage = "done" \/ (stage = "edges" /\ i < at)

KeptInv ==
    \A k \in stable, i \in DOMAIN schemas :
        {k.src, k.tgt} \subseteq Exported /\ k.src.ns = schemas[i] /\ Classified(i) =>
            EdgesOf(k) \subseteq edges

IInv == CatalogInv /\ LoopInv /\ ListedInv /\ KeptInv

-----------------------------------------------------------------------------
LEMMA SplitSchemasType ==
  ASSUME NEW parts \in Configs
  PROVE  BuildExtractor(parts).schemas \in Seq(STRING)
<1>1. parts \in Seq(STRING)
  BY CatalogAssumption
<1>2. SplitSchemas(parts) \in Seq(STRING)
  BY <1>1, WhereMembers DEF SplitSchemas
<1> QED BY <1>2 DEF BuildExtractor

LEMMA InitIInv == Init => IInv
<1> SUFFICES ASSUME Init PROVE IInv
  OBVIOUS
<1>1. CatalogInv
  BY CatalogAssumption DEF Init, CatalogInv, Holds
<1>2. LoopInv
  <2>1. PICK parts \in Configs : /\ schemas = BuildExtractor(parts).schemas
                                /\ stage = BuildExtractor(parts).stage
    BY DEF Init
  <2>2. schemas \in Seq(STRING)
    BY <2>1, SplitSchemasType
  <2>3. stage = "failed" \/ (stage = "list" /\ schemas # << >>)
    BY <2>1 DEF BuildExtractor
  <2>4. at = 1
    BY DEF Init
  <2>5. schemas # << >> => Len(schemas) >= 1
    BY <2>2
  <2> QED BY <2>2, <2>3, <2>4, <2>5 DEF LoopInv, Stages
<1>3. stage \in {"list", "failed"} /\ at = 1
  BY DEF Init, BuildExtractor
<1>4. ListedInv
  BY <1>2, <1>3 DEF ListedInv, Read, LoopInv
<1>5. KeptInv
  BY <1>3 DEF KeptInv, Classified
<1> QED BY <1>1, <1>2, <1>4, <1>5 DEF IInv

\* A relation that a stable key joins exists.
LEMMA PinnedExist ==
  ASSUME CatalogInv, NEW r, Pinned(r)
  PROVE  r \in rels \ Partitioned
BY DEF CatalogInv, Pinned, Exported

\* In every step of the extractor the catalog and the list of schemas stay.
LEMMA ExtractorStep ==
  ASSUME Extract \/ Fail, CatalogInv
  PROVE  UNCHANGED <<rels, cols, indexes, keys, ddl, schemas, stable>> /\ CatalogInv'
BY DEF Extract, Fail, ListTables, ExtractFields, ExtractAccessPaths, NextSchema, ExtractEdges,
       catalog, CatalogInv

LEMMA NamedStays ==
  ASSUME schemas' = schemas, entities \subseteq entities', NEW r, Named(r)
  PROVE  Named(r)'
BY DEF Named, QualifiedName, Multi

-----------------------------------------------------------------------------
LEMMA ListTablesInv == IInv /\ ListTables => IInv'
<1> SUFFICES ASSUME IInv, ListTables PROVE IInv'
  OBVIOUS
<1>1. UNCHANGED <<rels, cols, indexes, keys, ddl, schemas, stable>> /\ CatalogInv'
  BY ExtractorStep DEF Extract, IInv
<1>2. /\ stage = "list" /\ stage' = "fields" /\ at' = at /\ entities' = entities /\ edges' = edges
      /\ todo' = {r \in rels \ Partitioned : r.ns = schemas[at]}
  BY DEF ListTables, result
<1>3. LoopInv'
  BY <1>1, <1>2 DEF IInv, LoopInv, Stages
<1>4. ListedInv'
  <2> SUFFICES ASSUME NEW r \in Rels, NEW i \in DOMAIN schemas, Pinned(r)', r.ns = schemas[i]
               PROVE  /\ Read(i)' => Named(r)'
                      /\ i = at => r \in todo'
    BY <1>1, <1>2 DEF ListedInv
  <2>1. Pinned(r)
    BY <1>1 DEF Pinned, Exported
  <2>2. Read(i)' => Named(r)'
    BY <1>1, <1>2, <2>1, NamedStays DEF Read, ListedInv, IInv
  <2>3. i = at => r \in todo'
    BY <1>2, <2>1, PinnedExist DEF IInv
  <2> QED BY <2>2, <2>3
<1>5. KeptInv'
  BY <1>2 DEF KeptInv, Classified
<1> QED BY <1>1, <1>3, <1>4, <1>5 DEF IInv

LEMMA ExtractFieldsInv == IInv /\ ExtractFields => IInv'
<1> SUFFICES ASSUME IInv, ExtractFields PROVE IInv'
  OBVIOUS
<1>1. UNCHANGED <<rels, cols, indexes, keys, ddl, schemas, stable>> /\ CatalogInv'
  BY ExtractorStep DEF Extract, IInv
<1>2. stage = "fields" /\ stage' = "paths" /\ UNCHANGED <<at, todo, entities, edges>>
  BY DEF ExtractFields, result
<1>3. LoopInv'
  BY <1>1, <1>2 DEF IInv, LoopInv, Stages
<1>4. ListedInv'
  BY <1>1, <1>2 DEF IInv, ListedInv, Read, Named, Pinned, Exported, QualifiedName, Multi
<1>5. KeptInv'
  BY <1>2 DEF KeptInv, Classified
<1> QED BY <1>1, <1>3, <1>4, <1>5 DEF IInv

LEMMA ExtractAccessPathsInv == IInv /\ ExtractAccessPaths => IInv'
<1> SUFFICES ASSUME IInv, ExtractAccessPaths PROVE IInv'
  OBVIOUS
<1>1. UNCHANGED <<rels, cols, indexes, keys, ddl, schemas, stable>> /\ CatalogInv'
  BY ExtractorStep DEF Extract, IInv
<1>2. stage = "paths" /\ stage' = "fields" /\ at' = at /\ todo' = todo \ {tbl.rel}
  BY DEF ExtractAccessPaths
<1>3. LoopInv'
  BY <1>1, <1>2 DEF IInv, LoopInv, Stages
<1>4. entities \subseteq entities' /\ \A r : r = tbl.rel => Named(r)'
  <2> DEFINE ent == [at |-> Cardinality(entities) + 1, name |-> QualifiedName(tbl.rel),
                     fields |-> tbl.fields,
                     paths |-> IF tbl.rel \in rels THEN PathsOf(tbl.rel) ELSE {}]
  <2>1. ent \in entities' /\ ent.name = QualifiedName(tbl.rel)
    BY DEF ExtractAccessPaths
  <2>2. ASSUME NEW r, r = tbl.rel PROVE Named(r)'
    BY <1>1, <2>1, <2>2 DEF Named, QualifiedName, Multi
  <2> QED BY <2>2 DEF ExtractAccessPaths
<1>5. ListedInv'
  <2> SUFFICES ASSUME NEW r \in Rels, NEW i \in DOMAIN schemas, Pinned(r)', r.ns = schemas[i]
               PROVE  /\ Read(i)' => Named(r)'
                      /\ i = at => r \in todo' \/ Named(r)'
    BY <1>1, <1>2 DEF ListedInv
  <2>1. Pinned(r)
    BY <1>1 DEF Pinned, Exported
  <2>2. Read(i)' => Read(i)
    BY <1>2 DEF Read
  <2>3. Named(r) => Named(r)'
    BY <1>1, <1>4, NamedStays
  <2>4. (Read(i) => Named(r)) /\ (i = at => r \in todo \/ Named(r))
    BY <1>2, <2>1 DEF IInv, ListedInv
  <2>5. r \in todo => r \in todo' \/ Named(r)'
    BY <1>2, <1>4
  <2> QED BY <2>2, <2>3, <2>4, <2>5
<1>6. KeptInv'
  BY <1>2 DEF KeptInv, Classified
<1> QED BY <1>1, <1>3, <1>5, <1>6 DEF IInv

LEMMA NextSchemaInv == IInv /\ NextSchema => IInv'
<1> SUFFICES ASSUME IInv, NextSchema PROVE IInv'
  OBVIOUS
<1>1. UNCHANGED <<rels, cols, indexes, keys, ddl, schemas, stable>> /\ CatalogInv'
  BY ExtractorStep DEF Extract, IInv
<1>2. /\ stage = "fields" /\ todo = {} /\ todo' = todo
      /\ UNCHANGED <<entities, edges>>
      /\ \/ at < Len(schemas) /\ stage' = "list" /\ at' = at + 1
         \/ ~(at < Len(schemas)) /\ stage' = "edges" /\ at' = 1
  BY DEF NextSchema, result
<1>3. at \in Nat /\ at >= 1 /\ at <= Len(schemas) /\ Len(schemas) \in Nat
      /\ DOMAIN schemas = 1..Len(schemas)
  BY <1>2 DEF IInv, LoopInv
<1>4. LoopInv'
  BY <1>1, <1>2, <1>3 DEF IInv, LoopInv, Stages
<1>5. ListedInv'
  <2> SUFFICES ASSUME NEW r \in Rels, NEW i \in DOMAIN schemas, Pinned(r)', r.ns = schemas[i],
                      Read(i)'
               PROVE  Named(r)'
    BY <1>1, <1>2 DEF ListedInv
  <2>1. Pinned(r)
    BY <1>1 DEF Pinned, Exported
  <2>2. i <= at
    BY <1>2, <1>3 DEF Read
  <2>3. Named(r)
    BY <1>2, <1>3, <2>1, <2>2 DEF IInv, ListedInv, Read
  <2> QED BY <1>1, <1>2, <2>3, NamedStays
<1>6. KeptInv'
  BY <1>1, <1>2, <1>3 DEF KeptInv, Classified
<1> QED BY <1>1, <1>4, <1>5, <1>6 DEF IInv

\* The step that matters: both names of a stable key are known.
LEMMA ExtractEdgesInv == IInv /\ ExtractEdges => IInv'
<1> SUFFICES ASSUME IInv, ExtractEdges PROVE IInv'
  OBVIOUS
<1>1. UNCHANGED <<rels, cols, indexes, keys, ddl, schemas, stable>> /\ CatalogInv'
  BY ExtractorStep DEF Extract, IInv
<1>2. /\ stage = "edges" /\ entities' = entities /\ todo' = todo
      /\ \/ at < Len(schemas) /\ stage' = stage /\ at' = at + 1
         \/ ~(at < Len(schemas)) /\ stage' = "done" /\ at' = at
  BY DEF ExtractEdges
<1>3. at \in Nat /\ at >= 1 /\ at <= Len(schemas) /\ Len(schemas) \in Nat
      /\ DOMAIN schemas = 1..Len(schemas)
  BY <1>2 DEF IInv, LoopInv
<1>4. LoopInv'
  BY <1>1, <1>2, <1>3 DEF IInv, LoopInv, Stages
<1>5. ListedInv'
  <2> SUFFICES ASSUME NEW r \in Rels, NEW i \in DOMAIN schemas, Pinned(r)', r.ns = schemas[i]
               PROVE  Named(r)'
    BY <1>1, <1>2 DEF ListedInv
  <2>1. Pinned(r)
    BY <1>1 DEF Pinned, Exported
  <2>2. Named(r)
    BY <1>2, <2>1 DEF IInv, ListedInv, Read
  <2> QED BY <1>1, <1>2, <2>2, NamedStays
<1>6. KeptInv'
  <2> SUFFICES ASSUME NEW k \in stable, NEW i \in DOMAIN schemas,
                      {k.src, k.tgt} \subseteq Exported, k.src.ns = schemas[i], Classified(i)'
               PROVE  EdgesOf(k)' \subseteq edges'
    BY <1>1 DEF KeptInv, Exported
  <2>1. EdgesOf(k)' = EdgesOf(k)
    BY <1>1 DEF EdgesOf, QualifiedName, Multi
  <2>2. edges \subseteq edges'
    BY DEF ExtractEdges
  <2>3. CASE i < at
    BY <1>2, <2>1, <2>2, <2>3 DEF IInv, KeptInv, Classified
  <2>4. CASE i = at
    <3>1. k \in keys /\ k.src \in Rels /\ k.tgt \in Rels
      BY CatalogAssumption DEF IInv, CatalogInv
    <3>2. Pinned(k.src) /\ Pinned(k.tgt)
      BY DEF Pinned
    <3>3. PICK j \in DOMAIN schemas : k.tgt.ns = schemas[j]
      BY DEF Exported, ToSetOf
    <3>4. Named(k.src) /\ Named(k.tgt)
      BY <1>2, <3>1, <3>2, <3>3 DEF IInv, ListedInv, Read
    <3>5. {QualifiedName(k.src), QualifiedName(k.tgt)} \subseteq NamesOf(Export)
      BY <3>4 DEF Named, NamesOf, Export
    <3>6. \A e \in EdgesOf(k) : {e.from, e.to} \subseteq NamesOf(Export)
      BY <3>5 DEF EdgesOf
    <3>7. k.src.ns = schemas[at]
      BY <2>4
    <3>8. EdgesOf(k) \subseteq UNION {EdgesOf(l) : l \in {l \in keys : l.src.ns = schemas[at]}}
      BY <3>1, <3>7
    <3>9. {e \in UNION {EdgesOf(l) : l \in {l \in keys : l.src.ns = schemas[at]}} :
              {e.from, e.to} \subseteq NamesOf(Export)} \subseteq edges'
      BY DEF ExtractEdges
    <3> QED BY <2>1, <3>6, <3>8, <3>9
  <2>5. i <= at
    BY <1>2, <1>3 DEF Classified
  <2> QED BY <1>3, <2>3, <2>4, <2>5
<1> QED BY <1>1, <1>4, <1>5, <1>6 DEF IInv

LEMMA FailInv == IInv /\ Fail => IInv'
<1> SUFFICES ASSUME IInv, Fail PROVE IInv'
  OBVIOUS
<1>1. UNCHANGED <<rels, cols, indexes, keys, ddl, schemas, stable>> /\ CatalogInv'
  BY ExtractorStep DEF IInv
<1>2. stage' = "failed" /\ at' = at
  BY DEF Fail
<1>3. LoopInv'
  BY <1>1, <1>2 DEF IInv, LoopInv, Stages
<1>4. ListedInv' /\ KeptInv'
  BY <1>2 DEF ListedInv, KeptInv, Classified
<1> QED BY <1>1, <1>3, <1>4 DEF IInv

\* What other sessions do can only end the stability of keys.
LEMMA OtherSessionsInv == IInv /\ OtherSessions => IInv'
<1> SUFFICES ASSUME IInv, OtherSessions PROVE IInv'
  OBVIOUS
<1>1. UNCHANGED extractor /\ stable' = stable \cap keys' /\ ddl' \in 0..MaxDDL
  <2>1. Alter
    BY DEF OtherSessions, DropRelation, CreateRelation, AddReference, DropColumn
  <2> QED BY <2>1, CatalogAssumption DEF Alter, IInv, CatalogInv
<1>2. CatalogInv'
  <2>1. CASE DropRelation
    BY <1>1, <2>1 DEF DropRelation, IInv, CatalogInv
  <2>2. CASE CreateRelation
    BY <1>1, <2>2 DEF CreateRelation, IInv, CatalogInv
  <2>3. CASE AddReference
    BY <1>1, <2>3 DEF AddReference, IInv, CatalogInv
  <2>4. CASE DropColumn
    BY <1>1, <2>4 DEF DropColumn, IInv, CatalogInv
  <2> QED BY <2>1, <2>2, <2>3, <2>4 DEF OtherSessions
<1>3. UNCHANGED <<schemas, stage, at, todo, entities, edges>> /\ stable' \subseteq stable
  BY <1>1 DEF extractor, result
<1>4. LoopInv'
  BY <1>3 DEF IInv, LoopInv
<1>5. ListedInv'
  <2>1. \A r \in Rels : Pinned(r)' => Pinned(r)
    BY <1>3 DEF Pinned, Exported
  <2>2. \A r \in Rels : Named(r)' <=> Named(r)
    BY <1>3 DEF Named, QualifiedName, Multi
  <2> QED BY <1>3, <2>1, <2>2 DEF IInv, ListedInv, Read
<1>6. KeptInv'
  BY <1>3 DEF IInv, KeptInv, Classified, Exported, EdgesOf, QualifiedName, Multi
<1> QED BY <1>2, <1>4, <1>5, <1>6 DEF IInv

LEMMA Inductive == IInv /\ [Next]_vars => IInv'
<1> SUFFICES ASSUME IInv, [Next]_vars PROVE IInv'
  OBVIOUS
<1>1. CASE UNCHANGED vars
  BY <1>1 DEF vars, catalog, extractor, result, IInv, CatalogInv, LoopInv, ListedInv, KeptInv,
              Pinned, Named, Read, Classified, Exported, EdgesOf, QualifiedName, Multi
<1>2. CASE Extract
  BY <1>2, ListTablesInv, ExtractFieldsInv, ExtractAccessPathsInv, NextSchemaInv, ExtractEdgesInv
     DEF Extract
<1> QED BY <1>1, <1>2, FailInv, OtherSessionsInv DEF Next, Stop

-----------------------------------------------------------------------------
\* A foreign key that is there during the whole extraction, between relations of
\* the exported schemas, is in the export however the catalog changes meanwhile.
THEOREM StableKept == Spec => []StableKeysKept
<1>1. IInv => StableKeysKept
  <2> SUFFICES ASSUME IInv, stage = "done", NEW k \in stable, {k.src, k.tgt} \subseteq Exported
               PROVE  EdgesOf(k) \subseteq edges
    BY DEF StableKeysKept
  <2>1. PICK i \in DOMAIN schemas : k.src.ns = schemas[i]
    BY DEF Exported, ToSetOf
  <2> QED BY <2>1 DEF IInv, KeptInv, Classified
<1> QED BY InitIInv, Inductive, <1>1, PTL DEF Spec

\* The entities are numbered from 1 on, so at most by their number.
Numbered ==
    /\ todo \subseteq Rels
    /\ IsFiniteSet(entities)
    /\ \A ent \in entities : ent.at \in 1..Cardinality(entities)

LEMMA InitNumbered == Init => Numbered
BY FS_EmptySet DEF Init, Numbered

LEMMA NumberedStep == IInv /\ Numbered /\ [Next]_vars => Numbered'
<1> SUFFICES ASSUME IInv, Numbered, [Next]_vars PROVE Numbered'
  OBVIOUS
<1>1. CASE ListTables
  BY <1>1 DEF ListTables, result, Numbered, IInv, CatalogInv
<1>2. CASE ExtractAccessPaths
  <2> DEFINE new == [at |-> Cardinality(entities) + 1, name |-> QualifiedName(tbl.rel),
                     fields |-> tbl.fields,
                     paths |-> IF tbl.rel \in rels THEN PathsOf(tbl.rel) ELSE {}]
  <2>1. entities' = entities \cup {new} /\ todo' \subseteq todo
    BY <1>2 DEF ExtractAccessPaths
  <2>2. Cardinality(entities) \in Nat /\ new.at = Cardinality(entities) + 1
    BY FS_CardinalityType DEF Numbered
  <2>3. new \notin entities
    BY <2>2 DEF Numbered
  <2> HIDE DEF new
  <2>4. IsFiniteSet(entities') /\ Cardinality(entities') = Cardinality(entities) + 1
    BY <2>1, <2>3, FS_AddElement DEF Numbered
  <2>5. \A ent \in entities' : ent.at \in 1..Cardinality(entities')
    <3> TAKE ent \in entities'
    <3>1. CASE ent = new
      BY <2>2, <2>4, <3>1
    <3>2. CASE ent \in entities
      <4>1. ent.at \in 1..Cardinality(entities)
        BY <3>2 DEF Numbered
      <4> QED BY <2>2, <2>4, <4>1
    <3> QED BY <2>1, <3>1, <3>2
  <2> QED BY <2>1, <2>4, <2>5 DEF Numbered
<1>3. CASE ExtractFields \/ NextSchema \/ ExtractEdges \/ Fail \/ OtherSessions \/ UNCHANGED vars
  <2>1. todo' = todo /\ entities' = entities
    BY <1>3 DEF ExtractFields, NextSchema, ExtractEdges, Fail, OtherSessions, DropRelation,
                CreateRelation, AddReference, DropColumn, Alter, vars, extractor, result
  <2> QED BY <2>1 DEF Numbered
<1> QED BY <1>1, <1>2, <1>3 DEF Next, Extract, Stop

\* The extractor's state has its type: the loop never leaves the list of schemas.
THEOREM TypeCorrect == Spec => []TypeOK
<1>1. IInv /\ Numbered => TypeOK
  BY DEF IInv, CatalogInv, LoopInv, Numbered, TypeOK, Stages
<1> QED BY InitIInv, Inductive, InitNumbered, NumberedStep, <1>1, PTL DEF Spec

-----------------------------------------------------------------------------
(* No two entities share a name.  A relation can become an entity only     *)
(* while its schema is read, and qualifiedName does not confuse relations  *)
(* that are exported together.                                             *)

\* The relation has been read already.
Done(r) ==
    \E j \in DOMAIN schemas :
        /\ r.ns = schemas[j]
        /\ \/ Read(j)
           \/ stage \in {"fields", "paths"} /\ j = at /\ r \notin todo

NamesInv ==
    /\ stage \in {"fields", "paths"} => todo \subseteq {r \in Rels \ Partitioned : r.ns = schemas[at]}
    /\ stage = "paths" => tbl.rel \in todo
    /\ \A ent \in entities : \E r \in Exported :
          ent.name = QualifiedName(r) /\ (stage # "failed" => Done(r))
    /\ \A a, b \in entities : a.name = b.name =>
          a = b \/ \E r \in Exported : a.name = QualifiedName(r) /\ r.ns \in ListedTwice

EdgesInv ==
    \A e \in edges : /\ << >> \notin {e.fromField, e.toField}
                     /\ {e.from, e.to} \subseteq NamesOf(Export)

LEMMA QualifiedNameInjective ==
  ASSUME LoopInv, NEW r \in Exported, NEW s \in Exported, QualifiedName(r) = QualifiedName(s)
  PROVE  r = s
<1>1. r.name = s.name /\ (Multi => r.ns = s.ns)
  BY DEF QualifiedName
<1>2. ~Multi => r.ns = s.ns
  <2>1. PICK i \in DOMAIN schemas, j \in DOMAIN schemas : r.ns = schemas[i] /\ s.ns = schemas[j]
    BY DEF Exported, ToSetOf
  <2>2. DOMAIN schemas = 1..Len(schemas) /\ Len(schemas) \in Nat
    BY DEF LoopInv
  <2> QED BY <2>1, <2>2 DEF Multi
<1> QED BY <1>1, <1>2, CatalogAssumption DEF Exported

LEMMA EdgesHaveColumns ==
  ASSUME NEW k \in CandidateKeys, NEW e \in EdgesOf(k)
  PROVE  << >> \notin {e.fromField, e.toField}
<1>1. PICK i \in DOMAIN k.srcCols : e.fromField = k.srcCols[i] /\ e.toField = k.tgtCols[i]
  BY DEF EdgesOf
<1>2. /\ e.fromField \in ToSetOf(k.srcCols)
      /\ e.toField \in ToSetOf(k.tgtCols)
  BY <1>1, CatalogAssumption DEF ToSetOf
<1> QED BY <1>2, CatalogAssumption

\* A step that adds no entity keeps NamesInv if it forgets no relation that was read.
LEMMA NamesKept ==
  ASSUME NamesInv, schemas' = schemas, entities' = entities, stage' # "failed" => stage # "failed",
         stage' # "failed" => \A r \in Exported : Done(r) => Done(r)',
         stage' \in {"fields", "paths"} =>
            todo' \subseteq {r \in Rels \ Partitioned : r.ns = schemas'[at']},
         stage' = "paths" => tbl'.rel \in todo'
  PROVE  NamesInv'
<1>1. /\ Exported' = Exported /\ ListedTwice' = ListedTwice
      /\ \A r : QualifiedName(r)' = QualifiedName(r)
  BY DEF Exported, ListedTwice, QualifiedName, Multi
<1>2. \A ent \in entities' : \E r \in Exported' :
         ent.name = QualifiedName(r)' /\ (stage' # "failed" => Done(r)')
  BY <1>1 DEF NamesInv
<1>3. \A a, b \in entities' : a.name = b.name =>
         a = b \/ \E r \in Exported' : a.name = QualifiedName(r)' /\ r.ns \in ListedTwice'
  BY <1>1 DEF NamesInv
<1> QED BY <1>2, <1>3 DEF NamesInv

LEMMA NamesStep == IInv /\ NamesInv /\ [Next]_vars => NamesInv'
<1> SUFFICES ASSUME IInv, NamesInv, [Next]_vars PROVE NamesInv'
  OBVIOUS
<1>1. CASE ListTables
  <2>1. /\ UNCHANGED <<schemas, entities, at>> /\ stage = "list" /\ stage' = "fields"
        /\ todo' = {r \in rels \ Partitioned : r.ns = schemas[at]}
    BY <1>1 DEF ListTables, result
  <2>2. todo' \subseteq {r \in Rels \ Partitioned : r.ns = schemas'[at']}
    BY <2>1 DEF IInv, CatalogInv
  <2> QED BY <2>1, <2>2, NamesKept DEF Done, Read
<1>2. CASE ExtractFields
  <2>1. /\ UNCHANGED <<schemas, entities, at, todo>> /\ stage = "fields" /\ stage' = "paths"
        /\ tbl'.rel \in todo
    BY <1>2 DEF ExtractFields, result
  <2> QED BY <2>1, NamesKept DEF Done, Read, NamesInv
<1>3. CASE ExtractAccessPaths
  <2> DEFINE t == tbl.rel
             new == [at |-> Cardinality(entities) + 1, name |-> QualifiedName(t),
                     fields |-> tbl.fields, paths |-> IF t \in rels THEN PathsOf(t) ELSE {}]
  <2>1. /\ UNCHANGED <<schemas, at>> /\ stage = "paths" /\ stage' = "fields"
        /\ entities' = entities \cup {new} /\ todo' = todo \ {t}
    BY <1>3 DEF ExtractAccessPaths
  <2>2. new.name = QualifiedName(t) /\ t \in todo /\ t \in Rels \ Partitioned /\ t.ns = schemas[at]
    BY <2>1 DEF NamesInv
  <2>3. at \in DOMAIN schemas /\ at \in Nat /\ DOMAIN schemas = 1..Len(schemas)
    BY <2>1 DEF IInv, LoopInv
  <2>4. t \in Exported
    BY <2>2, <2>3 DEF Exported, ToSetOf
  <2>5. /\ Exported' = Exported /\ ListedTwice' = ListedTwice
        /\ \A r : QualifiedName(r)' = QualifiedName(r)
    BY <2>1 DEF Exported, ListedTwice, QualifiedName, Multi
  <2>6. \A r \in Exported : Done(r) \/ r = t => Done(r)'
    BY <2>1, <2>2, <2>3 DEF Done, Read
  <2> HIDE DEF new, t
  <2>7. \A ent \in entities' : \E r \in Exported : ent.name = QualifiedName(r) /\ Done(r)'
    BY <2>1, <2>2, <2>4, <2>6 DEF NamesInv
  <2>8. ASSUME NEW a \in entities, a.name = new.name PROVE t.ns \in ListedTwice
    <3>1. PICK r \in Exported : a.name = QualifiedName(r) /\ Done(r)
      BY <2>1 DEF NamesInv
    <3>2. r = t
      BY <2>2, <2>4, <2>8, <3>1, QualifiedNameInjective DEF IInv
    <3>3. PICK j \in DOMAIN schemas : t.ns = schemas[j] /\ j # at
      BY <2>1, <2>2, <2>3, <3>1, <3>2 DEF Done, Read
    <3> QED BY <2>2, <2>3, <3>3 DEF ListedTwice, ToSetOf
  <2>9. \A a, b \in entities' : a.name = b.name =>
           a = b \/ \E r \in Exported : a.name = QualifiedName(r) /\ r.ns \in ListedTwice
    BY <2>1, <2>2, <2>4, <2>8 DEF NamesInv
  <2>10. todo' \subseteq {r \in Rels \ Partitioned : r.ns = schemas'[at']}
    BY <2>1 DEF NamesInv
  <2> QED BY <2>1, <2>5, <2>7, <2>9, <2>10 DEF NamesInv
<1>4. CASE NextSchema
  <2>1. /\ UNCHANGED <<schemas, entities>> /\ stage = "fields" /\ todo = {}
        /\ \/ stage' = "list" /\ at' = at + 1
           \/ stage' = "edges" /\ at' = 1
    BY <1>4 DEF NextSchema, result
  <2>2. at \in Nat /\ DOMAIN schemas = 1..Len(schemas)
    BY DEF IInv, LoopInv
  <2>3. \A r \in Exported : Done(r) => Done(r)'
    BY <2>1, <2>2 DEF Done, Read
  <2> QED BY <2>1, <2>3, NamesKept
<1>5. CASE ExtractEdges
  <2>1. UNCHANGED <<schemas, entities>> /\ stage = "edges" /\ stage' \in {"edges", "done"}
    BY <1>5 DEF ExtractEdges
  <2>2. \A r \in Exported : Done(r) => Done(r)'
    BY <2>1 DEF Done, Read
  <2> QED BY <2>1, <2>2, NamesKept
<1>6. CASE Fail
  <2>1. UNCHANGED <<schemas, entities>> /\ stage' = "failed" /\ stage # "failed"
    BY <1>6 DEF Fail, result
  <2> QED BY <2>1, NamesKept
<1>7. CASE OtherSessions \/ UNCHANGED vars
  <2>1. UNCHANGED <<schemas, stage, at, todo, tbl, entities>>
    BY <1>7 DEF OtherSessions, DropRelation, CreateRelation, AddReference, DropColumn, Alter,
                vars, extractor, result
  <2>2. \A r \in Exported : Done(r) => Done(r)'
    BY <2>1 DEF Done, Read
  <2> QED BY <2>1, <2>2, NamesKept DEF NamesInv
<1> QED BY <1>1, <1>2, <1>3, <1>4, <1>5, <1>6, <1>7 DEF Next, Extract, Stop

LEMMA EdgesStep == IInv /\ EdgesInv /\ [Next]_vars => EdgesInv'
<1> SUFFICES ASSUME IInv, EdgesInv, [Next]_vars PROVE EdgesInv'
  OBVIOUS
<1>1. CASE ExtractEdges
  <2> DEFINE found == UNION {EdgesOf(k) : k \in {k \in keys : k.src.ns = schemas[at]}}
  <2>1. entities' = entities
        /\ edges' = edges \cup {e \in found : {e.from, e.to} \subseteq NamesOf(Export)}
    BY <1>1 DEF ExtractEdges
  <2>2. NamesOf(Export)' = NamesOf(Export)
    BY <2>1 DEF NamesOf, Export
  <2>3. \A e \in found : << >> \notin {e.fromField, e.toField}
    BY EdgesHaveColumns DEF IInv, CatalogInv
  <2> HIDE DEF found
  <2> QED BY <2>1, <2>2, <2>3 DEF EdgesInv
<1>2. CASE ~ExtractEdges
  <2>1. edges' = edges /\ entities \subseteq entities'
    BY <1>2 DEF Next, Stop, OtherSessions, DropRelation, CreateRelation, AddReference, DropColumn,
                Alter, Extract, Fail, ListTables, ExtractFields, ExtractAccessPaths, NextSchema,
                vars, extractor, result
  <2>2. NamesOf(Export) \subseteq NamesOf(Export)'
    BY <2>1 DEF NamesOf, Export
  <2> QED BY <2>1, <2>2 DEF EdgesInv
<1> QED BY <1>1, <1>2

LEMMA InitNames == Init => NamesInv /\ EdgesInv
BY DEF Init, BuildExtractor, NamesInv, EdgesInv

LEMMA ValidIfOnce ==
  ASSUME NamesInv, EdgesInv, \A a, b \in entities : a.name = b.name => a = b
  PROVE  Validate(Export)
<1>1. Export.version # "" /\ Export.entities = entities /\ Export.edges = edges
  BY DEF Export
<1>2. << >> \notin NamesOf(Export)
  <2>1. \A r : QualifiedName(r) # << >>
    BY DEF QualifiedName
  <2>2. \A ent \in entities : ent.name # << >>
    BY <2>1 DEF NamesInv
  <2> QED BY <1>1, <2>2 DEF NamesOf
<1> QED BY <1>1, <1>2 DEF Validate, EdgesInv

\* Whatever other sessions do, an export whose schemas are listed once each passes
\* the basic validation: no duplicate entity and no edge to an entity it lacks.
\* (The first half of ExportValidates.)
THEOREM AlwaysValid == Spec => [](stage = "done" /\ ListedTwice = {} => Validate(Export))
<1>1. IInv /\ NamesInv /\ EdgesInv => (stage = "done" /\ ListedTwice = {} => Validate(Export))
  BY ValidIfOnce DEF NamesInv
<1> QED BY InitIInv, Inductive, InitNames, NamesStep, EdgesStep, <1>1, PTL DEF Spec

-----------------------------------------------------------------------------
(* The columns of an index come through a text array.  Each kind of        *)
(* character takes parseTextArray from one state to the next (ReadEscape,  *)
(* ReadQuote, ReadComma, ReadPlain), each element from nothing read to the *)
(* element read (ReadsElement), and the whole array to the list of names   *)
(* (ReadBack).                                                             *)

\* The provers do not see that a literal is a string.
Characters == STRING \cup {"{", "}", ",", "\"", "\\"}
Words == Seq(Characters)
Readers == [found : Seq(Words), current : Words, quoted : BOOLEAN, escaped : BOOLEAN]

\* parseTextArray between two characters, with nothing escaped.
Reader(found, current, quoted) ==
    [found |-> found, current |-> current, quoted |-> quoted, escaped |-> FALSE]

LEMMA FoundType ==
  ASSUME NEW acc \in Readers
  PROVE  Found(acc) \in Seq(Words)
BY DEF Found, Readers

\* What each kind of character does.
LEMMA ReadEscape ==
  ASSUME NEW found \in Seq(Words), NEW current \in Words, NEW quoted \in BOOLEAN,
         NEW ch \in Characters
  PROVE  /\ ReadChar(Reader(found, current, quoted), "\\") = [Reader(found, current, quoted) EXCEPT !.escaped = TRUE]
         /\ ReadChar([Reader(found, current, quoted) EXCEPT !.escaped = TRUE], ch) = Reader(found, Append(current, ch), quoted)
BY DEF ReadChar, Reader

LEMMA ReadQuote ==
  ASSUME NEW found \in Seq(Words), NEW current \in Words, NEW quoted \in BOOLEAN
  PROVE  ReadChar(Reader(found, current, quoted), "\"") = Reader(found, current, ~quoted)
BY DEF ReadChar, Reader

LEMMA ReadComma ==
  ASSUME NEW found \in Seq(Words), NEW current \in Words
  PROVE  ReadChar(Reader(found, current, FALSE), ",")
            = Reader(IF current = Null THEN found ELSE Append(found, current), << >>, FALSE)
BY DEF ReadChar, Reader, Found

LEMMA ReadPlain ==
  ASSUME NEW found \in Seq(Words), NEW current \in Words, NEW quoted \in BOOLEAN,
         NEW ch \in Characters, ch \notin {"\"", "\\"}, quoted \/ ch # ","
  PROVE  ReadChar(Reader(found, current, quoted), ch) = Reader(found, Append(current, ch), quoted)
BY DEF ReadChar, Reader

LEMMA ReaderType ==
  ASSUME NEW found \in Seq(Words), NEW current \in Words, NEW quoted \in BOOLEAN
  PROVE  /\ Reader(found, current, quoted) \in Readers
         /\ [Reader(found, current, quoted) EXCEPT !.escaped = TRUE] \in Readers
BY DEF Reader, Readers

\* From one state to another by reading a text.
Reading(f, s, text) ==
    /\ f \in [0..Len(text) -> Readers]
    /\ f[0] = s
    /\ \A k \in 1..Len(text) : f[k] = ReadChar(f[k - 1], text[k])

ReadsTo(s, text, t) == \E f : Reading(f, s, text) /\ f[Len(text)] = t

LEMMA ReadsNothing ==
  ASSUME NEW s \in Readers
  PROVE  ReadsTo(s, << >>, s)
<1> DEFINE f == [k \in 0..0 |-> s]
<1>1. Reading(f, s, << >>) /\ f[Len(<< >>)] = s
  BY DEF Reading
<1> HIDE DEF f
<1> QED BY <1>1 DEF ReadsTo

LEMMA ReadsOne ==
  ASSUME NEW s \in Readers, NEW ch \in Characters, ReadChar(s, ch) \in Readers
  PROVE  ReadsTo(s, <<ch>>, ReadChar(s, ch))
<1> DEFINE t == ReadChar(s, ch)
           f == [k \in 0..1 |-> IF k = 0 THEN s ELSE t]
<1> HIDE DEF t
<1>1. f \in [0..1 -> Readers] /\ f[0] = s /\ f[1] = t
  BY DEF t
<1> HIDE DEF f
<1>2. \A k \in 1..1 : k = 1 /\ k - 1 = 0
  OBVIOUS
<1>3. Len(<<ch>>) = 1 /\ <<ch>>[1] = ch
  OBVIOUS
<1>4. Reading(f, s, <<ch>>)
  BY <1>1, <1>2, <1>3 DEF Reading, t
<1> QED BY <1>1, <1>3, <1>4 DEF ReadsTo, t

LEMMA ReadsOn ==
  ASSUME NEW a \in Words, NEW b \in Words, NEW s, NEW t, NEW u,
         ReadsTo(s, a, t), ReadsTo(t, b, u)
  PROVE  ReadsTo(s, a \o b, u)
<1> DEFINE N == Len(a)
           M == Len(b)
<1>1. PICK f : Reading(f, s, a) /\ f[N] = t
  BY DEF ReadsTo
<1>2. PICK g : Reading(g, t, b) /\ g[M] = u
  BY DEF ReadsTo
<1> DEFINE h == [k \in 0..N + M |-> IF k <= N THEN f[k] ELSE g[k - N]]
<1>3. N \in Nat /\ M \in Nat /\ Len(a \o b) = N + M
  OBVIOUS
<1>4. /\ \A k \in 1..N : (a \o b)[k] = a[k]
      /\ \A k \in 1..M : (a \o b)[N + k] = b[k]
  BY <1>3
<1>5. /\ f \in [0..N -> Readers] /\ f[0] = s /\ \A k \in 1..N : f[k] = ReadChar(f[k - 1], a[k])
      /\ g \in [0..M -> Readers] /\ g[0] = t /\ \A k \in 1..M : g[k] = ReadChar(g[k - 1], b[k])
  BY <1>1, <1>2 DEF Reading
<1> HIDE DEF N, M
<1>6. h \in [0..N + M -> Readers]
  <2>1. \A k \in 0..N + M : k <= N => k \in 0..N
    BY <1>3
  <2>2. \A k \in 0..N + M : ~(k <= N) => k - N \in 0..M
    BY <1>3
  <2> QED BY <1>5, <2>1, <2>2
<1>7. /\ \A k \in 0..N : h[k] = f[k]
      /\ \A k \in 0..M : h[N + k] = g[k]
  <2>1. \A k \in 0..N : k \in 0..N + M /\ k <= N
    BY <1>3
  <2>2. ASSUME NEW k \in 0..M PROVE h[N + k] = g[k]
    <3>1. N + k \in 0..N + M /\ (N + k) - N = k /\ N \in 0..N /\ N + 0 = N
      BY <1>3
    <3>2. CASE k = 0
      <4>1. N + k = N
        BY <1>3, <3>2
      <4>2. h[N + k] = f[N]
        BY <3>1, <4>1, <2>1
      <4> QED BY <1>1, <1>5, <3>2, <4>2 DEF N
    <3>3. CASE k # 0
      <4>1. ~(N + k <= N)
        BY <1>3, <3>3
      <4> QED BY <3>1, <4>1
    <3> QED BY <3>2, <3>3
  <2> QED BY <2>1, <2>2
<1> HIDE DEF h
<1>8. ASSUME NEW k \in 1..N + M
      PROVE  h[k] = ReadChar(h[k - 1], (a \o b)[k])
  <2>1. CASE k <= N
    <3>1. k \in 1..N /\ k \in 0..N /\ k - 1 \in 0..N
      BY <1>3, <2>1
    <3> QED BY <1>4, <1>5, <1>7, <3>1
  <2>2. CASE ~(k <= N)
    <3> DEFINE j == k - N
    <3>1. j \in 1..M /\ j \in 0..M /\ j - 1 \in 0..M /\ N + j = k /\ N + (j - 1) = k - 1
      BY <1>3, <2>2
    <3> HIDE DEF j
    <3>2. h[k] = g[j] /\ h[k - 1] = g[j - 1] /\ (a \o b)[k] = b[j]
      BY <1>4, <1>7, <3>1
    <3> QED BY <1>5, <3>1, <3>2
  <2> QED BY <2>1, <2>2
<1>9. h[0] = s /\ h[N + M] = u
  <2>1. 0 \in 0..N /\ M \in 0..M
    BY <1>3
  <2> QED BY <1>2, <1>5, <1>7, <2>1 DEF M
<1>10. Reading(h, s, a \o b)
  BY <1>3, <1>6, <1>8, <1>9 DEF Reading, N, M
<1> QED BY <1>3, <1>9, <1>10 DEF ReadsTo, N, M

\* The function the loop of parseTextArray computes.
Reads(r, inner) ==
    r = [n \in 0..Len(inner) |-> IF n = 0 THEN NothingRead ELSE ReadChar(r[n - 1], inner[n])]

LEMMA ParseCases ==
  ASSUME NEW text, ~(Len(text) <= 2), \E r : Reads(r, SubSeq(text, 2, Len(text) - 1))
  PROVE  \E r : /\ Reads(r, SubSeq(text, 2, Len(text) - 1))
                /\ ParseTextArray(text) = Found(r[Len(SubSeq(text, 2, Len(text) - 1))])
<1>1. Reads(CHOOSE r : Reads(r, SubSeq(text, 2, Len(text) - 1)), SubSeq(text, 2, Len(text) - 1))
  OBVIOUS
<1>2. ParseTextArray(text) =
        Found((CHOOSE r : Reads(r, SubSeq(text, 2, Len(text) - 1)))[Len(SubSeq(text, 2, Len(text) - 1))])
  BY DEF ParseTextArray, Reads
<1> QED BY <1>1, <1>2

\* The state the loop of parseTextArray ends in.
LEMMA ParseReads ==
  ASSUME NEW inner \in Words, inner # << >>, NEW t, ReadsTo(NothingRead, inner, t)
  PROVE  ParseTextArray(<<"{">> \o inner \o <<"}">>) = Found(t)
<1> DEFINE text == <<"{">> \o inner \o <<"}">>
           N == Len(inner)
<1>1. N \in Nat /\ N > 0
  BY DEF Words
<1>2. Len(text) = N + 2 /\ SubSeq(text, 2, Len(text) - 1) = inner
  <2>1. "{" \in Characters /\ "}" \in Characters
    BY DEF Characters
  <2>2. \A open, close \in Characters :
           LET between == <<open>> \o inner \o <<close>>
           IN  Len(between) = N + 2 /\ SubSeq(between, 2, Len(between) - 1) = inner
    BY Between DEF Words
  <2> HIDE DEF N
  <2> QED BY <2>1, <2>2
<1>3. PICK f : Reading(f, NothingRead, inner) /\ f[N] = t
  BY DEF ReadsTo
<1>4. f \in [0..N -> Readers] /\ f[0] = NothingRead /\ \A k \in 1..N : f[k] = ReadChar(f[k - 1], inner[k])
  BY <1>3 DEF Reading
<1>5. Reads(f, inner)
  <2>1. \A n \in 0..N : f[n] = IF n = 0 THEN NothingRead ELSE ReadChar(f[n - 1], inner[n])
    <3> TAKE n \in 0..N
    <3>1. n = 0 \/ n \in 1..N
      BY <1>1
    <3> QED BY <1>4, <3>1
  <2> QED BY <1>4, <2>1 DEF Reads
<1> HIDE DEF text
<1>6. PICK read : Reads(read, inner) /\ ParseTextArray(text) = Found(read[N])
  <2>1. ~(Len(text) <= 2)
    BY <1>1, <1>2
  <2>2. \E r : /\ Reads(r, SubSeq(text, 2, Len(text) - 1))
                /\ ParseTextArray(text) = Found(r[Len(SubSeq(text, 2, Len(text) - 1))])
    BY <1>2, <1>5, <2>1, ParseCases
  <2> QED BY <1>2, <2>2
<1>8. \A n \in 0..N : read[n] = IF n = 0 THEN NothingRead ELSE ReadChar(read[n - 1], inner[n])
  BY <1>6 DEF Reads
<1> DEFINE T == {n \in 0..N : read[n] = f[n]}
<1>9. 0 \in T
  <2>1. 0 \in 0..N
    BY <1>1
  <2> QED BY <1>4, <1>8, <2>1
<1>10. ASSUME NEW n \in 0..N, n \in T, n < N
       PROVE  n + 1 \in T
  <2>1. n + 1 \in 1..N /\ n + 1 \in 0..N /\ (n + 1) - 1 = n /\ n + 1 # 0
    BY <1>1, <1>10
  <2>2. read[n + 1] = ReadChar(read[n], inner[n + 1]) /\ f[n + 1] = ReadChar(f[n], inner[n + 1])
    BY <1>4, <1>8, <2>1
  <2> QED BY <1>10, <2>1, <2>2
<1> HIDE DEF T
<1>11. N \in T
  <2>1. \A n \in 0..N : n \in T
    BY <1>1, <1>9, <1>10, UpTo
  <2> QED BY <1>1, <2>1
<1> QED BY <1>3, <1>6, <1>11 DEF T, text

\* An element without special characters is read as it is.
LEMMA ReadsBare ==
  ASSUME NEW found \in Seq(Words), NEW name \in Words,
         ToSetOf(name) \cap {",", "\"", "\\"} = {}
  PROVE  ReadsTo(Reader(found, << >>, FALSE), name, Reader(found, name, FALSE))
<1> DEFINE N == Len(name)
           f == [k \in 0..N |-> Reader(found, SubSeq(name, 1, k), FALSE)]
<1>1. N \in Nat /\ DOMAIN name = 1..N /\ \A k \in 1..N : name[k] \in Characters
  BY Member, Zenon DEF Words
<1>2. /\ SubSeq(name, 1, 0) = << >> /\ SubSeq(name, 1, N) = name
      /\ \A k \in 0..N : SubSeq(name, 1, k) \in Words
      /\ \A k \in 1..N : SubSeq(name, 1, k) = Append(SubSeq(name, 1, k - 1), name[k])
  BY Beginnings DEF Words
<1>3. \A k \in 1..N : name[k] \notin {",", "\"", "\\"}
  BY <1>1 DEF ToSetOf
<1>4. \A k \in 0..N : f[k] = Reader(found, SubSeq(name, 1, k), FALSE) /\ f[k] \in Readers
  BY <1>2, ReaderType
<1>5. f \in [0..N -> Readers]
  BY <1>4
<1> HIDE DEF f, N
<1>9. N \in Nat /\ 0 \in 0..N /\ N \in 0..N /\ \A k \in 1..N : k - 1 \in 0..N /\ k \in 0..N
  BY <1>1, RangeEnds, Zenon
<1>6. ASSUME NEW k \in 1..N
      PROVE  f[k] = ReadChar(f[k - 1], name[k])
  <2>1. k - 1 \in 0..N /\ k \in 0..N
    BY <1>9
  <2>2. SubSeq(name, 1, k - 1) \in Words
    BY <1>2, <2>1
  <2>3. name[k] \in Characters /\ name[k] \notin {"\"", "\\"} /\ name[k] # ","
    BY <1>1, <1>3
  <2>4. ReadChar(Reader(found, SubSeq(name, 1, k - 1), FALSE), name[k])
           = Reader(found, Append(SubSeq(name, 1, k - 1), name[k]), FALSE)
    BY <2>2, <2>3, ReadPlain
  <2> QED BY <1>2, <1>4, <2>1, <2>4
<1>7. f[0] = Reader(found, << >>, FALSE) /\ f[N] = Reader(found, name, FALSE)
  BY <1>2, <1>4, <1>9
<1>8. Reading(f, Reader(found, << >>, FALSE), name)
  BY <1>5, <1>6, <1>7 DEF Reading, N
<1> QED BY <1>7, <1>8 DEF ReadsTo, N

LEMMA WordOf == \A ch \in Characters : <<ch>> \in Words
BY DEF Words

\* A character that is escaped where that is needed is read as itself inside quotes.
LEMMA ReadsEscaped ==
  ASSUME NEW found \in Seq(Words), NEW current \in Words, NEW ch \in Characters
  PROVE  /\ Escaped(ch) \in Words
         /\ ReadsTo(Reader(found, current, TRUE), Escaped(ch), Reader(found, Append(current, ch), TRUE))
<1>0. Append(current, ch) \in Words
  BY DEF Words
<1> DEFINE s == Reader(found, current, TRUE)
           t == [s EXCEPT !.escaped = TRUE]
           u == Reader(found, Append(current, ch), TRUE)
<1>1. s \in Readers /\ t \in Readers /\ u \in Readers
  BY <1>0, ReaderType
<1>2. CASE ch \in {"\"", "\\"}
  <2>1. "\\" \in Characters
    BY DEF Characters
  <2>2. ReadChar(s, "\\") = t /\ ReadChar(t, ch) = u
    BY ReadEscape
  <2> HIDE DEF s, t, u
  <2>3. ReadsTo(s, <<"\\">>, t)
    BY <1>1, <2>1, <2>2, ReadsOne
  <2>4. ReadsTo(t, <<ch>>, u)
    BY <1>1, <2>2, ReadsOne
  <2>5. ReadsTo(s, <<"\\">> \o <<ch>>, u)
    BY <2>1, <2>3, <2>4, ReadsOn, WordOf
  <2>6. <<"\\">> \o <<ch>> = <<"\\", ch>>
    BY <2>1, Pair
  <2>7. Escaped(ch) = <<"\\">> \o <<ch>>
    BY <1>2, <2>6 DEF Escaped
  <2>8. <<"\\">> \o <<ch>> \in Words
    BY <2>1, WordOf, ConcatProperties DEF Words
  <2> QED BY <2>5, <2>7, <2>8 DEF s, u
<1>3. CASE ch \notin {"\"", "\\"}
  <2>1. ReadChar(s, ch) = u
    BY <1>3, ReadPlain
  <2>2. Escaped(ch) = <<ch>>
    BY <1>3 DEF Escaped
  <2> HIDE DEF s, u
  <2>3. ReadsTo(s, <<ch>>, u)
    BY <1>1, <2>1, ReadsOne
  <2> QED BY <2>2, <2>3, WordOf DEF s, u
<1> QED BY <1>2, <1>3

\* An element that is quoted is read as it was before.
LEMMA ReadsQuoted ==
  ASSUME NEW found \in Seq(Words), NEW name \in Words
  PROVE  LET text == <<"\"">> \o FlattenSeq([i \in 1..Len(name) |-> Escaped(name[i])]) \o <<"\"">>
         IN  /\ text \in Words /\ text # << >>
             /\ ReadsTo(Reader(found, << >>, FALSE), text, Reader(found, name, FALSE))
<1> DEFINE N == Len(name)
           ss == [i \in 1..N |-> Escaped(name[i])]
           row == FlattenSeq(ss)
           quote == <<"\"">>
           Inside(k) == Reader(found, SubSeq(name, 1, k), TRUE)
<1>1. N \in Nat /\ \A k \in 1..N : name[k] \in Characters
  BY Member DEF Words
<1>2. /\ SubSeq(name, 1, 0) = << >> /\ SubSeq(name, 1, N) = name
      /\ \A k \in 0..N : SubSeq(name, 1, k) \in Words
      /\ \A k \in 1..N : SubSeq(name, 1, k) = Append(SubSeq(name, 1, k - 1), name[k])
  BY Beginnings DEF Words
<1>3. \A i \in 1..N : Escaped(name[i]) \in Words
  BY <1>1, ReadsEscaped
<1>4. ss \in Seq(Words) /\ Len(ss) = N /\ \A i \in 1..N : ss[i] = Escaped(name[i])
  BY <1>1, <1>3
<1> HIDE DEF N, ss
<1>5. PICK g \in [0..N -> Words] : Joined(g, ss, N) /\ row = g[N]
  BY <1>4, FlatIsJoined DEF Words
<1> HIDE DEF row, Inside
<1> DEFINE T == {k \in 0..N : ReadsTo(Inside(0), g[k], Inside(k))}
<1>6. 0 \in T
  <2>1. g[0] = << >> /\ Inside(0) \in Readers /\ 0 \in 0..N
    BY <1>1, <1>2, <1>5, RangeEnds, ReaderType DEF Joined, Inside
  <2> QED BY <2>1, ReadsNothing
<1>7. ASSUME NEW k \in 0..N, k \in T, k < N
      PROVE  k + 1 \in T
  <2>1. k + 1 \in 1..N /\ k + 1 \in 0..N /\ (k + 1) - 1 = k
    BY <1>1, <1>7
  <2>2. g[k + 1] = g[k] \o Escaped(name[k + 1]) /\ g[k] \in Words
    BY <1>4, <1>5, <1>7, <2>1 DEF Joined
  <2>3. SubSeq(name, 1, k) \in Words /\ SubSeq(name, 1, k + 1) = Append(SubSeq(name, 1, k), name[k + 1])
    BY <1>2, <2>1
  <2>4. Escaped(name[k + 1]) \in Words /\ ReadsTo(Inside(k), Escaped(name[k + 1]), Inside(k + 1))
    BY <1>1, <2>1, <2>3, ReadsEscaped DEF Inside
  <2>5. ReadsTo(Inside(0), g[k] \o Escaped(name[k + 1]), Inside(k + 1))
    BY <1>7, <2>2, <2>4, ReadsOn
  <2> QED BY <2>1, <2>2, <2>5
<1> HIDE DEF T
<1>8. N \in T
  <2>1. \A k \in 0..N : k \in T
    BY <1>1, <1>6, <1>7, UpTo
  <2> QED BY <1>1, <2>1, RangeEnds
<1>9. ReadsTo(Inside(0), row, Inside(N)) /\ row \in Words
  BY <1>1, <1>5, <1>8, RangeEnds DEF T
<1> DEFINE s == Reader(found, << >>, FALSE)
           t == Reader(found, name, FALSE)
<1>10. /\ ReadChar(s, "\"") = Inside(0) /\ ReadChar(Inside(N), "\"") = t
       /\ s \in Readers /\ t \in Readers /\ Inside(0) \in Readers /\ Inside(N) \in Readers
       /\ "\"" \in Characters
  <2>1. << >> \in Words /\ TRUE = ~FALSE /\ FALSE = ~TRUE
    BY <1>1, <1>2, RangeEnds
  <2>2. Inside(0) = Reader(found, << >>, TRUE) /\ Inside(N) = Reader(found, name, TRUE)
    BY <1>2 DEF Inside
  <2>3. "\"" \in Characters
    BY DEF Characters
  <2> QED BY <2>1, <2>2, <2>3, ReadQuote, ReaderType
<1> HIDE DEF s, t
<1>11. ReadsTo(s, quote, Inside(0)) /\ ReadsTo(Inside(N), quote, t) /\ quote \in Words
  BY <1>10, ReadsOne, WordOf
<1> HIDE DEF quote
<1>12. quote \o row \in Words /\ (quote \o row) \o quote \in Words
  BY <1>9, <1>11, ConcatProperties DEF Words
<1>13. ReadsTo(s, quote \o row, Inside(N))
  BY <1>9, <1>11, ReadsOn
<1>14. ReadsTo(s, (quote \o row) \o quote, t)
  BY <1>11, <1>12, <1>13, ReadsOn
<1>15. (quote \o row) \o quote # << >>
  <2>1. Len(quote) = 1
    BY DEF quote
  <2> QED BY <1>11, <1>12, <2>1, LongerNotEmpty DEF Words
<1> QED BY <1>12, <1>14, <1>15 DEF s, t, quote, row, ss, N

LEMMA ReadsElement ==
  ASSUME NEW found \in Seq(Words), NEW name \in Words
  PROVE  /\ Element(name) \in Words /\ Element(name) # << >>
         /\ ReadsTo(Reader(found, << >>, FALSE), Element(name), Reader(found, name, FALSE))
<1>1. CASE Special(name)
  BY <1>1, ReadsQuoted DEF Element
<1>2. CASE ~Special(name)
  <2>1. Element(name) = name /\ name # << >> /\ ToSetOf(name) \cap {",", "\"", "\\"} = {}
    BY <1>2 DEF Element, Special
  <2> QED BY <2>1, ReadsBare
<1> QED BY <1>1, <1>2

\* What is sent for a list of names is parsed as that list, but for a name that is NULL.
LEMMA ReadBack ==
  ASSUME NEW names \in Seq(Words)
  PROVE  ParseTextArray(ArrayOut(names)) = Where(names, {i \in DOMAIN names : names[i] # Null})
<1> DEFINE N == Len(names)
           S == {i \in DOMAIN names : names[i] # Null}
           comma == <<",">>
           ss == [i \in 1..N |-> IF i = 1 THEN Element(names[i]) ELSE comma \o Element(names[i])]
           ws == [i \in 1..N |-> IF i \in S THEN <<names[i]>> ELSE << >>]
           row == FlattenSeq(ss)
<1>1. N \in Nat /\ DOMAIN names = 1..N /\ \A k \in 1..N : names[k] \in Words
  BY Member
<1>2. "," \in Characters /\ comma \in Words
  BY WordOf DEF Characters
<1>6. Where(names, S) = FlattenSeq(ws) /\ ArrayOut(names) = <<"{">> \o row \o <<"}">>
  BY DEF Where, ArrayOut
<1> HIDE DEF N, row
<1>3. \A k \in 1..N : /\ Element(names[k]) \in Words /\ Element(names[k]) # << >>
                      /\ comma \o Element(names[k]) \in Words
  <2> TAKE k \in 1..N
  <2>1. << >> \in Seq(Words)
    OBVIOUS
  <2>2. Element(names[k]) \in Words /\ Element(names[k]) # << >>
    BY <1>1, <2>1, ReadsElement
  <2> QED BY <1>2, <2>2, ConcatProperties DEF Words
<1> HIDE DEF comma
<1>4. /\ ss \in Seq(Words) /\ Len(ss) = N
      /\ \A i \in 1..N : ss[i] = IF i = 1 THEN Element(names[i]) ELSE comma \o Element(names[i])
  BY <1>1, <1>3
<1>5. /\ ws \in Seq(Seq(Words)) /\ Len(ws) = N
      /\ \A i \in 1..N : /\ names[i] # Null => ws[i] = <<names[i]>>
                         /\ names[i] = Null => ws[i] = << >>
  BY <1>1
<1> HIDE DEF ss, ws
<1>7. PICK g \in [0..N -> Words] : Joined(g, ss, N) /\ row = g[N]
  BY <1>4, FlatIsJoined DEF row, Words
<1>8. PICK h \in [0..N -> Seq(Words)] : Joined(h, ws, N) /\ Where(names, S) = h[N]
  BY <1>5, <1>6, FlatIsJoined
<1>9. \A k \in 1..N : h[k] = IF names[k] = Null THEN h[k - 1] ELSE Append(h[k - 1], names[k])
  <2> TAKE k \in 1..N
  <2>1. k - 1 \in 0..N /\ k - 1 < N /\ (k - 1) + 1 = k
    BY <1>1
  <2>2. h[k] = h[k - 1] \o ws[k] /\ h[k - 1] \in Seq(Words)
    BY <1>8, <2>1 DEF Joined
  <2>3. CASE names[k] = Null
    BY <1>5, <2>2, <2>3
  <2>4. CASE names[k] # Null
    <3>1. h[k] = h[k - 1] \o <<names[k]>> /\ names[k] \in Words
      BY <1>1, <1>5, <2>2, <2>4
    <3>2. \A a \in Seq(Words), b \in Words : a \o <<b>> = Append(a, b)
      OBVIOUS
    <3> QED BY <2>2, <2>4, <3>1, <3>2
  <2> QED BY <2>3, <2>4
<1>10. CASE N = 0
  <2>1. row = << >> /\ Where(names, S) = << >>
    BY <1>7, <1>8, <1>10 DEF Joined
  <2>2. Len(ArrayOut(names)) = 2
    <3>1. "{" \in Characters /\ "}" \in Characters /\ << >> \in Seq(Characters) /\ Len(<< >>) + 2 = 2
      BY DEF Characters
    <3>2. \A open, close \in Characters : Len(<<open>> \o << >> \o <<close>>) = Len(<< >>) + 2
      BY <3>1, Between
    <3> QED BY <1>6, <2>1, <3>1, <3>2
  <2>3. Len(ArrayOut(names)) <= 2
    BY <2>2
  <2> QED BY <2>1, <2>3 DEF ParseTextArray
<1>11. CASE N # 0
  <2> DEFINE T == {k \in 0..N : k # 0 => ReadsTo(NothingRead, g[k], Reader(h[k - 1], names[k], FALSE))}
  <2>1. 0 \in T
    BY <1>1
  <2>2. ASSUME NEW k \in 0..N, k \in T, k < N
        PROVE  k + 1 \in T
    <3>1. k + 1 \in 1..N /\ k + 1 \in 0..N /\ (k + 1) - 1 = k
      BY <1>1, <2>2
    <3>2. /\ g[k + 1] = g[k] \o ss[k + 1] /\ g[k] \in Words /\ h[k] \in Seq(Words)
          /\ g[0] = << >> /\ h[0] = << >>
      BY <1>7, <1>8, <2>2 DEF Joined
    <3> DEFINE e == Element(names[k + 1])
    <3>3. e \in Words /\ ReadsTo(Reader(h[k], << >>, FALSE), e, Reader(h[k], names[k + 1], FALSE))
      BY <1>1, <3>1, <3>2, ReadsElement
    <3>4. CASE k = 0
      <4>0. k + 1 = 1
        BY <3>4
      <4>1. ss[k + 1] = e
        BY <1>4, <3>1, <4>0
      <4>2. g[k + 1] = << >> \o e
        BY <3>2, <3>4, <4>1
      <4>3. g[k + 1] = e
        <5>1. \A a \in Words : << >> \o a = a
          BY DEF Words
        <5> QED BY <3>3, <4>2, <5>1
      <4>4. NothingRead = Reader(h[k], << >>, FALSE)
        BY <3>2, <3>4 DEF NothingRead, Reader
      <4> QED BY <3>1, <3>3, <4>3, <4>4
    <3>5. CASE k # 0
      <4> HIDE DEF e
      <4> DEFINE s == Reader(h[k - 1], names[k], FALSE)
                 t == Reader(h[k], << >>, FALSE)
                 u == Reader(h[k], names[k + 1], FALSE)
      <4>1. k \in 1..N /\ k - 1 \in 0..N /\ k + 1 # 1
        BY <1>1, <3>5
      <4>2. names[k] \in Words /\ h[k - 1] \in Seq(Words) /\ << >> \in Words
        BY <1>1, <1>8, <4>1 DEF Words
      <4>3. ReadChar(s, ",") = t
        BY <1>9, <4>1, <4>2, ReadComma
      <4>4. s \in Readers /\ t \in Readers
        BY <3>2, <4>2, ReaderType
      <4>5. ReadsTo(NothingRead, g[k], s)
        BY <2>2, <3>5
      <4> HIDE DEF s, t
      <4>6. ReadsTo(s, comma, t)
        BY <1>2, <4>3, <4>4, ReadsOne DEF comma
      <4>7. ReadsTo(t, e, u)
        BY <3>3 DEF t
      <4>8. ReadsTo(s, comma \o e, u) /\ comma \o e \in Words
        BY <1>2, <1>3, <3>1, <3>3, <4>6, <4>7, ReadsOn DEF e
      <4>9. ReadsTo(NothingRead, g[k] \o (comma \o e), u)
        BY <3>2, <4>5, <4>8, ReadsOn
      <4>10. ss[k + 1] = comma \o e
        BY <1>4, <3>1, <4>1 DEF e
      <4> QED BY <3>1, <3>2, <4>9, <4>10
    <3> QED BY <3>4, <3>5
  <2> HIDE DEF T
  <2>3. N \in T
    <3>1. \A k \in 0..N : k \in T
      BY <1>1, <2>1, <2>2, UpTo
    <3> QED BY <1>1, <3>1, RangeEnds
  <2>4. ReadsTo(NothingRead, row, Reader(h[N - 1], names[N], FALSE)) /\ row \in Words
    BY <1>1, <1>7, <1>11, <2>3, RangeEnds DEF T
  <2>5. row # << >>
    <3>1. 1 \in 1..N /\ 1 \in DOMAIN ss /\ ss \in Seq(Seq(Characters))
      BY <1>1, <1>4, <1>11 DEF Words
    <3>2. ss[1] \in Seq(Characters) /\ ss[1] # << >>
      BY <1>3, <1>4, <3>1 DEF Words
    <3>3. ToSet(ss[1]) \subseteq ToSet(row)
      BY <3>1, FlatMembers DEF row
    <3>4. ss[1][1] \in ToSet(ss[1])
      BY <3>2 DEF ToSet
    <3>5. ToSet(<< >>) = {}
      BY DEF ToSet
    <3> QED BY <3>3, <3>4, <3>5
  <2>6. ParseTextArray(ArrayOut(names)) = Found(Reader(h[N - 1], names[N], FALSE))
    BY <1>6, <2>4, <2>5, ParseReads
  <2>7. N \in 1..N
    BY <1>1, <1>11
  <2> QED BY <1>8, <1>9, <2>6, <2>7 DEF Found, Reader
<1> QED BY <1>10, <1>11
-----------------------------------------------------------------------------
(* A catalog nobody alters.  Until the first statement of another session  *)
(* every query sees the initial catalog, so every relation to be exported  *)
(* becomes an entity that describes it, once for each time its schema is   *)
(* listed, and every key whose schema has been read is an edge or a        *)
(* warning, as its names are known or not.                                 *)

Present == rels \cap Exported

Describes(ent, r) ==
    /\ ent.name = QualifiedName(r) /\ ent.fields = cols[r] /\ ent.paths = PathsOf(r)

Twice(r) == \E a, b \in entities : a # b /\ a.name = QualifiedName(r) /\ b.name = QualifiedName(r)

QuietTables ==
    /\ cols = InitialCols /\ indexes = InitialIndexes
    /\ \A k \in keys : Holds(k)
    /\ stage \in {"fields", "paths"} => todo \subseteq rels
    /\ stage = "paths" => tbl.fields = cols[tbl.rel]
    /\ \A ent \in entities : \E r \in Present : Describes(ent, r)

\* Every relation of a schema that has been read is an entity.
QuietListed ==
    stage # "failed" =>
        \A r \in Present, j \in DOMAIN schemas : r.ns = schemas[j] =>
            /\ Read(j) => Named(r)
            /\ stage \in {"fields", "paths"} /\ j = at => r \in todo \/ Named(r)

\* If the schema was read before, it is two.
QuietTwice ==
    stage # "failed" =>
        \A r \in Present, i, j \in DOMAIN schemas : i < j /\ r.ns = schemas[i] /\ r.ns = schemas[j] =>
            /\ Read(j) => Twice(r)
            /\ stage \in {"fields", "paths"} /\ j = at => r \in todo \/ Twice(r)

Classed == {k \in keys : \E i \in DOMAIN schemas : k.src.ns = schemas[i] /\ Classified(i)}
Kept(k) == {QualifiedName(k.src), QualifiedName(k.tgt)} \subseteq NamesOf(Export)

QuietKeys ==
    stage # "failed" =>
        /\ edges = UNION {EdgesOf(k) : k \in {k \in Classed : Kept(k)}}
        /\ warnings = UNION {EdgesOf(k) : k \in {k \in Classed : ~Kept(k)}}

QuietInv == ddl = 0 => QuietTables /\ QuietListed /\ QuietTwice /\ QuietKeys

LEMMA QuietStays ==
  ASSUME IInv, [Next]_vars, ddl' = 0
  PROVE  /\ ddl = 0 /\ UNCHANGED <<rels, cols, indexes, keys, schemas>>
         /\ Extract \/ Fail \/ UNCHANGED vars
<1>1. ~OtherSessions
  <2>1. OtherSessions => ddl' = ddl + 1
    BY DEF OtherSessions, DropRelation, CreateRelation, AddReference, DropColumn, Alter
  <2>2. ddl \in Nat
    BY CatalogAssumption DEF IInv, CatalogInv
  <2> QED BY <2>1, <2>2
<1>2. Extract \/ Fail \/ UNCHANGED vars
  BY <1>1 DEF Next, Stop
<1>3. CASE Extract \/ Fail
  BY <1>2, <1>3, ExtractorStep DEF IInv
<1>4. CASE UNCHANGED vars
  BY <1>2, <1>4 DEF vars, catalog, extractor
<1> QED BY <1>2, <1>3, <1>4

LEMMA SameCatalog ==
  ASSUME UNCHANGED <<rels, cols, indexes, keys, schemas>>
  PROVE  /\ Present' = Present /\ Exported' = Exported
         /\ \A r : QualifiedName(r)' = QualifiedName(r) /\ PathsOf(r)' = PathsOf(r)
         /\ \A k : EdgesOf(k)' = EdgesOf(k) /\ Holds(k)' = Holds(k)
BY DEF Present, Exported, QualifiedName, Multi, PathsOf, EdgesOf, Holds

LEMMA InitQuiet == Init => QuietInv
<1> SUFFICES ASSUME Init PROVE QuietInv
  OBVIOUS
<1>1. stage \in {"list", "failed"} /\ at = 1 /\ entities = {} /\ edges = {} /\ warnings = {}
  BY DEF Init, BuildExtractor
<1>2. QuietTables
  BY <1>1 DEF Init, QuietTables
<1>3. schemas \in Seq(STRING)
  BY SplitSchemasType DEF Init
<1>4. QuietListed /\ QuietTwice
  BY <1>1, <1>3 DEF QuietListed, QuietTwice, Read
<1>5. QuietKeys
  <2>1. Classed = {}
    BY <1>1 DEF Classed, Classified
  <2> QED BY <1>1, <2>1 DEF QuietKeys
<1> QED BY <1>2, <1>4, <1>5 DEF QuietInv

LEMMA QuietTablesStep ==
  ASSUME IInv, NamesInv, QuietInv, [Next]_vars, ddl' = 0
  PROVE  QuietTables'
<1>1. /\ UNCHANGED <<rels, cols, indexes, keys, schemas>> /\ QuietTables
      /\ Extract \/ Fail \/ UNCHANGED vars
  BY QuietStays DEF QuietInv
<1>2. /\ Present' = Present
      /\ \A r : QualifiedName(r)' = QualifiedName(r) /\ PathsOf(r)' = PathsOf(r)
      /\ \A k : Holds(k)' = Holds(k)
  BY <1>1, SameCatalog
<1>3. /\ cols' = InitialCols /\ indexes' = InitialIndexes /\ \A k \in keys' : Holds(k)'
      /\ \A ent, r : Describes(ent, r)' <=> Describes(ent, r)
  BY <1>1, <1>2 DEF QuietTables, Describes
<1>4. CASE ListTables
  <2>1. stage' = "fields" /\ todo' \subseteq rels /\ entities' = entities
    BY <1>4 DEF ListTables, result
  <2> QED BY <1>1, <1>2, <1>3, <2>1 DEF QuietTables
<1>5. CASE ExtractFields
  <2>1. /\ stage = "fields" /\ todo' = todo /\ entities' = entities
        /\ \E r \in todo : tbl' = [rel |-> r, fields |-> IF r \in rels THEN cols[r] ELSE << >>]
    BY <1>5 DEF ExtractFields, result
  <2>2. todo \subseteq rels
    BY <1>1, <2>1 DEF QuietTables
  <2>3. tbl'.fields = cols'[tbl'.rel]
    BY <1>1, <2>1, <2>2
  <2> QED BY <1>1, <1>2, <1>3, <2>1, <2>2, <2>3 DEF QuietTables
<1>6. CASE ExtractAccessPaths
  <2> DEFINE t == tbl.rel
             new == [at |-> Cardinality(entities) + 1, name |-> QualifiedName(t),
                     fields |-> tbl.fields, paths |-> IF t \in rels THEN PathsOf(t) ELSE {}]
  <2>1. /\ stage = "paths" /\ stage' = "fields"
        /\ entities' = entities \cup {new} /\ todo' = todo \ {t}
    BY <1>6 DEF ExtractAccessPaths
  <2>2. todo \subseteq rels /\ t \in todo /\ tbl.fields = cols[t] /\ t \in Present
    <3>1. todo \subseteq rels /\ tbl.fields = cols[t]
      BY <1>1, <2>1 DEF QuietTables
    <3>2. t \in todo /\ t \in Rels \ Partitioned /\ t.ns = schemas[at]
      BY <2>1 DEF NamesInv
    <3>3. at \in DOMAIN schemas
      BY <2>1 DEF IInv, LoopInv
    <3> QED BY <3>1, <3>2, <3>3 DEF Present, Exported, ToSetOf
  <2>3. Describes(new, t)
    BY <2>2 DEF Describes
  <2> HIDE DEF new, t
  <2>4. \A ent \in entities' : \E r \in Present' : Describes(ent, r)'
    BY <1>1, <1>2, <1>3, <2>1, <2>2, <2>3 DEF QuietTables
  <2>5. todo' \subseteq rels'
    BY <1>1, <2>1, <2>2
  <2> QED BY <1>1, <1>3, <2>1, <2>4, <2>5 DEF QuietTables
<1>7. CASE NextSchema \/ ExtractEdges \/ Fail \/ UNCHANGED vars
  <2>1. /\ UNCHANGED <<todo, tbl, entities>>
        /\ stage' \notin {"fields", "paths"} \/ stage' = stage
    BY <1>7 DEF NextSchema, ExtractEdges, Fail, vars, extractor, result
  <2> QED BY <1>1, <1>2, <1>3, <2>1 DEF QuietTables
<1> QED BY <1>1, <1>4, <1>5, <1>6, <1>7 DEF Extract

\* What the listing invariants say of a relation, once (n = 1) or twice.
LEMMA EntitiesGrow ==
  ASSUME UNCHANGED <<rels, cols, indexes, keys, schemas>>, entities \subseteq entities', NEW r
  PROVE  (Named(r) => Named(r)') /\ (Twice(r) => Twice(r)')
BY SameCatalog DEF Named, Twice

\* Listing, reading a table's fields and ending change no entity.
LEMMA QuietListedStep ==
  ASSUME IInv, NamesInv, Numbered, QuietInv, [Next]_vars, ddl' = 0
  PROVE  QuietListed' /\ QuietTwice'
<1>1. /\ UNCHANGED <<rels, cols, indexes, keys, schemas>> /\ QuietTables /\ QuietListed /\ QuietTwice
      /\ Extract \/ Fail \/ UNCHANGED vars
  BY QuietStays DEF QuietInv
<1>2. Present' = Present /\ \A r : QualifiedName(r)' = QualifiedName(r)
  BY <1>1, SameCatalog
<1>3. DOMAIN schemas = 1..Len(schemas) /\ Len(schemas) \in Nat /\ at \in Nat
  BY DEF IInv, LoopInv
<1>4. \A r \in Present : r \in rels /\ r \in Rels \ Partitioned
  BY DEF Present, Exported
<1>5. CASE ListTables
  <2>1. /\ stage = "list" /\ stage' = "fields" /\ at' = at /\ entities' = entities
        /\ todo' = {r \in rels \ Partitioned : r.ns = schemas[at]}
    BY <1>5 DEF ListTables, result
  <2>2. \A r \in Present : r.ns = schemas[at] => r \in todo'
    BY <1>4, <2>1
  <2>3. \A j \in DOMAIN schemas : Read(j)' => Read(j)
    BY <2>1 DEF Read
  <2>4. \A r : (Named(r) => Named(r)') /\ (Twice(r) => Twice(r)')
    BY <1>1, <2>1, EntitiesGrow
  <2> QED BY <1>1, <1>2, <2>1, <2>2, <2>3, <2>4 DEF QuietListed, QuietTwice
<1>6. CASE ExtractFields
  <2>1. stage = "fields" /\ stage' = "paths" /\ UNCHANGED <<at, todo, entities>>
    BY <1>6 DEF ExtractFields, result
  <2>2. \A j \in DOMAIN schemas : Read(j)' => Read(j)
    BY <2>1 DEF Read
  <2>3. \A r : (Named(r) => Named(r)') /\ (Twice(r) => Twice(r)')
    BY <1>1, <2>1, EntitiesGrow
  <2> QED BY <1>1, <1>2, <2>1, <2>2, <2>3 DEF QuietListed, QuietTwice
<1>7. CASE ExtractAccessPaths
  <2> DEFINE t == tbl.rel
             new == [at |-> Cardinality(entities) + 1, name |-> QualifiedName(t),
                     fields |-> tbl.fields, paths |-> IF t \in rels THEN PathsOf(t) ELSE {}]
  <2>1. /\ stage = "paths" /\ stage' = "fields" /\ at' = at
        /\ entities' = entities \cup {new} /\ todo' = todo \ {t}
    BY <1>7 DEF ExtractAccessPaths
  <2>2. new.name = QualifiedName(t) /\ new.at = Cardinality(entities) + 1
    OBVIOUS
  <2>3. new \notin entities
    <3>1. Cardinality(entities) \in Nat
      BY FS_CardinalityType DEF Numbered
    <3> HIDE DEF new
    <3> QED BY <2>2, <3>1 DEF Numbered
  <2> HIDE DEF new, t
  <2>4. \A j \in DOMAIN schemas : (Read(j)' => Read(j)) /\ (j < at => Read(j))
    BY <2>1 DEF Read
  <2>5. \A r : (Named(r) => Named(r)') /\ (Twice(r) => Twice(r)')
    BY <1>1, <2>1, EntitiesGrow
  <2>6. \A r : r = t => Named(r)' /\ (Named(r) => Twice(r)')
    BY <1>2, <2>1, <2>2, <2>3 DEF Named, Twice
  <2>7. QuietListed'
    BY <1>1, <1>2, <2>1, <2>4, <2>5, <2>6 DEF QuietListed
  <2>8. QuietTwice'
    <3> SUFFICES ASSUME NEW r \in Present, NEW i \in DOMAIN schemas, NEW j \in DOMAIN schemas,
                        i < j, r.ns = schemas[i], r.ns = schemas[j]
                 PROVE  /\ Read(j)' => Twice(r)'
                        /\ j = at => r \in todo' \/ Twice(r)'
      BY <1>1, <1>2, <2>1 DEF QuietTwice
    <3>1. Read(j)' => Twice(r)'
      BY <1>1, <2>1, <2>4, <2>5 DEF QuietTwice
    <3>2. ASSUME j = at, r \notin todo' PROVE Twice(r)'
      <4>1. CASE r = t
        <5>1. Named(r)
          BY <1>1, <2>1, <2>4, <3>2, <4>1 DEF QuietListed
        <5> QED BY <2>6, <4>1, <5>1
      <4>2. CASE r # t
        <5>1. r \notin todo
          BY <2>1, <3>2, <4>2
        <5> QED BY <1>1, <2>1, <2>5, <3>2, <5>1 DEF QuietTwice
      <4> QED BY <4>1, <4>2
    <3> QED BY <3>1, <3>2
  <2> QED BY <2>7, <2>8
<1>8. CASE NextSchema
  <2>1. /\ stage = "fields" /\ todo = {} /\ entities' = entities
        /\ \/ at < Len(schemas) /\ stage' = "list" /\ at' = at + 1
           \/ ~(at < Len(schemas)) /\ stage' = "edges" /\ at' = 1
    BY <1>8 DEF NextSchema, result
  <2>2. \A j \in DOMAIN schemas : Read(j)' => Read(j) \/ j = at
    BY <1>3, <2>1 DEF Read
  <2>3. \A r : (Named(r) => Named(r)') /\ (Twice(r) => Twice(r)')
    BY <1>1, <2>1, EntitiesGrow
  <2>4. QuietListed'
    BY <1>1, <1>2, <2>1, <2>2, <2>3 DEF QuietListed
  <2>5. QuietTwice'
    BY <1>1, <1>2, <2>1, <2>2, <2>3 DEF QuietTwice
  <2> QED BY <2>4, <2>5
<1>9. CASE ExtractEdges \/ Fail \/ UNCHANGED vars
  <2>1. /\ entities' = entities
        /\ \/ stage' = "failed"
           \/ stage = "edges" /\ stage' \in {"edges", "done"}
           \/ UNCHANGED <<stage, at, todo>>
    BY <1>9 DEF ExtractEdges, Fail, vars, extractor, result
  <2>2. \A r : (Named(r) => Named(r)') /\ (Twice(r) => Twice(r)')
    BY <1>1, <2>1, EntitiesGrow
  <2> QED BY <1>1, <1>2, <2>1, <2>2 DEF QuietListed, QuietTwice, Read
<1> QED BY <1>1, <1>5, <1>6, <1>7, <1>8, <1>9 DEF Extract

LEMMA QuietKeysStep ==
  ASSUME IInv, QuietInv, [Next]_vars, ddl' = 0
  PROVE  QuietKeys'
<1>1. /\ UNCHANGED <<rels, cols, indexes, keys, schemas>> /\ QuietKeys
      /\ Extract \/ Fail \/ UNCHANGED vars
  BY QuietStays DEF QuietInv
<1>2. /\ \A r : QualifiedName(r)' = QualifiedName(r)
      /\ \A k : EdgesOf(k)' = EdgesOf(k)
  BY <1>1, SameCatalog
<1>3. DOMAIN schemas = 1..Len(schemas) /\ Len(schemas) \in Nat /\ at \in Nat
  BY DEF IInv, LoopInv
<1>4. CASE ~ExtractEdges /\ ~Fail
  <2>1. /\ UNCHANGED <<edges, warnings>>
        /\ \/ stage \in {"list", "fields", "paths"} /\ stage' \in {"list", "fields", "paths"}
           \/ stage = "fields" /\ stage' = "edges" /\ at' = 1
           \/ UNCHANGED <<stage, at, entities>>
    <3>1. CASE ListTables
      BY <3>1 DEF ListTables, result
    <3>2. CASE ExtractFields
      BY <3>2 DEF ExtractFields, result
    <3>3. CASE ExtractAccessPaths
      BY <3>3 DEF ExtractAccessPaths
    <3>4. CASE NextSchema
      BY <3>4 DEF NextSchema, result
    <3>5. CASE UNCHANGED vars
      BY <3>5 DEF vars, extractor, result
    <3> QED BY <1>1, <1>4, <3>1, <3>2, <3>3, <3>4, <3>5 DEF Extract
  <2>2. CASE UNCHANGED <<stage, at, entities>>
    <3>1. Classed' = Classed /\ \A k : Kept(k)' <=> Kept(k)
      BY <1>1, <1>2, <2>2 DEF Classed, Classified, Kept, NamesOf, Export
    <3> QED BY <1>1, <1>2, <2>1, <2>2, <3>1 DEF QuietKeys
  <2>3. CASE ~UNCHANGED <<stage, at, entities>>
    <3>1. stage # "failed" /\ Classed = {}
      BY <2>1, <2>3 DEF Classed, Classified
    <3>2. Classed' = {}
      BY <1>1, <1>3, <2>1, <2>3 DEF Classed, Classified
    <3>3. edges = {} /\ warnings = {}
      BY <1>1, <3>1 DEF QuietKeys
    <3> QED BY <2>1, <3>2, <3>3 DEF QuietKeys
  <2> QED BY <2>2, <2>3
<1>5. CASE Fail
  BY <1>5 DEF Fail, QuietKeys
<1>6. CASE ExtractEdges
  <2> DEFINE own == {k \in keys : k.src.ns = schemas[at]}
             found == UNION {EdgesOf(k) : k \in own}
             kept == {e \in found : {e.from, e.to} \subseteq NamesOf(Export)}
  <2>1. /\ stage = "edges" /\ entities' = entities
        /\ edges' = edges \cup kept /\ warnings' = warnings \cup (found \ kept)
        /\ \/ at < Len(schemas) /\ stage' = stage /\ at' = at + 1
           \/ ~(at < Len(schemas)) /\ stage' = "done" /\ at' = at
    BY <1>6 DEF ExtractEdges
  <2>2. at \in DOMAIN schemas
    BY <2>1 DEF IInv, LoopInv
  <2>3. Classed' = Classed \cup own
    <3>1. \A i \in DOMAIN schemas : Classified(i)' <=> Classified(i) \/ i = at
      BY <1>3, <2>1, <2>2 DEF Classified, IInv, LoopInv
    <3> QED BY <1>1, <2>2, <3>1 DEF Classed
  <2>4. \A k : Kept(k)' <=> Kept(k)
    BY <1>2, <2>1 DEF Kept, NamesOf, Export
  <2>5. \A k : \A e \in EdgesOf(k) : {e.from, e.to} \subseteq NamesOf(Export) <=> Kept(k)
    BY DEF EdgesOf, Kept
  <2>6. kept = UNION {EdgesOf(k) : k \in {k \in own : Kept(k)}}
    BY <2>5
  <2>7. found \ kept = UNION {EdgesOf(k) : k \in {k \in own : ~Kept(k)}}
    BY <2>5
  <2>8. edges = UNION {EdgesOf(k) : k \in {k \in Classed : Kept(k)}}
        /\ warnings = UNION {EdgesOf(k) : k \in {k \in Classed : ~Kept(k)}}
    BY <1>1, <2>1 DEF QuietKeys
  <2> HIDE DEF own, found, kept
  <2>9. edges' = UNION {EdgesOf(k)' : k \in {k \in Classed' : Kept(k)'}}
    BY <1>2, <2>1, <2>3, <2>4, <2>6, <2>8
  <2>10. warnings' = UNION {EdgesOf(k)' : k \in {k \in Classed' : ~Kept(k)'}}
    BY <1>2, <2>1, <2>3, <2>4, <2>7, <2>8
  <2> QED BY <2>9, <2>10 DEF QuietKeys
<1> QED BY <1>4, <1>5, <1>6

LEMMA QuietStep == IInv /\ NamesInv /\ Numbered /\ QuietInv /\ [Next]_vars => QuietInv'
BY QuietTablesStep, QuietListedStep, QuietKeysStep DEF QuietInv

\* The one case in which two relations can be confused: a single schema is exported,
\* and a key leads from it to a relation of another schema that has the name of an
\* exported one.  (This is what the run postgres_one_schema shows.)
Unconfused ==
    \/ Multi
    \/ \A k \in keys, r \in Present : k.src.ns = r.ns /\ k.tgt.name = r.name => k.tgt.ns = r.ns

LEMMA SameRelation ==
  ASSUME NEW r \in Rels, NEW s \in Rels, QualifiedName(r) = QualifiedName(s),
         ~Multi => r.ns = s.ns
  PROVE  r = s
<1>1. r.name = s.name /\ (Multi => r.ns = s.ns)
  BY DEF QualifiedName
<1> QED BY <1>1, CatalogAssumption

LEMMA OneSchema ==
  ASSUME LoopInv, ~Multi, NEW a \in ToSetOf(schemas), NEW b \in ToSetOf(schemas)
  PROVE  a = b
<1>1. PICK i \in DOMAIN schemas, j \in DOMAIN schemas : a = schemas[i] /\ b = schemas[j]
  BY DEF ToSetOf
<1>2. DOMAIN schemas = 1..Len(schemas) /\ Len(schemas) \in Nat
  BY DEF LoopInv
<1> QED BY <1>1, <1>2 DEF Multi

\* A finished export of a catalog nobody altered.
Known(names) == Where(names, {i \in DOMAIN names : names[i] # Null})
Own == {k \in keys : k.src.ns \in ToSetOf(schemas)}
Internal == {k \in Own : {k.src, k.tgt} \subseteq Exported}

LEMMA QuietNames ==
  ASSUME IInv, QuietInv, Quiet
  PROVE  NamesOf(Export) = {QualifiedName(r) : r \in Present}
<1>1. QuietTables /\ QuietListed /\ stage = "done"
  BY DEF QuietInv, Quiet
<1>2. ASSUME NEW r \in Present PROVE Named(r)
  <2>1. PICK j \in DOMAIN schemas : r.ns = schemas[j]
    BY DEF Present, Exported, ToSetOf
  <2> QED BY <1>1, <2>1 DEF QuietListed, Read
<1>3. \A ent \in entities : \E r \in Present : ent.name = QualifiedName(r)
  BY <1>1 DEF QuietTables, Describes
<1> QED BY <1>2, <1>3 DEF Named, NamesOf, Export

\* Every entity describes the relation it is named after.
LEMMA QuietDescribes ==
  ASSUME IInv, QuietInv, Quiet, NEW ent \in entities, NEW r \in Present, ent.name = QualifiedName(r)
  PROVE  Describes(ent, r)
<1>1. PICK s \in Present : Describes(ent, s)
  BY DEF QuietInv, Quiet, QuietTables
<1>2. r = s
  BY <1>1, QualifiedNameInjective DEF IInv, Present, Describes
<1> QED BY <1>1, <1>2

LEMMA QuietKept ==
  ASSUME IInv, QuietInv, Quiet, Unconfused, NEW k \in Own
  PROVE  Kept(k) <=> {k.src, k.tgt} \subseteq Exported
<1>1. NamesOf(Export) = {QualifiedName(r) : r \in Present}
  BY QuietNames
<1>2. k \in keys /\ k.src \in rels /\ k.tgt \in rels /\ k.src \in Rels /\ k.tgt \in Rels
      /\ k.src.ns \in ToSetOf(schemas)
  BY CatalogAssumption DEF IInv, CatalogInv, Own
<1>3. ASSUME {k.src, k.tgt} \subseteq Exported PROVE Kept(k)
  <2>1. k.src \in Present /\ k.tgt \in Present
    BY <1>2, <1>3 DEF Present
  <2> QED BY <1>1, <2>1 DEF Kept
<1>4. ASSUME Kept(k) PROVE {k.src, k.tgt} \subseteq Exported
  <2>1. PICK r \in Present, s \in Present : QualifiedName(k.src) = QualifiedName(r)
                                            /\ QualifiedName(k.tgt) = QualifiedName(s)
    BY <1>1, <1>4 DEF Kept
  <2>2. r \in Exported /\ s \in Exported /\ r \in Rels /\ s \in Rels
        /\ r.ns \in ToSetOf(schemas) /\ s.ns \in ToSetOf(schemas)
    BY DEF Present, Exported
  <2>3. k.src = r
    BY <1>2, <2>1, <2>2, SameRelation, OneSchema DEF IInv
  <2>4. ~Multi => k.tgt.ns = s.ns
    <3> SUFFICES ASSUME ~Multi PROVE k.tgt.ns = s.ns
      OBVIOUS
    <3>1. k.tgt.name = s.name
      BY <2>1 DEF QualifiedName
    <3>2. k.src.ns = s.ns
      BY <1>2, <2>2, OneSchema DEF IInv
    <3> QED BY <1>2, <3>1, <3>2 DEF Unconfused
  <2>5. k.tgt = s
    BY <1>2, <2>1, <2>2, <2>4, SameRelation
  <2> QED BY <2>2, <2>3, <2>5
<1> QED BY <1>3, <1>4

LEMMA QuietEdges ==
  ASSUME IInv, QuietInv, Quiet, Unconfused
  PROVE  /\ edges = UNION {EdgesOf(k) : k \in Internal}
         /\ warnings = UNION {EdgesOf(k) : k \in Own \ Internal}
<1>1. QuietKeys /\ stage = "done"
  BY DEF QuietInv, Quiet
<1>2. Classed = Own
  BY <1>1 DEF Classed, Classified, Own, ToSetOf
<1>3. {k \in Classed : Kept(k)} = Internal /\ {k \in Classed : ~Kept(k)} = Own \ Internal
  BY <1>2, QuietKept DEF Internal
<1> QED BY <1>1, <1>3 DEF QuietKeys

\* The columns of an index, as they are read back.
LEMMA IndexColumns ==
  ASSUME NEW r \in Rels, NEW ix \in InitialIndexes[r]
  PROVE  /\ ParseTextArray(ArrayOut(ColumnsIn(ix))) = Known(ColumnsIn(ix))
         /\ ToSetOf(Known(ColumnsIn(ix))) \subseteq ToSetOf(InitialCols[r])
         /\ ToSetOf(ix.keys) # {Expression} <=> \E c \in ToSetOf(ix.keys) : c # Expression
<1> DEFINE names == ix.keys
           S == {i \in DOMAIN names : names[i] # Expression}
           cs == Where(names, S)
           T == {i \in DOMAIN cs : cs[i] # Null}
<1>1. /\ names \in Seq(ColumnNames) /\ names # << >>
      /\ ToSetOf(names) \ {Expression} \subseteq ToSetOf(InitialCols[r])
  BY CatalogAssumption
<1>2. ColumnsIn(ix) = cs
  BY DEF ColumnsIn
<1>3. Known(cs) = Where(cs, T)
  BY DEF Known
<1> HIDE DEF names
<1>4. cs \in Seq(ColumnNames) /\ ToSet(cs) = {names[i] : i \in S}
  BY <1>1, WhereMembers
<1>5. ToSetOf(cs) \subseteq ToSetOf(InitialCols[r])
  <2>1. {names[i] : i \in S} \subseteq ToSetOf(names) \ {Expression}
    BY DEF ToSetOf
  <2> QED BY <1>1, <1>4, <2>1 DEF ToSetOf, ToSet
<1> HIDE DEF cs
<1>6. ToSetOf(Where(cs, T)) \subseteq ToSetOf(cs)
  <2>1. ToSet(Where(cs, T)) = {cs[i] : i \in T}
    BY <1>4, WhereMembers
  <2> QED BY <2>1 DEF ToSetOf, ToSet
<1>7. cs \in Seq(Words)
  <2>1. \A name \in ColumnNames : name \in Words
    <3>1. STRING \subseteq Characters
      BY DEF Characters
    <3>2. \A name \in Seq(STRING) : name \in Seq(Characters)
      BY <3>1, WiderSeq
    <3> QED BY <3>2 DEF ColumnNames, Words
  <2>2. \A i \in 1..Len(cs) : cs[i] \in Words
    BY <1>4, <2>1
  <2> QED BY <1>4, <2>2
<1>8. ParseTextArray(ArrayOut(cs)) = Known(cs)
  BY <1>3, <1>7, ReadBack
<1>9. ToSetOf(names) # {}
  <2>1. 1 \in DOMAIN names
    BY <1>1
  <2> QED BY <2>1 DEF ToSetOf
<1> QED BY <1>2, <1>3, <1>5, <1>6, <1>8, <1>9 DEF names

LEMMA PathsRead ==
  ASSUME NEW r \in Rels, indexes = InitialIndexes
  PROVE  /\ PathsOf(r) = {[columns |-> Known(ColumnsIn(ix)), unique |-> ix.unique] :
                             ix \in {ix \in indexes[r] : \E c \in ToSetOf(ix.keys) : c # Expression}}
         /\ \A path \in PathsOf(r) : ToSetOf(path.columns) \subseteq ToSetOf(InitialCols[r])
<1>1. \A ix \in indexes[r] :
         /\ ParseTextArray(ArrayOut(ColumnsIn(ix))) = Known(ColumnsIn(ix))
         /\ ToSetOf(Known(ColumnsIn(ix))) \subseteq ToSetOf(InitialCols[r])
         /\ ToSetOf(ix.keys) # {Expression} <=> \E c \in ToSetOf(ix.keys) : c # Expression
  BY IndexColumns
<1>2. {ix \in indexes[r] : ToSetOf(ix.keys) # {Expression}}
         = {ix \in indexes[r] : \E c \in ToSetOf(ix.keys) : c # Expression}
  BY <1>1
<1> DEFINE kept == {ix \in indexes[r] : ToSetOf(ix.keys) # {Expression}}
           path(ix) == [columns |-> Known(ColumnsIn(ix)), unique |-> ix.unique]
<1>3. PathsOf(r) = {path(ix) : ix \in kept}
  BY <1>1 DEF PathsOf
<1>4. \A ix : path(ix).columns = Known(ColumnsIn(ix))
  OBVIOUS
<1>5. kept \subseteq indexes[r]
  OBVIOUS
<1> HIDE DEF path, kept
<1>6. \A p \in PathsOf(r) : ToSetOf(p.columns) \subseteq ToSetOf(InitialCols[r])
  BY <1>1, <1>3, <1>4, <1>5
<1> QED BY <1>2, <1>3, <1>6 DEF path, kept

\* Read from a catalog nobody alters, the export says what the catalog says: for any
\* number of schemas, relations, indexes and keys, and whatever the names of columns.
THEOREM QuietExports == Spec => [](Unconfused => QuietExportIsCatalog)
<1>1. IInv /\ QuietInv /\ Unconfused => QuietExportIsCatalog
  <2> SUFFICES ASSUME IInv, QuietInv, Unconfused, Quiet
               PROVE  /\ {<<ent.name, ent.fields, ent.paths>> : ent \in entities} =
                         {<<QualifiedName(r), cols[r],
                            {[columns |-> Known(ColumnsIn(ix)), unique |-> ix.unique] :
                                ix \in {ix \in indexes[r] : \E c \in ToSetOf(ix.keys) : c # Expression}}>> :
                            r \in Present}
                      /\ edges = UNION {EdgesOf(k) : k \in Internal}
                      /\ warnings = UNION {EdgesOf(k) : k \in Own \ Internal}
    BY DEF QuietExportIsCatalog, Known, Own, Internal, Present
  <2> DEFINE paths(r) == {[columns |-> Known(ColumnsIn(ix)), unique |-> ix.unique] :
                             ix \in {ix \in indexes[r] : \E c \in ToSetOf(ix.keys) : c # Expression}}
             entity(ent) == <<ent.name, ent.fields, ent.paths>>
             relation(r) == <<QualifiedName(r), cols[r], paths(r)>>
  <2>1. indexes = InitialIndexes /\ \A ent \in entities : \E r \in Present : Describes(ent, r)
    BY DEF QuietInv, Quiet, QuietTables
  <2>2. \A r \in Present : PathsOf(r) = paths(r)
    BY <2>1, PathsRead DEF Present, Exported
  <2> HIDE DEF paths
  <2>3. \A ent, r : r \in Present /\ Describes(ent, r) => entity(ent) = relation(r)
    BY <2>2 DEF Describes
  <2>4. \A r \in Present : \E ent \in entities : Describes(ent, r)
    <3> TAKE r \in Present
    <3>1. QualifiedName(r) \in NamesOf(Export)
      BY QuietNames
    <3>2. PICK ent \in entities : ent.name = QualifiedName(r)
      BY <3>1 DEF NamesOf, Export
    <3> QED BY <3>2, QuietDescribes
  <2> HIDE DEF entity, relation
  <2>5. {entity(ent) : ent \in entities} = {relation(r) : r \in Present}
    <3>1. ASSUME NEW ent \in entities PROVE entity(ent) \in {relation(r) : r \in Present}
      BY <2>1, <2>3
    <3>2. ASSUME NEW r \in Present PROVE relation(r) \in {entity(ent) : ent \in entities}
      BY <2>3, <2>4
    <3> QED BY <3>1, <3>2
  <2> QED BY <2>5, QuietEdges DEF entity, relation, paths
<1> QED BY InitIInv, Inductive, InitNumbered, NumberedStep, InitNames,
            NamesStep, InitQuiet, QuietStep, <1>1, PTL DEF Spec

\* The export of a catalog nobody alters is accepted by the strict validation when, and
\* only when, no schema that holds an exported relation is listed twice; and whatever
\* other sessions do, it passes the basic one if no schema is listed twice.
LEMMA QuietStrict ==
  ASSUME IInv, NamesInv, EdgesInv, QuietInv, Unconfused, Quiet,
         {r \in Present : r.ns \in ListedTwice} = {}
  PROVE  ValidateStrict(Export)
<1>1. QuietTables
  BY DEF QuietInv, Quiet
<1>2. \A a, b \in entities : a.name = b.name => a = b
  <2> SUFFICES ASSUME NEW a \in entities, NEW b \in entities, a.name = b.name, a # b
               PROVE  FALSE
    OBVIOUS
  <2>1. PICK r \in Exported : a.name = QualifiedName(r) /\ r.ns \in ListedTwice
    BY DEF NamesInv
  <2>2. PICK s \in Present : Describes(a, s)
    BY <1>1 DEF QuietTables
  <2>3. r = s
    BY <2>1, <2>2, QualifiedNameInjective DEF IInv, Present, Describes
  <2> QED BY <2>1, <2>3
<1>3. Validate(Export)
  BY <1>2, ValidIfOnce
<1>4. ASSUME NEW ent \in entities
      PROVE  /\ << >> \notin ToSetOf(ent.fields)
             /\ \A i, j \in DOMAIN ent.fields : ent.fields[i] = ent.fields[j] => i = j
             /\ \A path \in ent.paths :
                   ToSetOf(path.columns) \ DottedNames \subseteq ToSetOf(ent.fields)
  <2>1. PICK r \in Present : Describes(ent, r)
    BY <1>1 DEF QuietTables
  <2>2. r \in Rels /\ ent.fields = InitialCols[r] /\ ent.paths = PathsOf(r)
    BY <1>1, <2>1 DEF Present, Exported, Describes, QuietTables
  <2>3. \A path \in PathsOf(r) : ToSetOf(path.columns) \subseteq ToSetOf(InitialCols[r])
    BY <1>1, <2>2, PathsRead DEF QuietTables
  <2>4. /\ << >> \notin ToSetOf(InitialCols[r])
        /\ \A i, j \in DOMAIN InitialCols[r] : InitialCols[r][i] = InitialCols[r][j] => i = j
    BY <2>2, CatalogAssumption
  <2> QED BY <2>2, <2>3, <2>4
<1>5. ASSUME NEW r \in Present, NEW c \in ToSetOf(cols[r])
      PROVE  c \in FieldsOf(Export, QualifiedName(r))
  <2>1. PICK ent \in entities : ent.name = QualifiedName(r)
    <3>1. QualifiedName(r) \in NamesOf(Export)
      BY QuietNames
    <3> QED BY <3>1 DEF NamesOf, Export
  <2>2. ent.fields = cols[r]
    BY <2>1, QuietDescribes DEF Describes
  <2>3. Export.entities = entities
    BY DEF Export
  <2> QED BY <2>1, <2>2, <2>3 DEF FieldsOf
<1>6. ASSUME NEW e \in edges
      PROVE  /\ e.fromField \in FieldsOf(Export, e.from)
             /\ e.toField \in FieldsOf(Export, e.to)
  <2>1. PICK k \in Internal : e \in EdgesOf(k)
    BY QuietEdges
  <2>2. PICK i \in DOMAIN k.srcCols :
           /\ e.from = QualifiedName(k.src) /\ e.fromField = k.srcCols[i]
           /\ e.to = QualifiedName(k.tgt) /\ e.toField = k.tgtCols[i]
    BY <2>1 DEF EdgesOf
  <2>3. k \in keys /\ k \in CandidateKeys /\ {k.src, k.tgt} \subseteq Exported
    BY DEF Internal, Own, IInv, CatalogInv
  <2>4. Holds(k) /\ DOMAIN k.srcCols = DOMAIN k.tgtCols
    BY <1>1, <2>3, CatalogAssumption DEF QuietTables
  <2>5. k.src \in Present /\ k.tgt \in Present
    BY <2>3, <2>4 DEF Present, Holds
  <2>6. e.fromField \in ToSetOf(cols[k.src]) /\ e.toField \in ToSetOf(cols[k.tgt])
    BY <2>2, <2>4 DEF Holds, ToSetOf
  <2> QED BY <1>5, <2>2, <2>5, <2>6
<1>7. Export.entities = entities /\ Export.edges = edges
  BY DEF Export
<1> QED BY <1>3, <1>4, <1>6, <1>7 DEF ValidateStrict

\* Unless a name is confused, an export whose schemas are listed once passes Validate,
\* and with no DDL during the extraction ValidateStrict refuses it exactly when a table
\* comes from a schema that is listed twice.
THEOREM ExportsValidate == Spec => [](Unconfused => ExportValidates)
<1>1. IInv /\ NamesInv /\ EdgesInv /\ QuietInv /\ Unconfused => ExportValidates
  <2> SUFFICES ASSUME IInv, NamesInv, EdgesInv, QuietInv, Unconfused
               PROVE  /\ stage = "done" /\ ListedTwice = {} => Validate(Export)
                      /\ Quiet => (ValidateStrict(Export) <=> {r \in Present : r.ns \in ListedTwice} = {})
    BY DEF ExportValidates, Present
  <2>1. stage = "done" /\ ListedTwice = {} => Validate(Export)
    BY ValidIfOnce DEF NamesInv
  <2>2. ASSUME Quiet, ValidateStrict(Export), NEW r \in Present, r.ns \in ListedTwice
        PROVE  FALSE
    <3>1. \A a, b \in entities : a.name = b.name => a = b
      BY <2>2 DEF ValidateStrict, Validate, Export
    <3>2. PICK i \in DOMAIN schemas, j \in DOMAIN schemas :
             i # j /\ schemas[i] = r.ns /\ schemas[j] = r.ns
      BY <2>2 DEF ListedTwice
    <3>3. i \in Nat /\ j \in Nat
      BY DEF IInv, LoopInv
    <3>4. QuietTwice /\ stage = "done"
      BY <2>2 DEF QuietInv, Quiet
    <3>5. Twice(r)
      BY <3>2, <3>3, <3>4 DEF QuietTwice, Read
    <3> QED BY <3>1, <3>5 DEF Twice
  <2>3. Quiet /\ {r \in Present : r.ns \in ListedTwice} = {} => ValidateStrict(Export)
    BY QuietStrict
  <2> QED BY <2>1, <2>2, <2>3
<1> QED BY InitIInv, Inductive, InitNumbered, NumberedStep, InitNames, NamesStep, EdgesStep,
           InitQuiet, QuietStep, <1>1, PTL DEF Spec
=============================================================================
