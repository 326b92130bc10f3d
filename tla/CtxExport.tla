------------------------------ MODULE CtxExport ------------------------------
(***************************************************************************)
(* The ctxexport document of pkg/schema and the operations the pipeline    *)
(* performs on it.  An entity carries its position in the document, so a   *)
(* set of entities keeps the order and the duplicates of the Go slice.  Of *)
(* an entity only the names matter here: its own, its fields in order, and *)
(* the columns of its access paths, in order.  A name is a sequence.       *)
(***************************************************************************)
EXTENDS Integers, Sequences, FiniteSets

CONSTANTS DottedNames   \* column names that contain a dot (nested paths)

ToSetOf(seq) == {seq[i] : i \in DOMAIN seq}

NamesOf(export) == {ent.name : ent \in export.entities}

FieldsOf(export, name) ==
    UNION {ToSetOf(ent.fields) : ent \in {e \in export.entities : e.name = name}}

-----------------------------------------------------------------------------
\* CtxExport.Validate: named entities, each once, and edges between them.
Validate(export) ==
    /\ export.version # ""
    /\ << >> \notin NamesOf(export)
    /\ \A a, b \in export.entities : a.name = b.name => a = b
    /\ \A edge \in export.edges :
          /\ << >> \notin {edge.fromField, edge.toField}
          /\ {edge.from, edge.to} \subseteq NamesOf(export)

\* CtxExport.ValidateStrict: fields are named, each once, and every column an
\* access path or an edge mentions is a field.
ValidateStrict(export) ==
    /\ Validate(export)
    /\ \A ent \in export.entities :
          /\ << >> \notin ToSetOf(ent.fields)
          /\ \A i, j \in DOMAIN ent.fields : ent.fields[i] = ent.fields[j] => i = j
          /\ \A path \in ent.paths :
                ToSetOf(path.columns) \ DottedNames \subseteq ToSetOf(ent.fields)
    /\ \A edge \in export.edges :
          /\ edge.fromField \in FieldsOf(export, edge.from)
          /\ edge.toField \in FieldsOf(export, edge.to)
=============================================================================
