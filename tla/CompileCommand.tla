---------------------------- MODULE CompileCommand ----------------------------
(***************************************************************************)
(* dbdense compile (newCompileCmd, compileLighthouse and                   *)
(* compileSplitBySchema of cmd/dbdense/main.go): one document is loaded    *)
(* and written as one DDL file, as a lighthouse file, or as one DDL file   *)
(* per namespace into a directory.  The command may fail or be killed at   *)
(* any write, and be run again, on another document.                       *)
(*                                                                         *)
(* Names are sequences of characters, because namespaces and file names    *)
(* are cut out of them; they have no blanks around them.                   *)
(***************************************************************************)
EXTENDS DDLReader

CONSTANTS
    Exports,    \* documents LoadExport may return
    Modes,      \* subset of {"full", "schema", "lighthouse"}
    MaxRuns     \* bound: runs of the command

\* What LoadExport asks of a document (ValidateStrict), as far as it matters here:
\* entities of different names with fields of different names, and edges between
\* them; lists are lists and names sequences of characters.
Listed(seq) == seq \in Seq(ToSet(seq))
LoadedEntity(ent) ==
    /\ ent.name \in Seq(Chars) /\ Listed(ent.comment) /\ Listed(ent.fields) /\ Listed(ent.paths)
    /\ \A f \in ToSet(ent.fields) : f.name \in Seq(Chars) /\ Listed(f.comment)
    /\ \A i, j \in DOMAIN ent.fields : ent.fields[i].name = ent.fields[j].name => i = j
    /\ \A p \in ToSet(ent.paths) : p.name \in Seq(Chars) /\ p.cols \in Seq(Seq(Chars))

Loaded(doc) ==
    /\ Listed(doc.entities) /\ Listed(doc.edges)
    /\ \A i, j \in DOMAIN doc.entities : doc.entities[i].name = doc.entities[j].name => i = j
    /\ \A ent \in ToSet(doc.entities) : LoadedEntity(ent)
    /\ \A edge \in ToSet(doc.edges) :
          /\ {edge.from, edge.to} \subseteq {ent.name : ent \in ToSet(doc.entities)}
          /\ {edge.fromField, edge.toField} \subseteq Seq(Chars)

ASSUME CompileAssumption ==
    /\ Modes \subseteq {"full", "schema", "lighthouse"}
    /\ \A doc \in Exports : Loaded(doc)

VARIABLES
    export, mode,     \* of the current run
    todo,             \* files it has still to write: [file, content]
    current,          \* the file it has open
    written,          \* files it has written
    stage,            \* "idle", "create", "write"
    outcome,          \* of the last run: "none", "ok", "failed"
    runs,             \* runs so far
    dir               \* the files: content by name

vars == <<export, mode, todo, current, written, stage, outcome, runs, dir>>

-----------------------------------------------------------------------------
Default == <<"default">>

\* entityNamespace: what stands before the first dot, unless it is at the start.
Namespace(name) ==
    LET dot == SelectInSeq(name, LAMBDA c : c = ".")
    IN  IF dot > 1 THEN SubSeq(name, 1, dot - 1) ELSE Default

\* A run of other characters becomes one underscore, in place of the first of them,
\* but for a run at the start.
Fold(ns) ==
    LET word(i) == Lower[ns[i]] \in WordChars
        slug(i) == IF word(i) THEN <<Lower[ns[i]]>>
                   ELSE IF i > 1 /\ word(i - 1) THEN <<"_">> ELSE << >>
    IN  FlattenSeq([i \in 1..Len(ns) |-> slug(i)])

\* Faulty variant (for the mutation runs, as those below): no strings.Trim.
NamespaceFileUntrimmed(ns) == IF Fold(ns) = << >> THEN Default ELSE Fold(ns)

\* namespaceFileName, without its suffix.
NamespaceFile(ns) ==
    LET slug == Fold(ns)
        trimmed == IF slug # << >> /\ Last(slug) = "_" THEN Front(slug) ELSE slug
    IN  IF trimmed = << >> THEN Default ELSE trimmed

Namespaces(doc) == {Namespace(doc.entities[i].name) : i \in DOMAIN doc.entities}

EntitiesOf(doc, ns) ==
    Where(doc.entities, {i \in DOMAIN doc.entities : Namespace(doc.entities[i].name) = ns})

Ends(edge) == {Namespace(edge.from), Namespace(edge.to)}

\* Faulty variant: an edge goes to the namespace it starts in.
EdgesOfSource(doc, ns) ==
    Where(doc.edges, {i \in DOMAIN doc.edges : Namespace(doc.edges[i].from) = ns})

\* An edge goes to the namespace of each of its ends, once.
EdgesOf(doc, ns) == Where(doc.edges, {i \in DOMAIN doc.edges : ns \in Ends(doc.edges[i])})

\* Faulty variant: only edges that leave the namespace count.
CrossSchemaOutgoing(doc, ns) ==
    \E i \in DOMAIN doc.edges : /\ Namespace(doc.edges[i].from) = ns
                                /\ Cardinality(Ends(doc.edges[i])) = 2

CrossSchema(doc, ns) ==
    \E i \in DOMAIN doc.edges : /\ ns \in Ends(doc.edges[i])
                                /\ Cardinality(Ends(doc.edges[i])) = 2

Bundle(doc, ns) ==
    (IF CrossSchema(doc, ns) THEN <<[op |-> "note"]>> ELSE << >>)
    \o RenderDDL(EntitiesOf(doc, ns), EdgesOf(doc, ns))

\* The files a run writes.
Plan(doc, m) ==
    CASE m = "full"       -> {[file |-> <<"ctxpack">>, content |-> RenderDDL(doc.entities, doc.edges)]}
      [] m = "lighthouse" -> {[file |-> <<"lighthouse">>, content |-> RenderLighthouse(doc.entities, doc.edges)]}
      [] m = "schema"     -> {[file |-> NamespaceFile(ns), content |-> Bundle(doc, ns)] : ns \in Namespaces(doc)}

-----------------------------------------------------------------------------
NoJob == [file |-> << >>, content |-> << >>]

Init ==
    /\ export \in Exports
    /\ mode \in Modes
    /\ todo = {} /\ current = NoJob /\ written = {}
    /\ stage = "idle" /\ outcome = "none" /\ runs = 0
    /\ dir = << >>

Begin ==
    /\ stage = "idle"
    /\ runs < MaxRuns
    /\ runs' = runs + 1
    /\ \E doc \in Exports, m \in Modes :
          /\ export' = doc /\ mode' = m
          /\ todo' = Plan(doc, m)
    /\ written' = {} /\ current' = NoJob
    /\ stage' = "create" /\ outcome' = "none"
    /\ UNCHANGED dir

Put(file, content) ==
    dir' = [f \in DOMAIN dir \cup {file} |-> IF f = file THEN content ELSE dir[f]]

\* os.Create of the next file.  The code goes through the namespaces in order;
\* what it leaves on disk when it is stopped depends on that order, so any is taken.
CreateFile ==
    /\ stage = "create"
    /\ \E job \in todo :
          /\ todo' = todo \ {job}
          /\ current' = job
          /\ Put(job.file, << >>)
    /\ stage' = "write"
    /\ UNCHANGED <<export, mode, written, outcome, runs>>

WriteFile ==
    /\ stage = "write"
    /\ Put(current.file, current.content)
    /\ written' = written \cup {current.file}
    /\ stage' = "create"
    /\ UNCHANGED <<export, mode, todo, current, outcome, runs>>

\* A write fails half way, or the process is killed there.
FailWrite ==
    /\ stage = "write"
    /\ \E n \in 0..(Len(current.content) - 1) : Put(current.file, SubSeq(current.content, 1, n))
    /\ stage' = "idle" /\ outcome' = "failed"
    /\ UNCHANGED <<export, mode, todo, current, written, runs>>

\* The document is refused, a file cannot be created, or the process is killed.
FailCreate ==
    /\ stage = "create"
    /\ stage' = "idle" /\ outcome' = "failed"
    /\ UNCHANGED <<export, mode, todo, current, written, runs, dir>>

Finish ==
    /\ stage = "create"
    /\ todo = {}
    /\ stage' = "idle" /\ outcome' = "ok"
    /\ UNCHANGED <<export, mode, todo, current, written, runs, dir>>

Stop == stage = "idle" /\ runs = MaxRuns /\ UNCHANGED vars

Next == Begin \/ CreateFile \/ WriteFile \/ FailWrite \/ FailCreate \/ Finish \/ Stop

Spec == Init /\ [][Next]_vars

-----------------------------------------------------------------------------
TypeOK ==
    /\ export \in Exports /\ mode \in Modes
    /\ stage \in {"idle", "create", "write"}
    /\ outcome \in {"none", "ok", "failed"}
    /\ written \subseteq DOMAIN dir
    /\ \A file \in DOMAIN dir : file # << >> /\ Last(file) # "_"

Succeeded == stage = "idle" /\ outcome = "ok"

Statements(file) == ToSet(dir[file])
TablesIn(file) == {s.table : s \in {s \in Statements(file) : s.op \in {"table", "view"}}}
KeysIn(file) == {s.edge : s \in {s \in Statements(file) : s.op = "fk"}}

\* After a successful run every entity is in one of the files it wrote, and every
\* foreign key is in the file of each of the two tables it joins.
EverythingOnDisk ==
    Succeeded /\ mode # "lighthouse" =>
        /\ \A ent \in ToSet(export.entities) :
              Cardinality({f \in written : ent.name \in TablesIn(f)}) = 1
        /\ \A edge \in ToSet(export.edges) : \A f \in written :
              {edge.from, edge.to} \cap TablesIn(f) # {} => edge \in KeysIn(f)

\* A written bundle says that it refers to tables of other schemas exactly when a
\* foreign key in it does; any other joins two tables of the bundle.
NoteIsTrue ==
    mode = "schema" =>
        \A f \in written :
            (\E s \in Statements(f) : s.op = "note")
                <=> (\E e \in KeysIn(f) : ~({e.from, e.to} \subseteq TablesIn(f)))

\* In every file, a torn one too, a statement about a table comes after the
\* table's definition (for a foreign key that crosses schemas, after one of the
\* two).
StatementsGrounded ==
    \A f \in DOMAIN dir : \A i \in DOMAIN dir[f] :
        LET s == dir[f][i]
            before == {dir[f][j].table : j \in {j \in 1..(i - 1) : dir[f][j].op \in {"table", "view"}}}
        IN  /\ s.op \in {"index", "unique"} => s.table \in before
            /\ s.op = "fk" => {s.edge.from, s.edge.to} \cap before # {}

\* The characters of some tables that a comment shows as they are.
Shown(tables) ==
    UNION {IF ent.kind = "view" THEN ToSet(ent.name) \cup UNION {ToSet(f.name) : f \in ToSet(ent.fields)}
           ELSE ToSet(ent.comment) \cup UNION {ToSet(f.comment) : f \in ToSet(ent.fields)} :
           ent \in tables}

\* The names that statements about some tables and foreign keys use.
Used(tables, keys) ==
    (UNION {ToSet(NameParts(ent.name)) \cup {f.name : f \in ToSet(ent.fields)}
            \cup (UNION {ToSet(p.cols) \cup (IF p.unique THEN {} ELSE {p.name}) : p \in ToSet(ent.paths)}) :
            ent \in {ent \in tables : ent.kind # "view"}})
    \cup UNION {ToSet(NameParts(e.from)) \cup ToSet(NameParts(e.to)) \cup {e.fromField, e.toField} : e \in keys}

\* A written DDL file without a line break in a comment, read as SQL, is the tables
\* of the document that are in it: their names, columns, keys, NOT NULLs and indexes,
\* and its foreign keys, with nothing of a comment, a view or a quoted name leaking
\* into a statement; but when a name it uses is a word SQL reserves and the code's
\* list does not hold, or an index has no columns, and then it is not.
DDLReadsBack ==
    Succeeded /\ mode # "lighthouse" => \A f \in written :
        LET tables == {ent \in ToSet(export.entities) : ent.name \in TablesIn(f)}
            facts == (UNION {EntityFacts(ent) : ent \in tables}) \cup {EdgeFact(e) : e \in KeysIn(f)}
            sound == /\ Used(tables, KeysIn(f)) \cap (SqlWords \ Reserved) = {}
                     /\ \A ent \in tables : ent.kind # "view" => \A p \in ToSet(ent.paths) : p.cols # << >>
        IN  "\n" \notin Shown(tables) =>
                (sound <=> ReadDDL([i \in 1..Len(dir[f]) |-> StatementText(dir[f][i])]) = facts)

\* Read line by line, the lighthouse is the tables of the document in their order,
\* each with its embedded documents, and two of them name each other exactly when
\* a foreign key joins them; no name can add a line or a part of one.
LighthouseReadsBack ==
    Succeeded /\ mode = "lighthouse" =>
        LET lines == dir[<<"lighthouse">>]
            text == FlattenSeq([i \in DOMAIN lines |-> lines[i].text])
            joined(a) == {b \in {ent.name : ent \in ToSet(export.entities)} :
                            \E e \in ToSet(export.edges) : {e.from, e.to} = {a, b}}
            shown(ent) == [T |-> {Sanitize(ent.name)},
                           E |-> {Sanitize(f.name) : f \in {f \in ToSet(ent.fields) : f.embeds}},
                           J |-> {Sanitize(b) : b \in joined(ent.name)}]
            read == Cut(text, "\n")
        IN  [i \in 1..(Len(read) - 1) |-> ReadLine(read[i])]
                = [i \in DOMAIN export.entities |-> shown(export.entities[i])]
=============================================================================
