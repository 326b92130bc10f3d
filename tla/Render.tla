-------------------------------- MODULE Render --------------------------------
(***************************************************************************)
(* The renderers of internal/compile: renderDDL and renderLighthouse.      *)
(* A document is [entities, edges], an entity [name, kind, comment,        *)
(* fields, paths], a field [name, pk, notNull, embeds, comment], a path    *)
(* [name, cols, unique], an edge [from, fromField, to, toField].  Names    *)
(* and comments are sequences of characters.                               *)
(*                                                                         *)
(* What is written is a sequence of statements (records), each of which    *)
(* has a text: a sequence of characters and of whole keywords.  Types,     *)
(* defaults, layout and the two heading comments are left out.  A field's  *)
(* comment stands for its description and values together.                 *)
(***************************************************************************)
EXTENDS Selection, FiniteSets

CONSTANTS
    WordChars,  \* a-z and 0-9
    Digits,     \* 0-9
    Lower,      \* Lower[c]: strings.ToLower of a character
    Reserved    \* sqlReservedWords

QuoteMark == "\""
Chars == DOMAIN Lower

LowerCase(name) == [i \in DOMAIN name |-> Lower[name[i]]]

\* Faulty variant (for the mutation runs, as those below): a first digit and a
\* capital are no reason to quote.
NeedsQuotesPunctuation(name) ==
    \/ name = << >> \/ LowerCase(name) \in Reserved
    \/ ToSet(LowerCase(name)) \ (WordChars \cup {"_"}) # {}

NeedsQuotes(name) ==
    \/ name = << >> \/ LowerCase(name) \in Reserved
    \/ name[1] \in Digits
    \/ ToSet(name) \ (WordChars \cup {"_"}) # {}

\* quoteIdentifier
Ident(name) ==
    LET char(c) == IF c = QuoteMark THEN <<c, c>> ELSE <<c>>
    IN  IF NeedsQuotes(name)
        THEN <<QuoteMark>> \o FlattenSeq([i \in 1..Len(name) |-> char(name[i])]) \o <<QuoteMark>>
        ELSE name

\* strings.Join
Separated(texts, sep) ==
    FlattenSeq([i \in 1..Len(texts) |-> IF i < Len(texts) THEN Append(texts[i], sep) ELSE texts[i]])

Idents(names) == [i \in 1..Len(names) |-> Ident(names[i])]
IdentList(names) == Separated(Idents(names), ",")

\* A name with one dot inside it is a schema and a table.
NameParts(name) ==
    LET dot == SelectInSeq(name, LAMBDA c : c = ".")
        left == SubSeq(name, 1, dot - 1)
        right == SubSeq(name, dot + 1, Len(name))
    IN  IF dot > 1 /\ dot < Len(name) /\ "." \notin ToSet(right) THEN <<left, right>> ELSE <<name>>

\* quoteQualifiedName
QualifiedIdent(name) == Separated(Idents(NameParts(name)), ".")

Comment(text) == IF text = << >> THEN << >> ELSE <<"--">> \o text

-----------------------------------------------------------------------------
PKs(ent) == Where(ent.fields, {i \in 1..Len(ent.fields) : ent.fields[i].pk})

\* The column list of renderCreateTable: a single key is marked on its column,
\* a composite one is a clause of its own.
Items(ent) ==
    LET composite == Len(PKs(ent)) > 1
        column(i) == LET f == ent.fields[i] single == f.pk /\ ~composite IN
            [op |-> "column", col |-> f.name, pk |-> single, notNull |-> f.notNull /\ ~single,
             comma |-> i < Len(ent.fields) \/ composite, comment |-> f.comment]
        clause == [op |-> "keys", keys |-> [i \in 1..Len(PKs(ent)) |-> PKs(ent)[i].name]]
    IN  [i \in 1..Len(ent.fields) |-> column(i)] \o (IF composite THEN <<clause>> ELSE << >>)

\* CREATE TABLE and its indexes; a view is a comment and has none.
EntityStatements(ent) ==
    IF ent.kind = "view"
    THEN <<[op |-> "view", table |-> ent.name,
            cols |-> [i \in 1..Len(ent.fields) |-> ent.fields[i].name]]>>
    ELSE <<[op |-> "table", table |-> ent.name, comment |-> ent.comment, items |-> Items(ent)]>>
         \o [i \in 1..Len(ent.paths) |->
               [op |-> IF ent.paths[i].unique THEN "unique" ELSE "index",
                table |-> ent.name, name |-> ent.paths[i].name, cols |-> ent.paths[i].cols]]

EdgeStatements(edges) ==
    [i \in 1..Len(edges) |-> [op |-> "fk", table |-> edges[i].from, edge |-> edges[i]]]

\* Faulty variant: foreign keys first.
RenderDDLKeysFirst(entities, edges) ==
    EdgeStatements(edges)
    \o FlattenSeq([i \in 1..Len(entities) |-> EntityStatements(entities[i])])

RenderDDL(entities, edges) ==
    FlattenSeq([i \in 1..Len(entities) |-> EntityStatements(entities[i])])
    \o EdgeStatements(edges)

-----------------------------------------------------------------------------
ItemText(item) ==
    IF item.op = "keys"
    THEN <<"PRIMARY KEY", "(">> \o IdentList(item.keys) \o <<")", "\n">>
    ELSE Ident(item.col)
         \o (IF item.pk THEN <<"PRIMARY KEY">> ELSE << >>)
         \o (IF item.notNull THEN <<"NOT NULL">> ELSE << >>)
         \o (IF item.comma THEN <<",">> ELSE << >>)
         \o Comment(item.comment) \o <<"\n">>

\* The text of a statement of renderDDL, or of the note of a bundle.
StatementText(s) ==
    CASE s.op = "note" -> <<"--", "\n">>
      [] s.op = "view" -> <<"--">> \o QualifiedIdent(s.table)
                          \o <<"(">> \o IdentList(s.cols) \o <<")", "\n">>
      [] s.op = "table" -> <<"CREATE TABLE">> \o QualifiedIdent(s.table) \o <<"(">>
                           \o Comment(s.comment) \o <<"\n">>
                           \o FlattenSeq([i \in 1..Len(s.items) |-> ItemText(s.items[i])])
                           \o <<")", ";", "\n">>
      [] s.op = "unique" -> <<"ALTER TABLE">> \o QualifiedIdent(s.table) \o <<"ADD UNIQUE", "(">>
                            \o IdentList(s.cols) \o <<")", ";", "\n">>
      [] s.op = "index" -> <<"CREATE INDEX">> \o Ident(s.name) \o <<"ON">> \o QualifiedIdent(s.table)
                           \o <<"(">> \o IdentList(s.cols) \o <<")", ";", "\n">>
      [] s.op = "fk" -> <<"ALTER TABLE">> \o QualifiedIdent(s.edge.from) \o <<"ADD FOREIGN KEY", "(">>
                        \o Ident(s.edge.fromField) \o <<")", "REFERENCES">>
                        \o QualifiedIdent(s.edge.to) \o <<"(">> \o Ident(s.edge.toField)
                        \o <<")", ";", "\n">>

-----------------------------------------------------------------------------
\* Faulty variant: only the forward direction is added to the graph.
NeighborsForward(name, edges) == {edges[i].to : i \in {i \in DOMAIN edges : edges[i].from = name}}

\* BuildGraph and Neighbors: both directions of every edge.
Neighbors(name, edges) ==
    {edges[i].to : i \in {i \in DOMAIN edges : edges[i].from = name}}
    \cup {edges[i].from : i \in {i \in DOMAIN edges : edges[i].to = name}}

\* sanitizeLighthouse: what delimits the format is dropped or becomes a blank.
Sanitize(name) ==
    LET char(c) == CASE c \in {"|", "=", "(", ")", ">", ":", "#", "\r"} -> << >>
                     [] c \in {",", "\n"} -> <<" ">>
                     [] OTHER -> <<c>>
    IN  FlattenSeq([i \in 1..Len(name) |-> char(name[i])])

Sanitized(names) == [i \in 1..Len(names) |-> Sanitize(names[i])]

\* embeddedFieldNames
Embedded(ent) ==
    LET docs == Where(ent.fields, {i \in 1..Len(ent.fields) : ent.fields[i].embeds})
    IN  Sanitized([i \in 1..Len(docs) |-> docs[i].name])

\* The fields of a line.  The neighbours of a table are sorted in the code; any
\* order here.
LineFields(ent, edges) ==
    LET joins == SetToSeq(Neighbors(ent.name, edges))
        field(letter, names) ==
            IF names = << >> THEN << >> ELSE <<<<letter, ":">> \o Separated(names, ",")>>
    IN  field("T", <<Sanitize(ent.name)>>) \o field("E", Embedded(ent)) \o field("J", Sanitized(joins))

LighthouseText(ent, edges) == Separated(LineFields(ent, edges), "|") \o <<"\n">>

RenderLighthouse(entities, edges) ==
    [i \in 1..Len(entities) |-> [op |-> "line", text |-> LighthouseText(entities[i], edges)]]
=============================================================================
