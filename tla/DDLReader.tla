------------------------------ MODULE DDLReader ------------------------------
(***************************************************************************)
(* How the compiled text is read: DDL by the rules of SQL (comments,       *)
(* quoted names, folding, reserved words, nesting), a lighthouse line by   *)
(* its delimiters.  This is the reader's side, not a part of the program:  *)
(* the properties of compile are about what it gets.                       *)
(***************************************************************************)
EXTENDS Render

CONSTANT SqlWords   \* words that SQL does not take for a name

\* A lexeme is a name or a symbol.
Name(word) == [sym |-> "name", id |-> word]
Symbol(token) == [sym |-> token, id |-> << >>]

WordChar(c) == c \in DOMAIN Lower /\ Lower[c] \in WordChars \cup {"_"}

Symbols == {"(", ")", ",", ";", ".", "CREATE TABLE", "CREATE INDEX", "ALTER TABLE", "ON",
            "ADD UNIQUE", "ADD FOREIGN KEY", "REFERENCES", "PRIMARY KEY", "NOT NULL"}

\* Letters, digits and underscores make words and the marks of SQL do not; a word SQL
\* reserves is a plain one in lower case.
ASSUME ReaderAssumption ==
    /\ "_" \notin WordChars /\ "misread" \notin Chars
    /\ \A c \in WordChars \cup {"_"} : c \in Chars /\ Lower[c] = c
    /\ \A c \in Symbols \cup {QuoteMark, "--", " ", "\n"} : ~WordChar(c)
    /\ \A word \in SqlWords : /\ word \in Seq(WordChars \cup {"_"})
                              /\ word # << >> /\ word[1] \notin Digits

\* A plain word is folded to lower case; it is no name if SQL reserves it.
Word(word) ==
    IF LowerCase(word) \in SqlWords \/ word[1] \in Digits THEN Symbol("stray")
    ELSE Name(LowerCase(word))

Reading(where, word, out) == [in |-> where, word |-> word, out |-> out]

\* What has been read once the word at hand is complete.
Flushed(s) ==
    CASE s.in = "word" -> Append(s.out, Word(s.word))
      [] s.in = "closing" -> Append(s.out, Name(s.word))
      [] OTHER -> s.out

LexStep(s, c) ==
    CASE s.in = "comment" -> IF c = "\n" THEN Reading("sql", << >>, s.out) ELSE s
      [] s.in = "quoted" -> Reading(IF c = QuoteMark THEN "closing" ELSE "quoted",
                                    IF c = QuoteMark THEN s.word ELSE Append(s.word, c), s.out)
      [] s.in = "closing" /\ c = QuoteMark -> Reading("quoted", Append(s.word, c), s.out)
      [] s.in = "word" /\ WordChar(c) -> Reading("word", Append(s.word, c), s.out)
      [] OTHER ->
            CASE c = QuoteMark -> Reading("quoted", << >>, Flushed(s))
              [] c = "--" -> Reading("comment", << >>, Flushed(s))
              [] c \in {" ", "\n"} -> Reading("sql", << >>, Flushed(s))
              [] c \in Symbols -> Reading("sql", << >>, Append(Flushed(s), Symbol(c)))
              [] WordChar(c) -> Reading("word", <<c>>, Flushed(s))
              [] OTHER -> Reading("sql", << >>, Append(Flushed(s), Symbol("stray")))

\* The lexemes of a text, and where it leaves the reader: out of comments and names
\* ("sql"), or in the middle of one.
Lexed(text) ==
    LET read[n \in 0..Len(text)] ==
            IF n = 0 THEN Reading("sql", << >>, << >>) ELSE LexStep(read[n - 1], text[n])
    IN  read[Len(text)]

\* The parts of a sequence between the separators that no parenthesis encloses.
SplitStep(s, x, sep, open, close) ==
    IF x = sep /\ s.depth = 0 THEN [depth |-> 0, done |-> Append(s.done, s.part), part |-> << >>]
    ELSE [depth |-> IF x \in open THEN s.depth + 1 ELSE IF x \in close THEN s.depth - 1 ELSE s.depth,
          done |-> s.done, part |-> Append(s.part, x)]

Split(seq, sep, open, close) ==
    LET read[n \in 0..Len(seq)] ==
            IF n = 0 THEN [depth |-> 0, done |-> << >>, part |-> << >>]
            ELSE SplitStep(read[n - 1], seq[n], sep, open, close)
    IN  Append(read[Len(seq)].done, read[Len(seq)].part)

Parts(lexemes, sep) == Split(lexemes, Symbol(sep), {Symbol("(")}, {Symbol(")")})
Cut(text, sep) == Split(text, sep, {}, {})

Misread == <<"misread">>
OneName(lexemes) ==
    IF Len(lexemes) = 1 /\ lexemes[1].sym = "name" THEN lexemes[1].id ELSE Misread
EachName(parts) == [i \in 1..Len(parts) |-> OneName(parts[i])]
Names(lexemes) == EachName(Parts(lexemes, ","))
QualifiedName(lexemes) == Separated(EachName(Parts(lexemes, ".")), ".")

\* Position of a symbol.
At(st, token) == SelectInSeq(st, LAMBDA x : x.sym = token)
Inside(st, a, b) == SubSeq(st, a + 1, b - 1)

\* An item of a table is a column and what marks it, or the clause of the key.
IsClause(it) == it # << >> /\ it[1].sym = "PRIMARY KEY"
ItemName(it) == IF it = << >> THEN Misread ELSE OneName(SubSeq(it, 1, 1))
Marks(it) == {it[i].sym : i \in 2..Len(it)}

ReadItems(table, items) ==
    LET columns == Where(items, {i \in 1..Len(items) : ~IsClause(items[i])})
        keys == {ItemName(it) : it \in {it \in ToSet(columns) : "PRIMARY KEY" \in Marks(it)}}
                \cup UNION {ToSet(Names(Inside(it, 2, Len(it)))) : it \in {it \in ToSet(items) : IsClause(it)}}
    IN  [op |-> "table", table |-> table, keys |-> keys,
         columns |-> [i \in 1..Len(columns) |->
            [name |-> ItemName(columns[i]),
             required |-> "NOT NULL" \in Marks(columns[i]) \/ ItemName(columns[i]) \in keys,
             clean |-> Marks(columns[i]) \subseteq {"PRIMARY KEY", "NOT NULL"}]]]

ReadTable(st) ==
    LET body == Inside(st, At(st, "("), Len(st))
    IN  ReadItems(QualifiedName(Inside(st, 1, At(st, "("))), IF body = << >> THEN << >> ELSE Parts(body, ","))

ReadIndex(st) ==
    [op |-> "index", name |-> OneName(Inside(st, 1, At(st, "ON"))),
     table |-> QualifiedName(Inside(st, At(st, "ON"), At(st, "("))),
     cols |-> Names(Inside(st, At(st, "("), Len(st)))]

ReadAlter(st) ==
    LET open == At(st, "(") close == At(st, ")")
        table == QualifiedName(Inside(st, 1, open - 1))
        cols == Names(Inside(st, open, close))
        target == SubSeq(st, close + 1, Len(st))
    IN  IF target = << >> THEN [op |-> "unique", table |-> table, cols |-> cols]
        ELSE [op |-> "fk", table |-> table, cols |-> cols,
              target |-> QualifiedName(Inside(target, 1, At(target, "("))),
              targetCols |-> Names(Inside(target, At(target, "("), Len(target)))]

ReadStatement(st) ==
    CASE st[1].sym = "CREATE TABLE" -> ReadTable(st)
      [] st[1].sym = "CREATE INDEX" -> ReadIndex(st)
      [] st[1].sym = "ALTER TABLE" -> ReadAlter(st)
      [] OTHER -> [op |-> "misread"]

\* What a database is told by a DDL file, given as consecutive texts.  A text that
\* leaves a quoted name, a comment or a statement open spoils what follows; if
\* none does, the file reads as its texts do one by one.
ReadDDL(texts) ==
    UNION {LET lexed == Lexed(texts[i])
               parts == Parts(lexed.out, ";")
           IN  IF lexed.in # "sql" \/ Last(parts) # << >> THEN {[op |-> "misread"]}
               ELSE {ReadStatement(st) : st \in ToSet(parts) \ {<< >>}}
           : i \in DOMAIN texts}

-----------------------------------------------------------------------------
\* The same facts as the document states them.
EntityFacts(ent) ==
    IF ent.kind = "view" THEN {}
    ELSE {[op |-> "table", table |-> ent.name,
           keys |-> {f.name : f \in {f \in ToSet(ent.fields) : f.pk}},
           columns |-> [i \in 1..Len(ent.fields) |->
              [name |-> ent.fields[i].name, clean |-> TRUE,
               required |-> ent.fields[i].notNull \/ ent.fields[i].pk]]]}
         \cup {IF p.unique THEN [op |-> "unique", table |-> ent.name, cols |-> p.cols]
               ELSE [op |-> "index", name |-> p.name, table |-> ent.name, cols |-> p.cols]
               : p \in ToSet(ent.paths)}

EdgeFact(e) == [op |-> "fk", table |-> e.from, cols |-> <<e.fromField>>,
                target |-> e.to, targetCols |-> <<e.toField>>]

\* A lighthouse line: the table, its embedded documents, the tables it joins.
ReadLine(line) ==
    LET fields == Cut(line, "|")
        listed(letter) == UNION {ToSet(Cut(SubSeq(f, 3, Len(f)), ",")) :
                                 f \in {f \in ToSet(fields) : SubSeq(f, 1, 2) = <<letter, ":">>}}
    IN  [T |-> listed("T"), E |-> listed("E"), J |-> listed("J")]
=============================================================================
