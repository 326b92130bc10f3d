---------------------------- MODULE CompileProofs ----------------------------
(***************************************************************************)
(* For any documents that load: in every file dbdense compile leaves       *)
(* behind, a torn one too, statements come after the tables they are about *)
(* (AlwaysGrounded); and for documents whose namespaces have files of      *)
(* their own, a run that succeeds has the whole document on disk (OnDisk)  *)
(* and the notes on its files are true (NotesTrue).  Files have names that *)
(* do not end in an underscore (TypeCorrect).  A file that was written     *)
(* tells its reader what the document says: a lighthouse always            *)
(* (LighthouseReads), a DDL file but for the cases DDLReadsBack lists      *)
(* (DDLReads).                                                             *)
(***************************************************************************)
EXTENDS CompileCommand, SequenceLemmas

\* What the statements of a file say, as the properties read them.
TablesOf(c) == {s.table : s \in {s \in ToSet(c) : s.op \in {"table", "view"}}}
KeysOf(c) == {s.edge : s \in {s \in ToSet(c) : s.op = "fk"}}
HasNote(c) == \E s \in ToSet(c) : s.op = "note"

TablesBefore(c, i) == {c[j].table : j \in {j \in 1..(i - 1) : c[j].op \in {"table", "view"}}}

Grounded(c) ==
    \A i \in DOMAIN c : /\ c[i].op \in {"index", "unique"} => c[i].table \in TablesBefore(c, i)
                        /\ c[i].op = "fk" => {c[i].edge.from, c[i].edge.to} \cap TablesBefore(c, i) # {}

\* The definition of an entity comes first, then its indexes.
LEMMA EntityBlock ==
  ASSUME NEW ent, Listed(ent.paths)
  PROVE  /\ Listed(EntityStatements(ent)) /\ Len(EntityStatements(ent)) >= 1
         /\ EntityStatements(ent)[1].op \in {"table", "view"}
         /\ EntityStatements(ent)[1].table = ent.name
         /\ \A j \in 1..Len(EntityStatements(ent)) :
               /\ EntityStatements(ent)[j].op \in {"table", "view", "index", "unique"}
               /\ EntityStatements(ent)[j].table = ent.name
               /\ EntityStatements(ent)[j].op \in {"index", "unique"} => j > 1
<1> DEFINE st == EntityStatements(ent)
           view == [op |-> "view", table |-> ent.name,
                    cols |-> [i \in DOMAIN ent.fields |-> ent.fields[i].name]]
           table == [op |-> "table", table |-> ent.name, comment |-> ent.comment, items |-> Items(ent)]
           path(i) == [op |-> IF ent.paths[i].unique THEN "unique" ELSE "index",
                       table |-> ent.name, name |-> ent.paths[i].name, cols |-> ent.paths[i].cols]
           paths == [i \in 1..Len(ent.paths) |-> path(i)]
<1>1. CASE ent.kind = "view"
  <2>1. st = <<view>>
    BY <1>1 DEF EntityStatements
  <2>2. view.op = "view" /\ view.table = ent.name
    OBVIOUS
  <2> HIDE DEF view
  <2>3. Len(st) = 1 /\ st[1] = view /\ \A j \in 1..Len(st) : j = 1
    BY <2>1
  <2>4. st \in Seq(ToSet(st))
    BY <2>1, <2>3 DEF ToSet
  <2> QED BY <2>2, <2>3, <2>4 DEF Listed
<1>2. CASE ent.kind # "view"
  <2>1. st = <<table>> \o paths
    BY <1>2 DEF EntityStatements
  <2>2. table.op = "table" /\ table.table = ent.name
    OBVIOUS
  <2>3. \A i : path(i).op \in {"index", "unique"} /\ path(i).table = ent.name
    OBVIOUS
  <2> HIDE DEF table, path
  <2>4. Len(ent.paths) \in Nat
    BY DEF Listed
  <2>5. paths \in Seq({path(i) : i \in 1..Len(ent.paths)}) /\ Len(paths) = Len(ent.paths)
        /\ \A i \in 1..Len(ent.paths) : paths[i] = path(i)
    BY <2>4
  <2> HIDE DEF paths
  <2> DEFINE R == {table} \cup {path(i) : i \in 1..Len(ent.paths)}
  <2>6. <<table>> \in Seq(R) /\ paths \in Seq(R) /\ Len(<<table>>) = 1
    BY <2>5
  <2> HIDE DEF R
  <2>7. st \in Seq(R) /\ Len(st) = 1 + Len(ent.paths) /\ st[1] = table
        /\ \A j \in 1..Len(st) : j > 1 => st[j] = paths[j - 1]
    BY <2>1, <2>4, <2>5, <2>6, ConcatProperties
  <2>8. \A j \in 1..Len(st) : j = 1 \/ (j > 1 /\ st[j] = path(j - 1))
    <3> TAKE j \in 1..Len(st)
    <3>1. CASE j > 1
      <4>1. j - 1 \in 1..Len(ent.paths)
        BY <2>4, <2>7, <3>1
      <4> QED BY <2>5, <2>7, <3>1, <4>1
    <3>2. j = 1 \/ j > 1
      BY <2>4, <2>7
    <3> QED BY <3>1, <3>2
  <2>9. st \in Seq(ToSet(st))
    BY <2>7 DEF ToSet
  <2>10. \A j \in 1..Len(st) :
            /\ st[j].op \in {"table", "view", "index", "unique"}
            /\ st[j].table = ent.name
            /\ st[j].op \in {"index", "unique"} => j > 1
    BY <2>2, <2>3, <2>7, <2>8
  <2>11. Listed(st)
    BY <2>9 DEF Listed
  <2>12. Len(st) >= 1
    BY <2>4, <2>7
  <2>13. st[1].op \in {"table", "view"} /\ st[1].table = ent.name
    BY <2>2, <2>7
  <2> QED BY <2>10, <2>11, <2>12, <2>13
<1> QED BY <1>1, <1>2

LEMMA AnySeq ==
  ASSUME NEW R, NEW c \in Seq(R)
  PROVE  Listed(c) /\ DOMAIN c = 1..Len(c) /\ Len(c) \in Nat
BY DEF Listed, ToSet

LEMMA ConcatMembers ==
  ASSUME NEW a, NEW b, Listed(a), Listed(b)
  PROVE  /\ Listed(a \o b) /\ ToSet(a \o b) = ToSet(a) \cup ToSet(b)
         /\ Len(a \o b) = Len(a) + Len(b)
         /\ \A k \in 1..Len(a) : (a \o b)[k] = a[k]
         /\ \A k \in 1..Len(b) : (a \o b)[Len(a) + k] = b[k]
         /\ \A k \in 1..Len(a \o b) : k \in 1..Len(a) \/ k - Len(a) \in 1..Len(b)
<1> DEFINE R == ToSet(a) \cup ToSet(b)
<1>1. /\ DOMAIN a = 1..Len(a) /\ Len(a) \in Nat /\ DOMAIN b = 1..Len(b) /\ Len(b) \in Nat
      /\ a \in Seq(ToSet(a)) /\ b \in Seq(ToSet(b))
  BY AnySeq DEF Listed
<1>2. a \in Seq(R) /\ b \in Seq(R)
  BY <1>1, SeqMonotonic
<1>3. /\ a \o b \in Seq(R) /\ Len(a \o b) = Len(a) + Len(b)
      /\ \A k \in 1..Len(a) + Len(b) : (a \o b)[k] = IF k <= Len(a) THEN a[k] ELSE b[k - Len(a)]
  BY <1>2, ConcatProperties
<1> HIDE DEF R
<1>4. /\ \A k \in 1..Len(a) : (a \o b)[k] = a[k]
      /\ \A k \in 1..Len(b) : (a \o b)[Len(a) + k] = b[k]
      /\ \A k \in 1..Len(a \o b) : k \in 1..Len(a) \/ k - Len(a) \in 1..Len(b)
  BY <1>1, <1>3
<1>5. Listed(a \o b) /\ DOMAIN (a \o b) = 1..Len(a \o b)
  BY <1>3, AnySeq
<1>6. ASSUME NEW k \in 1..Len(a \o b)
      PROVE  (a \o b)[k] \in ToSet(a) \cup ToSet(b)
  <2>1. CASE k \in 1..Len(a)
    BY <1>1, <1>4, <2>1 DEF ToSet
  <2>2. CASE k - Len(a) \in 1..Len(b)
    <3>1. Len(a) + (k - Len(a)) = k
      BY <1>1
    <3>2. (a \o b)[k] = b[k - Len(a)]
      BY <1>4, <2>2, <3>1
    <3> QED BY <1>1, <2>2, <3>2 DEF ToSet
  <2> QED BY <1>4, <2>1, <2>2
<1>7. ASSUME NEW x \in ToSet(a) \cup ToSet(b)
      PROVE  \E k \in 1..Len(a \o b) : x = (a \o b)[k]
  <2>1. CASE x \in ToSet(a)
    <3>1. PICK k \in 1..Len(a) : x = a[k]
      BY <1>1, <2>1 DEF ToSet
    <3>2. k \in 1..Len(a \o b)
      BY <1>1, <1>3
    <3> QED BY <1>4, <3>1, <3>2
  <2>2. CASE x \in ToSet(b)
    <3>1. PICK k \in 1..Len(b) : x = b[k]
      BY <1>1, <2>2 DEF ToSet
    <3>2. Len(a) + k \in 1..Len(a \o b)
      BY <1>1, <1>3
    <3> QED BY <1>4, <3>1, <3>2
  <2> QED BY <2>1, <2>2
<1>8. ToSet(a \o b) = ToSet(a) \cup ToSet(b)
  BY <1>5, <1>6, <1>7 DEF ToSet
<1> QED BY <1>3, <1>4, <1>5, <1>8

\* A file broken off is as grounded as the whole.
LEMMA PrefixGrounded ==
  ASSUME NEW c, Listed(c), Grounded(c), NEW n \in 0..Len(c)
  PROVE  Listed(SubSeq(c, 1, n)) /\ Grounded(SubSeq(c, 1, n))
<1> DEFINE p == SubSeq(c, 1, n)
<1>1. c \in Seq(ToSet(c)) /\ DOMAIN c = 1..Len(c) /\ Len(c) \in Nat
  BY AnySeq DEF Listed
<1>2. p \in Seq(ToSet(c)) /\ Len(p) = n /\ \A k \in 1..n : p[k] = c[k] /\ k \in 1..Len(c)
  BY <1>1, SubSeqProperties
<1>3. Listed(p) /\ DOMAIN p = 1..n
  BY <1>2, AnySeq
<1> HIDE DEF p
<1>4. \A i \in 1..n : TablesBefore(p, i) = TablesBefore(c, i)
  <2> TAKE i \in 1..n
  <2>1. \A j \in 1..(i - 1) : j \in 1..n
    OBVIOUS
  <2> QED BY <1>2, <2>1 DEF TablesBefore
<1>5. Grounded(p)
  BY <1>1, <1>2, <1>3, <1>4 DEF Grounded
<1> QED BY <1>3, <1>5 DEF p

LEMMA SingletonGrounded ==
  ASSUME NEW s, s.op \in {"note", "line"}
  PROVE  Listed(<<s>>) /\ ToSet(<<s>>) = {s} /\ Len(<<s>>) = 1
BY DEF Listed, ToSet

\* So is one with a note on top.
LEMMA NotedGrounded ==
  ASSUME NEW c, Listed(c), Grounded(c), NEW s, s.op = "note"
  PROVE  Grounded(<<s>> \o c)
<1> DEFINE n == <<s>> \o c
<1>1. /\ Listed(n) /\ Len(n) = 1 + Len(c) /\ n[1] = s
      /\ \A k \in 1..Len(c) : n[1 + k] = c[k]
      /\ Len(c) \in Nat /\ DOMAIN c = 1..Len(c) /\ DOMAIN n = 1..Len(n)
  <2>1. Listed(<<s>>) /\ Len(<<s>>) = 1 /\ <<s>>[1] = s
    BY SingletonGrounded
  <2>2. Listed(n) /\ Len(n) = 1 + Len(c) /\ n[1] = s /\ \A k \in 1..Len(c) : n[1 + k] = c[k]
    BY <2>1, ConcatMembers
  <2>3. c \in Seq(ToSet(c)) /\ n \in Seq(ToSet(n))
    BY <2>2 DEF Listed
  <2> QED BY <2>2, <2>3
<1> HIDE DEF n
<1>2. ASSUME NEW k \in 1..Len(c)
      PROVE  TablesBefore(c, k) \subseteq TablesBefore(n, 1 + k)
  <2> SUFFICES ASSUME NEW j \in 1..(k - 1), c[j].op \in {"table", "view"}
               PROVE  c[j].table \in TablesBefore(n, 1 + k)
    BY DEF TablesBefore
  <2>1. 1 + j \in 1..((1 + k) - 1) /\ n[1 + j] = c[j]
    BY <1>1
  <2> QED BY <2>1 DEF TablesBefore
<1>3. ASSUME NEW i \in DOMAIN n
      PROVE  /\ n[i].op \in {"index", "unique"} => n[i].table \in TablesBefore(n, i)
             /\ n[i].op = "fk" => {n[i].edge.from, n[i].edge.to} \cap TablesBefore(n, i) # {}
  <2>1. CASE i = 1
    BY <1>1, <2>1
  <2>2. CASE i # 1
    <3>1. i - 1 \in 1..Len(c) /\ 1 + (i - 1) = i
      BY <1>1, <2>2
    <3>2. n[i] = c[i - 1] /\ TablesBefore(c, i - 1) \subseteq TablesBefore(n, i)
      BY <1>1, <1>2, <3>1
    <3> QED BY <1>1, <3>1, <3>2 DEF Grounded
  <2> QED BY <2>1, <2>2
<1> QED BY <1>3 DEF Grounded, n

NamesIn(entities) == {ent.name : ent \in ToSet(entities)}

\* What renderDDL writes: the tables it was given, each before its indexes, then
\* the foreign keys it was given.
LEMMA Rendered ==
  ASSUME NEW entities, Listed(entities), NEW edges, Listed(edges),
         \A ent \in ToSet(entities) : Listed(ent.paths)
  PROVE  LET c == RenderDDL(entities, edges)
         IN  /\ Listed(c) /\ TablesOf(c) = NamesIn(entities) /\ KeysOf(c) = ToSet(edges)
             /\ ~HasNote(c)
             /\ (\A e \in ToSet(edges) : {e.from, e.to} \cap NamesIn(entities) # {}) => Grounded(c)
<1> DEFINE blocks == [i \in 1..Len(entities) |-> EntityStatements(entities[i])]
           row == FlattenSeq(blocks)
           key(i) == [op |-> "fk", table |-> edges[i].from, edge |-> edges[i]]
           keys == EdgeStatements(edges)
           R == UNION {ToSet(EntityStatements(ent)) : ent \in ToSet(entities)}
           c == row \o keys
<1>1. RenderDDL(entities, edges) = c
  BY DEF RenderDDL
<1>2. /\ DOMAIN entities = 1..Len(entities) /\ Len(entities) \in Nat
      /\ DOMAIN edges = 1..Len(edges) /\ Len(edges) \in Nat
  BY AnySeq DEF Listed
<1>3. \A i \in 1..Len(entities) : /\ Listed(entities[i].paths) /\ entities[i] \in ToSet(entities)
                                  /\ blocks[i] = EntityStatements(entities[i])
  BY <1>2 DEF ToSet
<1>4. \A i \in 1..Len(entities) : blocks[i] \in Seq(R)
  <2> TAKE i \in 1..Len(entities)
  <2>1. blocks[i] \in Seq(ToSet(blocks[i]))
    BY <1>3, EntityBlock DEF Listed
  <2>2. ToSet(blocks[i]) \subseteq R
    BY <1>3
  <2> QED BY <2>1, <2>2, SeqMonotonic
<1>5. blocks \in Seq(Seq(R)) /\ DOMAIN blocks = 1..Len(entities) /\ Len(blocks) = Len(entities)
  BY <1>2, <1>4
<1>6. \A i \in 1..Len(entities) :
         /\ Len(blocks[i]) \in Nat /\ Len(blocks[i]) >= 1 /\ DOMAIN blocks[i] = 1..Len(blocks[i])
         /\ blocks[i][1].op \in {"table", "view"}
         /\ blocks[i][1].table = entities[i].name
         /\ \A j \in 1..Len(blocks[i]) :
               /\ blocks[i][j].op \in {"table", "view", "index", "unique"}
               /\ blocks[i][j].table = entities[i].name
               /\ blocks[i][j].op \in {"index", "unique"} => j > 1
  <2> TAKE i \in 1..Len(entities)
  <2>1. Len(blocks[i]) \in Nat /\ DOMAIN blocks[i] = 1..Len(blocks[i])
    BY <1>4, AnySeq
  <2> QED BY <1>3, <2>1, EntityBlock
<1> HIDE DEF blocks, R
<1>7. /\ row \in Seq(R) /\ Row(row, blocks, Len(entities))
      /\ Listed(row) /\ DOMAIN row = 1..Len(row) /\ Len(row) \in Nat
      /\ \A i \in 1..Len(entities) : ToSet(blocks[i]) \subseteq ToSet(row)
      /\ \A x \in ToSet(row) : \E i \in 1..Len(entities) : x \in ToSet(blocks[i])
  BY <1>5, FlatIsRow, FlatMembers, AnySeq
<1>8. /\ Listed(keys) /\ Len(keys) = Len(edges) /\ DOMAIN keys = 1..Len(edges)
      /\ \A i \in 1..Len(edges) : keys[i] = key(i)
  <2>1. keys = [i \in 1..Len(edges) |-> key(i)]
    BY DEF EdgeStatements
  <2> HIDE DEF key
  <2>2. keys \in Seq({key(i) : i \in 1..Len(edges)}) /\ Len(keys) = Len(edges)
    BY <1>2, <2>1
  <2> QED BY <1>2, <2>1, <2>2, AnySeq
<1>9. \A i : key(i).op = "fk" /\ key(i).edge = edges[i]
  OBVIOUS
<1> HIDE DEF row, keys, key
<1>10. /\ Listed(c) /\ ToSet(c) = ToSet(row) \cup ToSet(keys) /\ Len(c) = Len(row) + Len(keys)
       /\ \A k \in 1..Len(row) : c[k] = row[k]
       /\ \A k \in 1..Len(keys) : c[Len(row) + k] = keys[k]
       /\ \A k \in 1..Len(c) : k \in 1..Len(row) \/ k - Len(row) \in 1..Len(keys)
       /\ DOMAIN c = 1..Len(c)
  <2>1. /\ Listed(c) /\ ToSet(c) = ToSet(row) \cup ToSet(keys) /\ Len(c) = Len(row) + Len(keys)
        /\ \A k \in 1..Len(row) : c[k] = row[k]
        /\ \A k \in 1..Len(keys) : c[Len(row) + k] = keys[k]
        /\ \A k \in 1..Len(c) : k \in 1..Len(row) \/ k - Len(row) \in 1..Len(keys)
    BY <1>7, <1>8, ConcatMembers
  <2> HIDE DEF c
  <2>2. DOMAIN c = 1..Len(c)
    BY <2>1, AnySeq DEF Listed
  <2> QED BY <2>1, <2>2
<1> HIDE DEF c
<1>11. ASSUME NEW s \in ToSet(row)
       PROVE  /\ s.op \in {"table", "view", "index", "unique"}
              /\ s.table \in NamesIn(entities)
  <2>1. PICK i \in 1..Len(entities) : s \in ToSet(blocks[i])
    BY <1>7
  <2>2. PICK j \in 1..Len(blocks[i]) : s = blocks[i][j]
    BY <1>6, <2>1 DEF ToSet
  <2>3. s.table = entities[i].name /\ s.op \in {"table", "view", "index", "unique"}
    BY <1>6, <2>2
  <2> QED BY <1>3, <2>3 DEF NamesIn
<1>12. ASSUME NEW s \in ToSet(keys)
       PROVE  s.op = "fk" /\ s.edge \in ToSet(edges)
  <2>1. PICK i \in 1..Len(edges) : s = key(i)
    BY <1>8 DEF ToSet
  <2> QED BY <1>2, <1>9, <2>1 DEF ToSet
<1>13. ASSUME NEW ent \in ToSet(entities)
       PROVE  \E s \in ToSet(row) : s.op \in {"table", "view"} /\ s.table = ent.name
  <2>1. PICK i \in 1..Len(entities) : ent = entities[i]
    BY <1>2 DEF ToSet
  <2>2. 1 \in 1..Len(blocks[i]) /\ blocks[i][1].op \in {"table", "view"} /\ blocks[i][1].table = ent.name
    BY <1>6, <2>1
  <2>3. blocks[i][1] \in ToSet(blocks[i])
    BY <1>6, <2>2 DEF ToSet
  <2> QED BY <1>7, <2>2, <2>3
<1>14. ASSUME NEW e \in ToSet(edges)
       PROVE  \E s \in ToSet(keys) : s.op = "fk" /\ s.edge = e
  <2>1. PICK i \in 1..Len(edges) : e = edges[i]
    BY <1>2 DEF ToSet
  <2>2. keys[i] \in ToSet(keys) /\ keys[i].op = "fk" /\ keys[i].edge = e
    BY <1>8, <1>9, <2>1 DEF ToSet
  <2> QED BY <2>2
<1>15. TablesOf(c) = NamesIn(entities)
  <2>1. ASSUME NEW s \in ToSet(c), s.op \in {"table", "view"}
        PROVE  s.table \in NamesIn(entities)
    BY <1>10, <1>11, <1>12, <2>1
  <2>2. ASSUME NEW ent \in ToSet(entities)
        PROVE  \E s \in ToSet(c) : s.op \in {"table", "view"} /\ s.table = ent.name
    BY <1>10, <1>13
  <2> QED BY <2>1, <2>2 DEF TablesOf, NamesIn
<1>16. KeysOf(c) = ToSet(edges)
  <2>1. ASSUME NEW s \in ToSet(c), s.op = "fk"
        PROVE  s.edge \in ToSet(edges)
    BY <1>10, <1>11, <1>12, <2>1
  <2>2. ASSUME NEW e \in ToSet(edges)
        PROVE  \E s \in ToSet(c) : s.op = "fk" /\ s.edge = e
    BY <1>10, <1>14
  <2> QED BY <2>1, <2>2 DEF KeysOf
<1>17. ~HasNote(c)
  BY <1>10, <1>11, <1>12 DEF HasNote
<1>18. ASSUME NEW k \in 1..Len(row), row[k].op \in {"index", "unique"}
       PROVE  row[k].table \in TablesBefore(c, k)
  <2>1. PICK i \in 1..Len(entities), off \in Nat :
           HoldsAt(row, blocks[i], off) /\ k - off \in 1..Len(blocks[i])
    BY <1>7 DEF Row
  <2> DEFINE j == k - off
  <2>2. off + j = k /\ off + 1 \in Int /\ 1 \in 1..Len(blocks[i])
    BY <1>6, <1>7
  <2>3. row[k] = blocks[i][j] /\ row[off + 1] = blocks[i][1]
    BY <2>1, <2>2 DEF HoldsAt
  <2>4. j > 1 /\ row[k].table = entities[i].name
    BY <1>6, <1>18, <2>1, <2>3
  <2>5. off + 1 \in 1..(k - 1) /\ off + 1 \in 1..Len(row)
    BY <1>7, <2>4
  <2>6. c[off + 1].op \in {"table", "view"} /\ c[off + 1].table = row[k].table
    BY <1>6, <1>10, <2>3, <2>4, <2>5
  <2> QED BY <2>5, <2>6 DEF TablesBefore
<1>19. ASSUME NEW k \in 1..Len(keys)
       PROVE  NamesIn(entities) \subseteq TablesBefore(c, Len(row) + k)
  <2> SUFFICES ASSUME NEW ent \in ToSet(entities)
               PROVE  ent.name \in TablesBefore(c, Len(row) + k)
    BY DEF NamesIn
  <2>1. PICK s \in ToSet(row) : s.op \in {"table", "view"} /\ s.table = ent.name
    BY <1>13
  <2>2. PICK j \in 1..Len(row) : s = row[j]
    BY <1>7, <2>1 DEF ToSet
  <2>3. j \in 1..((Len(row) + k) - 1) /\ c[j] = s
    BY <1>7, <1>8, <1>10, <2>2
  <2> QED BY <2>1, <2>3 DEF TablesBefore
<1>20. ASSUME \A e \in ToSet(edges) : {e.from, e.to} \cap NamesIn(entities) # {},
              NEW i \in DOMAIN c
       PROVE  /\ c[i].op \in {"index", "unique"} => c[i].table \in TablesBefore(c, i)
              /\ c[i].op = "fk" => {c[i].edge.from, c[i].edge.to} \cap TablesBefore(c, i) # {}
  <2>1. CASE i \in 1..Len(row)
    <3>1. c[i] = row[i] /\ row[i] \in ToSet(row)
      BY <1>7, <1>10, <2>1 DEF ToSet
    <3> QED BY <1>11, <1>18, <2>1, <3>1
  <2>2. CASE i - Len(row) \in 1..Len(keys)
    <3> DEFINE k == i - Len(row)
    <3>1. Len(row) + k = i
      BY <1>7, <1>10
    <3>2. c[i] = keys[k] /\ keys[k] \in ToSet(keys)
      BY <1>8, <1>10, <2>2, <3>1 DEF ToSet
    <3>3. c[i].op = "fk" /\ c[i].edge \in ToSet(edges)
      BY <1>12, <3>2
    <3>4. NamesIn(entities) \subseteq TablesBefore(c, i)
      BY <1>19, <2>2, <3>1
    <3> QED BY <1>20, <3>3, <3>4
  <2> QED BY <1>10, <2>1, <2>2
<1>21. (\A e \in ToSet(edges) : {e.from, e.to} \cap NamesIn(entities) # {}) => Grounded(c)
  BY <1>20 DEF Grounded
<1> QED BY <1>1, <1>10, <1>15, <1>16, <1>17, <1>21

-----------------------------------------------------------------------------
\* What a run writes.
Content(c) == Listed(c) /\ Grounded(c)

EntitiesIn(doc, ns) == {ent \in ToSet(doc.entities) : Namespace(ent.name) = ns}

LEMMA WholeFile ==
  ASSUME NEW doc, Loaded(doc)
  PROVE  LET c == RenderDDL(doc.entities, doc.edges)
         IN  /\ Content(c)
             /\ TablesOf(c) = NamesIn(doc.entities) /\ KeysOf(c) = ToSet(doc.edges)
<1>1. Listed(doc.entities) /\ Listed(doc.edges) /\ \A ent \in ToSet(doc.entities) : Listed(ent.paths)
  BY DEF Loaded, LoadedEntity, Listed
<1>2. \A e \in ToSet(doc.edges) : {e.from, e.to} \cap NamesIn(doc.entities) # {}
  BY DEF Loaded, NamesIn
<1> QED BY <1>1, <1>2, Rendered DEF Content

LEMMA LighthouseFile ==
  ASSUME NEW doc, Loaded(doc)
  PROVE  Content(RenderLighthouse(doc.entities, doc.edges))
<1> DEFINE line(i) == [op |-> "line", text |-> LighthouseText(doc.entities[i], doc.edges)]
           c == RenderLighthouse(doc.entities, doc.edges)
<1>1. c = [i \in 1..Len(doc.entities) |-> line(i)]
  BY DEF RenderLighthouse
<1>2. \A i : line(i).op = "line"
  OBVIOUS
<1> HIDE DEF line
<1>3. Len(doc.entities) \in Nat
  BY AnySeq DEF Loaded
<1>4. c \in Seq({line(i) : i \in 1..Len(doc.entities)}) /\ DOMAIN c = 1..Len(doc.entities)
      /\ \A i \in 1..Len(doc.entities) : c[i] = line(i)
  BY <1>1, <1>3
<1> HIDE DEF c
<1>5. Listed(c)
  BY <1>4, AnySeq
<1>6. Grounded(c)
  BY <1>2, <1>4 DEF Grounded
<1> QED BY <1>5, <1>6 DEF Content, c

\* The tables and the foreign keys of a bundle.
LEMMA BundleParts ==
  ASSUME NEW doc, Loaded(doc), NEW ns
  PROVE  LET entities == EntitiesOf(doc, ns)
             edges == EdgesOf(doc, ns)
         IN  /\ Listed(entities) /\ ToSet(entities) = EntitiesIn(doc, ns)
             /\ Listed(edges) /\ ToSet(edges) = {e \in ToSet(doc.edges) : ns \in Ends(e)}
             /\ \A ent \in ToSet(entities) : Listed(ent.paths)
<1> DEFINE S == {i \in DOMAIN doc.entities : Namespace(doc.entities[i].name) = ns}
           E == {i \in DOMAIN doc.edges : ns \in Ends(doc.edges[i])}
           entities == EntitiesOf(doc, ns)
           edges == EdgesOf(doc, ns)
<1>1. doc.entities \in Seq(ToSet(doc.entities)) /\ doc.edges \in Seq(ToSet(doc.edges))
  BY DEF Loaded, Listed
<1>2. entities \in Seq(ToSet(doc.entities)) /\ ToSet(entities) = {doc.entities[i] : i \in S}
  <2>1. entities = Where(doc.entities, S) /\ S \in SUBSET DOMAIN doc.entities
    BY DEF EntitiesOf
  <2> HIDE DEF entities, S
  <2> QED BY <1>1, <2>1, WhereMembers
<1>3. edges \in Seq(ToSet(doc.edges)) /\ ToSet(edges) = {doc.edges[i] : i \in E}
  <2>1. edges = Where(doc.edges, E) /\ E \in SUBSET DOMAIN doc.edges
    BY DEF EdgesOf
  <2> HIDE DEF edges, E
  <2> QED BY <1>1, <2>1, WhereMembers
<1>4. ToSet(entities) = EntitiesIn(doc, ns)
  <2> HIDE DEF entities
  <2>1. ASSUME NEW i \in S PROVE doc.entities[i] \in EntitiesIn(doc, ns)
    BY DEF EntitiesIn, ToSet
  <2>2. ASSUME NEW ent \in EntitiesIn(doc, ns) PROVE \E i \in S : ent = doc.entities[i]
    BY DEF EntitiesIn, ToSet
  <2> QED BY <1>2, <2>1, <2>2
<1>5. ToSet(edges) = {e \in ToSet(doc.edges) : ns \in Ends(e)}
  <2> HIDE DEF edges
  <2>1. ASSUME NEW i \in E PROVE doc.edges[i] \in ToSet(doc.edges) /\ ns \in Ends(doc.edges[i])
    BY DEF ToSet
  <2>2. ASSUME NEW e \in ToSet(doc.edges), ns \in Ends(e) PROVE \E i \in E : e = doc.edges[i]
    BY <2>2 DEF ToSet
  <2> QED BY <1>3, <2>1, <2>2
<1>6. Listed(entities) /\ Listed(edges) /\ \A ent \in ToSet(entities) : Listed(ent.paths)
  BY <1>2, <1>3, <1>4, AnySeq DEF EntitiesIn, Loaded, LoadedEntity, Listed
<1> QED BY <1>4, <1>5, <1>6

\* A bundle: the tables of its namespace, the foreign keys that have an end there,
\* and a note if one of those leads to another namespace.
LEMMA BundleFile ==
  ASSUME NEW doc, Loaded(doc), NEW ns
  PROVE  LET c == Bundle(doc, ns)
         IN  /\ Content(c)
             /\ TablesOf(c) = {ent.name : ent \in EntitiesIn(doc, ns)}
             /\ KeysOf(c) = {e \in ToSet(doc.edges) : ns \in Ends(e)}
             /\ HasNote(c) <=> CrossSchema(doc, ns)
<1> DEFINE entities == EntitiesOf(doc, ns)
           edges == EdgesOf(doc, ns)
           ddl == RenderDDL(entities, edges)
           c == Bundle(doc, ns)
           note == [op |-> "note"]
<1>1. /\ Listed(entities) /\ ToSet(entities) = EntitiesIn(doc, ns)
      /\ Listed(edges) /\ ToSet(edges) = {e \in ToSet(doc.edges) : ns \in Ends(e)}
      /\ \A ent \in ToSet(entities) : Listed(ent.paths)
  BY BundleParts
<1>2. \A e \in ToSet(edges) : {e.from, e.to} \cap NamesIn(entities) # {}
  <2> TAKE e \in ToSet(edges)
  <2>1. e \in ToSet(doc.edges) /\ ns \in Ends(e)
    BY <1>1
  <2>2. PICK name \in {e.from, e.to} : Namespace(name) = ns
    BY <2>1 DEF Ends
  <2>3. PICK ent \in ToSet(doc.entities) : ent.name = name
    BY <2>1 DEF Loaded
  <2>4. ent \in ToSet(entities)
    BY <1>1, <2>2, <2>3 DEF EntitiesIn
  <2> QED BY <2>3, <2>4 DEF NamesIn
<1>3. /\ Listed(ddl) /\ Grounded(ddl) /\ TablesOf(ddl) = NamesIn(entities) /\ KeysOf(ddl) = ToSet(edges)
      /\ ~HasNote(ddl)
  BY <1>1, <1>2, Rendered
<1>4. c = (IF CrossSchema(doc, ns) THEN <<note>> ELSE << >>) \o ddl
  BY DEF Bundle
<1> HIDE DEF entities, edges, ddl, c
<1>5. NamesIn(entities) = {ent.name : ent \in EntitiesIn(doc, ns)}
  BY <1>1 DEF NamesIn
<1>6. CASE CrossSchema(doc, ns)
  <2>1. c = <<note>> \o ddl
    BY <1>4, <1>6
  <2>2. note.op = "note"
    OBVIOUS
  <2> HIDE DEF note
  <2>3. Listed(<<note>>) /\ ToSet(<<note>>) = {note}
    BY <2>2, SingletonGrounded
  <2>4. Listed(c) /\ ToSet(c) = {note} \cup ToSet(ddl)
    BY <1>3, <2>1, <2>3, ConcatMembers
  <2>5. Grounded(c)
    BY <1>3, <2>1, <2>2, NotedGrounded
  <2>6. TablesOf(c) = TablesOf(ddl) /\ KeysOf(c) = KeysOf(ddl)
    BY <2>2, <2>4 DEF TablesOf, KeysOf
  <2>7. HasNote(c)
    BY <2>2, <2>4 DEF HasNote
  <2> QED BY <1>1, <1>3, <1>5, <1>6, <2>4, <2>5, <2>6, <2>7 DEF Content, c
<1>7. CASE ~CrossSchema(doc, ns)
  <2>1. c = << >> \o ddl
    BY <1>4, <1>7
  <2>2. c = ddl
    BY <1>3, <2>1 DEF Listed
  <2> QED BY <1>1, <1>3, <1>5, <1>7, <2>2 DEF Content, c
<1> QED BY <1>6, <1>7

LEMMA PlanContent ==
  ASSUME NEW doc \in Exports, NEW m \in Modes, NEW job \in Plan(doc, m)
  PROVE  Content(job.content)
<1>1. Loaded(doc) /\ m \in {"full", "schema", "lighthouse"}
  BY CompileAssumption
<1>2. CASE m = "full"
  <2>1. job.content = RenderDDL(doc.entities, doc.edges)
    BY <1>2 DEF Plan
  <2> QED BY <1>1, <2>1, WholeFile
<1>3. CASE m = "lighthouse"
  <2>1. job.content = RenderLighthouse(doc.entities, doc.edges)
    BY <1>3 DEF Plan
  <2> QED BY <1>1, <2>1, LighthouseFile
<1>4. CASE m = "schema"
  <2>1. PICK ns \in Namespaces(doc) : job = [file |-> NamespaceFile(ns), content |-> Bundle(doc, ns)]
    BY <1>4 DEF Plan
  <2> QED BY <1>1, <2>1, BundleFile
<1> QED BY <1>1, <1>2, <1>3, <1>4

-----------------------------------------------------------------------------
\* Every file that exists has grounded statements.
GroundInv ==
    /\ export \in Exports /\ mode \in Modes
    /\ todo \subseteq Plan(export, mode)
    /\ stage = "write" => current \in Plan(export, mode)
    /\ \A f \in DOMAIN dir : Content(dir[f])

LEMMA InitGround == Init => GroundInv
BY DEF Init, GroundInv

LEMMA EmptyContent == Content(<< >>)
BY DEF Content, Listed, Grounded, ToSet

LEMMA PutContent ==
  ASSUME \A f \in DOMAIN dir : Content(dir[f]), NEW file, NEW c, Content(c), Put(file, c)
  PROVE  \A f \in DOMAIN dir' : Content(dir'[f])
BY DEF Put

LEMMA NextGround == GroundInv /\ [Next]_vars => GroundInv'
<1> SUFFICES ASSUME GroundInv, [Next]_vars
             PROVE  GroundInv'
  OBVIOUS
<1> USE DEF GroundInv
<1>1. CASE Begin
  BY <1>1 DEF Begin
<1>2. CASE CreateFile
  <2>1. PICK job \in todo : todo' = todo \ {job} /\ current' = job /\ Put(job.file, << >>)
    BY <1>2 DEF CreateFile
  <2>2. \A f \in DOMAIN dir' : Content(dir'[f])
    BY <2>1, EmptyContent, PutContent
  <2> QED BY <1>2, <2>1, <2>2 DEF CreateFile
<1>3. CASE WriteFile
  <2>1. Content(current.content)
    BY <1>3, PlanContent DEF WriteFile
  <2>2. \A f \in DOMAIN dir' : Content(dir'[f])
    BY <1>3, <2>1, PutContent DEF WriteFile
  <2> QED BY <1>3, <2>2 DEF WriteFile
<1>4. CASE FailWrite
  <2>1. Content(current.content)
    BY <1>4, PlanContent DEF FailWrite
  <2>2. PICK n \in 0..(Len(current.content) - 1) : Put(current.file, SubSeq(current.content, 1, n))
    BY <1>4 DEF FailWrite
  <2>3. n \in 0..Len(current.content)
    BY <2>1, <2>2, AnySeq DEF Content, Listed
  <2>4. Content(SubSeq(current.content, 1, n))
    BY <2>1, <2>3, PrefixGrounded DEF Content
  <2>5. \A f \in DOMAIN dir' : Content(dir'[f])
    BY <2>2, <2>4, PutContent
  <2> QED BY <1>4, <2>5 DEF FailWrite
<1>5. CASE FailCreate
  BY <1>5 DEF FailCreate
<1>6. CASE Finish
  BY <1>6 DEF Finish
<1>7. CASE Stop \/ UNCHANGED vars
  BY <1>7 DEF Stop, vars
<1> QED BY <1>1, <1>2, <1>3, <1>4, <1>5, <1>6, <1>7 DEF Next

\* In every file there ever is, a torn one too, statements about a table come after
\* its definition.
THEOREM AlwaysGrounded == Spec => []StatementsGrounded
<1>1. GroundInv => StatementsGrounded
  BY DEF GroundInv, Content, Grounded, StatementsGrounded, TablesBefore
<1> QED BY InitGround, NextGround, <1>1, PTL DEF Spec

-----------------------------------------------------------------------------
\* Namespaces have files of their own.
FilesApart(doc) ==
    \A a, b \in Namespaces(doc) : NamespaceFile(a) = NamespaceFile(b) => a = b

LEMMA PlanApart ==
  ASSUME NEW doc, NEW m \in Modes, FilesApart(doc), NEW a \in Plan(doc, m), NEW b \in Plan(doc, m),
         a.file = b.file
  PROVE  a = b
<1>1. m \in {"full", "schema", "lighthouse"}
  BY CompileAssumption
<1>2. CASE m # "schema"
  BY <1>1, <1>2 DEF Plan
<1>3. CASE m = "schema"
  <2>1. PICK x \in Namespaces(doc) : a = [file |-> NamespaceFile(x), content |-> Bundle(doc, x)]
    BY <1>3 DEF Plan
  <2>2. PICK y \in Namespaces(doc) : b = [file |-> NamespaceFile(y), content |-> Bundle(doc, y)]
    BY <1>3 DEF Plan
  <2>3. x = y
    BY <2>1, <2>2 DEF FilesApart
  <2> QED BY <2>1, <2>2, <2>3
<1> QED BY <1>2, <1>3

\* What is done of the plan, and that what is written stays as it was written.
Pending(job) == job \in todo \/ (stage = "write" /\ job = current)

ProgressInv ==
    /\ GroundInv
    /\ stage \in {"idle", "create", "write"}
    /\ stage = "write" => current \notin todo
    /\ outcome = "ok" => stage = "idle" /\ todo = {}
    /\ stage # "idle" \/ outcome = "ok" =>
          \A job \in Plan(export, mode) : Pending(job) \/ job.file \in written
    /\ \A f \in written : \E job \in Plan(export, mode) : job.file = f
    /\ FilesApart(export) =>
          \A f \in written : \E job \in Plan(export, mode) :
             ~Pending(job) /\ job.file = f /\ f \in DOMAIN dir /\ dir[f] = job.content

LEMMA InitProgress == Init => ProgressInv
BY InitGround DEF Init, ProgressInv

LEMMA NextProgress == ProgressInv /\ [Next]_vars => ProgressInv'
<1> SUFFICES ASSUME ProgressInv, [Next]_vars
             PROVE  ProgressInv'
  OBVIOUS
<1>0. GroundInv' /\ GroundInv
  BY NextGround DEF ProgressInv
<1>1. CASE Begin
  BY <1>0, <1>1 DEF Begin, ProgressInv, Pending
<1>2. CASE CreateFile
  <2>1. PICK job \in todo : todo' = todo \ {job} /\ current' = job /\ Put(job.file, << >>)
    BY <1>2 DEF CreateFile
  <2>2. /\ UNCHANGED <<export, mode, written, outcome>> /\ stage = "create" /\ stage' = "write"
        /\ outcome # "ok"
    BY <1>2 DEF CreateFile, ProgressInv
  <2>3. \A j : Pending(j)' <=> Pending(j)
    BY <2>1, <2>2 DEF Pending
  <2>4. ASSUME FilesApart(export), NEW f \in written
        PROVE  \E j \in Plan(export, mode) :
                  ~Pending(j) /\ j.file = f /\ f \in DOMAIN dir' /\ dir'[f] = j.content
    <3>1. PICK j \in Plan(export, mode) :
             ~Pending(j) /\ j.file = f /\ f \in DOMAIN dir /\ dir[f] = j.content
      BY <2>4 DEF ProgressInv
    <3>2. job \in Plan(export, mode) /\ j # job
      BY <1>0, <3>1 DEF GroundInv, Pending
    <3>3. mode \in Modes
      BY <1>0 DEF GroundInv
    <3>4. f # job.file
      BY <2>4, <3>1, <3>2, <3>3, PlanApart
    <3>5. f \in DOMAIN dir' /\ dir'[f] = dir[f]
      BY <2>1, <3>1, <3>4 DEF Put
    <3> QED BY <3>1, <3>5
  <2> QED BY <1>0, <2>1, <2>2, <2>3, <2>4 DEF ProgressInv
<1>3. CASE WriteFile
  <2>1. /\ UNCHANGED <<export, mode, todo, current, outcome>> /\ stage = "write" /\ stage' = "create"
        /\ written' = written \cup {current.file} /\ Put(current.file, current.content)
        /\ current \in Plan(export, mode) /\ current \notin todo /\ outcome # "ok"
    BY <1>0, <1>3 DEF WriteFile, ProgressInv, GroundInv
  <2>2. \A j : Pending(j)' <=> j \in todo
    BY <2>1 DEF Pending
  <2>3. \A j : Pending(j) => j \in todo \/ j = current
    BY DEF Pending
  <2>4. ASSUME FilesApart(export), NEW f \in written'
        PROVE  \E j \in Plan(export, mode) :
                  j \notin todo /\ j.file = f /\ f \in DOMAIN dir' /\ dir'[f] = j.content
    <3>1. CASE f = current.file
      <4>1. f \in DOMAIN dir' /\ dir'[f] = current.content
        BY <2>1, <3>1 DEF Put
      <4> QED BY <2>1, <3>1, <4>1
    <3>2. CASE f # current.file
      <4>1. PICK j \in Plan(export, mode) :
               ~Pending(j) /\ j.file = f /\ f \in DOMAIN dir /\ dir[f] = j.content
        BY <2>1, <2>4, <3>2 DEF ProgressInv
      <4>2. f \in DOMAIN dir' /\ dir'[f] = dir[f]
        BY <2>1, <3>2, <4>1 DEF Put
      <4> QED BY <4>1, <4>2 DEF Pending
    <3> QED BY <3>1, <3>2
  <2>5. \A f \in written' : \E j \in Plan(export, mode) : j.file = f
    BY <2>1 DEF ProgressInv
  <2>6. \A j \in Plan(export, mode) : j \in todo \/ j.file \in written'
    BY <2>1, <2>3 DEF ProgressInv
  <2> QED BY <1>0, <2>1, <2>2, <2>4, <2>5, <2>6 DEF ProgressInv
<1>4. CASE FailWrite
  <2>1. PICK n \in 0..(Len(current.content) - 1) : Put(current.file, SubSeq(current.content, 1, n))
    BY <1>4 DEF FailWrite
  <2>2. /\ UNCHANGED <<export, mode, todo, current, written>> /\ stage = "write" /\ stage' = "idle"
        /\ outcome' = "failed" /\ current \in Plan(export, mode)
    BY <1>0, <1>4 DEF FailWrite, GroundInv
  <2>3. \A j : Pending(j)' => Pending(j)
    BY <2>2 DEF Pending
  <2>4. ASSUME FilesApart(export), NEW f \in written
        PROVE  \E j \in Plan(export, mode) :
                  ~Pending(j) /\ j.file = f /\ f \in DOMAIN dir' /\ dir'[f] = j.content
    <3>1. PICK j \in Plan(export, mode) :
             ~Pending(j) /\ j.file = f /\ f \in DOMAIN dir /\ dir[f] = j.content
      BY <2>4 DEF ProgressInv
    <3>2. j # current /\ mode \in Modes
      BY <1>0, <2>2, <3>1 DEF GroundInv, Pending
    <3>3. f # current.file
      BY <2>2, <2>4, <3>1, <3>2, PlanApart
    <3>4. f \in DOMAIN dir' /\ dir'[f] = dir[f]
      BY <2>1, <3>1, <3>3 DEF Put
    <3> QED BY <3>1, <3>4
  <2> QED BY <1>0, <2>2, <2>3, <2>4 DEF ProgressInv
<1>5. CASE FailCreate
  BY <1>0, <1>5 DEF FailCreate, ProgressInv, Pending
<1>6. CASE Finish
  BY <1>0, <1>6 DEF Finish, ProgressInv, Pending
<1>7. CASE Stop \/ UNCHANGED vars
  BY <1>0, <1>7 DEF Stop, vars, ProgressInv, Pending
<1> QED BY <1>1, <1>2, <1>3, <1>4, <1>5, <1>6, <1>7 DEF Next

\* A file of a bundle: its tables, its foreign keys, its note.
LEMMA WrittenBundle ==
  ASSUME ProgressInv, FilesApart(export), mode = "schema", NEW f \in written
  PROVE  \E ns \in Namespaces(export) :
            /\ f = NamespaceFile(ns)
            /\ TablesOf(dir[f]) = {ent.name : ent \in EntitiesIn(export, ns)}
            /\ KeysOf(dir[f]) = {e \in ToSet(export.edges) : ns \in Ends(e)}
            /\ HasNote(dir[f]) <=> CrossSchema(export, ns)
<1>1. PICK job \in Plan(export, mode) : job.file = f /\ dir[f] = job.content
  BY DEF ProgressInv
<1>2. PICK ns \in Namespaces(export) : job = [file |-> NamespaceFile(ns), content |-> Bundle(export, ns)]
  BY <1>1 DEF Plan
<1>3. Loaded(export)
  BY CompileAssumption DEF ProgressInv, GroundInv
<1>4. f = NamespaceFile(ns) /\ dir[f] = Bundle(export, ns)
  BY <1>1, <1>2
<1> QED BY <1>3, <1>4, BundleFile

LEMMA TwoEnds ==
  ASSUME NEW e
  PROVE  Cardinality(Ends(e)) = 2 <=> Namespace(e.from) # Namespace(e.to)
<1>1. CASE Namespace(e.from) = Namespace(e.to)
  <2>1. Ends(e) = {Namespace(e.from)}
    BY <1>1 DEF Ends
  <2>2. Cardinality(Ends(e)) = 1
    BY <2>1, FS_Singleton
  <2> QED BY <1>1, <2>2
<1>2. CASE Namespace(e.from) # Namespace(e.to)
  <2> DEFINE a == Namespace(e.from)
             b == Namespace(e.to)
  <2>1. Ends(e) = {a} \cup {b} /\ b \notin {a}
    BY <1>2 DEF Ends
  <2> HIDE DEF a, b
  <2>2. IsFiniteSet({a}) /\ Cardinality({a}) = 1
    BY FS_Singleton
  <2>3. Cardinality({a} \cup {b}) = 1 + 1
    BY <2>1, <2>2, FS_AddElement
  <2> QED BY <1>2, <2>1, <2>3
<1> QED BY <1>1, <1>2

\* A bundle has a note exactly when a foreign key in it leads to a table it has not.
LEMMA NoteOfBundle ==
  ASSUME ProgressInv, FilesApart(export)
  PROVE  NoteIsTrue
<1> SUFFICES ASSUME mode = "schema", NEW f \in written
             PROVE  HasNote(dir[f]) <=> \E e \in KeysOf(dir[f]) : ~({e.from, e.to} \subseteq TablesOf(dir[f]))
  BY DEF NoteIsTrue, Statements, HasNote, KeysIn, KeysOf, TablesIn, TablesOf
<1>1. PICK ns \in Namespaces(export) :
            /\ f = NamespaceFile(ns)
            /\ TablesOf(dir[f]) = {ent.name : ent \in EntitiesIn(export, ns)}
            /\ KeysOf(dir[f]) = {e \in ToSet(export.edges) : ns \in Ends(e)}
            /\ HasNote(dir[f]) <=> CrossSchema(export, ns)
  BY WrittenBundle
<1>2. Loaded(export)
  BY CompileAssumption DEF ProgressInv, GroundInv
<1>3. \A e \in ToSet(export.edges) : \A name \in {e.from, e.to} :
         name \in TablesOf(dir[f]) <=> Namespace(name) = ns
  <2> TAKE e \in ToSet(export.edges)
  <2> TAKE name \in {e.from, e.to}
  <2>1. PICK ent \in ToSet(export.entities) : ent.name = name
    BY <1>2 DEF Loaded
  <2> QED BY <1>1, <2>1 DEF EntitiesIn
<1>4. CrossSchema(export, ns) <=> \E e \in ToSet(export.edges) : ns \in Ends(e) /\ Cardinality(Ends(e)) = 2
  BY DEF CrossSchema, ToSet
<1>5. \A e \in ToSet(export.edges) : ns \in Ends(e) =>
         (Cardinality(Ends(e)) = 2 <=> ~({e.from, e.to} \subseteq TablesOf(dir[f])))
  BY <1>3, TwoEnds DEF Ends
<1> QED BY <1>1, <1>4, <1>5

\* After a run that succeeded each entity is in one file, and each foreign key in
\* the files of both its tables.
LEMMA AllOnDisk ==
  ASSUME ProgressInv, FilesApart(export)
  PROVE  EverythingOnDisk
<1> SUFFICES ASSUME Succeeded, mode # "lighthouse"
             PROVE  /\ \A ent \in ToSet(export.entities) :
                          Cardinality({f \in written : ent.name \in TablesOf(dir[f])}) = 1
                    /\ \A edge \in ToSet(export.edges) : \A f \in written :
                          {edge.from, edge.to} \cap TablesOf(dir[f]) # {} => edge \in KeysOf(dir[f])
  BY DEF EverythingOnDisk, Statements, KeysIn, KeysOf, TablesIn, TablesOf
<1>1. /\ Loaded(export) /\ mode \in {"full", "schema"}
      /\ \A job \in Plan(export, mode) : job.file \in written
  BY CompileAssumption DEF ProgressInv, GroundInv, Succeeded, Pending
<1>2. CASE mode = "full"
  <2> DEFINE file == <<"ctxpack">>
             c == RenderDDL(export.entities, export.edges)
  <2>1. Plan(export, mode) = {[file |-> file, content |-> c]}
    BY <1>2 DEF Plan
  <2>2. \A f \in written : \E job \in Plan(export, mode) : job.file = f /\ dir[f] = job.content
    BY DEF ProgressInv
  <2> HIDE DEF file, c
  <2>3. written = {file} /\ dir[file] = c
    BY <1>1, <2>1, <2>2
  <2>4. TablesOf(c) = NamesIn(export.entities) /\ KeysOf(c) = ToSet(export.edges)
    BY <1>1, WholeFile DEF c
  <2>5. \A ent \in ToSet(export.entities) : {f \in written : ent.name \in TablesOf(dir[f])} = {file}
    BY <2>3, <2>4 DEF NamesIn
  <2> QED BY <2>3, <2>4, <2>5, FS_Singleton
<1>3. CASE mode = "schema"
  <2>1. \A f \in written : \E ns \in Namespaces(export) :
            /\ f = NamespaceFile(ns)
            /\ TablesOf(dir[f]) = {ent.name : ent \in EntitiesIn(export, ns)}
            /\ KeysOf(dir[f]) = {e \in ToSet(export.edges) : ns \in Ends(e)}
    BY <1>3, WrittenBundle
  <2>2. \A ns \in Namespaces(export) : NamespaceFile(ns) \in written
    <3> TAKE ns \in Namespaces(export)
    <3> DEFINE job == [file |-> NamespaceFile(ns), content |-> Bundle(export, ns)]
    <3>1. job \in Plan(export, mode)
      BY <1>3 DEF Plan
    <3> QED BY <1>1, <3>1
  <2>3. ASSUME NEW ent \in ToSet(export.entities)
        PROVE  Cardinality({f \in written : ent.name \in TablesOf(dir[f])}) = 1
    <3> DEFINE own == NamespaceFile(Namespace(ent.name))
    <3>1. Namespace(ent.name) \in Namespaces(export)
      BY DEF Namespaces, ToSet
    <3>2. ASSUME NEW f \in written
          PROVE  ent.name \in TablesOf(dir[f]) <=> f = own
      <4>1. PICK ns \in Namespaces(export) :
               f = NamespaceFile(ns) /\ TablesOf(dir[f]) = {e.name : e \in EntitiesIn(export, ns)}
        BY <2>1
      <4>2. ent.name \in TablesOf(dir[f]) <=> Namespace(ent.name) = ns
        BY <4>1 DEF EntitiesIn
      <4>3. f = own <=> Namespace(ent.name) = ns
        BY <3>1, <4>1 DEF FilesApart
      <4> QED BY <4>2, <4>3
    <3>3. own \in written
      BY <2>2, <3>1
    <3> HIDE DEF own
    <3>4. {f \in written : ent.name \in TablesOf(dir[f])} = {own}
      BY <3>2, <3>3
    <3> QED BY <3>4, FS_Singleton
  <2>4. ASSUME NEW edge \in ToSet(export.edges), NEW f \in written,
               {edge.from, edge.to} \cap TablesOf(dir[f]) # {}
        PROVE  edge \in KeysOf(dir[f])
    <3>1. PICK ns \in Namespaces(export) :
             /\ TablesOf(dir[f]) = {e.name : e \in EntitiesIn(export, ns)}
             /\ KeysOf(dir[f]) = {e \in ToSet(export.edges) : ns \in Ends(e)}
      BY <2>1
    <3>2. ns \in Ends(edge)
      BY <2>4, <3>1 DEF EntitiesIn, Ends
    <3> QED BY <3>1, <3>2
  <2> QED BY <2>3, <2>4
<1> QED BY <1>1, <1>2, <1>3

\* Unless two namespaces of the document share a file, a run that succeeded has the
\* whole document on disk, each entity in one file, each key with both its tables.
THEOREM OnDisk == Spec => [](FilesApart(export) => EverythingOnDisk)
<1>1. ProgressInv => (FilesApart(export) => EverythingOnDisk)
  BY AllOnDisk
<1> QED BY InitProgress, NextProgress, <1>1, PTL DEF Spec

\* Unless two namespaces of the document share a file, every written bundle says
\* that it refers to other schemas exactly when it does.
THEOREM NotesTrue == Spec => [](FilesApart(export) => NoteIsTrue)
<1>1. ProgressInv => (FilesApart(export) => NoteIsTrue)
  BY NoteOfBundle
<1> QED BY InitProgress, NextProgress, <1>1, PTL DEF Spec

-----------------------------------------------------------------------------
Underscore == "_"

\* A slug ends in an underscore only behind a letter or digit, so that, trimmed, it
\* ends in one of those.
Slug(s) ==
    /\ Len(s) > 0 => s[Len(s)] \in WordChars \cup {Underscore}
    /\ Len(s) > 0 /\ s[Len(s)] = Underscore => Len(s) > 1 /\ s[Len(s) - 1] \in WordChars

SlugChars == WordChars \cup {Underscore}

LEMMA OneChar ==
  ASSUME NEW S, NEW x \in S
  PROVE  <<x>> \in Seq(S) /\ Len(<<x>>) = 1 /\ <<x>>[1] = x /\ << >> \in Seq(S)
OBVIOUS

LEMMA SlugGrows ==
  ASSUME NEW a \in Seq(SlugChars), Slug(a), NEW c \in SlugChars,
         c = Underscore => Len(a) > 0 /\ a[Len(a)] \in WordChars
  PROVE  /\ Slug(a \o <<c>>)
         /\ Len(a \o <<c>>) > 0 /\ (a \o <<c>>)[Len(a \o <<c>>)] = c
<1> DEFINE b == a \o <<c>>
<1>0. <<c>> \in Seq(SlugChars) /\ Len(<<c>>) = 1 /\ <<c>>[1] = c /\ Len(a) \in Nat
  BY OneChar
<1>1. Len(a) \in Nat /\ Len(b) = Len(a) + 1 /\ b[Len(a) + 1] = c /\ \A k \in 1..Len(a) : b[k] = a[k]
  BY <1>0, ConcatProperties
<1> HIDE DEF b
<1>2. Len(b) > 0 /\ b[Len(b)] = c /\ Len(b) - 1 = Len(a)
  BY <1>1
<1>3. c = Underscore => Len(b) > 1 /\ b[Len(b) - 1] \in WordChars
  <2> SUFFICES ASSUME c = Underscore
               PROVE  Len(b) > 1 /\ b[Len(b) - 1] \in WordChars
    OBVIOUS
  <2>1. Len(a) \in 1..Len(a) /\ Len(b) > 1
    BY <1>1
  <2> QED BY <1>1, <1>2, <2>1
<1> QED BY <1>2, <1>3 DEF Slug, SlugChars, b

LEMMA FoldSlug ==
  ASSUME NEW R, NEW ns \in Seq(R)
  PROVE  Fold(ns) \in Seq(SlugChars) /\ Slug(Fold(ns))
<1> DEFINE word(i) == Lower[ns[i]] \in WordChars
           slug(i) == IF word(i) THEN <<Lower[ns[i]]>>
                      ELSE IF i > 1 /\ word(i - 1) THEN <<"_">> ELSE << >>
           n == Len(ns)
           ss == [i \in 1..n |-> slug(i)]
<1>1. n \in Nat
  OBVIOUS
<1>2. \A i \in 1..n : /\ word(i) => ss[i] = <<Lower[ns[i]]>> /\ Lower[ns[i]] \in SlugChars
                      /\ word(i) => Lower[ns[i]] # Underscore
                      /\ ~word(i) /\ i > 1 /\ word(i - 1) => ss[i] = <<Underscore>>
                      /\ ~word(i) /\ ~(i > 1 /\ word(i - 1)) => ss[i] = << >>
  BY ReaderAssumption DEF SlugChars, Underscore
<1>3. Fold(ns) = FlattenSeq(ss)
  BY DEF Fold
<1>4. ss = [i \in 1..n |-> ss[i]]
  OBVIOUS
<1> HIDE DEF ss, word, slug, n
<1>5. \A i \in 1..n : ss[i] \in Seq(SlugChars)
  <2> TAKE i \in 1..n
  <2>0. Underscore \in SlugChars
    BY DEF SlugChars
  <2>1. CASE word(i)
    BY <1>2, <2>1, OneChar
  <2>2. CASE ~word(i) /\ i > 1 /\ word(i - 1)
    BY <1>2, <2>0, <2>2, OneChar
  <2>3. CASE ~word(i) /\ ~(i > 1 /\ word(i - 1))
    BY <1>2, <2>0, <2>3, OneChar
  <2> QED BY <2>1, <2>2, <2>3
<1>6. ss \in Seq(Seq(SlugChars)) /\ Len(ss) = n
  BY <1>1, <1>4, <1>5
<1>7. PICK g \in [0..n -> Seq(SlugChars)] : Joined(g, ss, n) /\ FlattenSeq(ss) = g[n]
  BY <1>6, FlatIsJoined
<1> DEFINE Good(k) == /\ Slug(g[k])
                      /\ k > 0 /\ word(k) => Len(g[k]) > 0 /\ g[k][Len(g[k])] \in WordChars
           T == {k \in 0..n : Good(k)}
<1>8. 0 \in T
  <2>1. Len(g[0]) = 0
    BY <1>7 DEF Joined
  <2>2. 0 \in 0..n /\ Slug(g[0])
    BY <1>1, <2>1 DEF Slug
  <2> QED BY <2>2
<1>9. ASSUME NEW k \in 0..n, k \in T, k < n
      PROVE  k + 1 \in T
  <2>0. k \in Nat /\ k + 1 \in 1..n /\ k + 1 \in 0..n /\ (k + 1) - 1 = k /\ k + 1 > 0
    BY <1>1, <1>9
  <2>1. g[k + 1] = g[k] \o ss[k + 1] /\ g[k] \in Seq(SlugChars)
    BY <1>7, <1>9 DEF Joined
  <2>2. Slug(g[k]) /\ (k > 0 /\ word(k) => Len(g[k]) > 0 /\ g[k][Len(g[k])] \in WordChars)
    BY <1>9
  <2> SUFFICES Good(k + 1)
    BY <2>0
  <2> HIDE DEF T
  <2>4. CASE word(k + 1)
    <3> DEFINE c == Lower[ns[k + 1]]
    <3>1. g[k + 1] = g[k] \o <<c>> /\ c \in SlugChars /\ c # Underscore
      BY <1>2, <2>0, <2>1, <2>4
    <3>2. c \in WordChars
      BY <3>1 DEF SlugChars
    <3> HIDE DEF c
    <3> QED BY <2>1, <2>2, <3>1, <3>2, SlugGrows
  <2>5. CASE ~word(k + 1) /\ k + 1 > 1 /\ word(k)
    <3>1. g[k + 1] = g[k] \o <<Underscore>> /\ Underscore \in SlugChars
      BY <1>2, <2>0, <2>1, <2>5 DEF SlugChars
    <3>2. Len(g[k]) > 0 /\ g[k][Len(g[k])] \in WordChars
      BY <2>0, <2>2, <2>5
    <3>3. Slug(g[k + 1])
      BY <2>1, <2>2, <3>1, <3>2, SlugGrows
    <3> QED BY <2>5, <3>3
  <2>6. CASE ~word(k + 1) /\ ~(k + 1 > 1 /\ word(k))
    <3>1. g[k + 1] = g[k] \o << >>
      BY <1>2, <2>0, <2>1, <2>6
    <3>2. g[k + 1] = g[k]
      BY <2>1, <3>1
    <3> QED BY <2>2, <2>6, <3>2
  <2> QED BY <2>4, <2>5, <2>6
<1> HIDE DEF T
<1>10. \A k \in 0..n : k \in T
  BY <1>1, <1>8, <1>9, UpTo
<1>11. n \in 0..n
  BY <1>1
<1>12. Slug(g[n])
  BY <1>10, <1>11 DEF T
<1> QED BY <1>3, <1>7, <1>11, <1>12

LEMMA NamespaceIsSeq ==
  ASSUME NEW R, NEW name \in Seq(R)
  PROVE  \E Q : Namespace(name) \in Seq(Q)
<1> DEFINE I == {i \in 1..Len(name) : name[i] = "."}
           dot == SelectInSeq(name, LAMBDA c : c = ".")
<1>1. dot = IF I # {} THEN Min(I) ELSE 0
  BY DEF SelectInSeq
<1>2. Namespace(name) = IF dot > 1 THEN SubSeq(name, 1, dot - 1) ELSE Default
  BY DEF Namespace
<1>3. Default \in Seq({"default"})
  BY DEF Default
<1>4. CASE I # {}
  <2>0. I \subseteq Nat
    OBVIOUS
  <2>1. PICK x \in I : \A y \in I : x <= y
    BY <1>4, <2>0, LeastOf
  <2>2. Min(I) \in I
    BY <2>1 DEF Min
  <2> HIDE DEF dot
  <2>3. dot \in 1..Len(name)
    BY <1>1, <1>4, <2>2
  <2>4. dot > 1 => SubSeq(name, 1, dot - 1) \in Seq(R)
    BY <2>3, SubSeqProperties
  <2> QED BY <1>2, <1>3, <2>4
<1>5. CASE I = {}
  <2> HIDE DEF dot
  <2>1. dot = 0
    BY <1>1, <1>5
  <2> QED BY <1>2, <1>3, <2>1
<1> QED BY <1>4, <1>5

GoodName(file) == file # << >> /\ Last(file) # "_"

\* A bundle's file has a name, and it does not end in an underscore.
LEMMA FileNamed ==
  ASSUME NEW R, NEW ns \in Seq(R)
  PROVE  GoodName(NamespaceFile(ns))
<1> DEFINE slug == Fold(ns)
           trimmed == IF slug # << >> /\ Last(slug) = "_" THEN Front(slug) ELSE slug
<1>1. slug \in Seq(SlugChars) /\ Slug(slug)
  BY FoldSlug
<1>2. NamespaceFile(ns) = IF trimmed = << >> THEN Default ELSE trimmed
  BY DEF NamespaceFile
<1> HIDE DEF slug
<1>3. Default # << >> /\ Last(Default) = "default" /\ "default" # "_"
  BY DEF Default, Last
<1>4. Len(slug) \in Nat /\ (slug # << >> <=> Len(slug) > 0)
  BY <1>1
<1>5. CASE slug # << >> /\ Last(slug) = "_"
  <2>1. Len(slug) > 1 /\ slug[Len(slug) - 1] \in WordChars
    BY <1>1, <1>4, <1>5 DEF Slug, Last, Underscore
  <2>2. trimmed = SubSeq(slug, 1, Len(slug) - 1)
    BY <1>5 DEF Front
  <2> HIDE DEF trimmed
  <2>3. Len(trimmed) = Len(slug) - 1 /\ trimmed[Len(slug) - 1] = slug[Len(slug) - 1]
    BY <1>1, <1>4, <2>1, <2>2, SubSeqProperties
  <2>4. trimmed # << >>
    BY <1>4, <2>1, <2>3
  <2>5. Last(trimmed) \in WordChars
    BY <2>1, <2>3 DEF Last
  <2> QED BY <1>2, <2>4, <2>5, ReaderAssumption DEF GoodName
<1>6. CASE ~(slug # << >> /\ Last(slug) = "_")
  BY <1>2, <1>3, <1>6 DEF GoodName
<1> QED BY <1>5, <1>6

LEMMA PlanNames ==
  ASSUME NEW doc \in Exports, NEW m \in Modes, NEW job \in Plan(doc, m)
  PROVE  GoodName(job.file)
<1>1. Loaded(doc) /\ m \in {"full", "schema", "lighthouse"}
  BY CompileAssumption
<1>2. CASE m = "full"
  <2>1. job.file = <<"ctxpack">>
    BY <1>2 DEF Plan
  <2> QED BY <2>1 DEF GoodName, Last
<1>3. CASE m = "lighthouse"
  <2>1. job.file = <<"lighthouse">>
    BY <1>3 DEF Plan
  <2> QED BY <2>1 DEF GoodName, Last
<1>4. CASE m = "schema"
  <2>1. PICK ns \in Namespaces(doc) : job.file = NamespaceFile(ns)
    BY <1>4 DEF Plan
  <2>2. PICK i \in DOMAIN doc.entities : ns = Namespace(doc.entities[i].name)
    BY DEF Namespaces
  <2>3. \E R : doc.entities[i].name \in Seq(R)
    BY <1>1 DEF Loaded, LoadedEntity, ToSet
  <2>4. \E Q : ns \in Seq(Q)
    BY <2>2, <2>3, NamespaceIsSeq
  <2> QED BY <2>1, <2>4, FileNamed
<1> QED BY <1>1, <1>2, <1>3, <1>4

TypeInv ==
    /\ TypeOK
    /\ todo \subseteq Plan(export, mode)
    /\ stage = "write" => current \in Plan(export, mode) /\ current.file \in DOMAIN dir

LEMMA InitType == Init => TypeInv
BY DEF Init, TypeInv, TypeOK

LEMMA PutNames ==
  ASSUME NEW file, NEW c, Put(file, c)
  PROVE  DOMAIN dir' = DOMAIN dir \cup {file}
BY DEF Put

LEMMA NextType == TypeInv /\ [Next]_vars => TypeInv'
<1> SUFFICES ASSUME TypeInv, [Next]_vars
             PROVE  TypeInv'
  OBVIOUS
<1>0. /\ export \in Exports /\ mode \in Modes /\ written \subseteq DOMAIN dir
      /\ \A f \in DOMAIN dir : GoodName(f)
      /\ \A job \in Plan(export, mode) : GoodName(job.file)
  BY PlanNames DEF TypeInv, TypeOK, GoodName
<1>1. CASE Begin
  BY <1>0, <1>1 DEF Begin, TypeInv, TypeOK
<1>2. CASE CreateFile
  <2>1. PICK job \in todo : todo' = todo \ {job} /\ current' = job /\ Put(job.file, << >>)
    BY <1>2 DEF CreateFile
  <2>2. DOMAIN dir' = DOMAIN dir \cup {job.file} /\ job \in Plan(export, mode)
    BY <2>1, PutNames DEF TypeInv
  <2>3. \A f \in DOMAIN dir' : GoodName(f)
    BY <1>0, <2>2
  <2> QED BY <1>0, <1>2, <2>1, <2>2, <2>3 DEF CreateFile, TypeInv, TypeOK, GoodName
<1>3. CASE WriteFile
  <2>1. DOMAIN dir' = DOMAIN dir \cup {current.file}
    BY <1>3, PutNames DEF WriteFile
  <2>2. DOMAIN dir' = DOMAIN dir /\ written' \subseteq DOMAIN dir'
    BY <1>0, <1>3, <2>1 DEF WriteFile, TypeInv
  <2> QED BY <1>0, <1>3, <2>2 DEF WriteFile, TypeInv, TypeOK
<1>4. CASE FailWrite
  <2>1. PICK n \in 0..(Len(current.content) - 1) : Put(current.file, SubSeq(current.content, 1, n))
    BY <1>4 DEF FailWrite
  <2>2. DOMAIN dir' = DOMAIN dir \cup {current.file}
    BY <2>1, PutNames
  <2>3. DOMAIN dir' = DOMAIN dir
    BY <1>4, <2>2 DEF FailWrite, TypeInv
  <2> QED BY <1>0, <1>4, <2>3 DEF FailWrite, TypeInv, TypeOK
<1>5. CASE FailCreate
  BY <1>5 DEF FailCreate, TypeInv, TypeOK
<1>6. CASE Finish
  BY <1>6 DEF Finish, TypeInv, TypeOK
<1>7. CASE Stop \/ UNCHANGED vars
  BY <1>7 DEF Stop, vars, TypeInv, TypeOK
<1> QED BY <1>1, <1>2, <1>3, <1>4, <1>5, <1>6, <1>7 DEF Next

\* Every file a run makes has a name that does not end in an underscore, whatever
\* characters the namespace has; what is written is on disk.
THEOREM TypeCorrect == Spec => []TypeOK
<1>1. TypeInv => TypeOK
  BY DEF TypeInv
<1> QED BY InitType, NextType, <1>1, PTL DEF Spec

-----------------------------------------------------------------------------
\* Reading back, 1: what Split returns.  Its loop is followed piece by piece: Splits
\* says that it gets from one state to another over a sequence.

\* A loop over a and then over b is one over both.
Glued(f, g, m) == [k \in Nat |-> IF k <= m THEN f[k] ELSE g[k - m]]

OneLoop(h, f, g, a, b) ==
    /\ h[0] = f[0] /\ h[Len(a \o b)] = g[Len(b)]
    /\ \A k \in 1..Len(a \o b) :
          \/ \E i \in 1..Len(a) : h[k - 1] = f[i - 1] /\ h[k] = f[i] /\ (a \o b)[k] = a[i]
          \/ \E i \in 1..Len(b) : h[k - 1] = g[i - 1] /\ h[k] = g[i] /\ (a \o b)[k] = b[i]

LEMMA GluedSteps ==
  ASSUME NEW a, NEW b, Listed(a), Listed(b), NEW f, NEW g, f[Len(a)] = g[0]
  PROVE  OneLoop(Glued(f, g, Len(a)), f, g, a, b)
<1> DEFINE h == Glued(f, g, Len(a))
           ab == a \o b
           m == Len(a)
           n == Len(b)
<1>1. /\ m \in Nat /\ n \in Nat /\ Len(ab) = m + n
      /\ \A k \in 1..m : ab[k] = a[k]
      /\ \A k \in 1..n : ab[m + k] = b[k]
  BY AnySeq, ConcatMembers DEF Listed
<1> HIDE DEF ab, m, n
<1>2. /\ \A k \in Nat : k <= m => h[k] = f[k]
      /\ \A k \in Nat : k <= n => h[m + k] = g[k]
  <2>1. \A k \in Nat : h[k] = IF k <= m THEN f[k] ELSE g[k - m]
    BY DEF Glued, m
  <2>2. ASSUME NEW k \in Nat, k <= n PROVE h[m + k] = g[k]
    <3>1. CASE k = 0
      <4>1. m + k = m /\ m <= m
        BY <1>1, <3>1
      <4> QED BY <1>1, <2>1, <3>1, <4>1 DEF m
    <3>2. CASE k # 0
      <4>1. m + k \in Nat /\ ~(m + k <= m) /\ (m + k) - m = k
        BY <1>1, <3>2
      <4> QED BY <2>1, <4>1
    <3> QED BY <3>1, <3>2
  <2> QED BY <2>1, <2>2
<1> HIDE DEF h
<1>3. h[0] = f[0] /\ h[Len(ab)] = g[n]
  BY <1>1, <1>2
<1>4. ASSUME NEW k \in 1..Len(ab)
      PROVE  \/ \E i \in 1..m : h[k - 1] = f[i - 1] /\ h[k] = f[i] /\ ab[k] = a[i]
             \/ \E i \in 1..n : h[k - 1] = g[i - 1] /\ h[k] = g[i] /\ ab[k] = b[i]
  <2>1. CASE k <= m
    <3>1. k \in 1..m /\ k - 1 \in Nat /\ k \in Nat /\ k - 1 <= m
      BY <1>1, <2>1
    <3> QED BY <1>1, <1>2, <2>1, <3>1
  <2>2. CASE ~(k <= m)
    <3>1. k - m \in 1..n /\ k - m \in Nat /\ (k - m) - 1 \in Nat /\ k - m <= n /\ (k - m) - 1 <= n
          /\ m + (k - m) = k /\ m + ((k - m) - 1) = k - 1
      BY <1>1, <2>2
    <3>2. h[k] = g[k - m] /\ h[k - 1] = g[(k - m) - 1] /\ ab[k] = b[k - m]
      BY <1>1, <1>2, <3>1
    <3> QED BY <3>1, <3>2
  <2> QED BY <2>1, <2>2
<1> QED BY <1>3, <1>4 DEF OneLoop, h, ab, m, n

LEMMA SameLoop ==
  ASSUME NEW n \in Nat, NEW f, NEW g, f[0] = g[0],
         \A k \in 1..n : f[k - 1] = g[k - 1] => f[k] = g[k]
  PROVE  f[n] = g[n]
<1> DEFINE T == {k \in 0..n : f[k] = g[k]}
<1>1. 0 \in T
  OBVIOUS
<1>2. ASSUME NEW k \in 0..n, k \in T, k < n
      PROVE  k + 1 \in T
  <2>1. k + 1 \in 1..n /\ k + 1 \in 0..n /\ (k + 1) - 1 = k
    BY <1>2
  <2> QED BY <1>2, <2>1
<1> HIDE DEF T
<1>3. n \in T
  BY <1>1, <1>2, UpTo
<1> QED BY <1>3 DEF T

-----------------------------------------------------------------------------
\* How Split gets on with a sequence.
At0(depth, done, part) == [depth |-> depth, done |-> done, part |-> part]

Splits(s, x, t, sep, open, close) ==
    \E f : /\ f[0] = s /\ f[Len(x)] = t
           /\ \A k \in 1..Len(x) : f[k] = SplitStep(f[k - 1], x[k], sep, open, close)

LEMMA SplitsNothing ==
  ASSUME NEW s, NEW sep, NEW open, NEW close
  PROVE  Splits(s, << >>, s, sep, open, close)
<1> DEFINE f == [k \in {0} |-> s]
<1>1. f[0] = s /\ Len(<< >>) = 0
  OBVIOUS
<1> HIDE DEF f
<1> QED BY <1>1 DEF Splits

LEMMA SplitsOne ==
  ASSUME NEW s, NEW c, NEW sep, NEW open, NEW close
  PROVE  Splits(s, <<c>>, SplitStep(s, c, sep, open, close), sep, open, close)
<1> DEFINE t == SplitStep(s, c, sep, open, close)
           f == [k \in {0, 1} |-> IF k = 0 THEN s ELSE t]
<1> HIDE DEF t
<1>1. f[0] = s /\ f[1] = t
  OBVIOUS
<1>2. Len(<<c>>) = 1 /\ <<c>>[1] = c /\ \A k \in 1..1 : k = 1 /\ k - 1 = 0
  OBVIOUS
<1> HIDE DEF f
<1>3. \A k \in 1..Len(<<c>>) : f[k] = SplitStep(f[k - 1], <<c>>[k], sep, open, close)
  BY <1>1, <1>2 DEF t
<1> QED BY <1>1, <1>2, <1>3 DEF Splits, t

LEMMA SplitsOn ==
  ASSUME NEW a, NEW b, Listed(a), Listed(b), NEW s, NEW t, NEW u, NEW sep, NEW open, NEW close,
         Splits(s, a, t, sep, open, close), Splits(t, b, u, sep, open, close)
  PROVE  Splits(s, a \o b, u, sep, open, close)
<1>1. PICK f : /\ f[0] = s /\ f[Len(a)] = t
               /\ \A k \in 1..Len(a) : f[k] = SplitStep(f[k - 1], a[k], sep, open, close)
  BY DEF Splits
<1>2. PICK g : /\ g[0] = t /\ g[Len(b)] = u
               /\ \A k \in 1..Len(b) : g[k] = SplitStep(g[k - 1], b[k], sep, open, close)
  BY DEF Splits
<1> DEFINE h == Glued(f, g, Len(a))
<1>3. OneLoop(h, f, g, a, b)
  <2>1. f[Len(a)] = g[0]
    BY <1>1, <1>2
  <2> QED BY <2>1, GluedSteps
<1> HIDE DEF h
<1>4. \A k \in 1..Len(a \o b) : h[k] = SplitStep(h[k - 1], (a \o b)[k], sep, open, close)
  BY <1>1, <1>2, <1>3 DEF OneLoop
<1> QED BY <1>1, <1>2, <1>3, <1>4 DEF Splits, OneLoop

UnfoldsSplit(read, x, sep, open, close) ==
    read = [n \in 0..Len(x) |-> IF n = 0 THEN [depth |-> 0, done |-> << >>, part |-> << >>]
                                ELSE SplitStep(read[n - 1], x[n], sep, open, close)]

LEMMA SplitCases ==
  ASSUME NEW x, NEW sep, NEW open, NEW close, \E read : UnfoldsSplit(read, x, sep, open, close)
  PROVE  \E read : /\ UnfoldsSplit(read, x, sep, open, close)
                   /\ Split(x, sep, open, close) = Append(read[Len(x)].done, read[Len(x)].part)
<1> DEFINE r == CHOOSE read : UnfoldsSplit(read, x, sep, open, close)
<1>1. UnfoldsSplit(r, x, sep, open, close)
  OBVIOUS
<1>2. Split(x, sep, open, close) = Append(r[Len(x)].done, r[Len(x)].part)
  BY DEF Split, UnfoldsSplit
<1> QED BY <1>1, <1>2

\* The parts Split returns are those its loop has found in the end.
LEMMA SplitReads ==
  ASSUME NEW x, Listed(x), NEW sep, NEW open, NEW close, NEW done, NEW part, NEW depth,
         Splits(At0(0, << >>, << >>), x, At0(depth, done, part), sep, open, close)
  PROVE  Split(x, sep, open, close) = Append(done, part)
<1> DEFINE N == Len(x)
           first == At0(0, << >>, << >>)
<1>1. N \in Nat
  BY AnySeq DEF Listed
<1>2. PICK f : /\ f[0] = first /\ f[N] = At0(depth, done, part)
               /\ \A k \in 1..N : f[k] = SplitStep(f[k - 1], x[k], sep, open, close)
  BY DEF Splits
<1> DEFINE r == [n \in 0..N |-> f[n]]
<1>3. UnfoldsSplit(r, x, sep, open, close)
  <2>1. \A n \in 0..N : f[n] = IF n = 0 THEN first ELSE SplitStep(r[n - 1], x[n], sep, open, close)
    <3> TAKE n \in 0..N
    <3>1. CASE n = 0
      BY <1>2, <3>1
    <3>2. CASE n # 0
      <4>1. n \in 1..N /\ n - 1 \in 0..N
        BY <1>1, <3>2
      <4>2. r[n - 1] = f[n - 1]
        BY <4>1
      <4> QED BY <1>2, <3>2, <4>1, <4>2
    <3> QED BY <3>1, <3>2
  <2> QED BY <2>1 DEF UnfoldsSplit, At0
<1>4. PICK read : /\ UnfoldsSplit(read, x, sep, open, close)
                  /\ Split(x, sep, open, close) = Append(read[N].done, read[N].part)
  BY <1>3, SplitCases
<1>5. \A n \in 0..N : read[n] = IF n = 0 THEN first ELSE SplitStep(read[n - 1], x[n], sep, open, close)
  BY <1>4 DEF UnfoldsSplit, At0
<1>6. read[0] = f[0]
  BY <1>1, <1>2, <1>5
<1>7. \A k \in 1..N : read[k - 1] = f[k - 1] => read[k] = f[k]
  <2> TAKE k \in 1..N
  <2>1. k \in 0..N /\ k # 0
    BY <1>1
  <2> QED BY <1>2, <1>5, <2>1
<1> HIDE DEF N
<1>8. read[N] = f[N]
  BY <1>1, <1>6, <1>7, SameLoop
<1> QED BY <1>2, <1>4, <1>8 DEF At0, N

-----------------------------------------------------------------------------
LEMMA ListedConcat ==
  ASSUME NEW a, NEW b, Listed(a), Listed(b)
  PROVE  Listed(a \o b)
BY ConcatMembers

LEMMA ConcatNothing ==
  ASSUME NEW a, Listed(a)
  PROVE  << >> \o a = a /\ a \o << >> = a
BY ConcatEmptySeq DEF Listed

LEMMA ConcatThree ==
  ASSUME NEW a, NEW b, NEW c, Listed(a), Listed(b), Listed(c)
  PROVE  (a \o b) \o c = a \o (b \o c)
<1> DEFINE R == ToSet(a) \cup ToSet(b) \cup ToSet(c)
<1>1. a \in Seq(R) /\ b \in Seq(R) /\ c \in Seq(R)
  BY WiderSeq DEF Listed
<1> HIDE DEF R
<1> QED BY <1>1, ConcatAssociative

LEMMA ListedOne == \A x : Listed(<<x>>) /\ Listed(<< >>) /\ ToSet(<<x>>) = {x}
BY DEF Listed, ToSet

LEMMA ListedAppend ==
  ASSUME NEW a, NEW b, NEW x, Listed(a), Listed(b)
  PROVE  /\ Append(a, x) = a \o <<x>> /\ Listed(Append(a, x))
         /\ a \o Append(b, x) = Append(a \o b, x)
<1>0. Listed(<<x>>)
  BY ListedOne
<1>1. \A s : Listed(s) => Append(s, x) = s \o <<x>>
  <2> SUFFICES ASSUME NEW s, Listed(s) PROVE Append(s, x) = s \o <<x>>
    OBVIOUS
  <2> DEFINE R == ToSet(s) \cup {x}
  <2>1. s \in Seq(R) /\ x \in R
    BY WiderSeq DEF Listed
  <2> HIDE DEF R
  <2> QED BY <2>1, AppendIsConcat
<1>2. Listed(a \o b) /\ Listed(a \o <<x>>)
  BY <1>0, ListedConcat
<1>3. a \o Append(b, x) = a \o (b \o <<x>>) /\ Append(a \o b, x) = (a \o b) \o <<x>>
  BY <1>1, <1>2
<1>4. (a \o b) \o <<x>> = a \o (b \o <<x>>)
  BY <1>0, ConcatThree
<1>5. Append(a, x) = a \o <<x>>
  BY <1>1
<1> QED BY <1>2, <1>3, <1>4, <1>5

\* At this depth x becomes part of a part as it is.
Fits(x, depth, sep, open, close) ==
    \A done, part : Listed(part) =>
        Splits(At0(depth, done, part), x, At0(depth, done, part \o x), sep, open, close)

LEMMA FitsPlain ==
  ASSUME NEW x, Listed(x), NEW depth, NEW sep, NEW open, NEW close,
         \A c \in ToSet(x) : c \notin open /\ c \notin close /\ ~(c = sep /\ depth = 0)
  PROVE  Fits(x, depth, sep, open, close)
<1> SUFFICES ASSUME NEW done, NEW part, Listed(part)
             PROVE  Splits(At0(depth, done, part), x, At0(depth, done, part \o x), sep, open, close)
  BY DEF Fits
<1> DEFINE N == Len(x)
           f == [k \in 0..N |-> At0(depth, done, part \o SubSeq(x, 1, k))]
<1>1. N \in Nat /\ x \in Seq(ToSet(x)) /\ \A k \in 1..N : x[k] \in ToSet(x)
  BY AnySeq DEF Listed, ToSet
<1>2. /\ SubSeq(x, 1, 0) = << >> /\ SubSeq(x, 1, N) = x
      /\ \A k \in 0..N : SubSeq(x, 1, k) \in Seq(ToSet(x))
      /\ \A k \in 1..N : SubSeq(x, 1, k) = Append(SubSeq(x, 1, k - 1), x[k])
  BY <1>1, Beginnings
<1>3. \A k \in 0..N : f[k] = At0(depth, done, part \o SubSeq(x, 1, k))
  OBVIOUS
<1> HIDE DEF f, N
<1>4. 0 \in 0..N /\ N \in 0..N /\ \A k \in 1..N : k - 1 \in 0..N /\ k \in 0..N
  BY <1>1, RangeEnds
<1>5. ASSUME NEW k \in 1..N
      PROVE  f[k] = SplitStep(f[k - 1], x[k], sep, open, close)
  <2> DEFINE p == part \o SubSeq(x, 1, k - 1)
  <2>1. Listed(SubSeq(x, 1, k - 1))
    BY <1>2, <1>4, AnySeq
  <2>2. part \o SubSeq(x, 1, k) = Append(p, x[k])
    BY <1>2, <2>1, ListedAppend
  <2>3. f[k - 1] = At0(depth, done, p) /\ f[k] = At0(depth, done, Append(p, x[k]))
    BY <1>3, <1>4, <2>2
  <2> HIDE DEF p
  <2>4. x[k] \notin open /\ x[k] \notin close /\ ~(x[k] = sep /\ depth = 0)
    BY <1>1
  <2>5. SplitStep(At0(depth, done, p), x[k], sep, open, close) = At0(depth, done, Append(p, x[k]))
    BY <2>4 DEF SplitStep, At0
  <2> QED BY <2>3, <2>5
<1>6. f[0] = At0(depth, done, part) /\ f[N] = At0(depth, done, part \o x)
  BY <1>2, <1>3, <1>4, ConcatNothing
<1> QED BY <1>5, <1>6 DEF Splits, N

\* Of a row of pieces, those that end in a separator are the first parts.
LEMMA SplitsRow ==
  ASSUME NEW R, NEW items \in Seq(Seq(R)), NEW sep \in R, NEW open, NEW close,
         \A i \in 1..Len(items) : Fits(items[i], 0, sep, open, close),
         NEW pieces \in Seq(Seq(R)), NEW m \in 0..Len(items), Len(pieces) = Len(items),
         \A i \in 1..m : pieces[i] = Append(items[i], sep),
         NEW g \in [0..Len(pieces) -> Seq(R)], Joined(g, pieces, Len(pieces))
  PROVE  Splits(At0(0, << >>, << >>), g[m], At0(0, SubSeq(items, 1, m), << >>), sep, open, close)
<1> DEFINE N == Len(items)
           first == At0(0, << >>, << >>)
           state(k) == At0(0, SubSeq(items, 1, k), << >>)
           T == {k \in 0..m : Splits(first, g[k], state(k), sep, open, close)}
<1>1. N \in Nat /\ Len(pieces) = N /\ m \in Nat /\ m <= N /\ \A i \in 1..N : items[i] \in Seq(R) /\ pieces[i] \in Seq(R)
  OBVIOUS
<1>2. SubSeq(items, 1, 0) = << >> /\ \A k \in 1..N : SubSeq(items, 1, k) = Append(SubSeq(items, 1, k - 1), items[k])
  BY Beginnings
<1> HIDE DEF N
<1>3. 0 \in T
  <2>1. g[0] = << >> /\ state(0) = first
    BY <1>1, <1>2 DEF Joined
  <2>2. Splits(first, << >>, first, sep, open, close)
    BY SplitsNothing
  <2> QED BY <1>1, <2>1, <2>2
<1>4. ASSUME NEW k \in 0..m, k \in T, k < m
      PROVE  k + 1 \in T
  <2>0. k + 1 \in 1..m /\ k + 1 \in 1..N /\ k \in 0..N /\ k < N /\ (k + 1) - 1 = k /\ k + 1 \in 0..m
    BY <1>1, <1>4
  <2> DEFINE x == items[k + 1]
             done == SubSeq(items, 1, k)
  <2>1. g[k + 1] = g[k] \o Append(x, sep) /\ Listed(g[k]) /\ Listed(x) /\ Listed(<<sep>>)
    <3>1. g[k + 1] = g[k] \o pieces[k + 1]
      BY <1>1, <2>0 DEF Joined, N
    <3>2. g[k] \in Seq(R) /\ x \in Seq(R)
      BY <1>1, <2>0
    <3> QED BY <2>0, <3>1, <3>2, AnySeq, ListedOne
  <2>2. Append(x, sep) = x \o <<sep>> /\ Listed(x \o <<sep>>)
    BY <2>1, ListedAppend, ListedConcat
  <2>3. SubSeq(items, 1, k + 1) = Append(done, x)
    BY <1>2, <2>0
  <2>4. Fits(x, 0, sep, open, close)
    BY <2>0 DEF N
  <2>5. Splits(first, g[k], At0(0, done, << >>), sep, open, close)
    BY <1>4
  <2> HIDE DEF x, done, first
  <2>6. Splits(At0(0, done, << >>), x, At0(0, done, x), sep, open, close)
    <3>1. Listed(<< >>) /\ << >> \o x = x
      BY <2>1, ListedOne, ConcatNothing
    <3>2. Splits(At0(0, done, << >>), x, At0(0, done, << >> \o x), sep, open, close)
      BY <2>4, <3>1 DEF Fits
    <3> QED BY <3>1, <3>2
  <2>7. Splits(At0(0, done, x), <<sep>>, At0(0, Append(done, x), << >>), sep, open, close)
    <3>1. SplitStep(At0(0, done, x), sep, sep, open, close) = At0(0, Append(done, x), << >>)
      BY DEF SplitStep, At0
    <3> QED BY <3>1, SplitsOne
  <2>8. Splits(At0(0, done, << >>), x \o <<sep>>, At0(0, Append(done, x), << >>), sep, open, close)
    BY <2>1, <2>6, <2>7, SplitsOn
  <2>9. Splits(first, g[k] \o (x \o <<sep>>), At0(0, Append(done, x), << >>), sep, open, close)
    BY <2>1, <2>2, <2>5, <2>8, SplitsOn
  <2> QED BY <2>0, <2>1, <2>2, <2>3, <2>9
<1> HIDE DEF T
<1>5. m \in T
  <2>1. \A k \in 0..m : k \in T
    BY <1>1, <1>3, <1>4, UpTo
  <2> QED BY <1>1, <2>1
<1> QED BY <1>5 DEF T

\* What was joined with separators comes apart again.
LEMMA SplitSeparated ==
  ASSUME NEW R, NEW items \in Seq(Seq(R)), items # << >>, NEW sep \in R, NEW open, NEW close,
         \A i \in 1..Len(items) : Fits(items[i], 0, sep, open, close)
  PROVE  /\ Separated(items, sep) \in Seq(R)
         /\ Split(Separated(items, sep), sep, open, close) = items
<1> DEFINE N == Len(items)
           pieces == [i \in 1..N |-> IF i < N THEN Append(items[i], sep) ELSE items[i]]
           first == At0(0, << >>, << >>)
           x == items[N]
<1>1. N \in Nat /\ N > 0 /\ N - 1 \in 0..N /\ N \in 1..N /\ (N - 1) + 1 = N /\ \A i \in 1..N : items[i] \in Seq(R) /\ Append(items[i], sep) \in Seq(R)
  OBVIOUS
<1>2. Separated(items, sep) = FlattenSeq(pieces)
  BY DEF Separated
<1>3. /\ pieces \in Seq(Seq(R)) /\ Len(pieces) = N
      /\ \A i \in 1..(N - 1) : pieces[i] = Append(items[i], sep)
      /\ pieces[N] = x
  BY <1>1
<1> HIDE DEF pieces
<1>4. PICK g \in [0..Len(pieces) -> Seq(R)] : Joined(g, pieces, Len(pieces)) /\ FlattenSeq(pieces) = g[Len(pieces)]
  BY <1>3, FlatIsJoined
<1>5. Splits(first, g[N - 1], At0(0, SubSeq(items, 1, N - 1), << >>), sep, open, close)
  <2>1. N - 1 \in 0..Len(items) /\ Len(pieces) = Len(items) /\ \A i \in 1..(N - 1) : pieces[i] = Append(items[i], sep)
    BY <1>1, <1>3
  <2> HIDE DEF first
  <2> QED BY <1>3, <1>4, <2>1, SplitsRow DEF first
<1>6. g[N] = g[N - 1] \o x /\ g[N - 1] \in Seq(R) /\ g[N] \in Seq(R)
  <2>1. N - 1 \in 0..N /\ N - 1 < N /\ N \in 0..N
    BY <1>1
  <2> HIDE DEF N
  <2> QED BY <1>1, <1>3, <1>4, <2>1 DEF Joined
<1>7. items = Append(SubSeq(items, 1, N - 1), x)
  BY <1>1, Beginnings
<1>8. Listed(x) /\ Listed(g[N - 1]) /\ Listed(g[N]) /\ Listed(<< >>)
  BY <1>1, <1>6, AnySeq, ListedOne
<1>9. Fits(x, 0, sep, open, close)
  BY <1>1
<1> DEFINE done == SubSeq(items, 1, N - 1)
<1> HIDE DEF first, x, N, done
<1>10. Splits(At0(0, done, << >>), x, At0(0, done, x), sep, open, close)
  <2>1. Splits(At0(0, done, << >>), x, At0(0, done, << >> \o x), sep, open, close)
    BY <1>8, <1>9 DEF Fits
  <2> QED BY <1>8, <2>1, ConcatNothing
<1>11. Splits(first, g[N], At0(0, done, x), sep, open, close)
  BY <1>5, <1>6, <1>8, <1>10, SplitsOn DEF done
<1>12. Split(g[N], sep, open, close) = Append(done, x)
  BY <1>8, <1>11, SplitReads DEF first
<1> QED BY <1>2, <1>3, <1>4, <1>6, <1>7, <1>12 DEF done

Terminated(items, sep) == FlattenSeq([i \in 1..Len(items) |-> Append(items[i], sep)])

\* So does a row of lines, but for what stands behind the last line break.
LEMMA SplitTerminated ==
  ASSUME NEW R, NEW items \in Seq(Seq(R)), NEW sep \in R, NEW open, NEW close,
         \A i \in 1..Len(items) : Fits(items[i], 0, sep, open, close)
  PROVE  /\ Terminated(items, sep) \in Seq(R)
         /\ Split(Terminated(items, sep), sep, open, close) = Append(items, << >>)
<1> DEFINE N == Len(items)
           pieces == [i \in 1..N |-> Append(items[i], sep)]
           first == At0(0, << >>, << >>)
<1>1. N \in Nat /\ N \in 0..N /\ \A i \in 1..N : items[i] \in Seq(R) /\ Append(items[i], sep) \in Seq(R)
  OBVIOUS
<1>3. /\ pieces \in Seq(Seq(R)) /\ Len(pieces) = N
      /\ \A i \in 1..N : pieces[i] = Append(items[i], sep)
  BY <1>1
<1> HIDE DEF pieces
<1>4. PICK g \in [0..Len(pieces) -> Seq(R)] : Joined(g, pieces, Len(pieces)) /\ FlattenSeq(pieces) = g[Len(pieces)]
  BY <1>3, FlatIsJoined
<1>5. Splits(first, g[N], At0(0, SubSeq(items, 1, N), << >>), sep, open, close)
  <2> HIDE DEF first
  <2> QED BY <1>1, <1>3, <1>4, SplitsRow DEF first
<1>6. SubSeq(items, 1, N) = items /\ g[N] \in Seq(R)
  BY <1>1, <1>3, <1>4, Beginnings
<1>7. Listed(g[N])
  BY <1>6, AnySeq
<1> HIDE DEF N, first
<1>8. Split(g[N], sep, open, close) = Append(items, << >>)
  <2>1. Splits(first, g[N], At0(0, items, << >>), sep, open, close)
    BY <1>5, <1>6
  <2> QED BY <1>7, <2>1, SplitReads DEF first
<1> QED BY <1>3, <1>4, <1>6, <1>8 DEF pieces, N, Terminated

-----------------------------------------------------------------------------
\* Reading back, 2: the lighthouse.

\* Set to sequence: every member is in it.
LEMMA SetAsSeq ==
  ASSUME NEW S, IsFiniteSet(S)
  PROVE  SetToSeq(S) \in Seq(S) /\ ToSet(SetToSeq(S)) = S
<1> DEFINE n == Cardinality(S)
           q == SetToSeq(S)
<1>1. n \in Nat /\ ExistsBijection(1..n, S)
  BY FS_CardinalityType
<1>2. \E f \in [1..n -> S] : IsInjective(f)
  BY <1>1 DEF ExistsBijection, Bijection, Injection
<1>3. q \in [1..n -> S] /\ IsInjective(q)
  BY <1>2 DEF SetToSeq
<1> HIDE DEF q
<1>4. q \in Seq(S) /\ DOMAIN q = 1..n /\ \A i \in 1..n : q[i] \in S
  BY <1>1, <1>3
<1>5. q \in Surjection(1..n, S)
  <2>1. q \in Injection(1..n, S)
    BY <1>3 DEF Injection
  <2>2. Cardinality(1..n) = n
    BY <1>1, FS_Interval
  <2> QED BY <2>1, <2>2, FS_Injection
<1>6. \A x \in S : \E i \in 1..n : q[i] = x
  BY <1>5 DEF Surjection
<1> QED BY <1>4, <1>6 DEF ToSet, q

LEMMA ImageFinite ==
  ASSUME NEW S, IsFiniteSet(S), NEW T, NEW f \in [S -> T], \A y \in T : \E x \in S : f[x] = y
  PROVE  IsFiniteSet(T)
<1>1. f \in Surjection(S, T)
  BY DEF Surjection
<1> QED BY <1>1, FS_Surjection

LEMMA NeighborsFinite ==
  ASSUME NEW edges, Listed(edges), NEW name
  PROVE  IsFiniteSet(Neighbors(name, edges))
<1> DEFINE I == {i \in DOMAIN edges : edges[i].from = name}
           K == {i \in DOMAIN edges : edges[i].to = name}
           f == [i \in I |-> edges[i].to]
           g == [i \in K |-> edges[i].from]
           A == {f[i] : i \in I}
           B == {g[i] : i \in K}
<1>1. DOMAIN edges = 1..Len(edges) /\ Len(edges) \in Nat
  BY AnySeq DEF Listed
<1>2. IsFiniteSet(I) /\ IsFiniteSet(K)
  <2> DEFINE D == 1..Len(edges)
  <2>1. IsFiniteSet(D)
    BY <1>1, FS_Interval
  <2>2. I \in SUBSET D /\ K \in SUBSET D
    BY <1>1
  <2> HIDE DEF D, I, K
  <2> QED BY <2>1, <2>2, FS_Subset
<1>3. Neighbors(name, edges) = A \cup B
  BY DEF Neighbors
<1>4. f \in [I -> A] /\ g \in [K -> B]
  OBVIOUS
<1>5. (\A y \in A : \E i \in I : f[i] = y) /\ (\A y \in B : \E i \in K : g[i] = y)
  OBVIOUS
<1> HIDE DEF f, g, I, K, A, B
<1>6. IsFiniteSet(A)
  BY <1>2, <1>4, <1>5, ImageFinite
<1>7. IsFiniteSet(B)
  BY <1>2, <1>4, <1>5, ImageFinite
<1> QED BY <1>3, <1>6, <1>7, FS_Union

-----------------------------------------------------------------------------
LEMMA CutSeparated ==
  ASSUME NEW S, NEW items \in Seq(Seq(S)), items # << >>, NEW sep, sep \notin S
  PROVE  /\ Separated(items, sep) \in Seq(S \cup {sep})
         /\ Cut(Separated(items, sep), sep) = items
<1>1. \A i \in 1..Len(items) : Fits(items[i], 0, sep, {}, {})
  <2> TAKE i \in 1..Len(items)
  <2>1. items[i] \in Seq(S)
    OBVIOUS
  <2>2. Listed(items[i]) /\ \A c \in ToSet(items[i]) : c \in S
    BY <2>1, AnySeq DEF ToSet
  <2> QED BY <2>2, FitsPlain
<1>2. items \in Seq(Seq(S \cup {sep})) /\ sep \in S \cup {sep}
  <2>1. \A i \in 1..Len(items) : items[i] \in Seq(S \cup {sep})
    BY WiderSeq
  <2> QED BY <2>1
<1> DEFINE R == S \cup {sep}
           none == {}
<1> HIDE DEF R
<1>3. items \in Seq(Seq(R)) /\ sep \in R
  BY <1>2 DEF R
<1>4. \A i \in 1..Len(items) : Fits(items[i], 0, sep, none, none)
  BY <1>1 DEF none
<1> HIDE DEF none
<1>5. Separated(items, sep) \in Seq(R) /\ Split(Separated(items, sep), sep, none, none) = items
  BY <1>3, <1>4, SplitSeparated
<1> QED BY <1>5 DEF Cut, R, none

LEMMA CutTerminated ==
  ASSUME NEW S, NEW items \in Seq(Seq(S)), NEW sep, sep \notin S
  PROVE  Cut(Terminated(items, sep), sep) = Append(items, << >>)
<1>1. \A i \in 1..Len(items) : Fits(items[i], 0, sep, {}, {})
  <2> TAKE i \in 1..Len(items)
  <2>1. items[i] \in Seq(S)
    OBVIOUS
  <2>2. Listed(items[i]) /\ \A c \in ToSet(items[i]) : c \in S
    BY <2>1, AnySeq DEF ToSet
  <2> QED BY <2>2, FitsPlain
<1>2. items \in Seq(Seq(S \cup {sep})) /\ sep \in S \cup {sep}
  <2>1. \A i \in 1..Len(items) : items[i] \in Seq(S \cup {sep})
    BY WiderSeq
  <2> QED BY <2>1
<1> DEFINE R == S \cup {sep}
           none == {}
<1> HIDE DEF R
<1>3. items \in Seq(Seq(R)) /\ sep \in R
  BY <1>2 DEF R
<1>4. \A i \in 1..Len(items) : Fits(items[i], 0, sep, none, none)
  BY <1>1 DEF none
<1> HIDE DEF none
<1> HIDE DEF none
<1>5. Split(Terminated(items, sep), sep, none, none) = Append(items, << >>)
  BY <1>3, <1>4, SplitTerminated
<1> QED BY <1>5 DEF Cut, none

-----------------------------------------------------------------------------
\* The characters of a name, a field and a line of the lighthouse.
LineChars == (Chars \cup {" ", ",", ":", "|", "T", "E", "J"}) \ {"\n"}
FieldChars == LineChars \ {"|"}
CleanChars == FieldChars \ {","}

LEMMA OneIsSeq == \A S : << >> \in Seq(S) /\ \A x \in S : <<x>> \in Seq(S)
OBVIOUS

LEMMA SanitizeClean ==
  ASSUME NEW name \in Seq(Chars)
  PROVE  Sanitize(name) \in Seq(CleanChars)
<1>0. " " \in CleanChars
  BY DEF CleanChars, FieldChars, LineChars
<1> DEFINE char(c) == CASE c \in {"|", "=", "(", ")", ">", ":", "#", "\r"} -> << >>
                        [] c \in {",", "\n"} -> <<" ">>
                        [] OTHER -> <<c>>
           ss == [i \in 1..Len(name) |-> char(name[i])]
<1>1. \A c \in Chars : char(c) \in Seq(CleanChars)
  <2> TAKE c \in Chars
  <2>1. \/ char(c) = << >> \/ char(c) = <<" ">>
        \/ char(c) = <<c>> /\ c \notin {"|", "=", "(", ")", ">", ":", "#", "\r", ",", "\n"}
    OBVIOUS
  <2>2. c \notin {"|", "=", "(", ")", ">", ":", "#", "\r", ",", "\n"} => c \in CleanChars
    BY DEF CleanChars, FieldChars, LineChars
  <2> HIDE DEF char
  <2> QED BY <1>0, <2>1, <2>2, OneIsSeq, Zenon
<1>2. Sanitize(name) = FlattenSeq(ss)
  BY DEF Sanitize
<1> HIDE DEF char
<1>3. ss \in Seq(Seq(CleanChars))
  BY <1>1
<1> HIDE DEF ss
<1> QED BY <1>2, <1>3, FlatMembers

LEMMA TwoIsSeq == \A S : \A x, y \in S : <<x, y>> \in Seq(S) /\ Len(<<x, y>>) = 2
OBVIOUS

LEMMA HeadAndTail ==
  ASSUME NEW a, NEW b, Listed(a), Listed(b)
  PROVE  SubSeq(a \o b, 1, Len(a)) = a /\ SubSeq(a \o b, Len(a) + 1, Len(a \o b)) = b
<1> DEFINE f == a \o b
           S == ToSet(a) \cup ToSet(b)
           m == Len(a)
           n == Len(b)
<1>1. m \in Nat /\ n \in Nat /\ Len(f) = m + n /\ Listed(f)
      /\ (\A k \in 1..m : f[k] = a[k]) /\ \A k \in 1..n : f[m + k] = b[k]
  BY AnySeq, ConcatMembers DEF Listed
<1>2. a \in Seq(S) /\ b \in Seq(S) /\ f \in Seq(ToSet(f))
  BY <1>1, WiderSeq DEF Listed
<1>3. a \in [1..m -> S] /\ b \in [1..n -> S]
  BY <1>2
<1> HIDE DEF S, f, m, n
<1>6. SubSeq(f, 1, m) = a
  <2>1. SubSeq(f, 1, m) = [i \in 1..m |-> f[i]]
    BY <1>1, <1>2
  <2> QED BY <1>1, <1>3, <2>1
<1>7. SubSeq(f, m + 1, m + n) = b
  <2>1. SubSeq(f, m + 1, m + n) = [i \in 1..n |-> f[m + i]]
    BY <1>1, <1>2
  <2> QED BY <1>1, <1>3, <2>1
<1> QED BY <1>1, <1>6, <1>7 DEF f, m, n

\* A field of a line: the names in it can be read from it again.
LEMMA FieldReads ==
  ASSUME NEW letter \in FieldChars, NEW names \in Seq(Seq(CleanChars)), names # << >>
  PROVE  LET f == <<letter, ":">> \o Separated(names, ",")
         IN  /\ f \in Seq(FieldChars) /\ SubSeq(f, 1, 2) = <<letter, ":">>
             /\ Cut(SubSeq(f, 3, Len(f)), ",") = names
<1> DEFINE tail == Separated(names, ",")
           head == <<letter, ":">>
           f == head \o tail
<1>1. "," \in FieldChars /\ ":" \in FieldChars /\ "," \notin CleanChars
  BY DEF CleanChars, FieldChars, LineChars
<1>2. CleanChars \cup {","} \subseteq FieldChars
  BY <1>1 DEF CleanChars
<1>3. tail \in Seq(CleanChars \cup {","}) /\ Cut(tail, ",") = names
  BY <1>1, CutSeparated
<1>4. tail \in Seq(FieldChars)
  BY <1>2, <1>3, WiderSeq
<1>5. head \in Seq(FieldChars) /\ Len(head) = 2
  BY <1>1, TwoIsSeq
<1>6. Listed(head) /\ Listed(tail)
  BY <1>4, <1>5, AnySeq
<1> HIDE DEF tail, head
<1>7. f \in Seq(FieldChars)
  BY <1>4, <1>5
<1>8. SubSeq(f, 1, Len(head)) = head /\ SubSeq(f, Len(head) + 1, Len(f)) = tail
  BY <1>6, HeadAndTail
<1> HIDE DEF f
<1>9. SubSeq(f, 1, 2) = head /\ SubSeq(f, 3, Len(f)) = tail
  BY <1>5, <1>8
<1> QED BY <1>3, <1>7, <1>9 DEF head, tail, f

Field(letter, names) == IF names = << >> THEN << >> ELSE <<<<letter, ":">> \o Separated(names, ",")>>

LEMMA FieldHolds ==
  ASSUME NEW letter \in FieldChars, NEW names \in Seq(Seq(CleanChars))
  PROVE  /\ Field(letter, names) \in Seq(Seq(FieldChars))
         /\ names # << >> => ToSet(Field(letter, names)) # {}
         /\ names = << >> => ToSet(Field(letter, names)) = {} /\ ToSet(names) = {}
         /\ \A f \in ToSet(Field(letter, names)) :
               /\ SubSeq(f, 1, 2) = <<letter, ":">>
               /\ ToSet(Cut(SubSeq(f, 3, Len(f)), ",")) = ToSet(names)
<1>1. CASE names = << >>
  <2>1. Field(letter, names) = << >> /\ ToSet(<< >>) = {}
    BY <1>1 DEF Field, ToSet
  <2> QED BY <1>1, <2>1, OneIsSeq
<1>2. CASE names # << >>
  <2> DEFINE f == <<letter, ":">> \o Separated(names, ",")
  <2>1. /\ f \in Seq(FieldChars) /\ SubSeq(f, 1, 2) = <<letter, ":">>
        /\ Cut(SubSeq(f, 3, Len(f)), ",") = names
    BY <1>2, FieldReads
  <2>2. Field(letter, names) = <<f>>
    BY <1>2 DEF Field
  <2> HIDE DEF f
  <2>3. ToSet(<<f>>) = {f}
    BY ListedOne
  <2>4. <<f>> \in Seq(Seq(FieldChars))
    BY <2>1, OneIsSeq
  <2> QED BY <1>2, <2>1, <2>2, <2>3, <2>4
<1> QED BY <1>1, <1>2

LEMMA LineReads ==
  ASSUME NEW t \in Seq(Seq(CleanChars)), NEW e \in Seq(Seq(CleanChars)), NEW j \in Seq(Seq(CleanChars)),
         t # << >>
  PROVE  LET fields == Field("T", t) \o Field("E", e) \o Field("J", j)
         IN  /\ Separated(fields, "|") \in Seq(LineChars)
             /\ ReadLine(Separated(fields, "|")) = [T |-> ToSet(t), E |-> ToSet(e), J |-> ToSet(j)]
<1> DEFINE ft == Field("T", t)
           fe == Field("E", e)
           fj == Field("J", j)
           fields == ft \o fe \o fj
           listed(letter) == UNION {ToSet(Cut(SubSeq(f, 3, Len(f)), ",")) :
                                    f \in {f \in ToSet(fields) : SubSeq(f, 1, 2) = <<letter, ":">>}}
<1>1. "T" \in FieldChars /\ "E" \in FieldChars /\ "J" \in FieldChars /\ "|" \notin FieldChars
      /\ FieldChars \cup {"|"} = LineChars
  BY DEF FieldChars, LineChars
<1>2. /\ ft \in Seq(Seq(FieldChars)) /\ ToSet(ft) # {}
      /\ \A f \in ToSet(ft) : SubSeq(f, 1, 2) = <<"T", ":">> /\ ToSet(Cut(SubSeq(f, 3, Len(f)), ",")) = ToSet(t)
  BY <1>1, FieldHolds
<1>3. /\ fe \in Seq(Seq(FieldChars)) /\ (ToSet(fe) # {} \/ ToSet(e) = {})
      /\ \A f \in ToSet(fe) : SubSeq(f, 1, 2) = <<"E", ":">> /\ ToSet(Cut(SubSeq(f, 3, Len(f)), ",")) = ToSet(e)
  BY <1>1, FieldHolds
<1>4. /\ fj \in Seq(Seq(FieldChars)) /\ (ToSet(fj) # {} \/ ToSet(j) = {})
      /\ \A f \in ToSet(fj) : SubSeq(f, 1, 2) = <<"J", ":">> /\ ToSet(Cut(SubSeq(f, 3, Len(f)), ",")) = ToSet(j)
  BY <1>1, FieldHolds
<1> HIDE DEF ft, fe, fj
<1>5. Listed(ft) /\ Listed(fe) /\ Listed(fj)
  BY <1>2, <1>3, <1>4, AnySeq
<1>6. Listed(ft \o fe) /\ ToSet(ft \o fe) = ToSet(ft) \cup ToSet(fe)
  BY <1>5, ConcatMembers
<1>7. ToSet(fields) = ToSet(ft) \cup ToSet(fe) \cup ToSet(fj)
  BY <1>5, <1>6, ConcatMembers
<1>8. fields \in Seq(Seq(FieldChars)) /\ fields # << >>
  <2> DEFINE W == Seq(FieldChars)
  <2> HIDE DEF W
  <2>3. ft \in Seq(W) /\ fe \in Seq(W) /\ fj \in Seq(W)
    BY <1>2, <1>3, <1>4 DEF W
  <2>1. fields \in Seq(Seq(FieldChars))
    BY <2>3 DEF W
  <2>2. ToSet(<< >>) = {}
    BY DEF ToSet
  <2> QED BY <1>2, <1>7, <2>1, <2>2
<1>9. <<"T", ":">> # <<"E", ":">> /\ <<"T", ":">> # <<"J", ":">> /\ <<"E", ":">> # <<"J", ":">>
  OBVIOUS
<1> HIDE DEF fields
<1>10. listed("T") = ToSet(t)
  <2>1. {f \in ToSet(fields) : SubSeq(f, 1, 2) = <<"T", ":">>} = ToSet(ft)
    BY <1>2, <1>3, <1>4, <1>7, <1>9, Zenon
  <2>2. listed("T") = UNION {ToSet(t) : f \in ToSet(ft)}
    BY <1>2, <2>1
  <2> QED BY <1>2, <2>2
<1>11. listed("E") = ToSet(e)
  <2>1. {f \in ToSet(fields) : SubSeq(f, 1, 2) = <<"E", ":">>} = ToSet(fe)
    BY <1>2, <1>3, <1>4, <1>7, <1>9, Zenon
  <2>2. listed("E") = UNION {ToSet(e) : f \in ToSet(fe)}
    BY <1>3, <2>1
  <2> QED BY <1>3, <2>2
<1>12. listed("J") = ToSet(j)
  <2>1. {f \in ToSet(fields) : SubSeq(f, 1, 2) = <<"J", ":">>} = ToSet(fj)
    BY <1>2, <1>3, <1>4, <1>7, <1>9, Zenon
  <2>2. listed("J") = UNION {ToSet(j) : f \in ToSet(fj)}
    BY <1>4, <2>1
  <2> QED BY <1>4, <2>2
<1>13. /\ Separated(fields, "|") \in Seq(LineChars)
       /\ Cut(Separated(fields, "|"), "|") = fields
  BY <1>1, <1>8, CutSeparated
<1>14. ReadLine(Separated(fields, "|")) = [T |-> listed("T"), E |-> listed("E"), J |-> listed("J")]
  BY <1>13 DEF ReadLine
<1> HIDE DEF listed
<1>15. ReadLine(Separated(fields, "|")) = [T |-> ToSet(t), E |-> ToSet(e), J |-> ToSet(j)]
  BY <1>10, <1>11, <1>12, <1>14
<1> QED BY <1>13, <1>15 DEF fields, ft, fe, fj

LEMMA SanitizedClean ==
  ASSUME NEW names \in Seq(Seq(Chars))
  PROVE  /\ Sanitized(names) \in Seq(Seq(CleanChars))
         /\ ToSet(Sanitized(names)) = {Sanitize(n) : n \in ToSet(names)}
<1>1. DOMAIN names = 1..Len(names) /\ Len(names) \in Nat /\ \A i \in 1..Len(names) : names[i] \in Seq(Chars)
  OBVIOUS
<1>2. \A i \in 1..Len(names) : Sanitize(names[i]) \in Seq(CleanChars)
  BY <1>1, SanitizeClean
<1>3. Sanitized(names) \in Seq(Seq(CleanChars)) /\ DOMAIN Sanitized(names) = 1..Len(names)
  BY <1>1, <1>2 DEF Sanitized
<1>4. \A i \in 1..Len(names) : Sanitized(names)[i] = Sanitize(names[i])
  BY DEF Sanitized
<1> QED BY <1>1, <1>3, <1>4 DEF ToSet

LEMMA EmbeddedClean ==
  ASSUME NEW ent, LoadedEntity(ent)
  PROVE  /\ Embedded(ent) \in Seq(Seq(CleanChars))
         /\ ToSet(Embedded(ent)) = {Sanitize(f.name) : f \in {f \in ToSet(ent.fields) : f.embeds}}
<1> DEFINE E == {i \in 1..Len(ent.fields) : ent.fields[i].embeds}
           docs == Where(ent.fields, E)
           names == [i \in 1..Len(docs) |-> docs[i].name]
<1>1. /\ ent.fields \in Seq(ToSet(ent.fields)) /\ DOMAIN ent.fields = 1..Len(ent.fields)
      /\ \A f \in ToSet(ent.fields) : f.name \in Seq(Chars)
  BY AnySeq DEF LoadedEntity, Listed
<1>2. E \in SUBSET DOMAIN ent.fields
  BY <1>1
<1>3. Embedded(ent) = Sanitized(names)
  BY DEF Embedded
<1> HIDE DEF E
<1>4. docs \in Seq(ToSet(ent.fields)) /\ ToSet(docs) = {ent.fields[i] : i \in E}
  BY <1>1, <1>2, WhereMembers
<1> HIDE DEF docs
<1>5. DOMAIN docs = 1..Len(docs) /\ Len(docs) \in Nat /\ \A i \in 1..Len(docs) : docs[i] \in ToSet(ent.fields)
  BY <1>4
<1>6. names \in Seq(Seq(Chars)) /\ DOMAIN names = 1..Len(docs) /\ \A i \in 1..Len(docs) : names[i] = docs[i].name
  BY <1>1, <1>5
<1> HIDE DEF names
<1>7. ToSet(names) = {f.name : f \in ToSet(docs)}
  BY <1>5, <1>6 DEF ToSet
<1>8. ToSet(docs) = {f \in ToSet(ent.fields) : f.embeds}
  BY <1>1, <1>4 DEF E, ToSet
<1>9. /\ Sanitized(names) \in Seq(Seq(CleanChars))
      /\ ToSet(Sanitized(names)) = {Sanitize(n) : n \in ToSet(names)}
  BY <1>6, SanitizedClean
<1> QED BY <1>3, <1>7, <1>8, <1>9

\* What the line of a table says.
LineFacts(doc, ent) ==
    [T |-> {Sanitize(ent.name)},
     E |-> {Sanitize(f.name) : f \in {f \in ToSet(ent.fields) : f.embeds}},
     J |-> {Sanitize(b) : b \in {b \in {x.name : x \in ToSet(doc.entities)} :
                                    \E e \in ToSet(doc.edges) : {e.from, e.to} = {ent.name, b}}}]

LineBody(ent, edges) == Separated(LineFields(ent, edges), "|")

LEMMA EntityLine ==
  ASSUME NEW doc, Loaded(doc), NEW ent \in ToSet(doc.entities)
  PROVE  /\ LineBody(ent, doc.edges) \in Seq(LineChars)
         /\ ReadLine(LineBody(ent, doc.edges)) = LineFacts(doc, ent)
<1> DEFINE N == Neighbors(ent.name, doc.edges)
           joins == SetToSeq(N)
           t == <<Sanitize(ent.name)>>
           e == Embedded(ent)
           j == Sanitized(joins)
           names == {x.name : x \in ToSet(doc.entities)}
           joined == {b \in names : \E g \in ToSet(doc.edges) : {g.from, g.to} = {ent.name, b}}
<1>1. /\ LoadedEntity(ent) /\ ent.name \in Seq(Chars) /\ Listed(doc.edges) /\ names \subseteq Seq(Chars)
      /\ \A g \in ToSet(doc.edges) : g.from \in names /\ g.to \in names
  BY DEF Loaded, LoadedEntity
<1>2. N = joined
  <2>1. DOMAIN doc.edges = 1..Len(doc.edges) /\ \A i \in DOMAIN doc.edges : doc.edges[i] \in ToSet(doc.edges)
    BY <1>1, AnySeq DEF Listed, ToSet
  <2>2. ASSUME NEW b \in N PROVE b \in joined
    <3>1. PICK i \in DOMAIN doc.edges :
             \/ doc.edges[i].from = ent.name /\ doc.edges[i].to = b
             \/ doc.edges[i].to = ent.name /\ doc.edges[i].from = b
      BY <2>2 DEF Neighbors
    <3> DEFINE g == doc.edges[i]
    <3>2. g \in ToSet(doc.edges)
      BY <2>1
    <3>3. (g.from = ent.name /\ g.to = b) \/ (g.to = ent.name /\ g.from = b)
      BY <3>1
    <3> HIDE DEF g, names
    <3> QED BY <1>1, <3>2, <3>3
  <2>3. ASSUME NEW b \in joined PROVE b \in N
    <3>1. PICK g \in ToSet(doc.edges) : {g.from, g.to} = {ent.name, b}
      BY <2>3
    <3>2. PICK i \in DOMAIN doc.edges : g = doc.edges[i]
      BY DEF ToSet
    <3>3. (g.from = ent.name /\ g.to = b) \/ (g.to = ent.name /\ g.from = b)
      BY <3>1
    <3> HIDE DEF names
    <3> QED BY <3>2, <3>3 DEF Neighbors
  <2> QED BY <2>2, <2>3
<1>3. IsFiniteSet(N)
  BY <1>1, NeighborsFinite
<1>4. N \subseteq Seq(Chars)
  BY <1>1, <1>2
<1>5. joins \in Seq(Seq(Chars)) /\ ToSet(joins) = N
  <2> HIDE DEF N
  <2>1. SetToSeq(N) \in Seq(N) /\ ToSet(SetToSeq(N)) = N
    BY <1>3, SetAsSeq
  <2> QED BY <1>4, <2>1, WiderSeq
<1>6. LineFields(ent, doc.edges) = Field("T", t) \o Field("E", e) \o Field("J", j)
  BY DEF LineFields, Field
<1> HIDE DEF joins, N
<1>7. j \in Seq(Seq(CleanChars)) /\ ToSet(j) = {Sanitize(b) : b \in joined}
  BY <1>2, <1>5, SanitizedClean
<1>8. e \in Seq(Seq(CleanChars)) /\ ToSet(e) = {Sanitize(f.name) : f \in {f \in ToSet(ent.fields) : f.embeds}}
  BY <1>1, EmbeddedClean
<1>9. t \in Seq(Seq(CleanChars)) /\ ToSet(t) = {Sanitize(ent.name)} /\ t # << >>
  BY <1>1, SanitizeClean, OneIsSeq, ListedOne
<1> HIDE DEF t, e, j
<1>10. /\ LineBody(ent, doc.edges) \in Seq(LineChars)
       /\ ReadLine(LineBody(ent, doc.edges)) = [T |-> ToSet(t), E |-> ToSet(e), J |-> ToSet(j)]
  BY <1>6, <1>7, <1>8, <1>9, LineReads DEF LineBody
<1> QED BY <1>7, <1>8, <1>9, <1>10 DEF LineFacts

LEMMA LighthouseRead ==
  ASSUME NEW doc, Loaded(doc)
  PROVE  LET lines == RenderLighthouse(doc.entities, doc.edges)
             read == Cut(FlattenSeq([i \in DOMAIN lines |-> lines[i].text]), "\n")
         IN  [i \in 1..(Len(read) - 1) |-> ReadLine(read[i])]
                = [i \in DOMAIN doc.entities |-> LineFacts(doc, doc.entities[i])]
<1> DEFINE N == Len(doc.entities)
           lines == RenderLighthouse(doc.entities, doc.edges)
           bodies == [i \in 1..N |-> LineBody(doc.entities[i], doc.edges)]
           text == FlattenSeq([i \in DOMAIN lines |-> lines[i].text])
           read == Cut(text, "\n")
<1>1. N \in Nat /\ DOMAIN doc.entities = 1..N /\ \A i \in 1..N : doc.entities[i] \in ToSet(doc.entities)
  BY AnySeq DEF Loaded, Listed, ToSet
<1>2. \A i \in 1..N : LineBody(doc.entities[i], doc.edges) \in Seq(LineChars)
  BY <1>1, EntityLine
<1>3. \A i \in 1..N : ReadLine(LineBody(doc.entities[i], doc.edges)) = LineFacts(doc, doc.entities[i])
  BY <1>1, EntityLine
<1>4. bodies \in Seq(Seq(LineChars)) /\ Len(bodies) = N /\ \A i \in 1..N : bodies[i] = LineBody(doc.entities[i], doc.edges)
  BY <1>1, <1>2
<1>5. DOMAIN lines = 1..N /\ \A i \in 1..N : lines[i].text = LineBody(doc.entities[i], doc.edges) \o <<"\n">>
  BY <1>1 DEF RenderLighthouse, LighthouseText, LineBody
<1> HIDE DEF lines
<1>6. \A i \in 1..N : Append(bodies[i], "\n") = lines[i].text
  <2> TAKE i \in 1..N
  <2>1. Listed(bodies[i])
    BY <1>2, <1>4, AnySeq
  <2>2. Append(bodies[i], "\n") = bodies[i] \o <<"\n">>
    BY <2>1, ListedAppend
  <2> QED BY <1>4, <1>5, <2>2
<1>7. [i \in DOMAIN lines |-> lines[i].text] = [i \in 1..Len(bodies) |-> Append(bodies[i], "\n")]
  BY <1>4, <1>5, <1>6
<1>8. text = Terminated(bodies, "\n")
  BY <1>7 DEF Terminated
<1>9. "\n" \notin LineChars
  BY DEF LineChars
<1> HIDE DEF text, bodies
<1>10. read = Append(bodies, << >>)
  BY <1>4, <1>8, <1>9, CutTerminated
<1> HIDE DEF read
<1>11. Len(read) - 1 = N /\ \A i \in 1..N : read[i] = bodies[i]
  <2> DEFINE W == Seq(LineChars)
  <2> HIDE DEF W
  <2>1. bodies \in Seq(W)
    BY <1>4 DEF W
  <2> QED BY <1>1, <1>4, <1>10, <2>1
<1>12. \A i \in 1..N : ReadLine(read[i]) = LineFacts(doc, doc.entities[i])
  BY <1>3, <1>4, <1>11
<1>13. [i \in 1..(Len(read) - 1) |-> ReadLine(read[i])]
          = [i \in DOMAIN doc.entities |-> LineFacts(doc, doc.entities[i])]
  BY <1>1, <1>11, <1>12
<1> QED BY <1>13 DEF read, text, lines

-----------------------------------------------------------------------------
\* A file that has been written, and is not being written again, holds what one of
\* the jobs of the run puts there.
HeldInv ==
    /\ stage # "idle" => outcome = "none"
    /\ \A f \in written :
          \/ stage = "write" /\ f = current.file
          \/ outcome = "failed"
          \/ \E job \in Plan(export, mode) : job.file = f /\ f \in DOMAIN dir /\ dir[f] = job.content

LEMMA NextHeld == ProgressInv /\ HeldInv /\ [Next]_vars => HeldInv'
<1> SUFFICES ASSUME ProgressInv, HeldInv, [Next]_vars
             PROVE  HeldInv'
  OBVIOUS
<1>0. (stage # "idle" => outcome = "none")'
  <2>1. stage # "idle" => outcome = "none"
    BY DEF HeldInv
  <2>2. CASE Begin
    BY <2>2 DEF Begin
  <2>3. CASE CreateFile \/ WriteFile
    BY <2>1, <2>3 DEF CreateFile, WriteFile
  <2>4. CASE FailWrite \/ FailCreate \/ Finish
    BY <2>4 DEF FailWrite, FailCreate, Finish
  <2>5. CASE Stop \/ UNCHANGED vars
    BY <2>1, <2>5 DEF Stop, vars
  <2> QED BY <2>2, <2>3, <2>4, <2>5 DEF Next
<1> SUFFICES ASSUME NEW f \in written'
             PROVE  (\/ stage = "write" /\ f = current.file
                     \/ outcome = "failed"
                     \/ \E job \in Plan(export, mode) : job.file = f /\ f \in DOMAIN dir /\ dir[f] = job.content)'
  BY <1>0 DEF HeldInv
<1>1. CASE Begin
  BY <1>1 DEF Begin
<1>2. CASE CreateFile
  <2>1. PICK job \in todo : current' = job /\ Put(job.file, << >>)
    BY <1>2 DEF CreateFile
  <2>2. UNCHANGED <<export, mode, written, outcome>> /\ stage = "create" /\ stage' = "write"
    BY <1>2 DEF CreateFile
  <2> QED BY <2>1, <2>2 DEF HeldInv, Put
<1>3. CASE WriteFile
  <2>1. /\ UNCHANGED <<export, mode, current, outcome>> /\ stage = "write"
        /\ written' = written \cup {current.file} /\ Put(current.file, current.content)
        /\ current \in Plan(export, mode)
    BY <1>3 DEF WriteFile, ProgressInv, GroundInv
  <2>2. CASE f = current.file
    BY <2>1, <2>2 DEF Put
  <2>3. CASE f # current.file
    BY <2>1, <2>3 DEF HeldInv, Put
  <2> QED BY <2>2, <2>3
<1>4. CASE FailWrite \/ FailCreate
  BY <1>4 DEF FailWrite, FailCreate
<1>5. CASE Finish
  BY <1>5 DEF Finish, HeldInv, ProgressInv
<1>6. CASE Stop \/ UNCHANGED vars
  BY <1>6 DEF Stop, vars, HeldInv
<1> QED BY <1>1, <1>2, <1>3, <1>4, <1>5, <1>6 DEF Next

LEMMA LighthouseHeld == ProgressInv /\ HeldInv => LighthouseReadsBack
<1> SUFFICES ASSUME ProgressInv, HeldInv, Succeeded, mode = "lighthouse"
             PROVE  LighthouseReadsBack
  BY DEF LighthouseReadsBack
<1> DEFINE job == [file |-> <<"lighthouse">>, content |-> RenderLighthouse(export.entities, export.edges)]
<1>1. Plan(export, mode) = {job}
  BY DEF Plan
<1>0. job \in Plan(export, mode) /\ job.file = <<"lighthouse">> /\ job.content = RenderLighthouse(export.entities, export.edges)
  BY <1>1
<1> HIDE DEF job
<1>2. <<"lighthouse">> \in written
  BY <1>0 DEF ProgressInv, Pending, Succeeded
<1>5. \E j \in Plan(export, mode) : j.file = <<"lighthouse">> /\ dir[<<"lighthouse">>] = j.content
  BY <1>2 DEF HeldInv, Succeeded
<1>3. dir[<<"lighthouse">>] = RenderLighthouse(export.entities, export.edges)
  BY <1>0, <1>1, <1>5
<1>4. Loaded(export)
  BY CompileAssumption DEF ProgressInv, GroundInv
<1>6. LET lines == RenderLighthouse(export.entities, export.edges)
          read == Cut(FlattenSeq([i \in DOMAIN lines |-> lines[i].text]), "\n")
      IN  [i \in 1..(Len(read) - 1) |-> ReadLine(read[i])]
             = [i \in DOMAIN export.entities |-> LineFacts(export, export.entities[i])]
  BY <1>4, LighthouseRead
<1>7. LET lines == dir[<<"lighthouse">>]
          read == Cut(FlattenSeq([i \in DOMAIN lines |-> lines[i].text]), "\n")
      IN  [i \in 1..(Len(read) - 1) |-> ReadLine(read[i])]
             = [i \in DOMAIN export.entities |-> LineFacts(export, export.entities[i])]
  BY <1>3, <1>6
<1> QED BY <1>7, Zenon DEF LighthouseReadsBack, LineFacts

\* Whatever the document, and however often a run failed before, a lighthouse file
\* that was written without a failure says, line by line, the tables of the document,
\* their embedded documents and the tables they join, and no more: no name can add a
\* line or a part of one.
THEOREM LighthouseReads == Spec => []LighthouseReadsBack
<1>1. Init => HeldInv
  BY DEF Init, HeldInv
<1> QED BY <1>1, InitProgress, NextProgress, NextHeld, LighthouseHeld, PTL DEF Spec

-----------------------------------------------------------------------------
\* Reading back, 3: the lexemes of a text, again piece by piece.  A piece may need a
\* boundary before it and leave one behind it, since a word goes on until something
\* else comes.

\* How LexStep gets on with a text.
Runs(s, x, t) ==
    \E f : /\ f[0] = s /\ f[Len(x)] = t
           /\ \A k \in 1..Len(x) : f[k] = LexStep(f[k - 1], x[k])

LEMMA RunsNothing == \A s : Runs(s, << >>, s)
<1> TAKE s
<1> DEFINE f == [k \in {0} |-> s]
<1>1. f[0] = s /\ Len(<< >>) = 0
  OBVIOUS
<1> HIDE DEF f
<1> QED BY <1>1 DEF Runs

LEMMA RunsOne ==
  ASSUME NEW s, NEW c
  PROVE  Runs(s, <<c>>, LexStep(s, c))
<1> DEFINE t == LexStep(s, c)
           f == [k \in {0, 1} |-> IF k = 0 THEN s ELSE t]
<1> HIDE DEF t
<1>1. f[0] = s /\ f[1] = t
  OBVIOUS
<1>2. Len(<<c>>) = 1 /\ <<c>>[1] = c /\ \A k \in 1..1 : k = 1 /\ k - 1 = 0
  OBVIOUS
<1> HIDE DEF f
<1>3. \A k \in 1..Len(<<c>>) : f[k] = LexStep(f[k - 1], <<c>>[k])
  BY <1>1, <1>2 DEF t
<1> QED BY <1>1, <1>2, <1>3 DEF Runs, t

LEMMA RunsOn ==
  ASSUME NEW a, NEW b, Listed(a), Listed(b), NEW s, NEW t, NEW u, Runs(s, a, t), Runs(t, b, u)
  PROVE  Runs(s, a \o b, u)
<1>1. PICK f : /\ f[0] = s /\ f[Len(a)] = t
               /\ \A k \in 1..Len(a) : f[k] = LexStep(f[k - 1], a[k])
  BY DEF Runs
<1>2. PICK g : /\ g[0] = t /\ g[Len(b)] = u
               /\ \A k \in 1..Len(b) : g[k] = LexStep(g[k - 1], b[k])
  BY DEF Runs
<1> DEFINE h == Glued(f, g, Len(a))
<1>3. OneLoop(h, f, g, a, b)
  <2>1. f[Len(a)] = g[0]
    BY <1>1, <1>2
  <2> QED BY <2>1, GluedSteps
<1> HIDE DEF h
<1>4. \A k \in 1..Len(a \o b) : h[k] = LexStep(h[k - 1], (a \o b)[k])
  BY <1>1, <1>2, <1>3 DEF OneLoop
<1> QED BY <1>1, <1>2, <1>3, <1>4 DEF Runs, OneLoop

\* Piece after piece of a row.
LEMMA RunsRow ==
  ASSUME NEW R, NEW pieces \in Seq(Seq(R)), NEW f,
         \A i \in 1..Len(pieces) : Runs(f[i - 1], pieces[i], f[i])
  PROVE  Runs(f[0], FlattenSeq(pieces), f[Len(pieces)])
<1> DEFINE N == Len(pieces)
<1>1. N \in Nat /\ N \in 0..N /\ \A i \in 1..N : pieces[i] \in Seq(R)
  OBVIOUS
<1>2. PICK g \in [0..N -> Seq(R)] : Joined(g, pieces, N) /\ FlattenSeq(pieces) = g[N]
  BY FlatIsJoined
<1> DEFINE T == {k \in 0..N : Runs(f[0], g[k], f[k])}
<1> HIDE DEF N
<1>3. 0 \in T
  <2>1. g[0] = << >>
    BY <1>2 DEF Joined
  <2> QED BY <1>1, <2>1, RunsNothing
<1>4. ASSUME NEW k \in 0..N, k \in T, k < N
      PROVE  k + 1 \in T
  <2>1. k + 1 \in 1..N /\ (k + 1) - 1 = k /\ k + 1 \in 0..N
    BY <1>1, <1>4
  <2>2. g[k + 1] = g[k] \o pieces[k + 1]
    BY <1>2, <1>4 DEF Joined
  <2>3. Listed(g[k]) /\ Listed(pieces[k + 1])
    BY <1>1, <1>2, <2>1, AnySeq
  <2>4. Runs(f[k], pieces[k + 1], f[k + 1])
    BY <2>1 DEF N
  <2>5. Runs(f[0], g[k], f[k])
    BY <1>4
  <2>6. Runs(f[0], g[k] \o pieces[k + 1], f[k + 1])
    BY <2>3, <2>4, <2>5, RunsOn
  <2> QED BY <2>1, <2>2, <2>6
<1> HIDE DEF T
<1>5. N \in T
  BY <1>1, <1>3, <1>4, UpTo
<1> QED BY <1>2, <1>5 DEF T, N

UnfoldsLexed(read, x) ==
    read = [n \in 0..Len(x) |-> IF n = 0 THEN Reading("sql", << >>, << >>) ELSE LexStep(read[n - 1], x[n])]

LEMMA LexedCases ==
  ASSUME NEW x, \E read : UnfoldsLexed(read, x)
  PROVE  \E read : UnfoldsLexed(read, x) /\ Lexed(x) = read[Len(x)]
<1> DEFINE r == CHOOSE read : UnfoldsLexed(read, x)
<1>1. UnfoldsLexed(r, x)
  OBVIOUS
<1>2. Lexed(x) = r[Len(x)]
  BY DEF Lexed, UnfoldsLexed
<1> QED BY <1>1, <1>2

LEMMA LexedReads ==
  ASSUME NEW x, Listed(x), NEW t, Runs(Reading("sql", << >>, << >>), x, t)
  PROVE  Lexed(x) = t
<1> DEFINE N == Len(x)
           first == Reading("sql", << >>, << >>)
<1>1. N \in Nat
  BY AnySeq DEF Listed
<1>2. PICK f : /\ f[0] = first /\ f[N] = t
               /\ \A k \in 1..N : f[k] = LexStep(f[k - 1], x[k])
  BY DEF Runs
<1> DEFINE r == [n \in 0..N |-> f[n]]
<1>3. UnfoldsLexed(r, x)
  <2>1. \A n \in 0..N : f[n] = IF n = 0 THEN first ELSE LexStep(r[n - 1], x[n])
    <3> TAKE n \in 0..N
    <3>1. CASE n = 0
      BY <1>2, <3>1
    <3>2. CASE n # 0
      <4>1. n \in 1..N /\ n - 1 \in 0..N
        BY <1>1, <3>2
      <4>2. r[n - 1] = f[n - 1]
        BY <4>1
      <4> QED BY <1>2, <3>2, <4>1, <4>2
    <3> QED BY <3>1, <3>2
  <2> QED BY <2>1 DEF UnfoldsLexed
<1>4. PICK read : UnfoldsLexed(read, x) /\ Lexed(x) = read[N]
  BY <1>3, LexedCases
<1>5. \A n \in 0..N : read[n] = IF n = 0 THEN first ELSE LexStep(read[n - 1], x[n])
  BY <1>4 DEF UnfoldsLexed
<1>6. read[0] = f[0]
  BY <1>1, <1>2, <1>5
<1>7. \A k \in 1..N : read[k - 1] = f[k - 1] => read[k] = f[k]
  <2> TAKE k \in 1..N
  <2>1. k \in 0..N /\ k # 0
    BY <1>1
  <2> QED BY <1>2, <1>5, <2>1
<1> HIDE DEF N
<1>8. read[N] = f[N]
  BY <1>1, <1>6, <1>7, SameLoop
<1> QED BY <1>2, <1>4, <1>8 DEF N

-----------------------------------------------------------------------------
\* The reader between two words, and behind a word that may go on.
Ready(s, out) == s = Reading("sql", << >>, out)
Leaves(s, out) == s.in \in {"sql", "word", "closing"} /\ Flushed(s) = out
Boundary(ready, s, out) == IF ready THEN Ready(s, out) ELSE Leaves(s, out)

\* A text gives these lexemes, when it starts between two words (a) and when it does
\* not have to, and leaves the reader between two words (b) or behind a word.
Lexes(x, lex, a, b) ==
    \A s, out : Listed(out) /\ Boundary(a, s, out) =>
        \E t : Runs(s, x, t) /\ Boundary(b, t, out \o lex)

LEMMA ReadyLeaves == \A s, out : Ready(s, out) => Leaves(s, out)
BY DEF Ready, Leaves, Flushed, Reading

LEMMA LexesReady ==
  ASSUME NEW x, NEW lex, NEW b, Lexes(x, lex, FALSE, b)
  PROVE  Lexes(x, lex, TRUE, b)
BY ReadyLeaves DEF Lexes, Boundary

LEMMA LexesLeaves ==
  ASSUME NEW x, NEW lex, NEW a, Lexes(x, lex, a, TRUE)
  PROVE  Lexes(x, lex, a, FALSE)
BY ReadyLeaves DEF Lexes, Boundary

LEMMA LexesOn ==
  ASSUME NEW x, NEW y, NEW p, NEW q, NEW a, NEW b, NEW c,
         Listed(x), Listed(y), Listed(p), Listed(q), Lexes(x, p, a, b), Lexes(y, q, b, c)
  PROVE  Lexes(x \o y, p \o q, a, c)
<1> SUFFICES ASSUME NEW s, NEW out, Listed(out), Boundary(a, s, out)
             PROVE  \E t : Runs(s, x \o y, t) /\ Boundary(c, t, out \o (p \o q))
  BY DEF Lexes
<1>1. PICK u : Runs(s, x, u) /\ Boundary(b, u, out \o p)
  BY DEF Lexes
<1>2. Listed(out \o p) /\ (out \o p) \o q = out \o (p \o q)
  BY ListedConcat, ConcatThree
<1>3. PICK t : Runs(u, y, t) /\ Boundary(c, t, (out \o p) \o q)
  BY <1>1, <1>2 DEF Lexes
<1>4. Runs(s, x \o y, t)
  BY <1>1, <1>3, RunsOn
<1> QED BY <1>2, <1>3, <1>4

LEMMA LexesNothing == Lexes(<< >>, << >>, TRUE, TRUE) /\ Lexes(<< >>, << >>, TRUE, FALSE)
<1>1. Lexes(<< >>, << >>, TRUE, TRUE)
  BY RunsNothing, ConcatNothing DEF Lexes, Boundary
<1> QED BY <1>1, LexesLeaves

LEMMA TokenLexes ==
  ASSUME NEW c \in Symbols
  PROVE  Lexes(<<c>>, <<Symbol(c)>>, FALSE, TRUE)
<1> SUFFICES ASSUME NEW s, NEW out, Listed(out), Leaves(s, out)
             PROVE  \E t : Runs(s, <<c>>, t) /\ Ready(t, out \o <<Symbol(c)>>)
  BY DEF Lexes, Boundary
<1>1. ~WordChar(c) /\ c # QuoteMark /\ c # "--" /\ c \notin {" ", "\n"}
  BY ReaderAssumption DEF Symbols, QuoteMark
<1>2. s.in \in {"sql", "word", "closing"} /\ Flushed(s) = out
  BY DEF Leaves
<1>3. LexStep(s, c) = Reading("sql", << >>, Append(Flushed(s), Symbol(c)))
  BY <1>1, <1>2 DEF LexStep
<1>4. Append(out, Symbol(c)) = out \o <<Symbol(c)>>
  BY ListedAppend
<1> QED BY <1>2, <1>3, <1>4, RunsOne DEF Ready

LEMMA BreakLexes == Lexes(<<"\n">>, << >>, FALSE, TRUE)
<1> SUFFICES ASSUME NEW s, NEW out, Listed(out), Leaves(s, out)
             PROVE  \E t : Runs(s, <<"\n">>, t) /\ Ready(t, out \o << >>)
  BY DEF Lexes, Boundary
<1>1. ~WordChar("\n") /\ "\n" # QuoteMark /\ "\n" \notin Symbols /\ "\n" # "--"
  BY ReaderAssumption DEF QuoteMark, Symbols
<1>2. s.in \in {"sql", "word", "closing"} /\ Flushed(s) = out
  BY DEF Leaves
<1>3. LexStep(s, "\n") = Reading("sql", << >>, out)
  BY <1>1, <1>2 DEF LexStep
<1>4. out \o << >> = out
  BY ConcatNothing
<1> QED BY <1>3, <1>4, RunsOne DEF Ready

\* A remark is skipped, up to the end of the line.
LEMMA RemarkLexes ==
  ASSUME NEW x, Listed(x), "\n" \notin ToSet(x)
  PROVE  Lexes((<<"--">> \o x) \o <<"\n">>, << >>, FALSE, TRUE)
<1> SUFFICES ASSUME NEW s, NEW out, Listed(out), Leaves(s, out)
             PROVE  \E t : Runs(s, (<<"--">> \o x) \o <<"\n">>, t) /\ Ready(t, out \o << >>)
  BY DEF Lexes, Boundary
<1> DEFINE inside == Reading("comment", << >>, out)
           after == Reading("sql", << >>, out)
<1>0. Listed(<<"--">>) /\ Listed(<<"\n">>) /\ Listed(<<"--">> \o x)
  BY ListedOne, ListedConcat
<1>1. ~WordChar("--") /\ "--" # QuoteMark /\ "--" \notin Symbols /\ "--" \notin {" ", "\n"}
  BY ReaderAssumption DEF QuoteMark, Symbols
<1>2. s.in \in {"sql", "word", "closing"} /\ Flushed(s) = out
  BY DEF Leaves
<1>3. LexStep(s, "--") = inside
  BY <1>1, <1>2 DEF LexStep
<1>4. Runs(s, <<"--">>, inside)
  BY <1>3, RunsOne
<1>5. \A c : c # "\n" => LexStep(inside, c) = inside
  BY DEF LexStep, Reading
<1>6. LexStep(inside, "\n") = after
  BY DEF LexStep, Reading
<1> HIDE DEF inside
<1>7. Runs(inside, x, inside)
  <2> DEFINE f == [k \in 0..Len(x) |-> inside]
  <2>1. Len(x) \in Nat /\ \A k \in 1..Len(x) : x[k] \in ToSet(x)
    BY AnySeq DEF Listed, ToSet
  <2>2. f[0] = inside /\ f[Len(x)] = inside /\ \A k \in 1..Len(x) : f[k] = inside /\ f[k - 1] = inside
    BY <2>1
  <2>3. \A k \in 1..Len(x) : x[k] # "\n"
    BY <2>1
  <2> HIDE DEF f
  <2>4. \A k \in 1..Len(x) : f[k] = LexStep(f[k - 1], x[k])
    BY <1>5, <2>2, <2>3
  <2> QED BY <2>2, <2>4 DEF Runs
<1>8. Runs(s, <<"--">> \o x, inside)
  BY <1>0, <1>4, <1>7, RunsOn
<1>9. Runs(inside, <<"\n">>, after)
  BY <1>6, RunsOne
<1>10. Runs(s, (<<"--">> \o x) \o <<"\n">>, after)
  BY <1>0, <1>8, <1>9, RunsOn
<1>11. out \o << >> = out
  BY ConcatNothing
<1> QED BY <1>10, <1>11 DEF Ready

LEMMA CommentLexes ==
  ASSUME NEW text, Listed(text), "\n" \notin ToSet(text)
  PROVE  /\ Lexes(Comment(text) \o <<"\n">>, << >>, FALSE, TRUE)
         /\ Listed(Comment(text))
<1>1. CASE text = << >>
  <2>1. Comment(text) = << >> /\ Listed(<< >>) /\ Listed(<<"\n">>)
    BY <1>1, ListedOne DEF Comment
  <2>2. << >> \o <<"\n">> = <<"\n">>
    BY <2>1, ConcatNothing
  <2> QED BY <2>1, <2>2, BreakLexes
<1>2. CASE text # << >>
  <2>1. Comment(text) = <<"--">> \o text
    BY <1>2 DEF Comment
  <2>2. Listed(<<"--">> \o text)
    BY ListedOne, ListedConcat
  <2> QED BY <2>1, <2>2, RemarkLexes
<1> QED BY <1>1, <1>2

-----------------------------------------------------------------------------
\* The words the reader of SQL takes for something else than the name they are.
Unlisted == SqlWords \ Reserved
Lex(name) == IF name \in Unlisted THEN Symbol("stray") ELSE Name(name)

\* What a plain word is made of.
Plain == WordChars \cup {"_"}

LEMMA PlainChars ==
  \A c \in Plain : /\ WordChar(c) /\ c \notin Symbols /\ c \in Chars /\ Lower[c] = c
                   /\ c # QuoteMark /\ c # "--" /\ c \notin {" ", "\n"}
BY ReaderAssumption DEF WordChar, Chars, Plain

LEMMA QuoteApart == ~WordChar(QuoteMark) /\ QuoteMark \notin Symbols /\ QuoteMark # "--" /\ QuoteMark \notin {" ", "\n"}
BY ReaderAssumption DEF QuoteMark, Symbols

\* A name that is not quoted: nothing but letters, digits and underscores, and none
\* of the words the code lists.
LEMMA PlainName ==
  ASSUME NEW name \in Seq(Chars), ~NeedsQuotes(name)
  PROVE  /\ name # << >> /\ name \in Seq(Plain)
         /\ LowerCase(name) = name /\ name \notin Reserved
         /\ Word(name) = Lex(name)
<1>1. /\ name # << >> /\ LowerCase(name) \notin Reserved /\ name[1] \notin Digits
      /\ ToSet(name) \subseteq Plain
  BY DEF NeedsQuotes, Plain
<1>2. DOMAIN name = 1..Len(name) /\ Len(name) \in Nat /\ \A i \in 1..Len(name) : name[i] \in ToSet(name)
  BY DEF ToSet
<1>3. \A i \in DOMAIN name : Lower[name[i]] = name[i]
  BY <1>1, <1>2, PlainChars
<1>4. LowerCase(name) = [i \in 1..Len(name) |-> name[i]]
  BY <1>2, <1>3 DEF LowerCase
<1>5. LowerCase(name) = name
  BY <1>4
<1>6. name \in Seq(Plain)
  <2>1. \A i \in 1..Len(name) : name[i] \in Plain
    BY <1>1, <1>2
  <2> QED BY <2>1
<1> QED BY <1>1, <1>5, <1>6 DEF Word, Lex, Unlisted

LEMMA PlainLexes ==
  ASSUME NEW name \in Seq(Chars), ~NeedsQuotes(name)
  PROVE  Lexes(name, <<Lex(name)>>, TRUE, FALSE)
<1> SUFFICES ASSUME NEW out, Listed(out)
             PROVE  \E t : Runs(Reading("sql", << >>, out), name, t) /\ Leaves(t, out \o <<Lex(name)>>)
  BY DEF Lexes, Boundary, Ready
<1> DEFINE N == Len(name)
           first == Reading("sql", << >>, out)
           word(w) == Reading("word", w, out)
           f == [k \in 0..N |-> IF k = 0 THEN first ELSE word(SubSeq(name, 1, k))]
           last == word(name)
<1>1. name # << >> /\ name \in Seq(Plain) /\ Word(name) = Lex(name)
  BY PlainName
<1>2. N \in Nat /\ N # 0 /\ \A k \in 1..N : name[k] \in Plain
  BY <1>1
<1>3. /\ SubSeq(name, 1, 0) = << >> /\ SubSeq(name, 1, N) = name
      /\ \A k \in 1..N : SubSeq(name, 1, k) = Append(SubSeq(name, 1, k - 1), name[k])
  BY Beginnings
<1>4. f[0] = first /\ f[N] = last /\ \A k \in 1..N : f[k] = word(SubSeq(name, 1, k))
  <2> HIDE DEF first, word
  <2>1. \A k \in 0..N : f[k] = IF k = 0 THEN first ELSE word(SubSeq(name, 1, k))
    OBVIOUS
  <2> HIDE DEF f
  <2>2. 0 \in 0..N /\ N \in 1..N /\ \A k \in 1..N : k \in 0..N /\ k # 0
    BY <1>2
  <2>3. \A k \in 1..N : f[k] = word(SubSeq(name, 1, k))
    BY <2>1, <2>2
  <2>4. f[0] = first
    BY <2>1, <2>2
  <2>5. f[N] = word(SubSeq(name, 1, N))
    BY <2>2, <2>3
  <2> QED BY <1>3, <2>3, <2>4, <2>5
<1> HIDE DEF f
<1>5. ASSUME NEW k \in 1..N
      PROVE  f[k] = LexStep(f[k - 1], name[k])
  <2> DEFINE c == name[k]
  <2>1. /\ WordChar(c) /\ c \notin Symbols /\ c # QuoteMark /\ c # "--" /\ c \notin {" ", "\n"}
    BY <1>2, PlainChars
  <2> HIDE DEF c
  <2>2. CASE k = 1
    <3>1. f[k - 1] = first
      BY <1>4, <2>2
    <3>2. LexStep(first, c) = Reading("word", <<c>>, out)
      BY <2>1 DEF LexStep, Reading, Flushed
    <3>3. SubSeq(name, 1, 1) = <<name[1]>>
      <4> HIDE DEF first, word
      <4>1. SubSeq(name, 1, 1) = Append(SubSeq(name, 1, 1 - 1), name[1]) /\ 1 - 1 = 0
        BY <1>3, <2>2
      <4>2. \A x : Append(<< >>, x) = <<x>>
        OBVIOUS
      <4> QED BY <1>3, <4>1, <4>2
    <3> QED BY <1>4, <2>2, <3>1, <3>2, <3>3 DEF c
  <2>3. CASE k # 1
    <3>1. k - 1 \in 1..N
      <4> HIDE DEF first, word
      <4> QED BY <1>2, <2>3
    <3> DEFINE w == SubSeq(name, 1, k - 1)
    <3>2. f[k - 1] = Reading("word", w, out) /\ f[k] = Reading("word", Append(w, c), out)
      BY <1>3, <1>4, <3>1 DEF c
    <3> HIDE DEF w
    <3>3. LexStep(Reading("word", w, out), c) = Reading("word", Append(w, c), out)
      BY <2>1 DEF LexStep, Reading
    <3> QED BY <3>2, <3>3 DEF c
  <2> QED BY <2>2, <2>3
<1>6. Runs(first, name, last)
  <2> HIDE DEF f, first, last
  <2> QED BY <1>4, <1>5 DEF Runs, N
<1>7. Leaves(last, Append(out, Lex(name)))
  BY <1>1 DEF Leaves, Flushed, Reading
<1>8. Append(out, Lex(name)) = out \o <<Lex(name)>>
  BY ListedAppend
<1> QED BY <1>6, <1>7, <1>8

Doubled(c) == IF c = QuoteMark THEN <<c, c>> ELSE <<c>>

LEMMA QuotedLexes ==
  ASSUME NEW name \in Seq(Chars), NeedsQuotes(name)
  PROVE  Lexes(Ident(name), <<Name(name)>>, TRUE, FALSE) /\ Listed(Ident(name))
<1> DEFINE N == Len(name)
           R == Chars \cup {QuoteMark}
           pieces == [i \in 1..N |-> Doubled(name[i])]
           inner == FlattenSeq(pieces)
<1>1. Ident(name) = (<<QuoteMark>> \o inner) \o <<QuoteMark>>
  BY DEF Ident, Doubled
<1>2. N \in Nat /\ \A i \in 1..N : name[i] \in R
  OBVIOUS
<1>3. \A c \in R : Doubled(c) \in Seq(R)
  BY OneIsSeq, TwoIsSeq DEF Doubled
<1>4. pieces \in Seq(Seq(R)) /\ Len(pieces) = N /\ \A i \in 1..N : pieces[i] = Doubled(name[i])
  BY <1>2, <1>3
<1> HIDE DEF pieces
<1>5. inner \in Seq(R)
  BY <1>4, FlatMembers
<1>6. Listed(inner) /\ Listed(<<QuoteMark>>)
  BY <1>5, AnySeq, ListedOne
<1>7. Listed(<<QuoteMark>> \o inner) /\ Listed(Ident(name))
  BY <1>1, <1>6, ListedConcat
<1> SUFFICES ASSUME NEW out, Listed(out)
             PROVE  \E t : Runs(Reading("sql", << >>, out), Ident(name), t) /\ Leaves(t, out \o <<Name(name)>>)
  BY <1>7 DEF Lexes, Boundary, Ready
<1> DEFINE first == Reading("sql", << >>, out)
           inside(w) == Reading("quoted", w, out)
           last == Reading("closing", name, out)
           f == [k \in 0..N |-> inside(SubSeq(name, 1, k))]
<1> HIDE DEF R
<1>8. Runs(first, <<QuoteMark>>, inside(<< >>))
  <2>1. LexStep(first, QuoteMark) = inside(<< >>)
    BY QuoteApart DEF LexStep, Reading, Flushed
  <2> QED BY <2>1, RunsOne
<1>9. ASSUME NEW w, NEW c PROVE Runs(inside(w), Doubled(c), inside(Append(w, c)))
  <2>1. CASE c # QuoteMark
    <3>1. LexStep(inside(w), c) = inside(Append(w, c))
      BY <2>1 DEF LexStep, Reading
    <3>2. Doubled(c) = <<c>>
      BY <2>1 DEF Doubled
    <3> HIDE DEF inside
    <3> QED BY <3>1, <3>2, RunsOne
  <2>2. CASE c = QuoteMark
    <3> DEFINE mid == Reading("closing", w, out)
    <3>1. LexStep(inside(w), c) = mid
      BY <2>2 DEF LexStep, Reading
    <3>2. LexStep(mid, c) = inside(Append(w, c))
      BY <2>2 DEF LexStep, Reading
    <3> HIDE DEF mid, inside
    <3>3. Runs(inside(w), <<c>>, mid) /\ Runs(mid, <<c>>, inside(Append(w, c)))
      BY <3>1, <3>2, RunsOne
    <3>4. Listed(<<c>>)
      BY ListedOne
    <3>5. Runs(inside(w), <<c>> \o <<c>>, inside(Append(w, c)))
      BY <3>3, <3>4, RunsOn
    <3>6. Doubled(c) = <<c>> \o <<c>>
      BY <2>2 DEF Doubled
    <3> QED BY <3>5, <3>6
  <2> QED BY <2>1, <2>2
<1>10. /\ SubSeq(name, 1, 0) = << >> /\ SubSeq(name, 1, N) = name
       /\ \A k \in 1..N : SubSeq(name, 1, k) = Append(SubSeq(name, 1, k - 1), name[k])
  BY Beginnings
<1>11. f[0] = inside(<< >>) /\ f[N] = inside(name) /\ \A k \in 1..N : Runs(f[k - 1], pieces[k], f[k])
  <2>1. \A k \in 0..N : f[k] = inside(SubSeq(name, 1, k))
    OBVIOUS
  <2> HIDE DEF f, inside
  <2>2. ASSUME NEW k \in 1..N PROVE Runs(f[k - 1], pieces[k], f[k])
    <3>1. k - 1 \in 0..N /\ k \in 0..N
      BY <1>2
    <3>2. f[k - 1] = inside(SubSeq(name, 1, k - 1)) /\ f[k] = inside(Append(SubSeq(name, 1, k - 1), name[k]))
      BY <1>10, <2>1, <3>1
    <3>3. pieces[k] = Doubled(name[k])
      BY <1>4
    <3> QED BY <1>9, <3>2, <3>3
  <2>3. 0 \in 0..N /\ N \in 0..N
    BY <1>2
  <2> QED BY <1>10, <2>1, <2>2, <2>3
<1>12. Runs(inside(<< >>), inner, inside(name))
  <2> HIDE DEF f, inside
  <2> QED BY <1>4, <1>11, RunsRow
<1>13. Runs(inside(name), <<QuoteMark>>, last)
  <2>1. LexStep(inside(name), QuoteMark) = last
    BY DEF LexStep, Reading
  <2> HIDE DEF inside, last
  <2> QED BY <2>1, RunsOne
<1> HIDE DEF inside, inner, first, last
<1>14. Runs(first, <<QuoteMark>> \o inner, inside(name))
  BY <1>6, <1>8, <1>12, RunsOn
<1>15. Runs(first, (<<QuoteMark>> \o inner) \o <<QuoteMark>>, last)
  BY <1>6, <1>7, <1>13, <1>14, RunsOn
<1>16. Leaves(last, Append(out, Name(name)))
  BY DEF Leaves, Flushed, Reading, last
<1>17. Append(out, Name(name)) = out \o <<Name(name)>>
  BY ListedAppend
<1> QED BY <1>1, <1>15, <1>16, <1>17 DEF first

\* Whatever the name, the text of it is read as one lexeme: the name, or, when it is a
\* word of SQL the code does not list, no name.
LEMMA IdentLexes ==
  ASSUME NEW name \in Seq(Chars)
  PROVE  Lexes(Ident(name), <<Lex(name)>>, TRUE, FALSE) /\ Listed(Ident(name))
<1>1. CASE ~NeedsQuotes(name)
  <2>1. Ident(name) = name
    BY <1>1 DEF Ident
  <2> QED BY <1>1, <2>1, PlainLexes, AnySeq
<1>2. CASE NeedsQuotes(name)
  <2>1. name \notin Unlisted
    <3> SUFFICES ASSUME name \in SqlWords, name \notin Reserved PROVE FALSE
      BY DEF Unlisted
    <3>1. name \in Seq(Plain) /\ name # << >> /\ name[1] \notin Digits
      BY ReaderAssumption DEF Plain
    <3>2. DOMAIN name = 1..Len(name) /\ \A i \in DOMAIN name : name[i] \in Plain
      BY <3>1
    <3>3. ToSet(name) \subseteq Plain
      BY <3>2 DEF ToSet
    <3>4. LowerCase(name) = [i \in 1..Len(name) |-> name[i]]
      BY <3>2, PlainChars DEF LowerCase
    <3>5. LowerCase(name) = name
      BY <3>1, <3>4
    <3> QED BY <1>2, <3>1, <3>3, <3>5 DEF NeedsQuotes, Plain
  <2>2. Lex(name) = Name(name)
    BY <2>1 DEF Lex
  <2> QED BY <1>2, <2>2, QuotedLexes
<1> QED BY <1>1, <1>2

-----------------------------------------------------------------------------
\* Reading back, 4: rows of texts, and of names.

\* Sequences of any members have members of one set.
LEMMA ListsTogether ==
  ASSUME NEW n \in Nat, NEW f, f = [i \in 1..n |-> f[i]], \A i \in 1..n : Listed(f[i])
  PROVE  \E R : f \in Seq(Seq(R)) /\ Len(f) = n
<1> DEFINE R == UNION {ToSet(f[i]) : i \in 1..n}
<1>1. ASSUME NEW i \in 1..n PROVE f[i] \in Seq(R)
  <2>1. f[i] \in Seq(ToSet(f[i])) /\ ToSet(f[i]) \subseteq R
    BY <1>1 DEF Listed
  <2> HIDE DEF R
  <2> QED BY <2>1, WiderSeq
<1> HIDE DEF R
<1>2. f \in [1..n -> Seq(R)]
  BY <1>1
<1>3. f \in Seq(Seq(R)) /\ Len(f) = n
  BY <1>2
<1> QED BY <1>3

LEMMA FlatOfNothing ==
  ASSUME NEW R, NEW ss \in Seq(Seq(R)), Len(ss) = 0
  PROVE  FlattenSeq(ss) = << >>
<1>1. PICK g \in [0..Len(ss) -> Seq(R)] : Joined(g, ss, Len(ss)) /\ FlattenSeq(ss) = g[Len(ss)]
  BY FlatIsJoined
<1> QED BY <1>1 DEF Joined

LEMMA FlatOfOne ==
  ASSUME NEW x, Listed(x)
  PROVE  FlattenSeq(<<x>>) = x
<1> DEFINE R == ToSet(x)
           ss == <<x>>
           N == Len(ss)
<1>1. x \in Seq(R) /\ Listed(x)
  BY DEF Listed
<1> HIDE DEF R
<1>2. ss \in Seq(Seq(R)) /\ N = 1 /\ ss[1] = x
  BY <1>1
<1>3. PICK g \in [0..N -> Seq(R)] : Joined(g, ss, N) /\ FlattenSeq(ss) = g[N]
  <2> HIDE DEF ss
  <2> QED BY <1>2, FlatIsJoined
<1> HIDE DEF ss, N
<1>6. 0 \in 0..N /\ 0 < N
  BY <1>2
<1>7. g[0] = << >> /\ \A k \in 0..N : k < N => g[k + 1] = g[k] \o ss[k + 1]
  BY <1>3 DEF Joined
<1>8. \A k \in 0..N : \A m : k < N /\ m = k + 1 => g[m] = g[k] \o ss[m]
  BY <1>7
<1>9. 1 = 0 + 1
  OBVIOUS
<1>4. g[0] = << >> /\ g[1] = g[0] \o ss[1]
  BY <1>6, <1>7, <1>8, <1>9
<1>5. << >> \o x = x
  BY <1>1, ConcatNothing
<1> QED BY <1>2, <1>3, <1>4, <1>5 DEF ss

LEMMA FlatOfTwo ==
  ASSUME NEW x, NEW y, Listed(x), Listed(y)
  PROVE  FlattenSeq(<<x, y>>) = x \o y
<1> DEFINE R == ToSet(x) \cup ToSet(y)
           ss == <<x, y>>
           N == Len(ss)
<1>1. x \in Seq(R) /\ y \in Seq(R)
  BY WiderSeq DEF Listed
<1> HIDE DEF R
<1>2. ss \in Seq(Seq(R)) /\ N = 2 /\ ss[1] = x /\ ss[2] = y
  BY <1>1
<1>3. PICK g \in [0..N -> Seq(R)] : Joined(g, ss, N) /\ FlattenSeq(ss) = g[N]
  <2> HIDE DEF ss
  <2> QED BY <1>2, FlatIsJoined
<1> HIDE DEF ss, N
<1>6. 0 \in 0..N /\ 0 < N /\ 1 \in 0..N /\ 1 < N
  BY <1>2
<1>7. g[0] = << >> /\ \A k \in 0..N : k < N => g[k + 1] = g[k] \o ss[k + 1]
  BY <1>3 DEF Joined
<1>8. \A k \in 0..N : \A m : k < N /\ m = k + 1 => g[m] = g[k] \o ss[m]
  BY <1>7
<1>9. 1 = 0 + 1 /\ 2 = 1 + 1
  OBVIOUS
<1>4. g[0] = << >> /\ g[1] = g[0] \o ss[1] /\ g[2] = g[1] \o ss[2]
  BY <1>6, <1>7, <1>8, <1>9
<1>5. << >> \o x = x
  BY ConcatNothing
<1> QED BY <1>2, <1>3, <1>4, <1>5 DEF ss

\* A row of texts gives the row of their lexemes.
LEMMA LexesJoined ==
  ASSUME NEW R, NEW pieces \in Seq(Seq(R)), NEW Q, NEW lexes \in Seq(Seq(Q)), Len(lexes) = Len(pieces),
         NEW g \in [0..Len(pieces) -> Seq(R)], Joined(g, pieces, Len(pieces)),
         NEW h \in [0..Len(lexes) -> Seq(Q)], Joined(h, lexes, Len(lexes)),
         NEW m \in 0..Len(pieces), \A i \in 1..m : Lexes(pieces[i], lexes[i], TRUE, TRUE)
  PROVE  Lexes(g[m], h[m], TRUE, TRUE)
<1> DEFINE T == {k \in 0..m : Lexes(g[k], h[k], TRUE, TRUE)}
           N == Len(pieces)
<1>1. /\ N \in Nat /\ m \in Nat /\ m <= N /\ Len(lexes) = N
      /\ \A i \in 1..N : pieces[i] \in Seq(R) /\ lexes[i] \in Seq(Q)
  OBVIOUS
<1> HIDE DEF N
<1>2. 0 \in T
  <2>1. g[0] = << >> /\ h[0] = << >>
    BY DEF Joined
  <2>2. Lexes(g[0], h[0], TRUE, TRUE)
    BY <2>1, LexesNothing, Zenon
  <2>3. 0 \in 0..m
    BY <1>1
  <2> QED BY <2>2, <2>3
<1>3. ASSUME NEW k \in 0..m, k \in T, k < m
      PROVE  k + 1 \in T
  <2>1. k + 1 \in 1..m /\ k + 1 \in 1..N /\ k \in 0..N /\ k < N /\ k + 1 \in 0..m
    BY <1>1, <1>3
  <2>2. g[k + 1] = g[k] \o pieces[k + 1] /\ h[k + 1] = h[k] \o lexes[k + 1]
    BY <1>1, <2>1 DEF Joined, N
  <2>3. Listed(g[k]) /\ Listed(h[k]) /\ Listed(pieces[k + 1]) /\ Listed(lexes[k + 1])
    <3>1. g[k] \in Seq(R) /\ h[k] \in Seq(Q) /\ pieces[k + 1] \in Seq(R) /\ lexes[k + 1] \in Seq(Q)
      BY <1>1, <2>1 DEF N
    <3> QED BY <3>1, AnySeq
  <2>4. Lexes(g[k], h[k], TRUE, TRUE) /\ Lexes(pieces[k + 1], lexes[k + 1], TRUE, TRUE)
    BY <1>3, <2>1
  <2>5. Lexes(g[k] \o pieces[k + 1], h[k] \o lexes[k + 1], TRUE, TRUE)
    BY <2>3, <2>4, LexesOn
  <2> QED BY <2>1, <2>2, <2>5
<1> HIDE DEF T
<1>4. \A k \in 0..m : k \in T
  BY <1>1, <1>2, <1>3, UpTo
<1>5. m \in T
  BY <1>1, <1>4
<1> QED BY <1>5 DEF T

LEMMA LexesRow ==
  ASSUME NEW R, NEW pieces \in Seq(Seq(R)), NEW Q, NEW lexes \in Seq(Seq(Q)), Len(lexes) = Len(pieces),
         \A i \in 1..Len(pieces) : Lexes(pieces[i], lexes[i], TRUE, TRUE)
  PROVE  Lexes(FlattenSeq(pieces), FlattenSeq(lexes), TRUE, TRUE)
<1>1. PICK g \in [0..Len(pieces) -> Seq(R)] : Joined(g, pieces, Len(pieces)) /\ FlattenSeq(pieces) = g[Len(pieces)]
  BY FlatIsJoined
<1>2. PICK h \in [0..Len(lexes) -> Seq(Q)] : Joined(h, lexes, Len(lexes)) /\ FlattenSeq(lexes) = h[Len(lexes)]
  BY FlatIsJoined
<1>3. Len(pieces) \in 0..Len(pieces)
  OBVIOUS
<1>4. Lexes(g[Len(pieces)], h[Len(pieces)], TRUE, TRUE)
  BY <1>1, <1>2, <1>3, LexesJoined
<1> QED BY <1>1, <1>2, <1>4

LEMMA LexesLast ==
  ASSUME NEW R, NEW pieces \in Seq(Seq(R)), NEW Q, NEW lexes \in Seq(Seq(Q)), Len(lexes) = Len(pieces),
         pieces # << >>, Lexes(pieces[Len(pieces)], lexes[Len(pieces)], TRUE, FALSE),
         \A i \in 1..(Len(pieces) - 1) : Lexes(pieces[i], lexes[i], TRUE, TRUE)
  PROVE  Lexes(FlattenSeq(pieces), FlattenSeq(lexes), TRUE, FALSE)
<1> DEFINE N == Len(pieces)
           m == N - 1
<1>1. PICK g \in [0..Len(pieces) -> Seq(R)] : Joined(g, pieces, Len(pieces)) /\ FlattenSeq(pieces) = g[Len(pieces)]
  BY FlatIsJoined
<1>2. PICK h \in [0..Len(lexes) -> Seq(Q)] : Joined(h, lexes, Len(lexes)) /\ FlattenSeq(lexes) = h[Len(lexes)]
  BY FlatIsJoined
<1>3. m \in 0..N /\ m + 1 = N /\ m < N /\ N \in 1..N
  OBVIOUS
<1>4. Lexes(g[m], h[m], TRUE, TRUE)
  <2> HIDE DEF m
  <2>1. \A i \in 1..m : Lexes(pieces[i], lexes[i], TRUE, TRUE)
    BY DEF m
  <2> QED BY <1>1, <1>2, <1>3, <2>1, LexesJoined
<1>5. g[N] = g[m] \o pieces[N] /\ h[N] = h[m] \o lexes[N]
  <2> HIDE DEF m, N
  <2> QED BY <1>1, <1>2, <1>3 DEF Joined, N
<1>6. Listed(g[m]) /\ Listed(h[m]) /\ Listed(pieces[N]) /\ Listed(lexes[N])
  <2> HIDE DEF m
  <2>1. g[m] \in Seq(R) /\ h[m] \in Seq(Q)
    BY <1>3
  <2>2. pieces[N] \in Seq(R) /\ lexes[N] \in Seq(Q)
    BY <1>3
  <2> QED BY <2>1, <2>2, AnySeq
<1>7. Lexes(pieces[N], lexes[N], TRUE, FALSE)
  OBVIOUS
<1> HIDE DEF N, m
<1>8. Lexes(g[m] \o pieces[N], h[m] \o lexes[N], TRUE, FALSE)
  BY <1>4, <1>6, <1>7, LexesOn
<1> QED BY <1>1, <1>2, <1>5, <1>8 DEF N

-----------------------------------------------------------------------------
\* The lexemes of some names between separators.
EachLex(names) == [i \in 1..Len(names) |-> <<Lex(names[i])>>]
LexList(names, sep) == Separated(EachLex(names), Symbol(sep))

LEMMA NamesLex ==
  ASSUME NEW names \in Seq(Seq(Chars)), NEW sep \in Symbols
  PROVE  /\ Lexes(Separated(Idents(names), sep), LexList(names, sep), TRUE, FALSE)
         /\ Listed(Separated(Idents(names), sep)) /\ Listed(LexList(names, sep))
<1> DEFINE N == Len(names)
           text(i) == IF i < N THEN Append(Ident(names[i]), sep) ELSE Ident(names[i])
           lex(i) == IF i < N THEN Append(<<Lex(names[i])>>, Symbol(sep)) ELSE <<Lex(names[i])>>
           pieces == [i \in 1..N |-> text(i)]
           lexes == [i \in 1..N |-> lex(i)]
<1>1. N \in Nat /\ \A i \in 1..N : names[i] \in Seq(Chars)
  OBVIOUS
<1>2. Separated(Idents(names), sep) = FlattenSeq(pieces)
  <2>1. Idents(names) = [i \in 1..N |-> Ident(names[i])] /\ Len(Idents(names)) = N
    BY <1>1 DEF Idents
  <2>2. [i \in 1..N |-> IF i < N THEN Append(Idents(names)[i], sep) ELSE Idents(names)[i]] = pieces
    BY <2>1
  <2> QED BY <2>1, <2>2 DEF Separated
<1>3. LexList(names, sep) = FlattenSeq(lexes)
  <2>1. EachLex(names) = [i \in 1..N |-> <<Lex(names[i])>>] /\ Len(EachLex(names)) = N
    BY <1>1 DEF EachLex
  <2>2. [i \in 1..N |-> IF i < N THEN Append(EachLex(names)[i], Symbol(sep)) ELSE EachLex(names)[i]] = lexes
    BY <2>1
  <2> QED BY <2>1, <2>2 DEF Separated, LexList
<1>4. ASSUME NEW i \in 1..N
      PROVE  /\ Listed(text(i)) /\ Listed(lex(i))
             /\ i < N => Lexes(text(i), lex(i), TRUE, TRUE)
             /\ ~(i < N) => Lexes(text(i), lex(i), TRUE, FALSE)
  <2> DEFINE x == Ident(names[i])
             p == <<Lex(names[i])>>
  <2>1. Lexes(x, p, TRUE, FALSE) /\ Listed(x) /\ Listed(p)
    BY <1>1, IdentLexes, ListedOne
  <2>2. Lexes(<<sep>>, <<Symbol(sep)>>, FALSE, TRUE) /\ Listed(<<sep>>) /\ Listed(<<Symbol(sep)>>)
    BY TokenLexes, ListedOne
  <2> HIDE DEF x, p
  <2>3. Lexes(x \o <<sep>>, p \o <<Symbol(sep)>>, TRUE, TRUE)
    BY <2>1, <2>2, LexesOn
  <2>4. Append(x, sep) = x \o <<sep>> /\ Append(p, Symbol(sep)) = p \o <<Symbol(sep)>>
    BY <2>1, ListedAppend
  <2>5. Listed(Append(x, sep)) /\ Listed(Append(p, Symbol(sep)))
    BY <2>1, ListedAppend
  <2> QED BY <2>1, <2>3, <2>4, <2>5 DEF x, p
<1> HIDE DEF text, lex
<1>5. PICK R : pieces \in Seq(Seq(R)) /\ Len(pieces) = N
  <2>1. pieces = [i \in 1..N |-> pieces[i]] /\ \A i \in 1..N : Listed(pieces[i])
    BY <1>4
  <2> HIDE DEF pieces, N
  <2> QED BY <1>1, <2>1, ListsTogether
<1>6. PICK Q : lexes \in Seq(Seq(Q)) /\ Len(lexes) = N
  <2>1. lexes = [i \in 1..N |-> lexes[i]] /\ \A i \in 1..N : Listed(lexes[i])
    BY <1>4
  <2> HIDE DEF lexes, N
  <2> QED BY <1>1, <2>1, ListsTogether
<1>7. Listed(FlattenSeq(pieces)) /\ Listed(FlattenSeq(lexes))
  <2> HIDE DEF pieces, lexes
  <2>1. FlattenSeq(pieces) \in Seq(R) /\ FlattenSeq(lexes) \in Seq(Q)
    BY <1>5, <1>6, FlatMembers
  <2> QED BY <2>1, AnySeq
<1>8. \A i \in 1..N : pieces[i] = text(i) /\ lexes[i] = lex(i)
  OBVIOUS
<1> HIDE DEF pieces, lexes
<1>9. CASE N = 0
  <2>1. FlattenSeq(pieces) = << >> /\ FlattenSeq(lexes) = << >>
    BY <1>5, <1>6, <1>9, FlatOfNothing
  <2> QED BY <1>2, <1>3, <1>7, <2>1, LexesNothing
<1>10. CASE N # 0
  <2>1. N \in 1..N /\ ~(N < N) /\ \A i \in 1..(N - 1) : i \in 1..N /\ i < N
    BY <1>1, <1>10
  <2> HIDE DEF N
  <2>2. Lexes(pieces[N], lexes[N], TRUE, FALSE)
    BY <1>4, <1>8, <2>1
  <2>3. \A i \in 1..(N - 1) : Lexes(pieces[i], lexes[i], TRUE, TRUE)
    BY <1>4, <1>8, <2>1
  <2>4. pieces # << >>
    BY <1>1, <1>5, <1>10
  <2>5. Lexes(FlattenSeq(pieces), FlattenSeq(lexes), TRUE, FALSE)
    BY <1>5, <1>6, <2>2, <2>3, <2>4, LexesLast
  <2> QED BY <1>2, <1>3, <1>7, <2>5
<1> QED BY <1>9, <1>10

-----------------------------------------------------------------------------
\* What the reader takes a name, and a name in parts, for.
Told(name) == IF name \in Unlisted THEN Misread ELSE name
EachTold(names) == [i \in 1..Len(names) |-> Told(names[i])]
ToldList(names) == IF names = << >> THEN <<Misread>> ELSE EachTold(names)
ToldTable(name) == Separated(EachTold(NameParts(name)), ".")

OpenParen == {Symbol("(")}
CloseParen == {Symbol(")")}

LEMMA LexApart == \A name : \A c \in Symbols : Lex(name) # Symbol(c) /\ Lex(name).sym # c
BY DEF Lex, Symbol, Name, Symbols

LEMMA ParensApart == \A name : Lex(name) \notin OpenParen /\ Lex(name) \notin CloseParen
BY LexApart DEF Symbols, OpenParen, CloseParen

LEMMA NothingSplits ==
  ASSUME NEW sep, NEW open, NEW close
  PROVE  Split(<< >>, sep, open, close) = <<<< >>>>
<1> DEFINE e == << >>
           s == At0(0, << >>, << >>)
<1>1. Listed(e)
  BY ListedOne
<1>2. Splits(s, e, s, sep, open, close)
  BY SplitsNothing
<1>3. Splits(At0(0, << >>, << >>), e, At0(0, e, e), sep, open, close)
  BY <1>2
<1>5. Append(e, e) = <<<< >>>>
  OBVIOUS
<1> HIDE DEF e
<1>4. Split(e, sep, open, close) = Append(e, e)
  BY <1>1, <1>3, SplitReads
<1> QED BY <1>4, <1>5 DEF e

\* What is read of a name.
LEMMA NameTold == \A name : OneName(<<Lex(name)>>) = Told(name)
BY DEF OneName, Lex, Told, Symbol, Name

\* Nothing in a list of lexemes of names but these and the separators.
LEMMA ListMembers ==
  ASSUME NEW names \in Seq(Seq(Chars)), NEW sep \in Symbols
  PROVE  \A x \in ToSet(LexList(names, sep)) : x = Symbol(sep) \/ \E name \in ToSet(names) : x = Lex(name)
<1> DEFINE N == Len(names)
           lex(i) == IF i < N THEN Append(<<Lex(names[i])>>, Symbol(sep)) ELSE <<Lex(names[i])>>
           lexes == [i \in 1..N |-> lex(i)]
           R == {Symbol(sep)} \cup {Lex(name) : name \in ToSet(names)}
<1>1. N \in Nat /\ \A i \in 1..N : names[i] \in ToSet(names)
  BY DEF ToSet
<1>2. LexList(names, sep) = FlattenSeq(lexes)
  <2>1. EachLex(names) = [i \in 1..N |-> <<Lex(names[i])>>] /\ Len(EachLex(names)) = N
    BY <1>1 DEF EachLex
  <2>2. [i \in 1..N |-> IF i < N THEN Append(EachLex(names)[i], Symbol(sep)) ELSE EachLex(names)[i]] = lexes
    BY <2>1
  <2> QED BY <2>1, <2>2 DEF Separated, LexList
<1>3. ASSUME NEW i \in 1..N PROVE lex(i) \in Seq(R)
  <2>1. Lex(names[i]) \in R /\ Symbol(sep) \in R
    BY <1>1
  <2> HIDE DEF R
  <2>2. \A x, y \in R : <<x>> \in Seq(R) /\ Append(<<x>>, y) \in Seq(R)
    OBVIOUS
  <2> QED BY <2>1, <2>2
<1>4. lexes \in Seq(Seq(R))
  <2> HIDE DEF lex, R
  <2> QED BY <1>1, <1>3
<1>5. FlattenSeq(lexes) \in Seq(R)
  <2> HIDE DEF lexes, R
  <2> QED BY <1>4, FlatMembers
<1>6. ToSet(FlattenSeq(lexes)) \subseteq R
  <2> HIDE DEF lexes, R
  <2> QED BY <1>5 DEF ToSet
<1> QED BY <1>2, <1>6

LEMMA ListParts ==
  ASSUME NEW names \in Seq(Seq(Chars)), names # << >>, NEW sep \in Symbols
  PROVE  EachName(Parts(LexList(names, sep), sep)) = EachTold(names)
<1> DEFINE items == EachLex(names)
           N == Len(names)
           R == {Symbol(sep)} \cup {Lex(name) : name \in ToSet(names)}
<1>1. N \in Nat /\ N # 0 /\ \A i \in 1..N : names[i] \in ToSet(names)
  BY DEF ToSet
<1>2. ASSUME NEW i \in 1..N PROVE <<Lex(names[i])>> \in Seq(R)
  <2>1. Lex(names[i]) \in R
    BY <1>1
  <2> HIDE DEF R
  <2> QED BY <2>1, OneIsSeq
<1>3. Symbol(sep) \in R
  OBVIOUS
<1> HIDE DEF R
<1>4. items \in Seq(Seq(R)) /\ Len(items) = N /\ \A i \in 1..N : items[i] = <<Lex(names[i])>>
  BY <1>1, <1>2 DEF EachLex
<1> HIDE DEF items
<1>5. ASSUME NEW i \in 1..N
      PROVE  Fits(items[i], 0, Symbol(sep), OpenParen, CloseParen)
  <2> DEFINE x == Lex(names[i])
  <2>1. x # Symbol(sep) /\ x \notin OpenParen /\ x \notin CloseParen
    BY LexApart, ParensApart
  <2> HIDE DEF x
  <2>2. Listed(<<x>>) /\ \A c \in ToSet(<<x>>) : c = x
    BY ListedOne
  <2>3. \A c \in ToSet(<<x>>) : c \notin OpenParen /\ c \notin CloseParen /\ ~(c = Symbol(sep) /\ 0 = 0)
    BY <2>1, <2>2
  <2>4. Fits(<<x>>, 0, Symbol(sep), OpenParen, CloseParen)
    BY <2>2, <2>3, FitsPlain
  <2> QED BY <1>4, <2>4 DEF x
<1>6. items # << >>
  BY <1>1, <1>4
<1>7. Split(Separated(items, Symbol(sep)), Symbol(sep), OpenParen, CloseParen) = items
  <2> DEFINE mark == Symbol(sep)
  <2>1. mark \in R /\ \A i \in 1..Len(items) : Fits(items[i], 0, mark, OpenParen, CloseParen)
    BY <1>3, <1>4, <1>5
  <2> HIDE DEF mark
  <2>2. Split(Separated(items, mark), mark, OpenParen, CloseParen) = items
    BY <1>4, <1>6, <2>1, SplitSeparated
  <2> QED BY <2>2 DEF mark
<1>8. Parts(LexList(names, sep), sep) = items
  BY <1>7 DEF Parts, LexList, OpenParen, CloseParen, items
<1>9. EachName(items) = [i \in 1..N |-> Told(names[i])]
  BY <1>4, NameTold DEF EachName
<1> QED BY <1>8, <1>9 DEF EachTold

LEMMA ListTold ==
  ASSUME NEW names \in Seq(Seq(Chars))
  PROVE  Names(LexList(names, ",")) = ToldList(names)
<1>0. "," \in Symbols
  BY DEF Symbols
<1>1. CASE names # << >>
  BY <1>0, <1>1, ListParts DEF Names, ToldList
<1>2. CASE names = << >>
  <2>1. LexList(names, ",") = << >>
    <3>1. EachLex(names) = << >> /\ Len(<< >>) = 0
      BY <1>2 DEF EachLex
    <3> DEFINE pieces == [i \in 1..Len(EachLex(names)) |->
                            IF i < Len(EachLex(names)) THEN Append(EachLex(names)[i], Symbol(",")) ELSE EachLex(names)[i]]
    <3>2. pieces \in Seq(Seq({})) /\ Len(pieces) = 0
      BY <3>1
    <3>3. LexList(names, ",") = FlattenSeq(pieces)
      BY DEF LexList, Separated
    <3> HIDE DEF pieces
    <3> QED BY <3>2, <3>3, FlatOfNothing
  <2>3. Parts(<< >>, ",") = <<<< >>>>
    BY NothingSplits DEF Parts
  <2>4. EachName(<<<< >>>>) = <<Misread>>
    BY DEF EachName, OneName
  <2> QED BY <1>2, <2>1, <2>3, <2>4 DEF Names, ToldList
<1> QED BY <1>1, <1>2

-----------------------------------------------------------------------------
\* Reading back, 5: the lexemes of a statement, how they nest, and where marks stand.

\* How deep a sequence gets into parentheses: it goes from depth d to depth e.
Nests(x, d, e, sep) ==
    \A done, part : Listed(part) =>
        Splits(At0(d, done, part), x, At0(e, done, part \o x), sep, OpenParen, CloseParen)

LEMMA NestsOn ==
  ASSUME NEW a, NEW b, Listed(a), Listed(b), NEW d, NEW e, NEW f, NEW sep,
         Nests(a, d, e, sep), Nests(b, e, f, sep)
  PROVE  Nests(a \o b, d, f, sep)
<1> SUFFICES ASSUME NEW done, NEW part, Listed(part)
             PROVE  Splits(At0(d, done, part), a \o b, At0(f, done, part \o (a \o b)), sep, OpenParen, CloseParen)
  BY DEF Nests
<1>1. Listed(part \o a) /\ (part \o a) \o b = part \o (a \o b)
  BY ListedConcat, ConcatThree
<1>2. Splits(At0(d, done, part), a, At0(e, done, part \o a), sep, OpenParen, CloseParen)
  BY DEF Nests
<1>3. Splits(At0(e, done, part \o a), b, At0(f, done, (part \o a) \o b), sep, OpenParen, CloseParen)
  BY <1>1 DEF Nests
<1> QED BY <1>1, <1>2, <1>3, SplitsOn

LEMMA NestsPlain ==
  ASSUME NEW x, Listed(x), NEW d, NEW sep,
         \A c \in ToSet(x) : c \notin OpenParen /\ c \notin CloseParen /\ ~(c = sep /\ d = 0)
  PROVE  Nests(x, d, d, sep)
BY FitsPlain DEF Nests, Fits

LEMMA NestsOpen ==
  ASSUME NEW d \in Nat, NEW o \in OpenParen, NEW sep, o # sep
  PROVE  Nests(<<o>>, d, d + 1, sep)
<1> SUFFICES ASSUME NEW done, NEW part, Listed(part)
             PROVE  Splits(At0(d, done, part), <<o>>, At0(d + 1, done, part \o <<o>>), sep, OpenParen, CloseParen)
  BY DEF Nests
<1>1. SplitStep(At0(d, done, part), o, sep, OpenParen, CloseParen) = At0(d + 1, done, Append(part, o))
  BY DEF SplitStep, At0
<1>2. Append(part, o) = part \o <<o>>
  BY ListedAppend
<1> QED BY <1>1, <1>2, SplitsOne

LEMMA NestsClose ==
  ASSUME NEW d \in Nat, NEW c \in CloseParen, NEW sep, c # sep
  PROVE  Nests(<<c>>, d + 1, d, sep)
<1> SUFFICES ASSUME NEW done, NEW part, Listed(part)
             PROVE  Splits(At0(d + 1, done, part), <<c>>, At0(d, done, part \o <<c>>), sep, OpenParen, CloseParen)
  BY DEF Nests
<1>0. c \notin OpenParen
  BY DEF OpenParen, CloseParen, Symbol
<1>1. SplitStep(At0(d + 1, done, part), c, sep, OpenParen, CloseParen) = At0(d, done, Append(part, c))
  BY <1>0 DEF SplitStep, At0
<1>2. Append(part, c) = part \o <<c>>
  BY ListedAppend
<1> QED BY <1>1, <1>2, SplitsOne

-----------------------------------------------------------------------------
\* The beginning of a sequence.
Begins(a, st) == \E b : Listed(b) /\ st = a \o b

LEMMA BeginsSelf ==
  ASSUME NEW a, Listed(a)
  PROVE  Begins(a, a)
BY ListedOne, ConcatNothing DEF Begins

\* A beginning, position by position.
LEMMA BeginsMembers ==
  ASSUME NEW a, NEW st, Listed(a), Begins(a, st)
  PROVE  /\ Listed(st) /\ Len(a) \in Nat /\ Len(st) \in Nat /\ Len(a) <= Len(st)
         /\ \A k \in 1..Len(a) : st[k] = a[k]
<1>1. PICK c : Listed(c) /\ st = a \o c
  BY DEF Begins
<1>2. Listed(st) /\ Len(st) = Len(a) + Len(c) /\ \A k \in 1..Len(a) : st[k] = a[k]
  BY <1>1, ConcatMembers
<1>3. Len(a) \in Nat /\ Len(c) \in Nat
  BY <1>1, AnySeq DEF Listed
<1> QED BY <1>2, <1>3

\* What stands behind a beginning.
LEMMA MiddleIs ==
  ASSUME NEW a, NEW b, NEW st, Listed(a), Listed(b), Begins(a \o b, st)
  PROVE  SubSeq(st, Len(a) + 1, Len(a) + Len(b)) = b
<1> DEFINE ab == a \o b
           m == Len(a)
           n == Len(b)
<1>1. m \in Nat /\ n \in Nat
  BY AnySeq DEF Listed
<1>2. Listed(ab) /\ Len(ab) = m + n /\ \A k \in 1..n : ab[m + k] = b[k]
  BY ConcatMembers
<1>3. /\ Listed(st) /\ Len(st) \in Nat /\ Len(ab) <= Len(st)
      /\ \A k \in 1..Len(ab) : st[k] = ab[k]
  <2>1. Begins(ab, st)
    OBVIOUS
  <2> HIDE DEF ab
  <2> QED BY <1>2, <2>1, BeginsMembers
<1>4. st \in Seq(ToSet(st)) /\ b \in [1..n -> ToSet(b)]
  BY <1>3 DEF Listed
<1> HIDE DEF ab, m, n
<1>6. \A k \in 1..n : st[m + k] = b[k]
  <2> TAKE k \in 1..n
  <2>1. m + k \in 1..Len(ab)
    BY <1>1, <1>2
  <2> QED BY <1>2, <1>3, <2>1
<1>7. SubSeq(st, m + 1, m + n) = [i \in 1..n |-> st[m + i]]
  BY <1>1, <1>2, <1>3, <1>4
<1> QED BY <1>4, <1>6, <1>7 DEF m, n

LEMMA LeastIs ==
  ASSUME NEW S, S \subseteq Nat, NEW m \in S, \A n \in S : m <= n
  PROVE  Min(S) = m
<1>1. Min(S) \in S /\ \A n \in S : Min(S) <= n
  BY DEF Min
<1>2. Min(S) <= m /\ m <= Min(S) /\ Min(S) \in Nat /\ m \in Nat
  BY <1>1
<1> QED BY <1>2

LEMMA OneMore ==
  ASSUME NEW a, NEW y, Listed(a)
  PROVE  /\ Listed(a \o <<y>>) /\ Len(a \o <<y>>) = Len(a) + 1
         /\ (\A k \in 1..Len(a) : (a \o <<y>>)[k] = a[k]) /\ (a \o <<y>>)[Len(a) + 1] = y
<1> DEFINE b == <<y>>
<1>1. Listed(b)
  BY ListedOne
<1>2. Len(b) = 1 /\ b[1] = y /\ 1 \in 1..1
  OBVIOUS
<1> HIDE DEF b
<1>3. /\ Listed(a \o b) /\ Len(a \o b) = Len(a) + Len(b) /\ \A k \in 1..Len(a) : (a \o b)[k] = a[k]
      /\ \A k \in 1..Len(b) : (a \o b)[Len(a) + k] = b[k]
  BY <1>1, ConcatMembers
<1> QED BY <1>2, <1>3 DEF b

\* The first of its kind.
LEMMA FirstIs ==
  ASSUME NEW a, NEW y, NEW st, NEW token, Listed(a), Begins(a \o <<y>>, st),
         \A x \in ToSet(a) : x.sym # token, y.sym = token
  PROVE  At(st, token) = Len(a) + 1
<1> DEFINE ay == a \o <<y>>
           m == Len(a)
           I == {i \in 1..Len(st) : st[i].sym = token}
<1>0. Begins(ay, st)
  OBVIOUS
<1>2. m \in Nat /\ \A k \in 1..m : a[k] \in ToSet(a)
  BY AnySeq DEF Listed, ToSet
<1>3. Listed(ay) /\ Len(ay) = m + 1 /\ (\A k \in 1..m : ay[k] = a[k]) /\ ay[m + 1] = y
  BY OneMore
<1> HIDE DEF ay, m
<1>5. Len(st) \in Nat /\ m + 1 <= Len(st) /\ \A k \in 1..(m + 1) : st[k] = ay[k]
  BY <1>0, <1>3, BeginsMembers
<1>6. m + 1 \in 1..Len(st) /\ st[m + 1] = y
  BY <1>2, <1>3, <1>5
<1>7. \A k \in 1..m : st[k].sym # token
  <2> TAKE k \in 1..m
  <2>1. k \in 1..(m + 1)
    BY <1>2
  <2> QED BY <1>2, <1>3, <1>5, <2>1
<1>8. m + 1 \in I /\ I \subseteq Nat /\ \A n \in I : m + 1 <= n
  <2>2. ASSUME NEW n \in I PROVE m + 1 <= n
    <3>1. n \in 1..Len(st) /\ n \notin 1..m
      BY <1>7
    <3> HIDE DEF I
    <3> QED BY <1>2, <1>5, <3>1
  <2> QED BY <1>5, <1>6, <2>2
<1>9. At(st, token) = IF I # {} THEN Min(I) ELSE 0
  BY DEF At, SelectInSeq
<1> HIDE DEF I
<1>10. Min(I) = m + 1
  BY <1>8, LeastIs
<1> QED BY <1>8, <1>9, <1>10 DEF m

-----------------------------------------------------------------------------
ReadText(text) ==
    LET lexed == Lexed(text)
        parts == Parts(lexed.out, ";")
    IN  IF lexed.in # "sql" \/ Last(parts) # << >> THEN {[op |-> "misread"]}
        ELSE {ReadStatement(st) : st \in ToSet(parts) \ {<< >>}}

LEMMA TwoMembers ==
  \A x, y : LET two == <<x, y>> IN
      Append(<<x>>, y) = two /\ ToSet(two) = {x, y} /\ Last(two) = y /\ Append(<< >>, x) = <<x>>
<1> TAKE x, y
<1> DEFINE two == <<x, y>>
<1>1. Len(two) = 2 /\ DOMAIN two = {1, 2} /\ two[1] = x /\ two[2] = y
  OBVIOUS
<1>2. Append(<<x>>, y) = two
  <2> DEFINE one == <<x>>
             S == {x, y}
  <2>1. Len(one) = 1 /\ one[1] = x
    OBVIOUS
  <2>2. Listed(one) /\ two \in [1..2 -> S]
    BY <1>1, ListedOne
  <2> HIDE DEF one, S
  <2>3. Append(one, y) = one \o <<y>> /\ Listed(one \o <<y>>)
    BY <2>2, ListedAppend
  <2>4. Len(one \o <<y>>) = 2 /\ (one \o <<y>>)[1] = x /\ (one \o <<y>>)[2] = y
    BY <2>1, <2>2, OneMore
  <2> DEFINE a == one \o <<y>>
  <2>5. a = two
    <3> HIDE DEF a, two
    <3> QED BY <1>1, <2>2, <2>3, <2>4 DEF a, Listed
  <2> QED BY <2>3, <2>5 DEF one
<1>3. Append(<< >>, x) = <<x>>
  BY ListedOne, ListedAppend, ConcatNothing
<1> HIDE DEF two
<1> QED BY <1>1, <1>2, <1>3 DEF ToSet, Last, two

LEMMA ReaderStart ==
  ASSUME NEW text, NEW lex, Listed(text), Listed(lex), Lexes(text, lex, TRUE, TRUE)
  PROVE  Lexed(text).in = "sql" /\ Lexed(text).out = lex
<1>1. << >> \o lex = lex
  BY ConcatNothing
<1>2. PICK t : Runs(Reading("sql", << >>, << >>), text, t) /\ Ready(t, << >> \o lex)
  BY ListedOne DEF Lexes, Boundary, Ready
<1>3. t = Reading("sql", << >>, lex)
  BY <1>1, <1>2 DEF Ready
<1>4. Lexed(text) = Reading("sql", << >>, lex)
  BY <1>2, <1>3, LexedReads
<1> QED BY <1>4 DEF Reading

\* A statement and its end are one part and nothing.
LEMMA EndSplits ==
  ASSUME NEW st, NEW end, Listed(st), Nests(st, 0, 0, end), end \notin OpenParen, end \notin CloseParen
  PROVE  Split(st \o <<end>>, end, OpenParen, CloseParen) = <<st, << >>>>
<1> DEFINE e == << >>
           s == At0(0, e, e)
           done == Append(e, st)
<1>1. Listed(e) /\ e \o st = st /\ Listed(<<end>>)
  BY ListedOne, ConcatNothing
<1>2. Splits(s, st, At0(0, e, e \o st), end, OpenParen, CloseParen)
  BY <1>1 DEF Nests
<1>3. SplitStep(At0(0, e, st), end, end, OpenParen, CloseParen) = At0(0, done, e)
  BY DEF SplitStep, At0
<1>5. Append(done, e) = <<st, << >>>>
  BY TwoMembers
<1> HIDE DEF e, done
<1>4. Splits(At0(0, e, st), <<end>>, At0(0, done, e), end, OpenParen, CloseParen)
  BY <1>3, SplitsOne
<1>6. Splits(s, st \o <<end>>, At0(0, done, e), end, OpenParen, CloseParen)
  BY <1>1, <1>2, <1>4, SplitsOn
<1>7. Listed(st \o <<end>>)
  BY <1>1, ListedConcat
<1>8. Split(st \o <<end>>, end, OpenParen, CloseParen) = Append(done, e)
  BY <1>6, <1>7, SplitReads DEF e
<1> QED BY <1>5, <1>8

\* A text that gives a statement and its semicolon.
LEMMA StatementReads ==
  ASSUME NEW text, NEW st, Listed(text), Listed(st), st # << >>,
         Lexes(text, st \o <<Symbol(";")>>, TRUE, TRUE), Nests(st, 0, 0, Symbol(";"))
  PROVE  ReadText(text) = {ReadStatement(st)}
<1> DEFINE end == Symbol(";")
           out == st \o <<end>>
           parts == <<st, << >>>>
<1>1. end \notin OpenParen /\ end \notin CloseParen
  BY DEF OpenParen, CloseParen, Symbol
<1>2. Parts(out, ";") = parts
  <2> HIDE DEF end
  <2>1. Split(st \o <<end>>, end, OpenParen, CloseParen) = <<st, << >>>>
    BY <1>1, EndSplits DEF end
  <2> QED BY <2>1 DEF Parts, OpenParen, CloseParen, end
<1>3. Listed(out)
  BY ListedOne, ListedConcat
<1>5. ToSet(parts) = {st, << >>} /\ Last(parts) = << >>
  BY TwoMembers
<1> HIDE DEF out, parts
<1>6. Lexed(text).out = out /\ Lexed(text).in = "sql"
  BY <1>3, ReaderStart DEF out
<1>7. ReadText(text) = {ReadStatement(s) : s \in {st, << >>} \ {<< >>}}
  BY <1>2, <1>5, <1>6 DEF ReadText
<1> QED BY <1>7

\* A text that gives nothing.
LEMMA NothingReads ==
  ASSUME NEW text, Listed(text), Lexes(text, << >>, TRUE, TRUE)
  PROVE  ReadText(text) = {}
<1> DEFINE e == << >>
           parts == <<e>>
<1>1. Listed(e)
  BY ListedOne
<1>4. Parts(e, ";") = parts
  BY NothingSplits DEF Parts
<1>5. ToSet(parts) = {e} /\ Last(parts) = e
  <2>1. Len(parts) = 1 /\ parts[1] = e /\ DOMAIN parts = {1}
    OBVIOUS
  <2> HIDE DEF parts, e
  <2> QED BY <2>1 DEF ToSet, Last
<1>3. Lexed(text).out = e /\ Lexed(text).in = "sql"
  <2>1. Lexes(text, e, TRUE, TRUE)
    OBVIOUS
  <2> HIDE DEF e
  <2> QED BY <1>1, <2>1, ReaderStart
<1>6. ReadText(text) = {ReadStatement(s) : s \in {e} \ {<< >>}}
  <2> HIDE DEF parts
  <2> QED BY <1>3, <1>4, <1>5 DEF ReadText
<1> QED BY <1>6

-----------------------------------------------------------------------------
\* Reading back, 6: the name of a table.

LEMMA SeparatedOne ==
  ASSUME NEW x, NEW sep, Listed(x)
  PROVE  Separated(<<x>>, sep) = x
<1> DEFINE texts == <<x>>
           rows == [i \in 1..Len(texts) |-> IF i < Len(texts) THEN Append(texts[i], sep) ELSE texts[i]]
<1>1. Len(texts) = 1 /\ texts[1] = x /\ texts = [i \in 1..1 |-> x]
  OBVIOUS
<1>2. rows = [i \in 1..1 |-> x]
  <2> HIDE DEF texts
  <2>1. \A i \in 1..1 : ~(i < 1) /\ i = 1
    OBVIOUS
  <2> QED BY <1>1, <2>1
<1> HIDE DEF rows
<1>3. FlattenSeq(rows) = x
  BY <1>1, <1>2, FlatOfOne
<1> QED BY <1>3 DEF Separated, rows

LEMMA SeparatedTwo ==
  ASSUME NEW x, NEW y, NEW sep, Listed(x), Listed(y)
  PROVE  Separated(<<x, y>>, sep) = Append(x, sep) \o y
<1> DEFINE texts == <<x, y>>
           rows == [i \in 1..Len(texts) |-> IF i < Len(texts) THEN Append(texts[i], sep) ELSE texts[i]]
           z == Append(x, sep)
           two == <<z, y>>
<1>1. Len(texts) = 2 /\ texts[1] = x /\ texts[2] = y
  OBVIOUS
<1>4. Listed(z)
  BY ListedAppend
<1> HIDE DEF z
<1>2. Len(two) = 2 /\ two[1] = z /\ two[2] = y /\ two = [i \in 1..2 |-> IF i < 2 THEN z ELSE y]
  OBVIOUS
<1>5. rows = two
  <2> HIDE DEF texts, two
  <2>1. \A i \in 1..2 : (i < 2 => i = 1) /\ (~(i < 2) => i = 2)
    OBVIOUS
  <2>2. rows = [i \in 1..2 |-> IF i < 2 THEN z ELSE y]
    BY <1>1, <2>1 DEF z
  <2> QED BY <1>2, <2>2
<1> HIDE DEF rows
<1>3. FlattenSeq(rows) = z \o y
  BY <1>4, <1>5, FlatOfTwo
<1> QED BY <1>3 DEF Separated, rows, z

LEMMA CutAt ==
  ASSUME NEW R, NEW name \in Seq(R), NEW d \in 1..Len(name)
  PROVE  /\ SubSeq(name, 1, d - 1) \in Seq(R) /\ SubSeq(name, d + 1, Len(name)) \in Seq(R)
         /\ Append(SubSeq(name, 1, d - 1), name[d]) \o SubSeq(name, d + 1, Len(name)) = name
<1> DEFINE n == Len(name)
           a == SubSeq(name, 1, d)
           b == SubSeq(name, d + 1, n)
           c == a \o b
<1>1. n \in Nat /\ d \in Nat /\ 1 <= d /\ d <= n /\ d - 1 \in 0..n
  OBVIOUS
<1>2. a = Append(SubSeq(name, 1, d - 1), name[d]) /\ SubSeq(name, 1, d - 1) \in Seq(R)
  <2>1. \A k \in 1..n : SubSeq(name, 1, k) = Append(SubSeq(name, 1, k - 1), name[k])
    BY Beginnings
  <2>2. \A k \in 0..n : SubSeq(name, 1, k) \in Seq(R)
    BY Beginnings
  <2> QED BY <1>1, <2>1, <2>2
<1>3. a \in Seq(R) /\ Len(a) = d /\ \A i \in 1..d : a[i] = name[i]
  OBVIOUS
<1>4. b \in Seq(R) /\ Len(b) = n - d /\ \A i \in 1..(n - d) : b[i] = name[d + i]
  OBVIOUS
<1> HIDE DEF a, b
<1>5. c \in Seq(R) /\ Len(c) = n
  <2>1. Listed(a) /\ Listed(b)
    BY <1>3, <1>4, AnySeq
  <2>2. a \o b \in Seq(R)
    BY <1>3, <1>4
  <2>3. Len(a \o b) = Len(a) + Len(b)
    BY <2>1, ConcatMembers
  <2> QED BY <1>1, <1>3, <1>4, <2>2, <2>3
<1>6. ASSUME NEW k \in 1..n PROVE c[k] = name[k]
  <2>1. CASE k <= d
    <3>1. k \in 1..Len(a)
      BY <1>3, <2>1
    <3> QED BY <1>3, <1>4, <3>1
  <2>2. CASE ~(k <= d)
    <3> DEFINE i == k - d
    <3>1. i \in 1..Len(b) /\ k = d + i /\ k = Len(a) + i
      BY <1>1, <1>3, <1>4, <2>2
    <3> HIDE DEF i
    <3>2. c[Len(a) + i] = b[i]
      BY <1>3, <1>4, <3>1
    <3> QED BY <1>4, <3>1, <3>2
  <2> QED BY <2>1, <2>2
<1>7. c = name
  <2> HIDE DEF c
  <2> QED BY <1>5, <1>6
<1> QED BY <1>2, <1>4, <1>7 DEF b

\* A table name is its parts and the dots between them.
LEMMA NamePartsAre ==
  ASSUME NEW R, NEW name \in Seq(R)
  PROVE  /\ NameParts(name) \in Seq(Seq(R)) /\ NameParts(name) # << >>
         /\ Separated(NameParts(name), ".") = name
<1> DEFINE dot == SelectInSeq(name, LAMBDA c : c = ".")
           left == SubSeq(name, 1, dot - 1)
           right == SubSeq(name, dot + 1, Len(name))
           parted == dot > 1 /\ dot < Len(name) /\ "." \notin ToSet(right)
           I == {i \in 1..Len(name) : name[i] = "."}
<1>1. dot = IF I # {} THEN Min(I) ELSE 0
  BY DEF SelectInSeq
<1>2. dot \in Nat /\ (dot # 0 => dot \in I)
  <2>1. CASE I = {}
    BY <1>1, <2>1
  <2>2. CASE I # {}
    <3>1. PICK m \in I : \A n \in I : m <= n
      <4>1. I \subseteq Nat
        OBVIOUS
      <4> HIDE DEF I
      <4> QED BY <2>2, <4>1, LeastOf
    <3>2. Min(I) = m /\ m \in Nat
      <4>1. I \subseteq Nat
        OBVIOUS
      <4> HIDE DEF I
      <4> QED BY <3>1, <4>1, LeastIs
    <3> QED BY <1>1, <2>2, <3>2
  <2> QED BY <2>1, <2>2
<1> HIDE DEF dot
<1>3. NameParts(name) = IF parted THEN <<left, right>> ELSE <<name>>
  BY DEF NameParts, dot
<1>4. Listed(name)
  BY AnySeq
<1>5. CASE parted
  <2>1. dot \in 1..Len(name) /\ name[dot] = "."
    BY <1>2, <1>5
  <2>2. left \in Seq(R) /\ right \in Seq(R) /\ Append(left, name[dot]) \o right = name
    BY <2>1, CutAt
  <2> HIDE DEF left, right, parted
  <2>3. Listed(left) /\ Listed(right)
    BY <2>2, AnySeq
  <2>4. Separated(<<left, right>>, ".") = Append(left, ".") \o right
    BY <2>3, SeparatedTwo
  <2>5. <<left, right>> \in Seq(Seq(R)) /\ <<left, right>> # << >>
    BY <2>2, TwoIsSeq
  <2>6. NameParts(name) = <<left, right>>
    BY <1>3, <1>5
  <2>7. Append(left, ".") = Append(left, name[dot])
    BY <2>1
  <2>8. Separated(NameParts(name), ".") = name
    BY <2>2, <2>4, <2>6, <2>7, Zenon
  <2> QED BY <2>5, <2>6, <2>8, Zenon
<1>6. CASE ~parted
  <2> HIDE DEF parted
  <2>1. NameParts(name) = <<name>>
    BY <1>3, <1>6
  <2>2. <<name>> \in Seq(Seq(R)) /\ <<name>> # << >>
    OBVIOUS
  <2> QED BY <1>4, <2>1, <2>2, SeparatedOne
<1> QED BY <1>5, <1>6

\* The lexemes of a table name.
LexTable(name) == LexList(NameParts(name), ".")

LEMMA MarksAre == "." \in Symbols /\ "," \in Symbols /\ "(" \in Symbols /\ ")" \in Symbols /\ ";" \in Symbols
BY DEF Symbols

LEMMA TableLexes ==
  ASSUME NEW name \in Seq(Chars)
  PROVE  /\ Lexes(QualifiedIdent(name), LexTable(name), TRUE, FALSE)
         /\ Listed(QualifiedIdent(name)) /\ Listed(LexTable(name))
         /\ QualifiedName(LexTable(name)) = ToldTable(name)
<1>1. NameParts(name) \in Seq(Seq(Chars)) /\ NameParts(name) # << >>
  BY NamePartsAre
<1> DEFINE parts == NameParts(name)
<1> HIDE DEF parts
<1>2. parts \in Seq(Seq(Chars)) /\ parts # << >> /\ "." \in Symbols
  BY <1>1, MarksAre DEF parts
<1>3. /\ Lexes(Separated(Idents(parts), "."), LexList(parts, "."), TRUE, FALSE)
      /\ Listed(Separated(Idents(parts), ".")) /\ Listed(LexList(parts, "."))
  BY <1>2, NamesLex
<1>4. EachName(Parts(LexList(parts, "."), ".")) = EachTold(parts)
  BY <1>2, ListParts
<1> QED BY <1>3, <1>4 DEF parts, LexTable, QualifiedIdent, QualifiedName, ToldTable

LEMMA ColumnsLex ==
  ASSUME NEW names \in Seq(Seq(Chars))
  PROVE  /\ Lexes(IdentList(names), LexList(names, ","), TRUE, FALSE)
         /\ Listed(IdentList(names)) /\ Listed(LexList(names, ","))
         /\ Names(LexList(names, ",")) = ToldList(names)
BY MarksAre, NamesLex, ListTold DEF IdentList

\* No name is a mark.
LEMMA NamesApart ==
  ASSUME NEW names \in Seq(Seq(Chars)), NEW sep \in Symbols, NEW token \in Symbols, token # sep
  PROVE  \A x \in ToSet(LexList(names, sep)) : x.sym # token /\ x # Symbol(token)
<1> TAKE x \in ToSet(LexList(names, sep))
<1>1. x = Symbol(sep) \/ \E name \in ToSet(names) : x = Lex(name)
  BY ListMembers
<1>2. Symbol(sep).sym = sep /\ Symbol(token).sym = token
  BY DEF Symbol
<1> QED BY <1>1, <1>2, LexApart

-----------------------------------------------------------------------------
\* Reading back, 7: a text that gives some lexemes at some depth.

LEMMA BeginsBack ==
  ASSUME NEW a, NEW c, NEW st, Listed(a), Listed(c), Begins(a \o c, st)
  PROVE  Begins(a, st)
<1>1. PICK b : Listed(b) /\ st = (a \o c) \o b
  BY DEF Begins
<1>2. st = a \o (c \o b) /\ Listed(c \o b)
  BY <1>1, ConcatThree, ListedConcat
<1> QED BY <1>2 DEF Begins

LEMMA InsideIs ==
  ASSUME NEW a, NEW b, NEW st, Listed(a), Listed(b), Begins(a \o b, st),
         NEW m, NEW n, m = Len(a), n = Len(a) + Len(b) + 1
  PROVE  Inside(st, m, n) = b
<1>1. SubSeq(st, Len(a) + 1, Len(a) + Len(b)) = b
  BY MiddleIs
<1>2. n - 1 = Len(a) + Len(b) /\ m + 1 = Len(a) + 1
  BY AnySeq DEF Listed
<1> QED BY <1>1, <1>2 DEF Inside

LEMMA ThreeInRow == \A x, y, z : (<<x>> \o <<y>>) \o <<z>> = <<x, y, z>>
<1> TAKE x, y, z
<1> DEFINE S == {x, y, z}
           two == <<x>> \o <<y>>
           a == two \o <<z>>
           three == <<x, y, z>>
<1>1. two = <<x, y>>
  <2>1. x \in S /\ y \in S
    OBVIOUS
  <2> HIDE DEF S
  <2> QED BY <2>1, Pair
<1>2. Listed(two)
  BY ListedOne, ListedConcat
<1>3. Len(two) = 2 /\ two[1] = x /\ two[2] = y
  <2>1. Len(<<x, y>>) = 2 /\ <<x, y>>[1] = x /\ <<x, y>>[2] = y
    OBVIOUS
  <2> HIDE DEF two
  <2> QED BY <1>1, <2>1
<1> HIDE DEF two
<1>4. Listed(a) /\ Len(a) = 3 /\ a[1] = x /\ a[2] = y /\ a[3] = z
  <2>1. /\ Listed(a) /\ Len(a) = Len(two) + 1
        /\ (\A k \in 1..Len(two) : a[k] = two[k]) /\ a[Len(two) + 1] = z
    BY <1>2, OneMore
  <2> HIDE DEF a
  <2> QED BY <1>3, <2>1
<1>5. three \in [1..3 -> S] /\ three[1] = x /\ three[2] = y /\ three[3] = z
  OBVIOUS
<1>6. a = three
  <2> HIDE DEF a, three, S
  <2> QED BY <1>4, <1>5 DEF Listed
<1> QED BY <1>6 DEF two

LEMMA TwoBehind ==
  ASSUME NEW x, NEW c, NEW d, Listed(x)
  PROVE  x \o <<c, d>> = (x \o <<c>>) \o <<d>>
<1> DEFINE y == <<c>>
           z == <<d>>
           S == {c, d}
<1>1. y \o z = <<c, d>>
  <2>1. c \in S /\ d \in S
    OBVIOUS
  <2> HIDE DEF S
  <2> QED BY <2>1, Pair
<1>2. Listed(y) /\ Listed(z)
  BY ListedOne
<1> HIDE DEF y, z
<1>3. (x \o y) \o z = x \o (y \o z)
  BY <1>2, ConcatThree
<1> QED BY <1>1, <1>3 DEF y, z

LEMMA ThreeBehind ==
  ASSUME NEW x, NEW c, NEW d, NEW e, Listed(x)
  PROVE  x \o <<c, d, e>> = ((x \o <<c>>) \o <<d>>) \o <<e>>
<1> DEFINE y == <<c>> \o <<d>>
           w == <<e>>
           z == <<c, d>>
<1>1. y \o w = <<c, d, e>>
  BY ThreeInRow
<1>2. Listed(y) /\ Listed(w)
  BY ListedOne, ListedConcat
<1>3. y = z
  <2> DEFINE S == {c, d}
  <2>1. c \in S /\ d \in S
    OBVIOUS
  <2> HIDE DEF S
  <2> QED BY <2>1, Pair
<1>4. x \o z = (x \o <<c>>) \o <<d>>
  BY TwoBehind
<1> HIDE DEF y, w, z
<1>5. (x \o y) \o w = x \o (y \o w)
  BY <1>2, ConcatThree
<1> QED BY <1>1, <1>3, <1>4, <1>5 DEF w

LEMMA TokenNests ==
  ASSUME NEW x, NEW d, NEW sep, x \notin OpenParen, x \notin CloseParen, x # sep
  PROVE  Nests(<<x>>, d, d, sep) /\ Listed(<<x>>)
<1>1. Listed(<<x>>) /\ ToSet(<<x>>) = {x}
  BY ListedOne
<1>2. \A y \in ToSet(<<x>>) : y \notin OpenParen /\ y \notin CloseParen /\ ~(y = sep /\ d = 0)
  BY <1>1
<1> QED BY <1>1, <1>2, NestsPlain

\* A piece of a text gives some lexemes, which go from one depth to another.
Gives(x, lex, a, b, d, e) ==
    /\ Listed(x) /\ Listed(lex)
    /\ Lexes(x, lex, a, b) /\ Nests(lex, d, e, Symbol(";"))

LEMMA GivesOn ==
  ASSUME NEW x, NEW y, NEW p, NEW q, NEW a, NEW b, NEW c, NEW d, NEW e, NEW f,
         Gives(x, p, a, b, d, e), Gives(y, q, b, c, e, f)
  PROVE  Gives(x \o y, p \o q, a, c, d, f)
<1>1. Listed(x) /\ Listed(y) /\ Listed(p) /\ Listed(q)
  BY DEF Gives
<1>2. Lexes(x \o y, p \o q, a, c)
  BY <1>1, LexesOn DEF Gives
<1> DEFINE sep == Symbol(";")
<1>3. Nests(p, d, e, sep) /\ Nests(q, e, f, sep)
  BY DEF Gives
<1> HIDE DEF sep
<1>4. Nests(p \o q, d, f, sep)
  BY <1>1, <1>3, NestsOn
<1> QED BY <1>1, <1>2, <1>4, ListedConcat DEF Gives, sep

LEMMA GivesToken ==
  ASSUME NEW c \in Symbols, c \notin {"(", ")", ";"}, NEW d
  PROVE  Gives(<<c>>, <<Symbol(c)>>, FALSE, TRUE, d, d) /\ Gives(<<c>>, <<Symbol(c)>>, TRUE, TRUE, d, d)
<1> DEFINE x == Symbol(c)
           sep == Symbol(";")
<1>1. Lexes(<<c>>, <<x>>, FALSE, TRUE) /\ Lexes(<<c>>, <<x>>, TRUE, TRUE)
  BY TokenLexes, LexesReady
<1>2. x \notin OpenParen /\ x \notin CloseParen /\ x # sep
  BY DEF OpenParen, CloseParen, Symbol
<1> HIDE DEF x, sep
<1>4. Listed(<<c>>) /\ Listed(<<x>>)
  BY ListedOne
<1>3. Nests(<<x>>, d, d, sep)
  BY <1>2, TokenNests
<1> QED BY <1>1, <1>3, <1>4 DEF Gives, x, sep

LEMMA GivesParensAt ==
  ASSUME NEW d \in Nat
  PROVE  /\ Gives(<<"(">>, <<Symbol("(")>>, FALSE, TRUE, d, d + 1)
         /\ Gives(<<")">>, <<Symbol(")")>>, FALSE, TRUE, d + 1, d)
<1> DEFINE o == Symbol("(")
           c == Symbol(")")
           sep == Symbol(";")
           x == "("
           y == ")"
<1>1. Lexes(<<x>>, <<o>>, FALSE, TRUE) /\ Lexes(<<y>>, <<c>>, FALSE, TRUE)
  BY MarksAre, TokenLexes
<1>2. o \in OpenParen /\ c \in CloseParen /\ o # sep /\ c # sep
  BY DEF OpenParen, CloseParen, Symbol
<1> HIDE DEF o, c, sep, x, y
<1>3. Nests(<<o>>, d, d + 1, sep) /\ Nests(<<c>>, d + 1, d, sep)
  BY <1>2, NestsOpen, NestsClose
<1>4. Listed(<<x>>) /\ Listed(<<y>>) /\ Listed(<<o>>) /\ Listed(<<c>>)
  BY ListedOne
<1> QED BY <1>1, <1>3, <1>4 DEF Gives, o, c, sep, x, y

LEMMA GivesParens ==
  /\ Gives(<<"(">>, <<Symbol("(")>>, FALSE, TRUE, 0, 1) /\ Gives(<<")">>, <<Symbol(")")>>, FALSE, TRUE, 1, 0)
  /\ Gives(<<"(">>, <<Symbol("(")>>, FALSE, TRUE, 1, 2) /\ Gives(<<")">>, <<Symbol(")")>>, FALSE, TRUE, 2, 1)
<1>1. 0 \in Nat /\ 1 \in Nat /\ 0 + 1 = 1 /\ 1 + 1 = 2
  OBVIOUS
<1>2. \A d \in Nat : \A e : e = d + 1 =>
         /\ Gives(<<"(">>, <<Symbol("(")>>, FALSE, TRUE, d, e)
         /\ Gives(<<")">>, <<Symbol(")")>>, FALSE, TRUE, e, d)
  BY GivesParensAt
<1> QED BY <1>1, <1>2, Zenon

\* Lexemes of names and separators stay at their depth.
LEMMA ListNests ==
  ASSUME NEW names \in Seq(Seq(Chars)), NEW mark \in {",", "."}, NEW d
  PROVE  Nests(LexList(names, mark), d, d, Symbol(";")) /\ Listed(LexList(names, mark))
<1> DEFINE lex == LexList(names, mark)
           sep == Symbol(";")
<1>1. mark \in Symbols /\ mark # "(" /\ mark # ")" /\ mark # ";"
  BY DEF Symbols
<1>2. Listed(lex)
  BY <1>1, NamesLex
<1>3. \A x \in ToSet(lex) : x # Symbol("(") /\ x # Symbol(")") /\ x # Symbol(";")
  BY <1>1, MarksAre, NamesApart
<1> HIDE DEF lex
<1>4. \A x \in ToSet(lex) : x \notin OpenParen /\ x \notin CloseParen /\ ~(x = sep /\ d = 0)
  BY <1>3 DEF OpenParen, CloseParen
<1> HIDE DEF sep
<1>5. Nests(lex, d, d, sep)
  BY <1>2, <1>4, NestsPlain
<1> QED BY <1>2, <1>5 DEF lex, sep

LEMMA GivesNames ==
  ASSUME NEW names \in Seq(Seq(Chars)), NEW d
  PROVE  Gives(IdentList(names), LexList(names, ","), TRUE, FALSE, d, d)
<1>1. Nests(LexList(names, ","), d, d, Symbol(";"))
  BY ListNests
<1> QED BY <1>1, ColumnsLex DEF Gives

LEMMA GivesTable ==
  ASSUME NEW name \in Seq(Chars), NEW d
  PROVE  Gives(QualifiedIdent(name), LexTable(name), TRUE, FALSE, d, d)
<1>1. Nests(LexList(NameParts(name), "."), d, d, Symbol(";"))
  BY NamePartsAre, ListNests
<1> QED BY <1>1, TableLexes DEF Gives, LexTable

LEMMA GivesName ==
  ASSUME NEW name \in Seq(Chars), NEW d
  PROVE  Gives(Ident(name), <<Lex(name)>>, TRUE, FALSE, d, d)
<1> DEFINE x == Lex(name)
           sep == Symbol(";")
<1>1. x \notin OpenParen /\ x \notin CloseParen /\ x # sep
  BY ParensApart, LexApart, MarksAre
<1>2. Lexes(Ident(name), <<x>>, TRUE, FALSE) /\ Listed(Ident(name))
  BY IdentLexes
<1> HIDE DEF x, sep
<1>3. Nests(<<x>>, d, d, sep) /\ Listed(<<x>>)
  BY <1>1, TokenNests
<1> QED BY <1>2, <1>3 DEF Gives, x, sep

LEMMA ParenBehind ==
  \A x, c : Listed(x) => x \o <<c, "(">> = (x \o <<c>>) \o <<"(">>
<1> TAKE x, c
<1> DEFINE o == "("
<1> HIDE DEF o
<1>1. Listed(x) => x \o <<c, o>> = (x \o <<c>>) \o <<o>>
  BY TwoBehind
<1> QED BY <1>1 DEF o

\* A word and a parenthesis behind it.
LEMMA GivesOpen ==
  ASSUME NEW x, NEW p, NEW c \in Symbols, c \notin {"(", ")", ";"}, Gives(x, p, TRUE, FALSE, 0, 0)
  PROVE  Gives(x \o <<c, "(">>, (p \o <<Symbol(c)>>) \o <<Symbol("(")>>, TRUE, TRUE, 0, 1)
<1>1. Gives(x \o <<c>>, p \o <<Symbol(c)>>, TRUE, TRUE, 0, 0)
  BY GivesToken, GivesOn
<1>2. Gives(<<"(">>, <<Symbol("(")>>, TRUE, TRUE, 0, 1)
  BY GivesParens, LexesReady DEF Gives
<1>3. Gives((x \o <<c>>) \o <<"(">>, (p \o <<Symbol(c)>>) \o <<Symbol("(")>>, TRUE, TRUE, 0, 1)
  BY <1>1, <1>2, GivesOn
<1>4. (x \o <<c>>) \o <<"(">> = x \o <<c, "(">>
  BY ParenBehind, Zenon DEF Gives
<1> QED BY <1>3, <1>4

\* A statement that ends with what stands in parentheses.
LEMMA ClosedReads ==
  ASSUME NEW x, NEW p, Gives(x, p, TRUE, FALSE, 0, 1)
  PROVE  ReadText(x \o <<")", ";", "\n">>) = {ReadStatement(p \o <<Symbol(")")>>)}
<1> DEFINE y == <<")">>
           z == <<";">>
           w == <<"\n">>
           q == <<Symbol(")")>>
           r == <<Symbol(";")>>
           e == << >>
<1>1. Listed(x) /\ Listed(p) /\ Listed(y) /\ Listed(z) /\ Listed(w) /\ Listed(q) /\ Listed(r) /\ Listed(e)
  BY ListedOne DEF Gives
<1>2. Lexes(z, r, TRUE, TRUE)
  BY MarksAre, TokenLexes, LexesReady
<1>3. Lexes(w, e, TRUE, TRUE)
  BY BreakLexes, LexesReady
<1>4. Gives(x \o y, p \o q, TRUE, TRUE, 0, 0)
  BY GivesParens, GivesOn
<1>5. x \o <<")", ";", "\n">> = ((x \o y) \o z) \o w
  <2> DEFINE c == ")"
             d == ";"
             g == "\n"
  <2>1. Listed(x)
    BY <1>1
  <2> HIDE DEF c, d, g
  <2>2. x \o <<c, d, g>> = ((x \o <<c>>) \o <<d>>) \o <<g>>
    BY <2>1, ThreeBehind
  <2> QED BY <2>2 DEF c, d, g
<1> HIDE DEF y, z, w, q, r, e
<1>6. Lexes(((x \o y) \o z) \o w, ((p \o q) \o r) \o e, TRUE, TRUE)
  <2>1. Listed(x \o y) /\ Listed(p \o q) /\ Listed((x \o y) \o z) /\ Listed((p \o q) \o r)
    BY <1>1, ListedConcat
  <2>2. Lexes(x \o y, p \o q, TRUE, TRUE)
    BY <1>4 DEF Gives
  <2> DEFINE xy == x \o y
             pq == p \o q
  <2> HIDE DEF xy, pq
  <2>3. Lexes(xy \o z, pq \o r, TRUE, TRUE) /\ Listed(xy \o z) /\ Listed(pq \o r)
    BY <1>1, <1>2, <2>1, <2>2, LexesOn DEF xy, pq
  <2> DEFINE xyz == xy \o z
             pqr == pq \o r
  <2> HIDE DEF xyz, pqr
  <2>4. Lexes(xyz \o w, pqr \o e, TRUE, TRUE)
    BY <1>1, <1>3, <2>3, LexesOn DEF xyz, pqr
  <2> QED BY <2>4 DEF xyz, pqr, xy, pq
<1> DEFINE st == p \o q
           text == ((x \o y) \o z) \o w
<1>8. Listed(st) /\ Listed(text) /\ Nests(st, 0, 0, Symbol(";")) /\ Lexes(text, st \o r, TRUE, TRUE)
  <2>1. Listed(st) /\ Listed(st \o r) /\ Listed(x \o y) /\ Listed((x \o y) \o z)
    BY <1>1, ListedConcat
  <2>2. Listed(text)
    BY <1>1, <2>1, ListedConcat
  <2>3. (st \o r) \o e = st \o r
    <3> HIDE DEF st
    <3> QED BY <2>1, ConcatNothing DEF e
  <2>4. Nests(st, 0, 0, Symbol(";"))
    BY <1>4 DEF Gives
  <2> QED BY <1>6, <2>1, <2>2, <2>3, <2>4
<1>9. st # << >>
  <2>1. Len(q) = 1
    BY DEF q
  <2>2. Len(p \o q) = Len(p) + Len(q) /\ Len(p) \in Nat
    BY <1>1, ConcatMembers, AnySeq DEF Listed
  <2> QED BY <2>1, <2>2
<1> HIDE DEF st, text
<1>10. ReadText(text) = {ReadStatement(st)}
  BY <1>8, <1>9, StatementReads DEF r
<1> QED BY <1>5, <1>10 DEF text, st, q

-----------------------------------------------------------------------------
\* Reading back, 8: CREATE INDEX.

\* Lexemes among which a symbol is not.
Lacks(p, token) == \A x \in ToSet(p) : x.sym # token

LEMMA LacksOn ==
  ASSUME NEW p, NEW q, NEW token, Listed(p), Listed(q), Lacks(p, token), Lacks(q, token)
  PROVE  Lacks(p \o q, token)
BY ConcatMembers DEF Lacks

LEMMA LacksMark == \A c, token : c # token => Lacks(<<Symbol(c)>>, token)
BY ListedOne DEF Lacks, Symbol

LEMMA LacksName == \A name : \A token \in Symbols : Lacks(<<Lex(name)>>, token)
<1> TAKE name
<1> TAKE token \in Symbols
<1> DEFINE x == Lex(name)
<1>1. x.sym # token
  BY LexApart
<1> HIDE DEF x
<1>2. ToSet(<<x>>) = {x}
  BY ListedOne
<1> QED BY <1>1, <1>2 DEF Lacks, x

LEMMA LacksList ==
  ASSUME NEW names \in Seq(Seq(Chars)), NEW sep \in Symbols, NEW token \in Symbols, token # sep
  PROVE  Lacks(LexList(names, sep), token)
BY NamesApart DEF Lacks

LEMMA LacksTable ==
  ASSUME NEW name \in Seq(Chars), NEW token \in Symbols, token # "."
  PROVE  Lacks(LexTable(name), token)
BY NamePartsAre, MarksAre, LacksList DEF LexTable

\* The first lexeme of a statement.
LEMMA HeadIs ==
  ASSUME NEW c, NEW st, Begins(<<c>>, st)
  PROVE  st[1] = c
<1> DEFINE one == <<c>>
<1>1. Listed(one) /\ Begins(one, st)
  BY ListedOne
<1>2. Len(one) = 1 /\ one[1] = c /\ 1 \in 1..1
  OBVIOUS
<1> HIDE DEF one
<1>3. \A k \in 1..Len(one) : st[k] = one[k]
  BY <1>1, BeginsMembers
<1> QED BY <1>2, <1>3

\* What a mark ends.
LEMMA FoundAt ==
  ASSUME NEW p, NEW token, NEW st, Listed(p), Lacks(p, token), Begins(p \o <<Symbol(token)>>, st)
  PROVE  At(st, token) = Len(p) + 1 /\ Begins(p, st)
<1> DEFINE y == Symbol(token)
<1>1. y.sym = token
  BY DEF Symbol
<1>2. Begins(p \o <<y>>, st) /\ \A x \in ToSet(p) : x.sym # token
  BY DEF Lacks
<1> HIDE DEF y
<1>3. At(st, token) = Len(p) + 1
  BY <1>1, <1>2, FirstIs
<1>4. Listed(<<y>>)
  BY ListedOne
<1>5. Begins(p, st)
  BY <1>2, <1>4, BeginsBack
<1> QED BY <1>3, <1>5

LEMMA MarkLength == \A p, c : Listed(p) => Len(p \o <<Symbol(c)>>) = Len(p) + 1 /\ Listed(p \o <<Symbol(c)>>) /\ Len(p) \in Nat
<1> TAKE p, c
<1> DEFINE x == Symbol(c)
<1> HIDE DEF x
<1>1. Listed(p) => Len(p \o <<x>>) = Len(p) + 1 /\ Listed(p \o <<x>>) /\ Len(p) \in Nat
  BY OneMore, AnySeq DEF Listed
<1> QED BY <1>1 DEF x

\* What stands between two marks of a statement.
LEMMA BetweenMarks ==
  ASSUME NEW p, NEW q, NEW a, NEW b, NEW st, Listed(p), Listed(q),
         Begins(((p \o <<Symbol(a)>>) \o q) \o <<Symbol(b)>>, st), NEW m, NEW n,
         m = Len(p) + 1, n = Len((p \o <<Symbol(a)>>) \o q) + 1
  PROVE  Inside(st, m, n) = q
<1> DEFINE pa == p \o <<Symbol(a)>>
           paq == pa \o q
<1>1. Listed(pa) /\ Len(pa) = Len(p) + 1
  BY MarkLength
<1> HIDE DEF pa
<1>2. Listed(paq) /\ Len(paq) = Len(pa) + Len(q)
  BY <1>1, ConcatMembers
<1> HIDE DEF paq
<1>3. Begins(paq \o <<Symbol(b)>>, st)
  BY DEF paq, pa
<1>4. Listed(<<Symbol(b)>>)
  BY ListedOne
<1>5. Begins(paq, st)
  BY <1>2, <1>3, <1>4, BeginsBack
<1>6. m = Len(pa) /\ n = Len(pa) + Len(q) + 1
  BY <1>1, <1>2 DEF paq, pa
<1>7. Begins(pa \o q, st)
  BY <1>5 DEF paq
<1> QED BY <1>1, <1>6, <1>7, InsideIs

IndexLex(name, table, cols) ==
    (((((<<Symbol("CREATE INDEX")>> \o <<Lex(name)>>) \o <<Symbol("ON")>>) \o LexTable(table))
      \o <<Symbol("(")>>) \o LexList(cols, ",")) \o <<Symbol(")")>>

LEMMA IndexRead ==
  ASSUME NEW name \in Seq(Chars), NEW table \in Seq(Chars), NEW cols \in Seq(Seq(Chars))
  PROVE  ReadStatement(IndexLex(name, table, cols))
            = [op |-> "index", name |-> Told(name), table |-> ToldTable(table), cols |-> ToldList(cols)]
<1> DEFINE T == LexTable(table)
           L == LexList(cols, ",")
           n == <<Lex(name)>>
           h == <<Symbol("CREATE INDEX")>>
           p2 == h \o n
           p3 == p2 \o <<Symbol("ON")>>
           p4 == p3 \o T
           p5 == p4 \o <<Symbol("(")>>
           p6 == p5 \o L
           st == p6 \o <<Symbol(")")>>
<1>1. Listed(T) /\ Listed(L) /\ Listed(n) /\ Listed(h)
  BY TableLexes, ColumnsLex, ListedOne
<1>2. /\ Lacks(h, "ON") /\ Lacks(n, "ON") /\ Lacks(h, "(") /\ Lacks(n, "(") /\ Lacks(T, "(")
      /\ Lacks(<<Symbol("ON")>>, "(")
  <2>1. "ON" \in Symbols /\ "(" \in Symbols
    BY DEF Symbols
  <2>2. Lacks(n, "ON") /\ Lacks(n, "(")
    BY <2>1, LacksName
  <2>3. Lacks(h, "ON") /\ Lacks(h, "(") /\ Lacks(<<Symbol("ON")>>, "(")
    <3>1. "CREATE INDEX" # "ON" /\ "CREATE INDEX" # "(" /\ "ON" # "("
      OBVIOUS
    <3> QED BY <3>1, LacksMark, Zenon
  <2>4. Lacks(T, "(")
    BY <2>1, LacksTable
  <2> QED BY <2>2, <2>3, <2>4
<1>3. h[1].sym = "CREATE INDEX" /\ h = <<Symbol("CREATE INDEX")>>
  BY DEF Symbol
<1>4. OneName(n) = Told(name) /\ QualifiedName(T) = ToldTable(table) /\ Names(L) = ToldList(cols)
  BY NameTold, TableLexes, ColumnsLex
<1> HIDE DEF T, L, n
<1>5. Listed(p2) /\ Listed(p3) /\ Listed(p4) /\ Listed(p5) /\ Listed(p6) /\ Listed(st)
  <2> HIDE DEF h
  <2>1. Listed(p2) BY <1>1, ListedConcat
  <2>2. Listed(p3) BY <2>1, MarkLength
  <2>3. Listed(p4) BY <1>1, <2>2, ListedConcat
  <2>4. Listed(p5) BY <2>3, MarkLength
  <2>5. Listed(p6) BY <1>1, <2>4, ListedConcat
  <2>6. Listed(st) BY <2>5, MarkLength
  <2> QED BY <2>1, <2>2, <2>3, <2>4, <2>5, <2>6
<1> HIDE DEF h
<1>6. Lacks(p2, "ON") /\ Lacks(p2, "(") /\ Lacks(p4, "(")
  <2>1. Lacks(p2, "ON") /\ Lacks(p2, "(")
    BY <1>1, <1>2, LacksOn
  <2>2. Lacks(p3, "(")
    BY <1>2, <1>5, <2>1, LacksOn, ListedOne
  <2>3. Lacks(p4, "(")
    BY <1>1, <1>2, <1>5, <2>2, LacksOn
  <2> QED BY <2>1, <2>3
<1> HIDE DEF st
<1>7. Begins(p6 \o <<Symbol(")")>>, st) /\ Begins(p6, st) /\ Begins(p5, st) /\ Begins(p4, st) /\ Begins(p3, st) /\ Begins(p2, st) /\ Begins(h, st)
  <2>1. Begins(p6 \o <<Symbol(")")>>, st) BY <1>5, BeginsSelf DEF st
  <2> HIDE DEF p6
  <2>2. Begins(p6, st) BY <1>5, <2>1, BeginsBack, ListedOne
  <2> HIDE DEF p5
  <2>3. Begins(p5, st) BY <1>1, <1>5, <2>2, BeginsBack DEF p6
  <2> HIDE DEF p4
  <2>4. Begins(p4, st) BY <1>5, <2>3, BeginsBack, ListedOne DEF p5
  <2> HIDE DEF p3
  <2>5. Begins(p3, st) BY <1>1, <1>5, <2>4, BeginsBack DEF p4
  <2> HIDE DEF p2
  <2>6. Begins(p2, st) BY <1>5, <2>5, BeginsBack, ListedOne DEF p3
  <2>7. Begins(h, st) BY <1>1, <1>5, <2>6, BeginsBack DEF p2
  <2> QED BY <2>1, <2>2, <2>3, <2>4, <2>5, <2>6, <2>7
<1> HIDE DEF p2, p4, p6
<1>8. At(st, "ON") = Len(p2) + 1 /\ At(st, "(") = Len(p4) + 1
  BY <1>5, <1>6, <1>7, FoundAt
<1>9. Inside(st, 1, At(st, "ON")) = n
  <2>1. Len(h) = 1 /\ Len(p2) = Len(h) + Len(n)
    BY <1>1, <1>3, ConcatMembers DEF p2
  <2>2. Begins(h \o n, st)
    BY <1>7 DEF p2
  <2>3. 1 = Len(h) /\ At(st, "ON") = Len(h) + Len(n) + 1
    BY <1>8, <2>1
  <2> DEFINE a == 1
             b == At(st, "ON")
  <2>4. a = Len(h) /\ b = Len(h) + Len(n) + 1
    BY <2>3
  <2> HIDE DEF a, b
  <2>5. Inside(st, a, b) = n
    BY <1>1, <2>2, <2>4, InsideIs
  <2> QED BY <2>5 DEF a, b
<1>10. Inside(st, At(st, "ON"), At(st, "(")) = T
  <2>1. Begins(((p2 \o <<Symbol("ON")>>) \o T) \o <<Symbol("(")>>, st)
    BY <1>7 DEF p4
  <2>2. At(st, "(") = Len((p2 \o <<Symbol("ON")>>) \o T) + 1
    BY <1>8 DEF p4
  <2> QED BY <1>1, <1>5, <1>8, <2>1, <2>2, BetweenMarks
<1>11. Inside(st, At(st, "("), Len(st)) = L
  <2>1. Begins(((p4 \o <<Symbol("(")>>) \o L) \o <<Symbol(")")>>, st)
    BY <1>7 DEF p6
  <2>2. Len(st) = Len((p4 \o <<Symbol("(")>>) \o L) + 1
    BY <1>5, MarkLength DEF p6, st
  <2> QED BY <1>1, <1>5, <1>8, <2>1, <2>2, BetweenMarks
<1>12. st[1].sym = "CREATE INDEX"
  <2> DEFINE c == Symbol("CREATE INDEX")
  <2>1. Begins(<<c>>, st)
    BY <1>3, <1>7
  <2>2. c.sym = "CREATE INDEX"
    BY DEF Symbol
  <2> HIDE DEF c
  <2>3. st[1] = c
    BY <2>1, HeadIs
  <2> QED BY <2>2, <2>3
<1>13. ReadStatement(st) = ReadIndex(st)
  BY <1>12 DEF ReadStatement
<1>14. st = IndexLex(name, table, cols)
  BY DEF st, p6, p4, p2, h, n, T, L, IndexLex
<1> QED BY <1>4, <1>9, <1>10, <1>11, <1>13, <1>14 DEF ReadIndex

LEMMA IndexReads ==
  ASSUME NEW s, s.op = "index", s.name \in Seq(Chars), s.table \in Seq(Chars), s.cols \in Seq(Seq(Chars))
  PROVE  ReadText(StatementText(s))
            = {[op |-> "index", name |-> Told(s.name), table |-> ToldTable(s.table), cols |-> ToldList(s.cols)]}
<1> DEFINE h == <<"CREATE INDEX">>
           p1 == <<Symbol("CREATE INDEX")>>
           x2 == h \o Ident(s.name)
           p2 == p1 \o <<Lex(s.name)>>
           x3 == x2 \o <<"ON">>
           p3 == p2 \o <<Symbol("ON")>>
           x4 == x3 \o QualifiedIdent(s.table)
           p4 == p3 \o LexTable(s.table)
           x5 == x4 \o <<"(">>
           p5 == p4 \o <<Symbol("(")>>
           x6 == x5 \o IdentList(s.cols)
           p6 == p5 \o LexList(s.cols, ",")
<1>1. /\ "CREATE INDEX" \in Symbols /\ "CREATE INDEX" \notin {"(", ")", ";"}
      /\ "ON" \in Symbols /\ "ON" \notin {"(", ")", ";"}
  BY DEF Symbols
<1>2. Gives(h, p1, TRUE, TRUE, 0, 0) /\ Gives(<<"ON">>, <<Symbol("ON")>>, FALSE, TRUE, 0, 0)
  BY <1>1, GivesToken
<1>3. /\ Gives(Ident(s.name), <<Lex(s.name)>>, TRUE, FALSE, 0, 0)
      /\ Gives(QualifiedIdent(s.table), LexTable(s.table), TRUE, FALSE, 0, 0)
      /\ Gives(IdentList(s.cols), LexList(s.cols, ","), TRUE, FALSE, 1, 1)
  BY GivesName, GivesTable, GivesNames
<1> HIDE DEF h, p1
<1>4. Gives(x2, p2, TRUE, FALSE, 0, 0)
  BY <1>2, <1>3, GivesOn
<1> HIDE DEF x2, p2
<1>5. Gives(x3, p3, TRUE, TRUE, 0, 0)
  BY <1>2, <1>4, GivesOn
<1> HIDE DEF x3, p3
<1>6. Gives(x4, p4, TRUE, FALSE, 0, 0)
  BY <1>3, <1>5, GivesOn
<1> HIDE DEF x4, p4
<1>7. Gives(x5, p5, TRUE, TRUE, 0, 1)
  BY <1>6, GivesOn, GivesParens
<1> HIDE DEF x5, p5
<1>8. Gives(x6, p6, TRUE, FALSE, 0, 1)
  BY <1>3, <1>7, GivesOn
<1> HIDE DEF x6, p6
<1>9. ReadText(x6 \o <<")", ";", "\n">>) = {ReadStatement(p6 \o <<Symbol(")")>>)}
  BY <1>8, ClosedReads
<1>10. StatementText(s) = x6 \o <<")", ";", "\n">>
  BY DEF StatementText, x6, x5, x4, x3, x2, h
<1>11. p6 \o <<Symbol(")")>> = IndexLex(s.name, s.table, s.cols)
  BY DEF IndexLex, p6, p5, p4, p3, p2, p1
<1>12. ReadStatement(IndexLex(s.name, s.table, s.cols))
          = [op |-> "index", name |-> Told(s.name), table |-> ToldTable(s.table), cols |-> ToldList(s.cols)]
  BY IndexRead
<1> QED BY <1>9, <1>10, <1>11, <1>12

-----------------------------------------------------------------------------
\* Reading back, 9: ALTER TABLE, with a UNIQUE or a FOREIGN KEY.

AlterWords == {"ADD UNIQUE", "ADD FOREIGN KEY"}

AlterFront(c, table, cols) ==
    ((((<<Symbol("ALTER TABLE")>> \o LexTable(table)) \o <<Symbol(c)>>) \o <<Symbol("(")>>)
      \o LexList(cols, ",")) \o <<Symbol(")")>>

\* The front of a statement that alters a table.
LEMMA AlterHead ==
  ASSUME NEW c \in AlterWords, NEW table \in Seq(Chars), NEW cols \in Seq(Seq(Chars)),
         NEW st, Begins(AlterFront(c, table, cols), st)
  PROVE  /\ QualifiedName(Inside(st, 1, At(st, "(") - 1)) = ToldTable(table)
         /\ Names(Inside(st, At(st, "("), At(st, ")"))) = ToldList(cols)
         /\ At(st, ")") = Len(AlterFront(c, table, cols)) /\ Listed(AlterFront(c, table, cols))
         /\ ReadStatement(st) = ReadAlter(st)
<1> DEFINE T == LexTable(table)
           L == LexList(cols, ",")
           h == <<Symbol("ALTER TABLE")>>
           w == <<Symbol(c)>>
           p2 == h \o T
           p3 == p2 \o w
           p4 == p3 \o <<Symbol("(")>>
           p5 == p4 \o L
           p6 == p5 \o <<Symbol(")")>>
<1>1. Listed(T) /\ Listed(L) /\ Listed(w) /\ Listed(h)
  BY TableLexes, ColumnsLex, ListedOne
<1>2. /\ Lacks(h, "(") /\ Lacks(w, "(") /\ Lacks(T, "(")
      /\ Lacks(h, ")") /\ Lacks(w, ")") /\ Lacks(T, ")") /\ Lacks(L, ")") /\ Lacks(<<Symbol("(")>>, ")")
  <2>1. "(" \in Symbols /\ ")" \in Symbols /\ "," \in Symbols /\ ")" # ","
    BY DEF Symbols
  <2>2. Lacks(T, "(") /\ Lacks(T, ")")
    BY <2>1, LacksTable
  <2>3. Lacks(h, "(") /\ Lacks(h, ")") /\ Lacks(w, "(") /\ Lacks(w, ")") /\ Lacks(<<Symbol("(")>>, ")")
    <3>1. "ALTER TABLE" # "(" /\ "ALTER TABLE" # ")" /\ "(" # ")" /\ c # "(" /\ c # ")"
      BY DEF AlterWords
    <3> QED BY <3>1, LacksMark, Zenon
  <2>4. Lacks(L, ")")
    BY <2>1, LacksList
  <2> QED BY <2>2, <2>3, <2>4
<1>3. Len(h) = 1 /\ h = <<Symbol("ALTER TABLE")>> /\ Len(w) = 1
  OBVIOUS
<1>4. QualifiedName(T) = ToldTable(table) /\ Names(L) = ToldList(cols)
  BY TableLexes, ColumnsLex
<1>14. p6 = AlterFront(c, table, cols)
  BY DEF AlterFront
<1> HIDE DEF T, L, h, w
<1>5. Listed(p2) /\ Listed(p3) /\ Listed(p4) /\ Listed(p5) /\ Listed(p6)
  <2>1. Listed(p2) BY <1>1, ListedConcat
  <2>2. Listed(p3) BY <1>1, <2>1, ListedConcat
  <2>4. Listed(p4) BY <2>2, MarkLength
  <2>5. Listed(p5) BY <1>1, <2>4, ListedConcat
  <2>6. Listed(p6) BY <2>5, MarkLength
  <2> QED BY <2>1, <2>2, <2>4, <2>5, <2>6
<1>6. Lacks(p3, "(") /\ Lacks(p5, ")")
  <2>1. Lacks(p2, "(") /\ Lacks(p2, ")")
    BY <1>1, <1>2, LacksOn
  <2>2. Lacks(p3, "(") /\ Lacks(p3, ")")
    BY <1>1, <1>2, <1>5, <2>1, LacksOn
  <2>3. Lacks(p4, ")")
    BY <1>2, <1>5, <2>2, LacksOn, ListedOne
  <2>4. Lacks(p5, ")")
    BY <1>1, <1>2, <1>5, <2>3, LacksOn
  <2> QED BY <2>2, <2>4
<1>7. Begins(p6, st) /\ Begins(p5, st) /\ Begins(p4, st) /\ Begins(p3, st) /\ Begins(p2, st) /\ Begins(h, st)
  <2>1. Begins(p6, st) BY <1>14
  <2> HIDE DEF p5
  <2>2. Begins(p5, st) BY <1>5, <2>1, BeginsBack, ListedOne
  <2> HIDE DEF p4
  <2>3. Begins(p4, st) BY <1>1, <1>5, <2>2, BeginsBack DEF p5
  <2> HIDE DEF p3
  <2>4. Begins(p3, st) BY <1>5, <2>3, BeginsBack, ListedOne DEF p4
  <2> HIDE DEF p2
  <2>5. Begins(p2, st) BY <1>1, <1>5, <2>4, BeginsBack DEF p3
  <2>7. Begins(h, st) BY <1>1, <1>5, <2>5, BeginsBack DEF p2
  <2> QED BY <2>1, <2>2, <2>3, <2>4, <2>5, <2>7
<1> HIDE DEF p2, p3, p5
<1>8. At(st, "(") = Len(p3) + 1 /\ At(st, ")") = Len(p5) + 1
  BY <1>5, <1>6, <1>7, FoundAt
<1>9. Inside(st, 1, At(st, "(") - 1) = T
  <2>1. Len(p3) = Len(p2) + Len(w)
    BY <1>1, <1>5, ConcatMembers DEF p3
  <2>2. Len(p2) = Len(h) + Len(T) /\ Len(T) \in Nat
    BY <1>1, ConcatMembers, AnySeq DEF p2, Listed
  <2>3. Begins(h \o T, st)
    BY <1>7 DEF p2
  <2> DEFINE open == At(st, "(")
             a == 1
             b == open - 1
  <2>6. Len(h) = 1 /\ Len(w) = 1
    BY <1>3
  <2>7. open = Len(p3) + 1
    BY <1>8
  <2> HIDE DEF open
  <2>8. Len(p3) = Len(T) + 2
    BY <2>1, <2>2, <2>6
  <2>9. open = Len(T) + 3
    BY <2>2, <2>7, <2>8
  <2>4. a = Len(h) /\ b = Len(h) + Len(T) + 1
    BY <2>2, <2>6, <2>9
  <2> HIDE DEF a, b
  <2>5. Inside(st, a, b) = T
    BY <1>1, <2>3, <2>4, InsideIs
  <2> QED BY <2>5 DEF a, b, open
<1>10. Inside(st, At(st, "("), At(st, ")")) = L
  <2>1. Begins(((p3 \o <<Symbol("(")>>) \o L) \o <<Symbol(")")>>, st)
    BY <1>7 DEF p5
  <2>2. At(st, ")") = Len((p3 \o <<Symbol("(")>>) \o L) + 1
    BY <1>8 DEF p5
  <2> QED BY <1>1, <1>5, <1>8, <2>1, <2>2, BetweenMarks
<1>11. At(st, ")") = Len(p6)
  BY <1>5, <1>8, MarkLength
<1>12. st[1].sym = "ALTER TABLE"
  <2> DEFINE u == Symbol("ALTER TABLE")
  <2>1. Begins(<<u>>, st)
    BY <1>3, <1>7
  <2>2. u.sym = "ALTER TABLE"
    BY DEF Symbol
  <2> HIDE DEF u
  <2>3. st[1] = u
    BY <2>1, HeadIs
  <2> QED BY <2>2, <2>3
<1>13. ReadStatement(st) = ReadAlter(st)
  BY <1>12 DEF ReadStatement
<1> HIDE DEF p6
<1> QED BY <1>4, <1>5, <1>9, <1>10, <1>11, <1>13, <1>14

LEMMA UniqueRead ==
  ASSUME NEW table \in Seq(Chars), NEW cols \in Seq(Seq(Chars))
  PROVE  ReadStatement(AlterFront("ADD UNIQUE", table, cols))
            = [op |-> "unique", table |-> ToldTable(table), cols |-> ToldList(cols)]
<1> DEFINE c == "ADD UNIQUE"
           st == AlterFront(c, table, cols)
<1>1. c \in AlterWords
  BY DEF AlterWords
<1>2. Listed(st)
  <2> HIDE DEF c
  <2>1. Listed(LexTable(table)) /\ Listed(LexList(cols, ","))
    BY TableLexes, ColumnsLex
  <2> QED BY <2>1, ListedOne, ListedConcat DEF AlterFront
<1> HIDE DEF c
<1>3. Begins(AlterFront(c, table, cols), st)
  BY <1>2, BeginsSelf
<1>4. /\ QualifiedName(Inside(st, 1, At(st, "(") - 1)) = ToldTable(table)
      /\ Names(Inside(st, At(st, "("), At(st, ")"))) = ToldList(cols)
      /\ At(st, ")") = Len(st)
      /\ ReadStatement(st) = ReadAlter(st)
  <2> HIDE DEF st
  <2> QED BY <1>1, <1>3, AlterHead DEF st
<1> HIDE DEF st
<1>5. SubSeq(st, At(st, ")") + 1, Len(st)) = << >>
  <2>1. st \in Seq(ToSet(st))
    BY <1>2 DEF Listed
  <2> QED BY <1>4, <2>1
<1>6. ReadAlter(st) = [op |-> "unique", table |-> ToldTable(table), cols |-> ToldList(cols)]
  BY <1>4, <1>5, Zenon DEF ReadAlter
<1> QED BY <1>4, <1>6 DEF st, c

LEMMA GivesAlter ==
  ASSUME NEW c \in AlterWords, NEW table \in Seq(Chars)
  PROVE  Gives((<<"ALTER TABLE">> \o QualifiedIdent(table)) \o <<c, "(">>,
               ((<<Symbol("ALTER TABLE")>> \o LexTable(table)) \o <<Symbol(c)>>) \o <<Symbol("(")>>, TRUE, TRUE, 0, 1)
<1> DEFINE h == <<"ALTER TABLE">>
           p1 == <<Symbol("ALTER TABLE")>>
           x2 == h \o QualifiedIdent(table)
           p2 == p1 \o LexTable(table)
<1>1. /\ "ALTER TABLE" \in Symbols /\ "ALTER TABLE" \notin {"(", ")", ";"}
      /\ c \in Symbols /\ c \notin {"(", ")", ";"}
  BY DEF Symbols, AlterWords
<1>2. Gives(h, p1, TRUE, TRUE, 0, 0)
  BY <1>1, GivesToken
<1> HIDE DEF h, p1
<1>3. Gives(x2, p2, TRUE, FALSE, 0, 0)
  BY <1>2, GivesTable, GivesOn
<1> HIDE DEF x2, p2
<1>4. Gives(x2 \o <<c, "(">>, (p2 \o <<Symbol(c)>>) \o <<Symbol("(")>>, TRUE, TRUE, 0, 1)
  BY <1>1, <1>3, GivesOpen
<1> QED BY <1>4 DEF x2, p2, h, p1

LEMMA UniqueReads ==
  ASSUME NEW s, s.op = "unique", s.table \in Seq(Chars), s.cols \in Seq(Seq(Chars))
  PROVE  ReadText(StatementText(s)) = {[op |-> "unique", table |-> ToldTable(s.table), cols |-> ToldList(s.cols)]}
<1> DEFINE x3 == (<<"ALTER TABLE">> \o QualifiedIdent(s.table)) \o <<"ADD UNIQUE", "(">>
           p3 == ((<<Symbol("ALTER TABLE")>> \o LexTable(s.table)) \o <<Symbol("ADD UNIQUE")>>) \o <<Symbol("(")>>
           x4 == x3 \o IdentList(s.cols)
           p4 == p3 \o LexList(s.cols, ",")
<1>1. Gives(x3, p3, TRUE, TRUE, 0, 1)
  <2>1. "ADD UNIQUE" \in AlterWords
    BY DEF AlterWords
  <2> QED BY <2>1, GivesAlter
<1> HIDE DEF x3, p3
<1>2. Gives(x4, p4, TRUE, FALSE, 0, 1)
  BY <1>1, GivesNames, GivesOn
<1> HIDE DEF x4, p4
<1>3. ReadText(x4 \o <<")", ";", "\n">>) = {ReadStatement(p4 \o <<Symbol(")")>>)}
  BY <1>2, ClosedReads
<1>4. StatementText(s) = x4 \o <<")", ";", "\n">>
  BY DEF StatementText, x4, x3
<1>5. p4 \o <<Symbol(")")>> = AlterFront("ADD UNIQUE", s.table, s.cols)
  BY DEF AlterFront, p4, p3
<1>6. ReadStatement(AlterFront("ADD UNIQUE", s.table, s.cols))
          = [op |-> "unique", table |-> ToldTable(s.table), cols |-> ToldList(s.cols)]
  BY UniqueRead
<1> QED BY <1>3, <1>4, <1>5, <1>6

-----------------------------------------------------------------------------
\* A word, a table and something in parentheses.
Enclosed(c, table, body) ==
    (((<<Symbol(c)>> \o LexTable(table)) \o <<Symbol("(")>>) \o body) \o <<Symbol(")")>>

KeyTarget(table, name) == Enclosed("REFERENCES", table, <<Lex(name)>>)

LEMMA OneListed ==
  ASSUME NEW name \in Seq(Chars)
  PROVE  /\ <<name>> \in Seq(Seq(Chars)) /\ LexList(<<name>>, ",") = <<Lex(name)>>
         /\ ToldList(<<name>>) = <<Told(name)>> /\ Names(<<Lex(name)>>) = <<Told(name)>>
<1>1. <<name>> \in Seq(Seq(Chars))
  BY OneIsSeq
<1>2. LexList(<<name>>, ",") = <<Lex(name)>>
  <2> DEFINE x == <<Lex(name)>>
  <2>1. EachLex(<<name>>) = <<x>>
    BY DEF EachLex
  <2>2. Listed(x)
    BY ListedOne
  <2> HIDE DEF x
  <2>3. Separated(<<x>>, Symbol(",")) = x
    BY <2>2, SeparatedOne
  <2> QED BY <2>1, <2>3 DEF LexList, x
<1>3. ToldList(<<name>>) = <<Told(name)>>
  BY DEF ToldList, EachTold
<1>4. Names(LexList(<<name>>, ",")) = ToldList(<<name>>)
  BY <1>1, ColumnsLex
<1> QED BY <1>1, <1>2, <1>3, <1>4

LEMMA EnclosedRead ==
  ASSUME NEW c, c # "(", NEW table \in Seq(Chars), NEW body, Listed(body)
  PROVE  LET t == Enclosed(c, table, body)
         IN  /\ Listed(t) /\ t # << >> /\ t[1] = Symbol(c)
             /\ QualifiedName(Inside(t, 1, At(t, "("))) = ToldTable(table)
             /\ Inside(t, At(t, "("), Len(t)) = body
<1> DEFINE T == LexTable(table)
           L == body
           h == <<Symbol(c)>>
           p2 == h \o T
           p3 == p2 \o <<Symbol("(")>>
           p4 == p3 \o L
           t == p4 \o <<Symbol(")")>>
<1>4. QualifiedName(T) = ToldTable(table)
  BY TableLexes
<1>17. L = body
  OBVIOUS
<1>1. Listed(T) /\ Listed(L) /\ Listed(h)
  BY TableLexes, ListedOne
<1>2. Lacks(h, "(") /\ Lacks(T, "(")
  <2>1. "(" \in Symbols
    BY DEF Symbols
  <2>2. Lacks(T, "(")
    BY <2>1, LacksTable
  <2>3. Lacks(h, "(")
    BY LacksMark, Zenon
  <2> QED BY <2>2, <2>3
<1>3. Len(h) = 1
  OBVIOUS
<1>14. t = Enclosed(c, table, L)
  BY DEF Enclosed
<1>16. h = <<Symbol(c)>>
  OBVIOUS
<1> HIDE DEF T, L, h
<1>5. Listed(p2) /\ Listed(p3) /\ Listed(p4) /\ Listed(t)
  <2>1. Listed(p2) BY <1>1, ListedConcat
  <2>4. Listed(p3) BY <2>1, MarkLength
  <2>5. Listed(p4) BY <1>1, <2>4, ListedConcat
  <2>6. Listed(t) BY <2>5, MarkLength
  <2> QED BY <2>1, <2>4, <2>5, <2>6
<1>6. Lacks(p2, "(")
  BY <1>1, <1>2, LacksOn
<1>15. Len(t) = Len(p4) + 1 /\ Len(p4) \in Nat
  BY <1>5, MarkLength
<1>7. Begins(t, t) /\ Begins(p4, t) /\ Begins(p3, t) /\ Begins(p2, t)
  <2> DEFINE st == t
  <2>1. Begins(t, st) BY <1>5, BeginsSelf
  <2> HIDE DEF st, p4
  <2>2. Begins(p4, st) BY <1>5, <2>1, BeginsBack, ListedOne
  <2> HIDE DEF p3
  <2>3. Begins(p3, st) BY <1>1, <1>5, <2>2, BeginsBack DEF p4
  <2> HIDE DEF p2
  <2>4. Begins(p2, st) BY <1>5, <2>3, BeginsBack, ListedOne DEF p3
  <2> QED BY <2>1, <2>2, <2>3, <2>4 DEF st
<1>11. Len(t) = Len((p2 \o <<Symbol("(")>>) \o L) + 1
  BY <1>15
<1>10. Begins(((p2 \o <<Symbol("(")>>) \o L) \o <<Symbol(")")>>, t)
  BY <1>7
<1> HIDE DEF p2, t
<1>8. At(t, "(") = Len(p2) + 1
  BY <1>5, <1>6, <1>7, FoundAt
<1>9. Inside(t, 1, At(t, "(")) = T
  <2>2. Len(p2) = Len(h) + Len(T)
    BY <1>1, ConcatMembers DEF p2
  <2>3. Begins(h \o T, t)
    BY <1>7 DEF p2
  <2> DEFINE a == 1
             b == At(t, "(")
  <2>4. a = Len(h) /\ b = Len(h) + Len(T) + 1
    BY <1>3, <1>8, <2>2
  <2> HIDE DEF a, b
  <2>5. Inside(t, a, b) = T
    BY <1>1, <2>3, <2>4, InsideIs
  <2> QED BY <2>5 DEF a, b
<1>12. Inside(t, At(t, "("), Len(t)) = L
  BY <1>1, <1>5, <1>8, <1>10, <1>11, BetweenMarks
<1>13. t # << >>
  BY <1>15
<1>18. t[1] = Symbol(c)
  <2>1. Begins(<<Symbol(c)>>, t)
    <3>1. Begins(h, t)
      BY <1>1, <1>7, BeginsBack DEF p2
    <3> QED BY <1>16, <3>1
  <2> QED BY <2>1, HeadIs
<1> QED BY <1>4, <1>5, <1>9, <1>12, <1>13, <1>14, <1>17, <1>18

LEMMA TargetRead ==
  ASSUME NEW table \in Seq(Chars), NEW name \in Seq(Chars)
  PROVE  LET t == KeyTarget(table, name)
         IN  /\ Listed(t) /\ t # << >>
             /\ QualifiedName(Inside(t, 1, At(t, "("))) = ToldTable(table)
             /\ Names(Inside(t, At(t, "("), Len(t))) = <<Told(name)>>
<1> DEFINE L == <<Lex(name)>>
           c == "REFERENCES"
<1>1. Listed(L) /\ Names(L) = <<Told(name)>> /\ c # "("
  BY ListedOne, OneListed
<1>2. KeyTarget(table, name) = Enclosed(c, table, L)
  BY DEF KeyTarget
<1> HIDE DEF L, c
<1> DEFINE t == Enclosed(c, table, L)
<1>3. /\ Listed(t) /\ t # << >> /\ QualifiedName(Inside(t, 1, At(t, "("))) = ToldTable(table)
      /\ Inside(t, At(t, "("), Len(t)) = L
  BY <1>1, EnclosedRead
<1>4. KeyTarget(table, name) = t
  BY <1>2
<1> HIDE DEF t
<1> QED BY <1>1, <1>3, <1>4

SixListed(f, a, b, c, d, e) ==
    Listed(f) /\ Listed(a) /\ Listed(b) /\ Listed(c) /\ Listed(d) /\ Listed(e)

Regrouped(f, a, b, c, d, e) ==
    ((((f \o a) \o b) \o c) \o d) \o e = f \o ((((a \o b) \o c) \o d) \o e)

LEMMA Regroup ==
  ASSUME NEW f, NEW a, NEW b, NEW c, NEW d, NEW e, SixListed(f, a, b, c, d, e)
  PROVE  Regrouped(f, a, b, c, d, e)
<1> DEFINE ab == a \o b
           abc == ab \o c
           abcd == abc \o d
<1>f. Listed(f) BY DEF SixListed
<1>a. Listed(a) /\ Listed(b) BY DEF SixListed
<1>c. Listed(c) BY DEF SixListed
<1>d. Listed(d) BY DEF SixListed
<1>e. Listed(e) BY DEF SixListed
<1>1. Listed(ab) /\ Listed(abc) /\ Listed(abcd)
  <2>1. Listed(ab) BY <1>a, ListedConcat
  <2> HIDE DEF ab
  <2>2. Listed(abc) BY <1>c, <2>1, ListedConcat
  <2> HIDE DEF abc
  <2>3. Listed(abcd) BY <1>d, <2>2, ListedConcat
  <2> QED BY <2>1, <2>2, <2>3
<1>6. Listed(ab) BY <1>1
<1>7. Listed(abc) BY <1>1
<1>8. Listed(abcd) BY <1>1
<1>2. (f \o a) \o b = f \o ab
  BY <1>f, <1>a, ConcatThree
<1> HIDE DEF ab
<1>3. (f \o ab) \o c = f \o abc
  BY <1>f, <1>c, <1>6, ConcatThree
<1> HIDE DEF abc
<1>4. (f \o abc) \o d = f \o abcd
  BY <1>f, <1>d, <1>7, ConcatThree
<1> HIDE DEF abcd
<1>5. (f \o abcd) \o e = f \o (abcd \o e)
  BY <1>f, <1>e, <1>8, ConcatThree
<1> QED BY <1>2, <1>3, <1>4, <1>5 DEF ab, abc, abcd, Regrouped

LEMMA KeyRead ==
  ASSUME NEW e, e.from \in Seq(Chars), e.fromField \in Seq(Chars), e.to \in Seq(Chars), e.toField \in Seq(Chars)
  PROVE  ReadStatement(AlterFront("ADD FOREIGN KEY", e.from, <<e.fromField>>) \o KeyTarget(e.to, e.toField))
            = [op |-> "fk", table |-> ToldTable(e.from), cols |-> <<Told(e.fromField)>>,
               target |-> ToldTable(e.to), targetCols |-> <<Told(e.toField)>>]
<1> DEFINE from == e.from
           fromField == e.fromField
           to == e.to
           toField == e.toField
<1>0. from \in Seq(Chars) /\ fromField \in Seq(Chars) /\ to \in Seq(Chars) /\ toField \in Seq(Chars)
  OBVIOUS
<1> HIDE DEF from, fromField, to, toField
<1> DEFINE c == "ADD FOREIGN KEY"
           cols == <<fromField>>
           front == AlterFront(c, from, cols)
           t == KeyTarget(to, toField)
           st == front \o t
<1>1. c \in AlterWords
  BY DEF AlterWords
<1>2. cols \in Seq(Seq(Chars)) /\ ToldList(cols) = <<Told(fromField)>>
  BY <1>0, OneListed
<1>3. /\ Listed(t) /\ t # << >>
      /\ QualifiedName(Inside(t, 1, At(t, "("))) = ToldTable(to)
      /\ Names(Inside(t, At(t, "("), Len(t))) = <<Told(toField)>>
  BY <1>0, TargetRead
<1>4. Listed(front)
  <2> HIDE DEF c, cols
  <2>1. Listed(LexTable(from)) /\ Listed(LexList(cols, ","))
    BY <1>0, <1>2, TableLexes, ColumnsLex
  <2> QED BY <2>1, ListedOne, ListedConcat DEF AlterFront
<1> HIDE DEF c, cols, t
<1>5. Begins(AlterFront(c, from, cols), st)
  <2> HIDE DEF front
  <2>1. Begins(front, st)
    BY <1>3, <1>4 DEF Begins
  <2> QED BY <2>1 DEF front
<1>6. SubSeq(st, Len(front) + 1, Len(st)) = t
  <2> HIDE DEF front
  <2> QED BY <1>3, <1>4, HeadAndTail
<1> HIDE DEF st
<1>7. /\ QualifiedName(Inside(st, 1, At(st, "(") - 1)) = ToldTable(from)
      /\ Names(Inside(st, At(st, "("), At(st, ")"))) = ToldList(cols)
      /\ At(st, ")") = Len(front)
      /\ ReadStatement(st) = ReadAlter(st)
  BY <1>0, <1>1, <1>2, <1>5, AlterHead
<1> HIDE DEF front
<1>8. SubSeq(st, At(st, ")") + 1, Len(st)) = t
  BY <1>6, <1>7
<1>9. ReadAlter(st) = [op |-> "fk", table |-> ToldTable(from), cols |-> ToldList(cols),
                       target |-> ToldTable(to), targetCols |-> <<Told(toField)>>]
  BY <1>3, <1>7, <1>8, Zenon DEF ReadAlter
<1> QED BY <1>2, <1>7, <1>9 DEF st, front, t, c, cols, from, fromField, to, toField

LEMMA KeyReads ==
  ASSUME NEW s, s.op = "fk", NEW e, s.edge = e,
         e.from \in Seq(Chars), e.fromField \in Seq(Chars), e.to \in Seq(Chars), e.toField \in Seq(Chars)
  PROVE  ReadText(StatementText(s))
            = {[op |-> "fk", table |-> ToldTable(e.from), cols |-> <<Told(e.fromField)>>,
                target |-> ToldTable(e.to), targetCols |-> <<Told(e.toField)>>]}
<1> DEFINE x3 == (<<"ALTER TABLE">> \o QualifiedIdent(e.from)) \o <<"ADD FOREIGN KEY", "(">>
           p3 == ((<<Symbol("ALTER TABLE")>> \o LexTable(e.from)) \o <<Symbol("ADD FOREIGN KEY")>>) \o <<Symbol("(")>>
           x4 == x3 \o Ident(e.fromField)
           p4 == p3 \o <<Lex(e.fromField)>>
           x5 == x4 \o <<")">>
           p5 == p4 \o <<Symbol(")")>>
           a == <<Symbol("REFERENCES")>>
           x6 == x5 \o <<"REFERENCES">>
           p6 == p5 \o a
           b == LexTable(e.to)
           x7 == x6 \o QualifiedIdent(e.to)
           p7 == p6 \o b
           c == <<Symbol("(")>>
           x8 == x7 \o <<"(">>
           p8 == p7 \o c
           d == <<Lex(e.toField)>>
           x9 == x8 \o Ident(e.toField)
           p9 == p8 \o d
           g == <<Symbol(")")>>
<1>1. Gives(x3, p3, TRUE, TRUE, 0, 1)
  <2>1. "ADD FOREIGN KEY" \in AlterWords
    BY DEF AlterWords
  <2> QED BY <2>1, GivesAlter
<1>12. StatementText(s) = (((((x4 \o <<")", "REFERENCES">>) \o QualifiedIdent(e.to)) \o <<"(">>) \o Ident(e.toField))
                          \o <<")", ";", "\n">>)
  BY DEF StatementText
<1>13. p5 = AlterFront("ADD FOREIGN KEY", e.from, <<e.fromField>>)
  <2>1. LexList(<<e.fromField>>, ",") = <<Lex(e.fromField)>>
    BY OneListed
  <2> QED BY <2>1 DEF AlterFront
<1>14. ((((a \o b) \o c) \o d) \o g) = KeyTarget(e.to, e.toField)
  BY DEF KeyTarget, Enclosed
<1> HIDE DEF x3, p3
<1>2. Gives(x4, p4, TRUE, FALSE, 0, 1)
  BY <1>1, GivesName, GivesOn
<1> HIDE DEF x4, p4
<1>3. Gives(x5, p5, TRUE, TRUE, 0, 0)
  BY <1>2, GivesParens, GivesOn
<1>15. x4 \o <<")", "REFERENCES">> = x6
  <2> DEFINE o == ")"
             r == "REFERENCES"
  <2>1. Listed(x4)
    BY <1>2 DEF Gives
  <2> HIDE DEF o, r
  <2>2. x4 \o <<o, r>> = (x4 \o <<o>>) \o <<r>>
    BY <2>1, TwoBehind
  <2> QED BY <2>2 DEF o, r
<1> HIDE DEF x5, p5
<1>4. Gives(x6, p6, TRUE, TRUE, 0, 0)
  <2>1. "REFERENCES" \in Symbols /\ "REFERENCES" \notin {"(", ")", ";"}
    BY DEF Symbols
  <2>2. Gives(<<"REFERENCES">>, a, TRUE, TRUE, 0, 0)
    BY <2>1, GivesToken
  <2> QED BY <1>3, <2>2, GivesOn
<1> HIDE DEF x6, p6
<1>5. Gives(x7, p7, TRUE, FALSE, 0, 0)
  BY <1>4, GivesTable, GivesOn
<1> HIDE DEF x7, p7
<1>6. Gives(x8, p8, TRUE, TRUE, 0, 1)
  BY <1>5, GivesParens, GivesOn
<1> HIDE DEF x8, p8
<1>7. Gives(x9, p9, TRUE, FALSE, 0, 1)
  BY <1>6, GivesName, GivesOn
<1>8. StatementText(s) = x9 \o <<")", ";", "\n">>
  BY <1>12, <1>15 DEF x7, x8
<1> HIDE DEF x9, p9
<1>9. ReadText(x9 \o <<")", ";", "\n">>) = {ReadStatement(p9 \o g)}
  BY <1>7, ClosedReads
<1>10. p9 \o g = p5 \o ((((a \o b) \o c) \o d) \o g)
  <2>1. Listed(p5)
    BY <1>3 DEF Gives
  <2>2. Listed(a) /\ Listed(b) /\ Listed(c) /\ Listed(d) /\ Listed(g)
    BY TableLexes, ListedOne
  <2> HIDE DEF a, b, c, d, g
  <2>3. SixListed(p5, a, b, c, d, g)
    BY <2>1, <2>2 DEF SixListed
  <2>4. Regrouped(p5, a, b, c, d, g)
    BY <2>3, Regroup
  <2> QED BY <2>4 DEF p6, p7, p8, p9, Regrouped
<1>11. ReadStatement(AlterFront("ADD FOREIGN KEY", e.from, <<e.fromField>>) \o KeyTarget(e.to, e.toField))
          = [op |-> "fk", table |-> ToldTable(e.from), cols |-> <<Told(e.fromField)>>,
             target |-> ToldTable(e.to), targetCols |-> <<Told(e.toField)>>]
  BY KeyRead
<1> QED BY <1>8, <1>9, <1>10, <1>11, <1>13, <1>14

-----------------------------------------------------------------------------
\* What is written of a name without a line break has none.
LEMMA IdentMembers ==
  ASSUME NEW R, QuoteMark \in R, NEW name \in Seq(R)
  PROVE  Ident(name) \in Seq(R)
<1> DEFINE char(c) == IF c = QuoteMark THEN <<c, c>> ELSE <<c>>
           pieces == [i \in 1..Len(name) |-> char(name[i])]
           inner == FlattenSeq(pieces)
           q == <<QuoteMark>>
<1>1. \A c \in R : char(c) \in Seq(R)
  OBVIOUS
<1>2. pieces \in Seq(Seq(R))
  <2> HIDE DEF char
  <2> QED BY <1>1
<1>3. inner \in Seq(R)
  <2> HIDE DEF pieces
  <2> QED BY <1>2, FlatMembers
<1>4. q \in Seq(R)
  BY OneIsSeq
<1>5. Ident(name) = IF NeedsQuotes(name) THEN q \o inner \o q ELSE name
  BY DEF Ident
<1> HIDE DEF inner, q
<1>6. q \o inner \o q \in Seq(R)
  BY <1>3, <1>4
<1> QED BY <1>5, <1>6

LEMMA IdentsMembers ==
  ASSUME NEW R, QuoteMark \in R, NEW names \in Seq(Seq(R)), NEW sep \in R
  PROVE  Separated(Idents(names), sep) \in Seq(R)
<1> DEFINE N == Len(names)
           texts == Idents(names)
           pieces == [i \in 1..Len(texts) |-> IF i < Len(texts) THEN Append(texts[i], sep) ELSE texts[i]]
<1>1. N \in Nat /\ \A i \in 1..N : names[i] \in Seq(R)
  OBVIOUS
<1>2. Len(texts) = N /\ \A i \in 1..N : texts[i] = Ident(names[i])
  BY <1>1 DEF Idents
<1>3. \A i \in 1..N : texts[i] \in Seq(R)
  BY <1>1, <1>2, IdentMembers
<1> HIDE DEF texts, N
<1>4. \A i \in 1..N : Append(texts[i], sep) \in Seq(R)
  BY <1>3
<1>5. pieces \in Seq(Seq(R))
  BY <1>1, <1>2, <1>3, <1>4
<1> HIDE DEF pieces
<1>6. FlattenSeq(pieces) \in Seq(R)
  BY <1>5, FlatMembers
<1> QED BY <1>6 DEF Separated, pieces, texts

-----------------------------------------------------------------------------
\* Reading back, 10: the items of CREATE TABLE.

LEMMA LexesStill == Lexes(<< >>, << >>, FALSE, FALSE)
<1> SUFFICES ASSUME NEW s, NEW out, Listed(out), Leaves(s, out)
             PROVE  \E t : Runs(s, << >>, t) /\ Leaves(t, out \o << >>)
  BY DEF Lexes, Boundary
<1>1. out \o << >> = out
  BY ConcatNothing
<1> QED BY <1>1, RunsNothing

LEMMA NestsNothing == \A d, sep : Nests(<< >>, d, d, sep)
<1> TAKE d, sep
<1> DEFINE x == << >>
<1>3. DOMAIN x = {}
  OBVIOUS
<1>4. Listed(x)
  BY ListedOne
<1>1. Listed(x) /\ \A c \in ToSet(x) : FALSE
  <2> HIDE DEF x
  <2> QED BY <1>3, <1>4 DEF ToSet
<1> HIDE DEF x
<1>2. Nests(x, d, d, sep)
  BY <1>1, NestsPlain
<1> QED BY <1>2 DEF x

LEMMA GivesNothing ==
  \A d : /\ Gives(<< >>, << >>, FALSE, FALSE, d, d) /\ Gives(<< >>, << >>, TRUE, TRUE, d, d)
<1> TAKE d
<1>1. Lexes(<< >>, << >>, FALSE, FALSE) /\ Lexes(<< >>, << >>, TRUE, TRUE)
  BY LexesStill, LexesNothing
<1>2. Listed(<< >>) /\ Nests(<< >>, d, d, Symbol(";"))
  BY ListedOne, NestsNothing
<1> QED BY <1>1, <1>2 DEF Gives

Option(cond, x) == IF cond THEN <<x>> ELSE << >>

LEMMA GivesOption ==
  ASSUME NEW c \in Symbols, c \notin {"(", ")", ";"}, NEW cond, NEW d
  PROVE  Gives(Option(cond, c), Option(cond, Symbol(c)), FALSE, FALSE, d, d)
<1>1. CASE cond
  <2>1. Gives(<<c>>, <<Symbol(c)>>, FALSE, TRUE, d, d)
    BY GivesToken
  <2>2. Gives(<<c>>, <<Symbol(c)>>, FALSE, FALSE, d, d)
    BY <2>1, LexesLeaves DEF Gives
  <2> QED BY <1>1, <2>2 DEF Option
<1>2. CASE ~cond
  BY <1>2, GivesNothing DEF Option
<1> QED BY <1>1, <1>2

LEMMA GivesRemark ==
  ASSUME NEW text, Listed(text), "\n" \notin ToSet(text), NEW d
  PROVE  Gives(Comment(text) \o <<"\n">>, << >>, FALSE, TRUE, d, d) /\ Listed(Comment(text))
<1> DEFINE x == Comment(text)
           y == <<"\n">>
<1>1. Lexes(x \o y, << >>, FALSE, TRUE) /\ Listed(x) /\ Listed(y)
  BY CommentLexes, ListedOne
<1> HIDE DEF x, y
<1>2. Listed(x \o y)
  BY <1>1, ListedConcat
<1>3. Listed(<< >>) /\ Nests(<< >>, d, d, Symbol(";"))
  BY ListedOne, NestsNothing
<1>4. Gives(x \o y, << >>, FALSE, TRUE, d, d)
  BY <1>1, <1>2, <1>3 DEF Gives
<1> QED BY <1>1, <1>4 DEF x, y

\* A text and a remark behind it.
LEMMA GivesRemarked ==
  ASSUME NEW x, NEW p, NEW a, NEW text, Listed(text), "\n" \notin ToSet(text), NEW d, NEW e, Gives(x, p, a, FALSE, d, e)
  PROVE  Gives((x \o Comment(text)) \o <<"\n">>, p, a, TRUE, d, e)
<1> DEFINE y == Comment(text)
           z == <<"\n">>
           yz == y \o z
           n == << >>
<1>1. Gives(yz, n, FALSE, TRUE, e, e) /\ Listed(y) /\ Listed(z)
  BY GivesRemark, ListedOne
<1>2. Listed(x) /\ Listed(p)
  BY DEF Gives
<1>6. p \o n = p
  BY <1>2, ConcatNothing
<1> HIDE DEF y, z, n
<1>3. (x \o y) \o z = x \o yz
  BY <1>1, <1>2, ConcatThree
<1> HIDE DEF yz
<1>4. Gives(x \o yz, p \o n, a, TRUE, d, e)
  BY <1>1, GivesOn
<1> QED BY <1>3, <1>4, <1>6 DEF y, z

\* Texts one after another.
LEMMA NestsJoined ==
  ASSUME NEW Q, NEW lexes \in Seq(Seq(Q)), NEW sep, NEW d,
         NEW h \in [0..Len(lexes) -> Seq(Q)], Joined(h, lexes, Len(lexes)),
         \A i \in 1..Len(lexes) : Nests(lexes[i], d, d, sep)
  PROVE  Nests(h[Len(lexes)], d, d, sep)
<1> DEFINE N == Len(lexes)
           T == {k \in 0..N : Nests(h[k], d, d, sep)}
<1>1. N \in Nat /\ \A i \in 1..N : lexes[i] \in Seq(Q)
  OBVIOUS
<1> HIDE DEF N
<1>2. 0 \in T
  <2>1. h[0] = << >>
    BY DEF Joined
  <2>2. Nests(h[0], d, d, sep)
    BY <2>1, NestsNothing
  <2> QED BY <1>1, <2>2
<1>3. ASSUME NEW k \in 0..N, k \in T, k < N
      PROVE  k + 1 \in T
  <2>1. k + 1 \in 1..N /\ k \in 0..N /\ k + 1 \in 0..N
    BY <1>1, <1>3
  <2>2. h[k + 1] = h[k] \o lexes[k + 1]
    BY <1>3, <2>1 DEF Joined, N
  <2>3. Listed(h[k]) /\ Listed(lexes[k + 1])
    <3>1. h[k] \in Seq(Q) /\ lexes[k + 1] \in Seq(Q)
      BY <1>1, <2>1 DEF N
    <3> QED BY <3>1, AnySeq
  <2>4. Nests(h[k], d, d, sep) /\ Nests(lexes[k + 1], d, d, sep)
    BY <1>3, <2>1 DEF N
  <2>5. Nests(h[k] \o lexes[k + 1], d, d, sep)
    BY <2>3, <2>4, NestsOn
  <2> QED BY <2>1, <2>2, <2>5
<1> HIDE DEF T
<1>4. \A k \in 0..N : k \in T
  BY <1>1, <1>2, <1>3, UpTo
<1>5. N \in T
  BY <1>1, <1>4
<1> QED BY <1>5 DEF T, N

LEMMA NestsFlat ==
  ASSUME NEW Q, NEW lexes \in Seq(Seq(Q)), NEW sep, NEW d,
         \A i \in 1..Len(lexes) : Nests(lexes[i], d, d, sep)
  PROVE  Nests(FlattenSeq(lexes), d, d, sep)
<1>1. PICK h \in [0..Len(lexes) -> Seq(Q)] : Joined(h, lexes, Len(lexes)) /\ FlattenSeq(lexes) = h[Len(lexes)]
  BY FlatIsJoined
<1>2. Nests(h[Len(lexes)], d, d, sep)
  BY <1>1, NestsJoined
<1> QED BY <1>1, <1>2

LEMMA GivesRow ==
  ASSUME NEW n \in Nat, NEW f, NEW g, f = [i \in 1..n |-> f[i]], g = [i \in 1..n |-> g[i]], NEW d,
         \A i \in 1..n : Gives(f[i], g[i], TRUE, TRUE, d, d)
  PROVE  Gives(FlattenSeq(f), FlattenSeq(g), TRUE, TRUE, d, d)
<1> DEFINE sep == Symbol(";")
<1>1. \A i \in 1..n : Listed(f[i]) /\ Listed(g[i]) /\ Lexes(f[i], g[i], TRUE, TRUE) /\ Nests(g[i], d, d, sep)
  BY DEF Gives
<1> HIDE DEF sep
<1>2. PICK R : f \in Seq(Seq(R)) /\ Len(f) = n
  BY <1>1, ListsTogether
<1>3. PICK Q : g \in Seq(Seq(Q)) /\ Len(g) = n
  BY <1>1, ListsTogether
<1>4. Lexes(FlattenSeq(f), FlattenSeq(g), TRUE, TRUE)
  BY <1>1, <1>2, <1>3, LexesRow
<1>6. Nests(FlattenSeq(g), d, d, sep)
  BY <1>1, <1>3, NestsFlat
<1>7. FlattenSeq(f) \in Seq(R) /\ FlattenSeq(g) \in Seq(Q)
  BY <1>2, <1>3, FlatMembers
<1> QED BY <1>4, <1>6, <1>7, AnySeq DEF Gives, sep

-----------------------------------------------------------------------------
\* The lexemes of an item of a table, without the comma behind it.
ColumnLex(item) ==
    (<<Lex(item.col)>> \o Option(item.pk, Symbol("PRIMARY KEY"))) \o Option(item.notNull, Symbol("NOT NULL"))
KeysLex(names) ==
    ((<<Symbol("PRIMARY KEY")>> \o <<Symbol("(")>>) \o LexList(names, ",")) \o <<Symbol(")")>>

ColumnItem(item) ==
    item.op = "column" /\ item.col \in Seq(Chars) /\ Listed(item.comment) /\ "\n" \notin ToSet(item.comment)
KeysItem(item) == item.op = "keys" /\ item.keys \in Seq(Seq(Chars))

LEMMA GivesColumn ==
  ASSUME NEW item, ColumnItem(item)
  PROVE  Gives(ItemText(item), ColumnLex(item) \o Option(item.comma, Symbol(",")), TRUE, TRUE, 1, 1)
<1> DEFINE x1 == Ident(item.col)
           p1 == <<Lex(item.col)>>
           x2 == x1 \o Option(item.pk, "PRIMARY KEY")
           p2 == p1 \o Option(item.pk, Symbol("PRIMARY KEY"))
           x3 == x2 \o Option(item.notNull, "NOT NULL")
           p3 == p2 \o Option(item.notNull, Symbol("NOT NULL"))
           x4 == x3 \o Option(item.comma, ",")
           p4 == p3 \o Option(item.comma, Symbol(","))
<1>1. /\ "PRIMARY KEY" \in Symbols /\ "PRIMARY KEY" \notin {"(", ")", ";"}
      /\ "NOT NULL" \in Symbols /\ "NOT NULL" \notin {"(", ")", ";"}
      /\ "," \in Symbols /\ "," \notin {"(", ")", ";"}
  BY DEF Symbols
<1>2. /\ Gives(Option(item.pk, "PRIMARY KEY"), Option(item.pk, Symbol("PRIMARY KEY")), FALSE, FALSE, 1, 1)
      /\ Gives(Option(item.notNull, "NOT NULL"), Option(item.notNull, Symbol("NOT NULL")), FALSE, FALSE, 1, 1)
      /\ Gives(Option(item.comma, ","), Option(item.comma, Symbol(",")), FALSE, FALSE, 1, 1)
  BY <1>1, GivesOption
<1>3. Gives(x1, p1, TRUE, FALSE, 1, 1)
  BY GivesName DEF ColumnItem
<1>9. ItemText(item) = (x4 \o Comment(item.comment)) \o <<"\n">>
  <2>1. item.op # "keys"
    BY DEF ColumnItem
  <2> QED BY <2>1 DEF ItemText, Option
<1> HIDE DEF x1, p1
<1>4. Gives(x2, p2, TRUE, FALSE, 1, 1)
  BY <1>2, <1>3, GivesOn
<1> HIDE DEF x2, p2
<1>5. Gives(x3, p3, TRUE, FALSE, 1, 1)
  BY <1>2, <1>4, GivesOn
<1> HIDE DEF x3, p3
<1>6. Gives(x4, p4, TRUE, FALSE, 1, 1)
  BY <1>2, <1>5, GivesOn
<1> HIDE DEF x4
<1>8. p4 = ColumnLex(item) \o Option(item.comma, Symbol(","))
  BY DEF ColumnLex, p3, p2, p1
<1> HIDE DEF p4
<1>7. Gives((x4 \o Comment(item.comment)) \o <<"\n">>, p4, TRUE, TRUE, 1, 1)
  BY <1>6, GivesRemarked DEF ColumnItem
<1> QED BY <1>7, <1>8, <1>9

LEMMA GivesKeys ==
  ASSUME NEW item, KeysItem(item)
  PROVE  Gives(ItemText(item), KeysLex(item.keys), TRUE, TRUE, 1, 1)
<1> DEFINE x1 == <<"PRIMARY KEY">>
           p1 == <<Symbol("PRIMARY KEY")>>
           x2 == x1 \o <<"(">>
           p2 == p1 \o <<Symbol("(")>>
           x3 == x2 \o IdentList(item.keys)
           p3 == p2 \o LexList(item.keys, ",")
           x4 == x3 \o <<")">>
           p4 == p3 \o <<Symbol(")")>>
           n == << >>
           x5 == x4 \o <<"\n">>
<1>1. "PRIMARY KEY" \in Symbols /\ "PRIMARY KEY" \notin {"(", ")", ";"}
  BY DEF Symbols
<1>2. Gives(x1, p1, TRUE, TRUE, 1, 1)
  BY <1>1, GivesToken
<1>3. Gives(<<"(">>, <<Symbol("(")>>, TRUE, TRUE, 1, 2)
  BY GivesParens, LexesReady DEF Gives
<1>4. Gives(IdentList(item.keys), LexList(item.keys, ","), TRUE, FALSE, 2, 2)
  BY GivesNames DEF KeysItem
<1>5. x2 = <<"PRIMARY KEY", "(">>
  <2> DEFINE c == "PRIMARY KEY"
             d == "("
             S == {c, d}
  <2>1. c \in S /\ d \in S
    OBVIOUS
  <2> HIDE DEF c, d, S
  <2>2. <<c>> \o <<d>> = <<c, d>>
    BY <2>1, Pair
  <2> QED BY <2>2 DEF c, d
<1> HIDE DEF x1, p1
<1>6. Gives(x2, p2, TRUE, TRUE, 1, 2)
  BY <1>2, <1>3, GivesOn
<1> HIDE DEF x2, p2
<1>7. Gives(x3, p3, TRUE, FALSE, 1, 2)
  BY <1>4, <1>6, GivesOn
<1> HIDE DEF x3, p3
<1>8. Gives(x4, p4, TRUE, TRUE, 1, 1)
  BY <1>7, GivesOn, GivesParens
<1>9. Gives(<<"\n">>, n, TRUE, TRUE, 1, 1)
  <2>1. Lexes(<<"\n">>, << >>, TRUE, TRUE)
    BY BreakLexes, LexesReady
  <2> QED BY <2>1, ListedOne, NestsNothing DEF Gives
<1>10. x3 \o <<")", "\n">> = x5
  <2> DEFINE c == ")"
             d == "\n"
  <2>1. Listed(x3)
    BY <1>7 DEF Gives
  <2> HIDE DEF c, d
  <2>2. x3 \o <<c, d>> = (x3 \o <<c>>) \o <<d>>
    BY <2>1, TwoBehind
  <2> QED BY <2>2 DEF c, d
<1>14. p4 \o n = p4
  BY <1>8, ConcatNothing DEF Gives
<1> HIDE DEF x4, p4, n
<1>11. Gives(x5, p4 \o n, TRUE, TRUE, 1, 1)
  BY <1>8, <1>9, GivesOn
<1>12. ItemText(item) = x5
  BY <1>5, <1>10 DEF ItemText, x3, KeysItem
<1>13. p4 = KeysLex(item.keys)
  BY DEF KeysLex, p4, p3, p2, p1
<1> QED BY <1>11, <1>12, <1>13, <1>14

-----------------------------------------------------------------------------
\* Reading back, 11: CREATE TABLE, up to its lexemes.

ItemLex(item) == IF item.op = "keys" THEN KeysLex(item.keys) ELSE ColumnLex(item)
ItemsLex(items) == [i \in 1..Len(items) |-> ItemLex(items[i])]

\* The columns of a table, with commas between them, and a clause behind them or none.
TableItems(items, m) ==
    /\ Len(items) \in Nat /\ m \in Nat /\ m <= Len(items) /\ Len(items) <= m + 1
    /\ \A i \in 1..m : ColumnItem(items[i]) /\ (items[i].comma <=> i < Len(items))
    /\ \A i \in 1..Len(items) : ~(i <= m) => KeysItem(items[i])

TableLex(table, items) == Enclosed("CREATE TABLE", table, Separated(ItemsLex(items), Symbol(",")))

LEMMA ListedOption == \A cond, x : Listed(Option(cond, x)) /\ ToSet(Option(cond, x)) = IF cond THEN {x} ELSE {}
<1> TAKE cond, x
<1>1. Listed(<<x>>) /\ Listed(<< >>) /\ ToSet(<<x>>) = {x}
  BY ListedOne
<1>2. ToSet(<< >>) = {}
  BY DEF ToSet
<1> QED BY <1>1, <1>2 DEF Option

LEMMA ListedColumn ==
  ASSUME NEW item
  PROVE  Listed(ColumnLex(item))
BY ListedOption, ListedConcat, ListedOne DEF ColumnLex

LEMMA GivesItems ==
  ASSUME NEW items, NEW m, TableItems(items, m)
  PROVE  Gives(FlattenSeq([i \in 1..Len(items) |-> ItemText(items[i])]),
               Separated(ItemsLex(items), Symbol(",")), TRUE, TRUE, 1, 1)
<1> DEFINE N == Len(items)
           L == ItemsLex(items)
           mark == Symbol(",")
           f == [i \in 1..N |-> ItemText(items[i])]
           lex(i) == IF i < N THEN Append(ItemLex(items[i]), mark) ELSE ItemLex(items[i])
           g == [i \in 1..N |-> lex(i)]
<1>1. N \in Nat
  BY DEF TableItems
<1>2. Separated(L, mark) = FlattenSeq(g)
  <2>1. L = [i \in 1..N |-> ItemLex(items[i])] /\ Len(L) = N
    BY <1>1 DEF ItemsLex
  <2> HIDE DEF mark
  <2>2. [i \in 1..N |-> IF i < N THEN Append(L[i], mark) ELSE L[i]] = g
    BY <2>1
  <2> QED BY <2>1, <2>2 DEF Separated
<1>3. ASSUME NEW i \in 1..N
      PROVE  Gives(ItemText(items[i]), lex(i), TRUE, TRUE, 1, 1)
  <2> DEFINE item == items[i]
  <2>1. CASE i <= m
    <3>1. ColumnItem(item) /\ (item.comma <=> i < N)
      BY <1>1, <2>1 DEF TableItems
    <3>2. ItemLex(item) = ColumnLex(item)
      BY <3>1 DEF ColumnItem, ItemLex
    <3> DEFINE C == ColumnLex(item)
    <3>3. Listed(C)
      BY ListedColumn
    <3>5. Gives(ItemText(item), C \o Option(item.comma, mark), TRUE, TRUE, 1, 1)
      BY <3>1, GivesColumn
    <3> HIDE DEF item, C, mark
    <3>4. C \o Option(item.comma, mark) = IF i < N THEN Append(C, mark) ELSE C
      <4>1. CASE i < N
        BY <3>1, <3>3, <4>1, ListedAppend DEF Option
      <4>2. CASE ~(i < N)
        BY <3>1, <3>3, <4>2, ConcatNothing DEF Option
      <4> QED BY <4>1, <4>2
    <3> QED BY <3>2, <3>4, <3>5 DEF C, item
  <2>2. CASE ~(i <= m)
    <3>1. KeysItem(item) /\ ~(i < N)
      BY <1>1, <2>2 DEF TableItems
    <3>2. ItemLex(item) = KeysLex(item.keys)
      BY <3>1 DEF KeysItem, ItemLex
    <3>3. Gives(ItemText(item), KeysLex(item.keys), TRUE, TRUE, 1, 1)
      BY <3>1, GivesKeys
    <3> QED BY <3>1, <3>2, <3>3
  <2> QED BY <2>1, <2>2
<1> HIDE DEF lex
<1>4. f = [i \in 1..N |-> f[i]] /\ g = [i \in 1..N |-> g[i]] /\ \A i \in 1..N : f[i] = ItemText(items[i]) /\ g[i] = lex(i)
  OBVIOUS
<1> HIDE DEF f, g, N
<1>5. Gives(FlattenSeq(f), FlattenSeq(g), TRUE, TRUE, 1, 1)
  BY <1>1, <1>3, <1>4, GivesRow
<1> QED BY <1>2, <1>5 DEF f, N, L, mark

LEMMA TableGives ==
  ASSUME NEW s, NEW m, s.op = "table", s.table \in Seq(Chars), Listed(s.comment), "\n" \notin ToSet(s.comment),
         TableItems(s.items, m)
  PROVE  ReadText(StatementText(s)) = {ReadStatement(TableLex(s.table, s.items))}
<1> DEFINE h == <<"CREATE TABLE">>
           p1 == <<Symbol("CREATE TABLE")>>
           x2 == h \o QualifiedIdent(s.table)
           p2 == p1 \o LexTable(s.table)
           x3 == x2 \o <<"(">>
           p3 == p2 \o <<Symbol("(")>>
           x4 == (x3 \o Comment(s.comment)) \o <<"\n">>
           F == FlattenSeq([i \in 1..Len(s.items) |-> ItemText(s.items[i])])
           B == Separated(ItemsLex(s.items), Symbol(","))
           x5 == x4 \o F
           p5 == p3 \o B
<1>1. "CREATE TABLE" \in Symbols /\ "CREATE TABLE" \notin {"(", ")", ";"}
  BY DEF Symbols
<1>2. Gives(h, p1, TRUE, TRUE, 0, 0)
  BY <1>1, GivesToken
<1>3. Gives(F, B, TRUE, TRUE, 1, 1)
  BY GivesItems
<1>10. StatementText(s) = x5 \o <<")", ";", "\n">>
  BY DEF StatementText
<1>11. p5 \o <<Symbol(")")>> = TableLex(s.table, s.items)
  BY DEF TableLex, Enclosed
<1> HIDE DEF h, p1, F, B
<1>4. Gives(x2, p2, TRUE, FALSE, 0, 0)
  BY <1>2, GivesTable, GivesOn
<1> HIDE DEF x2, p2
<1>5. Gives(x3, p3, TRUE, TRUE, 0, 1)
  BY <1>4, GivesParens, GivesOn
<1> HIDE DEF x3, p3
<1>6. Gives(x3, p3, TRUE, FALSE, 0, 1)
  BY <1>5, LexesLeaves DEF Gives
<1>7. Gives(x4, p3, TRUE, TRUE, 0, 1)
  BY <1>6, GivesRemarked
<1> HIDE DEF x4
<1>8. Gives(x5, p5, TRUE, TRUE, 0, 1)
  BY <1>3, <1>7, GivesOn
<1> HIDE DEF x5, p5
<1>9. Gives(x5, p5, TRUE, FALSE, 0, 1)
  BY <1>8, LexesLeaves DEF Gives
<1>12. ReadText(x5 \o <<")", ";", "\n">>) = {ReadStatement(p5 \o <<Symbol(")")>>)}
  BY <1>9, ClosedReads
<1> QED BY <1>10, <1>11, <1>12

-----------------------------------------------------------------------------
\* The first so many members of a sequence.
LEMMA WhereFront ==
  ASSUME NEW R, NEW seq \in Seq(R), NEW m \in 0..Len(seq)
  PROVE  Where(seq, 1..m) = SubSeq(seq, 1, m)
<1> DEFINE N == Len(seq)
           ss == [i \in 1..N |-> IF i \in 1..m THEN <<seq[i]>> ELSE << >>]
           least(k) == IF k <= m THEN k ELSE m
<1>1. N \in Nat /\ m \in Nat /\ m <= N
  OBVIOUS
<1>2. ss \in Seq(Seq(R)) /\ Len(ss) = N /\ \A i \in 1..N : ss[i] = IF i \in 1..m THEN <<seq[i]>> ELSE << >>
  <2>1. \A i \in 1..N : <<seq[i]>> \in Seq(R) /\ << >> \in Seq(R)
    OBVIOUS
  <2> QED BY <2>1
<1>3. Where(seq, 1..m) = FlattenSeq(ss)
  BY DEF Where
<1> HIDE DEF ss
<1>4. PICK g \in [0..Len(ss) -> Seq(R)] : Joined(g, ss, Len(ss)) /\ FlattenSeq(ss) = g[Len(ss)]
  BY <1>2, FlatIsJoined
<1> DEFINE T == {k \in 0..N : g[k] = SubSeq(seq, 1, least(k))}
<1>5. SubSeq(seq, 1, 0) = << >> /\ \A k \in 1..N : SubSeq(seq, 1, k) = Append(SubSeq(seq, 1, k - 1), seq[k])
  BY Beginnings
<1>6. 0 \in T
  <2>1. g[0] = << >> /\ least(0) = 0 /\ 0 \in 0..N
    BY <1>1, <1>4 DEF Joined
  <2> QED BY <1>5, <2>1
<1>7. ASSUME NEW k \in 0..N, k \in T, k < N
      PROVE  k + 1 \in T
  <2>1. k + 1 \in 1..N /\ k + 1 \in 0..N /\ k \in Nat
    BY <1>1, <1>7
  <2>2. g[k + 1] = g[k] \o ss[k + 1]
    BY <1>2, <1>4, <1>7, <2>1 DEF Joined
  <2>3. g[k] = SubSeq(seq, 1, least(k)) /\ Listed(g[k])
    <3>1. g[k] \in Seq(R)
      BY <1>2, <1>4
    <3> QED BY <1>7, <3>1, AnySeq
  <2>4. CASE k < m
    <3>1. least(k) = k /\ least(k + 1) = k + 1 /\ k + 1 \in 1..m /\ k + 1 - 1 = k
      BY <1>1, <2>1, <2>4
    <3>2. ss[k + 1] = <<seq[k + 1]>>
      BY <1>2, <2>1, <3>1
    <3>3. g[k] \o <<seq[k + 1]>> = Append(g[k], seq[k + 1])
      BY <2>3, ListedAppend
    <3>4. SubSeq(seq, 1, k + 1) = Append(SubSeq(seq, 1, k), seq[k + 1])
      BY <1>5, <2>1, <3>1
    <3>5. g[k + 1] = SubSeq(seq, 1, least(k + 1))
      BY <2>2, <2>3, <3>1, <3>2, <3>3, <3>4
    <3> QED BY <2>1, <3>5
  <2>5. CASE ~(k < m)
    <3>1. least(k) = m /\ least(k + 1) = m /\ k + 1 \notin 1..m
      BY <1>1, <2>1, <2>5
    <3>2. ss[k + 1] = << >>
      BY <1>2, <2>1, <3>1
    <3>3. g[k] \o << >> = g[k]
      BY <2>3, ConcatNothing
    <3>4. g[k + 1] = SubSeq(seq, 1, least(k + 1))
      BY <2>2, <2>3, <3>1, <3>2, <3>3
    <3> QED BY <2>1, <3>4
  <2> QED BY <2>4, <2>5
<1> HIDE DEF T
<1>8. \A k \in 0..N : k \in T
  BY <1>1, <1>6, <1>7, UpTo
<1>9. N \in T /\ least(N) = m
  BY <1>1, <1>8
<1> QED BY <1>2, <1>3, <1>4, <1>9 DEF T

-----------------------------------------------------------------------------
\* Reading back, 12: CREATE TABLE, read.

\* A lexeme and what stands behind it.
LEMMA Headed ==
  ASSUME NEW x, NEW tail, Listed(tail)
  PROVE  LET it == <<x>> \o tail
         IN  /\ Listed(it) /\ it # << >> /\ it[1] = x /\ SubSeq(it, 1, 1) = <<x>>
             /\ Marks(it) = {y.sym : y \in ToSet(tail)} /\ ToSet(it) = {x} \cup ToSet(tail)
<1> DEFINE a == <<x>>
           it == a \o tail
           n == Len(tail)
<1>1. Listed(a) /\ Len(a) = 1 /\ a[1] = x /\ ToSet(a) = {x}
  BY ListedOne
<1>2. n \in Nat /\ DOMAIN tail = 1..n
  BY AnySeq DEF Listed
<1> HIDE DEF a
<1>3. /\ Listed(it) /\ Len(it) = 1 + n /\ it[1] = x
      /\ \A k \in 1..n : it[1 + k] = tail[k]
      /\ ToSet(it) = {x} \cup ToSet(tail)
  <2>1. 1 \in 1..Len(a)
    BY <1>1
  <2>2. /\ Listed(it) /\ Len(it) = Len(a) + n /\ \A k \in 1..Len(a) : it[k] = a[k]
        /\ \A k \in 1..n : it[Len(a) + k] = tail[k]
        /\ ToSet(it) = ToSet(a) \cup ToSet(tail)
    <3> HIDE DEF it, n
    <3>1. Listed(a) /\ Listed(tail)
      BY <1>1
    <3>2. /\ Listed(a \o tail) /\ Len(a \o tail) = Len(a) + Len(tail)
          /\ \A k \in 1..Len(a) : (a \o tail)[k] = a[k]
      BY <3>1, ConcatMembers
    <3>3. /\ \A k \in 1..Len(tail) : (a \o tail)[Len(a) + k] = tail[k]
          /\ ToSet(a \o tail) = ToSet(a) \cup ToSet(tail)
      BY <3>1, ConcatMembers
    <3> QED BY <3>2, <3>3 DEF it, n
  <2> HIDE DEF it, n
  <2> QED BY <1>1, <2>1, <2>2
<1>4. SubSeq(it, 1, 1) = a
  <2>1. SubSeq(it, 1, Len(a)) = a
    BY <1>1, HeadAndTail
  <2> QED BY <1>1, <2>1
<1> HIDE DEF it
<1>5. it # << >>
  BY <1>2, <1>3
<1>6. Marks(it) = {y.sym : y \in ToSet(tail)}
  <2>1. \A i \in 2..Len(it) : i - 1 \in 1..n /\ it[i] = tail[i - 1]
    <3> TAKE i \in 2..Len(it)
    <3>1. i - 1 \in 1..n /\ 1 + (i - 1) = i
      BY <1>2, <1>3
    <3> QED BY <1>3, <3>1
  <2>2. \A k \in 1..n : 1 + k \in 2..Len(it) /\ it[1 + k] = tail[k]
    BY <1>2, <1>3
  <2>3. {it[i] : i \in 2..Len(it)} = {tail[k] : k \in 1..n}
    BY <2>1, <2>2
  <2>4. ToSet(tail) = {tail[k] : k \in 1..n}
    BY <1>2 DEF ToSet
  <2>5. Marks(it) = {y.sym : y \in {it[i] : i \in 2..Len(it)}}
    BY DEF Marks
  <2> QED BY <2>3, <2>4, <2>5
<1> QED BY <1>1, <1>3, <1>4, <1>5, <1>6 DEF it, a

\* What is read of a column.
LEMMA ColumnRead ==
  ASSUME NEW item
  PROVE  LET it == ColumnLex(item)
         IN  /\ ~IsClause(it) /\ ItemName(it) = Told(item.col) /\ Listed(it) /\ it # << >>
             /\ ("PRIMARY KEY" \in Marks(it) <=> item.pk)
             /\ ("NOT NULL" \in Marks(it) <=> item.notNull)
             /\ Marks(it) \subseteq {"PRIMARY KEY", "NOT NULL"}
             /\ Nests(it, 0, 0, Symbol(","))
<1> DEFINE x == Lex(item.col)
           p == Symbol("PRIMARY KEY")
           q == Symbol("NOT NULL")
           a == Option(item.pk, p)
           b == Option(item.notNull, q)
           tail == a \o b
           it == <<x>> \o tail
           sep == Symbol(",")
<1>1. /\ p.sym = "PRIMARY KEY" /\ q.sym = "NOT NULL" /\ x.sym # "PRIMARY KEY"
      /\ \A y \in {x, p, q} : y \notin OpenParen /\ y \notin CloseParen /\ y # sep
  <2>1. "PRIMARY KEY" \in Symbols
    BY DEF Symbols
  <2>2. x.sym # "PRIMARY KEY" /\ x \notin OpenParen /\ x \notin CloseParen /\ x # sep
    BY <2>1, LexApart, ParensApart, MarksAre
  <2> HIDE DEF x
  <2>3. /\ p.sym = "PRIMARY KEY" /\ p \notin OpenParen /\ p \notin CloseParen /\ p # sep
        /\ q.sym = "NOT NULL" /\ q \notin OpenParen /\ q \notin CloseParen /\ q # sep
    BY DEF Symbol, OpenParen, CloseParen
  <2> HIDE DEF p, q, sep
  <2> QED BY <2>2, <2>3
<1>2. OneName(<<x>>) = Told(item.col)
  BY NameTold
<1>3. /\ Listed(a) /\ Listed(b)
      /\ ToSet(a) = (IF item.pk THEN {p} ELSE {}) /\ ToSet(b) = (IF item.notNull THEN {q} ELSE {})
  BY ListedOption
<1>4. Listed(<<x>>)
  BY ListedOne
<1>5. ColumnLex(item) = it
  <2>1. ColumnLex(item) = (<<x>> \o a) \o b
    BY DEF ColumnLex
  <2> DEFINE h == <<x>>
  <2> HIDE DEF a, b, h
  <2>2. Listed(h) /\ Listed(a) /\ Listed(b)
    BY <1>3, <1>4 DEF h
  <2>3. (h \o a) \o b = h \o (a \o b)
    BY <2>2, ConcatThree
  <2> QED BY <2>1, <2>3 DEF h
<1> HIDE DEF x, a, b, p, q, sep
<1>6. Listed(tail) /\ ToSet(tail) = ToSet(a) \cup ToSet(b)
  BY <1>3, ConcatMembers
<1> HIDE DEF tail
<1>7. /\ Listed(it) /\ it # << >> /\ it[1] = x /\ SubSeq(it, 1, 1) = <<x>>
      /\ Marks(it) = {y.sym : y \in ToSet(tail)} /\ ToSet(it) = {x} \cup ToSet(tail)
  BY <1>6, Headed
<1> HIDE DEF it
<1>8. ToSet(tail) = (IF item.pk THEN {p} ELSE {}) \cup (IF item.notNull THEN {q} ELSE {})
  BY <1>3, <1>6
<1>9. Marks(it) = (IF item.pk THEN {"PRIMARY KEY"} ELSE {}) \cup (IF item.notNull THEN {"NOT NULL"} ELSE {})
  BY <1>1, <1>7, <1>8
<1>10. ("PRIMARY KEY" \in Marks(it) <=> item.pk) /\ ("NOT NULL" \in Marks(it) <=> item.notNull)
  BY <1>9
<1>11. Marks(it) \subseteq {"PRIMARY KEY", "NOT NULL"}
  BY <1>9
<1>12. ~IsClause(it) /\ ItemName(it) = Told(item.col)
  BY <1>1, <1>2, <1>7 DEF IsClause, ItemName
<1>13. Nests(it, 0, 0, sep)
  <2>1. \A y \in ToSet(it) : y \in {x, p, q}
    BY <1>7, <1>8
  <2>2. \A y \in ToSet(it) : y \notin OpenParen /\ y \notin CloseParen /\ ~(y = sep /\ 0 = 0)
    BY <1>1, <2>1
  <2> QED BY <1>7, <2>2, NestsPlain
<1> QED BY <1>5, <1>7, <1>10, <1>11, <1>12, <1>13 DEF sep

\* What is read of the clause of the key.
LEMMA KeysRead ==
  ASSUME NEW names \in Seq(Seq(Chars))
  PROVE  LET it == KeysLex(names)
         IN  /\ IsClause(it) /\ Listed(it) /\ it # << >>
             /\ Names(Inside(it, 2, Len(it))) = ToldList(names)
             /\ Nests(it, 0, 0, Symbol(","))
<1> DEFINE p == Symbol("PRIMARY KEY")
           o == Symbol("(")
           c == Symbol(")")
           sep == Symbol(",")
           L == LexList(names, ",")
           a == <<p>>
           b == a \o <<o>>
           d == b \o L
           it == d \o <<c>>
<1>1. Listed(L) /\ Names(L) = ToldList(names)
  BY ColumnsLex
<1>2. /\ p.sym = "PRIMARY KEY" /\ p \notin OpenParen /\ p \notin CloseParen /\ p # sep
      /\ o \in OpenParen /\ o # sep /\ c \in CloseParen /\ c # sep
  BY DEF Symbol, OpenParen, CloseParen
<1>3. \A x \in ToSet(L) : x \notin OpenParen /\ x \notin CloseParen
  <2>1. \A x \in ToSet(L) : x # Symbol("(") /\ x # Symbol(")")
    <3>1. "(" # "," /\ ")" # ","
      OBVIOUS
    <3> QED BY <3>1, MarksAre, NamesApart
  <2> QED BY <2>1 DEF OpenParen, CloseParen
<1>4. KeysLex(names) = it
  BY DEF KeysLex
<1> HIDE DEF L, p, o, c, sep
<1>5. Listed(a) /\ Len(a) = 1 /\ Nests(a, 0, 0, sep)
  BY <1>2, TokenNests
<1>6. Listed(<<o>>) /\ Listed(<<c>>) /\ Len(<<o>>) = 1 /\ Len(<<c>>) = 1
  BY ListedOne
<1>7. Nests(<<o>>, 0, 1, sep) /\ Nests(<<c>>, 1, 0, sep)
  <2>1. \A n \in Nat : \A k : k = n + 1 => Nests(<<o>>, n, k, sep) /\ Nests(<<c>>, k, n, sep)
    BY <1>2, NestsOpen, NestsClose
  <2>2. 0 \in Nat /\ 1 = 0 + 1
    OBVIOUS
  <2> QED BY <2>1, <2>2, Zenon
<1>8. Nests(L, 1, 1, sep)
  <2> DEFINE one == 1
  <2>1. one # 0
    OBVIOUS
  <2> HIDE DEF one
  <2>2. \A x \in ToSet(L) : x \notin OpenParen /\ x \notin CloseParen /\ ~(x = sep /\ one = 0)
    BY <1>3, <2>1
  <2>3. Nests(L, one, one, sep)
    BY <1>1, <2>2, NestsPlain
  <2> QED BY <2>3 DEF one
<1> HIDE DEF a
<1>9. Listed(b) /\ Len(b) = 2 /\ Nests(b, 0, 1, sep)
  <2>1. Listed(b) /\ Len(b) = Len(a) + Len(<<o>>)
    BY <1>5, <1>6, ConcatMembers
  <2>2. Len(b) = 2
    BY <1>5, <1>6, <2>1
  <2>3. Nests(b, 0, 1, sep)
    BY <1>5, <1>6, <1>7, NestsOn
  <2> QED BY <2>1, <2>2, <2>3
<1>17. Begins(a, b)
  BY <1>5, <1>6 DEF Begins
<1> HIDE DEF b
<1>10. Listed(d) /\ Len(d) = 2 + Len(L) /\ Nests(d, 0, 1, sep) /\ Len(L) \in Nat
  <2>1. Listed(d) /\ Len(d) = Len(b) + Len(L)
    BY <1>1, <1>9, ConcatMembers
  <2>2. Nests(d, 0, 1, sep)
    BY <1>1, <1>8, <1>9, NestsOn
  <2>3. Len(L) \in Nat
    BY <1>1, AnySeq DEF Listed
  <2> QED BY <1>9, <2>1, <2>2, <2>3
<1>18. d = b \o L
  OBVIOUS
<1> HIDE DEF d
<1>11. Listed(it) /\ Len(it) = Len(L) + 3 /\ Nests(it, 0, 0, sep)
  <2>1. Listed(it) /\ Len(it) = Len(d) + Len(<<c>>)
    BY <1>6, <1>10, ConcatMembers
  <2>2. Nests(it, 0, 0, sep)
    BY <1>6, <1>7, <1>10, NestsOn
  <2> QED BY <1>6, <1>10, <2>1, <2>2
<1>12. Begins(b \o L, it)
  BY <1>6, <1>18 DEF Begins
<1> HIDE DEF it
<1>13. Inside(it, 2, Len(it)) = L
  <2> DEFINE m == 2
             n == Len(it)
  <2>1. m = Len(b) /\ n = Len(b) + Len(L) + 1
    BY <1>9, <1>10, <1>11
  <2> HIDE DEF m, n
  <2>3. Listed(b) /\ Listed(L) /\ Begins(b \o L, it)
    BY <1>1, <1>9, <1>12
  <2>2. Inside(it, m, n) = L
    BY <2>1, <2>3, InsideIs
  <2> QED BY <2>2 DEF m, n
<1>14. it # << >>
  BY <1>10, <1>11
<1>15. it[1] = p
  <2>1. Begins(b, it)
    BY <1>1, <1>9, <1>12, BeginsBack
  <2>2. 1 \in 1..Len(b) /\ 1 \in 1..Len(a)
    BY <1>5, <1>9
  <2>3. it[1] = b[1]
    BY <1>9, <2>1, <2>2, BeginsMembers
  <2>4. b[1] = a[1]
    BY <1>5, <1>17, <2>2, BeginsMembers
  <2>5. a[1] = p
    BY DEF a
  <2> QED BY <2>3, <2>4, <2>5
<1>16. IsClause(it)
  BY <1>2, <1>14, <1>15 DEF IsClause
<1> QED BY <1>1, <1>4, <1>11, <1>13, <1>14, <1>16 DEF sep

\* What a table of such items is taken for.
KeyNames(items, m) ==
    {Told(items[i].col) : i \in {i \in 1..m : items[i].pk}}
    \cup UNION {ToSet(ToldList(items[i].keys)) : i \in {i \in 1..Len(items) : ~(i <= m)}}

TableTold(table, items, m) ==
    [op |-> "table", table |-> table, keys |-> KeyNames(items, m),
     columns |-> [i \in 1..m |->
        [name |-> Told(items[i].col),
         required |-> items[i].notNull \/ Told(items[i].col) \in KeyNames(items, m),
         clean |-> TRUE]]]

LEMMA ItemsLexed ==
  ASSUME NEW items, NEW m, TableItems(items, m)
  PROVE  LET L == ItemsLex(items)
         IN  /\ L \in Seq(ToSet(L)) /\ Len(L) = Len(items)
             /\ \A i \in 1..m : i \in 1..Len(L) /\ L[i] = ColumnLex(items[i])
             /\ \A i \in 1..Len(L) : /\ Listed(L[i]) /\ L[i] # << >> /\ Nests(L[i], 0, 0, Symbol(","))
                                     /\ IsClause(L[i]) <=> ~(i <= m)
                                     /\ ~(i <= m) => /\ L[i] = KeysLex(items[i].keys)
                                                     /\ items[i].keys \in Seq(Seq(Chars))
<1> DEFINE L == ItemsLex(items)
           N == Len(items)
<1>1. N \in Nat /\ m \in Nat /\ m <= N
  BY DEF TableItems
<1>2. L = [i \in 1..N |-> ItemLex(items[i])] /\ Len(L) = N /\ DOMAIN L = 1..N
  BY <1>1 DEF ItemsLex
<1> HIDE DEF L
<1>3. L \in Seq(ToSet(L))
  BY <1>1, <1>2 DEF ToSet
<1>4. ASSUME NEW i \in 1..N, i <= m
      PROVE  /\ L[i] = ColumnLex(items[i]) /\ Listed(L[i]) /\ L[i] # << >>
             /\ Nests(L[i], 0, 0, Symbol(",")) /\ ~IsClause(L[i])
  <2>1. ColumnItem(items[i])
    BY <1>1, <1>4 DEF TableItems
  <2>2. L[i] = ColumnLex(items[i])
    BY <1>2, <2>1 DEF ColumnItem, ItemLex
  <2> QED BY <2>2, ColumnRead
<1>5. ASSUME NEW i \in 1..N, ~(i <= m)
      PROVE  /\ L[i] = KeysLex(items[i].keys) /\ Listed(L[i]) /\ L[i] # << >>
             /\ Nests(L[i], 0, 0, Symbol(",")) /\ IsClause(L[i]) /\ items[i].keys \in Seq(Seq(Chars))
  <2>1. KeysItem(items[i])
    BY <1>1, <1>5 DEF TableItems
  <2>2. L[i] = KeysLex(items[i].keys)
    BY <1>2, <2>1 DEF KeysItem, ItemLex
  <2> QED BY <2>1, <2>2, KeysRead DEF KeysItem
<1>6. \A i \in 1..m : i \in 1..N /\ i <= m
  BY <1>1
<1> QED BY <1>2, <1>3, <1>4, <1>5, <1>6 DEF L

LEMMA ItemsRead ==
  ASSUME NEW items, NEW m, TableItems(items, m), NEW table
  PROVE  ReadItems(table, ItemsLex(items)) = TableTold(table, items, m)
<1> DEFINE L == ItemsLex(items)
           N == Len(items)
           plain == {i \in 1..Len(L) : ~IsClause(L[i])}
           columns == Where(L, plain)
           ofColumns == {ItemName(it) : it \in {it \in ToSet(columns) : "PRIMARY KEY" \in Marks(it)}}
           ofClauses == UNION {ToSet(Names(Inside(it, 2, Len(it)))) : it \in {it \in ToSet(L) : IsClause(it)}}
           keys == ofColumns \cup ofClauses
<1>1. /\ N \in Nat /\ m \in Nat /\ m <= N
      /\ L \in Seq(ToSet(L)) /\ Len(L) = N
      /\ \A i \in 1..m : i \in 1..N /\ L[i] = ColumnLex(items[i])
      /\ \A i \in 1..N : /\ IsClause(L[i]) <=> ~(i <= m)
                         /\ ~(i <= m) => L[i] = KeysLex(items[i].keys) /\ items[i].keys \in Seq(Seq(Chars))
  BY ItemsLexed DEF TableItems
<1>13. ReadItems(table, L)
        = [op |-> "table", table |-> table, keys |-> keys,
           columns |-> [i \in 1..Len(columns) |->
              [name |-> ItemName(columns[i]),
               required |-> "NOT NULL" \in Marks(columns[i]) \/ ItemName(columns[i]) \in keys,
               clean |-> Marks(columns[i]) \subseteq {"PRIMARY KEY", "NOT NULL"}]]]
  BY DEF ReadItems
<1> HIDE DEF L, N
<1>2. plain = 1..m
  BY <1>1
<1>3. /\ Len(columns) = m /\ DOMAIN columns = 1..m
      /\ \A i \in 1..m : columns[i] = ColumnLex(items[i])
  <2> DEFINE R == ToSet(L)
  <2>1. L \in Seq(R) /\ m \in 0..Len(L)
    BY <1>1
  <2> HIDE DEF R
  <2>2. columns = SubSeq(L, 1, m)
    BY <1>2, <2>1, WhereFront
  <2> HIDE DEF columns
  <2>3. Len(columns) = m /\ DOMAIN columns = 1..m /\ \A i \in 1..m : columns[i] = L[i]
    BY <1>1, <2>1, <2>2
  <2> QED BY <1>1, <2>3
<1> HIDE DEF columns
<1>4. \A i \in 1..m : LET it == columns[i]
                      IN  /\ ItemName(it) = Told(items[i].col)
                          /\ ("PRIMARY KEY" \in Marks(it) <=> items[i].pk)
                          /\ ("NOT NULL" \in Marks(it) <=> items[i].notNull)
                          /\ Marks(it) \subseteq {"PRIMARY KEY", "NOT NULL"}
  BY <1>3, ColumnRead
<1>5. ToSet(columns) = {columns[i] : i \in 1..m}
  BY <1>3 DEF ToSet
<1>6. ofColumns = {Told(items[i].col) : i \in {i \in 1..m : items[i].pk}}
  <2>1. ASSUME NEW x \in ofColumns PROVE \E i \in 1..m : items[i].pk /\ x = Told(items[i].col)
    <3>1. PICK it \in ToSet(columns) : "PRIMARY KEY" \in Marks(it) /\ x = ItemName(it)
      OBVIOUS
    <3>2. PICK i \in 1..m : it = columns[i]
      BY <1>5
    <3> QED BY <1>4, <3>1, <3>2
  <2>2. ASSUME NEW i \in 1..m, items[i].pk PROVE Told(items[i].col) \in ofColumns
    <3>1. columns[i] \in ToSet(columns) /\ "PRIMARY KEY" \in Marks(columns[i])
      BY <1>4, <1>5, <2>2
    <3>2. ItemName(columns[i]) = Told(items[i].col)
      BY <1>4
    <3> QED BY <3>1, <3>2
  <2> HIDE DEF ofColumns
  <2> QED BY <2>1, <2>2
<1>7. ofClauses = UNION {ToSet(ToldList(items[i].keys)) : i \in {i \in 1..N : ~(i <= m)}}
  <2>0. ToSet(L) = {L[i] : i \in 1..N}
    BY <1>1 DEF ToSet
  <2>1. \A i \in 1..N : ~(i <= m) => /\ IsClause(L[i])
                                     /\ Names(Inside(L[i], 2, Len(L[i]))) = ToldList(items[i].keys)
    BY <1>1, KeysRead
  <2>2. {ToSet(Names(Inside(it, 2, Len(it)))) : it \in {it \in ToSet(L) : IsClause(it)}}
          = {ToSet(ToldList(items[i].keys)) : i \in {i \in 1..N : ~(i <= m)}}
    <3> DEFINE A == {ToSet(Names(Inside(it, 2, Len(it)))) : it \in {it \in ToSet(L) : IsClause(it)}}
               B == {ToSet(ToldList(items[i].keys)) : i \in {i \in 1..N : ~(i <= m)}}
    <3>1. ASSUME NEW x \in A PROVE x \in B
      <4>1. PICK it \in ToSet(L) : IsClause(it) /\ x = ToSet(Names(Inside(it, 2, Len(it))))
        OBVIOUS
      <4>2. PICK i \in 1..N : it = L[i]
        BY <2>0
      <4>3. ~(i <= m)
        BY <1>1, <4>1, <4>2
      <4> QED BY <2>1, <4>1, <4>2, <4>3
    <3>2. ASSUME NEW i \in 1..N, ~(i <= m) PROVE ToSet(ToldList(items[i].keys)) \in A
      <4>1. L[i] \in ToSet(L) /\ IsClause(L[i])
        BY <2>0, <2>1, <3>2
      <4>2. ToSet(Names(Inside(L[i], 2, Len(L[i])))) = ToSet(ToldList(items[i].keys))
        BY <2>1, <3>2
      <4> QED BY <4>1, <4>2
    <3> HIDE DEF A
    <3>3. A = B
      BY <3>1, <3>2
    <3> QED BY <3>3 DEF A
  <2> QED BY <2>2
<1> HIDE DEF ofColumns, ofClauses
<1>8. keys = KeyNames(items, m)
  BY <1>6, <1>7 DEF KeyNames, N
<1> HIDE DEF keys
<1> DEFINE f(i) == [name |-> ItemName(columns[i]),
                    required |-> "NOT NULL" \in Marks(columns[i]) \/ ItemName(columns[i]) \in keys,
                    clean |-> Marks(columns[i]) \subseteq {"PRIMARY KEY", "NOT NULL"}]
           g(i) == [name |-> Told(items[i].col),
                    required |-> items[i].notNull \/ Told(items[i].col) \in KeyNames(items, m),
                    clean |-> TRUE]
<1>9. ASSUME NEW i \in 1..m PROVE f(i) = g(i)
  <2>1. ItemName(columns[i]) = Told(items[i].col)
    BY <1>4
  <2>2. ("NOT NULL" \in Marks(columns[i]) \/ ItemName(columns[i]) \in keys)
          = (items[i].notNull \/ Told(items[i].col) \in KeyNames(items, m))
    BY <1>4, <1>8, <2>1
  <2>3. (Marks(columns[i]) \subseteq {"PRIMARY KEY", "NOT NULL"}) = TRUE
    BY <1>4
  <2> QED BY <2>1, <2>2, <2>3
<1>10. [i \in 1..Len(columns) |-> f(i)] = [i \in 1..m |-> g(i)]
  <2> HIDE DEF f, g
  <2> QED BY <1>3, <1>9
<1>11. ReadItems(table, L)
        = [op |-> "table", table |-> table, keys |-> keys, columns |-> [i \in 1..Len(columns) |-> f(i)]]
  BY <1>13
<1>12. TableTold(table, items, m)
        = [op |-> "table", table |-> table, keys |-> KeyNames(items, m), columns |-> [i \in 1..m |-> g(i)]]
  BY DEF TableTold
<1> HIDE DEF f, g
<1> QED BY <1>8, <1>10, <1>11, <1>12 DEF L

\* What the reader takes a table for.
LEMMA TableRead ==
  ASSUME NEW name \in Seq(Chars), NEW items, NEW m, TableItems(items, m)
  PROVE  ReadStatement(TableLex(name, items)) = TableTold(ToldTable(name), items, m)
<1> DEFINE L == ItemsLex(items)
           sep == Symbol(",")
           body == Separated(L, sep)
           c == "CREATE TABLE"
           st == Enclosed(c, name, body)
<1>1. /\ L \in Seq(ToSet(L))
      /\ \A i \in 1..Len(L) : Listed(L[i]) /\ L[i] # << >> /\ Nests(L[i], 0, 0, sep)
  BY ItemsLexed
<1>2. c # "(" /\ Symbol(c).sym = "CREATE TABLE"
  BY DEF Symbol
<1>3. TableLex(name, items) = st
  BY DEF TableLex
<1> HIDE DEF L, sep, c
<1>4. PICK R : L \in Seq(Seq(R)) /\ sep \in R
  <2>1. L = [i \in 1..Len(L) |-> L[i]] /\ Len(L) \in Nat
    BY <1>1
  <2>2. PICK Q : L \in Seq(Seq(Q))
    BY <1>1, <2>1, ListsTogether
  <2>3. \A i \in 1..Len(L) : L[i] \in Seq(Q \cup {sep})
    BY <2>2, WiderSeq
  <2>4. L \in Seq(Seq(Q \cup {sep}))
    BY <2>1, <2>2, <2>3
  <2> QED BY <2>4
<1>5. L # << >> => body \in Seq(R) /\ Split(body, sep, OpenParen, CloseParen) = L
  BY <1>1, <1>4, SplitSeparated DEF Nests, Fits
<1>6. L = << >> => body = << >>
  <2> DEFINE rows == [i \in 1..Len(L) |-> IF i < Len(L) THEN Append(L[i], sep) ELSE L[i]]
  <2>1. L = << >> => rows \in Seq(Seq({})) /\ Len(rows) = 0
    OBVIOUS
  <2>2. body = FlattenSeq(rows)
    BY DEF Separated
  <2> HIDE DEF rows, body
  <2> QED BY <2>1, <2>2, FlatOfNothing
<1>7. L # << >> => body # << >>
  <2> SUFFICES ASSUME L # << >>, body = << >> PROVE FALSE
    OBVIOUS
  <2>1. Split(<< >>, sep, OpenParen, CloseParen) = L
    BY <1>5
  <2>2. L = <<<< >>>>
    BY <2>1, NothingSplits
  <2>3. Len(L) = 1 /\ L[1] = << >>
    BY <2>2
  <2> QED BY <1>1, <2>3
<1>8. (IF body = << >> THEN << >> ELSE Parts(body, ",")) = L
  BY <1>5, <1>6, <1>7 DEF Parts, OpenParen, CloseParen, sep
<1>9. Listed(body)
  BY <1>5, <1>6, AnySeq, ListedOne
<1> HIDE DEF body
<1>10. /\ st[1] = Symbol(c)
       /\ QualifiedName(Inside(st, 1, At(st, "("))) = ToldTable(name)
       /\ Inside(st, At(st, "("), Len(st)) = body
  BY <1>2, <1>9, EnclosedRead
<1> HIDE DEF st
<1>11. ReadStatement(st) = ReadTable(st)
  BY <1>2, <1>10 DEF ReadStatement
<1>12. ReadTable(st) = ReadItems(ToldTable(name), L)
  BY <1>8, <1>10, Zenon DEF ReadTable
<1>13. ReadItems(ToldTable(name), L) = TableTold(ToldTable(name), items, m)
  BY ItemsRead DEF L
<1> QED BY <1>3, <1>11, <1>12, <1>13

-----------------------------------------------------------------------------
\* Reading back, 13: what was read against what the document says.  A name that is
\* misread is no sequence of the document's characters, so what is told of a file with
\* one is not what the document says, whatever else is told.

\* A fact of a document: its names are made of the characters of the document.
Proper(r) ==
    /\ r.table \in Seq(Chars)
    /\ r.op = "table" => \A i \in DOMAIN r.columns : r.columns[i].name \in Seq(Chars)
    /\ r.op = "index" => r.name \in Seq(Chars)
    /\ r.op \in {"unique", "index", "fk"} => r.cols \in Seq(Seq(Chars))
    /\ r.op = "fk" => r.target \in Seq(Chars) /\ r.targetCols \in Seq(Seq(Chars))

Free(names) == names \cap Unlisted = {}

LEMMA FirstMember ==
  ASSUME NEW S, NEW x \in Seq(S), Len(x) = 1
  PROVE  x[1] \in S
OBVIOUS

LEMMA MisreadApart == Misread \notin Seq(Chars) /\ <<Misread>> \notin Seq(Seq(Chars))
<1> DEFINE m == "misread"
<1>1. m \notin Chars
  BY ReaderAssumption
<1>2. Misread = <<m>>
  BY DEF Misread
<1> HIDE DEF m
<1>3. Len(Misread) = 1 /\ Misread[1] = m
  BY <1>2
<1>4. Misread \notin Seq(Chars)
  BY <1>1, <1>3, FirstMember
<1> HIDE DEF Misread
<1>5. Len(<<Misread>>) = 1 /\ <<Misread>>[1] = Misread
  OBVIOUS
<1> DEFINE one == <<Misread>>
<1>6. Len(one) = 1 /\ one[1] = Misread
  BY <1>5
<1> HIDE DEF one
<1>7. one \notin Seq(Seq(Chars))
  BY <1>4, <1>6, FirstMember
<1> QED BY <1>4, <1>7 DEF one

LEMMA ToldName ==
  ASSUME NEW name \in Seq(Chars)
  PROVE  IF name \in Unlisted THEN Told(name) \notin Seq(Chars) ELSE Told(name) = name
BY MisreadApart DEF Told

LEMMA ToldNames ==
  ASSUME NEW names \in Seq(Seq(Chars))
  PROVE  /\ Free(ToSet(names)) => EachTold(names) = names
         /\ ~Free(ToSet(names)) => EachTold(names) \notin Seq(Seq(Chars))
         /\ names # << >> => EachTold(names) # << >>
<1> DEFINE N == Len(names)
           t == EachTold(names)
<1>1. N \in Nat /\ names = [i \in 1..N |-> names[i]] /\ ToSet(names) = {names[i] : i \in 1..N}
  <2>1. N \in Nat /\ DOMAIN names = 1..N /\ names = [i \in 1..N |-> names[i]]
    OBVIOUS
  <2> QED BY <2>1 DEF ToSet
<1>2. t = [i \in 1..N |-> Told(names[i])]
  BY DEF EachTold
<1>3. \A i \in 1..N : names[i] \in Seq(Chars)
  OBVIOUS
<1> HIDE DEF N, t
<1>4. Free(ToSet(names)) => t = names
  <2> SUFFICES ASSUME Free(ToSet(names)) PROVE t = names
    OBVIOUS
  <2>1. \A i \in 1..N : names[i] \notin Unlisted
    BY <1>1 DEF Free
  <2>2. \A i \in 1..N : Told(names[i]) = names[i]
    BY <1>3, <2>1, ToldName
  <2> QED BY <1>1, <1>2, <2>2
<1>5. ~Free(ToSet(names)) => t \notin Seq(Seq(Chars))
  <2> SUFFICES ASSUME ~Free(ToSet(names)), t \in Seq(Seq(Chars)) PROVE FALSE
    OBVIOUS
  <2>1. PICK i \in 1..N : names[i] \in Unlisted
    BY <1>1 DEF Free
  <2>2. t[i] \notin Seq(Chars)
    BY <1>2, <1>3, <2>1, ToldName
  <2>3. i \in 1..Len(t)
    BY <1>1, <1>2
  <2> QED BY <2>2, <2>3
<1>6. Len(t) = N
  BY <1>1, <1>2
<1>7. names # << >> => t # << >>
  BY <1>1, <1>6 DEF N
<1> QED BY <1>4, <1>5, <1>7 DEF t

LEMMA ToldColumns ==
  ASSUME NEW names \in Seq(Seq(Chars))
  PROVE  IF names # << >> /\ Free(ToSet(names)) THEN ToldList(names) = names ELSE ToldList(names) \notin Seq(Seq(Chars))
<1> QED BY MisreadApart, ToldNames DEF ToldList

\* A name that is written in parts is read as it was, if no part is a word that SQL
\* reserves.
LEMMA ToldTables ==
  ASSUME NEW name \in Seq(Chars)
  PROVE  IF Free(ToSet(NameParts(name))) THEN ToldTable(name) = name ELSE ToldTable(name) \notin Seq(Chars)
<1> DEFINE parts == NameParts(name)
           t == EachTold(parts)
<1>1. parts \in Seq(Seq(Chars)) /\ parts # << >> /\ Separated(parts, ".") = name
  BY NamePartsAre
<1>2. ToldTable(name) = Separated(t, ".")
  BY DEF ToldTable
<1> HIDE DEF parts
<1>3. CASE Free(ToSet(parts))
  <2>1. t = parts
    BY <1>1, <1>3, ToldNames
  <2> QED BY <1>1, <1>2, <1>3, <2>1 DEF parts
<1>4. CASE ~Free(ToSet(parts))
  <2> DEFINE N == Len(parts)
             M == Chars \cup {"misread", "."}
             rows == [i \in 1..Len(t) |-> IF i < Len(t) THEN Append(t[i], ".") ELSE t[i]]
  <2>1. N \in Nat /\ t = [i \in 1..N |-> Told(parts[i])] /\ Len(t) = N
    BY <1>1 DEF EachTold
  <2>2. PICK i \in 1..N : parts[i] \in Unlisted
    BY <1>1, <1>4 DEF Free, ToSet
  <2>3. \A k \in 1..N : Told(parts[k]) = Misread \/ Told(parts[k]) = parts[k]
    BY DEF Told
  <2>4. ASSUME NEW k \in 1..N PROVE Told(parts[k]) \in Seq(M)
    <3>1. parts[k] \in Seq(Chars) /\ Chars \subseteq M
      BY <1>1
    <3>2. parts[k] \in Seq(M)
      BY <3>1, WiderSeq
    <3>3. "misread" \in M
      OBVIOUS
    <3> HIDE DEF M
    <3>4. Misread \in Seq(M)
      BY <3>3, OneIsSeq DEF Misread
    <3> QED BY <2>3, <3>2, <3>4
  <2>5. "." \in M
    OBVIOUS
  <2> HIDE DEF M, t
  <2>6. \A k \in 1..N : t[k] \in Seq(M) /\ Append(t[k], ".") \in Seq(M)
    <3> TAKE k \in 1..N
    <3>1. t[k] \in Seq(M)
      BY <2>1, <2>4
    <3> DEFINE d == "."
    <3>2. d \in M
      BY <2>5
    <3> HIDE DEF d
    <3>3. Append(t[k], d) \in Seq(M)
      BY <3>1, <3>2
    <3> QED BY <3>1, <3>3 DEF d
  <2>7. t[i] = Misread
    BY <2>1, <2>2 DEF Told
  <2>8. rows = [k \in 1..N |-> IF k < N THEN Append(t[k], ".") ELSE t[k]]
    BY <2>1
  <2>9. rows \in Seq(Seq(M)) /\ DOMAIN rows = 1..N
    BY <2>1, <2>6, <2>8
  <2>10. "misread" \in ToSet(rows[i])
    <3> DEFINE d == "."
    <3>1. Listed(Misread) /\ "misread" \in ToSet(Misread)
      BY ListedOne DEF Misread
    <3>2. Append(Misread, d) = Misread \o <<d>> /\ ToSet(Misread \o <<d>>) = ToSet(Misread) \cup ToSet(<<d>>)
      <4> HIDE DEF d
      <4> QED BY <3>1, ListedOne, ListedAppend, ConcatMembers
    <3>3. rows[i] = Append(Misread, d) \/ rows[i] = Misread
      BY <2>7, <2>8
    <3> HIDE DEF d
    <3> QED BY <3>1, <3>2, <3>3
  <2> HIDE DEF rows
  <2>11. "misread" \in ToSet(FlattenSeq(rows))
    BY <2>9, <2>10, FlatMembers
  <2>12. Separated(t, ".") = FlattenSeq(rows)
    BY DEF Separated, rows
  <2>13. FlattenSeq(rows) \notin Seq(Chars)
    <3> SUFFICES ASSUME FlattenSeq(rows) \in Seq(Chars) PROVE FALSE
      OBVIOUS
    <3>1. \A x \in ToSet(FlattenSeq(rows)) : x \in Chars
      BY DEF ToSet
    <3> QED BY <2>11, <3>1, ReaderAssumption
  <2> QED BY <1>2, <1>4, <2>12, <2>13 DEF parts, t
<1> QED BY <1>3, <1>4

-----------------------------------------------------------------------------
\* What texts tell, against the facts they stand for.
Tells(T, F, sound) ==
    /\ sound => T = F
    /\ ~sound => \E r \in T : ~Proper(r)
    /\ \A r \in F : Proper(r)

LEMMA TellsSame ==
  ASSUME NEW T, NEW F, NEW sound, Tells(T, F, sound)
  PROVE  sound <=> T = F
BY DEF Tells

LEMMA TellsOne ==
  ASSUME NEW r, NEW fact, NEW sound, sound => r = fact, ~sound => ~Proper(r), Proper(fact)
  PROVE  Tells({r}, {fact}, sound)
BY DEF Tells

LEMMA TellsNothing == Tells({}, {}, TRUE)
BY DEF Tells

LEMMA TellsBoth ==
  ASSUME NEW A, NEW F, NEW a, NEW B, NEW G, NEW b, Tells(A, F, a), Tells(B, G, b)
  PROVE  Tells(A \cup B, F \cup G, a /\ b)
BY DEF Tells

-----------------------------------------------------------------------------
\* Reading back, 14: remarks tell nothing.

LEMMA RemarkReads ==
  ASSUME NEW x, Listed(x), "\n" \notin ToSet(x)
  PROVE  ReadText((<<"--">> \o x) \o <<"\n">>) = {}
<1> DEFINE h == <<"--">>
           e == <<"\n">>
           text == (h \o x) \o e
<1>1. Lexes(text, << >>, FALSE, TRUE)
  BY RemarkLexes
<1>2. Listed(h) /\ Listed(e)
  BY ListedOne
<1> HIDE DEF h, e
<1>3. Listed(h \o x)
  BY <1>2, ListedConcat
<1>4. Listed(text)
  BY <1>2, <1>3, ListedConcat
<1> HIDE DEF text
<1>5. Lexes(text, << >>, TRUE, TRUE)
  BY <1>1, LexesReady
<1>6. ReadText(text) = {}
  BY <1>4, <1>5, NothingReads
<1> QED BY <1>6 DEF text, h, e

LEMMA NoteReads == \A s : s.op = "note" => ReadText(StatementText(s)) = {}
<1> SUFFICES ASSUME NEW s, s.op = "note" PROVE ReadText(StatementText(s)) = {}
  OBVIOUS
<1> DEFINE c == "--"
           d == "\n"
           h == <<c>>
           x == << >>
<1>1. StatementText(s) = <<c, d>>
  BY DEF StatementText
<1>2. Listed(x) /\ Listed(h) /\ h \o x = h
  BY ListedOne, ConcatNothing
<1>3. d \notin ToSet(x)
  BY DEF ToSet
<1>4. ReadText((h \o x) \o <<d>>) = {}
  BY <1>2, <1>3, RemarkReads
<1> HIDE DEF c, d, x
<1>5. h \o <<d>> = <<c, d>>
  <2> DEFINE S == {c, d}
  <2>1. c \in S /\ d \in S
    OBVIOUS
  <2> HIDE DEF S
  <2> QED BY <2>1, Pair
<1> QED BY <1>1, <1>2, <1>4, <1>5

\* A view is a comment, if its names have no line break.
LEMMA ViewReads ==
  ASSUME NEW s, s.op = "view", s.table \in Seq(Chars \ {"\n"}), s.cols \in Seq(Seq(Chars \ {"\n"}))
  PROVE  ReadText(StatementText(s)) = {}
<1> DEFINE d == "\n"
           R == (Chars \ {d}) \cup {QuoteMark, "(", ")", ".", ","}
           h == <<"--">>
           Q == QualifiedIdent(s.table)
           o == <<"(">>
           L == IdentList(s.cols)
           c == <<")">>
           y1 == Q \o o
           y2 == y1 \o L
           y == y2 \o c
<1>1. /\ QuoteMark \in R /\ "." \in R /\ "," \in R /\ d \notin R
      /\ o \in Seq(R) /\ c \in Seq(R)
  <2>1. QuoteMark \in R /\ "." \in R /\ "," \in R /\ "(" \in R /\ ")" \in R
    OBVIOUS
  <2>2. d \notin R
    BY DEF QuoteMark
  <2> HIDE DEF R
  <2> QED BY <2>1, <2>2, OneIsSeq
<1>2. s.table \in Seq(R) /\ s.cols \in Seq(Seq(R))
  <2>1. Chars \ {d} \subseteq R
    OBVIOUS
  <2> DEFINE P == Chars \ {d}
  <2>2. s.table \in Seq(P) /\ s.cols \in Seq(Seq(P)) /\ P \subseteq R
    BY <2>1
  <2> HIDE DEF P, R
  <2>3. Seq(P) \subseteq Seq(R)
    BY <2>2, WiderSeq
  <2> QED BY <2>2, <2>3, WiderSeq
<1>10. StatementText(s) = (((h \o Q) \o o) \o L) \o <<")", d>>
  BY DEF StatementText
<1> HIDE DEF R
<1>3. Q \in Seq(R) /\ L \in Seq(R)
  <2>1. NameParts(s.table) \in Seq(Seq(R))
    BY <1>2, NamePartsAre
  <2> DEFINE parts == NameParts(s.table)
             cols == s.cols
             dot == "."
             comma == ","
  <2>2. dot \in R /\ comma \in R /\ parts \in Seq(Seq(R)) /\ cols \in Seq(Seq(R))
    BY <1>1, <1>2, <2>1
  <2> HIDE DEF parts, cols, dot, comma
  <2>3. Separated(Idents(parts), dot) \in Seq(R) /\ Separated(Idents(cols), comma) \in Seq(R)
    BY <1>1, <2>2, IdentsMembers
  <2> QED BY <2>3 DEF QualifiedIdent, IdentList, parts, cols, dot, comma
<1>4. y \in Seq(R)
  <2>1. \A a, b \in Seq(R) : a \o b \in Seq(R)
    OBVIOUS
  <2> HIDE DEF Q, o, L, c
  <2>2. y1 \in Seq(R)
    BY <1>1, <1>3, <2>1
  <2> HIDE DEF y1
  <2>3. y2 \in Seq(R)
    BY <1>3, <2>1, <2>2
  <2> HIDE DEF y2
  <2> QED BY <1>1, <2>1, <2>3
<1>5. Listed(Q) /\ Listed(o) /\ Listed(L) /\ Listed(c) /\ Listed(h)
  BY <1>1, <1>3, AnySeq, ListedOne
<1>6. Listed(y) /\ d \notin ToSet(y)
  <2> HIDE DEF y
  <2>1. Listed(y)
    BY <1>4, AnySeq
  <2>2. ToSet(y) \subseteq R
    BY <1>4 DEF ToSet
  <2> QED BY <1>1, <2>1, <2>2
<1>7. ReadText((h \o y) \o <<d>>) = {}
  <2> HIDE DEF y
  <2> QED BY <1>6, RemarkReads
<1>14. c = <<")">>
  OBVIOUS
<1> HIDE DEF h, Q, o, L, c
<1>8. Listed(y1) /\ Listed(y2)
  BY <1>5, ListedConcat
<1>16. Listed(y1) BY <1>8
<1>17. Listed(y2) BY <1>8
<1>18. Listed(h) BY <1>5
<1>19. Listed(L) BY <1>5
<1>20. Listed(c) BY <1>5
<1>9. (((h \o Q) \o o) \o L) \o c = h \o y
  <2>1. (h \o Q) \o o = h \o y1
    BY <1>5, ConcatThree
  <2> HIDE DEF y1
  <2>2. (h \o y1) \o L = h \o y2
    BY <1>16, <1>18, <1>19, ConcatThree
  <2> HIDE DEF y2
  <2>3. (h \o y2) \o c = h \o y
    BY <1>17, <1>18, <1>20, ConcatThree
  <2> QED BY <2>1, <2>2, <2>3
<1> DEFINE front == ((h \o Q) \o o) \o L
<1>11. Listed(front)
  <2>1. Listed(h \o Q)
    BY <1>5, ListedConcat
  <2>2. Listed((h \o Q) \o o)
    BY <1>5, <2>1, ListedConcat
  <2> QED BY <1>5, <2>2, ListedConcat
<1>12. front \o c = h \o y
  BY <1>9
<1>13. StatementText(s) = front \o <<")", d>>
  BY <1>10
<1> HIDE DEF front, y, d
<1>15. front \o <<")", d>> = (front \o c) \o <<d>>
  <2> DEFINE p == ")"
  <2> HIDE DEF p
  <2>1. front \o <<p, d>> = (front \o <<p>>) \o <<d>>
    BY <1>11, TwoBehind
  <2> QED BY <1>14, <2>1 DEF p
<1> QED BY <1>7, <1>12, <1>13, <1>15

-----------------------------------------------------------------------------
\* Reading back, 15: the statements of an entity and of a foreign key.

\* A table whose comments have no line break.
PlainTable(ent) ==
    /\ LoadedEntity(ent) /\ ent.kind # "view" /\ "\n" \notin ToSet(ent.comment)
    /\ \A f \in ToSet(ent.fields) : "\n" \notin ToSet(f.comment)

Composite(ent) == Len(PKs(ent)) > 1
Single(ent, i) == ent.fields[i].pk /\ ~Composite(ent)
KeyFields(ent) == [i \in 1..Len(PKs(ent)) |-> PKs(ent)[i].name]

LEMMA KeysOfEntity ==
  ASSUME NEW ent, LoadedEntity(ent)
  PROVE  /\ KeyFields(ent) \in Seq(Seq(Chars))
         /\ ToSet(KeyFields(ent)) = {ent.fields[i].name : i \in {i \in 1..Len(ent.fields) : ent.fields[i].pk}}
         /\ Len(KeyFields(ent)) = Len(PKs(ent)) /\ Len(PKs(ent)) \in Nat
<1> DEFINE F == ent.fields
           R == ToSet(F)
           I == {i \in 1..Len(F) : F[i].pk}
           P == PKs(ent)
           K == KeyFields(ent)
<1>1. F \in Seq(R) /\ DOMAIN F = 1..Len(F) /\ \A f \in R : f.name \in Seq(Chars)
  BY AnySeq DEF LoadedEntity, Listed
<1>2. P \in Seq(R) /\ ToSet(P) = {F[i] : i \in I}
  <2>1. P = Where(F, I)
    BY DEF PKs
  <2>2. I \in SUBSET DOMAIN F
    BY <1>1
  <2> HIDE DEF F, R, I, P
  <2> QED BY <1>1, <2>1, <2>2, WhereMembers
<1> HIDE DEF I
<1>3. Len(P) \in Nat /\ DOMAIN P = 1..Len(P) /\ \A i \in 1..Len(P) : P[i] \in R
  <2> HIDE DEF P, R
  <2> QED BY <1>2
<1>4. K = [i \in 1..Len(P) |-> P[i].name]
  BY DEF KeyFields
<1> HIDE DEF P, K, R
<1>5. K \in Seq(Seq(Chars)) /\ Len(K) = Len(P) /\ DOMAIN K = 1..Len(P)
  BY <1>1, <1>3, <1>4
<1>6. ToSet(K) = {f.name : f \in ToSet(P)}
  <2>1. ToSet(K) = {P[i].name : i \in 1..Len(P)}
    BY <1>4, <1>5 DEF ToSet
  <2>2. ToSet(P) = {P[i] : i \in 1..Len(P)}
    BY <1>3 DEF ToSet
  <2> QED BY <2>1, <2>2
<1>7. {f.name : f \in {F[i] : i \in I}} = {F[i].name : i \in I}
  OBVIOUS
<1> HIDE DEF F
<1> QED BY <1>2, <1>3, <1>5, <1>6, <1>7 DEF F, I, P, K

LEMMA ItemsOfEntity ==
  ASSUME NEW ent, PlainTable(ent)
  PROVE  LET its == Items(ent)
             n == Len(ent.fields)
         IN  /\ TableItems(its, n)
             /\ \A i \in 1..n : /\ its[i].col = ent.fields[i].name
                                /\ its[i].pk <=> Single(ent, i)
                                /\ its[i].notNull <=> ent.fields[i].notNull /\ ~Single(ent, i)
             /\ Len(its) = IF Composite(ent) THEN n + 1 ELSE n
             /\ Composite(ent) => its[n + 1].keys = KeyFields(ent)
<1> DEFINE F == ent.fields
           n == Len(F)
           its == Items(ent)
           comp == Composite(ent)
           column(i) == [op |-> "column", col |-> F[i].name, pk |-> Single(ent, i),
                         notNull |-> F[i].notNull /\ ~Single(ent, i),
                         comma |-> i < n \/ comp, comment |-> F[i].comment]
           clause == [op |-> "keys", keys |-> KeyFields(ent)]
           a == [i \in 1..n |-> column(i)]
           b == IF comp THEN <<clause>> ELSE << >>
<1>1. its = a \o b
  BY Zenon DEF Items, Composite, Single, KeyFields
<1>2. /\ n \in Nat /\ \A i \in 1..n : F[i] \in ToSet(F)
      /\ \A f \in ToSet(F) : f.name \in Seq(Chars) /\ Listed(f.comment) /\ "\n" \notin ToSet(f.comment)
  <2>1. n \in Nat /\ DOMAIN F = 1..n
    BY AnySeq DEF PlainTable, LoadedEntity, Listed
  <2>2. \A f \in ToSet(F) : f.name \in Seq(Chars) /\ Listed(f.comment) /\ "\n" \notin ToSet(f.comment)
    BY DEF PlainTable, LoadedEntity
  <2> HIDE DEF F, n
  <2> QED BY <2>1, <2>2 DEF ToSet
<1>3. \A i \in 1..n : /\ column(i).op = "column" /\ column(i).col = F[i].name /\ column(i).comment = F[i].comment
                      /\ column(i).pk <=> Single(ent, i)
                      /\ column(i).notNull <=> F[i].notNull /\ ~Single(ent, i)
                      /\ column(i).comma <=> i < n \/ comp
  OBVIOUS
<1>4. clause.op = "keys" /\ clause.keys = KeyFields(ent) /\ clause.keys \in Seq(Seq(Chars))
  BY KeysOfEntity DEF PlainTable
<1> HIDE DEF F, its, comp, column, clause
<1>5. a \in Seq({column(i) : i \in 1..n}) /\ Len(a) = n /\ \A i \in 1..n : a[i] = column(i)
  BY <1>2
<1>6. Listed(a)
  BY <1>5, AnySeq
<1>7. Listed(b) /\ Len(b) = (IF comp THEN 1 ELSE 0) /\ (comp => b[1] = clause)
  BY ListedOne
<1> HIDE DEF a, b
<1>8. /\ Len(its) = n + (IF comp THEN 1 ELSE 0)
      /\ \A i \in 1..n : its[i] = column(i)
      /\ comp => its[n + 1] = clause
  <2>1. /\ Len(its) = Len(a) + Len(b) /\ \A k \in 1..Len(a) : its[k] = a[k]
        /\ \A k \in 1..Len(b) : its[Len(a) + k] = b[k]
    BY <1>1, <1>6, <1>7, ConcatMembers
  <2> QED BY <1>5, <1>7, <2>1
<1>9. Len(its) = (IF comp THEN n + 1 ELSE n) /\ Len(its) \in Nat
  BY <1>2, <1>8
<1>10. TableItems(its, n)
  <2>1. ASSUME NEW i \in 1..n PROVE ColumnItem(its[i]) /\ (its[i].comma <=> i < Len(its))
    <3>1. its[i] = column(i) /\ F[i] \in ToSet(F)
      BY <1>2, <1>8
    <3>2. ColumnItem(its[i])
      BY <1>2, <1>3, <3>1 DEF ColumnItem
    <3>3. i < Len(its) <=> i < n \/ comp
      BY <1>2, <1>9
    <3> QED BY <1>3, <3>1, <3>2, <3>3
  <2>2. ASSUME NEW i \in 1..Len(its), ~(i <= n) PROVE KeysItem(its[i])
    <3>1. comp /\ i = n + 1
      BY <1>2, <1>9, <2>2
    <3>2. its[i] = clause
      BY <1>8, <3>1
    <3> QED BY <1>4, <3>2 DEF KeysItem
  <2>3. n <= Len(its) /\ Len(its) <= n + 1
    BY <1>2, <1>9
  <2> QED BY <1>2, <1>9, <2>1, <2>2, <2>3 DEF TableItems
<1>11. \A i \in 1..n : /\ its[i].col = F[i].name
                       /\ its[i].pk <=> Single(ent, i)
                       /\ its[i].notNull <=> F[i].notNull /\ ~Single(ent, i)
  BY <1>3, <1>8
<1>12. comp => its[n + 1].keys = KeyFields(ent)
  BY <1>4, <1>8
<1> QED BY <1>9, <1>10, <1>11, <1>12 DEF its, comp, F

\* The key of a table, as it is read.
LEMMA KeysOfItems ==
  ASSUME NEW ent, PlainTable(ent)
  PROVE  KeyNames(Items(ent), Len(ent.fields))
            = {Told(ent.fields[i].name) : i \in {i \in 1..Len(ent.fields) : ent.fields[i].pk}}
<1> DEFINE F == ent.fields
           n == Len(F)
           its == Items(ent)
           comp == Composite(ent)
           K == KeyFields(ent)
           I == {i \in 1..n : F[i].pk}
           marked == {Told(its[i].col) : i \in {i \in 1..n : its[i].pk}}
           clauses == UNION {ToSet(ToldList(its[i].keys)) : i \in {i \in 1..Len(its) : ~(i <= n)}}
<1>1. /\ \A i \in 1..n : its[i].col = F[i].name /\ (its[i].pk <=> F[i].pk /\ ~comp)
      /\ Len(its) = (IF comp THEN n + 1 ELSE n)
      /\ comp => its[n + 1].keys = K
  BY ItemsOfEntity DEF Single
<1>2. n \in Nat
  BY AnySeq DEF PlainTable, LoadedEntity, Listed
<1>3. K \in Seq(Seq(Chars)) /\ ToSet(K) = {F[i].name : i \in I} /\ (comp => Len(K) > 1)
  BY KeysOfEntity DEF PlainTable, Composite
<1>4. KeyNames(its, n) = marked \cup clauses
  BY DEF KeyNames
<1> HIDE DEF F, n, its, comp, K
<1>5. CASE comp
  <2>1. marked = {}
    BY <1>1, <1>5
  <2>2. {i \in 1..Len(its) : ~(i <= n)} = {n + 1}
    BY <1>1, <1>2, <1>5
  <2>3. clauses = ToSet(ToldList(K))
    BY <1>1, <1>5, <2>2
  <2>4. K # << >> /\ ToldList(K) = [i \in 1..Len(K) |-> Told(K[i])] /\ Len(K) \in Nat /\ DOMAIN K = 1..Len(K)
    BY <1>3, <1>5 DEF ToldList, EachTold
  <2>5. ToSet(ToldList(K)) = {Told(K[i]) : i \in 1..Len(K)}
    BY <2>4 DEF ToSet
  <2>6. ToSet(K) = {K[i] : i \in 1..Len(K)}
    BY <2>4 DEF ToSet
  <2>7. {Told(K[i]) : i \in 1..Len(K)} = {Told(name) : name \in ToSet(K)}
    BY <2>6
  <2>8. {Told(name) : name \in ToSet(K)} = {Told(F[i].name) : i \in I}
    BY <1>3
  <2> HIDE DEF marked, clauses, I
  <2> QED BY <1>4, <2>1, <2>3, <2>5, <2>7, <2>8 DEF I, F, n, its
<1>6. CASE ~comp
  <2>1. {i \in 1..Len(its) : ~(i <= n)} = {}
    BY <1>1, <1>2, <1>6
  <2>2. clauses = {}
    BY <2>1
  <2>3. marked = {Told(F[i].name) : i \in I}
    BY <1>1, <1>6
  <2> HIDE DEF marked, clauses, I
  <2> QED BY <1>4, <2>2, <2>3 DEF I, F, n, its
<1> QED BY <1>5, <1>6

\* The statements of an entity and what they stand for.
TableStatement(ent) == [op |-> "table", table |-> ent.name, comment |-> ent.comment, items |-> Items(ent)]
PathStatement(ent, p) ==
    [op |-> IF p.unique THEN "unique" ELSE "index", table |-> ent.name, name |-> p.name, cols |-> p.cols]

TableFact(ent) ==
    [op |-> "table", table |-> ent.name, keys |-> {f.name : f \in {f \in ToSet(ent.fields) : f.pk}},
     columns |-> [i \in 1..Len(ent.fields) |->
        [name |-> ent.fields[i].name, clean |-> TRUE, required |-> ent.fields[i].notNull \/ ent.fields[i].pk]]]
PathFact(ent, p) ==
    IF p.unique THEN [op |-> "unique", table |-> ent.name, cols |-> p.cols]
    ELSE [op |-> "index", name |-> p.name, table |-> ent.name, cols |-> p.cols]

FieldNames(ent) == {f.name : f \in ToSet(ent.fields)}
TableFree(ent) == Free(ToSet(NameParts(ent.name))) /\ Free(FieldNames(ent))
PathFree(ent, p) ==
    /\ Free(ToSet(NameParts(ent.name))) /\ p.cols # << >> /\ Free(ToSet(p.cols))
    /\ p.unique \/ p.name \notin Unlisted

\* If no name is a reserved word, a table is read as it was.
LEMMA TableSame ==
  ASSUME NEW ent, PlainTable(ent), TableFree(ent)
  PROVE  TableTold(ToldTable(ent.name), Items(ent), Len(ent.fields)) = TableFact(ent)
<1> DEFINE F == ent.fields
           n == Len(F)
           its == Items(ent)
           K == KeyNames(its, n)
<1>1. n \in Nat /\ ToSet(F) = {F[i] : i \in 1..n} /\ DOMAIN F = 1..n
  <2>1. n \in Nat /\ DOMAIN F = 1..n
    BY AnySeq DEF PlainTable, LoadedEntity, Listed
  <2> QED BY <2>1 DEF ToSet
<1>2. \A f \in ToSet(F) : f.name \in Seq(Chars)
  BY DEF PlainTable, LoadedEntity
<1>3. \A i, j \in 1..n : F[i].name = F[j].name => i = j
  BY <1>1 DEF PlainTable, LoadedEntity
<1>4. \A i \in 1..n : Told(F[i].name) = F[i].name
  <2> TAKE i \in 1..n
  <2>1. F[i] \in ToSet(F)
    BY <1>1
  <2>2. F[i].name \notin Unlisted
    BY <2>1 DEF TableFree, FieldNames, Free
  <2> QED BY <1>2, <2>1, <2>2, ToldName
<1>5. K = {Told(F[i].name) : i \in {i \in 1..n : F[i].pk}}
  BY KeysOfItems
<1>6. \A i \in 1..n : /\ its[i].col = F[i].name
                      /\ its[i].notNull <=> F[i].notNull /\ ~Single(ent, i)
                      /\ Single(ent, i) => F[i].pk
  BY ItemsOfEntity DEF Single
<1>7. ToldTable(ent.name) = ent.name
  <2>1. ent.name \in Seq(Chars)
    BY DEF PlainTable, LoadedEntity
  <2> QED BY <2>1, ToldTables DEF TableFree
<1> HIDE DEF F, n, its, K
<1>8. K = {f.name : f \in {f \in ToSet(F) : f.pk}}
  <2>1. K = {F[i].name : i \in {i \in 1..n : F[i].pk}}
    BY <1>4, <1>5
  <2> QED BY <1>1, <2>1
<1>9. \A i \in 1..n : F[i].name \in K <=> F[i].pk
  BY <1>3, <1>4, <1>5
<1> DEFINE f(i) == [name |-> Told(its[i].col), required |-> its[i].notNull \/ Told(its[i].col) \in K, clean |-> TRUE]
           g(i) == [name |-> F[i].name, clean |-> TRUE, required |-> F[i].notNull \/ F[i].pk]
<1>10. ASSUME NEW i \in 1..n PROVE f(i) = g(i)
  <2>1. Told(its[i].col) = F[i].name
    BY <1>4, <1>6
  <2>2. (its[i].notNull \/ Told(its[i].col) \in K) = (F[i].notNull \/ F[i].pk)
    BY <1>6, <1>9, <2>1
  <2> QED BY <2>1, <2>2
<1>11. TableTold(ToldTable(ent.name), its, n)
         = [op |-> "table", table |-> ToldTable(ent.name), keys |-> K, columns |-> [i \in 1..n |-> f(i)]]
  BY DEF TableTold, K
<1>12. TableFact(ent) = [op |-> "table", table |-> ent.name, keys |-> {x.name : x \in {x \in ToSet(F) : x.pk}},
                         columns |-> [i \in 1..n |-> g(i)]]
  BY DEF TableFact, F, n
<1> HIDE DEF f, g
<1>13. [i \in 1..n |-> f(i)] = [i \in 1..n |-> g(i)]
  BY <1>10
<1> QED BY <1>7, <1>8, <1>11, <1>12, <1>13 DEF its, n, F

LEMMA TableTells ==
  ASSUME NEW ent, PlainTable(ent)
  PROVE  Tells(ReadText(StatementText(TableStatement(ent))), {TableFact(ent)}, TableFree(ent))
<1> DEFINE s == TableStatement(ent)
           n == Len(ent.fields)
           its == Items(ent)
           r == TableTold(ToldTable(ent.name), its, n)
<1>1. /\ s.op = "table" /\ s.table = ent.name /\ s.comment = ent.comment /\ s.items = its
      /\ ent.name \in Seq(Chars) /\ Listed(ent.comment) /\ "\n" \notin ToSet(ent.comment)
  BY DEF TableStatement, PlainTable, LoadedEntity
<1>2. TableItems(its, n) /\ \A i \in 1..n : its[i].col = ent.fields[i].name
  BY ItemsOfEntity
<1>3. n \in Nat /\ ToSet(ent.fields) = {ent.fields[i] : i \in 1..n} /\ \A f \in ToSet(ent.fields) : f.name \in Seq(Chars)
  <2>1. n \in Nat /\ DOMAIN ent.fields = 1..n
    BY AnySeq DEF PlainTable, LoadedEntity, Listed
  <2> QED BY <2>1 DEF ToSet, PlainTable, LoadedEntity
<1> HIDE DEF s, its, n
<1>4. ReadText(StatementText(s)) = {ReadStatement(TableLex(s.table, s.items))}
  BY <1>1, <1>2, TableGives
<1>5. ReadStatement(TableLex(ent.name, its)) = r
  BY <1>1, <1>2, TableRead
<1>6. ReadText(StatementText(s)) = {r}
  BY <1>1, <1>4, <1>5
<1>7. TableFree(ent) => r = TableFact(ent)
  BY TableSame DEF its, n
<1>8. ~TableFree(ent) => ~Proper(r)
  <2> SUFFICES ASSUME ~TableFree(ent), Proper(r) PROVE FALSE
    OBVIOUS
  <2>1. /\ r.op = "table" /\ r.table = ToldTable(ent.name) /\ DOMAIN r.columns = 1..n
        /\ \A i \in 1..n : r.columns[i].name = Told(its[i].col)
    BY DEF TableTold
  <2>2. r.table \in Seq(Chars) /\ \A i \in DOMAIN r.columns : r.columns[i].name \in Seq(Chars)
    <3> HIDE DEF r
    <3> QED BY <2>1 DEF Proper
  <2> HIDE DEF r
  <2>3. Free(ToSet(NameParts(ent.name)))
    BY <1>1, <2>1, <2>2, ToldTables
  <2>4. PICK i \in 1..n : ent.fields[i].name \in Unlisted
    BY <1>3, <2>3 DEF TableFree, Free, FieldNames
  <2>5. ent.fields[i].name \in Seq(Chars)
    BY <1>3
  <2>6. Told(ent.fields[i].name) \notin Seq(Chars)
    BY <2>4, <2>5, ToldName
  <2> QED BY <1>2, <2>1, <2>2, <2>6
<1>9. Proper(TableFact(ent))
  <2> DEFINE t == TableFact(ent)
  <2>1. /\ t.op = "table" /\ t.table = ent.name /\ DOMAIN t.columns = 1..n
        /\ \A i \in 1..n : t.columns[i].name = ent.fields[i].name
    BY DEF TableFact, n
  <2> HIDE DEF t
  <2>2. Proper(t)
    BY <1>1, <1>3, <2>1 DEF Proper
  <2> QED BY <2>2 DEF t
<1> HIDE DEF r
<1>10. Tells({r}, {TableFact(ent)}, TableFree(ent))
  BY <1>7, <1>8, <1>9, TellsOne
<1> QED BY <1>6, <1>10 DEF s

LEMMA PathTells ==
  ASSUME NEW ent, LoadedEntity(ent), NEW p \in ToSet(ent.paths)
  PROVE  Tells(ReadText(StatementText(PathStatement(ent, p))), {PathFact(ent, p)}, PathFree(ent, p))
<1> DEFINE s == PathStatement(ent, p)
           table == ent.name
           name == p.name
           cols == p.cols
<1>1. table \in Seq(Chars) /\ name \in Seq(Chars) /\ cols \in Seq(Seq(Chars))
  BY DEF LoadedEntity
<1>2. s.op = (IF p.unique THEN "unique" ELSE "index") /\ s.table = table /\ s.name = name /\ s.cols = cols
  BY DEF PathStatement
<1>3. PathFree(ent, p) = (/\ Free(ToSet(NameParts(table))) /\ cols # << >> /\ Free(ToSet(cols))
                          /\ p.unique \/ name \notin Unlisted)
  BY DEF PathFree
<1>4. PathFact(ent, p) = IF p.unique THEN [op |-> "unique", table |-> table, cols |-> cols]
                         ELSE [op |-> "index", name |-> name, table |-> table, cols |-> cols]
  BY DEF PathFact
<1> HIDE DEF s, table, name, cols
<1>5. IF Free(ToSet(NameParts(table))) THEN ToldTable(table) = table ELSE ToldTable(table) \notin Seq(Chars)
  BY <1>1, ToldTables
<1>6. IF cols # << >> /\ Free(ToSet(cols)) THEN ToldList(cols) = cols ELSE ToldList(cols) \notin Seq(Seq(Chars))
  BY <1>1, ToldColumns
<1>7. IF name \in Unlisted THEN Told(name) \notin Seq(Chars) ELSE Told(name) = name
  BY <1>1, ToldName
<1>8. CASE p.unique
  <2> DEFINE r == [op |-> "unique", table |-> ToldTable(table), cols |-> ToldList(cols)]
             fact == [op |-> "unique", table |-> table, cols |-> cols]
  <2>1. ReadText(StatementText(s)) = {r}
    BY <1>1, <1>2, <1>8, UniqueReads
  <2>2. PathFree(ent, p) => r = fact
    BY <1>3, <1>5, <1>6
  <2>3. ~PathFree(ent, p) => ~Proper(r)
    BY <1>3, <1>5, <1>6, <1>8 DEF Proper
  <2>4. Proper(fact)
    BY <1>1 DEF Proper
  <2>5. PathFact(ent, p) = fact
    BY <1>4, <1>8
  <2> HIDE DEF r, fact
  <2> QED BY <2>1, <2>2, <2>3, <2>4, <2>5, TellsOne DEF s
<1>9. CASE ~p.unique
  <2> DEFINE r == [op |-> "index", name |-> Told(name), table |-> ToldTable(table), cols |-> ToldList(cols)]
             fact == [op |-> "index", name |-> name, table |-> table, cols |-> cols]
  <2>1. ReadText(StatementText(s)) = {r}
    BY <1>1, <1>2, <1>9, IndexReads
  <2>2. PathFree(ent, p) => r = fact
    BY <1>3, <1>5, <1>6, <1>7, <1>9
  <2>3. ~PathFree(ent, p) => ~Proper(r)
    BY <1>3, <1>5, <1>6, <1>7, <1>9 DEF Proper
  <2>4. Proper(fact)
    BY <1>1 DEF Proper
  <2>5. PathFact(ent, p) = fact
    BY <1>4, <1>9
  <2> HIDE DEF r, fact
  <2> QED BY <2>1, <2>2, <2>3, <2>4, <2>5, TellsOne DEF s
<1> QED BY <1>8, <1>9

-----------------------------------------------------------------------------
EdgeStatement(e) == [op |-> "fk", table |-> e.from, edge |-> e]
EdgeFree(e) == Free(ToSet(NameParts(e.from))) /\ Free(ToSet(NameParts(e.to))) /\ Free({e.fromField, e.toField})

LEMMA ToldOne ==
  ASSUME NEW name \in Seq(Chars)
  PROVE  IF name \in Unlisted THEN <<Told(name)>> \notin Seq(Seq(Chars)) ELSE <<Told(name)>> = <<name>>
<1>1. CASE name \notin Unlisted
  BY <1>1, ToldName
<1>2. CASE name \in Unlisted
  <2>1. Told(name) = Misread
    BY <1>2 DEF Told
  <2> QED BY <1>2, <2>1, MisreadApart
<1> QED BY <1>1, <1>2

LEMMA EdgeTells ==
  ASSUME NEW e, e.from \in Seq(Chars), e.to \in Seq(Chars), e.fromField \in Seq(Chars), e.toField \in Seq(Chars)
  PROVE  Tells(ReadText(StatementText(EdgeStatement(e))), {EdgeFact(e)}, EdgeFree(e))
<1> DEFINE s == EdgeStatement(e)
           from == e.from
           to == e.to
           one == <<Told(e.fromField)>>
           two == <<Told(e.toField)>>
           r == [op |-> "fk", table |-> ToldTable(from), cols |-> one, target |-> ToldTable(to), targetCols |-> two]
           fact == [op |-> "fk", table |-> from, cols |-> <<e.fromField>>, target |-> to, targetCols |-> <<e.toField>>]
<1>1. s.op = "fk" /\ s.edge = e
  BY DEF EdgeStatement
<1>2. ReadText(StatementText(s)) = {r}
  <2> HIDE DEF s
  <2> QED BY <1>1, KeyReads
<1>3. EdgeFact(e) = fact
  BY DEF EdgeFact
<1>4. IF Free(ToSet(NameParts(from))) THEN ToldTable(from) = from ELSE ToldTable(from) \notin Seq(Chars)
  BY ToldTables
<1>5. IF Free(ToSet(NameParts(to))) THEN ToldTable(to) = to ELSE ToldTable(to) \notin Seq(Chars)
  BY ToldTables
<1>6. IF e.fromField \in Unlisted THEN one \notin Seq(Seq(Chars)) ELSE one = <<e.fromField>>
  BY ToldOne
<1>7. IF e.toField \in Unlisted THEN two \notin Seq(Seq(Chars)) ELSE two = <<e.toField>>
  BY ToldOne
<1>8. <<e.fromField>> \in Seq(Seq(Chars)) /\ <<e.toField>> \in Seq(Seq(Chars))
  BY OneIsSeq
<1>9. EdgeFree(e) <=> /\ Free(ToSet(NameParts(from))) /\ Free(ToSet(NameParts(to)))
                      /\ e.fromField \notin Unlisted /\ e.toField \notin Unlisted
  BY DEF EdgeFree, Free
<1> HIDE DEF one, two
<1>10. EdgeFree(e) => r = fact
  BY <1>4, <1>5, <1>6, <1>7, <1>9
<1>11. ~EdgeFree(e) => ~Proper(r)
  BY <1>4, <1>5, <1>6, <1>7, <1>9 DEF Proper
<1>12. Proper(fact)
  BY <1>8 DEF Proper
<1> HIDE DEF r, fact
<1> QED BY <1>2, <1>3, <1>10, <1>11, <1>12, TellsOne DEF s

-----------------------------------------------------------------------------
\* Reading back, 16: the statements of a file.

EntityFree(ent) == ent.kind # "view" => TableFree(ent) /\ \A p \in ToSet(ent.paths) : PathFree(ent, p)
PlainEntity(ent) == LoadedEntity(ent) /\ "\n" \notin Shown({ent})
ToldBy(c) == UNION {ReadText(StatementText(s)) : s \in ToSet(c)}

\* The same for a family of texts.
TellsEach(I, t, f, s) == \A i \in I : Tells(t[i], f[i], s[i])
Together(I, t) == UNION {t[i] : i \in I}
AllOf(I, s) == \A i \in I : s[i]

LEMMA TellsTogether ==
  ASSUME NEW I, NEW t, NEW f, NEW s, TellsEach(I, t, f, s)
  PROVE  Tells(Together(I, t), Together(I, f), AllOf(I, s))
<1>1. AllOf(I, s) => Together(I, t) = Together(I, f)
  BY DEF Tells, TellsEach, Together, AllOf
<1>2. ~AllOf(I, s) => \E r \in Together(I, t) : ~Proper(r)
  BY DEF Tells, TellsEach, Together, AllOf
<1>3. \A r \in Together(I, f) : Proper(r)
  BY DEF Tells, TellsEach, Together
<1> QED BY <1>1, <1>2, <1>3 DEF Tells

LEMMA ToldConcat ==
  ASSUME NEW a, NEW b, Listed(a), Listed(b)
  PROVE  ToldBy(a \o b) = ToldBy(a) \cup ToldBy(b)
<1>1. ToSet(a \o b) = ToSet(a) \cup ToSet(b)
  BY ConcatMembers
<1> QED BY <1>1 DEF ToldBy

LEMMA ViewTells ==
  ASSUME NEW ent, PlainEntity(ent), ent.kind = "view"
  PROVE  Tells(ToldBy(EntityStatements(ent)), EntityFacts(ent), EntityFree(ent))
<1> DEFINE F == ent.fields
           d == "\n"
           P == Chars \ {d}
           cols == [i \in 1..Len(F) |-> F[i].name]
           s == [op |-> "view", table |-> ent.name, cols |-> cols]
<1>1. EntityStatements(ent) = <<s>> /\ EntityFacts(ent) = {} /\ EntityFree(ent) = TRUE
  BY DEF EntityStatements, EntityFacts, EntityFree
<1>2. s.op = "view" /\ s.table = ent.name /\ s.cols = cols
  OBVIOUS
<1>3. /\ ent.name \in Seq(Chars) /\ d \notin ToSet(ent.name)
      /\ \A f \in ToSet(F) : f.name \in Seq(Chars) /\ d \notin ToSet(f.name)
  BY DEF PlainEntity, LoadedEntity, Shown
<1>4. Len(F) \in Nat /\ \A i \in 1..Len(F) : F[i] \in ToSet(F)
  <2>1. Len(F) \in Nat /\ DOMAIN F = 1..Len(F)
    BY AnySeq DEF PlainEntity, LoadedEntity, Listed
  <2> QED BY <2>1 DEF ToSet
<1>5. \A x \in Seq(Chars) : d \notin ToSet(x) => x \in Seq(P)
  <2> HIDE DEF d
  <2> SUFFICES ASSUME NEW x \in Seq(Chars), d \notin ToSet(x) PROVE x \in Seq(P)
    OBVIOUS
  <2>1. DOMAIN x = 1..Len(x) /\ Len(x) \in Nat /\ x = [i \in 1..Len(x) |-> x[i]]
    OBVIOUS
  <2>2. \A i \in 1..Len(x) : x[i] \in P
    BY <2>1 DEF ToSet
  <2> HIDE DEF P
  <2> QED BY <2>1, <2>2
<1>6. s.table \in Seq(P)
  BY <1>2, <1>3, <1>5
<1> HIDE DEF P
<1>7. cols \in Seq(Seq(P))
  <2>1. \A i \in 1..Len(F) : F[i].name \in Seq(P)
    BY <1>3, <1>4, <1>5
  <2> DEFINE W == Seq(P)
  <2> HIDE DEF W
  <2>2. \A i \in 1..Len(F) : F[i].name \in W
    BY <2>1 DEF W
  <2>3. cols \in Seq(W)
    BY <1>4, <2>2
  <2> QED BY <2>3 DEF W
<1> HIDE DEF s
<1>8. ReadText(StatementText(s)) = {}
  BY <1>2, <1>6, <1>7, ViewReads DEF P, d
<1>9. ToldBy(<<s>>) = {}
  BY <1>8, ListedOne DEF ToldBy
<1> QED BY <1>1, <1>9, TellsNothing

LEMMA TableEntityTells ==
  ASSUME NEW ent, PlainEntity(ent), ent.kind # "view"
  PROVE  Tells(ToldBy(EntityStatements(ent)), EntityFacts(ent), EntityFree(ent))
<1> DEFINE q == ent.paths
           n == Len(q)
           head == TableStatement(ent)
           rest == [i \in 1..n |-> PathStatement(ent, q[i])]
           t == [p \in ToSet(q) |-> ReadText(StatementText(PathStatement(ent, p)))]
           f == [p \in ToSet(q) |-> {PathFact(ent, p)}]
           s == [p \in ToSet(q) |-> PathFree(ent, p)]
<1>1. EntityStatements(ent) = <<head>> \o rest
  BY DEF EntityStatements, TableStatement, PathStatement
<1>2. EntityFacts(ent) = {TableFact(ent)} \cup {PathFact(ent, p) : p \in ToSet(q)}
  BY DEF EntityFacts, TableFact, PathFact
<1>3. PlainTable(ent) /\ LoadedEntity(ent)
  BY DEF PlainEntity, PlainTable, Shown
<1>4. n \in Nat /\ DOMAIN q = 1..n /\ ToSet(q) = {q[i] : i \in 1..n}
  <2>1. n \in Nat /\ DOMAIN q = 1..n
    BY <1>3, AnySeq DEF LoadedEntity, Listed
  <2> QED BY <2>1 DEF ToSet
<1>5. Tells(ReadText(StatementText(head)), {TableFact(ent)}, TableFree(ent))
  BY <1>3, TableTells
<1>6. \A p \in ToSet(q) : Tells(t[p], f[p], s[p])
  BY <1>3, PathTells
<1> HIDE DEF head, n
<1>7. Listed(rest) /\ ToSet(rest) = {PathStatement(ent, p) : p \in ToSet(q)}
  <2> DEFINE g(i) == PathStatement(ent, q[i])
  <2>1. rest = [i \in 1..n |-> g(i)]
    OBVIOUS
  <2> HIDE DEF g
  <2>2. rest \in Seq({g(i) : i \in 1..n}) /\ DOMAIN rest = 1..n
    BY <1>4, <2>1
  <2>3. Listed(rest)
    BY <2>2, AnySeq
  <2>4. ToSet(rest) = {g(i) : i \in 1..n}
    BY <2>1, <2>2 DEF ToSet
  <2>5. {g(i) : i \in 1..n} = {PathStatement(ent, p) : p \in ToSet(q)}
    BY <1>4 DEF g
  <2> QED BY <2>3, <2>4, <2>5
<1> HIDE DEF rest
<1>8. ToldBy(EntityStatements(ent)) = ReadText(StatementText(head)) \cup UNION {t[p] : p \in ToSet(q)}
  <2>1. ToldBy(EntityStatements(ent)) = ToldBy(<<head>>) \cup ToldBy(rest)
    BY <1>1, <1>7, ListedOne, ToldConcat
  <2>2. ToldBy(<<head>>) = ReadText(StatementText(head))
    BY ListedOne DEF ToldBy
  <2>3. ToldBy(rest) = UNION {t[p] : p \in ToSet(q)}
    BY <1>7 DEF ToldBy
  <2> QED BY <2>1, <2>2, <2>3
<1>9. EntityFacts(ent) = {TableFact(ent)} \cup UNION {f[p] : p \in ToSet(q)}
  BY <1>2
<1>10. EntityFree(ent) <=> TableFree(ent) /\ \A p \in ToSet(q) : s[p]
  BY DEF EntityFree
<1> DEFINE T == UNION {t[p] : p \in ToSet(q)}
           G == UNION {f[p] : p \in ToSet(q)}
           b == \A p \in ToSet(q) : s[p]
<1> HIDE DEF t, f, s
<1>11. Tells(T, G, b)
  <2>1. TellsEach(ToSet(q), t, f, s)
    BY <1>6 DEF TellsEach
  <2>2. T = Together(ToSet(q), t) /\ G = Together(ToSet(q), f) /\ b = AllOf(ToSet(q), s)
    BY DEF Together, AllOf
  <2> HIDE DEF T, G, b
  <2> QED BY <2>1, <2>2, TellsTogether
<1> HIDE DEF T, G, b
<1>12. Tells(ReadText(StatementText(head)) \cup T, {TableFact(ent)} \cup G, TableFree(ent) /\ b)
  BY <1>5, <1>11, TellsBoth
<1> QED BY <1>8, <1>9, <1>10, <1>12 DEF T, G, b, Tells

\* The statements of a file.
LEMMA RenderedStatements ==
  ASSUME NEW entities, Listed(entities), NEW edges, Listed(edges),
         \A ent \in ToSet(entities) : Listed(ent.paths)
  PROVE  ToSet(RenderDDL(entities, edges))
            = (UNION {ToSet(EntityStatements(ent)) : ent \in ToSet(entities)})
              \cup {EdgeStatement(e) : e \in ToSet(edges)}
<1> DEFINE N == Len(entities)
           blocks == [i \in 1..N |-> EntityStatements(entities[i])]
           row == FlattenSeq(blocks)
           keys == EdgeStatements(edges)
           R == UNION {ToSet(EntityStatements(ent)) : ent \in ToSet(entities)}
           K == {EdgeStatement(e) : e \in ToSet(edges)}
<1>1. RenderDDL(entities, edges) = row \o keys
  BY DEF RenderDDL
<1>2. /\ DOMAIN entities = 1..N /\ N \in Nat
      /\ DOMAIN edges = 1..Len(edges) /\ Len(edges) \in Nat
  BY AnySeq DEF Listed
<1>3. ToSet(entities) = {entities[i] : i \in 1..N} /\ ToSet(edges) = {edges[i] : i \in 1..Len(edges)}
  BY <1>2 DEF ToSet
<1>4. \A i \in 1..N : blocks[i] \in Seq(R)
  <2> TAKE i \in 1..N
  <2>1. blocks[i] \in Seq(ToSet(blocks[i]))
    BY <1>3, EntityBlock DEF Listed
  <2>2. ToSet(blocks[i]) \subseteq R
    BY <1>3
  <2> QED BY <2>1, <2>2, SeqMonotonic
<1>5. blocks \in Seq(Seq(R)) /\ DOMAIN blocks = 1..N
  BY <1>2, <1>4
<1>6. \A i \in 1..N : blocks[i] = EntityStatements(entities[i])
  OBVIOUS
<1> HIDE DEF blocks
<1>7. Listed(row) /\ ToSet(row) = R
  <2>1. /\ row \in Seq(R) /\ \A i \in 1..N : ToSet(blocks[i]) \subseteq ToSet(row)
        /\ \A x \in ToSet(row) : \E i \in 1..N : x \in ToSet(blocks[i])
    <3> HIDE DEF R
    <3> QED BY <1>5, FlatMembers
  <2>2. Listed(row)
    <3> HIDE DEF row, R
    <3> QED BY <2>1, AnySeq
  <2>3. ToSet(row) \subseteq R
    BY <1>3, <1>6, <2>1
  <2>4. R \subseteq ToSet(row)
    BY <1>3, <1>6, <2>1
  <2> HIDE DEF row, R
  <2> QED BY <2>2, <2>3, <2>4
<1>8. Listed(keys) /\ ToSet(keys) = K
  <2> DEFINE key(i) == EdgeStatement(edges[i])
  <2>1. keys = [i \in 1..Len(edges) |-> key(i)]
    BY DEF EdgeStatements, EdgeStatement
  <2> HIDE DEF key, keys
  <2>2. keys \in Seq({key(i) : i \in 1..Len(edges)}) /\ DOMAIN keys = 1..Len(edges)
    BY <1>2, <2>1
  <2>3. Listed(keys)
    BY <2>2, AnySeq
  <2>4. ToSet(keys) = {key(i) : i \in 1..Len(edges)}
    BY <2>1, <2>2 DEF ToSet
  <2>5. {key(i) : i \in 1..Len(edges)} = K
    BY <1>3 DEF key
  <2> QED BY <2>3, <2>4, <2>5
<1> HIDE DEF row, keys, R, K
<1>9. ToSet(row \o keys) = R \cup K
  BY <1>7, <1>8, ConcatMembers
<1> QED BY <1>1, <1>9 DEF R, K

FileFacts(tables, keys) == (UNION {EntityFacts(ent) : ent \in tables}) \cup {EdgeFact(e) : e \in keys}
FileFree(tables, keys) == (\A ent \in tables : EntityFree(ent)) /\ (\A e \in keys : EdgeFree(e))
PlainEdge(e) == {e.from, e.to, e.fromField, e.toField} \subseteq Seq(Chars)

\* What a file of tables and foreign keys tells.
LEMMA FileTells ==
  ASSUME NEW c, NEW tables, NEW keys,
         ToSet(c) = (UNION {ToSet(EntityStatements(ent)) : ent \in tables}) \cup {EdgeStatement(e) : e \in keys},
         \A ent \in tables : PlainEntity(ent), \A e \in keys : PlainEdge(e)
  PROVE  Tells(ToldBy(c), FileFacts(tables, keys), FileFree(tables, keys))
<1> DEFINE t1 == [ent \in tables |-> ToldBy(EntityStatements(ent))]
           f1 == [ent \in tables |-> EntityFacts(ent)]
           s1 == [ent \in tables |-> EntityFree(ent)]
           t2 == [e \in keys |-> ReadText(StatementText(EdgeStatement(e)))]
           f2 == [e \in keys |-> {EdgeFact(e)}]
           s2 == [e \in keys |-> EdgeFree(e)]
<1>1. ToldBy(c) = Together(tables, t1) \cup Together(keys, t2)
  <2>1. ToldBy(c) = (UNION {ReadText(StatementText(s)) : s \in UNION {ToSet(EntityStatements(ent)) : ent \in tables}})
                   \cup UNION {ReadText(StatementText(s)) : s \in {EdgeStatement(e) : e \in keys}}
    BY DEF ToldBy
  <2>2. UNION {ReadText(StatementText(s)) : s \in UNION {ToSet(EntityStatements(ent)) : ent \in tables}}
           = Together(tables, t1)
    BY DEF ToldBy, Together
  <2>3. UNION {ReadText(StatementText(s)) : s \in {EdgeStatement(e) : e \in keys}} = Together(keys, t2)
    BY DEF Together
  <2> QED BY <2>1, <2>2, <2>3
<1>2. FileFacts(tables, keys) = Together(tables, f1) \cup Together(keys, f2)
  <2>1. UNION {EntityFacts(ent) : ent \in tables} = Together(tables, f1)
    BY DEF Together
  <2>2. {EdgeFact(e) : e \in keys} = Together(keys, f2)
    BY DEF Together
  <2> QED BY <2>1, <2>2 DEF FileFacts
<1>3. FileFree(tables, keys) <=> AllOf(tables, s1) /\ AllOf(keys, s2)
  BY DEF FileFree, AllOf
<1>4. TellsEach(tables, t1, f1, s1)
  BY ViewTells, TableEntityTells DEF TellsEach
<1>5. TellsEach(keys, t2, f2, s2)
  BY EdgeTells DEF TellsEach, PlainEdge
<1> HIDE DEF t1, f1, s1, t2, f2, s2
<1>6. Tells(Together(tables, t1), Together(tables, f1), AllOf(tables, s1))
  BY <1>4, TellsTogether
<1>7. Tells(Together(keys, t2), Together(keys, f2), AllOf(keys, s2))
  BY <1>5, TellsTogether
<1> DEFINE a == AllOf(tables, s1)
           b == AllOf(keys, s2)
           A == Together(tables, t1)
           B == Together(keys, t2)
           F == Together(tables, f1)
           G == Together(keys, f2)
<1>8. Tells(ToldBy(c), FileFacts(tables, keys), a /\ b)
  <2>1. Tells(A, F, a) /\ Tells(B, G, b) /\ ToldBy(c) = A \cup B /\ FileFacts(tables, keys) = F \cup G
    BY <1>1, <1>2, <1>6, <1>7
  <2> HIDE DEF A, B, F, G, a, b
  <2>2. Tells(A \cup B, F \cup G, a /\ b)
    BY <2>1, TellsBoth
  <2> QED BY <2>1, <2>2
<1> QED BY <1>3, <1>8 DEF Tells

-----------------------------------------------------------------------------
\* Reading back, 17: the file a run has written.

\* The words of the property are the names the lemmas keep apart.
LEMMA UsedFree ==
  ASSUME NEW tables, NEW keys
  PROVE  FileFree(tables, keys)
            <=> /\ Used(tables, keys) \cap (SqlWords \ Reserved) = {}
                /\ \A ent \in tables : ent.kind # "view" => \A p \in ToSet(ent.paths) : p.cols # << >>
<1> DEFINE U == Unlisted
           plain == {ent \in tables : ent.kind # "view"}
           words(p) == ToSet(p.cols) \cup (IF p.unique THEN {} ELSE {p.name})
           own(ent) == ToSet(NameParts(ent.name)) \cup {f.name : f \in ToSet(ent.fields)}
                       \cup (UNION {words(p) : p \in ToSet(ent.paths)})
           ends(e) == ToSet(NameParts(e.from)) \cup ToSet(NameParts(e.to)) \cup {e.fromField, e.toField}
           full == \A ent \in tables : ent.kind # "view" => \A p \in ToSet(ent.paths) : p.cols # << >>
<1>1. Used(tables, keys) = (UNION {own(ent) : ent \in plain}) \cup (UNION {ends(e) : e \in keys})
  BY DEF Used
<1>2. \A e : EdgeFree(e) <=> ends(e) \cap U = {}
  BY DEF EdgeFree, Free
<1>3. \A ent, p : PathFree(ent, p) <=> /\ ToSet(NameParts(ent.name)) \cap U = {}
                                       /\ words(p) \cap U = {} /\ p.cols # << >>
  BY DEF PathFree, Free
<1>4. \A ent : TableFree(ent) <=> /\ ToSet(NameParts(ent.name)) \cap U = {}
                                  /\ {f.name : f \in ToSet(ent.fields)} \cap U = {}
  BY DEF TableFree, Free, FieldNames
<1>5. \A ent : own(ent) \cap U = {} <=> /\ ToSet(NameParts(ent.name)) \cap U = {}
                                        /\ {f.name : f \in ToSet(ent.fields)} \cap U = {}
                                        /\ \A p \in ToSet(ent.paths) : words(p) \cap U = {}
  <2> HIDE DEF words, U
  <2> QED OBVIOUS
<1> HIDE DEF words, own, ends, U
<1>6. \A ent \in plain : EntityFree(ent) <=> own(ent) \cap U = {} /\ \A p \in ToSet(ent.paths) : p.cols # << >>
  BY <1>3, <1>4, <1>5 DEF EntityFree
<1>7. \A ent \in tables : ent \notin plain => EntityFree(ent)
  BY DEF EntityFree
<1>8. FileFree(tables, keys) <=> /\ \A ent \in plain : own(ent) \cap U = {}
                                 /\ \A e \in keys : ends(e) \cap U = {}
                                 /\ full
  BY <1>2, <1>6, <1>7 DEF FileFree
<1>9. Used(tables, keys) \cap U = {} <=> /\ \A ent \in plain : own(ent) \cap U = {}
                                         /\ \A e \in keys : ends(e) \cap U = {}
  BY <1>1
<1>10. U = SqlWords \ Reserved
  BY DEF U, Unlisted
<1> QED BY <1>8, <1>9, <1>10

\* What a run writes for tables and foreign keys, and maybe a note before it.
LEMMA NotedTells ==
  ASSUME NEW entities, Listed(entities), NEW edges, Listed(edges), NEW c,
         c \in {RenderDDL(entities, edges), <<[op |-> "note"]>> \o RenderDDL(entities, edges)},
         \A ent \in ToSet(entities) : PlainEntity(ent), \A e \in ToSet(edges) : PlainEdge(e)
  PROVE  Tells(ToldBy(c), FileFacts(ToSet(entities), ToSet(edges)), FileFree(ToSet(entities), ToSet(edges)))
<1> DEFINE d == RenderDDL(entities, edges)
           note == [op |-> "note"]
           tables == ToSet(entities)
           keys == ToSet(edges)
<1>1. \A ent \in ToSet(entities) : Listed(ent.paths)
  BY DEF PlainEntity, LoadedEntity
<1>2. ToSet(d) = (UNION {ToSet(EntityStatements(ent)) : ent \in tables}) \cup {EdgeStatement(e) : e \in keys}
  BY <1>1, RenderedStatements
<1>3. Listed(d)
  BY <1>1, Rendered
<1>4. c \in {d, <<note>> \o d}
  OBVIOUS
<1>5. note.op = "note"
  OBVIOUS
<1> HIDE DEF d, note, tables, keys
<1>6. ToldBy(<<note>> \o d) = ToldBy(d)
  <2>1. ToldBy(<<note>>) = {}
    BY <1>5, NoteReads, ListedOne DEF ToldBy
  <2>2. ToldBy(<<note>> \o d) = ToldBy(<<note>>) \cup ToldBy(d)
    BY <1>3, ListedOne, ToldConcat
  <2> QED BY <2>1, <2>2
<1>7. Tells(ToldBy(d), FileFacts(tables, keys), FileFree(tables, keys))
  BY <1>2, FileTells DEF tables, keys
<1>8. ToldBy(c) = ToldBy(d)
  BY <1>4, <1>6
<1> QED BY <1>7, <1>8 DEF tables, keys

TablesFound(doc, c) == {ent \in ToSet(doc.entities) : ent.name \in TablesOf(c)}

\* A file of a run tells the tables and the foreign keys that are in it.
LEMMA JobTells ==
  ASSUME NEW doc, Loaded(doc), NEW m \in {"full", "schema"}, NEW job \in Plan(doc, m),
         "\n" \notin Shown(TablesFound(doc, job.content))
  PROVE  LET c == job.content
             tables == TablesFound(doc, c)
             keys == KeysOf(c)
         IN  Listed(c) /\ Tells(ToldBy(c), FileFacts(tables, keys), FileFree(tables, keys))
<1> DEFINE c == job.content
           tables == TablesFound(doc, c)
           keys == KeysOf(c)
<1>1. \A ent, other \in ToSet(doc.entities) : ent.name = other.name => ent = other
  BY DEF Loaded, ToSet
<1>2. \A e \in ToSet(doc.edges) : PlainEdge(e)
  <2> TAKE e \in ToSet(doc.edges)
  <2>1. \A ent \in ToSet(doc.entities) : ent.name \in Seq(Chars)
    BY DEF Loaded, LoadedEntity
  <2>2. /\ {e.from, e.to} \subseteq {ent.name : ent \in ToSet(doc.entities)}
        /\ {e.fromField, e.toField} \subseteq Seq(Chars)
    BY DEF Loaded
  <2> QED BY <2>1, <2>2 DEF PlainEdge
<1>3. \A ent \in tables : PlainEntity(ent)
  <2> TAKE ent \in tables
  <2>1. Shown({ent}) \subseteq Shown(tables)
    BY DEF Shown
  <2>2. LoadedEntity(ent)
    BY DEF Loaded, TablesFound
  <2> QED BY <2>1, <2>2 DEF PlainEntity
<1>4. CASE m = "full"
  <2> DEFINE entities == doc.entities
             edges == doc.edges
  <2>1. c = RenderDDL(entities, edges)
    BY <1>4 DEF Plan
  <2>2. Listed(entities) /\ Listed(edges)
    BY DEF Loaded
  <2>3. Listed(c) /\ TablesOf(c) = NamesIn(entities) /\ keys = ToSet(edges)
    BY <2>1, WholeFile DEF Content
  <2>4. tables = ToSet(entities)
    BY <2>3 DEF TablesFound, NamesIn
  <2> HIDE DEF c, tables, keys, entities, edges
  <2>5. \A e \in ToSet(edges) : PlainEdge(e)
    BY <1>2 DEF edges
  <2>6. Tells(ToldBy(c), FileFacts(ToSet(entities), ToSet(edges)), FileFree(ToSet(entities), ToSet(edges)))
    BY <1>3, <2>1, <2>2, <2>4, <2>5, NotedTells
  <2> QED BY <2>3, <2>4, <2>6 DEF c, tables, keys
<1>5. CASE m = "schema"
  <2>1. PICK ns \in Namespaces(doc) : c = Bundle(doc, ns)
    BY <1>5 DEF Plan
  <2> DEFINE entities == EntitiesOf(doc, ns)
             edges == EdgesOf(doc, ns)
  <2>2. /\ Listed(entities) /\ ToSet(entities) = EntitiesIn(doc, ns)
        /\ Listed(edges) /\ ToSet(edges) = {e \in ToSet(doc.edges) : ns \in Ends(e)}
    BY BundleParts
  <2>3. Listed(c) /\ TablesOf(c) = {ent.name : ent \in EntitiesIn(doc, ns)} /\ keys = ToSet(edges)
    BY <2>1, <2>2, BundleFile DEF Content
  <2>4. tables = ToSet(entities)
    BY <1>1, <2>2, <2>3 DEF TablesFound, EntitiesIn
  <2>5. c \in {RenderDDL(entities, edges), <<[op |-> "note"]>> \o RenderDDL(entities, edges)}
    <3> DEFINE d == RenderDDL(entities, edges)
               n == <<[op |-> "note"]>>
    <3>1. c = (IF CrossSchema(doc, ns) THEN n ELSE << >>) \o d
      BY <2>1 DEF Bundle
    <3>2. \A ent \in ToSet(entities) : Listed(ent.paths)
      BY BundleParts
    <3>3. Listed(d)
      BY <2>2, <3>2, Rendered
    <3> HIDE DEF d, n
    <3>4. << >> \o d = d
      BY <3>3, ConcatNothing
    <3> QED BY <3>1, <3>4 DEF d, n
  <2> HIDE DEF c, tables, keys, entities, edges
  <2>6. \A e \in ToSet(edges) : PlainEdge(e)
    BY <1>2, <2>2
  <2>7. Tells(ToldBy(c), FileFacts(ToSet(entities), ToSet(edges)), FileFree(ToSet(entities), ToSet(edges)))
    BY <1>3, <2>2, <2>4, <2>5, <2>6, NotedTells
  <2> QED BY <2>3, <2>4, <2>7 DEF c, tables, keys
<1> QED BY <1>4, <1>5

LEMMA ReadOneByOne ==
  ASSUME NEW c, Listed(c)
  PROVE  ReadDDL([i \in 1..Len(c) |-> StatementText(c[i])]) = ToldBy(c)
<1>1. ToSet(c) = {c[i] : i \in 1..Len(c)}
  BY AnySeq DEF Listed, ToSet
<1> DEFINE N == Len(c)
           texts == [i \in 1..N |-> StatementText(c[i])]
<1>2. ReadDDL(texts) = UNION {ReadText(texts[i]) : i \in DOMAIN texts}
  BY Zenon DEF ReadDDL, ReadText
<1>3. UNION {ReadText(texts[i]) : i \in DOMAIN texts} = UNION {ReadText(StatementText(c[i])) : i \in 1..N}
  <2>1. DOMAIN texts = 1..N /\ \A i \in 1..N : texts[i] = StatementText(c[i])
    OBVIOUS
  <2> HIDE DEF texts
  <2> QED BY <2>1
<1>4. UNION {ReadText(StatementText(c[i])) : i \in 1..N} = ToldBy(c)
  BY <1>1 DEF ToldBy
<1> QED BY <1>2, <1>3, <1>4

LEMMA DDLHeld == ProgressInv /\ HeldInv => DDLReadsBack
<1> SUFFICES ASSUME ProgressInv, HeldInv, Succeeded, mode # "lighthouse", NEW f \in written,
                    "\n" \notin Shown({ent \in ToSet(export.entities) : ent.name \in TablesIn(f)})
             PROVE  LET tables == {ent \in ToSet(export.entities) : ent.name \in TablesIn(f)}
                        facts == (UNION {EntityFacts(ent) : ent \in tables}) \cup {EdgeFact(e) : e \in KeysIn(f)}
                        sound == /\ Used(tables, KeysIn(f)) \cap (SqlWords \ Reserved) = {}
                                 /\ \A ent \in tables : ent.kind # "view" => \A p \in ToSet(ent.paths) : p.cols # << >>
                    IN  sound <=> ReadDDL([i \in 1..Len(dir[f]) |-> StatementText(dir[f][i])]) = facts
  BY Zenon DEF DDLReadsBack
<1>1. PICK job \in Plan(export, mode) : job.file = f /\ dir[f] = job.content
  BY DEF HeldInv, Succeeded
<1>2. Loaded(export) /\ mode \in {"full", "schema"}
  BY CompileAssumption DEF ProgressInv, GroundInv
<1> DEFINE c == dir[f]
           tables == TablesFound(export, c)
           keys == KeysOf(c)
<1>3. TablesIn(f) = TablesOf(c) /\ KeysIn(f) = keys
  BY DEF TablesIn, KeysIn, Statements, TablesOf, KeysOf
<1>4. {ent \in ToSet(export.entities) : ent.name \in TablesIn(f)} = tables
  BY <1>3 DEF TablesFound
<1>5. "\n" \notin Shown(tables)
  BY <1>4
<1> HIDE DEF tables, keys
<1>6. Listed(c) /\ Tells(ToldBy(c), FileFacts(tables, keys), FileFree(tables, keys))
  <2> DEFINE x == job.content
  <2>1. "\n" \notin Shown(TablesFound(export, x))
    BY <1>1, <1>5 DEF tables
  <2>2. Listed(x) /\ Tells(ToldBy(x), FileFacts(TablesFound(export, x), KeysOf(x)),
                           FileFree(TablesFound(export, x), KeysOf(x)))
    BY <1>2, <2>1, JobTells
  <2> QED BY <1>1, <2>2 DEF tables, keys
<1> HIDE DEF c
<1>7. FileFree(tables, keys) <=> ToldBy(c) = FileFacts(tables, keys)
  BY <1>6, TellsSame
<1>8. ReadDDL([i \in 1..Len(c) |-> StatementText(c[i])]) = ToldBy(c)
  BY <1>6, ReadOneByOne
<1>9. /\ Used(tables, keys) \cap (SqlWords \ Reserved) = {}
      /\ \A ent \in tables : ent.kind # "view" => \A p \in ToSet(ent.paths) : p.cols # << >>
      <=> ReadDDL([i \in 1..Len(c) |-> StatementText(c[i])])
             = (UNION {EntityFacts(ent) : ent \in tables}) \cup {EdgeFact(e) : e \in keys}
  BY <1>7, <1>8, UsedFree DEF FileFacts
<1> QED BY <1>3, <1>4, <1>9, Zenon DEF c

\* Whatever the document, its characters and the list of reserved words, a written DDL
\* file without a line break in a comment tells SQL the tables, views, indexes and
\* foreign keys it is to tell, and nothing else, exactly when no name in it is a word
\* of SQL the code's list lacks and every index of its tables has columns.
THEOREM DDLReads == Spec => []DDLReadsBack
<1>1. Init => HeldInv
  BY DEF Init, HeldInv
<1> QED BY <1>1, InitProgress, NextProgress, NextHeld, DDLHeld, PTL DEF Spec
=============================================================================
