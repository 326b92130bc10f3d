---------------------------- MODULE GenerateProofs ----------------------------
(***************************************************************************)
(* Whatever the random source draws, for any usable signal tables, any     *)
(* number of tables and any lists of words to draw from: the generated     *)
(* export is strictly valid, the signal stays as it was given, and the     *)
(* noise's foreign keys form no cycle.                                     *)
(***************************************************************************)
EXTENDS Generate, SequenceLemmas, FunctionTheorems

\* Of a set of positions there is a first one, and only one.
LEMMA FirstIsLeast ==
  ASSUME NEW S, S \subseteq Nat
  PROVE  /\ S # {} => FirstOf(S) # {}
         /\ FirstOf(S) \subseteq S
         /\ \A i, j \in FirstOf(S) : i = j
<1>1. S # {} => FirstOf(S) # {}
  <2> SUFFICES ASSUME S # {}
               PROVE  FirstOf(S) # {}
    OBVIOUS
  <2>1. PICK x \in S : \A y \in S : x <= y
    BY LeastOf
  <2> QED BY <2>1 DEF FirstOf
<1>2. \A i, j \in FirstOf(S) : i = j
  <2> SUFFICES ASSUME NEW i \in FirstOf(S), NEW j \in FirstOf(S)
               PROVE  i = j
    OBVIOUS
  <2>1. i \in Nat /\ j \in Nat /\ i <= j /\ j <= i
    BY DEF FirstOf
  <2> QED BY <2>1
<1> QED BY <1>1, <1>2 DEF FirstOf

\* Names of different lengths differ.
LEMMA NamesDiffer ==
  /\ \A a, b, c : <<a>> # <<b, c>>
  /\ \A a : <<a>> # << >>
  /\ \A a, b : <<a, b>> # << >>
  /\ \A a, b, c, d : <<a, b>> = <<c, d>> => a = c /\ b = d
  /\ \A a, b : <<a>> = <<b>> => a = b
<1>1. \A a, b, c : <<a>> # <<b, c>>
  <2> SUFFICES ASSUME NEW a, NEW b, NEW c, <<a>> = <<b, c>> PROVE FALSE
    OBVIOUS
  <2>1. Len(<<a>>) = 1 /\ Len(<<b, c>>) = 2
    OBVIOUS
  <2> QED BY <2>1
<1> QED BY <1>1

-----------------------------------------------------------------------------
\* The fields of a noise table: a key, and no name twice.
GoodFields(fields) ==
    /\ DOMAIN fields \subseteq Nat
    /\ Key(fields) # {}
    /\ \A i, j \in DOMAIN fields : fields[i].name = fields[j].name => i = j
    /\ \A i \in DOMAIN fields : fields[i].name # << >>

GoodPaths(fields, paths) ==
    \A path \in paths : ToSetOf(path.columns) \subseteq FieldNames(fields)

\* A column that repeats gets a suffix no other has, so no two fields are equal.
LEMMA FieldsDiffer ==
  ASSUME NEW composite \in BOOLEAN, NEW fields \in NoiseFields(composite)
  PROVE  GoodFields(fields)
<1> DEFINE key == KeyFields(composite)
<1>1. PICK count \in FieldCounts : \E draws \in [Len(key) + 1..count -> [name : NoiseColumns, type : NoiseTypes]] :
         fields = FieldsWith(key, draws, count)
  BY DEF NoiseFields
<1>2. PICK draws \in [Len(key) + 1..count -> [name : NoiseColumns, type : NoiseTypes]] :
         fields = FieldsWith(key, draws, count)
  BY <1>1
<1>3. count \in Nat /\ count > 2
  BY GeneratorAssumption
<1>4. /\ Len(key) \in {1, 2} /\ DOMAIN key = 1..Len(key)
      /\ \A i \in 1..Len(key) : key[i].pk = TRUE /\ \E word : key[i].name = <<word>>
      /\ \A i, j \in 1..Len(key) : key[i].name = key[j].name => i = j
  <2>1. CASE composite
    <3>1. key = <<Field(<<"left_id">>, "uuid", TRUE), Field(<<"right_id">>, "uuid", TRUE)>>
      BY <2>1 DEF KeyFields
    <3>2. Len(key) = 2 /\ DOMAIN key = 1..2 /\ key[1].name = <<"left_id">> /\ key[2].name = <<"right_id">>
          /\ key[1].pk = TRUE /\ key[2].pk = TRUE
      BY <3>1 DEF Field
    <3>3. \A i \in 1..2 : i = 1 \/ i = 2
      OBVIOUS
    <3>4. <<"left_id">> # <<"right_id">>
      OBVIOUS
    <3> QED BY <3>2, <3>3, <3>4
  <2>2. CASE ~composite
    <3>1. key = <<Field(<<"id">>, "uuid", TRUE)>>
      BY <2>2 DEF KeyFields
    <3>2. Len(key) = 1 /\ DOMAIN key = 1..1 /\ key[1].name = <<"id">> /\ key[1].pk = TRUE
      BY <3>1 DEF Field
    <3>3. \A i \in 1..1 : i = 1
      OBVIOUS
    <3> QED BY <3>2, <3>3
  <2> QED BY <2>1, <2>2
<1> HIDE DEF key
<1>5. /\ DOMAIN fields = 1..count
      /\ \A i \in 1..count : i <= Len(key) => fields[i] = key[i]
      /\ \A i \in 1..count : i > Len(key) => fields[i] = DrawnField(key, draws, i)
  BY <1>2, <1>3, <1>4 DEF FieldsWith
<1> DEFINE taken(i) == \/ <<draws[i].name>> \in FieldNames(key)
                       \/ \E j \in Len(key) + 1..i - 1 : draws[j].name = draws[i].name
<1>6. \A i \in 1..count : i > Len(key) =>
         /\ taken(i) => fields[i].name = <<draws[i].name, i - 1>>
         /\ ~taken(i) => fields[i].name = <<draws[i].name>>
  BY <1>5 DEF DrawnField, Field
<1>7. ASSUME NEW i \in 1..count, NEW j \in 1..count, i < j
      PROVE  fields[i].name # fields[j].name
  <2>1. CASE j <= Len(key)
    BY <1>3, <1>4, <1>5, <1>7, <2>1
  <2>2. CASE i <= Len(key) /\ j > Len(key)
    <3>1. i \in 1..Len(key)
      BY <2>2, <1>4
    <3>2. PICK word : fields[i].name = <<word>> /\ fields[i].name = key[i].name
      BY <1>4, <1>5, <2>2, <3>1
    <3>3. fields[i].name \in FieldNames(key)
      BY <1>4, <3>1, <3>2 DEF FieldNames
    <3>4. CASE taken(j)
      <4>1. fields[j].name = <<draws[j].name, j - 1>>
        BY <1>6, <2>2, <3>4
      <4> QED BY <3>2, <4>1, NamesDiffer
    <3>5. CASE ~taken(j)
      BY <1>6, <2>2, <3>3, <3>5
    <3> QED BY <3>4, <3>5
  <2>3. CASE i > Len(key)
    <3>1. j > Len(key) /\ i \in Len(key) + 1..j - 1
      BY <1>4, <1>7, <2>3
    <3>2. CASE taken(i) /\ taken(j)
      <4>1. i - 1 # j - 1
        BY <1>7
      <4>2. /\ fields[i].name = <<draws[i].name, i - 1>>
            /\ fields[j].name = <<draws[j].name, j - 1>>
        BY <1>6, <2>3, <3>1, <3>2
      <4> QED BY <4>1, <4>2, NamesDiffer
    <3>3. CASE taken(i) /\ ~taken(j)
      <4>1. fields[i].name = <<draws[i].name, i - 1>> /\ fields[j].name = <<draws[j].name>>
        BY <1>6, <2>3, <3>1, <3>3
      <4> QED BY <4>1, NamesDiffer
    <3>4. CASE ~taken(i) /\ taken(j)
      <4>1. fields[i].name = <<draws[i].name>> /\ fields[j].name = <<draws[j].name, j - 1>>
        BY <1>6, <2>3, <3>1, <3>4
      <4> QED BY <4>1, NamesDiffer
    <3>5. CASE ~taken(i) /\ ~taken(j)
      <4>1. draws[i].name # draws[j].name
        BY <3>1, <3>5
      <4>2. fields[i].name = <<draws[i].name>> /\ fields[j].name = <<draws[j].name>>
        BY <1>6, <2>3, <3>1, <3>5
      <4> QED BY <4>1, <4>2, NamesDiffer
    <3> QED BY <3>2, <3>3, <3>4, <3>5
  <2> QED BY <1>4, <2>1, <2>2, <2>3
<1>8. \A i, j \in DOMAIN fields : fields[i].name = fields[j].name => i = j
  <2> SUFFICES ASSUME NEW i \in 1..count, NEW j \in 1..count, fields[i].name = fields[j].name
               PROVE  i = j
    BY <1>5
  <2>1. i < j \/ j < i \/ i = j
    OBVIOUS
  <2> QED BY <1>7, <2>1
<1>9. \A i \in DOMAIN fields : fields[i].name # << >>
  <2> SUFFICES ASSUME NEW i \in 1..count
               PROVE  fields[i].name # << >>
    BY <1>5
  <2>1. CASE i <= Len(key)
    <3>1. PICK word : fields[i].name = <<word>>
      BY <1>4, <1>5, <2>1
    <3> QED BY <3>1
  <2>2. CASE i > Len(key)
    <3>1. fields[i].name = <<draws[i].name, i - 1>> \/ fields[i].name = <<draws[i].name>>
      BY <1>6, <2>2
    <3> QED BY <3>1, NamesDiffer
  <2> QED BY <1>4, <2>1, <2>2
<1>10. 1 \in Key(fields)
  BY <1>3, <1>4, <1>5 DEF Key
<1> QED BY <1>3, <1>5, <1>8, <1>9, <1>10 DEF GoodFields

LEMMA PathsNameFields ==
  ASSUME NEW fields, NEW paths \in NoiseIndexes(fields)
  PROVE  GoodPaths(fields, paths)
<1> SUFFICES ASSUME NEW path \in paths
             PROVE  ToSetOf(path.columns) \subseteq FieldNames(fields)
  BY DEF GoodPaths
<1>1. PICK cs \in SUBSET Named(fields, NonKey(fields)) : paths = {[columns |-> <<c>>] : c \in cs}
  BY DEF NoiseIndexes
<1>2. PICK c \in cs : path = [columns |-> <<c>>]
  BY <1>1
<1>3. ToSetOf(path.columns) = {c}
  BY <1>2 DEF ToSetOf
<1>4. c \in FieldNames(fields)
  BY <1>1 DEF Named, NonKey, FieldNames
<1> QED BY <1>3, <1>4

\* The column a foreign key leaves by is not of the key; there is at most one.
LEMMA SourceIsNonKey ==
  ASSUME NEW fields, NEW from \in SourceFields(fields), GoodFields(fields)
  PROVE  from \in Named(fields, NonKey(fields))
BY DEF SourceFields, Named, FirstOf

\* The column it enters is of the key.
LEMMA TargetIsKey ==
  ASSUME NEW fields, NEW to \in TargetFields(fields), GoodFields(fields)
  PROVE  to \in Named(fields, Key(fields))
BY DEF TargetFields, Named, FirstOf, Key

-----------------------------------------------------------------------------
\* The name of the noise table made in round i, counted from 1: it ends in the index.
Indexed(name, i) == \E stem : name = <<stem, i - 1>>

LEMMA IndexTellsName ==
  ASSUME NEW i \in Nat, NEW j \in Nat, NEW name, Indexed(name, i), Indexed(name, j)
  PROVE  i = j
<1>1. PICK stem : name = <<stem, i - 1>>
  BY DEF Indexed
<1>2. PICK other : name = <<other, j - 1>>
  BY DEF Indexed
<1>3. i - 1 = j - 1
  BY <1>1, <1>2, NamesDiffer
<1> QED BY <1>3

SignalInv ==
    /\ signal \in Seq(ToSetOf(signal)) /\ total \in Nat
    /\ Usable(signal, total)

\* What is known of the noise tables made so far.
NoiseInv ==
    /\ \E R : noise \in Seq(R)
    /\ Len(noise) <= NoiseCount
    /\ \A i \in DOMAIN noise :
          /\ Indexed(noise[i].name, i)
          /\ noise[i].name \notin SignalNames
          /\ GoodFields(noise[i].fields)
          /\ GoodPaths(noise[i].fields, noise[i].paths)

\* A noise edge of round i.
NoiseEdge(e, i) ==
    /\ e.from = noise[i].name
    /\ e.fromField \in Named(noise[i].fields, NonKey(noise[i].fields))
    /\ \E j \in DOMAIN noise : /\ j < i /\ e.to = noise[j].name
                              /\ e.toField \in Named(noise[j].fields, Key(noise[j].fields))

EdgeInv ==
    /\ stage \in {"edges", "done"} =>
          /\ Len(noise) = NoiseCount
          /\ at \in Nat
          /\ \A e \in edges \ SignalEdges : \E i \in DOMAIN noise :
                 /\ i < at /\ NoiseEdge(e, i)
                 /\ \A other \in edges \ SignalEdges : other.from = e.from => other = e
    /\ stage = "edges" => SignalEdges \subseteq edges

\* What the last loop leaves, and that it leaves all that is right.
Valid(e) == /\ {e.from, e.to} \subseteq NamesOf(Export)
            /\ e.fromField \in FieldsOf(Export, e.from)
            /\ e.toField \in FieldsOf(Export, e.to)

DoneInv ==
    stage = "done" =>
        /\ \A e \in edges : Valid(e)
        /\ \A e \in SignalEdges : Valid(e) => e \in edges

IInv ==
    /\ stage \in {"tables", "edges", "done"}
    /\ SignalInv /\ NoiseInv /\ EdgeInv /\ DoneInv

-----------------------------------------------------------------------------
LEMMA InitIInv == Init => IInv
<1> SUFFICES ASSUME Init
             PROVE  IInv
  OBVIOUS
<1>1. PICK config \in Configs : signal = config.signal /\ total = config.total
  BY DEF Init
<1>2. SignalInv
  BY <1>1, GeneratorAssumption DEF SignalInv
<1>3. noise \in Seq({}) /\ Len(noise) = 0 /\ DOMAIN noise = {}
  BY DEF Init
<1>4. NoiseCount \in Nat
  BY <1>2 DEF NoiseCount, SignalInv
<1> QED BY <1>2, <1>3, <1>4 DEF Init, IInv, NoiseInv, EdgeInv, DoneInv

\* A round of the first loop adds a table with a name of its own.
LEMMA TableStep ==
  ASSUME IInv, AddNoiseTable
  PROVE  IInv'
<1>1. PICK name \in NoiseNames(Len(noise)), composite \in BOOLEAN :
         \E fields \in NoiseFields(composite) : \E paths \in NoiseIndexes(fields) :
            noise' = Append(noise, [name |-> name, fields |-> fields, paths |-> paths])
  BY DEF AddNoiseTable
<1> PICK fields \in NoiseFields(composite) : \E paths \in NoiseIndexes(fields) :
            noise' = Append(noise, [name |-> name, fields |-> fields, paths |-> paths])
  BY <1>1
<1>2. PICK paths \in NoiseIndexes(fields) :
         noise' = Append(noise, [name |-> name, fields |-> fields, paths |-> paths])
  OBVIOUS
<1>3. /\ stage = "tables" /\ stage' = "tables" /\ signal' = signal /\ total' = total
      /\ edges' = edges /\ Len(noise) < NoiseCount
  BY DEF AddNoiseTable
<1> DEFINE table == [name |-> name, fields |-> fields, paths |-> paths]
<1>4. PICK R : noise \in Seq(R)
  BY DEF IInv, NoiseInv
<1>5. /\ noise' \in Seq(R \cup {table}) /\ Len(noise') = Len(noise) + 1 /\ Len(noise) \in Nat
      /\ DOMAIN noise = 1..Len(noise) /\ DOMAIN noise' = 1..(Len(noise) + 1)
      /\ \A i \in 1..Len(noise) : noise'[i] = noise[i]
      /\ noise'[Len(noise) + 1] = table
  BY <1>2, <1>4
<1>6. NoiseCount \in Nat /\ NoiseCount <= total
  BY DEF NoiseCount, IInv, SignalInv
<1>7. Indexed(name, Len(noise) + 1) /\ name \notin SignalNames
  <2>1. CASE \E stem \in NoiseStems : name = <<stem, Len(noise)>> /\ name \notin UsedNames
    BY <2>1, <1>5 DEF Indexed, UsedNames, SignalNames
  <2>2. CASE name = <<"noise_table", Len(noise)>>
    <3>1. Len(noise) \in 0..total
      BY <1>3, <1>5, <1>6 DEF IInv, SignalInv
    <3>2. \A i \in DOMAIN signal : signal[i].name # name
      BY <2>2, <3>1 DEF IInv, SignalInv, Usable
    <3> QED BY <1>5, <2>2, <3>2 DEF Indexed, SignalNames
  <2> QED BY <2>1, <2>2 DEF NoiseNames
<1>8. GoodFields(fields) /\ GoodPaths(fields, paths)
  BY FieldsDiffer, PathsNameFields
<1>9. \A i \in DOMAIN noise' :
          /\ Indexed(noise'[i].name, i)
          /\ noise'[i].name \notin SignalNames
          /\ GoodFields(noise'[i].fields)
          /\ GoodPaths(noise'[i].fields, noise'[i].paths)
  <2> SUFFICES ASSUME NEW i \in DOMAIN noise'
               PROVE  /\ Indexed(noise'[i].name, i)
                      /\ noise'[i].name \notin SignalNames
                      /\ GoodFields(noise'[i].fields)
                      /\ GoodPaths(noise'[i].fields, noise'[i].paths)
    OBVIOUS
  <2>1. CASE i \in 1..Len(noise)
    BY <1>5, <2>1 DEF IInv, NoiseInv
  <2>2. CASE i = Len(noise) + 1
    BY <1>5, <1>7, <1>8, <2>2
  <2> QED BY <1>5, <2>1, <2>2
<1>10. NoiseCount' = NoiseCount /\ SignalNames' = SignalNames
  BY <1>3 DEF NoiseCount, SignalNames
<1>11. NoiseInv'
  <2>1. \E RR : noise' \in Seq(RR)
    BY <1>5
  <2>2. Len(noise') <= NoiseCount
    BY <1>3, <1>5, <1>6
  <2> QED BY <1>9, <1>10, <2>1, <2>2 DEF NoiseInv, Indexed, GoodFields, GoodPaths, Key, FieldNames, ToSetOf
<1> QED BY <1>3, <1>11 DEF IInv, SignalInv, EdgeInv, DoneInv

LEMMA StartStep ==
  ASSUME IInv, StartEdges
  PROVE  IInv'
<1>1. /\ UNCHANGED <<signal, total, noise>> /\ edges' = SignalEdges /\ stage' = "edges" /\ at' = 1
      /\ Len(noise) = NoiseCount
  BY DEF StartEdges
<1>2. NoiseCount' = NoiseCount /\ SignalNames' = SignalNames /\ SignalEdges' = SignalEdges
  BY <1>1 DEF NoiseCount, SignalNames, SignalEdges
<1> QED BY <1>1, <1>2 DEF IInv, SignalInv, NoiseInv, EdgeInv, DoneInv

\* A round of the second loop gives its table one key at most, to an earlier table.
LEMMA EdgeStep ==
  ASSUME IInv, AddNoiseEdge
  PROVE  IInv'
<1>1. /\ UNCHANGED <<signal, total, noise>> /\ stage = "edges" /\ stage' = "edges"
      /\ at \in Nat /\ at' = at + 1 /\ at <= Len(noise)
      /\ \/ edges' = edges
         \/ /\ at > 1
            /\ \E from \in SourceFields(noise[at].fields), target \in 1..(at - 1) :
               \E to \in TargetFields(noise[target].fields) :
                  edges' = edges \cup {Edge(noise[at].name, from, noise[target].name, to)}
  BY DEF AddNoiseEdge, IInv, EdgeInv
<1>2. DOMAIN noise = 1..Len(noise) /\ Len(noise) \in Nat
  <2>1. PICK R : noise \in Seq(R)
    BY DEF IInv, NoiseInv
  <2> QED BY <2>1
<1>3. /\ NoiseCount' = NoiseCount /\ SignalNames' = SignalNames /\ SignalEdges' = SignalEdges
      /\ \A e, i : NoiseEdge(e, i)' <=> NoiseEdge(e, i)
  BY <1>1 DEF NoiseCount, SignalNames, SignalEdges, NoiseEdge, Key, NonKey, Named
<1>4. \A e \in edges' \ SignalEdges : \E i \in DOMAIN noise :
          /\ i < at + 1 /\ NoiseEdge(e, i)
          /\ \A other \in edges' \ SignalEdges : other.from = e.from => other = e
  <2>1. \A e \in edges \ SignalEdges : \E i \in DOMAIN noise :
           /\ i < at /\ NoiseEdge(e, i)
           /\ \A other \in edges \ SignalEdges : other.from = e.from => other = e
    BY <1>1 DEF IInv, EdgeInv
  <2>2. CASE edges' = edges
    <3> SUFFICES ASSUME NEW e \in edges \ SignalEdges
                 PROVE  \E i \in DOMAIN noise :
                           /\ i < at + 1 /\ NoiseEdge(e, i)
                           /\ \A other \in edges \ SignalEdges : other.from = e.from => other = e
      BY <2>2
    <3>1. PICK i \in DOMAIN noise :
             /\ i < at /\ NoiseEdge(e, i)
             /\ \A other \in edges \ SignalEdges : other.from = e.from => other = e
      BY <2>1
    <3> QED BY <1>1, <1>2, <3>1
  <2>3. CASE edges' # edges
    <3>1. PICK from \in SourceFields(noise[at].fields), target \in 1..(at - 1) :
             \E to \in TargetFields(noise[target].fields) :
                edges' = edges \cup {Edge(noise[at].name, from, noise[target].name, to)}
      BY <1>1, <2>3
    <3>2. PICK to \in TargetFields(noise[target].fields) :
             edges' = edges \cup {Edge(noise[at].name, from, noise[target].name, to)}
      BY <3>1
    <3> DEFINE new == Edge(noise[at].name, from, noise[target].name, to)
    <3>3. at \in DOMAIN noise /\ target \in DOMAIN noise /\ target < at
      BY <1>1, <1>2, <2>3
    <3>4. NoiseEdge(new, at) /\ new.from = noise[at].name
      <4>1. GoodFields(noise[at].fields) /\ GoodFields(noise[target].fields)
        BY <3>3 DEF IInv, NoiseInv
      <4>2. from \in Named(noise[at].fields, NonKey(noise[at].fields))
        BY <4>1, SourceIsNonKey
      <4>3. to \in Named(noise[target].fields, Key(noise[target].fields))
        BY <4>1, TargetIsKey
      <4> QED BY <3>3, <4>2, <4>3 DEF NoiseEdge, Edge
    <3>5. \A e \in edges \ SignalEdges : e.from # new.from
      <4> SUFFICES ASSUME NEW e \in edges \ SignalEdges, e.from = new.from
                   PROVE  FALSE
        OBVIOUS
      <4>1. PICK i \in DOMAIN noise : i < at /\ NoiseEdge(e, i)
        BY <2>1
      <4>2. noise[i].name = noise[at].name
        BY <3>4, <4>1 DEF NoiseEdge
      <4>3. Indexed(noise[i].name, i) /\ Indexed(noise[at].name, at) /\ i \in Nat /\ at \in Nat
        BY <1>1, <1>2, <3>3 DEF IInv, NoiseInv
      <4> QED BY <4>1, <4>2, <4>3, IndexTellsName
    <3> SUFFICES ASSUME NEW e \in edges' \ SignalEdges
                 PROVE  \E i \in DOMAIN noise :
                           /\ i < at + 1 /\ NoiseEdge(e, i)
                           /\ \A other \in edges' \ SignalEdges : other.from = e.from => other = e
      OBVIOUS
    <3> HIDE DEF new
    <3>6. edges' = edges \cup {new}
      BY <3>2 DEF new
    <3>7. CASE e = new
      BY <1>1, <3>3, <3>4, <3>5, <3>6, <3>7
    <3>8. CASE e # new
      <4>1. PICK i \in DOMAIN noise :
               /\ i < at /\ NoiseEdge(e, i)
               /\ \A other \in edges \ SignalEdges : other.from = e.from => other = e
        BY <2>1, <3>6, <3>8
      <4>2. \A other \in edges' \ SignalEdges : other.from = e.from => other = e
        BY <3>5, <3>6, <3>8, <4>1
      <4>3. i < at + 1
        BY <1>1, <1>2, <4>1
      <4> QED BY <4>1, <4>2, <4>3
    <3> QED BY <3>7, <3>8
  <2> QED BY <2>2, <2>3
<1>5. SignalEdges \subseteq edges'
  BY <1>1 DEF IInv, EdgeInv
<1>6. EdgeInv'
  BY <1>1, <1>3, <1>4, <1>5 DEF EdgeInv, IInv
<1> QED BY <1>1, <1>3, <1>6 DEF IInv, SignalInv, NoiseInv, DoneInv

\* The last loop only takes edges away.
LEMMA DropStep ==
  ASSUME IInv, DropInvalidEdges
  PROVE  IInv'
<1>1. /\ UNCHANGED <<signal, total, noise, at>> /\ stage = "edges" /\ stage' = "done"
      /\ edges' = {e \in edges : Valid(e)}
  BY DEF DropInvalidEdges, Valid
<1>2. /\ NoiseCount' = NoiseCount /\ SignalNames' = SignalNames /\ SignalEdges' = SignalEdges
      /\ \A e, i : NoiseEdge(e, i)' <=> NoiseEdge(e, i)
  BY <1>1 DEF NoiseCount, SignalNames, SignalEdges, NoiseEdge, Key, NonKey, Named
<1>3. \A e : Valid(e)' <=> Valid(e)
  <2>1. Export.entities' = Export.entities
    BY <1>1 DEF Export, Signals, Noises
  <2> QED BY <2>1 DEF Valid, NamesOf, FieldsOf
<1>4. EdgeInv'
  BY <1>1, <1>2 DEF EdgeInv, IInv
<1>5. DoneInv'
  BY <1>1, <1>2, <1>3 DEF DoneInv, EdgeInv, IInv
<1> QED BY <1>1, <1>2, <1>4, <1>5 DEF IInv, SignalInv, NoiseInv

LEMMA Inductive == IInv /\ [Next]_vars => IInv'
<1> SUFFICES ASSUME IInv, [Next]_vars
             PROVE  IInv'
  OBVIOUS
<1>1. CASE UNCHANGED vars
  <2>1. UNCHANGED <<signal, total, noise, edges, stage, at>>
    BY <1>1 DEF vars
  <2>2. /\ NoiseCount' = NoiseCount /\ SignalNames' = SignalNames /\ SignalEdges' = SignalEdges
        /\ \A e, i : NoiseEdge(e, i)' <=> NoiseEdge(e, i)
        /\ Export' = Export
    BY <2>1 DEF NoiseCount, SignalNames, SignalEdges, NoiseEdge, Key, NonKey, Named, Export, Signals, Noises
  <2>3. \A e : Valid(e)' <=> Valid(e)
    BY <2>2 DEF Valid
  <2> QED BY <2>1, <2>2, <2>3 DEF IInv, SignalInv, NoiseInv, EdgeInv, DoneInv
<1>2. CASE Stop
  BY <1>1, <1>2 DEF Stop
<1> QED BY <1>1, <1>2, TableStep, StartStep, EdgeStep, DropStep DEF Next

-----------------------------------------------------------------------------
\* The tables of the export, each once.
LEMMA Tables ==
  ASSUME SignalInv, NoiseInv
  PROVE  /\ Export.entities = Signals \cup Noises
         /\ DOMAIN signal = 1..Len(signal) /\ Len(signal) \in Nat
         /\ DOMAIN noise = 1..Len(noise) /\ Len(noise) \in Nat
         /\ \A a \in Signals : \E i \in DOMAIN signal :
               a.at = i /\ a.name = signal[i].name /\ a.fields = signal[i].fields /\ a.paths = {}
         /\ \A a \in Noises : \E i \in DOMAIN noise :
               /\ a.name = noise[i].name /\ a.paths = noise[i].paths /\ a.at = Len(signal) + i
               /\ a.fields = [j \in DOMAIN noise[i].fields |-> noise[i].fields[j].name]
         /\ NamesOf(Export) = SignalNames \cup {noise[i].name : i \in DOMAIN noise}
         /\ \A a, b \in Export.entities : a.name = b.name => a = b
<1>1. Export.entities = Signals \cup Noises
  BY DEF Export
<1>2. /\ DOMAIN signal = 1..Len(signal) /\ Len(signal) \in Nat
      /\ DOMAIN noise = 1..Len(noise) /\ Len(noise) \in Nat
  <2>1. PICK R : noise \in Seq(R)
    BY DEF NoiseInv
  <2> QED BY <2>1 DEF SignalInv
<1>3. \A a \in Signals : \E i \in DOMAIN signal :
         a.at = i /\ a.name = signal[i].name /\ a.fields = signal[i].fields /\ a.paths = {}
  BY DEF Signals
<1>4. \A a \in Noises : \E i \in DOMAIN noise :
         /\ a.name = noise[i].name /\ a.paths = noise[i].paths /\ a.at = Len(signal) + i
         /\ a.fields = [j \in DOMAIN noise[i].fields |-> noise[i].fields[j].name]
  BY DEF Noises
<1>5. NamesOf(Export) = SignalNames \cup {noise[i].name : i \in DOMAIN noise}
  <2>1. {a.name : a \in Signals} \subseteq SignalNames
    BY <1>3 DEF SignalNames
  <2>2. ASSUME NEW i \in DOMAIN signal
        PROVE  signal[i].name \in {a.name : a \in Signals}
    <3> DEFINE a == [at |-> i, name |-> signal[i].name, fields |-> signal[i].fields, paths |-> {}]
    <3>1. a \in Signals
      BY DEF Signals
    <3>2. a.name = signal[i].name
      OBVIOUS
    <3> QED BY <3>1, <3>2
  <2>3. ASSUME NEW a \in Noises
        PROVE  a.name \in {noise[i].name : i \in DOMAIN noise}
    <3>1. PICK i \in DOMAIN noise : a.name = noise[i].name
      BY <1>4
    <3> QED BY <3>1
  <2>4. ASSUME NEW i \in DOMAIN noise
        PROVE  noise[i].name \in {a.name : a \in Noises}
    <3> DEFINE a == [at |-> Len(signal) + i, name |-> noise[i].name, paths |-> noise[i].paths,
                     fields |-> [j \in DOMAIN noise[i].fields |-> noise[i].fields[j].name]]
    <3>1. a \in Noises
      BY DEF Noises
    <3>2. a.name = noise[i].name
      OBVIOUS
    <3> QED BY <3>1, <3>2
  <2>5. NamesOf(Export) = {a.name : a \in Signals} \cup {a.name : a \in Noises}
    BY <1>1 DEF NamesOf
  <2> QED BY <2>1, <2>2, <2>3, <2>4, <2>5 DEF SignalNames
<1>6. ASSUME NEW a \in Signals, NEW b \in Signals, a.name = b.name
      PROVE  a = b
  <2>1. PICK i \in DOMAIN signal :
           a = [at |-> i, name |-> signal[i].name, fields |-> signal[i].fields, paths |-> {}]
    BY DEF Signals
  <2>2. PICK j \in DOMAIN signal :
           b = [at |-> j, name |-> signal[j].name, fields |-> signal[j].fields, paths |-> {}]
    BY DEF Signals
  <2>3. i = j
    BY <1>6, <2>1, <2>2 DEF SignalInv, Usable
  <2> QED BY <2>1, <2>2, <2>3
<1>7. ASSUME NEW a \in Noises, NEW b \in Noises, a.name = b.name
      PROVE  a = b
  <2> DEFINE table(i) == [at |-> Len(signal) + i, name |-> noise[i].name, paths |-> noise[i].paths,
                          fields |-> [j \in DOMAIN noise[i].fields |-> noise[i].fields[j].name]]
  <2>1. PICK i \in DOMAIN noise : a = table(i)
    BY DEF Noises
  <2>2. PICK j \in DOMAIN noise : b = table(j)
    BY DEF Noises
  <2>3. noise[i].name = noise[j].name
    BY <1>7, <2>1, <2>2
  <2>4. Indexed(noise[i].name, i) /\ Indexed(noise[j].name, j) /\ i \in Nat /\ j \in Nat
    BY <1>2 DEF NoiseInv
  <2>5. i = j
    BY <2>3, <2>4, IndexTellsName
  <2> QED BY <2>1, <2>2, <2>5
<1>8. ASSUME NEW a \in Signals, NEW b \in Noises
      PROVE  a.name # b.name
  <2>1. PICK i \in DOMAIN signal : a.name = signal[i].name
    BY <1>3
  <2>2. PICK j \in DOMAIN noise : b.name = noise[j].name
    BY <1>4
  <2>3. noise[j].name \notin SignalNames
    BY DEF NoiseInv
  <2> QED BY <2>1, <2>2, <2>3 DEF SignalNames
<1> QED BY <1>1, <1>2, <1>3, <1>4, <1>5, <1>6, <1>7, <1>8

\* The fields of a table in the export are those of a good table.
LEMMA TableFields ==
  ASSUME SignalInv, NoiseInv, NEW ent \in Export.entities
  PROVE  /\ ent.name # << >> /\ << >> \notin ToSetOf(ent.fields)
         /\ \A i, j \in DOMAIN ent.fields : ent.fields[i] = ent.fields[j] => i = j
         /\ \A path \in ent.paths : ToSetOf(path.columns) \subseteq ToSetOf(ent.fields)
         /\ FieldsOf(Export, ent.name) = ToSetOf(ent.fields)
<1>1. FieldsOf(Export, ent.name) = ToSetOf(ent.fields)
  <2>1. {e \in Export.entities : e.name = ent.name} = {ent}
    BY Tables
  <2> QED BY <2>1 DEF FieldsOf
<1>2. CASE ent \in Signals
  <2>1. PICK i \in DOMAIN signal :
           ent.name = signal[i].name /\ ent.fields = signal[i].fields /\ ent.paths = {}
    BY <1>2, Tables
  <2> QED BY <1>1, <2>1 DEF SignalInv, Usable, Distinct
<1>3. CASE ent \in Noises
  <2>1. PICK i \in DOMAIN noise :
           /\ ent.name = noise[i].name /\ ent.paths = noise[i].paths
           /\ ent.fields = [j \in DOMAIN noise[i].fields |-> noise[i].fields[j].name]
    BY <1>3, Tables
  <2>2. /\ Indexed(ent.name, i) /\ GoodFields(noise[i].fields)
        /\ GoodPaths(noise[i].fields, ent.paths)
    BY <2>1 DEF NoiseInv
  <2>3. ent.name # << >>
    BY <2>2, NamesDiffer DEF Indexed
  <2>4. ToSetOf(ent.fields) = FieldNames(noise[i].fields)
    BY <2>1 DEF ToSetOf, FieldNames
  <2>5. << >> \notin ToSetOf(ent.fields)
    BY <2>2, <2>4 DEF GoodFields, FieldNames
  <2>6. \A k, j \in DOMAIN ent.fields : ent.fields[k] = ent.fields[j] => k = j
    BY <2>1, <2>2 DEF GoodFields
  <2>7. \A path \in ent.paths : ToSetOf(path.columns) \subseteq ToSetOf(ent.fields)
    BY <2>2, <2>4 DEF GoodPaths
  <2> QED BY <1>1, <2>3, <2>5, <2>6, <2>7
<1> QED BY <1>2, <1>3, Tables

\* What Validate and ValidateStrict ask, of the export at the end.
LEMMA StrictAtEnd ==
  ASSUME IInv
  PROVE  GeneratedIsStrict
<1> SUFFICES ASSUME stage = "done"
             PROVE  ValidateStrict(Export)
  BY DEF GeneratedIsStrict
<1>1. SignalInv /\ NoiseInv /\ \A e \in edges : Valid(e)
  BY DEF IInv, DoneInv
<1>2. Export.version # "" /\ Export.edges = edges
  BY DEF Export
<1>3. \A a, b \in Export.entities : a.name = b.name => a = b
  BY <1>1, Tables
<1>4. << >> \notin NamesOf(Export)
  BY <1>1, TableFields DEF NamesOf
<1>5. \A name : << >> \notin FieldsOf(Export, name)
  BY <1>1, TableFields DEF FieldsOf
<1>6. Validate(Export)
  BY <1>1, <1>2, <1>3, <1>4, <1>5 DEF Validate, Valid
<1>7. \A ent \in Export.entities :
          /\ << >> \notin ToSetOf(ent.fields)
          /\ \A i, j \in DOMAIN ent.fields : ent.fields[i] = ent.fields[j] => i = j
          /\ \A path \in ent.paths : ToSetOf(path.columns) \ DottedNames \subseteq ToSetOf(ent.fields)
  BY <1>1, TableFields
<1> QED BY <1>1, <1>2, <1>6, <1>7 DEF ValidateStrict, Valid

\* Whatever is drawn, and for any usable signal tables, the export passes the strict
\* validation.
THEOREM AlwaysStrict == Spec => []GeneratedIsStrict
<1>1. IInv => GeneratedIsStrict
  BY StrictAtEnd
<1> QED BY InitIInv, Inductive, <1>1, PTL DEF Spec

\* The keys between noise tables lead to earlier ones, at most one from each.
LEMMA Layers ==
  ASSUME IInv
  PROVE  NoiseIsLayered
<1> SUFFICES ASSUME stage \in {"edges", "done"}, NEW e \in edges \ SignalEdges
             PROVE  \E i, j \in DOMAIN noise :
                      /\ j < i
                      /\ e.from = noise[i].name /\ e.to = noise[j].name
                      /\ e.fromField \in Named(noise[i].fields, NonKey(noise[i].fields))
                      /\ e.toField \in Named(noise[j].fields, Key(noise[j].fields))
                      /\ \A other \in edges \ SignalEdges : other.from = e.from => other = e
  BY DEF NoiseIsLayered
<1>1. PICK i \in DOMAIN noise :
         /\ NoiseEdge(e, i)
         /\ \A other \in edges \ SignalEdges : other.from = e.from => other = e
  BY DEF IInv, EdgeInv
<1> QED BY <1>1 DEF NoiseEdge

\* Noise tables refer to earlier noise tables only: their foreign keys form no cycle.
THEOREM LayeredNoise == Spec => []NoiseIsLayered
<1>1. IInv => NoiseIsLayered
  BY Layers
<1> QED BY InitIInv, Inductive, <1>1, PTL DEF Spec

-----------------------------------------------------------------------------
\* No two tables have one name: there are as many names as tables.
LEMMA TablesCounted ==
  ASSUME SignalInv, NoiseInv
  PROVE  Cardinality(NamesOf(Export)) = Len(signal) + Len(noise)
<1> DEFINE m == Len(signal)
           n == Len(noise)
           name(k) == IF k <= m THEN signal[k].name ELSE noise[k - m].name
           f == [k \in 1..m + n |-> name(k)]
<1>1. /\ m \in Nat /\ n \in Nat /\ DOMAIN signal = 1..m /\ DOMAIN noise = 1..n
      /\ NamesOf(Export) = SignalNames \cup {noise[i].name : i \in DOMAIN noise}
  BY Tables
<1>2. /\ \A i, j \in 1..m : signal[i].name = signal[j].name => i = j
      /\ \A i \in 1..n : noise[i].name \notin SignalNames
      /\ \A i \in 1..m : signal[i].name \in SignalNames
  BY <1>1 DEF SignalInv, Usable, NoiseInv, SignalNames
<1>3. ASSUME NEW i \in 1..n, NEW j \in 1..n, noise[i].name = noise[j].name
      PROVE  i = j
  <2>1. Indexed(noise[i].name, i) /\ Indexed(noise[j].name, j) /\ i \in Nat /\ j \in Nat
    BY <1>1 DEF NoiseInv
  <2> QED BY <1>3, <2>1, IndexTellsName
<1> HIDE DEF m, n
<1>4. \A k \in 1..m + n : k \in 1..m \/ (~(k <= m) /\ k - m \in 1..n)
  BY <1>1
<1>5. \A k \in 1..m + n : name(k) \in NamesOf(Export)
  BY <1>1, <1>2, <1>4
<1>6. ASSUME NEW k \in 1..m + n, NEW l \in 1..m + n, name(k) = name(l)
      PROVE  k = l
  <2>1. CASE k \in 1..m /\ l \in 1..m
    BY <1>1, <1>2, <1>6, <2>1
  <2>2. CASE k \in 1..m /\ ~(l <= m)
    BY <1>1, <1>2, <1>4, <1>6, <2>2
  <2>3. CASE ~(k <= m) /\ l \in 1..m
    BY <1>1, <1>2, <1>4, <1>6, <2>3
  <2>4. CASE ~(k <= m) /\ ~(l <= m)
    <3>1. k - m \in 1..n /\ l - m \in 1..n /\ noise[k - m].name = noise[l - m].name
      BY <1>1, <1>4, <1>6, <2>4
    <3>2. k - m = l - m
      BY <1>3, <3>1
    <3> QED BY <1>1, <3>2
  <2> QED BY <1>4, <2>1, <2>2, <2>3, <2>4
<1>7. ASSUME NEW word \in NamesOf(Export)
      PROVE  \E k \in 1..m + n : name(k) = word
  <2>1. CASE word \in SignalNames
    <3>1. PICK i \in 1..m : word = signal[i].name
      BY <1>1, <2>1 DEF SignalNames
    <3>2. i \in 1..m + n /\ i <= m
      BY <1>1
    <3> QED BY <3>1, <3>2
  <2>2. CASE word \notin SignalNames
    <3>1. PICK i \in 1..n : word = noise[i].name
      BY <1>1, <2>2
    <3>2. m + i \in 1..m + n /\ ~(m + i <= m) /\ (m + i) - m = i
      BY <1>1
    <3> QED BY <3>1, <3>2
  <2> QED BY <2>1, <2>2
<1> HIDE DEF name
<1>8. f \in [1..m + n -> NamesOf(Export)]
  BY <1>5
<1>9. f \in Bijection(1..m + n, NamesOf(Export))
  <2>1. \A k, l \in 1..m + n : f[k] = f[l] => k = l
    BY <1>6
  <2>2. \A word \in NamesOf(Export) : \E k \in 1..m + n : f[k] = word
    BY <1>7
  <2> QED BY <1>8, <2>1, <2>2, Fun_IsBij
<1>10. ExistsBijection(1..m + n, NamesOf(Export))
  BY <1>9 DEF ExistsBijection
<1>11. m + n \in Nat
  BY <1>1
<1>12. Cardinality(NamesOf(Export)) = m + n
  BY <1>10, <1>11, FS_CountingElements
<1> QED BY <1>12 DEF m, n

\* A key of the scenario survives the last loop when its tables and columns are there.
LEMMA ValidMeansIncluded ==
  ASSUME SignalInv, NoiseInv, NEW e \in SignalEdges
  PROVE  Valid(e) <=> HasColumn(e.from, e.fromField) /\ HasColumn(e.to, e.toField)
<1>1. (\E w : e.from = <<w>>) /\ (\E w : e.to = <<w>>)
  BY DEF SignalEdges, Edge
<1>2. ASSUME NEW name, NEW field, NEW w, name = <<w>>
      PROVE  name \in NamesOf(Export) /\ field \in FieldsOf(Export, name) <=> HasColumn(name, field)
  <2>1. ASSUME NEW ent \in Export.entities, ent.name = name
        PROVE  ent \in Signals
    <3> SUFFICES ASSUME ent \in Noises PROVE FALSE
      BY Tables
    <3>1. PICK i \in DOMAIN noise : ent.name = noise[i].name
      BY Tables
    <3>2. PICK stem : noise[i].name = <<stem, i - 1>>
      BY DEF NoiseInv, Indexed
    <3> QED BY <1>2, <2>1, <3>1, <3>2, NamesDiffer
  <2>2. ASSUME name \in NamesOf(Export), field \in FieldsOf(Export, name)
        PROVE  HasColumn(name, field)
    <3>1. PICK ent \in Export.entities : ent.name = name
      BY <2>2 DEF NamesOf
    <3>2. field \in ToSetOf(ent.fields)
      BY <2>2, <3>1, TableFields
    <3>3. PICK i \in DOMAIN signal : ent.name = signal[i].name /\ ent.fields = signal[i].fields
      BY <2>1, <3>1, Tables
    <3> QED BY <3>1, <3>2, <3>3 DEF HasColumn
  <2>3. ASSUME HasColumn(name, field)
        PROVE  name \in NamesOf(Export) /\ field \in FieldsOf(Export, name)
    <3>1. PICK i \in DOMAIN signal : signal[i].name = name /\ field \in ToSetOf(signal[i].fields)
      BY <2>3 DEF HasColumn
    <3> DEFINE ent == [at |-> i, name |-> signal[i].name, fields |-> signal[i].fields, paths |-> {}]
    <3>2. ent \in Signals /\ ent.name = name /\ ent.fields = signal[i].fields
      BY <3>1 DEF Signals
    <3> HIDE DEF ent
    <3>3. ent \in Export.entities
      BY <3>2, Tables
    <3>4. FieldsOf(Export, name) = ToSetOf(ent.fields)
      BY <3>2, <3>3, TableFields
    <3> QED BY <3>1, <3>2, <3>3, <3>4 DEF NamesOf
  <2> QED BY <2>2, <2>3
<1>3. e.from \in NamesOf(Export) /\ e.fromField \in FieldsOf(Export, e.from) <=> HasColumn(e.from, e.fromField)
  BY <1>1, <1>2
<1>4. e.to \in NamesOf(Export) /\ e.toField \in FieldsOf(Export, e.to) <=> HasColumn(e.to, e.toField)
  BY <1>1, <1>2
<1> QED BY <1>3, <1>4 DEF Valid

LEMMA SignalAtEnd ==
  ASSUME IInv
  PROVE  SignalIsIntact
<1> SUFFICES ASSUME stage = "done"
             PROVE  /\ Cardinality(NamesOf(Export)) = Len(signal) + NoiseCount
                    /\ {e \in edges : {e.from, e.to} \cap SignalNames # {}}
                         = {e \in SignalEdges : HasColumn(e.from, e.fromField) /\ HasColumn(e.to, e.toField)}
  BY DEF SignalIsIntact
<1>1. SignalInv /\ NoiseInv /\ EdgeInv /\ DoneInv /\ Len(noise) = NoiseCount
  BY DEF IInv, EdgeInv
<1>2. Cardinality(NamesOf(Export)) = Len(signal) + NoiseCount
  BY <1>1, TablesCounted
<1>3. ASSUME NEW e \in edges, {e.from, e.to} \cap SignalNames # {}
      PROVE  e \in SignalEdges
  <2> SUFFICES ASSUME e \notin SignalEdges PROVE FALSE
    OBVIOUS
  <2>1. PICK i \in DOMAIN noise : NoiseEdge(e, i)
    BY <1>1 DEF EdgeInv
  <2>2. PICK j \in DOMAIN noise : e.to = noise[j].name
    BY <2>1 DEF NoiseEdge
  <2>3. noise[i].name \notin SignalNames /\ noise[j].name \notin SignalNames
    BY <1>1 DEF NoiseInv
  <2> QED BY <1>3, <2>1, <2>2, <2>3 DEF NoiseEdge
<1>4. \A e \in SignalEdges : e \in edges <=> Valid(e)
  BY <1>1 DEF DoneInv
<1>5. \A e \in SignalEdges : Valid(e) <=> HasColumn(e.from, e.fromField) /\ HasColumn(e.to, e.toField)
  BY <1>1, ValidMeansIncluded
<1>6. \A e \in SignalEdges : HasColumn(e.from, e.fromField) => e.from \in SignalNames
  BY DEF HasColumn, SignalNames
<1> QED BY <1>2, <1>3, <1>4, <1>5, <1>6

\* As many tables as were asked for, and the scenario's keys as they were.
THEOREM SignalKept == Spec => []SignalIsIntact
<1>1. IInv => SignalIsIntact
  BY SignalAtEnd
<1> QED BY InitIInv, Inductive, <1>1, PTL DEF Spec
=============================================================================
