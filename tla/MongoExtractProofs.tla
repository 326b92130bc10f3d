-------------------------- MODULE MongoExtractProofs --------------------------
(***************************************************************************)
(* For every database, every sample and any number of commands of other    *)
(* clients: an export of MongoDB has each collection once, its edges are   *)
(* between collections, and each field that looks like a reference is      *)
(* either an edge or the subject of exactly one warning.  Nothing is used  *)
(* about which fields and types a sample or a validator yields.            *)
(***************************************************************************)
EXTENDS MongoExtract, SequenceLemmas

Stages == {"validators", "count", "sample", "indexes", "done", "failed"}

Finished == NamesOf(Export)

\* The collections left are those without an entity, each once.
TodoInv ==
    /\ stage \in Stages
    /\ todo \in Seq(Colls)
    /\ \A i, j \in DOMAIN todo : todo[i] = todo[j] => i = j
    /\ stage \in {"sample", "indexes"} => todo # << >>
    /\ stage = "done" => todo = << >>
    /\ Finished \cap ToSetOf(todo) = {}
    /\ Finished \cup ToSetOf(todo) = Colls
    /\ \A a, b \in entities : a.name = b.name => a = b

\* A warning about a reference.
About(w, c, f) == w[1] \in {"objectId", "skipped"} /\ <<w[2], w[3]>> = <<c, f>>

\* An edge is the inferred one of a field of its entity, and its target a collection.
EdgeInv ==
    \A e \in edges :
        /\ e = InferredEdge(e.from, e.fromField)
        /\ Reference(e.fromField) /\ RefBase(e.fromField) \in Colls
        /\ \E ent \in entities : ent.name = e.from /\ e.fromField \in ToSetOf(ent.fields)

\* A warning about a reference speaks of a finished collection, and of a reference
\* that leads out of the database; no field has two.
WarningInv ==
    \A w \in warnings : w[1] \in {"objectId", "skipped"} =>
        /\ w = <<w[1], w[2], w[3]>>
        /\ w[2] \in Finished
        /\ Reference(w[3]) /\ RefBase(w[3]) \notin Colls
        /\ \A v \in warnings : About(v, w[2], w[3]) => v = w

\* No reference of a finished collection is forgotten.
AccountedInv ==
    \A ent \in entities : \A f \in ToSetOf(ent.fields) : Reference(f) =>
        IF RefBase(f) \in Colls THEN InferredEdge(ent.name, f) \in edges
                                ELSE \E w \in warnings : About(w, ent.name, f)

IInv == TodoInv /\ EdgeInv /\ WarningInv /\ AccountedInv

-----------------------------------------------------------------------------
\* What the inference adds for one collection.
LEMMA InferenceOnce ==
  ASSUME NEW c, NEW names
  PROVE  /\ \A e \in InferredEdges(c, names) :
               /\ e = InferredEdge(c, e.fromField) /\ e.from = c
               /\ e.fromField \in names /\ Reference(e.fromField)
               /\ RefBase(e.fromField) \in Colls
         /\ \A f \in names : Reference(f) /\ RefBase(f) \in Colls =>
               InferredEdge(c, f) \in InferredEdges(c, names)
         /\ \A w \in InferenceWarnings(c, names) :
               /\ w = <<w[1], w[2], w[3]>> /\ w[1] \in {"objectId", "skipped"} /\ w[2] = c
               /\ Reference(w[3]) /\ RefBase(w[3]) \notin Colls
               /\ \A v \in InferenceWarnings(c, names) : v[3] = w[3] => v = w
         /\ \A f \in names : Reference(f) /\ RefBase(f) \notin Colls =>
               \E w \in InferenceWarnings(c, names) : About(w, c, f)
<1>1. \A f : InferredEdge(c, f).from = c /\ InferredEdge(c, f).fromField = f
  BY DEF InferredEdge
<1>2. InferredEdges(c, names) =
         {InferredEdge(c, f) : f \in {f \in names : Reference(f) /\ RefBase(f) \in Colls}}
  BY DEF InferredEdges
<1> DEFINE kind(f) == IF /\ f \in DOMAIN stats
                         /\ stats[f].objectIds * 10 >= stats[f].total * 9
                      THEN "objectId" ELSE "skipped"
           warning(f) == <<kind(f), c, f>>
<1>3. InferenceWarnings(c, names) =
         {warning(f) : f \in {f \in names : Reference(f) /\ RefBase(f) \notin Colls}}
  BY DEF InferenceWarnings
<1>4. \A f : kind(f) \in {"objectId", "skipped"}
  OBVIOUS
<1> HIDE DEF kind
<1>5. \A f : /\ warning(f) = <<warning(f)[1], warning(f)[2], warning(f)[3]>>
             /\ warning(f)[1] \in {"objectId", "skipped"} /\ warning(f)[2] = c /\ warning(f)[3] = f
  BY <1>4
<1> HIDE DEF warning
<1>6. \A f : About(warning(f), c, f)
  BY <1>5 DEF About
<1> QED BY <1>1, <1>2, <1>3, <1>5, <1>6

LEMMA InitIInv == Init => IInv
<1> SUFFICES ASSUME Init PROVE IInv
  OBVIOUS
<1>1. Finished = {}
  BY DEF Init, Finished, NamesOf, Export
<1>2. TodoInv
  BY <1>1, DatabaseAssumption DEF Init, TodoInv, Stages, Colls
<1>3. EdgeInv /\ WarningInv /\ AccountedInv
  BY DEF Init, EdgeInv, WarningInv, AccountedInv
<1> QED BY <1>2, <1>3 DEF IInv

\* A step that finishes no collection adds no warning about a reference.
LEMMA OtherStep ==
  ASSUME IInv, UNCHANGED <<todo, entities, edges>>, stage' \in Stages,
         stage' \in {"sample", "indexes"} => todo # << >>,
         stage' = "done" => todo = << >>,
         warnings \subseteq warnings',
         \A w \in warnings' \ warnings : w[1] \notin {"objectId", "skipped"}
  PROVE  IInv'
<1>1. Finished' = Finished
  BY DEF Finished, NamesOf, Export
<1>2. TodoInv'
  BY <1>1 DEF IInv, TodoInv
<1>3. EdgeInv'
  BY DEF IInv, EdgeInv
<1>4. WarningInv'
  BY <1>1 DEF IInv, WarningInv, About
<1>5. AccountedInv'
  BY DEF IInv, AccountedInv, About
<1> QED BY <1>2, <1>3, <1>4, <1>5 DEF IInv

\* The entity of the next collection, with its edges and warnings.
LEMMA FinishCollectionInv == IInv /\ FinishCollection => IInv'
<1> SUFFICES ASSUME IInv, FinishCollection PROVE IInv'
  OBVIOUS
<1> DEFINE c == Head(todo)
           list == [i \in DOMAIN fields |-> fields[i].name]
           names == ToSetOf(list)
           ent == [at |-> Cardinality(entities) + 1, name |-> c, fields |-> list,
                   detail |-> fields, paths |-> PathsOf(c)]
<1>1. /\ edges' = edges \cup InferredEdges(c, names)
      /\ warnings' = warnings \cup InferenceWarnings(c, names)
      /\ entities' = entities \cup {ent} /\ todo' = Tail(todo) /\ stage' = "count"
      /\ stage = "indexes"
  BY DEF FinishCollection
<1>2. ent.name = c /\ ToSetOf(ent.fields) = names
  OBVIOUS
<1>3. todo # << >> /\ todo \in Seq(Colls)
  BY <1>1 DEF IInv, TodoInv
<1>4. /\ ToSetOf(todo) = {c} \cup ToSetOf(Tail(todo)) /\ c \notin ToSetOf(Tail(todo))
      /\ c \in Colls /\ Tail(todo) \in Seq(Colls)
      /\ \A i, j \in DOMAIN Tail(todo) : Tail(todo)[i] = Tail(todo)[j] => i = j
  <2>1. /\ DOMAIN todo = 1..Len(todo) /\ Len(todo) \in Nat \ {0} /\ c = todo[1]
        /\ DOMAIN Tail(todo) = 1..(Len(todo) - 1) /\ Tail(todo) \in Seq(Colls)
        /\ \A i \in 1..(Len(todo) - 1) : Tail(todo)[i] = todo[i + 1]
    BY <1>3
  <2>2. \A i, j \in DOMAIN todo : todo[i] = todo[j] => i = j
    BY DEF IInv, TodoInv
  <2>3. ToSetOf(Tail(todo)) = {todo[i] : i \in 2..Len(todo)}
    <3>1. ASSUME NEW x \in ToSetOf(Tail(todo)) PROVE x \in {todo[i] : i \in 2..Len(todo)}
      BY <2>1 DEF ToSetOf
    <3>2. ASSUME NEW i \in 2..Len(todo) PROVE todo[i] \in ToSetOf(Tail(todo))
      <4>1. i - 1 \in 1..(Len(todo) - 1) /\ Tail(todo)[i - 1] = todo[i]
        BY <2>1
      <4> QED BY <2>1, <4>1 DEF ToSetOf
    <3> QED BY <3>1, <3>2
  <2> QED BY <1>3, <2>1, <2>2, <2>3 DEF ToSetOf
<1> HIDE DEF c, list, names, ent
<1>5. Finished' = Finished \cup {c} /\ c \notin Finished
  BY <1>1, <1>2, <1>4 DEF Finished, NamesOf, Export, IInv, TodoInv
<1>6. TodoInv'
  <2>1. \A a \in entities : a.name # ent.name
    BY <1>2, <1>5 DEF Finished, NamesOf, Export
  <2>2. \A a, b \in entities' : a.name = b.name => a = b
    BY <1>1, <2>1 DEF IInv, TodoInv
  <2> QED BY <1>1, <1>4, <1>5, <2>2 DEF IInv, TodoInv, Stages
<1>7. EdgeInv'
  BY <1>1, <1>2, InferenceOnce DEF IInv, EdgeInv
<1>8. WarningInv'
  <2>1. \A w \in warnings : w[1] \in {"objectId", "skipped"} => w[2] # c
    BY <1>5 DEF IInv, WarningInv
  <2> SUFFICES ASSUME NEW w \in warnings', w[1] \in {"objectId", "skipped"}
               PROVE  /\ w = <<w[1], w[2], w[3]>> /\ w[2] \in Finished'
                      /\ Reference(w[3]) /\ RefBase(w[3]) \notin Colls
                      /\ \A v \in warnings' : About(v, w[2], w[3]) => v = w
    BY DEF WarningInv
  <2>2. CASE w \in warnings
    BY <1>1, <1>5, <2>1, <2>2, InferenceOnce DEF IInv, WarningInv, About
  <2>3. CASE w \in InferenceWarnings(c, names)
    BY <1>1, <1>5, <2>1, <2>3, InferenceOnce DEF About
  <2> QED BY <1>1, <2>2, <2>3
<1>9. AccountedInv'
  BY <1>1, <1>2, InferenceOnce DEF IInv, AccountedInv
<1> QED BY <1>6, <1>7, <1>8, <1>9 DEF IInv

LEMMA Inductive == IInv /\ [Next]_vars => IInv'
<1> SUFFICES ASSUME IInv, [Next]_vars PROVE IInv'
  OBVIOUS
<1>1. CASE ExtractValidators
  <2>1. /\ UNCHANGED <<todo, entities, edges>> /\ stage' = "count"
        /\ warnings \subseteq warnings'
        /\ \A w \in warnings' \ warnings : w = <<"validators">>
    BY <1>1 DEF ExtractValidators
  <2> QED BY <2>1, OtherStep DEF Stages
<1>2. CASE CountDocuments
  <2>1. /\ UNCHANGED <<todo, entities, edges>> /\ stage' = "sample" /\ todo # << >>
        /\ warnings \subseteq warnings'
        /\ \A w \in warnings' \ warnings : w = <<"small", Head(todo)>>
    BY <1>2 DEF CountDocuments
  <2> QED BY <2>1, OtherStep DEF Stages
<1>3. CASE Sample
  <2>1. UNCHANGED <<todo, entities, edges, warnings>> /\ stage' = "indexes" /\ stage = "sample"
    BY <1>3 DEF Sample, result
  <2>2. todo # << >>
    BY <2>1 DEF IInv, TodoInv
  <2> QED BY <2>1, <2>2, OtherStep DEF Stages
<1>4. CASE Finish \/ Fail
  <2>1. /\ UNCHANGED <<todo, entities, edges, warnings>>
        /\ (stage' = "done" /\ todo = << >>) \/ stage' = "failed"
    BY <1>4 DEF Finish, Fail, result
  <2> QED BY <2>1, OtherStep DEF Stages
<1>5. CASE OtherClients \/ UNCHANGED vars
  <2>1. UNCHANGED <<todo, entities, edges, warnings, stage>>
    BY <1>5 DEF OtherClients, Insert, Empty, CreateIndex, Write, vars, result
  <2> QED BY <2>1, OtherStep DEF IInv, TodoInv
<1> QED BY <1>1, <1>2, <1>3, <1>4, <1>5, FinishCollectionInv DEF Next, Extract, Stop

-----------------------------------------------------------------------------
\* A reference has a name.
LEMMA ReferenceNamed ==
  ASSUME NEW f, Reference(f)
  PROVE  f # << >>
BY DEF Reference, RefBase

LEMMA ValidWhenDone == IInv => BasicallyValid
<1> SUFFICES ASSUME IInv, stage = "done"
             PROVE  /\ Validate(Export) /\ NamesOf(Export) = Colls
                    /\ \A e \in edges : e.fromField \in FieldsOf(Export, e.from)
  BY DEF BasicallyValid
<1>1. Export.version # "" /\ Export.entities = entities /\ Export.edges = edges
  BY DEF Export
<1>2. NamesOf(Export) = Colls
  <2>1. todo = << >>
    BY DEF IInv, TodoInv
  <2>2. ToSetOf(todo) = {}
    BY <2>1 DEF ToSetOf
  <2> QED BY <2>2 DEF IInv, TodoInv, Finished
<1>3. ASSUME NEW e \in edges
      PROVE  /\ << >> \notin {e.fromField, e.toField}
             /\ {e.from, e.to} \subseteq NamesOf(Export)
             /\ e.fromField \in FieldsOf(Export, e.from)
  <2>1. /\ e.to = RefBase(e.fromField) /\ e.toField = <<"_id">>
        /\ Reference(e.fromField) /\ RefBase(e.fromField) \in Colls
    BY DEF IInv, EdgeInv, InferredEdge
  <2>2. PICK ent \in entities : ent.name = e.from /\ e.fromField \in ToSetOf(ent.fields)
    BY DEF IInv, EdgeInv
  <2>3. e.from \in NamesOf(Export) /\ e.fromField \in FieldsOf(Export, e.from)
    BY <1>1, <2>2 DEF NamesOf, FieldsOf
  <2> QED BY <1>2, <2>1, <2>3, ReferenceNamed
<1>4. \A a, b \in entities : a.name = b.name => a = b
  BY DEF IInv, TodoInv
<1> QED BY <1>1, <1>2, <1>3, <1>4, DatabaseAssumption DEF Validate

\* Whatever other clients do, every collection is one entity, and every edge leaves
\* a field of its entity and ends in an entity.
THEOREM AlwaysValid == Spec => []BasicallyValid
<1> QED BY InitIInv, Inductive, ValidWhenDone, PTL DEF Spec

-----------------------------------------------------------------------------
\* Every field that looks like a reference is either an edge or the subject of
\* exactly one warning, however many collections and fields there are and whatever
\* was written during the extraction.
THEOREM AllAccounted == Spec => []ReferencesAccounted
<1>1. IInv => ReferencesAccounted
  <2> SUFFICES ASSUME IInv, stage = "done", NEW ent \in entities, NEW f \in ToSetOf(ent.fields)
               PROVE  LET about == {w \in warnings : w[1] \in {"objectId", "skipped"} /\ <<w[2], w[3]>> = <<ent.name, f>>}
                          out == {e \in edges : e.from = ent.name /\ e.fromField = f}
                      IN  Cardinality(about) + Cardinality(out) = (IF Reference(f) THEN 1 ELSE 0)
    BY DEF ReferencesAccounted
  <2> DEFINE about == {w \in warnings : w[1] \in {"objectId", "skipped"} /\ <<w[2], w[3]>> = <<ent.name, f>>}
             out == {e \in edges : e.from = ent.name /\ e.fromField = f}
  <2>1. \A w \in about : w \in warnings /\ About(w, ent.name, f) /\ w[2] = ent.name /\ w[3] = f
    BY DEF About
  <2>2. \A w \in warnings : About(w, ent.name, f) => w \in about
    BY DEF About
  <2>3. \A w \in about : Reference(f) /\ RefBase(f) \notin Colls
                          /\ \A v \in about : v = w
    BY <2>1 DEF IInv, WarningInv, About
  <2>4. \A e \in out : e = InferredEdge(ent.name, f) /\ Reference(f) /\ RefBase(f) \in Colls
    BY DEF IInv, EdgeInv
  <2>5. InferredEdge(ent.name, f) \in edges => InferredEdge(ent.name, f) \in out
    BY DEF InferredEdge
  <2> HIDE DEF about, out
  <2>6. CASE ~Reference(f)
    <3>1. about = {} /\ out = {}
      BY <2>3, <2>4, <2>6
    <3> QED BY <2>6, <3>1, FS_EmptySet DEF about, out
  <2>7. CASE Reference(f) /\ RefBase(f) \in Colls
    <3>1. about = {} /\ out = {InferredEdge(ent.name, f)}
      BY <2>3, <2>4, <2>5, <2>7 DEF IInv, AccountedInv
    <3>2. Cardinality(about) = 0 /\ Cardinality(out) = 1
      BY <3>1, FS_EmptySet, FS_Singleton
    <3> QED BY <2>7, <3>2 DEF about, out
  <2>8. CASE Reference(f) /\ RefBase(f) \notin Colls
    <3>1. PICK w \in about : TRUE
      BY <2>2, <2>8 DEF IInv, AccountedInv
    <3>2. about = {w} /\ out = {}
      BY <2>3, <2>4, <2>8, <3>1
    <3>3. Cardinality(about) = 1 /\ Cardinality(out) = 0
      BY <3>2, FS_EmptySet, FS_Singleton
    <3> QED BY <2>8, <3>3 DEF about, out
  <2> QED BY <2>6, <2>7, <2>8
<1> QED BY InitIInv, Inductive, <1>1, PTL DEF Spec

-----------------------------------------------------------------------------
(* The type of a field: the loop over the map of counts finds the one that *)
(* is most frequent and, of several, the first in the alphabet, in         *)
(* whatever order the map is ranged over.                                  *)

LEMMA TypesOrdered ==
  /\ \A s, t \in Types : s = t \/ TypeBefore(s, t) \/ TypeBefore(t, s)
  /\ \A s, t, u : TypeBefore(s, t) /\ TypeBefore(t, u) => TypeBefore(s, u)
  /\ \A t : ~TypeBefore(t, "")
<1>1. DOMAIN TypeOrder = 1..Len(TypeOrder) /\ Len(TypeOrder) \in Nat
  <2>1. TypeOrder \in Seq(Types)
    BY OrdersAssumption
  <2> QED BY <2>1
<1>2. \A i, j \in DOMAIN TypeOrder : TypeOrder[i] = TypeOrder[j] => i = j
  BY OrdersAssumption DEF IsInjective
<1>3. \A s, t \in Types : s = t \/ TypeBefore(s, t) \/ TypeBefore(t, s)
  <2> TAKE s \in Types, t \in Types
  <2>1. PICK i \in DOMAIN TypeOrder, j \in DOMAIN TypeOrder : TypeOrder[i] = s /\ TypeOrder[j] = t
    BY DEF Types, ToSet
  <2>2. i = j \/ i < j \/ j < i
    BY <1>1
  <2> QED BY <2>1, <2>2 DEF TypeBefore
<1>4. \A s, t, u : TypeBefore(s, t) /\ TypeBefore(t, u) => TypeBefore(s, u)
  BY <1>1, <1>2 DEF TypeBefore
<1>5. \A t : ~TypeBefore(t, "")
  BY OrdersAssumption DEF TypeBefore, Types, ToSet
<1> QED BY <1>3, <1>4, <1>5

\* The state of the loop after each round.
Better(t, old, counts) ==
    \/ counts[t] > old.count
    \/ counts[t] = old.count /\ TypeBefore(t, old.name)

NoType == [name |-> "", count |-> 0]
Turn(t, old, counts) ==
    IF Better(t, old, counts) THEN [name |-> t, count |-> counts[t]] ELSE old

Rounds(best, counts, order) ==
    best = [n \in 0..Len(order) |-> IF n = 0 THEN NoType ELSE Turn(order[n], best[n - 1], counts)]

LEMMA MajorityRounds ==
  ASSUME NEW counts \in [Types -> Nat], NEW order \in Seq(Types)
  PROVE  \E best : Rounds(best, counts, order)
                   /\ MajorityType(counts, order) = best[Len(order)].name
<1> DEFINE A == [name : Types \cup {""}, count : Nat]
           N == Len(order)
           step == [p \in A \X (1..N) |-> Turn(order[p[2]], p[1], counts)]
<1>1. N \in Nat /\ \A n \in 1..N : order[n] \in Types
  OBVIOUS
<1>2. NoType \in A
  BY DEF NoType
<1>3. \A x \in A, t \in Types : Turn(t, x, counts) \in A
  BY DEF Turn
<1> HIDE DEF A
<1>4. step \in [A \X (1..N) -> A] /\ \A x \in A, n \in 1..N : step[<<x, n>>] = Turn(order[n], x, counts)
  BY <1>1, <1>3
<1> HIDE DEF step
<1>5. PICK f \in [0..N -> A] : Iterates(f, NoType, step, N)
  BY <1>1, <1>2, <1>4, IterationExists
<1>6. \A n \in 0..N : f[n] = IF n = 0 THEN NoType ELSE Turn(order[n], f[n - 1], counts)
  <2> TAKE n \in 0..N
  <2>1. CASE n = 0
    BY <1>5, <2>1 DEF Iterates
  <2>2. CASE n # 0
    <3>1. n \in 1..N /\ n - 1 \in 0..N
      BY <1>1, <2>2
    <3>2. f[n] = step[<<f[n - 1], n>>] /\ f[n - 1] \in A
      BY <1>5, <3>1 DEF Iterates
    <3> QED BY <1>4, <2>2, <3>1, <3>2
  <2> QED BY <2>1, <2>2
<1>7. Rounds(f, counts, order)
  BY <1>6 DEF Rounds
<1>8. Rounds(CHOOSE best : Rounds(best, counts, order), counts, order)
  BY <1>7
<1>9. MajorityType(counts, order) = (CHOOSE best : Rounds(best, counts, order))[N].name
  BY DEF MajorityType, Rounds, Turn, Better, NoType
<1> QED BY <1>8, <1>9

\* After n rounds the loop holds the best of the types it has met.
Leads(b, counts, order, n) ==
    \/ b = NoType /\ \A i \in 1..n : counts[order[i]] = 0
    \/ /\ b.name \in Types /\ b.count = counts[b.name] /\ b.count > 0
       /\ \A i \in 1..n : \/ order[i] = b.name
                          \/ counts[order[i]] < b.count
                          \/ counts[order[i]] = b.count /\ TypeBefore(b.name, order[i])

LEMMA TurnLeads ==
  ASSUME NEW counts \in [Types -> Nat], NEW order \in Seq(Types), NEW n \in 1..Len(order),
         NEW b, Leads(b, counts, order, n - 1)
  PROVE  Leads(Turn(order[n], b, counts), counts, order, n)
<1> DEFINE t == order[n]
<1>1. /\ t \in Types /\ counts[t] \in Nat /\ n \in Nat
      /\ \A i \in 1..n : i \in 1..(n - 1) \/ i = n
      /\ \A i \in 1..n : order[i] \in Types /\ counts[order[i]] \in Nat
  OBVIOUS
<1>2. CASE b = NoType /\ \A i \in 1..(n - 1) : counts[order[i]] = 0
  <2>1. b.count = 0 /\ ~TypeBefore(t, b.name)
    BY <1>2, TypesOrdered DEF NoType
  <2>2. CASE counts[t] > 0
    <3>1. Turn(t, b, counts) = [name |-> t, count |-> counts[t]]
      BY <2>1, <2>2 DEF Turn, Better
    <3> QED BY <1>1, <1>2, <2>2, <3>1 DEF Leads
  <2>3. CASE ~(counts[t] > 0)
    <3>1. Turn(t, b, counts) = b /\ counts[t] = 0
      BY <1>1, <2>1, <2>3 DEF Turn, Better
    <3> QED BY <1>1, <1>2, <3>1 DEF Leads
  <2> QED BY <2>2, <2>3
<1>3. CASE ~(b = NoType /\ \A i \in 1..(n - 1) : counts[order[i]] = 0)
  <2>1. /\ b.name \in Types /\ b.count = counts[b.name] /\ b.count > 0 /\ b.count \in Nat
        /\ \A i \in 1..(n - 1) : \/ order[i] = b.name
                                 \/ counts[order[i]] < b.count
                                 \/ counts[order[i]] = b.count /\ TypeBefore(b.name, order[i])
    BY <1>3 DEF Leads
  <2>2. CASE Better(t, b, counts)
    <3> DEFINE new == [name |-> t, count |-> counts[t]]
    <3>1. Turn(t, b, counts) = new /\ new.name = t /\ new.count = counts[t]
      BY <2>2 DEF Turn
    <3>2. counts[t] >= b.count
      BY <1>1, <2>1, <2>2 DEF Better
    <3>3. ASSUME NEW i \in 1..(n - 1)
          PROVE  \/ order[i] = t
                 \/ counts[order[i]] < counts[t]
                 \/ counts[order[i]] = counts[t] /\ TypeBefore(t, order[i])
      <4>1. counts[order[i]] \in Nat
        BY <1>1
      <4>2. CASE counts[t] > b.count
        <5>1. counts[order[i]] <= b.count
          BY <2>1, <4>1
        <5> QED BY <1>1, <2>1, <4>1, <4>2, <5>1
      <4>3. CASE counts[t] = b.count
        <5>1. TypeBefore(t, b.name)
          BY <1>1, <2>1, <2>2, <4>3 DEF Better
        <5> QED BY <2>1, <4>3, <5>1, TypesOrdered
      <4> QED BY <1>1, <2>1, <3>2, <4>2, <4>3
    <3>4. counts[t] > 0
      BY <1>1, <2>1, <3>2
    <3> QED BY <1>1, <3>1, <3>3, <3>4 DEF Leads
  <2>3. CASE ~Better(t, b, counts)
    <3>1. Turn(t, b, counts) = b
      BY <2>3 DEF Turn
    <3>2. t = b.name \/ counts[t] < b.count \/ (counts[t] = b.count /\ TypeBefore(b.name, t))
      <4>1. counts[t] < b.count \/ counts[t] = b.count
      BY <1>1, <2>1, <2>3 DEF Better
    <4>2. counts[t] = b.count => ~TypeBefore(t, b.name)
      BY <2>3 DEF Better
    <4> QED BY <1>1, <2>1, <4>1, <4>2, TypesOrdered
    <3> QED BY <1>1, <2>1, <3>1, <3>2 DEF Leads
  <2> QED BY <2>2, <2>3
<1> QED BY <1>2, <1>3

LEMMA MajorityWins ==
  ASSUME NEW counts \in [Types -> Nat], NEW order \in Seq(Types),
         NEW some \in Types, counts[some] > 0,
         \A t \in Types : counts[t] > 0 => \E i \in 1..Len(order) : order[i] = t
  PROVE  LET m == MajorityType(counts, order)
         IN  /\ m \in Types /\ counts[m] > 0
             /\ \A u \in Types \ {m} : \/ counts[u] < counts[m]
                                       \/ counts[u] = counts[m] /\ TypeBefore(m, u)
<1>1. PICK best : Rounds(best, counts, order) /\ MajorityType(counts, order) = best[Len(order)].name
  BY MajorityRounds
<1> DEFINE N == Len(order)
           T == {n \in 0..N : Leads(best[n], counts, order, n)}
           b == best[N]
<1>2. N \in Nat
  OBVIOUS
<1>3. /\ best[0] = NoType
      /\ \A n \in 0..N : n # 0 => best[n] = Turn(order[n], best[n - 1], counts)
  <2>1. best = [n \in 0..N |-> IF n = 0 THEN NoType ELSE Turn(order[n], best[n - 1], counts)]
    BY <1>1 DEF Rounds
  <2> HIDE DEF T, b
  <2>2. \A n \in 0..N : best[n] = IF n = 0 THEN NoType ELSE Turn(order[n], best[n - 1], counts)
    BY <2>1
  <2> QED BY <1>2, <2>2
<1>4. 0 \in T
  BY <1>2, <1>3 DEF Leads
<1>5. ASSUME NEW n \in 0..N, n \in T, n < N
      PROVE  n + 1 \in T
  <2>1. n + 1 \in 1..N /\ n + 1 \in 0..N /\ (n + 1) - 1 = n /\ n + 1 # 0
    BY <1>2, <1>5
  <2>2. Leads(Turn(order[n + 1], best[n], counts), counts, order, n + 1)
    BY <1>5, <2>1, TurnLeads
  <2> QED BY <1>3, <2>1, <2>2
<1> HIDE DEF T
<1>6. Leads(b, counts, order, N)
  <2>1. \A n \in 0..N : n \in T
    BY <1>2, <1>4, <1>5, UpTo
  <2> QED BY <1>2, <2>1 DEF T
<1> HIDE DEF b
<1>7. /\ b.name \in Types /\ b.count = counts[b.name] /\ b.count > 0
      /\ \A i \in 1..N : \/ order[i] = b.name
                         \/ counts[order[i]] < b.count
                         \/ counts[order[i]] = b.count /\ TypeBefore(b.name, order[i])
  <2>1. PICK i \in 1..N : order[i] = some
    OBVIOUS
  <2>2. counts[order[i]] # 0
    BY <2>1
  <2> QED BY <1>6, <2>2 DEF Leads
<1>8. ASSUME NEW u \in Types, u # b.name
      PROVE  counts[u] < counts[b.name] \/ (counts[u] = counts[b.name] /\ TypeBefore(b.name, u))
  <2>1. CASE counts[u] > 0
    <3>1. PICK i \in 1..N : order[i] = u
      BY <2>1
    <3> QED BY <1>7, <1>8, <3>1
  <2>2. CASE ~(counts[u] > 0)
    BY <1>7, <2>2
  <2> QED BY <2>1, <2>2
<1> QED BY <1>1, <1>7, <1>8 DEF b

\* A type among the values of a field in finitely many documents.
Occurs(order, t) == \E i \in 1..Len(order) : order[i] = t

LEMMA TallyMajority ==
  ASSUME NEW D, IsFiniteSet(D), D # {}, NEW types \in [D -> Types],
         NEW order \in Seq(Types), \A d \in D : Occurs(order, types[d])
  PROVE  IsMajority(MajorityType(Tally(types), order), types)
<1> DEFINE having(t) == {d \in D : types[d] = t}
           counts == Tally(types)
           m == MajorityType(counts, order)
<1>1. DOMAIN types = D
  OBVIOUS
<1>2. \A t : IsFiniteSet(having(t)) /\ Cardinality(having(t)) \in Nat
            /\ (Cardinality(having(t)) = 0 <=> having(t) = {})
  <2> TAKE t
  <2>1. having(t) \in SUBSET D
    OBVIOUS
  <2> QED BY <2>1, FS_Subset, FS_CardinalityType, FS_EmptySet
<1>3. \A t : having(t) = {} <=> \A d \in D : types[d] # t
  OBVIOUS
<1>4. counts = [t \in Types |-> Cardinality(having(t))]
  BY <1>1 DEF Tally
<1>5. \A u : {d \in DOMAIN types : types[d] = u} = having(u)
  BY <1>1
<1> HIDE DEF counts, having
<1>6. counts \in [Types -> Nat] /\ \A t \in Types : counts[t] = Cardinality(having(t))
  BY <1>2, <1>4
<1>7. \A t \in Types : counts[t] > 0 <=> \E d \in D : types[d] = t
  <2> TAKE t \in Types
  <2>1. counts[t] > 0 <=> having(t) # {}
    BY <1>2, <1>6
  <2> QED BY <1>3, <2>1
<1>8. \A t \in Types : counts[t] > 0 => Occurs(order, t)
  BY <1>7
<1>9. \E t \in Types : counts[t] > 0
  BY <1>7
<1>10. /\ m \in Types /\ counts[m] > 0
      /\ \A u \in Types \ {m} : \/ counts[u] < counts[m]
                                \/ counts[u] = counts[m] /\ TypeBefore(m, u)
  BY <1>6, <1>8, <1>9, MajorityWins DEF Occurs
<1> HIDE DEF m
<1>11. IsMajority(m, types)
  BY <1>6, <1>5, <1>10 DEF IsMajority
<1> QED BY <1>11 DEF m, counts

\* The names of some fields in their order, each once.
LEMMA OrderedNames ==
  ASSUME NEW S
  PROVE  /\ Ordered(S) \in Seq(Names)
         /\ {Ordered(S)[i] : i \in DOMAIN Ordered(S)} = S \cap Names
         /\ \A i, j \in DOMAIN Ordered(S) : Ordered(S)[i] = Ordered(S)[j] => i = j
<1> DEFINE P == {i \in DOMAIN NameOrder : NameOrder[i] \in S}
           row == Ordered(S)
<1>1. NameOrder \in Seq(Names) /\ P \in SUBSET DOMAIN NameOrder
  BY OrdersAssumption
<1>2. row = Where(NameOrder, P)
  BY DEF Ordered
<1>3. row \in Seq(Names) /\ ToSet(row) = {NameOrder[i] : i \in P}
  BY <1>1, <1>2, WhereMembers
<1>4. {NameOrder[i] : i \in P} = S \cap Names
  BY DEF Names, ToSet
<1>5. \A i, j \in P : NameOrder[i] = NameOrder[j] => i = j
  BY OrdersAssumption DEF IsInjective
<1> HIDE DEF P
<1>6. \A i, j \in DOMAIN row : row[i] = row[j] => i = j
  BY <1>1, <1>2, <1>5, WhereOnce
<1> QED BY <1>3, <1>4, <1>6 DEF ToSet

LEMMA Subfields ==
  ASSUME NEW D, IsFiniteSet(D), NEW subs, DOMAIN subs = D, NEW order \in Seq(Types),
         \A k \in D : /\ DOMAIN subs[k] \subseteq Names
                      /\ \A f \in DOMAIN subs[k] : subs[k][f] \in Types /\ Occurs(order, subs[k][f])
  PROVE  LET list == InferSubfields(subs, order)
         IN  /\ {list[i].name : i \in DOMAIN list} = UNION {DOMAIN subs[k] : k \in D}
             /\ \A i \in DOMAIN list :
                   LET f == list[i].name
                   IN  IsMajority(list[i].type, [k \in {k \in D : f \in DOMAIN subs[k]} |-> subs[k][f]])
<1> DEFINE all == UNION {DOMAIN subs[k] : k \in D}
           names == Ordered(all)
           having(f) == {k \in D : f \in DOMAIN subs[k]}
           types(f) == [k \in having(f) |-> subs[k][f]]
           list == InferSubfields(subs, order)
<1>1. {names[i] : i \in DOMAIN names} = all
  <2>1. all \subseteq Names
    OBVIOUS
  <2> QED BY <2>1, OrderedNames
<1>2. list = [i \in DOMAIN names |->
                  [name |-> names[i], type |-> MajorityType(Tally(types(names[i])), order)]]
  BY DEF InferSubfields
<1>3. ASSUME NEW f \in all
      PROVE  IsMajority(MajorityType(Tally(types(f)), order), types(f))
  <2>1. having(f) # {} /\ having(f) \in SUBSET D
    OBVIOUS
  <2>2. IsFiniteSet(having(f))
    BY <2>1, FS_Subset
  <2>3. types(f) \in [having(f) -> Types] /\ \A k \in having(f) : Occurs(order, types(f)[k])
    OBVIOUS
  <2> HIDE DEF types, having
  <2> QED BY <2>1, <2>2, <2>3, TallyMajority
<1> HIDE DEF names, all, types, list
<1>4. /\ DOMAIN list = DOMAIN names
      /\ \A i \in DOMAIN names : /\ list[i].name = names[i]
                                 /\ list[i].type = MajorityType(Tally(types(names[i])), order)
  BY <1>2
<1>5. {list[i].name : i \in DOMAIN list} = all
  BY <1>1, <1>4
<1>6. \A i \in DOMAIN list : IsMajority(list[i].type, types(list[i].name))
  BY <1>1, <1>3, <1>4
<1> QED BY <1>5, <1>6 DEF list, all, types

LEMMA TypesFinite == IsFiniteSet(Types)
<1>1. TypeOrder \in Seq(Types)
  BY OrdersAssumption
<1>2. TypeOrder \in [1..Len(TypeOrder) -> Types] /\ DOMAIN TypeOrder = 1..Len(TypeOrder) /\ Len(TypeOrder) \in Nat
  BY <1>1
<1>3. TypeOrder \in Surjection(1..Len(TypeOrder), Types)
  BY <1>2 DEF Surjection, Types, ToSet
<1> QED BY <1>2, <1>3, FS_Surjection, FS_Interval

\* Every order in which the values' types come is a sequence of all of them.
LEMMA OrderOfTypes ==
  ASSUME NEW sample, sample \subseteq Documents, NEW order \in Iterations(ValueTypes(sample))
  PROVE  /\ order \in Seq(Types)
         /\ \A t \in ValueTypes(sample) : Occurs(order, t)
<1> DEFINE S == ValueTypes(sample)
<1>1. S \subseteq Types
  <2> SUFFICES ASSUME NEW d \in sample, NEW f \in DOMAIN d.fields
               PROVE  d.fields[f].type \in Types /\ ToSetOf(d.fields[f].sub) \subseteq Types
    BY DEF ValueTypes
  <2>1. IsValue(d.fields[f])
    BY DatabaseAssumption
  <2> QED BY <2>1 DEF IsValue, ToSetOf
<1> HIDE DEF S
<1>2. Cardinality(S) \in Nat
  BY <1>1, TypesFinite, FS_Subset, FS_CardinalityType
<1>3. order \in [1..Cardinality(S) -> S] /\ ToSet(order) = S
  BY DEF Iterations, S
<1>4. order \in Seq(Types) /\ Len(order) = Cardinality(S)
  BY <1>1, <1>2, <1>3
<1>5. \A t \in S : Occurs(order, t)
  BY <1>3, <1>4 DEF Occurs, ToSet
<1> QED BY <1>4, <1>5 DEF S

\* field has the types, and the sub-fields, of field f of the documents in a sample.
Describes(field, f, sample) ==
    LET having == {d \in sample : f \in DOMAIN d.fields}
        inside(g) == {d \in having : g \in DOMAIN d.fields[f].sub}
    IN  /\ IsMajority(field.type, [d \in having |-> d.fields[f].type])
        /\ {field.sub[k].name : k \in DOMAIN field.sub} = UNION {DOMAIN d.fields[f].sub : d \in having}
        /\ \A k \in DOMAIN field.sub :
              LET g == field.sub[k].name IN
              IsMajority(field.sub[k].type, [d \in inside(g) |-> d.fields[f].sub[g]])

\* inferFieldsWithStats on a sample of documents.
LEMMA InferredFields ==
  ASSUME NEW sample, sample \subseteq Documents, IsFiniteSet(sample),
         NEW order \in Iterations(ValueTypes(sample))
  PROVE  LET names == Ordered(UNION {DOMAIN d.fields : d \in sample})
             list == InferFields(sample, order)
         IN  /\ DOMAIN list = DOMAIN names
             /\ \A i \in DOMAIN names :
                   list[i].name = names[i] /\ Describes(list[i], names[i], sample)
<1> DEFINE all == UNION {DOMAIN d.fields : d \in sample}
           names == Ordered(all)
           having(f) == {d \in sample : f \in DOMAIN d.fields}
           types(f) == [d \in having(f) |-> d.fields[f].type]
           embedded(f) == {d \in having(f) : d.fields[f].type = "object"}
           subs(f) == [d \in embedded(f) |-> d.fields[f].sub]
           list == InferFields(sample, order)
<1>1. /\ order \in Seq(Types)
      /\ \A t \in ValueTypes(sample) : Occurs(order, t)
  BY OrderOfTypes
<1>2. list = [i \in DOMAIN names |->
                  [name |-> names[i], notNull |-> FALSE,
                   type |-> MajorityType(Tally(types(names[i])), order),
                   sub  |-> InferSubfields(subs(names[i]), order)]]
  BY DEF InferFields
<1>3. {names[i] : i \in DOMAIN names} = all
  <2>1. all \subseteq Names
    BY DatabaseAssumption
  <2> HIDE DEF all
  <2> QED BY <2>1, OrderedNames
<1>4. ASSUME NEW f, NEW d \in having(f)
      PROVE  /\ IsValue(d.fields[f])
             /\ d.fields[f].type \in ValueTypes(sample)
             /\ \A g \in DOMAIN d.fields[f].sub : d.fields[f].sub[g] \in ValueTypes(sample)
  <2>1. d \in sample /\ f \in DOMAIN d.fields
    OBVIOUS
  <2>2. {d.fields[f].type} \cup ToSetOf(d.fields[f].sub) \subseteq ValueTypes(sample)
    BY <2>1 DEF ValueTypes
  <2>3. IsValue(d.fields[f])
    BY <2>1, DatabaseAssumption
  <2> QED BY <2>2, <2>3 DEF ToSetOf
<1>5. ASSUME NEW f \in all
      PROVE  IsMajority(MajorityType(Tally(types(f)), order), types(f))
  <2>1. having(f) # {} /\ having(f) \in SUBSET sample
    OBVIOUS
  <2>2. IsFiniteSet(having(f))
    BY <2>1, FS_Subset
  <2>3. types(f) \in [having(f) -> Types] /\ \A d \in having(f) : Occurs(order, types(f)[d])
    BY <1>1, <1>4 DEF IsValue
  <2> HIDE DEF types, having
  <2> QED BY <1>1, <2>1, <2>2, <2>3, TallyMajority
<1>6. ASSUME NEW f
      PROVE  LET sub == InferSubfields(subs(f), order)
             IN  /\ {sub[k].name : k \in DOMAIN sub} = UNION {DOMAIN d.fields[f].sub : d \in having(f)}
                 /\ \A k \in DOMAIN sub :
                       LET g == sub[k].name
                       IN  IsMajority(sub[k].type,
                                      [d \in {d \in having(f) : g \in DOMAIN d.fields[f].sub} |->
                                          d.fields[f].sub[g]])
  <2> DEFINE sub == InferSubfields(subs(f), order)
             inside(g) == {d \in embedded(f) : g \in DOMAIN subs(f)[d]}
  <2>1. embedded(f) \in SUBSET sample
    OBVIOUS
  <2>2. IsFiniteSet(embedded(f))
    BY <2>1, FS_Subset
  <2>3. DOMAIN subs(f) = embedded(f) /\ \A d \in embedded(f) : subs(f)[d] = d.fields[f].sub
    OBVIOUS
  <2>4. \A d \in having(f) : d \notin embedded(f) => DOMAIN d.fields[f].sub = {}
    BY <1>4 DEF IsValue
  <2>5. \A d \in embedded(f) :
           /\ DOMAIN subs(f)[d] \subseteq Names
           /\ \A g \in DOMAIN subs(f)[d] : subs(f)[d][g] \in Types /\ Occurs(order, subs(f)[d][g])
    BY <1>1, <1>4, <2>3 DEF IsValue
  <2>6. UNION {DOMAIN subs(f)[d] : d \in embedded(f)} = UNION {DOMAIN d.fields[f].sub : d \in having(f)}
    BY <2>3, <2>4
  <2>7. \A g : inside(g) = {d \in having(f) : g \in DOMAIN d.fields[f].sub}
    BY <2>3, <2>4
  <2>8. \A g : [d \in inside(g) |-> subs(f)[d][g]]
               = [d \in {d \in having(f) : g \in DOMAIN d.fields[f].sub} |-> d.fields[f].sub[g]]
    BY <2>3, <2>7
  <2>9. /\ {sub[k].name : k \in DOMAIN sub} = UNION {DOMAIN subs(f)[d] : d \in embedded(f)}
        /\ \A k \in DOMAIN sub : IsMajority(sub[k].type, [d \in inside(sub[k].name) |-> subs(f)[d][sub[k].name]])
    <3> HIDE DEF subs, embedded
    <3> QED BY <1>1, <2>2, <2>3, <2>5, Subfields
  <2> HIDE DEF sub, inside, subs, embedded, having
  <2> QED BY <2>6, <2>8, <2>9 DEF sub, having
<1> HIDE DEF list, names, all, types, subs, having
<1>7. /\ DOMAIN list = DOMAIN names
      /\ \A i \in DOMAIN names : /\ list[i].name = names[i]
                                 /\ list[i].type = MajorityType(Tally(types(names[i])), order)
                                 /\ list[i].sub = InferSubfields(subs(names[i]), order)
  BY <1>2
<1>8. \A i \in DOMAIN names : names[i] \in all
  BY <1>3
<1>9. ASSUME NEW i \in DOMAIN names
      PROVE  list[i].name = names[i] /\ Describes(list[i], names[i], sample)
  <2>1. list[i].sub = InferSubfields(subs(names[i]), order)
    BY <1>7
  <2>2. list[i].name = names[i] /\ IsMajority(list[i].type, types(names[i]))
    BY <1>5, <1>7, <1>8
  <2>3. LET f == names[i]
            sub == InferSubfields(subs(f), order)
        IN  /\ {sub[k].name : k \in DOMAIN sub} = UNION {DOMAIN d.fields[f].sub : d \in having(f)}
            /\ \A k \in DOMAIN sub :
                  LET g == sub[k].name
                  IN  IsMajority(sub[k].type,
                                 [d \in {d \in having(f) : g \in DOMAIN d.fields[f].sub} |->
                                     d.fields[f].sub[g]])
    BY <1>6
  <2> QED BY <2>1, <2>2, <2>3 DEF Describes, types, having
<1> QED BY <1>7, <1>9 DEF list, names, all

-----------------------------------------------------------------------------
(* What the extractor has made of a database nobody writes to.             *)

\* The types of the rest of the state, and where the validators' fields are from.
DataInv ==
    /\ docs \subseteq Documents /\ IsFiniteSet(docs)
    /\ writes \in 0..MaxWrites
    /\ count \in 0..SampleSize
    /\ \A f \in DOMAIN stats : stats[f].objectIds \in 0..stats[f].total
    /\ \A c \in Colls : found[c] = << >> \/ \E v : found[c] = ParseJSONSchemaValidator(v)
    /\ stage = "validators" => entities = {}

\* The fields of collection c, if it is read whole.
Made(c, list) ==
    IF found[c] # << >> THEN list = found[c]
    ELSE \E order \in Iterations(ValueTypes(DocsOf(c))) : list = InferFields(DocsOf(c), order)

QuietInv ==
    writes = 0 /\ whole =>
        /\ stage = "indexes" => Made(Head(todo), fields)
        /\ \A ent \in entities :
              /\ Made(ent.name, ent.detail)
              /\ ent.fields = [i \in DOMAIN ent.detail |-> ent.detail[i].name]
              /\ ent.paths = PathsOf(ent.name)

LEMMA SampleStats ==
  ASSUME NEW sample, IsFiniteSet(sample)
  PROVE  \A f \in DOMAIN StatsOf(sample) :
            StatsOf(sample)[f].objectIds \in 0..StatsOf(sample)[f].total
<1> TAKE f \in DOMAIN StatsOf(sample)
<1> DEFINE with == {d \in sample : f \in DOMAIN d.fields}
           ids == {d \in with : d.fields[f].type = "objectId"}
<1>1. StatsOf(sample)[f] = [total |-> Cardinality(with), objectIds |-> Cardinality(ids)]
  BY DEF StatsOf
<1>2. with \in SUBSET sample /\ ids \in SUBSET with
  OBVIOUS
<1> HIDE DEF with, ids
<1>3. IsFiniteSet(with) /\ Cardinality(with) \in Nat /\ Cardinality(ids) \in Nat /\ Cardinality(ids) <= Cardinality(with)
  BY <1>2, FS_Subset, FS_CardinalityType
<1> QED BY <1>1, <1>3

LEMMA InitData == Init => DataInv /\ QuietInv
<1> SUFFICES ASSUME Init PROVE DataInv /\ QuietInv
  OBVIOUS
<1>1. DataInv
  BY DatabaseAssumption DEF Init, DataInv
<1>2. QuietInv
  BY DEF Init, QuietInv
<1> QED BY <1>1, <1>2

LEMMA DataStep == IInv /\ DataInv /\ [Next]_vars => DataInv'
<1> SUFFICES ASSUME IInv, DataInv, [Next]_vars PROVE DataInv'
  OBVIOUS
<1>0. SampleSize \in Nat /\ MaxWrites \in Nat
  BY DatabaseAssumption
<1>1. \A c : IsFiniteSet(DocsOf(c)) /\ Cardinality(DocsOf(c)) \in Nat
  <2> TAKE c
  <2>1. DocsOf(c) \in SUBSET docs
    BY DEF DocsOf
  <2> QED BY <2>1, FS_Subset, FS_CardinalityType DEF DataInv
<1>2. CASE ExtractValidators
  <2>1. UNCHANGED <<docs, writes, count, stats, entities>> /\ stage' = "count"
    BY <1>2 DEF ExtractValidators, database
  <2>2. \A c \in Colls : found'[c] = << >> \/ \E v : found'[c] = ParseJSONSchemaValidator(v)
    BY <1>2 DEF ExtractValidators, DataInv
  <2> QED BY <2>1, <2>2 DEF DataInv
<1>3. CASE CountDocuments
  <2>1. /\ UNCHANGED <<docs, writes, found, stats, entities>> /\ stage' = "sample"
        /\ count' = Smaller(Cardinality(DocsOf(Head(todo))), SampleSize)
    BY <1>3 DEF CountDocuments, database
  <2>2. count' \in 0..SampleSize
    BY <1>0, <1>1, <2>1 DEF Smaller
  <2> QED BY <2>1, <2>2 DEF DataInv
<1>4. CASE Sample
  <2>1. UNCHANGED <<docs, writes, found, count, entities>> /\ stage' = "indexes"
    BY <1>4 DEF Sample, database, result
  <2>2. PICK sample \in SUBSET DocsOf(Head(todo)) : stats' = StatsOf(sample)
    BY <1>4 DEF Sample
  <2>3. IsFiniteSet(sample)
    BY <1>1, <2>2, FS_Subset
  <2>4. \A f \in DOMAIN stats' : stats'[f].objectIds \in 0..stats'[f].total
    BY <2>2, <2>3, SampleStats
  <2> QED BY <2>1, <2>4 DEF DataInv
<1>5. CASE FinishCollection
  <2>1. /\ UNCHANGED <<docs, writes, found>> /\ stage' = "count" /\ count' = 0 /\ stats' = << >>
    BY <1>5 DEF FinishCollection, database
  <2> QED BY <1>0, <2>1 DEF DataInv
<1>6. CASE Finish \/ Fail \/ UNCHANGED vars
  <2>1. UNCHANGED <<docs, writes, found, count, stats, entities>> /\ (stage' = "validators" => stage = "validators")
    BY <1>6 DEF Finish, Fail, vars, database, locals, result
  <2> QED BY <2>1 DEF DataInv
<1>7. CASE OtherClients
  <2>1. UNCHANGED <<found, count, stats, entities, stage>> /\ writes' = writes + 1 /\ writes < MaxWrites
    BY <1>7 DEF OtherClients, Insert, Empty, CreateIndex, Write, locals, result
  <2>2. docs' \subseteq Documents /\ IsFiniteSet(docs')
    <3>1. CASE Insert
      BY <3>1, FS_AddElement DEF Insert, DataInv
    <3>2. CASE Empty
      <4>1. docs' \in SUBSET docs
        BY <3>2 DEF Empty
      <4> QED BY <4>1, FS_Subset DEF DataInv
    <3>3. CASE CreateIndex
      BY <3>3 DEF CreateIndex, DataInv
    <3> QED BY <1>7, <3>1, <3>2, <3>3 DEF OtherClients
  <2>3. writes' \in 0..MaxWrites
    BY <1>0, <2>1 DEF DataInv
  <2> QED BY <2>1, <2>2, <2>3 DEF DataInv
<1> QED BY <1>2, <1>3, <1>4, <1>5, <1>6, <1>7 DEF Next, Extract, Stop

LEMMA QuietStep == IInv /\ DataInv /\ QuietInv /\ [Next]_vars => QuietInv'
<1> SUFFICES ASSUME IInv, DataInv, QuietInv, [Next]_vars, writes' = 0, whole'
             PROVE  /\ stage' = "indexes" => Made(Head(todo), fields)'
                    /\ \A ent \in entities' :
                          /\ Made(ent.name, ent.detail)'
                          /\ ent.fields = [i \in DOMAIN ent.detail |-> ent.detail[i].name]
                          /\ ent.paths = PathsOf(ent.name)'
  BY DEF QuietInv
<1>1. ~OtherClients
  <2> SUFFICES ASSUME OtherClients PROVE FALSE
    OBVIOUS
  <2>1. writes' = writes + 1 /\ writes \in Nat
    BY DatabaseAssumption DEF OtherClients, Insert, Empty, CreateIndex, Write, DataInv
  <2> QED BY <2>1
<1>2. UNCHANGED <<database, writes>> /\ whole
  BY <1>1 DEF Next, Extract, Stop, ExtractValidators, CountDocuments, Sample, FinishCollection,
              Finish, Fail, vars, locals
<1>3. \A c : PathsOf(c)' = PathsOf(c) /\ DocsOf(c)' = DocsOf(c)
  BY <1>2 DEF PathsOf, DocsOf, database
<1>4. \A c, list : found' = found => (Made(c, list)' <=> Made(c, list))
  BY <1>3 DEF Made
<1>5. /\ stage = "indexes" => Made(Head(todo), fields)
      /\ \A ent \in entities :
            /\ Made(ent.name, ent.detail)
            /\ ent.fields = [i \in DOMAIN ent.detail |-> ent.detail[i].name]
            /\ ent.paths = PathsOf(ent.name)
  BY <1>2 DEF QuietInv
<1>6. CASE ExtractValidators
  <2>1. entities' = {} /\ stage' = "count"
    BY <1>6 DEF ExtractValidators, DataInv
  <2> QED BY <2>1
<1>7. CASE Sample
  <2>1. UNCHANGED <<found, todo, entities>>
    BY <1>7 DEF Sample, result
  <2> DEFINE c == Head(todo)
  <2>2. PICK sample \in SUBSET DocsOf(c) :
          /\ whole' = (whole /\ sample = DocsOf(c))
          /\ IF found[c] # << >> THEN fields' = found[c]
             ELSE \E order \in Iterations(ValueTypes(sample)) : fields' = InferFields(sample, order)
    BY <1>7 DEF Sample
  <2>3. sample = DocsOf(c)
    BY <2>2
  <2>4. Made(c, fields')
    BY <2>2, <2>3 DEF Made
  <2>5. Made(Head(todo), fields)'
    BY <1>3, <2>1, <2>4 DEF Made
  <2> QED BY <1>3, <1>4, <1>5, <2>1, <2>5
<1>8. CASE FinishCollection
  <2> DEFINE c == Head(todo)
             ent == [at |-> Cardinality(entities) + 1, name |-> c,
                     fields |-> [i \in DOMAIN fields |-> fields[i].name],
                     detail |-> fields, paths |-> PathsOf(c)]
  <2>1. found' = found /\ stage = "indexes" /\ stage' = "count" /\ entities' = entities \cup {ent}
    BY <1>8 DEF FinishCollection
  <2>2. /\ ent.name = c /\ ent.detail = fields /\ ent.paths = PathsOf(c)
        /\ ent.fields = [i \in DOMAIN fields |-> fields[i].name]
    OBVIOUS
  <2> HIDE DEF ent
  <2>3. Made(ent.name, ent.detail)
    BY <1>5, <2>1, <2>2
  <2> QED BY <1>3, <1>4, <1>5, <2>1, <2>2, <2>3
<1>9. CASE CountDocuments \/ Finish \/ Fail \/ UNCHANGED vars
  <2>1. UNCHANGED <<found, todo, fields, entities>> /\ (stage' = "indexes" => stage = "indexes")
    BY <1>9 DEF CountDocuments, Finish, Fail, vars, locals, result
  <2> QED BY <1>3, <1>4, <1>5, <2>1 DEF Made
<1> QED BY <1>1, <1>6, <1>7, <1>8, <1>9 DEF Next, Extract, Stop

\* The extractor's state has its type; in particular no more documents are counted
\* than the sample size allows.
THEOREM TypeCorrect == Spec => []TypeOK
<1>1. IInv /\ DataInv => TypeOK
  BY DEF IInv, TodoInv, Stages, Finished, DataInv, TypeOK
<1> QED BY InitIInv, Inductive, InitData, DataStep, <1>1, PTL DEF Spec

\* The state of a database nobody has written to, whose samples were whole.
LEMMA QuietEntity ==
  ASSUME IInv, DataInv, QuietInv, writes = 0, whole, NEW ent \in entities
  PROVE  /\ ent.name \in Colls
         /\ DocsOf(ent.name) \subseteq Documents /\ IsFiniteSet(DocsOf(ent.name))
         /\ Made(ent.name, ent.detail)
         /\ ent.fields = [i \in DOMAIN ent.detail |-> ent.detail[i].name]
         /\ ent.paths = PathsOf(ent.name)
<1>1. ent.name \in Finished
  BY DEF Finished, NamesOf, Export
<1>2. DocsOf(ent.name) \in SUBSET docs
  BY DEF DocsOf
<1> QED BY <1>1, <1>2, FS_Subset DEF IInv, TodoInv, DataInv, QuietInv

\* The fields inferred from a whole, unchanging collection are its documents' fields
\* with their majority types, for any number of documents and types and whatever the
\* order in which Go ranges over its maps.
THEOREM MajorityTypes == Spec => []FieldsFollowDocuments
<1>1. IInv /\ DataInv /\ QuietInv => FieldsFollowDocuments
  <2> SUFFICES ASSUME IInv, DataInv, QuietInv, writes = 0, whole,
                      NEW ent \in entities, found[ent.name] = << >>
               PROVE  LET Having(f) == {d \in DocsOf(ent.name) : f \in DOMAIN d.fields} IN
                      /\ ent.fields = Ordered(UNION {DOMAIN d.fields : d \in DocsOf(ent.name)})
                      /\ \A i \in DOMAIN ent.fields :
                            LET f == ent.fields[i]
                                field == ent.detail[i]
                                Inside(g) == {d \in Having(f) : g \in DOMAIN d.fields[f].sub}
                            IN  /\ IsMajority(field.type, [d \in Having(f) |-> d.fields[f].type])
                                /\ {field.sub[k].name : k \in DOMAIN field.sub}
                                     = UNION {DOMAIN d.fields[f].sub : d \in Having(f)}
                                /\ \A k \in DOMAIN field.sub :
                                      LET g == field.sub[k].name IN
                                      IsMajority(field.sub[k].type, [d \in Inside(g) |-> d.fields[f].sub[g]])
    BY DEF FieldsFollowDocuments
  <2> DEFINE sample == DocsOf(ent.name)
             names == Ordered(UNION {DOMAIN d.fields : d \in sample})
  <2>1. /\ sample \subseteq Documents /\ IsFiniteSet(sample)
        /\ ent.fields = [i \in DOMAIN ent.detail |-> ent.detail[i].name]
        /\ Made(ent.name, ent.detail)
    BY QuietEntity
  <2>2. PICK ordering \in Iterations(ValueTypes(sample)) : ent.detail = InferFields(sample, ordering)
    BY <2>1 DEF Made
  <2>3. /\ DOMAIN ent.detail = DOMAIN names
        /\ \A i \in DOMAIN names :
              ent.detail[i].name = names[i] /\ Describes(ent.detail[i], names[i], sample)
    BY <2>1, <2>2, InferredFields
  <2>4. names = [i \in DOMAIN names |-> names[i]]
    <3>1. names \in Seq(Names)
      BY OrderedNames
    <3> HIDE DEF names
    <3> QED BY <3>1
  <2>5. ent.fields = names
    BY <2>1, <2>3, <2>4
  <2>6. \A i \in DOMAIN ent.fields : Describes(ent.detail[i], ent.fields[i], sample)
    BY <2>3, <2>5
  <2> HIDE DEF names, sample
  <2> QED BY <2>5, <2>6 DEF Describes, names, sample
<1> QED BY InitIInv, Inductive, InitData, DataStep, QuietStep, <1>1, PTL DEF Spec

\* parseJSONSchemaValidator names the declared properties, in order.
LEMMA ParsedNames ==
  ASSUME NEW v
  PROVE  LET names == Ordered(DOMAIN v.props)
             list == ParseJSONSchemaValidator(v)
         IN  DOMAIN list = DOMAIN names /\ \A i \in DOMAIN names : list[i].name = names[i]
<1> DEFINE names == Ordered(DOMAIN v.props)
<1> HIDE DEF names
<1>1. LET list == ParseJSONSchemaValidator(v)
      IN  DOMAIN list = DOMAIN names /\ \A i \in DOMAIN names : list[i].name = names[i]
  BY DEF ParseJSONSchemaValidator, names
<1> QED BY <1>1 DEF names

\* The fields of collection c that the extractor gets to see.
Seen(c) ==
    IF found[c] # << >> THEN {found[c][i].name : i \in DOMAIN found[c]}
    ELSE UNION {DOMAIN d.fields : d \in DocsOf(c)}

\* An entity has just those, each once.
LEMMA QuietFields ==
  ASSUME IInv, DataInv, QuietInv, writes = 0, whole, NEW ent \in entities
  PROVE  /\ ToSetOf(ent.fields) = Seen(ent.name)
         /\ \A i, j \in DOMAIN ent.fields : ent.fields[i] = ent.fields[j] => i = j
<1> DEFINE c == ent.name
<1>1. /\ c \in Colls /\ DocsOf(c) \subseteq Documents /\ IsFiniteSet(DocsOf(c))
      /\ Made(c, ent.detail) /\ ent.fields = [i \in DOMAIN ent.detail |-> ent.detail[i].name]
  BY QuietEntity
<1>2. /\ DOMAIN ent.fields = DOMAIN ent.detail
      /\ \A i \in DOMAIN ent.detail : ent.fields[i] = ent.detail[i].name
  BY <1>1
<1>3. \E S : /\ DOMAIN ent.detail = DOMAIN Ordered(S)
             /\ \A i \in DOMAIN Ordered(S) : ent.detail[i].name = Ordered(S)[i]
             /\ found[c] = << >> => S = Seen(c) /\ S \subseteq Names
  <2>1. CASE found[c] # << >>
    <3>1. PICK v : ent.detail = ParseJSONSchemaValidator(v)
      BY <1>1, <2>1 DEF Made, DataInv
    <3> DEFINE declared == DOMAIN v.props
    <3>2. /\ DOMAIN ent.detail = DOMAIN Ordered(declared)
          /\ \A i \in DOMAIN Ordered(declared) : ent.detail[i].name = Ordered(declared)[i]
      BY <3>1, ParsedNames
    <3> HIDE DEF declared
    <3> QED BY <2>1, <3>2
  <2>2. CASE found[c] = << >>
    <3> DEFINE sample == DocsOf(c)
    <3>1. PICK order \in Iterations(ValueTypes(sample)) : ent.detail = InferFields(sample, order)
      BY <1>1, <2>2 DEF Made
    <3>2. LET names == Ordered(UNION {DOMAIN d.fields : d \in sample})
          IN  /\ DOMAIN ent.detail = DOMAIN names
              /\ \A i \in DOMAIN names : ent.detail[i].name = names[i]
      BY <1>1, <3>1, InferredFields
    <3>3. UNION {DOMAIN d.fields : d \in sample} \subseteq Names
      BY <1>1, DatabaseAssumption
    <3>4. Seen(c) = UNION {DOMAIN d.fields : d \in sample}
      BY <2>2 DEF Seen
    <3> HIDE DEF sample
    <3> QED BY <3>2, <3>3, <3>4
  <2> QED BY <2>1, <2>2
<1>4. PICK S : /\ DOMAIN ent.detail = DOMAIN Ordered(S)
               /\ \A i \in DOMAIN Ordered(S) : ent.detail[i].name = Ordered(S)[i]
               /\ found[c] = << >> => S = Seen(c) /\ S \subseteq Names
  BY <1>3
<1>5. /\ {Ordered(S)[i] : i \in DOMAIN Ordered(S)} = S \cap Names
      /\ \A i, j \in DOMAIN Ordered(S) : Ordered(S)[i] = Ordered(S)[j] => i = j
  BY OrderedNames
<1>6. \A i, j \in DOMAIN ent.fields : ent.fields[i] = ent.fields[j] => i = j
  BY <1>2, <1>4, <1>5
<1>7. ToSetOf(ent.fields) = {ent.detail[i].name : i \in DOMAIN ent.detail}
  BY <1>2 DEF ToSetOf
<1>8. ToSetOf(ent.fields) = Seen(c)
  <2>1. CASE found[c] # << >>
    <3>1. ent.detail = found[c]
      BY <1>1, <2>1 DEF Made
    <3> QED BY <1>7, <2>1, <3>1 DEF Seen
  <2>2. CASE found[c] = << >>
    BY <1>4, <1>5, <1>7, <2>2
  <2> QED BY <2>1, <2>2
<1> QED BY <1>6, <1>8

\* When the extractor has finished, every collection is one entity.
LEMMA DoneEntities ==
  ASSUME IInv, DataInv, QuietInv, stage = "done", writes = 0, whole
  PROVE  /\ \A c \in Colls : \E ent \in entities : ent.name = c
         /\ \A c \in Colls : FieldsOf(Export, c) = Seen(c)
<1>1. Finished = Colls
  <2>1. todo = << >>
    BY DEF IInv, TodoInv
  <2>2. ToSetOf(todo) = {}
    BY <2>1 DEF ToSetOf
  <2> QED BY <2>2 DEF IInv, TodoInv
<1>2. Finished = {ent.name : ent \in entities} /\ Export.entities = entities
  BY DEF Finished, NamesOf, Export
<1>3. ASSUME NEW ent \in entities
      PROVE  FieldsOf(Export, ent.name) = Seen(ent.name)
  <2>1. {e \in entities : e.name = ent.name} = {ent}
    BY DEF IInv, TodoInv
  <2>2. FieldsOf(Export, ent.name) = ToSetOf(ent.fields)
    BY <1>2, <2>1 DEF FieldsOf
  <2> QED BY <2>2, QuietFields
<1> QED BY <1>1, <1>2, <1>3

\* The export of a database nobody writes to is accepted when, and only when, no field
\* seen has an empty name, every indexed column is seen, and every collection that a
\* reference enters has its _id seen.
THEOREM QuietExports == Spec => []QuietExportValidates
<1>1. IInv /\ DataInv /\ QuietInv => QuietExportValidates
  <2> SUFFICES ASSUME IInv, DataInv, QuietInv, stage = "done", writes = 0, whole
               PROVE  ValidateStrict(Export) <=>
                         \A c \in Colls :
                            /\ << >> \notin Seen(c)
                            /\ indexes[c] \ DottedNames \subseteq Seen(c)
                            /\ \A f \in Seen(c) : Reference(f) /\ RefBase(f) \in Colls =>
                                                     <<"_id">> \in Seen(RefBase(f))
    BY DEF QuietExportValidates, Seen
  <2> DEFINE id == <<"_id">>
  <2>1. Export.entities = entities /\ Export.edges = edges
    BY DEF Export
  <2>2. \A c \in Colls : /\ \E ent \in entities : ent.name = c
                         /\ FieldsOf(Export, c) = Seen(c)
    BY DoneEntities
  <2>3. \A ent \in entities :
           /\ ent.name \in Colls /\ ent.paths = PathsOf(ent.name) /\ ToSetOf(ent.fields) = Seen(ent.name)
           /\ \A i, j \in DOMAIN ent.fields : ent.fields[i] = ent.fields[j] => i = j
    BY QuietEntity, QuietFields
  <2>4. BasicallyValid
    BY ValidWhenDone
  <2>5. Validate(Export) /\ \A e \in edges : e.fromField \in FieldsOf(Export, e.from)
    BY <2>4 DEF BasicallyValid
  <2>6. \A c \in Colls : (\A path \in PathsOf(c) : ToSetOf(path.columns) \ DottedNames \subseteq Seen(c))
                         <=> indexes[c] \ DottedNames \subseteq Seen(c)
    <3> TAKE c \in Colls
    <3> DEFINE indexed(col) == [columns |-> <<col>>]
    <3>1. PathsOf(c) = {indexed(col) : col \in indexes[c]}
      BY DEF PathsOf
    <3>2. \A col : ToSetOf(indexed(col).columns) = {col}
      BY DEF ToSetOf
    <3> HIDE DEF indexed
    <3>3. ASSUME NEW path \in PathsOf(c), indexes[c] \ DottedNames \subseteq Seen(c)
          PROVE  ToSetOf(path.columns) \ DottedNames \subseteq Seen(c)
      <4>1. PICK col \in indexes[c] : path = indexed(col)
        BY <3>1
      <4>2. ToSetOf(path.columns) = {col}
        BY <3>2, <4>1
      <4> QED BY <3>3, <4>2
    <3>4. ASSUME NEW col \in indexes[c] \ DottedNames,
                 \A path \in PathsOf(c) : ToSetOf(path.columns) \ DottedNames \subseteq Seen(c)
          PROVE  col \in Seen(c)
      <4>1. indexed(col) \in PathsOf(c)
        BY <3>1
      <4>2. ToSetOf(indexed(col).columns) \ DottedNames \subseteq Seen(c)
        BY <3>4, <4>1
      <4> QED BY <3>2, <4>2
    <3> QED BY <3>3, <3>4
  <2>7. /\ \A e \in edges : /\ e.from \in Colls /\ e.fromField \in Seen(e.from) /\ Reference(e.fromField)
                            /\ RefBase(e.fromField) \in Colls
                            /\ e.to = RefBase(e.fromField) /\ e.toField = id
        /\ \A c \in Colls : \A f \in Seen(c) : Reference(f) /\ RefBase(f) \in Colls =>
              \E e \in edges : e.to = RefBase(f) /\ e.toField = id
    <3>1. \A c, f : InferredEdge(c, f).to = RefBase(f) /\ InferredEdge(c, f).toField = id
      BY DEF InferredEdge
    <3>2. ASSUME NEW e \in edges
          PROVE  /\ e.from \in Colls /\ e.fromField \in Seen(e.from) /\ Reference(e.fromField)
                 /\ RefBase(e.fromField) \in Colls
                 /\ e.to = RefBase(e.fromField) /\ e.toField = id
      <4>1. /\ e = InferredEdge(e.from, e.fromField) /\ Reference(e.fromField) /\ RefBase(e.fromField) \in Colls
            /\ \E ent \in entities : ent.name = e.from /\ e.fromField \in ToSetOf(ent.fields)
        BY DEF IInv, EdgeInv
      <4> QED BY <2>3, <3>1, <4>1
    <3>3. ASSUME NEW c \in Colls, NEW f \in Seen(c), Reference(f), RefBase(f) \in Colls
          PROVE  \E e \in edges : e.to = RefBase(f) /\ e.toField = id
      <4>1. PICK ent \in entities : ent.name = c
        BY <2>2
      <4>2. f \in ToSetOf(ent.fields)
        BY <2>3, <4>1
      <4>3. InferredEdge(c, f) \in edges
        BY <3>3, <4>1, <4>2 DEF IInv, AccountedInv
      <4> QED BY <3>1, <4>3
    <3> QED BY <3>2, <3>3
  <2> HIDE DEF id
  <2>8. (\A e \in edges : e.toField \in FieldsOf(Export, e.to))
        <=> \A c \in Colls : \A f \in Seen(c) : Reference(f) /\ RefBase(f) \in Colls => id \in Seen(RefBase(f))
    BY <2>2, <2>7
  <2>9. (\A ent \in entities : /\ << >> \notin ToSetOf(ent.fields)
                               /\ \A path \in ent.paths : ToSetOf(path.columns) \ DottedNames \subseteq ToSetOf(ent.fields))
        <=> \A c \in Colls : << >> \notin Seen(c) /\ indexes[c] \ DottedNames \subseteq Seen(c)
    BY <2>2, <2>3, <2>6
  <2>10. ValidateStrict(Export) <=>
           /\ \A ent \in entities : /\ << >> \notin ToSetOf(ent.fields)
                                    /\ \A path \in ent.paths : ToSetOf(path.columns) \ DottedNames \subseteq ToSetOf(ent.fields)
           /\ \A e \in edges : e.toField \in FieldsOf(Export, e.to)
    BY <2>1, <2>3, <2>5 DEF ValidateStrict
  <2> QED BY <2>8, <2>9, <2>10 DEF id
<1> QED BY InitIInv, Inductive, InitData, DataStep, QuietStep, <1>1, PTL DEF Spec
=============================================================================
