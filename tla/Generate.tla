------------------------------- MODULE Generate -------------------------------
(***************************************************************************)
(* Generate (internal/gen/gen.go), which builds the synthetic export the   *)
(* stress tests compile: the signal tables of a benchmark scenario among   *)
(* noise tables whose shape a random source decides.  Every draw is a      *)
(* choice.  A generated name is a tuple of the words and numbers it is     *)
(* formatted from.  Of a field only the name, whether it is of the primary *)
(* key, and the types that make it a likely reference matter; NOT NULL,    *)
(* defaults, descriptions and the uniqueness of an index do not.           *)
(***************************************************************************)
EXTENDS CtxExport

CONSTANTS Configs,         \* [signal, total]: the configurations considered
          NoiseStems,      \* prefix_suffix of a noise table's name
          NoiseColumns,    \* the column names fields are drawn from
          NoiseTypes,      \* the column types fields are drawn from
          FieldCounts      \* numbers of fields a noise table may have

\* Signal tables as the callers give them: each once, with fields named once, and
\* none with the name generateNoiseName falls back to.
Distinct(seq) == \A i, j \in DOMAIN seq : seq[i] = seq[j] => i = j

Usable(tables, n) ==
    /\ \A i \in DOMAIN tables :
          /\ tables[i].name # << >> /\ \A k \in 0..n : tables[i].name # <<"noise_table", k>>
          /\ Distinct(tables[i].fields) /\ << >> \notin ToSetOf(tables[i].fields)
    /\ \A i, j \in DOMAIN tables : tables[i].name = tables[j].name => i = j

ASSUME GeneratorAssumption ==
    /\ \A config \in Configs : /\ config.total \in Nat
                               /\ config.signal \in Seq(ToSetOf(config.signal))
                               /\ Usable(config.signal, config.total)
    /\ \A n \in FieldCounts : n \in Nat /\ n > 2

VARIABLES signal,   \* Config.SignalTables
          total,    \* Config.TotalTables, signal tables included
          noise,    \* noiseTables
          edges,    \* FK edges, the signal edges first
          stage, at

vars == <<signal, total, noise, edges, stage, at>>

-----------------------------------------------------------------------------
(* The signal tables of the q4_stress scenario and their foreign keys.     *)
Columns(words) == [i \in DOMAIN words |-> <<words[i]>>]
SignalTable(word, words) == [name |-> <<word>>, fields |-> Columns(words)]

DefaultSignalTables == <<
    SignalTable("users", <<"id", "email", "name", "tier", "region", "created_at">>),
    SignalTable("orders", <<"id", "user_id", "status", "total", "payload", "created_at">>),
    SignalTable("order_items", <<"id", "order_id", "product_id", "quantity", "unit_price">>),
    SignalTable("products", <<"id", "name", "sku", "price", "category">>),
    SignalTable("payments", <<"id", "order_id", "amount", "provider", "status",
                              "gateway_payload", "created_at">>),
    SignalTable("shipments", <<"id", "order_id", "carrier", "region", "status",
                               "shipped_at", "delivered_at", "tracking_events">>),
    SignalTable("audit_events", <<"id", "actor_id", "action", "target_type",
                                  "target_id", "created_at">>),
    SignalTable("internal_metrics", <<"id", "metric_name", "metric_value", "recorded_at">>) >>

Edge(from, fromField, to, toField) ==
    [from |-> from, fromField |-> fromField, to |-> to, toField |-> toField]

SignalEdges ==
    {Edge(<<e[1]>>, <<e[2]>>, <<e[3]>>, <<"id">>) :
        e \in {<<"orders", "user_id", "users">>, <<"order_items", "order_id", "orders">>,
               <<"order_items", "product_id", "products">>, <<"payments", "order_id", "orders">>,
               <<"shipments", "order_id", "orders">>}}

-----------------------------------------------------------------------------
(* Noise tables.                                                           *)
Field(name, type, pk) == [name |-> name, type |-> type, pk |-> pk]
FieldNames(fields) == {fields[i].name : i \in DOMAIN fields}

\* Groups of fields are sets of positions.
Key(fields) == {i \in DOMAIN fields : fields[i].pk}
NonKey(fields) == DOMAIN fields \ Key(fields)
Named(fields, S) == {fields[i].name : i \in S}
FirstOf(S) == {i \in S : \A j \in S : i <= j}

\* Faulty variants (for the mutation runs, as those below): a suffix that does not
\* tell two repeats apart; names of signal tables not reserved.
DrawnFieldSameSuffix(key, draws, i) ==
    LET taken == \/ <<draws[i].name>> \in FieldNames(key)
                 \/ \E j \in Len(key) + 1..i - 1 : draws[j].name = draws[i].name
    IN  Field(IF taken THEN <<draws[i].name, 1>> ELSE <<draws[i].name>>, draws[i].type, FALSE)
UsedNamesNoiseOnly == {noise[i].name : i \in DOMAIN noise}

\* The column drawn for position i; a name that is taken already, by a key column or
\* an earlier draw, gets the position, counted from 0, as a suffix.
DrawnField(key, draws, i) ==
    LET taken == \/ <<draws[i].name>> \in FieldNames(key)
                 \/ \E j \in Len(key) + 1..i - 1 : draws[j].name = draws[i].name
    IN  Field(IF taken THEN <<draws[i].name, i - 1>> ELSE <<draws[i].name>>, draws[i].type, FALSE)

\* generateNoiseFields: the key columns, then as many draws as are left.
KeyFields(composite) ==
    IF composite THEN <<Field(<<"left_id">>, "uuid", TRUE), Field(<<"right_id">>, "uuid", TRUE)>>
                 ELSE <<Field(<<"id">>, "uuid", TRUE)>>

FieldsWith(key, draws, count) ==
    [i \in 1..count |-> IF i <= Len(key) THEN key[i] ELSE DrawnField(key, draws, i)]

NoiseFields(composite) ==
    LET key == KeyFields(composite)
        Draws(count) == [Len(key) + 1..count -> [name : NoiseColumns, type : NoiseTypes]]
    IN  UNION {{FieldsWith(key, draws, count) : draws \in Draws(count)} : count \in FieldCounts}

\* generateNoiseIndexes: one or two non-key columns, each indexed alone.  The draw
\* for the second may give up, never the one for the first.
NoiseIndexes(fields) ==
    {{[columns |-> <<c>>] : c \in cs} :
        cs \in {cs \in SUBSET Named(fields, NonKey(fields)) : Cardinality(cs) \in 1..2}}

UsedNames == {signal[i].name : i \in DOMAIN signal} \cup {noise[i].name : i \in DOMAIN noise}

\* generateNoiseName: a fresh name with the index in it; when every attempt hits a
\* used one, the fallback, which is not looked up.
NoiseNames(index) ==
    LET candidates == {<<stem, index>> : stem \in NoiseStems}
    IN  (candidates \ UsedNames)
          \cup {<<"noise_table", index>> : n \in candidates \cap UsedNames}

HasIdSuffix(name) == name \in {<<"ref_id">>, <<"parent_id">>, <<"left_id">>, <<"right_id">>}

\* noiseEdgeSourceField: the first non-key field of the best kind there is.
Preference(field) ==
    CASE field.name = <<"ref_id">> -> 1
      [] field.name = <<"parent_id">> -> 2
      [] field.name \notin {<<"ref_id">>, <<"parent_id">>} /\ HasIdSuffix(field.name) -> 3
      [] ~HasIdSuffix(field.name) /\ field.type \in {"uuid", "bigint", "int"} -> 4
      [] OTHER -> 5

SourceFields(fields) ==
    LET fit == {i \in NonKey(fields) : Preference(fields[i]) < 5}
    IN  Named(fields, FirstOf({i \in fit : \A j \in fit : Preference(fields[i]) <= Preference(fields[j])}))

\* noiseEdgeTargetField: the key "id", or else the first key column.
TargetFields(fields) ==
    LET ids == {i \in Key(fields) : fields[i].name = <<"id">>}
    IN  Named(fields, FirstOf(IF ids # {} THEN ids ELSE Key(fields)))

-----------------------------------------------------------------------------
\* The exported document: the signal tables first, in their order.
Signals == {[at |-> i, name |-> signal[i].name, fields |-> signal[i].fields, paths |-> {}] :
               i \in DOMAIN signal}
Noises  == {[at |-> Len(signal) + i, name |-> noise[i].name, paths |-> noise[i].paths,
             fields |-> [j \in DOMAIN noise[i].fields |-> noise[i].fields[j].name]] :
               i \in DOMAIN noise}
Export  == [version |-> "ctxexport.v0", entities |-> Signals \cup Noises, edges |-> edges]

NoiseCount == IF total > Len(signal) THEN total - Len(signal) ELSE 0

Init ==
    /\ \E config \in Configs : signal = config.signal /\ total = config.total
    /\ noise = << >>
    /\ edges = {}
    /\ stage = "tables" /\ at = 0

\* One round of the loop that makes noise tables.
AddNoiseTable ==
    /\ stage = "tables"
    /\ Len(noise) < NoiseCount
    /\ \E name \in NoiseNames(Len(noise)), composite \in BOOLEAN :
       \E fields \in NoiseFields(composite) :
       \E paths \in NoiseIndexes(fields) :
          noise' = Append(noise, [name |-> name, fields |-> fields, paths |-> paths])
    /\ UNCHANGED <<signal, total, edges, stage, at>>

StartEdges ==
    /\ stage = "tables"
    /\ Len(noise) = NoiseCount
    /\ edges' = SignalEdges
    /\ stage' = "edges" /\ at' = 1
    /\ UNCHANGED <<signal, total, noise>>

\* Faulty variant: a target drawn among all noise tables.
AddNoiseEdgeAnywhere ==
    /\ stage = "edges"
    /\ at <= Len(noise)
    /\ \/ edges' = edges
       \/ /\ at > 1
          /\ \E from \in SourceFields(noise[at].fields), target \in 1..Len(noise) :
             \E to \in TargetFields(noise[target].fields) :
                edges' = edges \cup {Edge(noise[at].name, from, noise[target].name, to)}
    /\ at' = at + 1
    /\ UNCHANGED <<signal, total, noise, stage>>

\* One round of the loop that gives some noise tables, never the first, a foreign
\* key to an earlier one.
AddNoiseEdge ==
    /\ stage = "edges"
    /\ at <= Len(noise)
    /\ \/ edges' = edges
       \/ /\ at > 1
          /\ \E from \in SourceFields(noise[at].fields), target \in 1..(at - 1) :
             \E to \in TargetFields(noise[target].fields) :
                edges' = edges \cup {Edge(noise[at].name, from, noise[target].name, to)}
    /\ at' = at + 1
    /\ UNCHANGED <<signal, total, noise, stage>>

\* The last loop drops the edges whose tables or fields do not exist.
DropInvalidEdges ==
    /\ stage = "edges"
    /\ at > Len(noise)
    /\ edges' = {e \in edges : /\ {e.from, e.to} \subseteq NamesOf(Export)
                               /\ e.fromField \in FieldsOf(Export, e.from)
                               /\ e.toField \in FieldsOf(Export, e.to)}
    /\ stage' = "done"
    /\ UNCHANGED <<signal, total, noise, at>>

Stop == stage = "done" /\ UNCHANGED vars

Next == AddNoiseTable \/ StartEdges \/ AddNoiseEdge \/ DropInvalidEdges \/ Stop

Spec == Init /\ [][Next]_vars

-----------------------------------------------------------------------------
SignalNames == {signal[i].name : i \in DOMAIN signal}
HasColumn(name, field) ==
    \E i \in DOMAIN signal : signal[i].name = name /\ field \in ToSetOf(signal[i].fields)

\* Whatever the random source draws, the export passes the strict validation:
\* repeated draws, composite keys and a signal table whose name a draw repeats
\* leave neither two fields nor two tables of one name, and every index and every
\* foreign key names fields that exist.
GeneratedIsStrict == stage = "done" => ValidateStrict(Export)

\* The noise stays off the signal: the export has as many tables of different
\* names as were asked for, never fewer than the signal tables, and the foreign
\* keys that touch a signal table are exactly those of the scenario whose tables
\* and columns were included.
SignalIsIntact ==
    stage = "done" =>
        /\ Cardinality(NamesOf(Export)) = Len(signal) + NoiseCount
        /\ {e \in edges : {e.from, e.to} \cap SignalNames # {}}
             = {e \in SignalEdges : HasColumn(e.from, e.fromField) /\ HasColumn(e.to, e.toField)}

\* The foreign keys between noise tables form no cycle: each leaves a table by the
\* only non-key field that does and enters the key of an earlier one.  All those
\* fields exist, so the last loop of Generate drops signal edges only, though the
\* comment at it says it drops such edges "when noise field deduplication renames
\* fields or when composite-PK tables lack a single "id" column".
NoiseIsLayered ==
    stage \in {"edges", "done"} =>
        \A e \in edges \ SignalEdges : \E i, j \in DOMAIN noise :
            /\ j < i
            /\ e.from = noise[i].name /\ e.to = noise[j].name
            /\ e.fromField \in Named(noise[i].fields, NonKey(noise[i].fields))
            /\ e.toField \in Named(noise[j].fields, Key(noise[j].fields))
            /\ \A other \in edges \ SignalEdges : other.from = e.from => other = e
=============================================================================
