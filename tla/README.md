# dbdense in TLA+

dbdense reads the schema of a PostgreSQL or MongoDB database into one JSON
document (`ctxexport`), compiles that document to DDL text, and serves the DDL
table by table to a language-model client over MCP. A benchmark next to it asks
questions through the Claude CLI with and without that context and decides, by
seven gates, whether the context helped.

This directory models that program in TLA+, checks the models with TLC on small
instances, and proves with TLAPS, for all instances, the session protocol of the
server, the extractors' promises, what exports and loads that meet in one file can
rely on, that compiled files hold the whole document, what the benchmark's gates
accept, and that the generated schemas are valid. Names follow the Go code. `PROJECT.json` has, for every
definition, the source lines it stands for.

- [The system](#the-system)
- [Modules and code](#modules-and-code)
- [Runs](#runs)
- [Fairness](#fairness)
- [Theorems](#theorems)
- [What the runs found](#what-the-runs-found)
- [Abstractions](#abstractions), [what is not modelled](#what-is-not-modelled), [plan](#plan)

## The system

```
 PostgreSQL --\                                       /--> compile --> DDL files, lighthouse file
               Extract -> sidecar merge -> ctxexport.json
 MongoDB -----/           (export)                    \--> serve (MCP) <--> client
                                                             ^
                              init-claude -> mcp config -----'

 scenarios -> benchrun <-> Claude CLI        runs.jsonl + manifest.json -> benchreport
```

| Part | State it keeps | Operations | Why it is hard |
|---|---|---|---|
| MCP server, `internal/server/mcp.go` | `handler.sent` (tables the client already has) under `handler.mu`; the export is immutable | `slice`, `reset`, the lighthouse resource | mcp-go runs tool calls on a pool of workers; `handleSliceTool` reads the map, releases the lock to compile, and locks again to mark; `reset` replaces the map in between |
| PostgreSQL extractor, `internal/extract/postgres.go` | the export it builds | table list, fields and access paths per table, foreign keys per schema | one query each, no transaction: DDL of other sessions falls in between; names are qualified or not depending on the schema list |
| MongoDB extractor, `internal/extract/mongodb.go` | the export, the field statistics of a sample | validators, count, sample, indexes, edge inference | the database is written to meanwhile; the sample is random; edges are guessed from names |
| ctxexport, `pkg/schema` | none | `Validate`, `ValidateStrict`, `LoadExport` | the contract between the producers and the consumers |
| export command and sidecar, `cmd/dbdense`, `internal/extract/sidecar.go` | the output file | extract, merge, create, write | the file is truncated in place; kills, full disks, two exports and readers at once |
| init-claude, `cmd/dbdense` | the MCP configuration file | read, add the server, write | read-modify-write of a file other programs own |
| compile command and renderers, `cmd/dbdense`, `internal/compile` | the output files | full, lighthouse, split by namespace | several files per run, name folding, foreign keys that cross files |
| benchrun and the Claude provider, `benchmark/` | the provider session, `runs.jsonl`, the manifest | open session, query, append, finish | sessions that must be resumed, queries that hang, torn appends |
| benchreport, `benchmark/cmd/benchreport` | none | load records, seven gates | must not accept what was not measured |
| schema generator, `internal/gen` | the export it builds | noise tables, noise edges, the last filter | every name is drawn at random and may repeat another |

What makes each part correct, in the terms checked below:

- **Server.** A table counts as "already in context" only if some response
  carries its DDL; no call is lost and the lock is never left held; a response
  accounts for every requested name.
- **Extractors.** What they return passes the validation that every consumer
  runs on it, and says what the database says; every foreign key, and every field
  that looks like a reference, is in the export or reported.
- **Export and load.** A load sees one whole document or refuses; a failure
  before the output is opened costs nothing; every override is applied or
  reported.
- **Compile.** What is in the document is on disk, each entity once, each
  foreign key with both its tables; what SQL reads in a file is what the document
  says, whatever characters its names and descriptions hold.
- **Benchmark.** A manifest means a complete directory; the records of one flow
  come from one conversation; the gates accept only what was measured.
- **Generator.** Whatever is drawn, the export is strictly valid and the signal
  tables and their keys stay as the scenario has them.

## Modules and code

| Module | Models | Uses |
|---|---|---|
| `SliceSession` | abstract: what a session promises about table DDL | |
| `SliceServer` | `handleSliceTool`, `handleResetTool`, the worker pool | refines `SliceSession` |
| `SliceServerProofs` | theorems about the two | TLAPS |
| `CtxExport` | the document, `Validate`, `ValidateStrict` | |
| `Selection` | the loops that keep some members of a slice | |
| `SequenceLemmas` | induction over numbers; what `FlattenSeq` and `Selection` return | TLAPS |
| `PostgresExtract` | `PostgresExtractor.Extract` against a changing catalog, `splitSchemas`, `parseTextArray` | `CtxExport`, `Selection` |
| `PostgresExtractProofs` | theorems | `SequenceLemmas` |
| `MongoExtract` | `MongoExtractor.Extract` against a changing database | `CtxExport`, `FieldInference` |
| `FieldInference` | fields and types from documents and from `$jsonSchema` | `Selection` |
| `MongoExtractProofs` | theorems | `SequenceLemmas` |
| `AtomicExport` | abstract: what exports promise those who load their file | |
| `ExportCommand` | `dbdense export`, sidecar merge, `LoadExport` | |
| `InitClaude` | `dbdense init-claude` | |
| `Workspace`, `WorkspaceProofs` | the commands meeting in one directory, and theorems | `ExportCommand`, `InitClaude`; refines `AtomicExport`; TLAPS |
| `Render` | the DDL and lighthouse renderers, as functions | `Selection` |
| `DDLReader` | the other side: how SQL and a client read the text | `Render` |
| `CompileCommand`, `CompileProofs` | `dbdense compile`, and theorems | `DDLReader`, `SequenceLemmas` |
| `ClaudeProvider` | session ids and token counts of the CLI provider | |
| `BenchRun` | `benchrun` | `ClaudeProvider` |
| `BenchReport` | gates 2, 5, 6 and 7 of `benchreport`, as functions of the records | |
| `Bench`, `BenchProofs` | run and report together, and theorems | `BenchRun`, `BenchReport`, `SequenceLemmas` |
| `Generate`, `GenerateProofs` | `Generate` of `internal/gen`, and theorems | `CtxExport`, `SequenceLemmas` |
| `MC*` | small instances for TLC | |

Each component module also holds a few definitions marked *faulty variant*.
They are plausible bugs of the code next to them, used to confirm that every
checked property notices at least one. No specification uses them.

### SliceServer

`pc[c]` is the point a handler has reached; each label is one region of
`handleSliceTool` or `handleResetTool`:

| Action | Code (mcp.go) |
|---|---|
| `CallSlice`, `CallReset` | the client writes a request, without waiting for earlier answers |
| `Dispatch` | mcp-go hands it to a free worker (external) |
| `Reject` | the argument checks that answer with an error |
| `LockForCheck`, `Check`, `UnlockAfterCheck` | first critical section: split the names into `newTables` and `skipped`; its early return |
| `Compile` | `CompileSubset`, `toMarkSent`, `notFound`, without the lock |
| `LockForMark`, `Mark`, `UnlockAtEnd` | second critical section: mark what was compiled |
| `LockForReset`, `Clear` | `handleResetTool` |
| `Respond` | the worker writes the result to stdout |

`sent` and `mu` are the handler's fields, `tables`, `newTables` and `skipped`
the locals. `marked` (calls that marked since the last reset) and `seen` (how
many responses the client had when it called) are history variables; no guard
reads them.

`SliceSession` has no locks and no phases. A name goes from `asked` to `ddl`,
`missing` or `skipped`, and may only be `skipped` if a call of the same session,
since the last reset, has committed to its DDL. Under the refinement mapping
`Fate`, `Check` is `Skip`, `Mark` is `Commit`, `Clear` is `Forget`, `Respond` of
a slice call is `Answer`; every other step stutters.

### Extractors

In `PostgresExtract` each query of `Extract` is an action (`ListTables`,
`ExtractFields`, `ExtractAccessPaths`, `ExtractEdges`), with the loop over
schemas and tables in `stage`, `at`, `todo` (tables left) and `tbl` (the table
being read). Between any two of them another session may drop or create a table,
add a reference or drop a column; each of these does what PostgreSQL does with
CASCADE. `BuildExtractor` takes the `--schemas` argument apart as the command
does, blank and repeated parts included. `QualifiedName` follows `qualifiedName`:
the schema is written only when several are exported and it is not `public`.
`ExtractEdges` classifies each key as an edge or a warning. The columns of an
index come as a PostgreSQL text array: `ArrayOut` is the server's quoting of it
(external), `ParseTextArray` the code's reading, a loop with `ReadChar` for its
body, so a column name is a sequence of characters.

In `MongoExtract` the actions are the commands the extractor sends:
`ExtractValidators`, then `CountDocuments`, `Sample` and `FinishCollection`
(indexes and edge inference) per collection. `Sample` may draw any set of the
right size. Other clients insert, empty collections and create indexes. What
becomes of a sample is `FieldInference`: the union of the top-level fields, each
with its majority type (`MajorityType` ranges over a map in any order, as Go
does), the sub-fields of embedded documents, and the statistics edge inference
uses; or, with a validator, `ParseJSONSchemaValidator`.

`CtxExport` holds an entity's fields as a sequence and gives entities their
position, so duplicates stay visible to `Validate`.

### ExportCommand, InitClaude, Workspace

A file is a sequence of blocks `<<document, i>>`, so torn and mixed contents
are states. `Create` truncates, `Write` overlays from the start, `TearWrite`
leaves a prefix, `FailRun` stops a run anywhere. A load is two steps, `Stat`
(the size limit) and `Read`; `Accepts` is JSON parsing and `ValidateStrict`.
`Merge` and `Unmatched` are `MergeSidecar` and its warnings. `InitClaude` reads
the configuration through the Go structs (`Unmarshal` drops what they have no
field for), adds its entry and rewrites the file in two steps, next to another
program that registers a server. In `Workspace` a client starts `serve` only
when the configuration names it.

`AtomicExport` has no blocks and no steps of a write: an export prepares its
document, takes the old one away and puts its own there in one step, or breaks off;
a load is served what is there at that moment, or refused for lack of a document
that may be served. Under the refinement mapping of `Workspace`, `Create` is `Open`,
`Write` is `Publish`, `TearWrite` and `FailRun` are `BreakOff`, a `Read` is `Serve` or
`Refuse`, and a `Stat` that finds the file too large is `Refuse` already. What the file
shows, and what a load got, is the document its blocks are the whole of. Once
exports overlap nothing is promised until one opens the file alone: the code takes
no lock.

### Render, DDLReader, CompileCommand

The output is the sequence of statements (`table`, `view`, `index`, `unique`,
`fk`, `note`, `line`), each with the table it is about; a column list keeps its
commas, because which items get one depends on the key clause. `StatementText`
and `LighthouseText` give each statement its text: keywords are single tokens,
names and comments are characters, quoted and sanitized as the code does. The
reading side is `DDLReader`: it knows comments, quoted names, case folding,
reserved words and nesting from SQL, and nothing of the program. `Lexed` takes a
text apart one character at a time (`LexStep`), `Split` a sequence of lexemes or
characters at the separators no parenthesis encloses, `ReadStatement` a statement
into a record; what it cannot take for a name is `Misread`. `EntityFacts` and
`EdgeFact` are the same records made from the document. So `DDLReadsBack` compares
what a database would be told with what the document says, and
`LighthouseReadsBack` does so for a client that cuts the lighthouse at its line
breaks and delimiters.

`Namespace` and `NamespaceFile` are written over characters too, as the code cuts
names at the first dot and folds what is not a letter or digit to `_`. A run
plans its files from the document, then creates and writes them one by one and
may stop anywhere; files of earlier runs stay.

### Bench

The nested loops of `main` are four variables: the iteration, the set of arms
still to come, the scenarios the current arm has left, and those of them in the
current flow. Arms and scenarios are positions in their lists, and a loop takes
the least (`FirstOf`). The regular scenarios of an arm are one flow and each stress
scenario is one (`NextFlow`), with a provider session of its own; `Advance` is the
loops' step. `Start` holds the checks of flags, scenarios (`LoadDir`) and arms
(`ParseArms`, which merges the aliases). A query ends as `Answer`, `Failure` or `Hang` and `Timeout`;
`AppendRecord` and `FailAppend` (missing, torn, or whole but not
counted) write the line, `Finish` the manifest.
`ClaudeProvider` keeps the local id and the id last reported by the CLI, and
resumes the latter. The CLI is one of three kinds: it reports the conversation
it resumed, it forks a copy, or it reports no id. `talk` in a record is a ghost:
the conversation the answer really came from. The gates modelled (2, 5, 6
and 7) are operators over the
lines of the file and are evaluated at every state, so a report may be made of a
run that is still going or was broken off. The groups of records the report forms
are sets of positions in the file, and a median is found by rank, without sorting.

### Generate

Every draw of the random source is a choice. The actions are the rounds of the
three loops of `Generate`: a noise table, a noise edge, and the filter at the
end. A generated name is the tuple of the words and numbers it is formatted from,
so that `noise_table_1`, a drawn name with its index and a column with a position
as suffix are told apart exactly when the code's formats tell them apart. Groups of
fields (the key, the rest, the first that fits) are sets of positions.

## Runs

Twelve runs; distinct states and time with two workers.

| Run | Shows | States |
|---|---|---|
| `server_concurrent` | 2 slice calls and 1 reset, all in flight, fair workers: the dedup map is what the marked calls deliver, they all respond, responses cover their requests, skips are backed and respect the order in which the client saw answers, refinement of `SliceSession`, every call answered, the DDL behind a skip arrives | 22,443, 8 s |
| `server_reset_race` | *violation*: a reset that overlaps a slice call | - |
| `postgres` | lists of two schemas and of one, with blanks and repetitions; up to 2 DDL statements anywhere in the extraction | 95,036, 3 s |
| `postgres_one_schema` | *violation*: one schema of two | - |
| `mongo` | two collections, six documents, sample size 3, up to 2 writes, every order of a Go map | 929,234, 40 s |
| `mongo_targets` | *violation*: empty collections and validators | - |
| `workspace` | 2 exports, 1 load, 1 init-claude, a foreign writer; refinement of `AtomicExport` | 424,640, 20 s |
| `init_claude_settings` | *violation*: an entry with an `env` | - |
| `compile` | 2 runs of compile in any mode on any of four documents | 10,492, 2 s |
| `compile_clash` | *violation*: namespaces `a-b` and `a_b` | - |
| `bench` | six setups, replies of every kind, kills; the gates at every state | 110,961, 6 s |
| `generate` | five configurations, every draw for up to two noise tables | 1,054,963, 20 s |

Every definition that a run checks has a comment saying what it claims and of
which code. The ones that carry the most:

- `SentIsCommitted` ties the dedup map to the calls that marked: it is exactly
  the union of the tables their responses carry. `MarkedResponds` adds that
  those responses come.
- `SkippedIsBacked` and `SkippedArrives`: a "skipped" answer is backed by DDL
  that another call sends. Which one is not promised to come first: the comment on
  `handleSliceTool` accepts duplicate DDL from overlapping calls.
  `SkipsRespectRealTime` says where order does hold: between calls that do not
  overlap.
- `ExportValidates` and `QuietExportIsCatalog`: what a PostgreSQL export passes
  with and without DDL running meanwhile, exactly when a repeated schema spoils
  it, and that without DDL it says what the catalog says, whatever characters the
  names hold. `StableKeysKept`: no key that was there all along is lost,
  whatever else changes.
- `ReferencesAccounted`, `QuietExportValidates` and `FieldsFollowDocuments`: no
  reference of a MongoDB collection is dropped in silence; when an export of a
  quiet database is strictly valid; that its fields and types are the documents',
  in every order of a map.
- `LoadedIsWhole` and `SuccessIsServed`: no kill or torn write, on its own,
  makes a load accept something nobody exported. `ExportPromise`, the refinement of
  `AtomicExport`, says when: each load is served the document that is there at that
  moment, and the previous one goes only when there is a new one to write.
- `OverridesAccounted`: item by item (a description, a list of values), what the
  sidecar gives is in the document or warned about, what is new in the document was
  given, and what is gone of the extraction was overridden.
- `EverythingOnDisk`, `NoteIsTrue`, `StatementsGrounded`: the split files
  together are the document, and each stands on its own. `DDLReadsBack`,
  `LighthouseReadsBack`: read as SQL, or line by line, they say what the document
  says. A DDL file in which a comment shows a line break is excepted; of any other
  it is stated when it reads back, and when not: not if a name is a word of SQL
  that the code's list lacks, or an index has no columns.
- `ManifestMeansWhole`, `GateTwoIsWhole`, `AcceptedIsMeasured`: a broken-off or
  failed benchmark cannot look like a complete or a good one, and a complete one
  can be reported unless a line of its records is too long, which takes a long
  answer or a long output of a query that failed, hung or could not be parsed.
- `GeneratedIsStrict`, `SignalIsIntact`, `NoiseIsLayered`: no sequence of draws
  makes an invalid export, touches the scenario's tables or closes a cycle.

### Bounds, and why they are enough

- **Server.** Every property relates at most two slice calls and a reset (the
  skipping one, the sending one, the clearing one). Three workers for three calls
  is unbounded parallelism. Requests cover a refused argument, one table, two
  joined tables, and a table with an unknown name; the export has a foreign key
  between two tables and one from a table to itself. The theorems below remove
  these bounds for the safety properties.
- **PostgreSQL.** Four relations: a name that occurs in both schemas, a table
  with a key to each of the two, and a partitioned table; a key of two columns;
  indexes on columns, on expressions and on both; column names that a text array
  quotes and escapes, and one that is `NULL`. `MaxDDL = 2` allows a drop followed by a create (a table
  replaced between the queries about it) and two independent changes. Schemas are
  listed in both orders, with a blank part, one of them twice, and not at all.
- **MongoDB.** Two collections, a reference that resolves and one that does not,
  field types on both sides of the 90% threshold, a sample smaller than a
  collection, embedded documents whose members tie between two types, validators
  with and without null, a field whose name is empty (MongoDB allows it,
  `ValidateStrict` does not). `MaxWrites = 2` allows a collection to be emptied and
  refilled.
- **Workspace.** Two exports are enough for every overlap; documents are shorter
  than, as long as, and longer than the previous file, and one is not strictly
  valid. The sidecar gives a description without values, values without a
  description, an empty entry, a field and an entity that are not there. `MaxSize = 2` blocks, so one document exceeds the limit.
- **Compile.** `MaxRuns = 2`, so that the second run meets the files of the first,
  in particular of one that stopped half way. The documents have a composite key,
  a view, a table without columns, names with and without a namespace, a
  namespace that needs folding, names with capitals, a leading digit, a reserved
  word, quotes, commas, parentheses and the delimiters of the lighthouse, a
  comment with a quote and a semicolon; one has a comment of two lines, one a
  word the code's list lacks.
- **Bench.** Each of the six setups is as small as its question allows: two arms
  with answers of different worth and speed (gates), two iterations with three
  flows (sessions), one arm with every kind of reply, each also over-long
  (completeness), regular scenarios only, an unknown arm, a scenario that
  is there twice. `MinRuns = 1` where the
  default is larger: the gate counts in the same way.
- **Generate.** Two noise tables and three fields each: a column can be drawn
  twice besides the key, so a suffix meets another; with the second table come
  edges. The configurations have the whole scenario, the scenario without one
  table (signal edges that lose an end), fewer tables asked for than it has, a
  signal table whose name can be drawn, and none.

Deadlock checking is on everywhere; the specifications have an explicit
stuttering step for the states in which the program is done. (`Workspace` may
stutter anywhere: a client need not start the server, and nothing else waits.)

## Fairness

- `FairSpec` of `SliceServer`: weak fairness of `Serve(c)` for each call. The Go
  scheduler runs every goroutine, and `sync.Mutex` in starvation mode hands the
  lock to the longest waiter. With finitely many calls weak fairness is enough,
  as a waiter is overtaken finitely often. The client is under no obligation:
  `CallSlice` and `CallReset` are not fair. The response write is taken to
  succeed; a client that stops reading stdout ends the session.
- `BenchRun`: weak fairness of `Step`, the steps of the program, because every
  query runs under a deadline (`queryCtx`) that kills the CLI. That `cmd.Run` then
  returns assumes that no descendant of the CLI keeps its output pipe open: the
  command has no `WaitDelay`. `Kill` is the user's and not fair.
- All other runs check safety only.

## Theorems

| Module | Theorem | States |
|---|---|---|
| `SliceServerProofs` | `TypeCorrect` | `Spec => []TypeOK` |
| | `MutualExclusion` | `Spec => []MutexHeld` |
| | `SentCommitted` | `Spec => []SentIsCommitted` |
| | `MarkedRespond` | `Spec => []MarkedResponds` |
| | `ResponsesCover` | `Spec => []ResponseCoversRequest` |
| | `ServerKeepsPromise` | `Spec => SessionPromise`: `SliceServer` implements `SliceSession` |
| | `SkippedBacked` | `Spec => []SkippedIsBacked` |
| | `SkipsOrdered` | `Spec => []SkipsRespectRealTime` |
| | `SessionKeepsPromise`, `SessionFatesAreFinal` | invariants of the abstract session, and no step of it takes back an answer |
| `WorkspaceProofs` | `ExportsAreAtomic` | `WorkspaceSpec => ExportPromise`: `Workspace` implements `AtomicExport` |
| | `GoneByExport` | what follows for the file from that promise (`GoneOnlyByExport`) |
| | `LoadedWhole` | `LoadedIsWhole` |
| | `SuccessServed` | `SuccessIsServed` |
| | `OverridesKept` | `OverridesAccounted` |
| | `TypeCorrect` | `WorkspaceTypeOK` |
| | `OthersKept` | `ServersKept` |
| `PostgresExtractProofs` | `StableKept` | `StableKeysKept` |
| | `AlwaysValid` | an export whose schemas are listed once passes `Validate` (the first half of `ExportValidates`, without exception) |
| | `QuietExports` | `QuietExportIsCatalog`, unless a name is confused |
| | `ExportsValidate` | `ExportValidates`, with the same exception |
| | `TypeCorrect` | `TypeOK` |
| `MongoExtractProofs` | `AlwaysValid` | `BasicallyValid` |
| | `AllAccounted` | `ReferencesAccounted` |
| | `QuietExports` | `QuietExportValidates` |
| | `MajorityTypes` | `FieldsFollowDocuments` |
| | `TypeCorrect` | `TypeOK` |
| `CompileProofs` | `OnDisk` | `EverythingOnDisk`, unless two namespaces of the document share a file |
| | `NotesTrue` | `NoteIsTrue`, with the same exception |
| | `AlwaysGrounded` | `StatementsGrounded` |
| | `LighthouseReads` | `LighthouseReadsBack` |
| | `DDLReads` | `DDLReadsBack` |
| | `TypeCorrect` | `TypeOK`, in particular the shape of the file names |
| `BenchProofs` | `ManifestWhole` | `ManifestMeansWhole` |
| | `OneFlowOneTalk` | `OneConversation` |
| | `GateTwoWhole` | `GateTwoIsWhole` |
| | `GateSixTellsFlows` | `GateSixExact` |
| | `AcceptedWasMeasured` | `AcceptedIsMeasured` |
| | `BenchTypes` | `BenchTypeOK` |
| `GenerateProofs` | `AlwaysStrict` | `GeneratedIsStrict` |
| | `SignalKept` | `SignalIsIntact` |
| | `LayeredNoise` | `NoiseIsLayered` |

They hold for every value of the constants: any number of calls and workers, of
exports, loads and init-claude runs; any catalog, database, sidecar and document;
any number of statements of other sessions in between; any documents, and any
number of runs of compile on them; any scenarios, arms and iterations of a
benchmark; any signal tables, sizes and words of a generated schema. For the two
theorems on reading, the characters, their lower case and both lists of reserved
words are constants as well.

Four theorems have an exception that is a state, not an assumption, and each needs
it. `OnDisk` and `NotesTrue` say nothing of a document two of whose namespaces share
a file: the run `compile_clash` is the counterexample to `EverythingOnDisk` without
that. `QuietExports` and `ExportsValidate` say nothing of a catalog in which a key
leads from the only exported schema to a table of another schema that has the name
of an exported one (`Unconfused`): `postgres_one_schema` shows what happens then.
With several schemas, and with one whose keys stay inside or lead to other names,
nothing is excepted.

### Assumptions

Only those declared in the modules; TLC evaluates them in every run.

- `SliceServer`: slice and reset calls are different and none is the value
  `NoOne`; edges join entities, and entities are names; requests are sets of
  names; there is at least one worker.
- `ExportCommand` and `Workspace`: `NoDoc` is not a run and no document, and the
  sizes of documents are natural numbers (`RunsAssumption`, `DocumentAssumption`,
  `PreviousAssumption`); the fields a sidecar overrides
  stand under their entity (`SidecarAssumption`), as the file's nesting has it, and only
  fields have values.
- `PostgresExtract`: what PostgreSQL guarantees of a catalog (`CatalogAssumption`).
  A relation is told by schema and name; its columns have names, each once; an
  index has keys, and those that are columns are columns of its table; a foreign key
  has as many columns on one side as on the other. The `--schemas` argument is a
  list of strings.
- `FieldInference` and `MongoExtract`: the two lists that give names and types
  their order have no repetitions, and no type's name is empty (`OrdersAssumption`);
  collections are listed once each and have names, every document has an `_id`, and
  only an embedded document has members (`DatabaseAssumption`). A database starts
  with finitely many documents (`Init`).
- `CompileCommand`: the documents are what `LoadExport` lets through (entities of
  different names, each with fields of different names, edges between them; lists
  are lists, names are sequences of characters), and the modes are the command's
  three (`CompileAssumption`).
- `DDLReader`: the underscore is no letter or digit; letters, digits and underscores
  make words and the marks of SQL do not; a word SQL reserves is made of letters,
  digits and underscores in lower case and does not begin with a digit; the value
  that stands for a misread name is no character (`ReaderAssumption`). Of the code's
  own list, `Reserved`, nothing is assumed.
- `BenchRun`: the iterations asked for are an integer, the arms and the scenarios
  are lists, times are integers (`SetupsAssumption`). That setups are usable is not
  assumed: `Start` checks it.
- `Generate`: signal tables come as the program's callers give them, each once, with
  fields named once, and none with the name that `generateNoiseName` falls back to;
  a noise table has more fields than a composite key (`GeneratorAssumption`).

### Arguments

**Server.** The invariants are not inductive alone. `SentIsCommitted`, for
instance, is broken by a second `Check` of a call that has marked, because
`Check` changes the `newTables` it is stated with; `ResponseCoversRequest` is
broken when the locals of an answered call change. The inductive invariant is

    IInv == TypeOK /\ MutexHeld /\ PhaseInv /\ SentIsCommitted /\ WrittenInv

`PhaseInv` says what a slice handler's locals hold at each point: empty before
`Check`; afterwards `newTables` and `skipped` partition the request; a call in
`marked` is past `Mark`. `WrittenInv` says that what was written for a slice
call is what its (by then frozen) locals compute and that the call is done. One
lemma per conjunct goes through the actions. `MarkedRespond` adds
`AnsweredInv`, the converse of `WrittenInv`: a call that is done has its response
in the transcript.

The refinement (`Session`, the instance of `SliceSession`) has one lemma for the
initial state and one for a step.
`SentIsKnown` is the step that matters: every table in the dedup map is one that,
in the abstract session, a call has committed to since the last reset, so the
skips of `Check` are skips the promise allows. `SkippedBacked` is then not proved
again but carried over: `SessionKeepsPromise` proves it of the abstract session, and
`ServerKeepsPromise` makes every behaviour of the server one of that session.

`SkipsOrdered` is about three calls in time. `TranscriptInv`: what the client had
seen when it called is in the transcript, and answered calls are done. `FreshInv`:
no reset that has cleared the map was made with the answer to a call in hand that
still counts as marked. `OrderInv`: behind every skip, from `Check` on, there is a
call that has marked the table, was not made after the skipping call was answered,
and has no reset between itself and that call.

**Workspace.** `IInv == RunInv /\ FileInv /\ LoadInv`. `RunInv`: which documents a
run holds at which point. `FileInv`: as long as the run that
created the file last overlaps nobody, the file is empty, a prefix of its
document, or, past `Write`, the whole. `LoadInv` carries the same through the two
steps of a load. The refinement uses the same invariant: `WholeOf` says that a prefix
of a document is the whole of that one or of none, so what the file shows becomes
a document only at `Write`, and a torn write shows nothing; `ExportRefines` and
`LoadRefines` go through the steps. `GoneByExport` is proved of the abstract exports
and carried over. The type theorem has an invariant of its own, because "a file is
a list of blocks" rests on where `Write` and `TearWrite` put theirs (`Placed`);
`OverridesKept` needs that a merged document is the merge of what was extracted
(`MergedInv`), what that merge is key by key (`MergedNotes`), and what follows for
the items of two keyed lists merged like that (`ItemsAccounted`), used once for
descriptions and once for values. `OthersKept` is one invariant on the configuration file:
while no other program writes between the read and the rewrite, what was read is
what the file held.

**PostgreSQL.** `StableKept` rests on four parts. `CatalogInv`: a foreign key's
relations and columns exist, so a key in `stable` had both relations all along.
`LoopInv`: where the loop is. `ListedInv`: an exported relation that a stable key
needs is among the entities once its schema was read, or still in `todo`.
`KeptInv`: a stable key of a schema whose keys were read is in the export.
`AlwaysValid` shows `NamesInv` (entities have different names while no schema is
listed twice: tables of one listing differ in name, tables of two schemas in the
qualified name) and `EdgesInv` (an edge joins entities, and these are only added).

`QuietExports` is about the extraction as a whole. `QuietInv`: until the first
statement of another session, every query has seen the initial catalog, so each
entity has the columns and indexes of its relation (`QuietTables`), each relation has
one entity for every time its schema was listed (`QuietListed`, `QuietTwice`), and
each key of a schema whose keys were read is an edge or a warning as both its names
are known or not (`QuietKeys`). What is left is that a known name belongs to the
relation it came from, which is where `Unconfused` enters, and the text array. For
that, `ReadEscape`, `ReadQuote`, `ReadComma` and `ReadPlain` are the ways one
character takes `parseTextArray` on; by induction over characters `ReadsElement`
says that an element PostgreSQL wrote, quoted or not, is read back as it was, and by
induction over elements `ReadBack` that the array is, but for `NULL`.
`ExportsValidate` then goes through the checks of `ValidateStrict`.

**MongoDB.** `IInv == TodoInv /\ EdgeInv /\ WarningInv /\ AccountedInv`: the
collections left are those without an entity; an edge is what inference makes of a
reference of its entity, and enters a collection; a warning about a reference
speaks of a finished collection and leads out of the database, and no field has
two; no reference of a finished collection is forgotten. That a field has one
edge or one warning is counted from there. Nothing is used of which fields and
types a sample yields. Where those matter, the proof begins with the loop that
picks a type: `Leads` says that after n rounds it holds a type no other of those
met outnumbers, the first in the alphabet of the equals, or none if all of them
count zero. `TurnLeads` is one round; since the order of the rounds is arbitrary in
it, the result (`MajorityWins`) does not depend on the order of the map.
`OrderedNames` says of a sorted list of names that it has each once. `QuietInv`,
for a database nobody writes to, ties each entity to the whole of its collection;
`QuietExports` reads off from it, with `EdgeInv` and `AccountedInv`, that
each check of `ValidateStrict` asks exactly what the property lists.

**Compile.** All that is written is put together by `FlattenSeq`, so the proofs begin
there. `FlatIsRow`: in a flattened row each part stands whole at some offset, and
every member is in a part that does. With it `Rendered` shows what `renderDDL`
writes: exactly the tables and keys it was given, each table at the head of its
block. `BundleFile` takes that to a namespace: a key with an end there has one of
its tables in the bundle, and leads out exactly when `CrossSchema` says so. The
command's invariant (`ProgressInv`) says that a job of the plan is pending or its
file written, and that the file of a job that is not pending holds its content; a
later job of the same run spares it because files are apart. `StatementsGrounded`
needs less, only that grounded content stays so when it is cut (`PrefixGrounded`),
and so holds without the exception.

The theorems on reading start from `HeldInv`: after a run that succeeded a written
file holds the content of one of its jobs, and from there on speak of texts alone.
The reader is a loop over characters, and each proof follows it over a text piece by
piece. `Runs(s, x, t)` says that lexing `x` takes the reader from state `s` to `t`,
and `GluedSteps` joins two such loops. `Lexes(x, lex, a, b)` is
what the proofs use: begun in a state of kind `a`, reading `x` adds the lexemes
`lex` and ends in one of kind `b`; the kinds are needed because a name ends only
where the next character shows it, and because a quotation mark after a quoted name
would go on with it. Keywords, marks and comments lex as they should, and so does a
name: `PlainLexes` for one the code does not quote, `QuotedLexes` for one it does,
by induction over its characters. From then on a name is `Lex(name)`: itself, or a
stray symbol if SQL reserves the word and the code's list lacks it, and this is
where the two lists meet. `Splits` is to `Split` what `Runs` is to the lexer, and
`Nests` keeps count of its parentheses; `Gives` is `Lexes` and `Nests` together. Statement by statement
(`IndexReads`, `UniqueReads`, `KeyReads`, `TableGives`, `ItemsRead`) this says which
record the reader gets for any names, bad ones included.

The property is an equivalence, so it is not enough that good names read back. A
record the document states has only names in it (`Proper`), a record with a bad name
has a `Misread` somewhere, and these never are equal. `Tells(T, F, sound)` keeps both
halves together: `T`, what is told, is `F`, what is stated, if `sound`, and otherwise
`T` has a record that is not proper. In this form statements, tables, and the whole
file are put together by unions (`TellsBoth`, `TellsTogether`), and `FileTells` gives
`DDLReadsBack`. The lighthouse needs less: what `Sanitize` leaves of a name has no
delimiter (`SanitizeClean`), so `CutSeparated` and `CutTerminated` take each line
apart where it was put together (`EntityLine`).

**Generator.** `FieldsDiffer`: two fields of one noise table differ because a drawn
name that is taken gets its position as suffix, and positions differ; a suffixed
name is no plain one. `NoiseInv`: a noise table's name ends in its index, so no two
are equal, and none is a signal table's. `EdgeInv`: an edge that is not the
scenario's was made in an earlier round, from the table of that round to an earlier
one, and each table has at most one. `DoneInv`: the last loop takes away what is not
valid and nothing else. The three properties follow: `SignalIsIntact` counts the
names by a bijection from the positions, and a scenario's key is valid exactly when
both its columns were included, since its ends cannot be noise tables.

**Benchmark.** `Recorded(it, a, p)` says from the loops alone whether iteration
`it` of scenario `p` with arm `a` has been passed. `Passing` is the lemma about the
loops: each of the three ways on (next scenario, next arm, next iteration) records
the current triple, which was not recorded, and no other. So `LinesInv`, which says
that lines and recorded triples correspond one to one, survives every append; when
the loops are through, all triples are recorded, and the bijection counts them.
`OneFlowOneTalk` adds what the session remembers (`SessionTalk`): its conversation
was begun in this flow, and the flow's complete lines are of it. `FlowIsNew` is
the step that needs the loops again: a flow that begins has no lines. `TalkInv` has,
for CLIs that do not fork, what session ids a flow's lines carry, from which
`GateSixTellsFlows` computes when Gate 6 passes. `TypeInv` and `FileInv` say what a
line of the file may be, also a torn one; a report only counts whole ones (and a run
that breaks off in the `Close` after a line has not counted it), and
`AcceptedWasMeasured` follows gate by gate. A median exists because a finite set of
positions has a largest value (`LargestValue`).

### Only model-checked

Liveness (`CallsAnswered`, `SkippedArrives`, `BenchEnds`), which TLAPS does not
reach. Every other property of a passing run is stated by a theorem, four of them
with the exceptions named above.

The provers cannot apply the library's induction theorems, whose parameter is an
operator. Where a proof here needs an induction over numbers (`UpTo` in
`SequenceLemmas`, `LargestValue` in `BenchProofs`), it goes by the least element of
the set of counterexamples, which the theorem on well-founded relations gives. That
is enough for `FlattenSeq` and for loops written as recursive functions
(`IterationExists`: a loop of n rounds has a state after each); a fold takes the
operator it folds as a parameter, and a definition by `SelectSeq` cannot be expanded.

## What the runs found

Five runs end in a counterexample; in each, the quoted text and the code
disagree (`PROJECT.json`, `findings`).

1. `server_reset_race`. A slice call passes its first check, a reset clears the
   map and answers "All tables will be re-sent on next slice call", and the slice
   call then marks its tables in the new map. The next slice call skips them.
2. `postgres_one_schema`. With one schema, a foreign key into another schema is
   attached to the exported table of the same name instead of being reported.
3. `mongo_targets`. An inferred edge always ends in `_id`, also when the target's
   entity has no such field (empty collection, validator without `_id`);
   `LoadExport` then rejects the export.
4. `init_claude_settings`. Rewriting the configuration drops what the entries of
   other servers hold besides `command` and `args`.
5. `compile_clash`. Namespaces that differ in punctuation or case share a file;
   the second overwrites the first.

Seen while modelling, without a run of their own because no text claims
otherwise or because the listed properties state the case they hold in:

- Server: a skipped note can reach the client before the DDL it refers to
  (`SkippedArrives` says that it comes). Tables named as the lighthouse shows
  them, without the delimiters it strips, cannot be sliced by that name.
- PostgreSQL: DDL between the catalog queries can leave an edge or index on a
  column the entity does not have; `LoadExport` then refuses the export. A schema
  listed twice gives duplicate entities. `parseTextArray` drops a column named
  `NULL` from its index, though PostgreSQL quotes that name to tell it from the
  null element.
- MongoDB: an index on a field no sampled document has makes the export strictly
  invalid. A required property whose `bsonType` allows null is exported NOT NULL,
  and of several types only the first that is not null is kept.
- Compile: a description of several lines ends its SQL comment after the first,
  the rest is read as SQL; `sqlReservedWords` lacks words SQL reserves, such as
  `using`, `analyze`, `cast` and `both`; a table whose own name holds a dot is
  written as schema and table. The second is in `DDLReadsBack`, as one of the two
  cases in which a file does not read back; a file with the first is excepted there.
- Benchmark: Gate 6 groups sessions by arm and iteration, while each stress
  scenario has a session of its own: a run that answers regular and stress
  scenarios in one iteration fails it (`GateSixExact` states exactly when it
  passes). A CLI that reports no session id is never resumed, and Gate 6 passes on
  the local ids. A target arm without complete records passes Gate 5 taken
  alone. One torn line, or one record of more than a mebibyte, makes the whole
  `runs.jsonl` unreadable for benchreport; the error of a failed query, which holds
  all the CLI printed, is as unbounded as an answer.
- Generator: the comment "Seed 0 means use TotalTables" is not what the code
  computes; the comment at the filter at the end says that edges without their fields
  "can happen when noise field deduplication renames fields or when composite-PK
  tables lack a single "id" column" (`gen.go:349`), but the filter never drops a
  noise edge (`NoiseIsLayered`), whose fields are taken from the finished tables; the
  fallback name `noise_table_<i>` is not looked up, so a signal table of that name
  would be doubled (no configuration has one).

## Abstractions

- Names are members of small sets where only their identity matters, sequences
  of characters where code looks into them (`CompileCommand`, the columns of
  `PostgresExtract`), sequences of parts in the MongoDB and generator models. They
  have no blanks around them.
- The list of names of a slice call is a set: a repeated name only repeats in the
  notes. Every kind of argument error is the empty request.
- Documents of the same size are taken to be aligned, so any mixture of their
  blocks parses; real mixtures mostly do not. `LoadedIsWhole` and
  `SuccessIsServed` therefore speak of exports that did not overlap.
- `Encode` is one write that may stop at any block. `os.ReadFile` of a load is one
  step: a read torn by a write that goes on meanwhile is not a behaviour (what was
  written before it, and between `Stat` and it, is).
- How long a record is, is a mark on the reply it comes from (`long`); the error of
  a session that does not open, which holds no output, and prompts are short.
- `CompileCommand` takes the bundles in any order, the code in namespace order;
  every property holds for all orders.
- Types, defaults, layout and heading comments are left out of `Render`; quoting
  and comments are in it. `Reserved` and `SqlWords` are
  one word each for the lists they stand for.
- Rates, percentages and medians of `BenchReport` are integers compared by
  cross-multiplication. The baseline's average score in Gate 7 is left out: it is
  never below the pass rate the gate also tests. Gates 1, 3 and 4 are not modelled.
- In `Generate`, NOT NULL, defaults and descriptions of fields are left out.
- One benchrun writes a directory.

## What is not modelled

| Part | Reason |
|---|---|
| `internal/testutil`, `benchcheck` | a ping and a single query: no state, no order |
| MCP parity checks, context files, scenario YAML, finding JSON in an answer | input checking and parsing before the loops start; an answer is what it parses to |
| means, deviations, percentiles, Mann-Whitney, the written report | floating-point statistics and text; no gate reads them |
| Gates 1, 3 and 4 of the report | comparisons of one number with another; no property is about them |
| types, defaults and descriptions of columns | carried along unchanged from the query to the text |
| flags and defaults | each run fixes them |
| two benchruns in the same second | listed as a hazard |

## Plan

Done, most important behaviour first: (1) the server session, its abstract
specification and its proofs; (2) both extractors against the validation, then
against what the database says; (3) export, load, sidecar and configuration in
one workspace, and proofs about them; (4) renderers and compile, then a reader
for what they write; (5) benchmark and report; (6) the generator; (7) proofs about
the extractors and the benchmark; (8) proofs about the gates, the generator and
compile, of the strict halves of the extractors' promises, and that what compile
writes reads back; (9) an abstract specification of an atomic export, which the
workspace implements. What could still be added is two benchruns in one directory.
