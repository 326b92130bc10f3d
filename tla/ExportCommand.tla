---------------------------- MODULE ExportCommand ----------------------------
(***************************************************************************)
(* dbdense export (newExportCmd and internal/extract/sidecar.go) and the   *)
(* commands that load what it wrote (LoadExport, pkg/schema/io.go).        *)
(*                                                                         *)
(* Several exports may run on one output path and any of them may be       *)
(* killed.  A document is [size, strict, notes]: how many blocks its JSON  *)
(* fills, whether ValidateStrict accepts it, and notes[k] = [desc, values] *)
(* for each of its keys k = <<entity, field>>, <<entity, "">> standing for *)
(* the entity itself.  A file is a sequence of blocks.  Documents of the   *)
(* same size are taken to be aligned: a mixture of their blocks parses.    *)
(***************************************************************************)
EXTENDS Integers, Sequences, FiniteSets

CONSTANTS
    Runs,       \* invocations of dbdense export
    Loads,      \* invocations of LoadExport
    Extracted,  \* documents Extract may return
    Sidecars,   \* overrides in the sidecar file, << >> when there is none
    Previous,   \* the document in the output file at the start
    MaxSize,    \* MaxExportFileSize, in blocks
    NoDoc

VARIABLES
    runStage, extracted, sidecar, merged, warned,  \* per export
    out,                                           \* the output file
    loadStage, loaded,                             \* per load
    owner, overlapped   \* history: who created the file last, and whether
                        \* another export had it open then

runVars    == <<runStage, extracted, sidecar, merged, warned>>
loadVars   == <<loadStage, loaded>>
writer     == <<owner, overlapped>>
exportVars == <<runVars, out, loadVars, writer>>

-----------------------------------------------------------------------------
(* Pure parts.                                                             *)
Blocks(doc) == [i \in 1..doc.size |-> <<doc, i>>]

\* Faulty variant (for the mutation runs, as those below): the file is opened
\* for appending.
OverlayAppending(blocks, content) == content \o blocks

\* A write at the start of the file leaves what lies behind it.
Overlay(blocks, content) == blocks \o SubSeq(content, Len(blocks) + 1, Len(content))

\* Faulty variants: merging forgets the values; it replaces by empty overrides;
\* only unmatched entities are warned about.
MergeDescriptions(doc, over) ==
    [doc EXCEPT !.notes = [k \in DOMAIN doc.notes |->
        IF k \in DOMAIN over /\ over[k].desc # "" THEN [doc.notes[k] EXCEPT !.desc = over[k].desc]
        ELSE doc.notes[k]]]
MergeEmpty(doc, over) ==
    [doc EXCEPT !.notes = [k \in DOMAIN doc.notes |->
        IF k \in DOMAIN over THEN over[k] ELSE doc.notes[k]]]
UnmatchedEntities(doc, over) ==
    {k \in DOMAIN over : k[2] = "" /\ k \notin DOMAIN doc.notes}

\* MergeSidecar: the overrides that are given replace what was extracted.
Merge(doc, over) ==
    [doc EXCEPT !.notes = [k \in DOMAIN doc.notes |->
        IF k \notin DOMAIN over THEN doc.notes[k]
        ELSE [desc   |-> IF over[k].desc = "" THEN doc.notes[k].desc ELSE over[k].desc,
              values |-> IF over[k].values = {} THEN doc.notes[k].values ELSE over[k].values]]]

\* An extraction returns a document, whose JSON is not empty, and a merged one is one.
ASSUME RunsAssumption == NoDoc \notin Runs
ASSUME PreviousAssumption == Previous.size \in Nat
ASSUME DocumentAssumption ==
    \A doc \in Extracted :
        /\ doc = [size |-> doc.size, strict |-> doc.strict, notes |-> doc.notes]
        /\ doc.size \in Nat \ {0}
        /\ \A over \in Sidecars : Merge(doc, over) # NoDoc

\* In a sidecar, the fields of an entity are under the entity, and only fields have values.
ASSUME SidecarAssumption ==
    \A over \in Sidecars : \A k \in DOMAIN over :
        /\ <<k[1], "">> \in DOMAIN over
        /\ k[2] = "" => over[k].values = {}

\* Its warnings: fields of a matched entity and entities that do not exist; the
\* fields of an unmatched entity are not looked at.
Unmatched(doc, over) ==
    {k \in DOMAIN over : /\ k \notin DOMAIN doc.notes
                         /\ k[2] = "" \/ <<k[1], "">> \in DOMAIN doc.notes}

-----------------------------------------------------------------------------
ExportInit ==
    /\ runStage = [r \in Runs |-> "extract"]
    /\ extracted = [r \in Runs |-> NoDoc]
    /\ sidecar = [r \in Runs |-> << >>]
    /\ merged = [r \in Runs |-> NoDoc]
    /\ warned = [r \in Runs |-> {}]
    /\ out = Blocks(Previous)
    /\ loadStage = [l \in Loads |-> "stat"]
    /\ loaded = [l \in Loads |-> NoDoc]
    /\ owner = NoDoc
    /\ overlapped = FALSE

RunTo(r, stage) == runStage' = [runStage EXCEPT ![r] = stage]
LoadTo(l, stage) == loadStage' = [loadStage EXCEPT ![l] = stage]

OpenRuns == {r \in Runs : runStage[r] \in {"write", "close"}}

(* One export.                                                             *)
Extraction(r) ==
    /\ runStage[r] = "extract"
    /\ \E doc \in Extracted : extracted' = [extracted EXCEPT ![r] = doc]
    /\ RunTo(r, "sidecar")
    /\ UNCHANGED <<sidecar, merged, warned, out, loadVars, writer>>

\* LoadSidecar and MergeSidecar, before the output is touched.
MergeOverrides(r) ==
    /\ runStage[r] = "sidecar"
    /\ \E over \in Sidecars :
          /\ sidecar' = [sidecar EXCEPT ![r] = over]
          /\ merged' = [merged EXCEPT ![r] = Merge(extracted[r], over)]
          /\ warned' = [warned EXCEPT ![r] = Unmatched(extracted[r], over)]
    /\ RunTo(r, "create")
    /\ UNCHANGED <<extracted, out, loadVars, writer>>

\* Faulty variants: the output is created before the sidecar is read; the output
\* is opened without truncating it.
CreateEarly(r) ==
    /\ runStage[r] \in {"sidecar", "create"}
    /\ out' = << >>
    /\ owner' = r
    /\ overlapped' = (OpenRuns # {})
    /\ IF runStage[r] = "create" THEN RunTo(r, "write") ELSE UNCHANGED runStage
    /\ UNCHANGED <<extracted, sidecar, merged, warned, loadVars>>

CreateKeeping(r) ==
    /\ runStage[r] = "create"
    /\ owner' = r
    /\ overlapped' = (OpenRuns # {})
    /\ RunTo(r, "write")
    /\ UNCHANGED <<extracted, sidecar, merged, warned, out, loadVars>>

\* os.Create truncates whatever is there.
Create(r) ==
    /\ runStage[r] = "create"
    /\ out' = << >>
    /\ owner' = r
    /\ overlapped' = (OpenRuns # {})
    /\ RunTo(r, "write")
    /\ UNCHANGED <<extracted, sidecar, merged, warned, loadVars>>

\* Encode hands the document to the file in one write.
Write(r) ==
    /\ runStage[r] = "write"
    /\ out' = Overlay(Blocks(merged[r]), out)
    /\ RunTo(r, "close")
    /\ UNCHANGED <<extracted, sidecar, merged, warned, loadVars, writer>>

\* The disk fills up, or the process is killed, in the middle of the write.
TearWrite(r) ==
    /\ runStage[r] = "write"
    /\ \E n \in 0..(merged[r].size - 1) : out' = Overlay(SubSeq(Blocks(merged[r]), 1, n), out)
    /\ RunTo(r, "failed")
    /\ UNCHANGED <<extracted, sidecar, merged, warned, loadVars, writer>>

Close(r) ==
    /\ runStage[r] = "close"
    /\ RunTo(r, "ok")
    /\ UNCHANGED <<extracted, sidecar, merged, warned, out, loadVars, writer>>

\* The database, the sidecar or the file system fails, or the process is killed.
FailRun(r) ==
    /\ runStage[r] \notin {"ok", "failed"}
    /\ RunTo(r, "failed")
    /\ UNCHANGED <<extracted, sidecar, merged, warned, out, loadVars, writer>>

ExportStep(r) ==
    \/ Extraction(r) \/ MergeOverrides(r) \/ Create(r) \/ Write(r) \/ TearWrite(r)
    \/ Close(r) \/ FailRun(r)

(* One load.                                                               *)
\* The size limit is checked on what os.Stat sees.
Stat(l) ==
    /\ loadStage[l] = "stat"
    /\ LoadTo(l, IF Len(out) > MaxSize THEN "too large" ELSE "read")
    /\ UNCHANGED <<runVars, out, loaded, writer>>

\* json.Unmarshal and ValidateStrict accept the content.
Accepts(content) ==
    /\ content # << >>
    /\ \A i \in DOMAIN content : /\ content[i][1].size = Len(content)
                                /\ content[i][1].strict

\* os.ReadFile and what LoadExport makes of it.  The reading is one step: how a load
\* that reads while the file is written is torn is left out.
Read(l) ==
    /\ loadStage[l] = "read"
    /\ LoadTo(l, IF Accepts(out) THEN "ok" ELSE "refused")
    /\ loaded' = [loaded EXCEPT ![l] =
                     [content |-> out, owner |-> owner, overlapped |-> overlapped,
                      success |-> owner \in Runs /\ runStage[owner] = "ok"]]
    /\ UNCHANGED <<runVars, out, writer>>

LoadStep(l) == Stat(l) \/ Read(l)

ExportNext == (\E r \in Runs : ExportStep(r)) \/ (\E l \in Loads : LoadStep(l))

-----------------------------------------------------------------------------
ExportTypeOK ==
    /\ runStage \in [Runs -> {"extract", "sidecar", "create", "write", "close", "ok", "failed"}]
    /\ loadStage \in [Loads -> {"stat", "read", "ok", "refused", "too large"}]
    /\ owner \in Runs \cup {NoDoc}
    /\ overlapped \in BOOLEAN
    /\ \A r \in Runs : warned[r] \subseteq DOMAIN sidecar[r]
    /\ \A i \in DOMAIN out : out[i][2] = i

Written(l) == Blocks(IF loaded[l].owner = NoDoc THEN Previous ELSE merged[loaded[l].owner])

\* Torn, killed or failed, an export that did not overlap with another never makes
\* a load accept anything but one whole document: its own, or the previous one
\* as long as nobody has created the file.
LoadedIsWhole ==
    \A l \in Loads : loadStage[l] = "ok" /\ ~loaded[l].overlapped => loaded[l].content = Written(l)

\* After an export that succeeded, and that no other export has run into, a load
\* gets its document, and refuses it only when ValidateStrict does: no rest of
\* an older, longer document is left behind it.
SuccessIsServed ==
    \A l \in Loads :
        (/\ loadStage[l] \in {"ok", "refused"}
         /\ loaded[l].success /\ ~loaded[l].overlapped) =>
            /\ loaded[l].content = Written(l)
            /\ loadStage[l] = "refused" => ~merged[loaded[l].owner].strict

\* The descriptions, and the lists of values, that are given, each with its key.
Descriptions(notes) == {<<k, notes[k].desc>> : k \in {k \in DOMAIN notes : notes[k].desc # ""}}
ValueLists(notes) == {<<k, notes[k].values>> : k \in {k \in DOMAIN notes : notes[k].values # {}}}

\* after is before with what is given, up to the keys that are not used.
Accounted(given, before, after, unused) ==
    /\ \A item \in given : item[1] \in unused \/ item \in after
    /\ after \ before \subseteq given
    /\ \A item \in before \ after : \E new \in given : new[1] = item[1]

Unused(r) == {k \in DOMAIN sidecar[r] : k \in warned[r] \/ <<k[1], "">> \in warned[r]}

\* MergeSidecar loses nothing and makes nothing up.  Every description and every list
\* of values in the sidecar is in the document, or it (or its entity) is warned
\* about, and a warning is never about what is there; what is new in the document is
\* the sidecar's; what is gone of the extraction has given way to an override of the
\* same key.
OverridesAccounted ==
    \A r \in Runs : merged[r] # NoDoc =>
        LET over == sidecar[r]
            old == extracted[r].notes
            doc == merged[r].notes
        IN  /\ DOMAIN doc = DOMAIN old /\ warned[r] \cap DOMAIN doc = {}
            /\ Accounted(Descriptions(over), Descriptions(old), Descriptions(doc), Unused(r))
            /\ Accounted(ValueLists(over), ValueLists(old), ValueLists(doc), Unused(r))
=============================================================================
