---------------------------- MODULE WorkspaceProofs ----------------------------
(***************************************************************************)
(* What a load of the export gets, for any number of exports and loads and *)
(* any documents: whatever fails or is killed, an export that did not      *)
(* overlap with another one leaves a prefix of its own document.  And what *)
(* an undisturbed init-claude leaves in the configuration.                 *)
(***************************************************************************)
EXTENDS Workspace, SequenceTheorems, TLAPS

Created(r) == runStage[r] \in {"write", "close", "ok", "failed"}

Prefix(content, doc) == \E n \in 0..doc.size : content = [i \in 1..n |-> <<doc, i>>]

RunInv ==
    /\ runStage \in [Runs -> {"extract", "sidecar", "create", "write", "close", "ok", "failed"}]
    /\ extracted \in [Runs -> Extracted \cup {NoDoc}]
    /\ merged \in [Runs -> Merged \cup {NoDoc}]
    /\ owner \in Runs \cup {NoDoc}
    /\ overlapped \in BOOLEAN
    /\ \A r \in Runs : runStage[r] = "sidecar" => extracted[r] \in Extracted
    /\ \A r \in Runs : runStage[r] \in {"create", "write", "close", "ok"} => merged[r] \in Merged

\* What the output file holds: the previous document until it is created, then a
\* prefix of its creator's, as long as that one is alone.
FileInv ==
    /\ owner = NoDoc => out = Blocks(Previous) /\ OpenRuns = {}
    /\ owner \in Runs => Created(owner) /\ merged[owner] \in Merged
    /\ owner \in Runs /\ ~overlapped =>
          /\ OpenRuns \subseteq {owner}
          /\ runStage[owner] = "write" => out = << >>
          /\ runStage[owner] \in {"close", "ok"} => out = Blocks(merged[owner])
          /\ Prefix(out, merged[owner])

\* What load l got, in terms of the run that owned the file then.
GotFrom(l, r) ==
    /\ Created(r) /\ merged[r] \in Merged
    /\ Prefix(loaded[l].content, merged[r])
    /\ loaded[l].success => loaded[l].content = Blocks(merged[r])

LoadOk(l) ==
    loadStage[l] \in {"ok", "refused"} =>
        /\ loadStage[l] = "ok" <=> Accepts(loaded[l].content)
        /\ loaded[l].owner \in Runs \cup {NoDoc}
        /\ ~loaded[l].overlapped /\ loaded[l].owner = NoDoc =>
              loaded[l].content = Blocks(Previous) /\ ~loaded[l].success
        /\ ~loaded[l].overlapped /\ loaded[l].owner \in Runs => GotFrom(l, loaded[l].owner)

LoadInv ==
    /\ loadStage \in [Loads -> {"stat", "read", "ok", "refused", "too large"}]
    /\ loaded = [l \in Loads |-> loaded[l]]
    /\ \A l \in Loads : LoadOk(l)

IInv == RunInv /\ FileInv /\ LoadInv

-----------------------------------------------------------------------------
LEMMA MergedSize ==
  ASSUME NEW doc \in Merged
  PROVE  doc.size \in Nat \ {0} /\ doc # NoDoc
<1>1. PICK old \in Extracted, over \in Sidecars : doc = Merge(old, over)
  BY DEF Merged
<1>2. old = [size |-> old.size, strict |-> old.strict, notes |-> old.notes]
  BY DocumentAssumption
<1>3. doc.size = old.size
  BY <1>1, <1>2 DEF Merge
<1> QED BY <1>1, <1>3, DocumentAssumption

\* Writing over an empty file leaves what was written.
LEMMA OverlayEmpty ==
  ASSUME NEW doc, NEW n \in Nat
  PROVE  Overlay([i \in 1..n |-> <<doc, i>>], << >>) = [i \in 1..n |-> <<doc, i>>]
<1> DEFINE b == [i \in 1..n |-> <<doc, i>>]
<1>1. b \in Seq({<<doc, i>> : i \in 1..n}) /\ Len(b) = n
  OBVIOUS
<1>2. SubSeq(<< >>, n + 1, Len(<< >>)) = << >>
  OBVIOUS
<1>3. b \o << >> = b
  BY <1>1
<1> QED BY <1>1, <1>2, <1>3 DEF Overlay

\* The blocks that a write which fails after n of them leaves.
LEMMA FirstBlocks ==
  ASSUME NEW doc \in Merged, NEW n \in 0..doc.size
  PROVE  SubSeq(Blocks(doc), 1, n) = [i \in 1..n |-> <<doc, i>>]
<1>1. doc.size \in Nat
  BY MergedSize
<1> QED BY <1>1 DEF Blocks

LEMMA WholeIsPrefix ==
  ASSUME NEW doc \in Merged
  PROVE  Prefix(Blocks(doc), doc) /\ Prefix(<< >>, doc)
<1>1. doc.size \in Nat
  BY MergedSize
<1>2. << >> = [i \in 1..0 |-> <<doc, i>>]
  OBVIOUS
<1>3. Prefix(<< >>, doc)
  BY <1>1, <1>2 DEF Prefix
<1>4. Prefix(Blocks(doc), doc)
  BY <1>1 DEF Prefix, Blocks
<1> QED BY <1>3, <1>4

\* A prefix that a load accepts is the whole document; the whole is refused only
\* when it is not strictly valid.
LEMMA AcceptsWhole ==
  ASSUME NEW doc \in Merged, NEW content, Prefix(content, doc)
  PROVE  /\ Accepts(content) => content = Blocks(doc)
         /\ content = Blocks(doc) /\ ~Accepts(content) => ~doc.strict
<1>1. doc.size \in Nat \ {0}
  BY MergedSize
<1>2. PICK n \in 0..doc.size : content = [i \in 1..n |-> <<doc, i>>]
  BY DEF Prefix
<1>3. Len(content) = n /\ DOMAIN content = 1..n /\ \A i \in 1..n : content[i][1] = doc
  BY <1>1, <1>2
<1>4. Accepts(content) => n = doc.size
  <2> SUFFICES ASSUME Accepts(content) PROVE n = doc.size
    OBVIOUS
  <2>1. n # 0
    BY <1>2 DEF Accepts
  <2>2. 1 \in DOMAIN content
    BY <1>1, <1>3, <2>1
  <2> QED BY <1>3, <2>2 DEF Accepts
<1>5. n = doc.size => content = Blocks(doc)
  BY <1>2 DEF Blocks
<1>6. ASSUME content = Blocks(doc), doc.strict PROVE Accepts(content)
  <2>1. Len(content) = doc.size
    BY <1>1, <1>6 DEF Blocks
  <2>2. content # << >>
    BY <1>1, <2>1
  <2> QED BY <1>3, <1>6, <2>1, <2>2 DEF Accepts
<1> QED BY <1>4, <1>5, <1>6

-----------------------------------------------------------------------------
LEMMA InitIInv == WorkspaceInit => IInv
<1> SUFFICES ASSUME WorkspaceInit PROVE IInv
  OBVIOUS
<1> USE RunsAssumption DEF WorkspaceInit, ExportInit
<1>1. RunInv
  BY DEF RunInv
<1>2. FileInv
  BY DEF FileInv, OpenRuns
<1>3. LoadInv
  BY DEF LoadInv, LoadOk
<1> QED BY <1>1, <1>2, <1>3 DEF IInv

LEMMA RunStep ==
  ASSUME RunInv, NEW r \in Runs, ExportStep(r)
  PROVE  RunInv'
<1> USE DEF RunInv, RunTo, writer
<1>1. CASE Extraction(r)
  BY <1>1 DEF Extraction
<1>2. CASE MergeOverrides(r)
  BY <1>2 DEF MergeOverrides, Merged
<1>3. CASE Create(r)
  BY <1>3 DEF Create
<1>4. CASE Write(r) \/ TearWrite(r) \/ Close(r) \/ FailRun(r)
  BY <1>4 DEF Write, TearWrite, Close, FailRun
<1> QED BY <1>1, <1>2, <1>3, <1>4 DEF ExportStep

\* Once created, an export is not merged again.
LEMMA CreatedStays ==
  ASSUME RunInv, NEW r \in Runs, ExportStep(r), NEW o \in Runs, Created(o), merged[o] \in Merged
  PROVE  Created(o)' /\ merged'[o] = merged[o]
BY DEF RunInv, Created, RunTo, ExportStep, Extraction, MergeOverrides, Create, Write, TearWrite,
       Close, FailRun

LEMMA FileStep ==
  ASSUME RunInv, FileInv, NEW r \in Runs, ExportStep(r)
  PROVE  FileInv'
<1>1. RunInv'
  BY RunStep
<1>2. CASE Extraction(r) \/ MergeOverrides(r)
  <2>1. UNCHANGED <<out, writer>> /\ runStage[r] \in {"extract", "sidecar"}
    BY <1>2 DEF Extraction, MergeOverrides
  <2>2. /\ runStage'[r] \in {"sidecar", "create"}
        /\ \A o \in Runs \ {r} : runStage'[o] = runStage[o] /\ merged'[o] = merged[o]
    BY <1>2 DEF Extraction, MergeOverrides, RunInv, RunTo
  <2>3. OpenRuns' = OpenRuns
    BY <2>1, <2>2 DEF OpenRuns
  <2>4. owner # r
    BY <2>1 DEF FileInv, Created
  <2> QED BY <2>1, <2>2, <2>3, <2>4 DEF FileInv, Created, writer, RunInv
<1>3. CASE Create(r)
  <2>1. /\ out' = << >> /\ owner' = r /\ overlapped' = (OpenRuns # {})
        /\ merged' = merged /\ runStage'[r] = "write" /\ runStage[r] = "create"
        /\ \A o \in Runs \ {r} : runStage'[o] = runStage[o]
    BY <1>3 DEF Create, RunInv, RunTo
  <2>2. merged[r] \in Merged /\ owner' # NoDoc
    BY <2>1, RunsAssumption DEF RunInv
  <2>3. OpenRuns = {} => OpenRuns' \subseteq {r}
    BY <2>1 DEF OpenRuns
  <2>4. Prefix(out', merged'[r])
    BY <2>1, <2>2, WholeIsPrefix
  <2> QED BY <2>1, <2>2, <2>3, <2>4 DEF FileInv, Created
<1>4. CASE Write(r) \/ TearWrite(r)
  <2>1. r \in OpenRuns /\ runStage[r] = "write" /\ merged[r] \in Merged
    BY <1>4 DEF Write, TearWrite, OpenRuns, RunInv
  <2>2. /\ UNCHANGED <<merged, writer>>
        /\ runStage'[r] \in {"close", "failed"}
        /\ \A o \in Runs \ {r} : runStage'[o] = runStage[o]
    BY <1>4 DEF Write, TearWrite, RunInv, RunTo
  <2>3. owner \in Runs
    BY <2>1 DEF FileInv, RunInv
  <2>4. OpenRuns' \subseteq OpenRuns
    BY <2>1, <2>2 DEF OpenRuns
  <2>5. Created(owner)' /\ owner' # NoDoc
    BY <2>2, <2>3, RunsAssumption DEF FileInv, Created, writer
  <2>6. ASSUME ~overlapped
        PROVE  /\ Prefix(out', merged[r])
               /\ runStage'[r] = "close" => out' = Blocks(merged[r])
               /\ owner = r
    <3>1. owner = r /\ out = << >>
      BY <2>1, <2>3, <2>6 DEF FileInv
    <3>2. merged[r].size \in Nat
      BY <2>1, MergedSize
    <3>3. CASE Write(r)
      <4>1. out' = Blocks(merged[r])
        BY <3>1, <3>2, <3>3, OverlayEmpty DEF Write, Blocks
      <4> QED BY <2>1, <3>1, <4>1, WholeIsPrefix
    <3>4. CASE TearWrite(r)
      <4>1. PICK n \in 0..(merged[r].size - 1) :
                 out' = Overlay(SubSeq(Blocks(merged[r]), 1, n), out)
        BY <3>4 DEF TearWrite
      <4>2. n \in 0..merged[r].size /\ n \in Nat
        BY <3>2
      <4>3. out' = [i \in 1..n |-> <<merged[r], i>>]
        <5>1. SubSeq(Blocks(merged[r]), 1, n) = [i \in 1..n |-> <<merged[r], i>>]
          BY <2>1, <4>2, FirstBlocks
        <5> QED BY <3>1, <4>1, <4>2, <5>1, OverlayEmpty
      <4>4. runStage'[r] = "failed"
        BY <3>4 DEF TearWrite, RunTo, RunInv
      <4> QED BY <3>1, <4>2, <4>3, <4>4 DEF Prefix
    <3> QED BY <1>4, <3>3, <3>4
  <2> QED BY <2>1, <2>2, <2>3, <2>4, <2>5, <2>6 DEF FileInv, writer
<1>5. CASE Close(r) \/ FailRun(r)
  <2>1. /\ UNCHANGED <<out, merged, writer>>
        /\ runStage'[r] \in {"ok", "failed"}
        /\ runStage'[r] = "ok" => runStage[r] = "close"
        /\ \A o \in Runs \ {r} : runStage'[o] = runStage[o]
    BY <1>5 DEF Close, FailRun, RunInv, RunTo
  <2>2. OpenRuns' \subseteq OpenRuns
    BY <2>1 DEF OpenRuns
  <2> QED BY <2>1, <2>2 DEF FileInv, Created, writer, RunInv
<1> QED BY <1>2, <1>3, <1>4, <1>5 DEF ExportStep

LEMMA LoadInvStep ==
  ASSUME RunInv, LoadInv, NEW r \in Runs, ExportStep(r)
  PROVE  LoadInv'
<1>1. UNCHANGED loadVars
  BY DEF ExportStep, Extraction, MergeOverrides, Create, Write, TearWrite, Close, FailRun
<1>2. ASSUME NEW l \in Loads, NEW o \in Runs, GotFrom(l, o) PROVE GotFrom(l, o)'
  BY <1>1, <1>2, CreatedStays DEF GotFrom, loadVars
<1> QED BY <1>1, <1>2 DEF LoadInv, LoadOk, loadVars

\* A load gets what the file invariant says of the file.
LEMMA LoadStepInv ==
  ASSUME IInv, NEW l \in Loads, LoadStep(l)
  PROVE  IInv'
<1> USE DEF IInv
<1>1. UNCHANGED <<runStage, extracted, merged, out, owner, overlapped>>
  BY DEF LoadStep, Stat, Read, runVars, writer
<1>2. RunInv' /\ FileInv'
  BY <1>1 DEF RunInv, FileInv, OpenRuns, Created
<1>3. /\ loadStage' \in [Loads -> {"stat", "read", "ok", "refused", "too large"}]
      /\ loaded' = [k \in Loads |-> loaded'[k]]
      /\ \A k \in Loads \ {l} : loaded'[k] = loaded[k] /\ loadStage'[k] = loadStage[k]
  BY DEF LoadStep, Stat, Read, LoadTo, LoadInv
<1>4. ASSUME NEW k \in Loads \ {l} PROVE LoadOk(k)'
  <2>1. \A o \in Runs : GotFrom(k, o) => GotFrom(k, o)'
    BY <1>1, <1>3 DEF GotFrom, Created
  <2> QED BY <1>3, <2>1 DEF LoadInv, LoadOk
<1>5. LoadOk(l)'
  <2>1. CASE Stat(l)
    BY <2>1 DEF Stat, LoadTo, LoadInv, LoadOk
  <2>2. CASE Read(l)
    <3>1. loaded'[l] = [content |-> out, owner |-> owner, overlapped |-> overlapped,
                        success |-> owner \in Runs /\ runStage[owner] = "ok"]
      BY <2>2 DEF Read, LoadInv
    <3>2. loadStage'[l] = IF Accepts(out) THEN "ok" ELSE "refused"
      BY <2>2 DEF Read, LoadTo, LoadInv
    <3>3. /\ loaded'[l].content = out /\ loaded'[l].owner = owner
          /\ loaded'[l].overlapped = overlapped
          /\ loaded'[l].success <=> owner \in Runs /\ runStage[owner] = "ok"
      <4> DEFINE ok == owner \in Runs /\ runStage[owner] = "ok"
      <4>1. loaded'[l] = [content |-> out, owner |-> owner, overlapped |-> overlapped, success |-> ok]
        BY <3>1, Zenon
      <4>2. ok \in BOOLEAN
        OBVIOUS
      <4> HIDE DEF ok
      <4>3. /\ loaded'[l].content = out /\ loaded'[l].owner = owner
            /\ loaded'[l].overlapped = overlapped /\ loaded'[l].success = ok
        BY <4>1
      <4> QED BY <4>3 DEF ok
    <3>4. \A o \in Runs : o = owner /\ ~overlapped => GotFrom(l, o)'
      BY <1>1, <3>3 DEF FileInv, GotFrom, Created
    <3>5. owner = NoDoc => out = Blocks(Previous) /\ owner \notin Runs
      BY RunsAssumption DEF FileInv
    <3> QED BY <3>2, <3>3, <3>4, <3>5 DEF RunInv, LoadOk
  <2> QED BY <2>1, <2>2 DEF LoadStep
<1> QED BY <1>2, <1>3, <1>4, <1>5 DEF LoadInv

LEMMA Inductive == IInv /\ [WorkspaceNext]_workspaceVars => IInv'
<1> SUFFICES ASSUME IInv, [WorkspaceNext]_workspaceVars PROVE IInv'
  OBVIOUS
<1>1. ASSUME NEW r \in Runs, ExportStep(r) PROVE IInv'
  BY <1>1, RunStep, FileStep, LoadInvStep DEF IInv
<1>2. ASSUME NEW l \in Loads, Serve(l) \/ Read(l) PROVE IInv'
  BY <1>2, LoadStepInv DEF Serve, LoadStep
<1>3. CASE UNCHANGED exportVars
  BY <1>3 DEF exportVars, runVars, loadVars, writer, IInv, RunInv, FileInv, LoadInv, LoadOk, GotFrom,
              Created, OpenRuns
<1> QED BY <1>1, <1>2, <1>3 DEF WorkspaceNext, workspaceVars

-----------------------------------------------------------------------------
\* A load that accepts what an export left, torn or not, got one whole document,
\* unless exports overlapped.
THEOREM LoadedWhole == WorkspaceSpec => []LoadedIsWhole
<1>1. IInv => LoadedIsWhole
  <2> SUFFICES ASSUME IInv, NEW l \in Loads, loadStage[l] = "ok", ~loaded[l].overlapped
               PROVE  loaded[l].content = Written(l)
    BY DEF LoadedIsWhole
  <2>1. Accepts(loaded[l].content) /\ loaded[l].owner \in Runs \cup {NoDoc}
    BY DEF IInv, LoadInv, LoadOk
  <2>2. CASE loaded[l].owner = NoDoc
    BY <2>2 DEF IInv, LoadInv, LoadOk, Written
  <2>3. CASE loaded[l].owner \in Runs
    <3>1. GotFrom(l, loaded[l].owner)
      BY <2>3 DEF IInv, LoadInv, LoadOk
    <3> QED BY <2>1, <2>3, <3>1, AcceptsWhole, RunsAssumption DEF GotFrom, Written
  <2> QED BY <2>1, <2>2, <2>3
<1> QED BY InitIInv, Inductive, <1>1, PTL DEF WorkspaceSpec

\* After an export that succeeded alone, a load gets its document, and refuses it
\* only when it is not strictly valid.
THEOREM SuccessServed == WorkspaceSpec => []SuccessIsServed
<1>1. IInv => SuccessIsServed
  <2> SUFFICES ASSUME IInv, NEW l \in Loads, loadStage[l] \in {"ok", "refused"},
                      loaded[l].success, ~loaded[l].overlapped
               PROVE  /\ loaded[l].content = Written(l)
                      /\ loadStage[l] = "refused" => ~merged[loaded[l].owner].strict
    BY DEF SuccessIsServed
  <2>1. loaded[l].owner \in Runs
    BY DEF IInv, LoadInv, LoadOk
  <2>2. GotFrom(l, loaded[l].owner)
    BY <2>1 DEF IInv, LoadInv, LoadOk
  <2>3. loadStage[l] = "refused" => ~Accepts(loaded[l].content)
    BY DEF IInv, LoadInv, LoadOk
  <2> QED BY <2>1, <2>2, <2>3, AcceptsWhole, RunsAssumption DEF GotFrom, Written
<1> QED BY InitIInv, Inductive, <1>1, PTL DEF WorkspaceSpec

-----------------------------------------------------------------------------
(* The exports and loads implement AtomicExport.                           *)

\* Documents have sizes, and their blocks are numbered through.
LEMMA SizesAreNumbers == \A doc \in Merged \cup {Previous} : doc.size \in Nat
BY MergedSize, PreviousAssumption

LEMMA BlocksOf ==
  ASSUME NEW doc, doc.size \in Nat
  PROVE  /\ Len(Blocks(doc)) = doc.size
         /\ \A i \in 1..doc.size : Blocks(doc)[i] = <<doc, i>>
BY DEF Blocks

\* The first n blocks of a document.
Row(doc, n) == [i \in 1..n |-> <<doc, i>>]

LEMMA RowOf ==
  ASSUME NEW doc, NEW n \in Nat
  PROVE  LET content == Row(doc, n)
         IN  /\ Len(content) = n /\ DOMAIN content = 1..n
             /\ \A i \in 1..n : content[i] = <<doc, i>> /\ content[i][1] = doc
             /\ content = << >> <=> n = 0
<1> DEFINE content == Row(doc, n)
<1> USE DEF Row
<1>1. Len(content) = n /\ DOMAIN content = 1..n
      /\ \A i \in 1..n : content[i] = <<doc, i>> /\ content[i][1] = doc
  OBVIOUS
<1>2. [i \in 1..0 |-> <<doc, i>>] = << >>
  OBVIOUS
<1>3. n = 0 => content = << >>
  BY <1>2
<1>4. content = << >> => n = 0
  BY <1>1
<1> QED BY <1>1, <1>3, <1>4

\* A content that is not empty tells at its first block what it may be the whole of.
LEMMA WholeOf ==
  ASSUME NEW doc \in Merged \cup {Previous}, NEW n \in Nat, NEW content,
         content = [i \in 1..n |-> <<doc, i>>]
  PROVE  Whole(content) = IF n = doc.size /\ n # 0 THEN {doc} ELSE {}
<1>1. doc.size \in Nat
  BY SizesAreNumbers
<1>2. /\ Len(content) = n /\ (content = << >> <=> n = 0)
      /\ \A i \in 1..n : content[i] = <<doc, i>>
  <2>1. content = Row(doc, n)
    BY DEF Row
  <2> QED BY <2>1, RowOf
<1>3. ASSUME NEW e \in Whole(content) PROVE e = doc /\ n = doc.size /\ n # 0
  <2>1. e.size \in Nat /\ content # << >> /\ content = Blocks(e)
    BY <1>3, SizesAreNumbers DEF Whole
  <2>2. n # 0 /\ e.size = n
    BY <1>2, <2>1, BlocksOf
  <2>3. 1 \in 1..n /\ content[1] = <<doc, 1>> /\ Blocks(e)[1] = <<e, 1>>
    BY <1>2, <2>1, <2>2, BlocksOf
  <2>4. <<doc, 1>>[1] = <<e, 1>>[1]
    BY <2>1, <2>3
  <2>5. e = doc
    BY <2>4
  <2> QED BY <2>2, <2>5
<1>4. n = doc.size /\ n # 0 => doc \in Whole(content)
  <2> SUFFICES ASSUME n = doc.size, n # 0 PROVE doc \in Whole(content)
    OBVIOUS
  <2>1. content = Blocks(doc)
    BY DEF Blocks
  <2> QED BY <1>2, <2>1 DEF Whole
<1> QED BY <1>3, <1>4

\* What the file shows is the document of the run that created it last, or the
\* previous one, if it is whole, and nothing otherwise.
LEMMA ShownIs ==
  ASSUME IInv, ~overlapped
  PROVE  LET doc == IF owner = NoDoc THEN Previous ELSE merged[owner]
         IN  /\ doc \in Merged \cup {Previous}
             /\ \E n \in 0..doc.size : out = [i \in 1..n |-> <<doc, i>>]
<1>1. CASE owner = NoDoc
  <2>1. Previous.size \in Nat
    BY PreviousAssumption
  <2> QED BY <1>1, <2>1 DEF IInv, FileInv, Blocks
<1>2. CASE owner \in Runs
  <2>1. owner # NoDoc /\ merged[owner] \in Merged /\ Prefix(out, merged[owner])
    BY <1>2, RunsAssumption DEF IInv, FileInv
  <2> QED BY <2>1 DEF Prefix
<1> QED BY <1>1, <1>2 DEF IInv, RunInv

\* A load is served the document that is shown, and is refused only if there is none
\* or it is not strictly valid.
LEMMA AcceptsShown ==
  ASSUME IInv, ~overlapped
  PROVE  /\ Accepts(out) => \E doc \in Whole(out) : Whole(out) = {doc} /\ doc.strict
         /\ ~Accepts(out) => \A doc \in Whole(out) : ~doc.strict
<1> DEFINE d == IF owner = NoDoc THEN Previous ELSE merged[owner]
<1>1. d \in Merged \cup {Previous} /\ \E n \in 0..d.size : out = [i \in 1..n |-> <<d, i>>]
  BY ShownIs
<1> HIDE DEF d
<1>2. d.size \in Nat
  BY <1>1, SizesAreNumbers
<1>3. PICK n \in 0..d.size : out = [i \in 1..n |-> <<d, i>>]
  BY <1>1
<1>4. /\ n \in Nat /\ Len(out) = n /\ DOMAIN out = 1..n /\ (out = << >> <=> n = 0)
      /\ \A i \in 1..n : out[i][1] = d
  <2>1. n \in Nat /\ out = Row(d, n)
    BY <1>2, <1>3 DEF Row
  <2> QED BY <2>1, RowOf
<1>5. Whole(out) = IF n = d.size /\ n # 0 THEN {d} ELSE {}
  BY <1>1, <1>3, <1>4, WholeOf
<1>6. Accepts(out) <=> n # 0 /\ d.size = n /\ d.strict
  <2>1. n # 0 => 1 \in 1..n
    BY <1>4
  <2> QED BY <1>4, <2>1 DEF Accepts
<1> QED BY <1>5, <1>6

\* At the start the previous document is shown.
LEMMA RefinementInit == WorkspaceInit => Atomic!AtomicInit
<1> SUFFICES ASSUME WorkspaceInit PROVE Atomic!AtomicInit
  OBVIOUS
<1> USE DEF WorkspaceInit, ExportInit
<1>1. phase = [r \in Runs |-> "prepare"]
  BY DEF phase, Phase
<1>2. Previous.size \in Nat /\ out = [i \in 1..Previous.size |-> <<Previous, i>>]
  BY PreviousAssumption DEF Blocks
<1>3. Whole(out) = IF Previous.size = 0 THEN {} ELSE {Previous}
  BY <1>2, WholeOf
<1>4. answer = [l \in Loads |-> "waiting"] /\ got = [l \in Loads |-> {}]
  BY DEF answer, got
<1> QED BY <1>1, <1>3, <1>4 DEF Atomic!AtomicInit, shown

\* One export moves, the others stay where they are.
LEMMA PhaseMoves ==
  ASSUME RunInv, NEW r \in Runs, NEW s,
         s \in {"extract", "sidecar", "create", "write", "close", "ok", "failed"}, RunTo(r, s)
  PROVE  /\ runStage'[r] = s /\ \A o \in Runs \ {r} : runStage'[o] = runStage[o]
         /\ phase[r] = Phase(r) /\ phase' = [phase EXCEPT ![r] = Phase(r)']
<1>1. runStage'[r] = s /\ \A o \in Runs \ {r} : runStage'[o] = runStage[o]
  BY DEF RunInv, RunTo
<1>2. \A o \in Runs \ {r} : Phase(o)' = Phase(o)
  BY <1>1 DEF Phase
<1>3. phase' = [o \in Runs |-> Phase(o)'] /\ phase = [o \in Runs |-> Phase(o)]
  BY DEF phase
<1> QED BY <1>1, <1>2, <1>3

\* Each step of an export is one of the abstract export, or not seen there.
LEMMA ExportRefines ==
  ASSUME IInv, NEW r \in Runs, ExportStep(r)
  PROVE  [Atomic!AtomicNext]_(Atomic!avars)
<1> USE DEF IInv
<1>1. FileInv' /\ RunInv'
  BY RunStep, FileStep
<1>2. UNCHANGED <<answer, got>>
  BY DEF ExportStep, Extraction, MergeOverrides, Create, Write, TearWrite, Close, FailRun, loadVars, answer, got
<1>3. OpenRuns = Atomic!Opened
  <2>1. \A o \in Runs : runStage[o] \in {"write", "close"} <=> phase[o] \in {"open", "published"}
    BY DEF RunInv, phase, Phase
  <2> QED BY <2>1 DEF OpenRuns, Atomic!Opened
<1>4. CASE Extraction(r)
  <2>1. phase' = [phase EXCEPT ![r] = Phase(r)'] /\ Phase(r)' = Phase(r) /\ phase[r] = Phase(r)
    BY <1>4, PhaseMoves DEF Extraction, Phase
  <2>2. phase' = phase
    BY <2>1 DEF phase
  <2>3. UNCHANGED <<merged, shown, overlapped>>
    BY <1>4 DEF Extraction, writer, shown
  <2> QED BY <1>2, <2>2, <2>3 DEF Atomic!avars
<1>5. CASE MergeOverrides(r)
  <2>1. phase[r] = "prepare" /\ phase' = [phase EXCEPT ![r] = "ready"]
    BY <1>5, PhaseMoves DEF MergeOverrides, Phase
  <2>2. \E doc \in Merged : merged' = [merged EXCEPT ![r] = doc]
    <3>1. PICK over \in Sidecars : merged' = [merged EXCEPT ![r] = Merge(extracted[r], over)]
      BY <1>5 DEF MergeOverrides
    <3>2. extracted[r] \in Extracted
      BY <1>5 DEF MergeOverrides, RunInv
    <3>3. Merge(extracted[r], over) \in Merged
      BY <3>2 DEF Merged
    <3> QED BY <3>1, <3>3
  <2>3. UNCHANGED <<shown, overlapped>>
    BY <1>5 DEF MergeOverrides, writer, shown
  <2>4. Atomic!Prepare(r)
    BY <1>2, <2>1, <2>2, <2>3 DEF Atomic!Prepare
  <2> QED BY <2>4 DEF Atomic!AtomicNext
<1>6. CASE Create(r)
  <2>1. phase[r] = "ready" /\ phase' = [phase EXCEPT ![r] = "open"]
    BY <1>6, PhaseMoves DEF Create, Phase
  <2>2. merged' = merged /\ out' = << >> /\ overlapped' = (Atomic!Opened # {})
    BY <1>3, <1>6 DEF Create
  <2>3. shown' = {}
    BY <2>2 DEF shown, Whole
  <2>4. Atomic!Open(r)
    BY <1>2, <2>1, <2>2, <2>3 DEF Atomic!Open
  <2> QED BY <2>4 DEF Atomic!AtomicNext
<1>7. CASE Write(r)
  <2>1. phase[r] = "open" /\ phase' = [phase EXCEPT ![r] = "published"] /\ runStage'[r] = "close"
    BY <1>7, PhaseMoves DEF Write, Phase
  <2>2. UNCHANGED <<merged, owner, overlapped>> /\ r \in OpenRuns /\ merged[r] \in Merged
    BY <1>7 DEF Write, writer, OpenRuns, RunInv
  <2>3. ASSUME ~overlapped PROVE shown' = {merged[r]}
    <3>1. owner = r
      BY <2>2, <2>3 DEF FileInv, RunInv
    <3>2. out' = Blocks(merged[r])
      BY <1>1, <2>1, <2>2, <2>3, <3>1 DEF FileInv
    <3>3. merged[r].size \in Nat \ {0} /\ out' = [i \in 1..merged[r].size |-> <<merged[r], i>>]
      BY <2>2, <3>2, MergedSize DEF Blocks
    <3>4. Whole(out') = {merged[r]}
      BY <2>2, <3>3, WholeOf
    <3> QED BY <2>2, <2>3, <3>4 DEF shown, Whole
  <2>4. shown' = IF overlapped THEN {} ELSE {merged[r]}
    BY <2>2, <2>3 DEF shown
  <2>5. Atomic!Publish(r)
    BY <1>2, <2>1, <2>2, <2>4 DEF Atomic!Publish
  <2> QED BY <2>5 DEF Atomic!AtomicNext
<1>8. CASE TearWrite(r)
  <2>1. phase[r] = "open" /\ phase' = [phase EXCEPT ![r] = "failed"]
    BY <1>8, PhaseMoves DEF TearWrite, Phase
  <2>2. UNCHANGED <<merged, owner, overlapped>> /\ r \in OpenRuns /\ merged[r] \in Merged
        /\ runStage[r] = "write"
    BY <1>8 DEF TearWrite, writer, OpenRuns, RunInv
  <2>3. ASSUME ~overlapped PROVE shown' = {} /\ shown = {}
    <3>1. owner = r /\ out = << >>
      BY <2>2, <2>3 DEF FileInv, RunInv
    <3>2. PICK n \in 0..(merged[r].size - 1) : out' = Overlay(SubSeq(Blocks(merged[r]), 1, n), out)
      BY <1>8 DEF TearWrite
    <3>3. merged[r].size \in Nat /\ n \in 0..merged[r].size /\ n \in Nat /\ n # merged[r].size
      BY <2>2, <3>2, MergedSize
    <3>4. out' = [i \in 1..n |-> <<merged[r], i>>]
      <4>1. SubSeq(Blocks(merged[r]), 1, n) = [i \in 1..n |-> <<merged[r], i>>]
        BY <2>2, <3>3, FirstBlocks
      <4> QED BY <3>1, <3>2, <3>3, <4>1, OverlayEmpty
    <3>5. Whole(out') = {}
      BY <2>2, <3>3, <3>4, WholeOf
    <3> QED BY <2>2, <2>3, <3>1, <3>5 DEF shown, Whole
  <2>4. shown' = shown
    BY <2>2, <2>3 DEF shown
  <2>5. Atomic!BreakOff(r)
    BY <1>2, <2>1, <2>2, <2>4 DEF Atomic!BreakOff
  <2> QED BY <2>5 DEF Atomic!AtomicNext
<1>9. CASE Close(r)
  <2>1. phase[r] = "published" /\ phase' = [phase EXCEPT ![r] = "ok"]
    BY <1>9, PhaseMoves DEF Close, Phase
  <2>2. UNCHANGED <<merged, shown, overlapped>>
    BY <1>9 DEF Close, writer, runVars, shown
  <2>3. Atomic!Succeed(r)
    BY <1>2, <2>1, <2>2 DEF Atomic!Succeed
  <2> QED BY <2>3 DEF Atomic!AtomicNext
<1>10. CASE FailRun(r)
  <2>1. phase[r] \notin {"ok", "failed"} /\ phase' = [phase EXCEPT ![r] = "failed"]
    <3>1. phase[r] = Phase(r) /\ phase' = [phase EXCEPT ![r] = "failed"]
      BY <1>10, PhaseMoves DEF FailRun, Phase
    <3>2. Phase(r) \notin {"ok", "failed"}
      BY <1>10 DEF FailRun, Phase, RunInv
    <3> QED BY <3>1, <3>2
  <2>2. UNCHANGED <<merged, shown, overlapped>>
    BY <1>10 DEF FailRun, writer, runVars, shown
  <2>3. Atomic!BreakOff(r)
    BY <1>2, <2>1, <2>2 DEF Atomic!BreakOff
  <2> QED BY <2>3 DEF Atomic!AtomicNext
<1> QED BY <1>4, <1>5, <1>6, <1>7, <1>8, <1>9, <1>10 DEF ExportStep

\* One load gets its answer, the others keep theirs.
LEMMA AnswerMoves ==
  ASSUME LoadInv, NEW l \in Loads, LoadStep(l), NEW a, NEW g,
         a = answer'[l], g = got'[l]
  PROVE  answer' = [answer EXCEPT ![l] = a] /\ got' = [got EXCEPT ![l] = g]
<1>1. \A k \in Loads \ {l} : loadStage'[k] = loadStage[k] /\ loaded'[k] = loaded[k]
  BY DEF LoadStep, Stat, Read, LoadTo, LoadInv
<1>2. /\ answer = [k \in Loads |-> answer[k]] /\ answer' = [k \in Loads |-> answer'[k]]
      /\ \A k \in Loads \ {l} : answer'[k] = answer[k]
  BY <1>1 DEF answer
<1>3. /\ got = [k \in Loads |-> got[k]] /\ got' = [k \in Loads |-> got'[k]]
      /\ \A k \in Loads \ {l} : got'[k] = got[k]
  BY <1>1 DEF got, Whole
<1> QED BY <1>2, <1>3

\* Each step of a load is one of the abstract load, or not seen there.
LEMMA LoadRefines ==
  ASSUME IInv, NEW l \in Loads, LoadStep(l)
  PROVE  [Atomic!AtomicNext]_(Atomic!avars)
<1> USE DEF IInv
<1>1. UNCHANGED <<phase, merged, shown, overlapped>>
  <2>1. UNCHANGED <<runStage, merged, out, overlapped>>
    BY DEF LoadStep, Stat, Read, runVars, writer
  <2> QED BY <2>1 DEF phase, Phase, shown, Whole
<1>2. answer' = [answer EXCEPT ![l] = answer'[l]] /\ got' = [got EXCEPT ![l] = got'[l]]
  BY AnswerMoves
<1>3. answer[l] = "waiting" /\ got[l] = {}
  BY DEF LoadStep, Stat, Read, answer, got
<1>4. got'[l] = {} => got' = got
  <2>1. got = [k \in Loads |-> got[k]]
    BY DEF got
  <2> QED BY <1>2, <1>3, <2>1
<1>5. CASE Stat(l)
  <2>1. loadStage'[l] = IF Len(out) > MaxSize THEN "too large" ELSE "read"
    BY <1>5 DEF Stat, LoadTo, LoadInv
  <2>2. got' = got
    BY <1>4, <2>1 DEF got
  <2>3. CASE Len(out) > MaxSize
    <3>1. answer'[l] = "refused"
      BY <2>1, <2>3 DEF answer
    <3>2. \A doc \in shown : doc.size > MaxSize
      <4> SUFFICES ASSUME NEW doc \in shown PROVE doc.size > MaxSize
        OBVIOUS
      <4>1. out = Blocks(doc) /\ doc.size \in Nat
        BY SizesAreNumbers DEF shown, Whole
      <4>2. Len(out) = doc.size
        BY <4>1, BlocksOf
      <4> QED BY <2>3, <4>2
    <3>3. Atomic!Refuse(l)
      BY <1>1, <1>2, <1>3, <2>2, <3>1, <3>2 DEF Atomic!Refuse
    <3> QED BY <3>3 DEF Atomic!AtomicNext
  <2>4. CASE ~(Len(out) > MaxSize)
    <3>1. answer'[l] = answer[l]
      BY <1>3, <2>1, <2>4 DEF answer
    <3>2. answer' = answer
      BY <1>2, <3>1 DEF answer
    <3> QED BY <1>1, <2>2, <3>2 DEF Atomic!avars
  <2> QED BY <2>3, <2>4
<1>6. CASE Read(l)
  <2>1. loadStage'[l] = IF Accepts(out) THEN "ok" ELSE "refused"
    BY <1>6 DEF Read, LoadTo, LoadInv
  <2>2. loaded'[l].content = out /\ loaded'[l].overlapped = overlapped
    <3>1. loaded'[l] = [content |-> out, owner |-> owner, overlapped |-> overlapped,
                        success |-> owner \in Runs /\ runStage[owner] = "ok"]
      BY <1>6 DEF Read, LoadInv
    <3> DEFINE ok == owner \in Runs /\ runStage[owner] = "ok"
    <3>2. loaded'[l] = [content |-> out, owner |-> owner, overlapped |-> overlapped, success |-> ok]
      BY <3>1, Zenon
    <3> HIDE DEF ok
    <3> QED BY <3>2
  <2>3. got'[l] = IF Accepts(out) /\ ~overlapped THEN Whole(out) ELSE {}
    BY <2>1, <2>2 DEF got, Whole
  <2>4. CASE Accepts(out)
    <3>1. answer'[l] = "served"
      BY <2>1, <2>4 DEF answer
    <3>2. (overlapped /\ got' = got) \/ \E doc \in shown : doc.strict /\ got' = [got EXCEPT ![l] = {doc}]
      <4>1. CASE overlapped
        BY <1>4, <2>3, <4>1
      <4>2. CASE ~overlapped
        BY <1>2, <2>3, <2>4, <4>2, AcceptsShown DEF shown
      <4> QED BY <4>1, <4>2
    <3>3. Atomic!Serve(l)
      BY <1>1, <1>2, <1>3, <3>1, <3>2 DEF Atomic!Serve
    <3> QED BY <3>3 DEF Atomic!AtomicNext
  <2>5. CASE ~Accepts(out)
    <3>1. answer'[l] = "refused" /\ got' = got
      BY <1>4, <2>1, <2>3, <2>5 DEF answer
    <3>2. overlapped \/ \A doc \in shown : ~doc.strict
      BY <2>5, AcceptsShown DEF shown
    <3>3. Atomic!Refuse(l)
      BY <1>1, <1>2, <1>3, <3>1, <3>2 DEF Atomic!Refuse
    <3> QED BY <3>3 DEF Atomic!AtomicNext
  <2> QED BY <2>4, <2>5
<1> QED BY <1>5, <1>6 DEF LoadStep

\* The other commands of the workspace are not seen there.
LEMMA RefinementStep == IInv /\ [WorkspaceNext]_workspaceVars => [Atomic!AtomicNext]_(Atomic!avars)
<1> SUFFICES ASSUME IInv, [WorkspaceNext]_workspaceVars PROVE [Atomic!AtomicNext]_(Atomic!avars)
  OBVIOUS
<1>1. ASSUME NEW r \in Runs, ExportStep(r) PROVE [Atomic!AtomicNext]_(Atomic!avars)
  BY <1>1, ExportRefines
<1>2. ASSUME NEW l \in Loads, Serve(l) \/ Read(l) PROVE [Atomic!AtomicNext]_(Atomic!avars)
  BY <1>2, LoadRefines DEF Serve, LoadStep
<1>3. CASE UNCHANGED exportVars
  BY <1>3 DEF exportVars, runVars, loadVars, writer, Atomic!avars, phase, Phase, shown, answer, got
<1> QED BY <1>1, <1>2, <1>3 DEF WorkspaceNext, workspaceVars

\* For any number of exports and loads, any documents and sidecars, and whatever is
\* killed or torn: to the commands that load the file, an export replaces one whole
\* document by another in a single step, or takes it away and fails.
THEOREM ExportsAreAtomic == WorkspaceSpec => ExportPromise
BY InitIInv, Inductive, RefinementInit, RefinementStep, PTL
   DEF WorkspaceSpec, ExportPromise, Atomic!AtomicSpec

-----------------------------------------------------------------------------
(* What follows from the promise alone.                                    *)
GoneInv ==
    /\ phase \in [Runs -> {"prepare", "ready", "open", "published", "ok", "failed"}]
    /\ Atomic!GoneOnlyByExport

\* Only the export that opened the file last can leave it empty, by breaking off.
LEMMA GoneInductive == GoneInv /\ [Atomic!AtomicNext]_(Atomic!avars) => GoneInv'
<1> USE DEF GoneInv, Atomic!GoneOnlyByExport
<1>1. ASSUME GoneInv, NEW r \in Runs,
             Atomic!Prepare(r) \/ Atomic!Open(r) \/ Atomic!Publish(r) \/ Atomic!Succeed(r) \/ Atomic!BreakOff(r)
      PROVE  GoneInv'
  BY <1>1 DEF Atomic!Prepare, Atomic!Open, Atomic!Publish, Atomic!Succeed, Atomic!BreakOff
<1>2. ASSUME GoneInv, NEW l \in Loads, Atomic!Serve(l) \/ Atomic!Refuse(l) PROVE GoneInv'
  BY <1>2 DEF Atomic!Serve, Atomic!Refuse
<1>3. GoneInv /\ UNCHANGED Atomic!avars => GoneInv'
  BY DEF Atomic!avars
<1> QED BY <1>1, <1>2, <1>3 DEF Atomic!AtomicNext

\* The file is without a document only while an export writes it or after one has
\* failed, unless exports ran into each other.
THEOREM GoneByExport == WorkspaceSpec => []Atomic!GoneOnlyByExport
<1>1. Atomic!AtomicInit => GoneInv
  BY DEF Atomic!AtomicInit, GoneInv, Atomic!GoneOnlyByExport
<1>2. GoneInv => Atomic!GoneOnlyByExport
  BY DEF GoneInv
<1>3. Atomic!AtomicSpec => []Atomic!GoneOnlyByExport
  BY <1>1, <1>2, GoneInductive, PTL DEF Atomic!AtomicSpec
<1> QED BY ExportsAreAtomic, <1>3, PTL DEF ExportPromise

-----------------------------------------------------------------------------
(* The state has its type: in particular a file never holds a block of a   *)
(* document at a place where that document does not have it, even when     *)
(* exports overlap and overwrite each other's beginning.                   *)

\* Each block of the file is at its own place.
Placed(content) ==
    \E n \in Nat : \E docs : content = [i \in 1..n |-> <<docs[i], i>>]

LEMMA PlacedOverlay ==
  ASSUME NEW doc, NEW m \in Nat, NEW content, Placed(content)
  PROVE  Placed(Overlay([i \in 1..m |-> <<doc, i>>], content))
<1> DEFINE b == [i \in 1..m |-> <<doc, i>>]
<1>0. PICK n \in Nat : \E docs : content = [i \in 1..n |-> <<docs[i], i>>]
  BY DEF Placed
<1>1. PICK docs : content = [i \in 1..n |-> <<docs[i], i>>]
  BY <1>0
<1>2. content \in Seq({<<docs[i], i>> : i \in 1..n}) /\ Len(content) = n
  BY <1>1
<1>3. b \in Seq({<<doc, i>> : i \in 1..m}) /\ Len(b) = m /\ \A i \in 1..m : b[i] = <<doc, i>>
  OBVIOUS
<1>4. CASE n <= m
  <2> DEFINE all == [j \in 1..m |-> doc]
  <2>1. SubSeq(content, m + 1, n) = << >>
    BY <1>2, <1>4
  <2>2. b \o << >> = b
    BY <1>3
  <2>3. b = [i \in 1..m |-> <<all[i], i>>]
    OBVIOUS
  <2>4. Overlay(b, content) = [i \in 1..m |-> <<all[i], i>>]
    BY <1>2, <1>3, <2>1, <2>2, <2>3 DEF Overlay
  <2> HIDE DEF all, b
  <2>5. Placed(Overlay(b, content))
    BY <2>4 DEF Placed
  <2> QED BY <2>5 DEF b
<1>5. CASE n > m
  <2> DEFINE rest == SubSeq(content, m + 1, n)
             all == [i \in 1..n |-> IF i <= m THEN doc ELSE docs[i]]
  <2>1. Len(rest) = n - m /\ \A i \in 1..(n - m) : rest[i] = content[i + m]
    BY <1>2, <1>5
  <2>2. rest \in Seq({<<docs[i], i>> : i \in 1..n})
    BY <1>2, <1>5
  <2>3. \A i \in (m + 1)..n : rest[i - m] = <<docs[i], i>>
    BY <1>1, <1>5, <2>1
  <2>4. b \o rest = [i \in 1..n |-> IF i <= m THEN b[i] ELSE rest[i - m]]
    <3> HIDE DEF rest, b
    <3> DEFINE S == {<<doc, i>> : i \in 1..m} \cup {<<docs[i], i>> : i \in 1..n}
    <3>1. b \in Seq(S) /\ rest \in Seq(S)
      BY <1>3, <2>2
    <3> HIDE DEF S
    <3>2. Len(b) = m /\ Len(rest) = n - m /\ n \in Nat
      BY <1>3, <2>1
    <3>3. /\ b \o rest \in Seq(S) /\ Len(b \o rest) = n
          /\ \A i \in 1..n : (b \o rest)[i] = IF i <= m THEN b[i] ELSE rest[i - m]
      BY <3>1, <3>2, ConcatProperties
    <3>4. b \o rest = [i \in 1..n |-> (b \o rest)[i]]
      BY <3>3, LenProperties
    <3> QED BY <3>3, <3>4
  <2>5. Overlay(b, content) = b \o rest
    BY <1>2, <1>3 DEF Overlay
  <2>6. \A i \in 1..n : (IF i <= m THEN b[i] ELSE rest[i - m]) = <<all[i], i>>
    <3> HIDE DEF rest, b
    <3> SUFFICES ASSUME NEW i \in 1..n
                 PROVE  (IF i <= m THEN b[i] ELSE rest[i - m]) = <<all[i], i>>
      OBVIOUS
    <3>1. CASE i <= m
      BY <1>3, <3>1
    <3>2. CASE i > m
      BY <2>3, <3>2
    <3> QED BY <3>1, <3>2
  <2> HIDE DEF rest, all, b
  <2>7. Overlay(b, content) = [i \in 1..n |-> <<all[i], i>>]
    BY <2>4, <2>5, <2>6
  <2>8. Placed(Overlay(b, content))
    BY <2>7 DEF Placed
  <2> QED BY <2>8 DEF b
<1> QED BY <1>4, <1>5

TypeInv ==
    /\ \A r \in Runs : warned[r] \subseteq DOMAIN sidecar[r]
    /\ warned = [r \in Runs |-> warned[r]] /\ sidecar = [r \in Runs |-> sidecar[r]]
    /\ Placed(out)
    /\ initStage \in [Inits -> {"read", "truncate", "write", "ok", "failed"}]
    /\ undisturbed \subseteq Inits

LEMMA BlocksPlaced ==
  ASSUME NEW doc, NEW n \in Nat
  PROVE  Placed([i \in 1..n |-> <<doc, i>>]) /\ Placed(<< >>)
<1> DEFINE all(k) == [j \in 1..k |-> doc]
<1>1. \A k \in Nat : [i \in 1..k |-> <<doc, i>>] = [i \in 1..k |-> <<all(k)[i], i>>]
  OBVIOUS
<1>2. << >> = [i \in 1..0 |-> <<doc, i>>]
  OBVIOUS
<1> HIDE DEF all
<1>3. \A k \in Nat : Placed([i \in 1..k |-> <<doc, i>>])
  BY <1>1 DEF Placed
<1> QED BY <1>2, <1>3

LEMMA OutPlaced ==
  ASSUME RunInv, Placed(out), NEW r \in Runs, ExportStep(r)
  PROVE  Placed(out')
<1>1. CASE Write(r) \/ TearWrite(r)
  <2>1. merged[r] \in Merged /\ merged[r].size \in Nat
    BY <1>1, MergedSize DEF Write, TearWrite, RunInv
  <2> DEFINE first(n) == [i \in 1..n |-> <<merged[r], i>>]
  <2>2. PICK n \in 0..merged[r].size : out' = Overlay(first(n), out)
    <3>1. CASE Write(r)
      <4>1. out' = Overlay(first(merged[r].size), out)
        BY <3>1 DEF Write, Blocks
      <4>2. merged[r].size \in 0..merged[r].size
        BY <2>1
      <4> HIDE DEF first
      <4> QED BY <4>1, <4>2
    <3>2. CASE TearWrite(r)
      <4>1. PICK n \in 0..(merged[r].size - 1) : out' = Overlay(SubSeq(Blocks(merged[r]), 1, n), out)
        BY <3>2 DEF TearWrite
      <4>2. n \in 0..merged[r].size
        BY <2>1
      <4> QED BY <2>1, <4>1, <4>2, FirstBlocks
    <3> QED BY <1>1, <3>1, <3>2
  <2>3. n \in Nat
    BY <2>1
  <2> QED BY <2>2, <2>3, PlacedOverlay
<1>2. CASE Create(r)
  BY <1>2, BlocksPlaced, 0 \in Nat DEF Create
<1>3. CASE Extraction(r) \/ MergeOverrides(r) \/ Close(r) \/ FailRun(r)
  BY <1>3 DEF Extraction, MergeOverrides, Close, FailRun
<1> QED BY <1>1, <1>2, <1>3 DEF ExportStep

LEMMA TypeInductive ==
  /\ WorkspaceInit => TypeInv
  /\ IInv /\ TypeInv /\ [WorkspaceNext]_workspaceVars => TypeInv'
<1>1. WorkspaceInit => TypeInv
  <2> SUFFICES ASSUME WorkspaceInit PROVE TypeInv
    OBVIOUS
  <2>1. Placed(out)
    BY PreviousAssumption, BlocksPlaced DEF WorkspaceInit, ExportInit, Blocks
  <2> QED BY <2>1 DEF WorkspaceInit, ExportInit, ConfigInit, TypeInv
<1>2. IInv /\ TypeInv /\ [WorkspaceNext]_workspaceVars => TypeInv'
  <2> SUFFICES ASSUME IInv, TypeInv, [WorkspaceNext]_workspaceVars PROVE TypeInv'
    OBVIOUS
  <2>1. ASSUME NEW r \in Runs, ExportStep(r), UNCHANGED configVars PROVE TypeInv'
    <3>1. Placed(out')
      BY <2>1, OutPlaced DEF IInv, TypeInv
    <3>2. CASE MergeOverrides(r)
      <4>1. PICK over \in Sidecars :
               /\ sidecar' = [sidecar EXCEPT ![r] = over]
               /\ warned' = [warned EXCEPT ![r] = Unmatched(extracted[r], over)]
        BY <3>2 DEF MergeOverrides
      <4>2. Unmatched(extracted[r], over) \subseteq DOMAIN over
        BY DEF Unmatched
      <4> QED BY <2>1, <3>1, <4>1, <4>2 DEF TypeInv, configVars
    <3>3. CASE ~MergeOverrides(r)
      <4>1. UNCHANGED <<sidecar, warned>>
        BY <2>1, <3>3 DEF ExportStep, Extraction, Create, Write, TearWrite, Close, FailRun
      <4> QED BY <2>1, <3>1, <4>1 DEF TypeInv, configVars
    <3> QED BY <3>2, <3>3
  <2>2. ASSUME NEW l \in Loads, Serve(l) \/ Read(l), UNCHANGED configVars PROVE TypeInv'
    BY <2>2 DEF Serve, Stat, Read, runVars, configVars, TypeInv
  <2>3. CASE ConfigNext /\ UNCHANGED exportVars
    BY <2>3 DEF ConfigNext, InitStep, ReadConfig, RefuseConfig, TruncateConfig, WriteConfig, FailInit,
                ForeignWrite, InitTo, exportVars, runVars, TypeInv
  <2>4. CASE UNCHANGED workspaceVars
    BY <2>4 DEF workspaceVars, exportVars, runVars, configVars, TypeInv
  <2> QED BY <2>1, <2>2, <2>3, <2>4 DEF WorkspaceNext
<1> QED BY <1>1, <1>2

\* Every part of the workspace's state has its type.
THEOREM TypeCorrect == WorkspaceSpec => []WorkspaceTypeOK
<1>1. IInv /\ TypeInv => WorkspaceTypeOK
  <2> SUFFICES ASSUME IInv, TypeInv PROVE WorkspaceTypeOK
    OBVIOUS
  <2>1. \A i \in DOMAIN out : out[i][2] = i
    BY DEF TypeInv, Placed
  <2> QED BY <2>1 DEF IInv, RunInv, LoadInv, TypeInv, WorkspaceTypeOK, ExportTypeOK
<1> QED BY InitIInv, Inductive, TypeInductive, <1>1, PTL DEF WorkspaceSpec

-----------------------------------------------------------------------------
\* What a run merged and warned about is a function of what it read.
MergedInv ==
    \A r \in Runs : merged[r] # NoDoc =>
        /\ runStage[r] \notin {"extract", "sidecar"}
        /\ extracted[r] \in Extracted /\ sidecar[r] \in Sidecars
        /\ merged[r] = Merge(extracted[r], sidecar[r])
        /\ warned[r] = Unmatched(extracted[r], sidecar[r])

\* What the sidecar does not give stays, and what it gives replaces, or is warned about.
MergedInto(old, over, doc, warns) ==
    /\ DOMAIN doc = DOMAIN old
    /\ \A k \in DOMAIN old :
          /\ doc[k].desc = IF k \in DOMAIN over /\ over[k].desc # ""
                           THEN over[k].desc ELSE old[k].desc
          /\ doc[k].values = IF k \in DOMAIN over /\ over[k].values # {}
                             THEN over[k].values ELSE old[k].values
    /\ \A k \in DOMAIN over \ DOMAIN old : k \in warns \/ <<k[1], "">> \in warns
    /\ warns \cap DOMAIN doc = {}

LEMMA MergedNotes ==
  ASSUME NEW old \in Extracted, NEW over \in Sidecars
  PROVE  MergedInto(old.notes, over, Merge(old, over).notes, Unmatched(old, over))
<1> DEFINE doc == Merge(old, over)
           warns == Unmatched(old, over)
<1> DEFINE note(k) == IF k \notin DOMAIN over THEN old.notes[k]
                      ELSE [desc   |-> IF over[k].desc = "" THEN old.notes[k].desc ELSE over[k].desc,
                            values |-> IF over[k].values = {} THEN old.notes[k].values
                                       ELSE over[k].values]
<1>1. old = [size |-> old.size, strict |-> old.strict, notes |-> old.notes]
  BY DocumentAssumption
<1>2. doc.notes = [k \in DOMAIN old.notes |-> note(k)]
  BY <1>1 DEF Merge
<1>3. \A k : /\ note(k).desc = IF k \in DOMAIN over /\ over[k].desc # ""
                               THEN over[k].desc ELSE old.notes[k].desc
             /\ note(k).values = IF k \in DOMAIN over /\ over[k].values # {}
                                 THEN over[k].values ELSE old.notes[k].values
  OBVIOUS
<1> HIDE DEF note
<1>4. DOMAIN doc.notes = DOMAIN old.notes /\ \A k \in DOMAIN old.notes : doc.notes[k] = note(k)
  BY <1>2
<1>5. \A k \in DOMAIN over \ DOMAIN old.notes : k \in warns \/ <<k[1], "">> \in warns
  <2> SUFFICES ASSUME NEW k \in DOMAIN over \ DOMAIN old.notes, k \notin warns
               PROVE  <<k[1], "">> \in warns
    OBVIOUS
  <2>1. <<k[1], "">> \notin DOMAIN old.notes
    BY DEF Unmatched
  <2>2. <<k[1], "">> \in DOMAIN over
    BY SidecarAssumption
  <2> QED BY <2>1, <2>2 DEF Unmatched
<1>6. warns \cap DOMAIN doc.notes = {}
  BY <1>4 DEF Unmatched
<1> QED BY <1>3, <1>4, <1>5, <1>6 DEF MergedInto

\* Item by item, for what is said of a key in the sidecar (given), in the extraction
\* (before) and in the document (after); nothing is what stands for no item.
Items(Keys, said, nothing) == {<<k, said[k]>> : k \in {k \in Keys : said[k] # nothing}}

LEMMA ItemsAccounted ==
  ASSUME NEW Keys, NEW Given, NEW nothing, NEW given, NEW before, NEW after, NEW unused,
         Given \ Keys \subseteq unused,
         \A k \in Keys : after[k] = IF k \in Given /\ given[k] # nothing THEN given[k] ELSE before[k]
  PROVE  Accounted(Items(Given, given, nothing), Items(Keys, before, nothing),
                   Items(Keys, after, nothing), unused)
<1> DEFINE G == {<<k, given[k]>> : k \in {k \in Given : given[k] # nothing}}
           B == {<<k, before[k]>> : k \in {k \in Keys : before[k] # nothing}}
           A == {<<k, after[k]>> : k \in {k \in Keys : after[k] # nothing}}
<1>1. \A item \in G : item[1] \in unused \/ item \in A
  <2> SUFFICES ASSUME NEW k \in Given, given[k] # nothing, k \notin unused
               PROVE  <<k, given[k]>> \in A
    OBVIOUS
  <2>1. k \in Keys /\ after[k] = given[k]
    OBVIOUS
  <2> QED BY <2>1
<1>2. A \ B \subseteq G
  <2> SUFFICES ASSUME NEW k \in Keys, after[k] # nothing, <<k, after[k]>> \notin B
               PROVE  <<k, after[k]>> \in G
    OBVIOUS
  <2>1. after[k] # before[k]
    OBVIOUS
  <2>2. k \in Given /\ given[k] # nothing /\ after[k] = given[k]
    BY <2>1
  <2> QED BY <2>2
<1>3. \A item \in B \ A : \E new \in G : new[1] = item[1]
  <2> SUFFICES ASSUME NEW k \in Keys, before[k] # nothing, <<k, before[k]>> \notin A
               PROVE  \E new \in G : new[1] = k
    OBVIOUS
  <2>1. after[k] # before[k]
    OBVIOUS
  <2>2. k \in Given /\ given[k] # nothing
    BY <2>1
  <2>3. <<k, given[k]>> \in G /\ <<k, given[k]>>[1] = k
    BY <2>2
  <2> QED BY <2>3
<1> QED BY <1>1, <1>2, <1>3 DEF Accounted, Items

\* Every description and list of values in a sidecar is in the document or warned
\* about, none is made up, and none of the extraction is gone that was not overridden:
\* for all documents and all sidecars.
THEOREM OverridesKept == WorkspaceSpec => []OverridesAccounted
<1>1. WorkspaceInit => MergedInv
  BY DEF WorkspaceInit, ExportInit, MergedInv
<1>2. IInv /\ TypeInv /\ MergedInv /\ [WorkspaceNext]_workspaceVars => MergedInv'
  <2> SUFFICES ASSUME IInv, TypeInv, MergedInv, [WorkspaceNext]_workspaceVars PROVE MergedInv'
    OBVIOUS
  <2>1. ASSUME NEW r \in Runs, ExportStep(r) PROVE MergedInv'
    BY <2>1 DEF ExportStep, Extraction, MergeOverrides, Create, Write, TearWrite, Close, FailRun,
                RunTo, IInv, RunInv, TypeInv, MergedInv
  <2>2. CASE UNCHANGED runVars
    BY <2>2 DEF runVars, MergedInv
  <2> QED BY <2>1, <2>2 DEF WorkspaceNext, Serve, Stat, Read, exportVars, workspaceVars
<1>3. MergedInv => OverridesAccounted
  <2> SUFFICES ASSUME MergedInv, NEW r \in Runs, merged[r] # NoDoc
               PROVE  /\ DOMAIN merged[r].notes = DOMAIN extracted[r].notes
                      /\ warned[r] \cap DOMAIN merged[r].notes = {}
                      /\ Accounted(Descriptions(sidecar[r]), Descriptions(extracted[r].notes),
                                   Descriptions(merged[r].notes), Unused(r))
                      /\ Accounted(ValueLists(sidecar[r]), ValueLists(extracted[r].notes),
                                   ValueLists(merged[r].notes), Unused(r))
    BY DEF OverridesAccounted
  <2> DEFINE over == sidecar[r]
             old == extracted[r].notes
             doc == merged[r].notes
  <2>1. /\ extracted[r] \in Extracted /\ sidecar[r] \in Sidecars
        /\ merged[r] = Merge(extracted[r], sidecar[r])
        /\ warned[r] = Unmatched(extracted[r], sidecar[r])
    BY DEF MergedInv
  <2>2. MergedInto(old, over, doc, warned[r])
    BY <2>1, MergedNotes
  <2>3. DOMAIN over \ DOMAIN old \subseteq Unused(r)
    BY <2>2 DEF Unused, MergedInto
  <2>4. Accounted(Descriptions(over), Descriptions(old), Descriptions(doc), Unused(r))
    <3> DEFINE given == [k \in DOMAIN over |-> over[k].desc]
               before == [k \in DOMAIN old |-> old[k].desc]
               after == [k \in DOMAIN old |-> doc[k].desc]
    <3>1. \A k \in DOMAIN old :
             after[k] = IF k \in DOMAIN over /\ given[k] # "" THEN given[k] ELSE before[k]
      BY <2>2 DEF MergedInto
    <3>2. /\ Descriptions(over) = Items(DOMAIN over, given, "")
          /\ Descriptions(old) = Items(DOMAIN old, before, "")
          /\ Descriptions(doc) = Items(DOMAIN old, after, "")
      BY <2>2 DEF Descriptions, Items, MergedInto
    <3> HIDE DEF given, before, after, over, old, doc
    <3> QED BY <2>3, <3>1, <3>2, ItemsAccounted
  <2>5. Accounted(ValueLists(over), ValueLists(old), ValueLists(doc), Unused(r))
    <3> DEFINE given == [k \in DOMAIN over |-> over[k].values]
               before == [k \in DOMAIN old |-> old[k].values]
               after == [k \in DOMAIN old |-> doc[k].values]
               none == {}
    <3>1. \A k \in DOMAIN old :
             after[k] = IF k \in DOMAIN over /\ given[k] # none THEN given[k] ELSE before[k]
      BY <2>2 DEF MergedInto
    <3>2. /\ ValueLists(over) = Items(DOMAIN over, given, none)
          /\ ValueLists(old) = Items(DOMAIN old, before, none)
          /\ ValueLists(doc) = Items(DOMAIN old, after, none)
      BY <2>2 DEF ValueLists, Items, MergedInto
    <3> HIDE DEF given, before, after, none, over, old, doc
    <3> QED BY <2>3, <3>1, <3>2, ItemsAccounted
  <2> QED BY <2>2, <2>4, <2>5 DEF MergedInto
<1> QED BY InitIInv, Inductive, TypeInductive, <1>1, <1>2, <1>3, PTL DEF WorkspaceSpec

-----------------------------------------------------------------------------
\* init-claude next to the other commands: the configuration file.
Stages == {"read", "truncate", "write", "ok", "failed"}

Ours == [run |-> OurRun, other |-> {}]

\* While nobody else has written, the file is what run i read, then truncated,
\* then what i holds: the content it read, with its own entry.
UndisturbedInv(i) ==
    i \in undisturbed =>
        /\ readConfig[i] # Torn
        /\ initStage[i] # "read"
        /\ cfg[i] = WithServer(Unmarshal(readConfig[i]), "dbdense", Ours)
        /\ initStage[i] = "truncate" => config = readConfig[i]
        /\ initStage[i] = "write" => config = Torn
        /\ initStage[i] = "ok" => config = cfg[i]

ConfigInv ==
    /\ initStage \in [Inits -> Stages]
    /\ readConfig = [i \in Inits |-> readConfig[i]]
    /\ cfg = [i \in Inits |-> cfg[i]]
    /\ undisturbed \subseteq Inits
    /\ \A i \in Inits : UndisturbedInv(i)

-----------------------------------------------------------------------------
\* The entry is added, and every other server keeps its command.
LEMMA WithServerKeeps ==
  ASSUME NEW content, content # Torn,
         NEW new, new = WithServer(Unmarshal(content), "dbdense", Ours)
  PROVE  /\ new # Torn
         /\ "dbdense" \in DOMAIN new.servers /\ new.servers["dbdense"].run = OurRun
         /\ content # NoFile =>
               \A n \in DOMAIN content.servers \ {"dbdense"} :
                  n \in DOMAIN new.servers /\ new.servers[n].run = content.servers[n].run
<1> DEFINE old == Unmarshal(content)
           names == DOMAIN old.servers \cup {"dbdense"}
           servers == [n \in names |-> IF n = "dbdense" THEN Ours ELSE old.servers[n]]
<1>1. old = [servers |-> old.servers, other |-> old.other]
  BY DEF Unmarshal, Bare
<1>2. new = [servers |-> servers, other |-> old.other]
  BY <1>1 DEF WithServer
<1>3. DOMAIN new = {"servers", "other"} /\ DOMAIN Torn = {"torn"}
  BY <1>2 DEF Torn
<1>4. new.servers = servers
  BY <1>2
<1>5. content # NoFile =>
         /\ DOMAIN old.servers = DOMAIN content.servers
         /\ \A n \in DOMAIN content.servers : old.servers[n].run = content.servers[n].run
  BY DEF Unmarshal
<1> HIDE DEF old
<1>6. DOMAIN servers = names /\ servers["dbdense"].run = OurRun
      /\ \A n \in names \ {"dbdense"} : servers[n] = old.servers[n]
  BY DEF Ours
<1> QED BY <1>3, <1>4, <1>5, <1>6

LEMMA InitConfigInv == ConfigInit => ConfigInv
BY DEF ConfigInit, ConfigInv, UndisturbedInv, Stages

\* A step of one run writes for itself only.
LEMMA InitStepInv ==
  ASSUME ConfigInv, NEW i \in Inits, InitStep(i)
  PROVE  ConfigInv'
<1> USE DEF InitTo, Stages
<1>1. CASE ReadConfig(i)
  <2>1. UNCHANGED config /\ config # Torn /\ undisturbed' = undisturbed \cup {i}
    BY <1>1 DEF ReadConfig
  <2>2. /\ initStage' \in [Inits -> Stages] /\ initStage'[i] = "truncate"
        /\ readConfig' = [j \in Inits |-> readConfig'[j]] /\ readConfig'[i] = config
        /\ cfg' = [j \in Inits |-> cfg'[j]]
        /\ cfg'[i] = WithServer(Unmarshal(config), "dbdense", Ours)
        /\ \A j \in Inits \ {i} : /\ initStage'[j] = initStage[j] /\ cfg'[j] = cfg[j]
                                  /\ readConfig'[j] = readConfig[j]
    BY <1>1 DEF ReadConfig, ConfigInv, Ours
  <2>3. UndisturbedInv(i)'
    BY <2>1, <2>2 DEF UndisturbedInv
  <2>4. ASSUME NEW j \in Inits \ {i} PROVE UndisturbedInv(j)'
    BY <2>1, <2>2 DEF UndisturbedInv, ConfigInv
  <2> QED BY <2>1, <2>2, <2>3, <2>4 DEF ConfigInv
<1>2. CASE RefuseConfig(i) \/ FailInit(i)
  <2>1. UNCHANGED <<config, readConfig, cfg, undisturbed>>
    BY <1>2 DEF RefuseConfig, FailInit
  <2>2. /\ initStage' \in [Inits -> Stages] /\ initStage'[i] = "failed"
        /\ \A j \in Inits \ {i} : initStage'[j] = initStage[j]
    BY <1>2 DEF RefuseConfig, FailInit, ConfigInv
  <2>3. \A j \in Inits : UndisturbedInv(j)'
    BY <2>1, <2>2 DEF UndisturbedInv, ConfigInv
  <2> QED BY <2>1, <2>2, <2>3 DEF ConfigInv
<1>3. CASE TruncateConfig(i)
  <2>1. /\ UNCHANGED <<readConfig, cfg>> /\ config' = Torn /\ undisturbed' \subseteq {i}
        /\ undisturbed' \subseteq undisturbed /\ initStage[i] = "truncate"
    BY <1>3 DEF TruncateConfig
  <2>2. initStage' \in [Inits -> Stages] /\ initStage'[i] = "write"
    BY <1>3 DEF TruncateConfig, ConfigInv
  <2>3. \A j \in Inits : UndisturbedInv(j)'
    BY <2>1, <2>2 DEF UndisturbedInv, ConfigInv
  <2> QED BY <2>1, <2>2, <2>3 DEF ConfigInv
<1>4. CASE WriteConfig(i)
  <2>1. /\ UNCHANGED <<readConfig, cfg>> /\ undisturbed' \subseteq {i}
        /\ undisturbed' \subseteq undisturbed /\ initStage[i] = "write"
        /\ config' = cfg[i] \/ config # Torn
    BY <1>4 DEF WriteConfig
  <2>2. initStage' \in [Inits -> Stages] /\ initStage'[i] = "ok"
    BY <1>4 DEF WriteConfig, ConfigInv
  <2>3. \A j \in Inits : UndisturbedInv(j)'
    BY <2>1, <2>2 DEF UndisturbedInv, ConfigInv
  <2> QED BY <2>1, <2>2, <2>3 DEF ConfigInv
<1> QED BY <1>1, <1>2, <1>3, <1>4 DEF InitStep

LEMMA ConfigInductive == ConfigInv /\ [WorkspaceNext]_workspaceVars => ConfigInv'
<1> SUFFICES ASSUME ConfigInv, [WorkspaceNext]_workspaceVars PROVE ConfigInv'
  OBVIOUS
<1>1. CASE UNCHANGED configVars
  BY <1>1 DEF configVars, ConfigInv, UndisturbedInv
<1>2. CASE ForeignWrite
  BY <1>2 DEF ForeignWrite, ConfigInv, UndisturbedInv
<1> QED BY <1>1, <1>2, InitStepInv DEF WorkspaceNext, workspaceVars, ConfigNext

-----------------------------------------------------------------------------
\* A run of init-claude that nobody disturbed leaves dbdense registered, and every
\* other server it found under its name with its command.
THEOREM OthersKept == WorkspaceSpec => []ServersKept
<1>1. ConfigInv => ServersKept
  <2> SUFFICES ASSUME ConfigInv, NEW i \in Inits, Finished(i)
               PROVE  /\ config # Torn
                      /\ "dbdense" \in DOMAIN config.servers /\ config.servers["dbdense"].run = OurRun
                      /\ readConfig[i] # NoFile =>
                            \A n \in DOMAIN readConfig[i].servers \ {"dbdense"} :
                               /\ n \in DOMAIN config.servers
                               /\ config.servers[n].run = readConfig[i].servers[n].run
    BY DEF ServersKept
  <2>1. /\ readConfig[i] # Torn
        /\ config = WithServer(Unmarshal(readConfig[i]), "dbdense", Ours)
    BY DEF Finished, ConfigInv, UndisturbedInv
  <2> QED BY <2>1, WithServerKeeps
<1>2. WorkspaceInit => ConfigInv
  BY InitConfigInv DEF WorkspaceInit
<1> QED BY <1>1, <1>2, ConfigInductive, PTL DEF WorkspaceSpec
=============================================================================
