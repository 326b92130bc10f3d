------------------------------ MODULE Workspace ------------------------------
(***************************************************************************)
(* A directory in which the commands of dbdense meet: exports write the    *)
(* output file, init-claude writes the MCP configuration, and a client     *)
(* that finds dbdense in the configuration starts dbdense serve, which     *)
(* loads the file once.  (dbdense compile loads it in the same way.)       *)
(***************************************************************************)
EXTENDS ExportCommand, InitClaude

workspaceVars == <<exportVars, configVars>>

WorkspaceInit == ExportInit /\ ConfigInit

\* A client starts the registered server.
Registered ==
    /\ config \notin {Torn, NoFile}
    /\ "dbdense" \in DOMAIN config.servers

Serve(l) == Registered /\ Stat(l)

WorkspaceNext ==
    \/ (\E r \in Runs : ExportStep(r)) /\ UNCHANGED configVars
    \/ (\E l \in Loads : Serve(l) \/ Read(l)) /\ UNCHANGED configVars
    \/ ConfigNext /\ UNCHANGED exportVars
    \/ UNCHANGED workspaceVars

WorkspaceSpec == WorkspaceInit /\ [][WorkspaceNext]_workspaceVars

-----------------------------------------------------------------------------
(* The exports and the loads as those of AtomicExport.                     *)
Merged == {Merge(doc, over) : doc \in Extracted, over \in Sidecars}

Phase(r) ==
    CASE runStage[r] \in {"extract", "sidecar"} -> "prepare"
      [] runStage[r] = "create" -> "ready"
      [] runStage[r] = "write" -> "open"
      [] runStage[r] = "close" -> "published"
      [] OTHER -> runStage[r]

\* The document a content is the whole of.
Whole(content) == {doc \in Merged \cup {Previous} : content # << >> /\ content = Blocks(doc)}

phase  == [r \in Runs |-> Phase(r)]
shown  == IF overlapped THEN {} ELSE Whole(out)
answer == [l \in Loads |-> CASE loadStage[l] = "ok" -> "served"
                             [] loadStage[l] \in {"refused", "too large"} -> "refused"
                             [] OTHER -> "waiting"]
got    == [l \in Loads |-> IF loadStage[l] = "ok" /\ ~loaded[l].overlapped
                          THEN Whole(loaded[l].content) ELSE {}]

Atomic == INSTANCE AtomicExport WITH Documents <- Merged, prepared <- merged, mixed <- overlapped,
                                     phase <- phase, shown <- shown, answer <- answer, got <- got

\* The exports keep the promise of AtomicExport: a failed extraction, a malformed
\* sidecar or a kill before the file is created leaves the previous export in place;
\* after that a load is served the whole document that is there at that moment, never
\* a part of one, and is refused only for lack of one that may be served.
ExportPromise == Atomic!AtomicSpec

-----------------------------------------------------------------------------
WorkspaceTypeOK ==
    /\ ExportTypeOK
    /\ initStage \in [Inits -> {"read", "truncate", "write", "ok", "failed"}]
    /\ undisturbed \subseteq Inits
=============================================================================
