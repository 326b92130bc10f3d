\* Two exports, one load, init-claude and a foreign writer.
SPECIFICATION WorkspaceSpec
SYMMETRY WorkspaceSymmetry
CONSTANTS
    Runs = {r1, r2}
    Loads = {l1}
    Inits = {i1}
    Extracted <- MCExtracted
    Sidecars <- MCSidecars
    Previous <- MCPrevious
    MaxSize = 2
    NoDoc = NoDoc
    FirstConfigs <- MCFirstConfigs
    ForeignEntry <- MCForeign
    OurRun = "dbdense serve"
INVARIANTS
    WorkspaceTypeOK
    LoadedIsWhole
    SuccessIsServed
    OverridesAccounted
    ServersKept
PROPERTIES
    ExportPromise
