\* init-claude alone.
SPECIFICATION WorkspaceSpec
CONSTANTS
    Runs = {}
    Loads = {}
    Inits = {i1}
    Extracted <- MCExtracted
    Sidecars <- MCSidecars
    Previous <- MCPrevious
    MaxSize = 2
    NoDoc = NoDoc
    FirstConfigs <- MCFirstConfigs
    ForeignEntry <- MCForeign
    OurRun = "dbdense serve"
INVARIANTS
    OtherServersPreserved
