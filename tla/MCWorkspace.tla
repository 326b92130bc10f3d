----------------------------- MODULE MCWorkspace -----------------------------
(***************************************************************************)
(* Two exports that overlap or follow each other, one of them shorter than *)
(* the file that is there, one load, and a configuration with a server     *)
(* that has settings of its own.                                           *)
(***************************************************************************)
EXTENDS Workspace, TLC

Note(d, v) == [desc |-> d, values |-> v]

users      == <<"users", "">>
usersEmail == <<"users", "email">>
usersAge   == <<"users", "age">>
usersRole  == <<"users", "role">>
ghosts     == <<"ghosts", "">>
ghostsName == <<"ghosts", "name">>

Described   == users :> Note("old", {}) @@ usersEmail :> Note("old", {"a"})
                 @@ usersRole :> Note("old", {"a"})
MCPrevious  == [size |-> 2, strict |-> TRUE, notes |-> << >>]
MCExtracted == {[size |-> 1, strict |-> TRUE, notes |-> Described],
                [size |-> 2, strict |-> TRUE, notes |-> Described],
                [size |-> 3, strict |-> FALSE, notes |-> << >>]}
MCSidecars  == {<< >>,
                users :> Note("", {}) @@ usersEmail :> Note("new", {})
                  @@ usersRole :> Note("", {"b"})
                  @@ usersAge :> Note("new", {"b"})
                  @@ ghosts :> Note("new", {}) @@ ghostsName :> Note("new", {})}

Tool == [run |-> "tool", other |-> {"env"}]
MCFirstConfigs ==
    {NoFile, Torn, [servers |-> "tool" :> Tool @@ "dbdense" :> [run |-> "older", other |-> {}],
                     other |-> {"theme"}]}
MCForeign == [run |-> "foreign", other |-> {"env"}]

\* Exports are interchangeable, and so are runs of init-claude.
WorkspaceSymmetry == Permutations(Runs) \cup Permutations(Inits)
=============================================================================
