\* A slice call that overlaps a reset.
SPECIFICATION Spec
CONSTANTS
    Slices = {r1, r2}
    Resets = {q1}
    NoOne = NoOne
    orders = orders
    users = users
    ghost = ghost
    Names <- MCNames
    Entities <- MCEntities
    Edges <- MCEdges
    Requests <- MCRequests
    Workers = 2
INVARIANTS
    ResetResends
