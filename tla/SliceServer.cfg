\* Two slice calls and a reset, all in flight at once, on fair workers.
SPECIFICATION FairSpec
CONSTANTS
    Slices = {r1, r2}
    Resets = {q1}
    NoOne = NoOne
    orders = orders
    users = users
    ghost = ghost
    Names <- MCNames
    Entities <- MCEntities
    Edges <- MCEdges
    Requests <- MCRequests
    Workers = 3
PROPERTIES
    SessionPromise
    CallsAnswered
    SkippedArrives
INVARIANTS
    TypeOK
    SentIsCommitted
    MarkedResponds
    ResponseCoversRequest
    SkippedIsBacked
    SkipsRespectRealTime
