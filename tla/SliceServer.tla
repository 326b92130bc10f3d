----------------------------- MODULE SliceServer -----------------------------
(***************************************************************************)
(* The MCP server of internal/server/mcp.go during one stdio session: the  *)
(* slice and reset tools, run by a pool of workers that share the mutex mu *)
(* and the dedup map sent.  handleSliceTool takes mu twice and compiles in *)
(* between without it; handleResetTool replaces the map under mu.  Every   *)
(* response is written to stdout after the handler has released the lock.  *)
(*                                                                         *)
(* A list of names is abstracted to the set of its names (a name repeated  *)
(* in the list only repeats in the notes).  The empty set stands for every *)
(* argument the handler answers with an error: no arguments, no "tables",  *)
(* a value parseStringSlice rejects, an empty array.                       *)
(***************************************************************************)
EXTENDS Integers, Sequences, FiniteSets

CONSTANTS Slices,     \* the slice calls the client makes
          Resets,     \* the reset calls the client makes
          Names,      \* names a client may ask for
          Entities,   \* names of the export's entities
          Edges,      \* the export's foreign keys, as [from, to] records
          Requests,   \* the sets of names a slice call may carry
          Workers,    \* tool calls that run at the same time
          NoOne       \* mu is free

Calls == Slices \cup Resets

ASSUME CallsAssumption   == Slices \cap Resets = {} /\ NoOne \notin Calls
ASSUME ExportAssumption  == /\ Entities \subseteq Names
                            /\ Edges \subseteq [from : Entities, to : Entities]
ASSUME RequestAssumption == Requests \subseteq SUBSET Names
ASSUME WorkersAssumption == Workers \in Nat \ {0}

VARIABLES pc,         \* where each call's handler is
          tables,     \* tableNames of each slice call
          newTables,  \* names the first check found unsent
          skipped,    \* names the first check found sent
          mu,         \* holder of the handler's mutex
          sent,       \* the dedup map
          stdout,     \* responses written, in order
          marked,     \* history: calls that marked tables since the last reset
          seen        \* history: responses written before the client made the call

handler == <<mu, sent>>
locals  == <<tables, newTables, skipped>>
history == <<marked, seen>>
vars    == <<pc, handler, locals, stdout, history>>

-----------------------------------------------------------------------------
\* Faulty variants (this one and those below) are here for the mutation runs
\* only: keep an edge when one end is selected; mark every name asked for.
CompileSubsetLoose(names) ==
    [entities |-> names \cap Entities,
     edges    |-> {e \in Edges : e.from \in names \/ e.to \in names}]
ToMarkSentUnfiltered(r) == newTables[r]

\* CompileSubset over the immutable export: the named entities, and the edges
\* with both ends among the names.
CompileSubset(names) ==
    [entities |-> names \cap Entities,
     edges    |-> {e \in Edges : e.from \in names /\ e.to \in names}]

ToMarkSent(r) == CompileSubset(newTables[r]).entities
NotFound(r)   == newTables[r] \ ToMarkSent(r)

\* The response of a slice call; a call whose names were all sent, or whose
\* arguments were refused, carries no DDL.
SliceResponse(r) ==
    [call |-> r, ddl |-> ToMarkSent(r), fks |-> CompileSubset(newTables[r]).edges,
     notFound |-> NotFound(r), skipped |-> skipped[r]]

ResetResponse(q) ==
    [call |-> q, ddl |-> {}, fks |-> {}, notFound |-> {}, skipped |-> {}]

Responses == [call : Calls, ddl : SUBSET Entities, fks : SUBSET Edges,
              notFound : SUBSET Names, skipped : SUBSET Names]

-----------------------------------------------------------------------------
SlicePcs == {"idle", "called", "entry", "check", "unlock1", "compile", "relock",
             "mark", "unlock2", "respond", "done"}
ResetPcs == {"idle", "called", "entry", "clear", "unlock2", "respond", "done"}

\* Handlers a worker is executing.
Running == {c \in Calls : pc[c] \notin {"idle", "called", "done"}}

\* Handlers inside a critical section.
Critical == {c \in Calls : pc[c] \in {"check", "unlock1", "mark", "clear", "unlock2"}}

Goto(c, label) == pc' = [pc EXCEPT ![c] = label]

Lock(c)   == mu = NoOne /\ mu' = c
Unlock(c) == mu = c /\ mu' = NoOne

Init ==
    /\ pc = [c \in Calls |-> "idle"]
    /\ tables = [r \in Slices |-> {}]
    /\ newTables = [r \in Slices |-> {}]
    /\ skipped = [r \in Slices |-> {}]
    /\ mu = NoOne
    /\ sent = {}
    /\ stdout = << >>
    /\ marked = {}
    /\ seen = [c \in Calls |-> 0]

\* Faulty variants: marking at the first check; an early return that keeps the
\* lock; marking names that are not tables; a reset that clears nothing.
CheckAndMark(r) ==
    /\ pc[r] = "check"
    /\ newTables' = [newTables EXCEPT ![r] = tables[r] \ sent]
    /\ skipped' = [skipped EXCEPT ![r] = tables[r] \cap sent]
    /\ sent' = sent \cup (tables[r] \cap Entities)
    /\ marked' = marked \cup {r}
    /\ Goto(r, "unlock1")
    /\ UNCHANGED <<tables, mu, stdout, seen>>

UnlockAfterCheckLeaky(r) ==
    /\ pc[r] = "unlock1"
    /\ IF newTables[r] = {} THEN mu' = mu ELSE Unlock(r)
    /\ Goto(r, IF newTables[r] = {} THEN "respond" ELSE "compile")
    /\ UNCHANGED <<sent, locals, stdout, history>>

MarkRequested(r) ==
    /\ pc[r] = "mark"
    /\ sent' = sent \cup newTables[r]
    /\ marked' = marked \cup {r}
    /\ Goto(r, "unlock2")
    /\ UNCHANGED <<mu, locals, stdout, seen>>

ClearNothing(q) ==
    /\ pc[q] = "clear"
    /\ marked' = {}
    /\ Goto(q, "unlock2")
    /\ UNCHANGED <<handler, locals, stdout, seen>>

\* The client sends a call without waiting for the answers to earlier ones.
CallSlice(r) ==
    /\ pc[r] = "idle"
    /\ \E names \in Requests : tables' = [tables EXCEPT ![r] = names]
    /\ Goto(r, "called")
    /\ seen' = [seen EXCEPT ![r] = Len(stdout)]
    /\ UNCHANGED <<newTables, skipped, handler, stdout, marked>>

CallReset(q) ==
    /\ pc[q] = "idle"
    /\ Goto(q, "called")
    /\ seen' = [seen EXCEPT ![q] = Len(stdout)]
    /\ UNCHANGED <<locals, handler, stdout, marked>>

\* A free worker takes a queued call.
Dispatch(c) ==
    /\ pc[c] = "called"
    /\ Cardinality(Running) < Workers
    /\ Goto(c, "entry")
    /\ UNCHANGED <<locals, handler, stdout, history>>

\* Arguments that fail validation: answered without touching the session.
Reject(r) ==
    /\ pc[r] = "entry"
    /\ tables[r] = {}
    /\ Goto(r, "respond")
    /\ UNCHANGED <<locals, handler, stdout, history>>

\* The first h.mu.Lock of handleSliceTool.
LockForCheck(r) ==
    /\ pc[r] = "entry"
    /\ tables[r] # {}
    /\ Lock(r)
    /\ Goto(r, "check")
    /\ UNCHANGED <<sent, locals, stdout, history>>

\* The loop that splits the requested names by the dedup map.
Check(r) ==
    /\ pc[r] = "check"
    /\ newTables' = [newTables EXCEPT ![r] = tables[r] \ sent]
    /\ skipped' = [skipped EXCEPT ![r] = tables[r] \cap sent]
    /\ Goto(r, "unlock1")
    /\ UNCHANGED <<tables, handler, stdout, history>>

UnlockAfterCheck(r) ==
    /\ pc[r] = "unlock1"
    /\ Unlock(r)
    /\ Goto(r, IF newTables[r] = {} THEN "respond" ELSE "compile")
    /\ UNCHANGED <<sent, locals, stdout, history>>

\* CompileSubset and the split into toMarkSent and notFound, without the lock.
Compile(r) ==
    /\ pc[r] = "compile"
    /\ Goto(r, "relock")
    /\ UNCHANGED <<locals, handler, stdout, history>>

\* The second h.mu.Lock.
LockForMark(r) ==
    /\ pc[r] = "relock"
    /\ Lock(r)
    /\ Goto(r, "mark")
    /\ UNCHANGED <<sent, locals, stdout, history>>

Mark(r) ==
    /\ pc[r] = "mark"
    /\ sent' = sent \cup ToMarkSent(r)
    /\ marked' = marked \cup {r}
    /\ Goto(r, "unlock2")
    /\ UNCHANGED <<mu, locals, stdout, seen>>

LockForReset(q) ==
    /\ pc[q] = "entry"
    /\ Lock(q)
    /\ Goto(q, "clear")
    /\ UNCHANGED <<sent, locals, stdout, history>>

\* handleResetTool replaces the map by an empty one.
Clear(q) ==
    /\ pc[q] = "clear"
    /\ sent' = {}
    /\ marked' = {}
    /\ Goto(q, "unlock2")
    /\ UNCHANGED <<mu, locals, stdout, seen>>

UnlockAtEnd(c) ==
    /\ pc[c] = "unlock2"
    /\ Unlock(c)
    /\ Goto(c, "respond")
    /\ UNCHANGED <<sent, locals, stdout, history>>

\* The handler has returned; its worker writes the response.
Respond(c) ==
    /\ pc[c] = "respond"
    /\ stdout' = Append(stdout, IF c \in Slices THEN SliceResponse(c) ELSE ResetResponse(c))
    /\ Goto(c, "done")
    /\ UNCHANGED <<locals, handler, history>>

\* Every call has been answered and the client makes no other.
Quiet ==
    /\ \A c \in Calls : pc[c] = "done"
    /\ UNCHANGED vars

SliceStep(r) ==
    \/ Reject(r) \/ LockForCheck(r) \/ Check(r) \/ UnlockAfterCheck(r)
    \/ Compile(r) \/ LockForMark(r) \/ Mark(r)

ResetStep(q) == LockForReset(q) \/ Clear(q)

\* What the server does for call c.
Serve(c) ==
    \/ Dispatch(c)
    \/ c \in Slices /\ SliceStep(c)
    \/ c \in Resets /\ ResetStep(c)
    \/ UnlockAtEnd(c)
    \/ Respond(c)

Next ==
    \/ \E r \in Slices : CallSlice(r)
    \/ \E q \in Resets : CallReset(q)
    \/ \E c \in Calls : Serve(c)
    \/ Quiet

Spec == Init /\ [][Next]_vars

\* The Go scheduler runs every goroutine, and sync.Mutex hands a contended lock
\* to a waiter that has starved: no handler is passed over for ever.  Nothing
\* obliges the client to call.
FairSpec == Spec /\ \A c \in Calls : WF_vars(Serve(c))

-----------------------------------------------------------------------------
(***************************************************************************)
(* Properties.                                                             *)
(***************************************************************************)
TypeOK ==
    /\ pc \in [Calls -> SlicePcs \cup ResetPcs]
    /\ \A q \in Resets : pc[q] \in ResetPcs
    /\ \A r \in Slices : pc[r] \in SlicePcs
    /\ tables \in [Slices -> SUBSET Names]
    /\ newTables \in [Slices -> SUBSET Names]
    /\ skipped \in [Slices -> SUBSET Names]
    /\ mu \in Calls \cup {NoOne}
    /\ sent \subseteq Names
    /\ stdout \in Seq(Responses)
    /\ marked \subseteq Slices
    /\ seen \in [Calls -> Nat]

\* Two handlers are never between Lock and Unlock at the same time.  The Go
\* runtime aborts the process on a map write that overlaps another access.
MutexHeld == \A c \in Calls : c \in Critical <=> mu = c

\* The dedup map holds exactly the tables that the calls which marked since the
\* last reset have sent or are about to send: no name in it is without a
\* response that carries its DDL, and no reset leaves one behind.
SentIsCommitted == sent = UNION {ToMarkSent(r) : r \in marked}

\* Every call that marked tables is past its compile step and will write the
\* response that carries their DDL: nothing can make it fail in between.
MarkedResponds ==
    \A r \in marked : \/ pc[r] \in {"unlock2", "respond"}
                      \/ \E i \in 1..Len(stdout) : stdout[i] = SliceResponse(r)

\* A response names every requested table exactly once: as DDL, as not found,
\* or as skipped; and each foreign key in it joins two tables whose DDL is in
\* the same response.
ResponseCoversRequest ==
    \A i \in 1..Len(stdout) : stdout[i].call \in Slices =>
        LET m == stdout[i] IN
        /\ tables[m.call] = m.ddl \cup m.notFound \cup m.skipped
        /\ m.ddl \cap m.skipped = {}
        /\ m.notFound \cap Entities = {}
        /\ m.skipped \subseteq Entities
        /\ \A e \in m.fks : {e.from, e.to} \subseteq m.ddl

\* The refinement mapping: a name is open from the moment its call is made until
\* the check skips it or the marking step commits to the rest of the call.
Fate(r, t) ==
    IF t \notin tables[r] \/ pc[r] = "idle" THEN "none"
    ELSE IF t \in skipped[r] THEN "skipped"
    ELSE IF pc[r] \notin {"unlock2", "respond", "done"} THEN "asked"
    ELSE IF t \in Entities THEN "ddl" ELSE "missing"

fate     == [r \in Slices |-> [t \in Names |-> Fate(r, t)]]
current  == marked
answered == {r \in Slices : pc[r] = "done"}

Session == INSTANCE SliceSession WITH fate <- fate, current <- current, answered <- answered

\* The server keeps the promise of SliceSession.
SessionPromise == Session!SessionSpec

\* A call that is told a table is already in context is backed by another call
\* that has sent, or will send, the table's DDL.
SkippedIsBacked == Session!SkippedIsBacked

\* The client had the answer to a when it made b.
Before(a, b) ==
    pc[b] # "idle" /\ \E k \in 1..seen[b] : stdout[k].call = a

\* A skip is never older than the session the client sees: a call that is told t
\* is in context owes it to another call that committed to send t's DDL, that was
\* not made after the skip was answered, and that no reset separates from it - no
\* reset made with the first call's answer in hand and answered before the second
\* was made.  Overlapping calls may be ordered either way; those that do not
\* overlap are ordered as the client saw them.
SkipsRespectRealTime ==
    \A i \in 1..Len(stdout) : \A t \in stdout[i].skipped :
        \E r \in Slices \ {stdout[i].call} :
            /\ pc[r] \in {"unlock2", "respond", "done"}
            /\ t \in ToMarkSent(r)
            /\ ~Before(stdout[i].call, r)
            /\ \A q \in Resets : ~(Before(r, q) /\ Before(q, stdout[i].call))

\* Every call the client makes is answered: the two critical sections never
\* leave the lock held.
CallsAnswered == \A c \in Calls : pc[c] = "called" ~> pc[c] = "done"

\* When a call is told that a table is already in context, the DDL of the table
\* is in the transcript sooner or later.
SkippedArrives ==
    \A r \in Slices, t \in Names :
        (pc[r] = "done" /\ t \in skipped[r])
            ~> \E i \in 1..Len(stdout) : t \in stdout[i].ddl

-----------------------------------------------------------------------------
(***************************************************************************)
(* What the reset answer says, and a concurrent slice call breaks.         *)
(***************************************************************************)
\* "All tables will be re-sent on next slice call": a call made after the
\* client has the answer to a reset is told that a table is in context only
\* when a response carrying its DDL came after that answer or is on its way.
ResetResends ==
    \A k, i \in 1..Len(stdout) :
        (/\ stdout[k].call \in Resets
         /\ stdout[i].call \in Slices
         /\ k <= seen[stdout[i].call]) =>
        \A t \in stdout[i].skipped :
            \/ \E j \in (k + 1)..Len(stdout) : t \in stdout[j].ddl
            \/ \E r \in Slices : pc[r] \in {"unlock2", "respond"} /\ t \in ToMarkSent(r)
=============================================================================
