---------------------------- MODULE AtomicExport ----------------------------
(***************************************************************************)
(* What exports promise the commands that load their file, without blocks, *)
(* offsets or the steps of a write.  An export prepares its document,      *)
(* takes the old one out of sight and puts its own there, in one step; it  *)
(* may break off at any time.  A load is served the document that is there *)
(* at that moment, or it is refused, and then there is none or one that    *)
(* may not be served.  Nothing is promised of the file once exports have   *)
(* run into each other, until one of them opens it alone.                  *)
(***************************************************************************)
EXTENDS Naturals

CONSTANTS Runs,       \* exports
          Loads,      \* loads of the file
          Documents,  \* what exports may write: [size, strict, ...]
          Previous,   \* what is there at the start
          MaxSize,
          NoDoc

VARIABLES phase,      \* of an export
          prepared,   \* its document
          shown,      \* the document in the file: a set with at most one
          mixed,      \* exports have run into each other
          answer,     \* of a load
          got         \* the document it was served: a set as well

avars == <<phase, prepared, shown, mixed, answer, got>>

\* The exports that have the file open.
Opened == {r \in Runs : phase[r] \in {"open", "published"}}

-----------------------------------------------------------------------------
AtomicInit ==
    /\ phase = [r \in Runs |-> "prepare"]
    /\ prepared = [r \in Runs |-> NoDoc]
    /\ shown = IF Previous.size = 0 THEN {} ELSE {Previous}
    /\ mixed = FALSE
    /\ answer = [l \in Loads |-> "waiting"]
    /\ got = [l \in Loads |-> {}]

Prepare(r) ==
    /\ phase[r] = "prepare"
    /\ \E doc \in Documents : prepared' = [prepared EXCEPT ![r] = doc]
    /\ phase' = [phase EXCEPT ![r] = "ready"]
    /\ UNCHANGED <<shown, mixed, answer, got>>

\* The old document goes only when there is a new one to replace it.
Open(r) ==
    /\ phase[r] = "ready"
    /\ phase' = [phase EXCEPT ![r] = "open"]
    /\ shown' = {}
    /\ mixed' = (Opened # {})
    /\ UNCHANGED <<prepared, answer, got>>

Publish(r) ==
    /\ phase[r] = "open"
    /\ phase' = [phase EXCEPT ![r] = "published"]
    /\ shown' = IF mixed THEN {} ELSE {prepared[r]}
    /\ UNCHANGED <<prepared, mixed, answer, got>>

\* An export succeeds only after its document is there, all of it.
Succeed(r) ==
    /\ phase[r] = "published"
    /\ phase' = [phase EXCEPT ![r] = "ok"]
    /\ UNCHANGED <<prepared, shown, mixed, answer, got>>

\* What an export that breaks off has published stays; it publishes no part.
BreakOff(r) ==
    /\ phase[r] \notin {"ok", "failed"}
    /\ phase' = [phase EXCEPT ![r] = "failed"]
    /\ UNCHANGED <<prepared, shown, mixed, answer, got>>

Serve(l) ==
    /\ answer[l] = "waiting"
    /\ \/ mixed /\ UNCHANGED got
       \/ \E doc \in shown : doc.strict /\ got' = [got EXCEPT ![l] = {doc}]
    /\ answer' = [answer EXCEPT ![l] = "served"]
    /\ UNCHANGED <<phase, prepared, shown, mixed>>

Refuse(l) ==
    /\ answer[l] = "waiting"
    /\ mixed \/ \A doc \in shown : ~doc.strict \/ doc.size > MaxSize
    /\ answer' = [answer EXCEPT ![l] = "refused"]
    /\ UNCHANGED <<phase, prepared, shown, mixed, got>>

AtomicNext ==
    \/ \E r \in Runs : Prepare(r) \/ Open(r) \/ Publish(r) \/ Succeed(r) \/ BreakOff(r)
    \/ \E l \in Loads : Serve(l) \/ Refuse(l)

AtomicSpec == AtomicInit /\ [][AtomicNext]_avars

-----------------------------------------------------------------------------
\* The file is without a document only while an export writes it, or after one broke
\* off doing so (or has always been): what the code risks by truncating in place.
GoneOnlyByExport ==
    shown = {} /\ ~mixed => \/ Previous.size = 0
                            \/ \E r \in Runs : phase[r] \in {"open", "failed"}
=============================================================================
