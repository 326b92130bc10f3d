---------------------------- MODULE SliceSession ----------------------------
(***************************************************************************)
(* What one MCP session of "dbdense serve" promises about table DDL,       *)
(* without locks, phases or scheduling.  Every name of every slice call    *)
(* gets one fate: its DDL is sent, the name is reported missing from the   *)
(* schema, or the call is told the table is already in the client's        *)
(* context.  The last answer may only be given for a table whose DDL some  *)
(* call committed to after the latest reset.  Two overlapping calls may    *)
(* both send the DDL of one table: the promise leaves that open, as the    *)
(* comment on handleSliceTool does.                                        *)
(***************************************************************************)
CONSTANTS Slices,   \* the slice calls of the session
          Names,    \* names a client may ask for
          Entities  \* the names the export holds

VARIABLES fate,     \* fate[r][t]: what call r is told of name t
          current,  \* the calls whose DDL counts as known since the last reset
          answered  \* the calls whose response has been written

svars == <<fate, current, answered>>

Fates == {"none", "asked", "ddl", "missing", "skipped"}

SessionTypeOK ==
    /\ fate \in [Slices -> [Names -> Fates]]
    /\ current \subseteq Slices
    /\ answered \subseteq Slices

\* The tables the session takes the client to have.
Known == {t \in Entities : \E r \in current : fate[r][t] = "ddl"}

Open(r) == {t \in Names : fate[r][t] = "asked"}

-----------------------------------------------------------------------------
SessionInit ==
    /\ fate = [r \in Slices |-> [t \in Names |-> "none"]]
    /\ current = {}
    /\ answered = {}

Ask(r) ==
    /\ r \notin answered
    /\ \A t \in Names : fate[r][t] = "none"
    /\ \E names \in SUBSET Names :
          fate' = [fate EXCEPT ![r] =
                      [t \in Names |-> IF t \in names THEN "asked" ELSE "none"]]
    /\ UNCHANGED <<current, answered>>

\* A name is skipped only when its table is known.
Skip(r) ==
    /\ \E names \in SUBSET (Open(r) \cap Known) :
          fate' = [fate EXCEPT ![r] =
                      [t \in Names |-> IF t \in names THEN "skipped" ELSE fate[r][t]]]
    /\ UNCHANGED <<current, answered>>

\* The call commits to the DDL of every name still open that is a table, and
\* to reporting the others.
Commit(r) ==
    /\ r \notin answered
    /\ r \notin current
    /\ Open(r) # {}
    /\ fate' = [fate EXCEPT ![r] =
                   [t \in Names |-> IF t \notin Open(r) THEN fate[r][t]
                                    ELSE IF t \in Entities THEN "ddl" ELSE "missing"]]
    /\ current' = current \cup {r}
    /\ UNCHANGED answered

Answer(r) ==
    /\ r \notin answered
    /\ Open(r) = {}
    /\ answered' = answered \cup {r}
    /\ UNCHANGED <<fate, current>>

Forget ==
    /\ current' = {}
    /\ UNCHANGED <<fate, answered>>

SessionNext ==
    \/ \E r \in Slices : Ask(r) \/ Skip(r) \/ Commit(r) \/ Answer(r)
    \/ Forget

SessionSpec == SessionInit /\ [][SessionNext]_svars

-----------------------------------------------------------------------------
\* A call is told "already in your context" only about a table whose DDL
\* another call of the same session has committed to sending: the skipped note
\* of handleSliceTool never hides a table nobody sends.
SkippedIsBacked ==
    \A r \in Slices, t \in Names :
        fate[r][t] = "skipped" =>
            \E s \in Slices \ {r} : fate[s][t] = "ddl"

\* Names that are not tables are never sent nor skipped: toMarkSent holds only
\* names that CompileSubset returned.
NoPhantomTable ==
    \A r \in Slices, t \in Names :
        fate[r][t] \in {"ddl", "skipped"} => t \in Entities

\* A step never takes back an answer the client has been given.
FatesAreFinal ==
    [][\A r \in Slices, t \in Names :
          fate[r][t] \in {"ddl", "missing", "skipped"} => fate'[r][t] = fate[r][t]]_svars
=============================================================================
