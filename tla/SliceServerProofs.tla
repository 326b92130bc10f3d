-------------------------- MODULE SliceServerProofs --------------------------
(***************************************************************************)
(* The session invariants of SliceServer, its refinement of SliceSession   *)
(* and the order of skips in real time, for any export, any number of      *)
(* calls and of workers.                                                   *)
(***************************************************************************)
EXTENDS SliceServer, TLAPS

\* What a slice handler's local variables hold at each point of its run.
PhaseInv ==
    \A r \in Slices :
        /\ pc[r] = "idle" => tables[r] = {}
        /\ pc[r] \in {"idle", "called", "entry", "check"} =>
              newTables[r] = {} /\ skipped[r] = {}
        /\ pc[r] \notin {"idle", "called", "entry", "check"} =>
              tables[r] = newTables[r] \cup skipped[r]
        /\ newTables[r] \cap skipped[r] = {}
        /\ skipped[r] \subseteq Entities
        /\ pc[r] \in {"check", "unlock1", "compile", "relock", "mark", "unlock2"} =>
              tables[r] # {}
        /\ pc[r] \in {"compile", "relock", "mark", "unlock2"} => newTables[r] # {}
        /\ r \in marked => pc[r] \in {"unlock2", "respond", "done"}

\* What has been written for a slice call is the response of that call.
WrittenInv ==
    \A i \in 1..Len(stdout) : stdout[i].call \in Slices =>
        /\ pc[stdout[i].call] = "done"
        /\ stdout[i] = SliceResponse(stdout[i].call)

IInv == TypeOK /\ MutexHeld /\ PhaseInv /\ SentIsCommitted /\ WrittenInv

\* A slice call that is done has its response in the transcript.
Written(r)  == \E i \in 1..Len(stdout) : stdout[i] = SliceResponse(r)
AnsweredInv == \A r \in Slices : pc[r] = "done" => Written(r)

-----------------------------------------------------------------------------
LEMMA InitIInv == Init => IInv
<1> SUFFICES ASSUME Init PROVE IInv
  OBVIOUS
<1> USE CallsAssumption DEF Init, Calls
<1>1. TypeOK
  BY DEF TypeOK, SlicePcs, ResetPcs
<1>2. MutexHeld
  BY DEF MutexHeld, Critical
<1>3. PhaseInv /\ SentIsCommitted /\ WrittenInv
  BY DEF PhaseInv, SentIsCommitted, WrittenInv
<1> QED BY <1>1, <1>2, <1>3 DEF IInv

\* The state of the server has its type after every step.
LEMMA TypeStep ==
  ASSUME TypeOK, [Next]_vars
  PROVE  TypeOK'
<1> USE ExportAssumption, RequestAssumption, CallsAssumption
    DEF TypeOK, SlicePcs, ResetPcs, Calls, Goto, Lock, Unlock, handler, locals, history
<1>1. ASSUME NEW r \in Slices, CallSlice(r) PROVE TypeOK'
  BY <1>1 DEF CallSlice
<1>2. ASSUME NEW q \in Resets, CallReset(q) PROVE TypeOK'
  BY <1>2 DEF CallReset
<1>3. ASSUME NEW c \in Calls, Dispatch(c) PROVE TypeOK'
  BY <1>3 DEF Dispatch
<1>4. ASSUME NEW r \in Slices, SliceStep(r) PROVE TypeOK'
  <2>1. CASE Reject(r)
    BY <2>1 DEF Reject
  <2>2. CASE LockForCheck(r)
    BY <2>2 DEF LockForCheck
  <2>3. CASE Check(r)
    BY <2>3 DEF Check
  <2>4. CASE UnlockAfterCheck(r)
    BY <2>4 DEF UnlockAfterCheck
  <2>5. CASE Compile(r)
    BY <2>5 DEF Compile
  <2>6. CASE LockForMark(r)
    BY <2>6 DEF LockForMark
  <2>7. CASE Mark(r)
    BY <2>7 DEF Mark, ToMarkSent, CompileSubset
  <2> QED BY <1>4, <2>1, <2>2, <2>3, <2>4, <2>5, <2>6, <2>7 DEF SliceStep
<1>5. ASSUME NEW q \in Resets, ResetStep(q) PROVE TypeOK'
  BY <1>5 DEF ResetStep, LockForReset, Clear
<1>6. ASSUME NEW c \in Calls, UnlockAtEnd(c) PROVE TypeOK'
  BY <1>6 DEF UnlockAtEnd
<1>7. ASSUME NEW c \in Calls, Respond(c) PROVE TypeOK'
  <2>1. (IF c \in Slices THEN SliceResponse(c) ELSE ResetResponse(c)) \in Responses
    BY DEF SliceResponse, ResetResponse, Responses, ToMarkSent, NotFound, CompileSubset
  <2>2. stdout' \in Seq(Responses)
    BY <1>7, <2>1 DEF Respond
  <2> QED BY <1>7, <2>2 DEF Respond
<1>8. CASE UNCHANGED vars
  BY <1>8 DEF vars
<1> QED BY <1>1, <1>2, <1>3, <1>4, <1>5, <1>6, <1>7, <1>8 DEF Next, Serve, Quiet

\* A handler enters a critical section only by taking mu, and leaves it only by
\* releasing mu.
LEMMA MutexStep ==
  ASSUME TypeOK, MutexHeld, [Next]_vars
  PROVE  MutexHeld'
<1> USE CallsAssumption
    DEF TypeOK, MutexHeld, Critical, Calls, Goto, Lock, Unlock, handler, locals, history
<1>1. ASSUME NEW r \in Slices, CallSlice(r) PROVE MutexHeld'
  BY <1>1 DEF CallSlice
<1>2. ASSUME NEW q \in Resets, CallReset(q) PROVE MutexHeld'
  BY <1>2 DEF CallReset
<1>3. ASSUME NEW c \in Calls, Dispatch(c) PROVE MutexHeld'
  BY <1>3 DEF Dispatch
<1>4. ASSUME NEW r \in Slices, SliceStep(r) PROVE MutexHeld'
  BY <1>4 DEF SliceStep, Reject, LockForCheck, Check, UnlockAfterCheck, Compile,
              LockForMark, Mark
<1>5. ASSUME NEW q \in Resets, ResetStep(q) PROVE MutexHeld'
  BY <1>5 DEF ResetStep, LockForReset, Clear
<1>6. ASSUME NEW c \in Calls, UnlockAtEnd(c) PROVE MutexHeld'
  BY <1>6 DEF UnlockAtEnd
<1>7. ASSUME NEW c \in Calls, Respond(c) PROVE MutexHeld'
  BY <1>7 DEF Respond
<1>8. CASE UNCHANGED vars
  BY <1>8 DEF vars
<1> QED BY <1>1, <1>2, <1>3, <1>4, <1>5, <1>6, <1>7, <1>8 DEF Next, Serve, Quiet

\* The dedup map is what the calls marked since the last reset carry.
LEMMA SentStep ==
  ASSUME TypeOK, PhaseInv, SentIsCommitted, [Next]_vars
  PROVE  SentIsCommitted'
<1> USE CallsAssumption
    DEF TypeOK, SentIsCommitted, ToMarkSent, CompileSubset, Goto, Calls, handler, locals, history
<1>1. ASSUME NEW r \in Slices, CallSlice(r) PROVE SentIsCommitted'
  BY <1>1 DEF CallSlice
<1>2. ASSUME NEW q \in Resets, CallReset(q) PROVE SentIsCommitted'
  BY <1>2 DEF CallReset
<1>3. ASSUME NEW c \in Calls, Dispatch(c) PROVE SentIsCommitted'
  BY <1>3 DEF Dispatch
<1>4. ASSUME NEW r \in Slices, Check(r) PROVE SentIsCommitted'
  <2>1. r \notin marked
    BY <1>4 DEF Check, PhaseInv
  <2> QED BY <1>4, <2>1 DEF Check
<1>5. ASSUME NEW r \in Slices, Mark(r) PROVE SentIsCommitted'
  BY <1>5 DEF Mark
<1>6. ASSUME NEW r \in Slices,
             Reject(r) \/ LockForCheck(r) \/ UnlockAfterCheck(r) \/ Compile(r) \/ LockForMark(r)
      PROVE SentIsCommitted'
  BY <1>6 DEF Reject, LockForCheck, UnlockAfterCheck, Compile, LockForMark
<1>7. ASSUME NEW q \in Resets, ResetStep(q) PROVE SentIsCommitted'
  BY <1>7 DEF ResetStep, LockForReset, Clear
<1>8. ASSUME NEW c \in Calls, UnlockAtEnd(c) \/ Respond(c) PROVE SentIsCommitted'
  BY <1>8 DEF UnlockAtEnd, Respond
<1>9. CASE UNCHANGED vars
  BY <1>9 DEF vars
<1> QED BY <1>1, <1>2, <1>3, <1>4, <1>5, <1>6, <1>7, <1>8, <1>9 DEF Next, Serve, SliceStep, Quiet

\* The local variables keep describing the phase of their handler.
LEMMA PhaseStep ==
  ASSUME TypeOK, PhaseInv, SentIsCommitted, [Next]_vars
  PROVE  PhaseInv'
<1> USE CallsAssumption DEF TypeOK, PhaseInv, Goto, Calls, handler, locals, history
<1>1. ASSUME NEW r \in Slices, CallSlice(r) PROVE PhaseInv'
  BY <1>1 DEF CallSlice
<1>2. ASSUME NEW q \in Resets, CallReset(q) PROVE PhaseInv'
  BY <1>2 DEF CallReset
<1>3. ASSUME NEW c \in Calls, Dispatch(c) PROVE PhaseInv'
  BY <1>3 DEF Dispatch
<1>4. ASSUME NEW r \in Slices, SliceStep(r) PROVE PhaseInv'
  <2>1. CASE Reject(r)
    BY <2>1 DEF Reject
  <2>2. CASE LockForCheck(r)
    BY <2>2 DEF LockForCheck
  <2>3. CASE Check(r)
    <3>1. sent \subseteq Entities
      BY DEF SentIsCommitted, ToMarkSent, CompileSubset
    <3> QED BY <2>3, <3>1 DEF Check
  <2>4. CASE UnlockAfterCheck(r)
    BY <2>4 DEF UnlockAfterCheck
  <2>5. CASE Compile(r)
    BY <2>5 DEF Compile
  <2>6. CASE LockForMark(r)
    BY <2>6 DEF LockForMark
  <2>7. CASE Mark(r)
    BY <2>7 DEF Mark
  <2> QED BY <1>4, <2>1, <2>2, <2>3, <2>4, <2>5, <2>6, <2>7 DEF SliceStep
<1>5. ASSUME NEW q \in Resets, ResetStep(q) PROVE PhaseInv'
  BY <1>5 DEF ResetStep, LockForReset, Clear
<1>6. ASSUME NEW c \in Calls, UnlockAtEnd(c) PROVE PhaseInv'
  BY <1>6 DEF UnlockAtEnd
<1>7. ASSUME NEW c \in Calls, Respond(c) PROVE PhaseInv'
  BY <1>7 DEF Respond
<1>8. CASE UNCHANGED vars
  BY <1>8 DEF vars
<1> QED BY <1>1, <1>2, <1>3, <1>4, <1>5, <1>6, <1>7, <1>8 DEF Next, Serve, Quiet

\* A response, once written, stays what its call computed.
LEMMA WrittenStep ==
  ASSUME TypeOK, PhaseInv, WrittenInv, [Next]_vars
  PROVE  WrittenInv'
<1> DEFINE Frozen == \A r \in Slices : pc[r] = "done" =>
                        /\ pc'[r] = "done"
                        /\ newTables'[r] = newTables[r]
                        /\ skipped'[r] = skipped[r]
           Same(r) == SliceResponse(r)' = SliceResponse(r)
<1>1. Frozen => \A r \in Slices : pc[r] = "done" => pc'[r] = "done" /\ Same(r)
  BY DEF SliceResponse, ToMarkSent, NotFound, CompileSubset
<1>2. Frozen /\ UNCHANGED stdout => WrittenInv'
  BY <1>1 DEF WrittenInv
<1>3. ASSUME NEW r \in Slices, CallSlice(r) \/ SliceStep(r)
      PROVE  Frozen /\ UNCHANGED stdout
  BY <1>3 DEF TypeOK, Calls, CallSlice, SliceStep, Reject, LockForCheck, Check, UnlockAfterCheck,
              Compile, LockForMark, Mark, Goto, handler, locals, history
<1>4. ASSUME NEW q \in Resets, CallReset(q) \/ ResetStep(q)
      PROVE  Frozen /\ UNCHANGED stdout
  BY <1>4, CallsAssumption
     DEF TypeOK, Calls, CallReset, ResetStep, LockForReset, Clear, Goto, handler, locals, history
<1>5. ASSUME NEW c \in Calls, Dispatch(c) \/ UnlockAtEnd(c)
      PROVE  Frozen /\ UNCHANGED stdout
  BY <1>5 DEF TypeOK, Calls, Dispatch, UnlockAtEnd, Goto, handler, locals, history
<1>6. ASSUME NEW c \in Calls, Respond(c)
      PROVE  WrittenInv'
  <2> DEFINE m == IF c \in Slices THEN SliceResponse(c) ELSE ResetResponse(c)
  <2>1. m \in Responses
    BY ExportAssumption
    DEF TypeOK, Calls, SliceResponse, ResetResponse, Responses, ToMarkSent, NotFound, CompileSubset
  <2>2. Frozen
    BY <1>6 DEF TypeOK, Calls, Respond, Goto, locals
  <2>3. m.call = c /\ (c \in Slices => m = SliceResponse(c) /\ Same(c) /\ pc'[c] = "done")
    BY <1>6 DEF TypeOK, Calls, Respond, Goto, locals,
                ResetResponse, SliceResponse, ToMarkSent, NotFound, CompileSubset
  <2>4. /\ Len(stdout') = Len(stdout) + 1
        /\ stdout'[Len(stdout) + 1] = m
        /\ \A i \in 1..Len(stdout) : stdout'[i] = stdout[i]
        /\ Len(stdout) \in Nat
    <3>1. stdout' = Append(stdout, m) /\ stdout \in Seq(Responses)
      BY <1>6 DEF Respond, TypeOK
    <3> HIDE DEF m
    <3> QED BY <2>1, <3>1
  <2> HIDE DEF m, Frozen, Same
  <2>5. ASSUME NEW i \in 1..Len(stdout'), NEW r \in Slices, stdout'[i].call = r
        PROVE  pc'[r] = "done" /\ stdout'[i] = SliceResponse(r)'
    <3>1. CASE i \in 1..Len(stdout)
      <4>1. stdout'[i] = stdout[i]
        BY <3>1, <2>4
      <4>2. pc[r] = "done" /\ stdout[i] = SliceResponse(r)
        BY <3>1, <4>1, <2>5 DEF WrittenInv
      <4> QED BY <4>1, <4>2, <2>2, <2>5, <1>1 DEF Same
    <3>2. CASE i = Len(stdout) + 1
      BY <3>2, <2>3, <2>4, <2>5 DEF Same
    <3> QED BY <3>1, <3>2, <2>4
  <2> QED BY <2>5 DEF WrittenInv
<1>7. CASE UNCHANGED vars
  BY <1>7 DEF vars, handler, locals, history, WrittenInv, SliceResponse, ToMarkSent,
              NotFound, CompileSubset
<1> HIDE DEF Frozen
<1> QED BY <1>2, <1>3, <1>4, <1>5, <1>6, <1>7 DEF Next, Serve, Quiet

\* A handler is done only when its worker has written the response.
LEMMA AnsweredStep ==
  ASSUME TypeOK, AnsweredInv, [Next]_vars
  PROVE  AnsweredInv'
<1> DEFINE Kept == \A r \in Slices : pc'[r] = "done" =>
                        /\ pc[r] = "done"
                        /\ SliceResponse(r)' = SliceResponse(r)
<1>1. Kept /\ UNCHANGED stdout => AnsweredInv'
  BY DEF AnsweredInv, Written
<1> USE DEF TypeOK, Calls, Goto, handler, locals, history,
            SliceResponse, ToMarkSent, NotFound, CompileSubset
<1>2. ASSUME NEW r \in Slices, CallSlice(r) \/ SliceStep(r)
      PROVE  Kept /\ UNCHANGED stdout
  BY <1>2 DEF CallSlice, SliceStep, Reject, LockForCheck, Check, UnlockAfterCheck,
              Compile, LockForMark, Mark
<1>3. ASSUME NEW q \in Resets, CallReset(q) \/ ResetStep(q)
      PROVE  Kept /\ UNCHANGED stdout
  BY <1>3, CallsAssumption DEF CallReset, ResetStep, LockForReset, Clear
<1>4. ASSUME NEW c \in Calls, Dispatch(c) \/ UnlockAtEnd(c)
      PROVE  Kept /\ UNCHANGED stdout
  BY <1>4 DEF Dispatch, UnlockAtEnd
<1>5. ASSUME NEW c \in Calls, Respond(c)
      PROVE  AnsweredInv'
  <2> DEFINE m == IF c \in Slices THEN SliceResponse(c) ELSE ResetResponse(c)
  <2>1. m \in Responses
    BY ExportAssumption DEF ResetResponse, Responses
  <2>2. \A r \in Slices : /\ SliceResponse(r)' = SliceResponse(r)
                          /\ pc'[r] = "done" => pc[r] = "done" \/ (r = c /\ m = SliceResponse(r))
    BY <1>5 DEF Respond
  <2>3. stdout' = Append(stdout, m) /\ stdout \in Seq(Responses)
    BY <1>5 DEF Respond
  <2> HIDE DEF m
  <2>4. /\ Len(stdout') = Len(stdout) + 1
        /\ stdout'[Len(stdout) + 1] = m
        /\ \A i \in 1..Len(stdout) : stdout'[i] = stdout[i]
        /\ Len(stdout) \in Nat
    BY <2>1, <2>3
  <2> HIDE DEF SliceResponse, TypeOK
  <2>5. ASSUME NEW r \in Slices, pc'[r] = "done"
        PROVE  \E i \in 1..Len(stdout') : stdout'[i] = SliceResponse(r)'
    <3>1. CASE pc[r] = "done"
      <4>1. PICK i \in 1..Len(stdout) : stdout[i] = SliceResponse(r)
        BY <3>1 DEF AnsweredInv, Written
      <4> QED BY <4>1, <2>2, <2>4
    <3>2. CASE r = c /\ m = SliceResponse(r)
      BY <3>2, <2>2, <2>4
    <3> QED BY <3>1, <3>2, <2>2, <2>5
  <2> QED BY <2>5 DEF AnsweredInv, Written
<1>6. CASE UNCHANGED vars
  BY <1>6 DEF vars, AnsweredInv, Written
<1> HIDE DEF Kept
<1> QED BY <1>1, <1>2, <1>3, <1>4, <1>5, <1>6 DEF Next, Serve, Quiet

LEMMA IInvInductive == IInv /\ [Next]_vars => IInv'
BY TypeStep, MutexStep, PhaseStep, SentStep, WrittenStep DEF IInv

-----------------------------------------------------------------------------
\* The state of the server has its type in every reachable state.
THEOREM TypeCorrect == Spec => []TypeOK
<1>1. IInv => TypeOK
  BY DEF IInv
<1> QED BY InitIInv, IInvInductive, <1>1, PTL DEF Spec

\* No two handlers are between Lock and Unlock at the same time.
THEOREM MutualExclusion == Spec => []MutexHeld
<1>1. IInv => MutexHeld
  BY DEF IInv
<1> QED BY InitIInv, IInvInductive, <1>1, PTL DEF Spec

\* The dedup map holds exactly what the calls marked since the last reset send.
THEOREM SentCommitted == Spec => []SentIsCommitted
<1>1. IInv => SentIsCommitted
  BY DEF IInv
<1> QED BY InitIInv, IInvInductive, <1>1, PTL DEF Spec

\* Every call that marked tables has written, or will write without a step that
\* can fail, the response that carries their DDL.
THEOREM MarkedRespond == Spec => []MarkedResponds
<1>1. Init => AnsweredInv
  BY DEF Init, Calls, AnsweredInv
<1>2. IInv /\ AnsweredInv /\ [Next]_vars => AnsweredInv'
  BY AnsweredStep DEF IInv
<1>3. IInv /\ AnsweredInv => MarkedResponds
  <2> SUFFICES ASSUME IInv, AnsweredInv, NEW r \in marked
               PROVE  \/ pc[r] \in {"unlock2", "respond"}
                      \/ \E i \in 1..Len(stdout) : stdout[i] = SliceResponse(r)
    BY DEF MarkedResponds
  <2>1. r \in Slices
    BY DEF IInv, TypeOK
  <2>2. pc[r] \in {"unlock2", "respond", "done"}
    BY <2>1 DEF IInv, PhaseInv
  <2> QED BY <2>1, <2>2 DEF AnsweredInv, Written
<1> QED BY InitIInv, IInvInductive, <1>1, <1>2, <1>3, PTL DEF Spec

\* Every response accounts for every requested table, and its foreign keys join
\* tables it defines.
THEOREM ResponsesCover == Spec => []ResponseCoversRequest
<1>1. ASSUME IInv PROVE ResponseCoversRequest
  <2> SUFFICES ASSUME NEW i \in 1..Len(stdout), NEW r \in Slices, stdout[i].call = r
               PROVE  LET m == stdout[i] IN
                      /\ tables[r] = m.ddl \cup m.notFound \cup m.skipped
                      /\ m.ddl \cap m.skipped = {}
                      /\ m.notFound \cap Entities = {}
                      /\ m.skipped \subseteq Entities
                      /\ \A e \in m.fks : {e.from, e.to} \subseteq m.ddl
    BY DEF ResponseCoversRequest
  <2>1. pc[r] = "done" /\ stdout[i] = SliceResponse(r)
    BY <1>1 DEF IInv, WrittenInv
  <2>2. /\ tables[r] = newTables[r] \cup skipped[r]
        /\ newTables[r] \cap skipped[r] = {}
        /\ skipped[r] \subseteq Entities
    BY <1>1, <2>1 DEF IInv, PhaseInv
  <2> QED BY <2>1, <2>2, ExportAssumption
          DEF SliceResponse, ToMarkSent, NotFound, CompileSubset
<1> QED BY InitIInv, IInvInductive, <1>1, PTL DEF Spec

-----------------------------------------------------------------------------
\* Every table in the dedup map is known to the abstract session.
LEMMA SentIsKnown ==
  ASSUME IInv
  PROVE  sent \subseteq Session!Known
<1> SUFFICES ASSUME NEW t \in sent PROVE t \in Session!Known
  OBVIOUS
<1>1. PICK s \in marked : t \in ToMarkSent(s)
  BY DEF IInv, SentIsCommitted
<1>2. s \in Slices /\ t \in Entities /\ t \in newTables[s] /\ t \in Names
  BY <1>1, ExportAssumption DEF IInv, TypeOK, ToMarkSent, CompileSubset
<1>3. t \in tables[s] /\ t \notin skipped[s] /\ pc[s] \in {"unlock2", "respond", "done"}
  BY <1>1, <1>2 DEF IInv, PhaseInv
<1>4. Fate(s, t) = "ddl"
  BY <1>2, <1>3 DEF Fate
<1> QED BY <1>1, <1>2, <1>4 DEF Session!Known, fate, current

LEMMA RefinementInit == Init => Session!SessionInit
<1> SUFFICES ASSUME Init PROVE Session!SessionInit
  OBVIOUS
<1>1. \A r \in Slices, t \in Names : Fate(r, t) = "none"
  BY DEF Init, Fate
<1>2. {r \in Slices : pc[r] = "done"} = {}
  BY DEF Init, Calls
<1> QED BY <1>1, <1>2 DEF Init, Session!SessionInit, fate, current, answered

\* Every step of the server is a step of the abstract session or changes nothing
\* the abstract session shows.
LEMMA RefinementStep ==
  ASSUME IInv, [Next]_vars
  PROVE  [Session!SessionNext]_(Session!svars)
<1> DEFINE F == [r \in Slices |-> [t \in Names |-> Fate(r, t)]]
           D == {r \in Slices : pc[r] = "done"}
           Stutter == F' = F /\ marked' = marked /\ D' = D
           Rows(r) == \A s \in Slices \ {r} : \A t \in Names : Fate(s, t)' = Fate(s, t)
<1>s. Stutter => UNCHANGED Session!svars
  BY DEF Session!svars, fate, current, answered
<1>f. ASSUME NEW r \in Slices, Rows(r), NEW G, G = [t \in Names |-> Fate(r, t)']
      PROVE  F' = [F EXCEPT ![r] = G]
  <2>1. F' = [s \in Slices |-> [t \in Names |-> Fate(s, t)']]
    OBVIOUS
  <2>2. ASSUME NEW s \in Slices
        PROVE  [t \in Names |-> Fate(s, t)'] = [F EXCEPT ![r] = G][s]
    BY <1>f
  <2> QED BY <2>1, <2>2
<1> USE CallsAssumption, ExportAssumption DEF fate, current, answered
<1>1. ASSUME NEW r \in Slices, CallSlice(r)
      PROVE  Session!Ask(r)
  <2> USE <1>1 DEF CallSlice, IInv, TypeOK, PhaseInv, Goto, Calls, handler
  <2>1. Rows(r)
    BY DEF Fate
  <2>2. tables'[r] \in SUBSET Names
    BY RequestAssumption
  <2>3. /\ \A t \in Names : Fate(r, t) = "none"
        /\ \A t \in Names : Fate(r, t)' = IF t \in tables'[r] THEN "asked" ELSE "none"
    BY DEF Fate
  <2>4. r \notin D /\ D' = D /\ marked' = marked
    OBVIOUS
  <2> DEFINE G == [t \in Names |-> IF t \in tables'[r] THEN "asked" ELSE "none"]
  <2>5. G = [t \in Names |-> Fate(r, t)']
    BY <2>3
  <2>6. F' = [F EXCEPT ![r] = G]
    BY <2>1, <2>5, <1>f
  <2> QED BY <2>2, <2>3, <2>4, <2>6 DEF Session!Ask
<1>2. ASSUME NEW c \in Calls, NEW label, Goto(c, label), UNCHANGED <<tables, skipped, marked>>,
             c \in Slices =>
                 /\ pc[c] # "done" /\ label # "done"
                 /\ \A t \in Names : Fate(c, t)' = Fate(c, t)
      PROVE  Stutter
  <2>1. \A r \in Slices, t \in Names : Fate(r, t)' = Fate(r, t)
    BY <1>2 DEF Goto, IInv, TypeOK, Calls, Fate
  <2>2. D' = D
    BY <1>2 DEF Goto, IInv, TypeOK, Calls
  <2> QED BY <1>2, <2>1, <2>2
<1>3. ASSUME NEW q \in Resets, CallReset(q) \/ LockForReset(q)
      PROVE  Stutter
  <2>1. q \in Calls /\ q \notin Slices
    BY DEF Calls
  <2>2. PICK label : Goto(q, label) /\ UNCHANGED <<tables, skipped, marked>>
    BY <1>3 DEF CallReset, LockForReset, locals, history
  <2> QED BY <2>1, <2>2, <1>2
<1>4. ASSUME NEW c \in Calls, Dispatch(c) \/ UnlockAtEnd(c)
      PROVE  Stutter
  <2> USE DEF Dispatch, UnlockAtEnd, locals, history
  <2>1. PICK label : /\ Goto(c, label) /\ UNCHANGED <<tables, skipped, marked>>
                     /\ \/ pc[c] = "called" /\ label = "entry"
                        \/ pc[c] = "unlock2" /\ label = "respond"
    BY <1>4
  <2>2. c \in Slices => \A t \in Names : Fate(c, t)' = Fate(c, t)
    BY <2>1 DEF Fate, Goto, IInv, TypeOK, Calls
  <2> QED BY <2>1, <2>2, <1>2
<1>5. ASSUME NEW r \in Slices,
             Reject(r) \/ LockForCheck(r) \/ UnlockAfterCheck(r) \/ Compile(r) \/ LockForMark(r)
      PROVE  Stutter
  <2>1. PICK label : /\ Goto(r, label) /\ UNCHANGED <<tables, skipped, marked>>
                     /\ \/ /\ pc[r] \in {"entry", "unlock1", "compile", "relock"}
                           /\ label \in {"check", "compile", "relock", "mark"}
                        \/ /\ pc[r] \in {"entry", "unlock1"} /\ label = "respond"
                           /\ tables[r] \subseteq skipped[r]
    BY <1>5 DEF Reject, LockForCheck, UnlockAfterCheck, Compile, LockForMark, locals, history,
                IInv, PhaseInv
  <2>2. \A t \in Names : Fate(r, t)' = Fate(r, t)
    BY <2>1 DEF Fate, Goto, IInv, TypeOK, Calls
  <2> QED BY <2>1, <2>2, <1>2 DEF Calls
<1>6. ASSUME NEW r \in Slices, Check(r)
      PROVE  Session!Skip(r)
  <2> DEFINE names == tables[r] \cap sent
             G == [t \in Names |-> IF t \in names THEN "skipped" ELSE F[r][t]]
  <2>1. /\ Goto(r, "unlock1") /\ UNCHANGED <<tables, marked>> /\ pc[r] = "check"
        /\ skipped' = [skipped EXCEPT ![r] = names] /\ skipped[r] = {}
    BY <1>6 DEF Check, history, IInv, PhaseInv
  <2> USE DEF Goto, IInv, TypeOK, Calls
  <2>2. Rows(r)
    BY <2>1 DEF Fate
  <2>3. \A t \in Names : Fate(r, t) = IF t \in tables[r] THEN "asked" ELSE "none"
    BY <2>1 DEF Fate
  <2>4. \A t \in Names : Fate(r, t)' = IF t \in names THEN "skipped" ELSE Fate(r, t)
    BY <2>1, <2>3 DEF Fate
  <2>5. names \subseteq Session!Open(r) \cap Session!Known
    BY <2>3, SentIsKnown DEF Session!Open
  <2>6. G = [t \in Names |-> Fate(r, t)']
    BY <2>4
  <2>7. F' = [F EXCEPT ![r] = G]
    BY <2>2, <2>6, <1>f
  <2>8. D' = D /\ marked' = marked
    BY <2>1
  <2> QED BY <2>5, <2>7, <2>8 DEF Session!Skip
<1>7. ASSUME NEW r \in Slices, Mark(r)
      PROVE  Session!Commit(r)
  <2> DEFINE G == [t \in Names |-> IF t \notin Session!Open(r) THEN F[r][t]
                                   ELSE IF t \in Entities THEN "ddl" ELSE "missing"]
  <2>1. /\ Goto(r, "unlock2") /\ UNCHANGED <<tables, skipped>> /\ pc[r] = "mark"
        /\ marked' = marked \cup {r} /\ r \notin marked
        /\ newTables[r] # {} /\ newTables[r] \cap skipped[r] = {}
        /\ newTables[r] \subseteq tables[r]
    BY <1>7 DEF Mark, locals, IInv, PhaseInv
  <2> USE DEF Goto, IInv, TypeOK, Calls
  <2>2. Rows(r)
    BY <2>1 DEF Fate
  <2>3. \A t \in Names : Fate(r, t) = IF t \notin tables[r] THEN "none"
                                      ELSE IF t \in skipped[r] THEN "skipped" ELSE "asked"
    BY <2>1 DEF Fate
  <2>4. \A t \in Names : Fate(r, t)' = IF t \notin tables[r] THEN "none"
                                       ELSE IF t \in skipped[r] THEN "skipped"
                                       ELSE IF t \in Entities THEN "ddl" ELSE "missing"
    BY <2>1 DEF Fate
  <2>5. Session!Open(r) = {t \in Names : t \in tables[r] /\ t \notin skipped[r]}
    BY <2>3 DEF Session!Open
  <2>6. Session!Open(r) # {}
    BY <2>1, <2>5
  <2>7. G = [t \in Names |-> Fate(r, t)']
    BY <2>3, <2>4, <2>5
  <2>8. F' = [F EXCEPT ![r] = G]
    BY <2>2, <2>7, <1>f
  <2>9. D' = D /\ r \notin D
    BY <2>1
  <2> QED BY <2>1, <2>6, <2>8, <2>9 DEF Session!Commit
<1>8. ASSUME NEW q \in Resets, Clear(q)
      PROVE  Session!Forget
  <2>1. /\ Goto(q, "unlock2") /\ UNCHANGED <<tables, skipped>> /\ marked' = {} /\ q \notin Slices
    BY <1>8 DEF Clear, locals
  <2>2. \A r \in Slices, t \in Names : Fate(r, t)' = Fate(r, t)
    BY <2>1 DEF Goto, IInv, TypeOK, Calls, Fate
  <2>3. D' = D
    BY <2>1 DEF Goto, IInv, TypeOK, Calls
  <2> QED BY <2>1, <2>2, <2>3 DEF Session!Forget
<1>9. ASSUME NEW c \in Calls, Respond(c)
      PROVE  Stutter \/ (c \in Slices /\ Session!Answer(c))
  <2>1. /\ Goto(c, "done") /\ UNCHANGED <<tables, skipped, marked>> /\ pc[c] = "respond"
    BY <1>9 DEF Respond, locals, history
  <2>2. \A r \in Slices, t \in Names : Fate(r, t)' = Fate(r, t)
    BY <2>1 DEF Goto, IInv, TypeOK, Calls, Fate
  <2>3. CASE c \notin Slices
    BY <2>1, <2>3, <1>2
  <2>4. CASE c \in Slices
    <3>1. c \notin D /\ D' = D \cup {c}
      BY <2>1, <2>4 DEF Goto, IInv, TypeOK, Calls
    <3>2. \A t \in Names : Fate(c, t) # "asked"
      BY <2>1 DEF Fate
    <3>3. Session!Open(c) = {}
      BY <2>4, <3>2 DEF Session!Open
    <3> QED BY <2>1, <2>2, <2>4, <3>1, <3>3 DEF Session!Answer
  <2> QED BY <2>3, <2>4
<1>10. UNCHANGED vars => Stutter
  BY DEF vars, locals, history, Fate
<1> HIDE DEF Stutter
<1>11. CASE Next
  BY <1>11, <1>s, <1>1, <1>3, <1>4, <1>5, <1>6, <1>7, <1>8, <1>9, <1>10
     DEF Next, Serve, SliceStep, ResetStep, Quiet, Session!SessionNext
<1> QED BY <1>10, <1>11, <1>s

\* The server implements the abstract session: whatever the interleaving of the
\* slice and reset handlers, the client sees a session the promise allows.
THEOREM ServerKeepsPromise == Spec => SessionPromise
<1>1. IInv /\ [Next]_vars => [Session!SessionNext]_(Session!svars)
  BY RefinementStep
<1> QED BY InitIInv, IInvInductive, RefinementInit, <1>1, PTL
        DEF Spec, SessionPromise, Session!SessionSpec

-----------------------------------------------------------------------------
(* What the abstract session promises, whatever server implements it.      *)
SessionInv == Session!SessionTypeOK /\ Session!SkippedIsBacked /\ Session!NoPhantomTable

LEMMA SessionInitInv == Session!SessionInit => SessionInv
BY DEF Session!SessionInit, SessionInv, Session!SessionTypeOK, Session!SkippedIsBacked,
       Session!NoPhantomTable, Session!Fates

\* Every action of the session keeps its invariant.
LEMMA SessionInductive ==
  ASSUME SessionInv, [Session!SessionNext]_(Session!svars)
  PROVE  SessionInv'
<1> USE DEF SessionInv, Session!SessionTypeOK, Session!SkippedIsBacked,
            Session!NoPhantomTable, Session!Open, Session!Known, Session!Fates
<1>1. ASSUME NEW r \in Slices, Session!Ask(r)
      PROVE  SessionInv'
  <2>1. PICK names \in SUBSET Names :
          fate' = [fate EXCEPT ![r] =
                      [t \in Names |-> IF t \in names THEN "asked" ELSE "none"]]
    BY <1>1 DEF Session!Ask
  <2>2. UNCHANGED <<current, answered>>
    BY <1>1 DEF Session!Ask
  <2>3. Session!SessionTypeOK'
    BY <2>1, <2>2
  <2>4. \A t \in Names : fate[r][t] = "none"
    BY <1>1 DEF Session!Ask
  <2>5. Session!SkippedIsBacked' /\ Session!NoPhantomTable'
    BY <2>1, <2>4
  <2> QED BY <2>3, <2>5
<1>2. ASSUME NEW r \in Slices, Session!Skip(r)
      PROVE  SessionInv'
  <2>1. PICK names \in SUBSET (Session!Open(r) \cap Session!Known) :
          fate' = [fate EXCEPT ![r] =
                      [t \in Names |-> IF t \in names THEN "skipped" ELSE fate[r][t]]]
    BY <1>2 DEF Session!Skip
  <2>2. UNCHANGED <<current, answered>>
    BY <1>2 DEF Session!Skip
  <2> QED BY <2>1, <2>2
<1>3. ASSUME NEW r \in Slices, Session!Commit(r)
      PROVE  SessionInv'
  BY <1>3 DEF Session!Commit
<1>4. ASSUME NEW r \in Slices, Session!Answer(r)
      PROVE  SessionInv'
  BY <1>4 DEF Session!Answer
<1>5. CASE Session!Forget
  BY <1>5 DEF Session!Forget
<1>6. CASE UNCHANGED Session!svars
  BY <1>6 DEF Session!svars
<1> QED BY <1>1, <1>2, <1>3, <1>4, <1>5, <1>6 DEF Session!SessionNext

\* In every session no call is told that a table is in context unless another
\* call has committed to sending it, and no name outside the export is sent or
\* skipped.
THEOREM SessionKeepsPromise ==
  Session!SessionSpec => [](Session!SkippedIsBacked /\ Session!NoPhantomTable)
<1>1. SessionInv => Session!SkippedIsBacked /\ Session!NoPhantomTable
  BY DEF SessionInv
<1> QED BY <1>1, SessionInitInv, SessionInductive, PTL DEF Session!SessionSpec

\* No step of the session changes a final fate.
THEOREM SessionFatesAreFinal == Session!SessionSpec => Session!FatesAreFinal
<1>1. ASSUME SessionInv, Session!SessionNext, NEW r \in Slices, NEW t \in Names,
             fate[r][t] \in {"ddl", "missing", "skipped"}
      PROVE  fate'[r][t] = fate[r][t]
  BY <1>1 DEF SessionInv, Session!SessionTypeOK, Session!SessionNext, Session!Ask, Session!Skip,
              Session!Commit, Session!Answer, Session!Forget, Session!Open, Session!Known,
              Session!Fates
<1>2. SessionInv /\ [Session!SessionNext]_(Session!svars) =>
        [\A r \in Slices, t \in Names :
            fate[r][t] \in {"ddl", "missing", "skipped"} => fate'[r][t] = fate[r][t]]_(Session!svars)
  BY <1>1
<1> QED BY <1>2, SessionInitInv, SessionInductive, PTL
        DEF Session!SessionSpec, Session!FatesAreFinal

\* A call is told that a table is already in context only if another call has
\* sent the table's DDL or has committed to sending it.
THEOREM SkippedBacked == Spec => []SkippedIsBacked
<1>1. Spec => Session!SessionSpec
  BY ServerKeepsPromise DEF SessionPromise
<1> QED BY <1>1, SessionKeepsPromise, PTL DEF SkippedIsBacked

-----------------------------------------------------------------------------
\* The order of a session as the client sees it.  Before(a, b) is fixed once b has
\* been called, and a call that is before another is done; both follow from what has
\* been written staying there.
\* A call that has marked its tables.
Past(c) == pc[c] \in {"unlock2", "respond", "done"}

\* What the client had seen is in the transcript, whose calls are done; a reset's
\* answer skips nothing.
TranscriptInv ==
    /\ \A c \in Calls : seen[c] <= Len(stdout)
    /\ \A i \in 1..Len(stdout) : pc[stdout[i].call] = "done"
    /\ \A i \in 1..Len(stdout) : stdout[i].call \in Resets => stdout[i].skipped = {}

\* No reset that has cleared the map was made with the answer to a call still
\* counted as marked in hand.
FreshInv == \A m \in marked, q \in Resets : Past(q) => ~Before(m, q)

\* Call m backs the skip of t by call r.
Backs(m, r, t) ==
    /\ m # r
    /\ Past(m) /\ t \in ToMarkSent(m)
    /\ ~Before(r, m)
    /\ \A q \in Resets : ~(Before(m, q) /\ Before(q, r))

OrderInv == \A r \in Slices : \A t \in skipped[r] : \E m \in Slices : Backs(m, r, t)

-----------------------------------------------------------------------------
\* The response a worker writes.
Answer(c) == IF c \in Slices THEN SliceResponse(c) ELSE ResetResponse(c)

\* Responding appends one response, of a call that is done by it.
LEMMA RespondAppends ==
  ASSUME TypeOK, NEW c \in Calls, Respond(c)
  PROVE  /\ Len(stdout') = Len(stdout) + 1
         /\ \A i \in 1..Len(stdout) : stdout'[i] = stdout[i]
         /\ stdout'[Len(stdout) + 1].call = c
         /\ c \in Resets => stdout'[Len(stdout) + 1].skipped = {}
         /\ pc' = [pc EXCEPT ![c] = "done"]
<1>1. Answer(c) \in Responses
  BY ExportAssumption DEF TypeOK, Calls, Answer, SliceResponse, ResetResponse, Responses,
                          ToMarkSent, NotFound, CompileSubset
<1>2. stdout' = Append(stdout, Answer(c)) /\ stdout \in Seq(Responses)
  BY DEF Respond, TypeOK, Answer
<1>3. Answer(c).call = c /\ (c \in Resets => Answer(c).skipped = {})
  BY CallsAssumption DEF Answer, SliceResponse, ResetResponse
<1>4. pc' = [pc EXCEPT ![c] = "done"]
  BY DEF Respond, Goto
<1> HIDE DEF Answer
<1> QED BY <1>1, <1>2, <1>3, <1>4

\* The transcript only grows, by responses of calls that are done.
LEMMA TranscriptGrows ==
  ASSUME TypeOK, [Next]_vars
  PROVE  /\ Len(stdout) \in Nat /\ Len(stdout') \in Nat /\ Len(stdout) <= Len(stdout')
         /\ \A i \in 1..Len(stdout) : stdout'[i] = stdout[i]
         /\ \A i \in 1..Len(stdout') : i <= Len(stdout) \/
               /\ pc'[stdout'[i].call] = "done"
               /\ stdout'[i].call \in Resets => stdout'[i].skipped = {}
<1>0. Len(stdout) \in Nat
  BY DEF TypeOK
<1>1. ASSUME NEW c \in Calls, Respond(c)
      PROVE  \A i \in 1..Len(stdout') : i <= Len(stdout) \/
                /\ pc'[stdout'[i].call] = "done"
                /\ stdout'[i].call \in Resets => stdout'[i].skipped = {}
  BY <1>0, <1>1, RespondAppends DEF TypeOK
<1>2. CASE \E c \in Calls : Respond(c)
  BY <1>0, <1>1, <1>2, RespondAppends
<1>3. CASE stdout' = stdout
  BY <1>0, <1>3
<1>4. stdout' = stdout \/ \E c \in Calls : Respond(c)
  BY DEF Next, CallSlice, CallReset, Serve, Dispatch, SliceStep, Reject, LockForCheck, Check,
         UnlockAfterCheck, Compile, LockForMark, Mark, ResetStep, LockForReset, Clear,
         UnlockAtEnd, Quiet, vars
<1> QED BY <1>2, <1>3, <1>4

\* A call is made once, at the end of the transcript; what has passed Mark stays
\* past it, with the tables it sends.
Progress ==
    /\ \A c \in Calls : pc[c] = "idle" =>
          \/ pc'[c] = "idle" /\ seen'[c] = seen[c]
          \/ pc'[c] # "idle" /\ seen'[c] = Len(stdout) /\ stdout' = stdout
    /\ \A c \in Calls : pc[c] # "idle" => pc'[c] # "idle" /\ seen'[c] = seen[c]
    /\ \A c \in Calls : pc[c] = "done" => pc'[c] = "done"
    /\ \A r \in Slices : Past(r) => Past(r)' /\ newTables'[r] = newTables[r]
    /\ \A r \in Slices : skipped'[r] = skipped[r] \/ Check(r)
    /\ \A r \in marked' : r \in marked \/ pc[r] = "mark"
    /\ \A q \in Resets : Past(q)' => Past(q) \/ marked' = {}

LEMMA CallsProgress ==
  ASSUME TypeOK, [Next]_vars
  PROVE  Progress
<1> USE CallsAssumption
    DEF TypeOK, Progress, Past, SlicePcs, ResetPcs, Calls, Goto, Lock, Unlock,
        handler, locals, history
<1>1. ASSUME NEW r \in Slices, CallSlice(r) PROVE Progress
  BY <1>1 DEF CallSlice
<1>2. ASSUME NEW q \in Resets, CallReset(q) PROVE Progress
  BY <1>2 DEF CallReset
<1>3. ASSUME NEW c \in Calls, Dispatch(c) PROVE Progress
  BY <1>3 DEF Dispatch
<1>4. ASSUME NEW r \in Slices, SliceStep(r) PROVE Progress
  <2>1. CASE Reject(r)
    BY <2>1 DEF Reject
  <2>2. CASE LockForCheck(r)
    BY <2>2 DEF LockForCheck
  <2>3. CASE Check(r)
    BY <2>3 DEF Check
  <2>4. CASE UnlockAfterCheck(r)
    BY <2>4 DEF UnlockAfterCheck
  <2>5. CASE Compile(r)
    BY <2>5 DEF Compile
  <2>6. CASE LockForMark(r)
    BY <2>6 DEF LockForMark
  <2>7. CASE Mark(r)
    BY <2>7 DEF Mark
  <2> QED BY <1>4, <2>1, <2>2, <2>3, <2>4, <2>5, <2>6, <2>7 DEF SliceStep
<1>5. ASSUME NEW q \in Resets, ResetStep(q) PROVE Progress
  BY <1>5 DEF ResetStep, LockForReset, Clear
<1>6. ASSUME NEW c \in Calls, UnlockAtEnd(c) PROVE Progress
  BY <1>6 DEF UnlockAtEnd
<1>7. ASSUME NEW c \in Calls, Respond(c) PROVE Progress
  BY <1>7 DEF Respond
<1>8. CASE UNCHANGED vars
  BY <1>8 DEF vars
<1> QED BY <1>1, <1>2, <1>3, <1>4, <1>5, <1>6, <1>7, <1>8 DEF Next, Serve, Quiet

LEMMA WrittenCalls ==
  ASSUME TypeOK, NEW i \in 1..Len(stdout)
  PROVE  stdout[i].call \in Calls
<1>1. stdout[i] \in Responses
  BY DEF TypeOK
<1> QED BY <1>1 DEF Responses

LEMMA TranscriptStep ==
  ASSUME TypeOK, TranscriptInv, [Next]_vars
  PROVE  TranscriptInv'
<1>1. Progress
  BY CallsProgress
<1>2. \A c \in Calls : seen[c] \in Nat
  BY DEF TypeOK
<1>3. \A c \in Calls : seen'[c] <= Len(stdout')
  BY <1>1, <1>2, TranscriptGrows DEF TranscriptInv, Progress
<1>4. \A i \in 1..Len(stdout) : stdout[i].call \in Calls
  BY WrittenCalls
<1>5. ASSUME NEW i \in 1..Len(stdout')
      PROVE  /\ pc'[stdout'[i].call] = "done"
             /\ stdout'[i].call \in Resets => stdout'[i].skipped = {}
  BY <1>1, <1>4, TranscriptGrows DEF TranscriptInv, Progress
<1> QED BY <1>3, <1>5 DEF TranscriptInv

\* Whether a call is before another is settled when the other is made.
LEMMA BeforeSettled ==
  ASSUME TypeOK, TranscriptInv, [Next]_vars, NEW a \in Calls, NEW b \in Calls
  PROVE  /\ pc[b] # "idle" => (Before(a, b)' <=> Before(a, b))
         /\ Before(a, b) => pc[a] = "done" /\ pc[b] # "idle"
<1>1. Progress
  BY CallsProgress
<1>2. seen[b] \in Nat /\ seen[b] <= Len(stdout) /\ Len(stdout) \in Nat
  BY DEF TypeOK, TranscriptInv
<1>3. \A k \in 1..seen[b] : stdout'[k] = stdout[k] /\ pc[stdout[k].call] = "done"
  BY <1>2, TranscriptGrows DEF TranscriptInv
<1> QED BY <1>1, <1>2, <1>3 DEF Before, Progress

LEMMA FreshStep ==
  ASSUME TypeOK, TranscriptInv, FreshInv, [Next]_vars
  PROVE  FreshInv'
<1> SUFFICES ASSUME NEW m \in marked', NEW q \in Resets, Past(q)', Before(m, q)'
             PROVE  FALSE
  BY DEF FreshInv
<1>1. Progress
  BY CallsProgress
<1>2. m \in Slices /\ m \in Calls /\ q \in Calls
  BY TypeStep DEF TypeOK, Calls
<1>3. Past(q) /\ pc[q] # "idle"
  BY <1>1 DEF Progress, Past
<1>4. Before(m, q) /\ pc[m] = "done"
  BY <1>2, <1>3, BeforeSettled
<1> QED BY <1>1, <1>3, <1>4 DEF FreshInv, Progress

LEMMA OrderStep ==
  ASSUME TypeOK, PhaseInv, SentIsCommitted, TranscriptInv, FreshInv, OrderInv, [Next]_vars
  PROVE  OrderInv'
<1> SUFFICES ASSUME NEW r \in Slices, NEW t \in skipped'[r]
             PROVE  \E m \in Slices : Backs(m, r, t)'
  BY DEF OrderInv
<1>1. Progress
  BY CallsProgress
<1>2. Slices \subseteq Calls /\ Resets \subseteq Calls
  BY DEF Calls
\* A call that backs the skip now, in a state where r has been called, still does.
<1>3. ASSUME NEW m \in Slices, m # r, Past(m), t \in ToMarkSent(m), pc[r] # "idle",
             ~Before(r, m), \A q \in Resets : ~(Before(m, q) /\ Before(q, r))
      PROVE  Backs(m, r, t)'
  <2>1. Past(m)' /\ t \in ToMarkSent(m)'
    BY <1>1, <1>3 DEF Progress, ToMarkSent, CompileSubset
  <2>2. ~Before(r, m)'
    BY <1>2, <1>3, BeforeSettled DEF Past
  <2>3. ASSUME NEW q \in Resets, Before(m, q)', Before(q, r)' PROVE FALSE
    <3>1. Before(q, r)
      BY <1>2, <1>3, <2>3, BeforeSettled
    <3>2. pc[q] = "done"
      BY <1>2, <3>1, BeforeSettled
    <3>3. Before(m, q)
      BY <1>2, <2>3, <3>2, BeforeSettled
    <3> QED BY <1>3, <3>1, <3>3
  <2> QED BY <1>3, <2>1, <2>2, <2>3 DEF Backs
<1>4. CASE skipped'[r] = skipped[r]
  <2>1. PICK m \in Slices : Backs(m, r, t)
    BY <1>4 DEF OrderInv
  <2>2. pc[r] # "idle"
    BY <1>4 DEF PhaseInv
  <2> QED BY <1>3, <2>1, <2>2 DEF Backs
<1>5. CASE Check(r)
  <2>1. pc[r] = "check" /\ t \in sent
    BY <1>5 DEF Check, TypeOK
  <2>2. PICK m \in marked : t \in ToMarkSent(m)
    BY <2>1 DEF SentIsCommitted
  <2>3. m \in Slices /\ Past(m) /\ m # r
    BY <2>1, <2>2 DEF TypeOK, PhaseInv, Past
  <2>4. ~Before(r, m)
    BY <1>2, <2>1, <2>3, BeforeSettled
  <2>5. \A q \in Resets : ~(Before(m, q) /\ Before(q, r))
    BY <1>2, <2>2, BeforeSettled DEF FreshInv, Past
  <2> QED BY <1>3, <2>1, <2>2, <2>3, <2>4, <2>5
<1> QED BY <1>1, <1>4, <1>5 DEF Progress

-----------------------------------------------------------------------------
\* A skip is never older than the session the client sees: the call that sends
\* the table was not made after the skip was answered, and no reset lies between
\* the two in the order the client saw.
THEOREM SkipsOrdered == Spec => []SkipsRespectRealTime
<1> DEFINE Inv == IInv /\ TranscriptInv /\ FreshInv /\ OrderInv
<1>1. Init => Inv
  <2>1. Init => TranscriptInv /\ FreshInv /\ OrderInv
    BY DEF Init, TranscriptInv, FreshInv, OrderInv, Calls
  <2> QED BY <2>1, InitIInv
<1>2. Inv /\ [Next]_vars => Inv'
  BY IInvInductive, TranscriptStep, FreshStep, OrderStep DEF IInv
<1>3. Inv => SkipsRespectRealTime
  <2> SUFFICES ASSUME Inv, NEW i \in 1..Len(stdout), NEW t \in stdout[i].skipped
               PROVE  \E r \in Slices \ {stdout[i].call} :
                         /\ Past(r)
                         /\ t \in ToMarkSent(r)
                         /\ ~Before(stdout[i].call, r)
                         /\ \A q \in Resets : ~(Before(r, q) /\ Before(q, stdout[i].call))
    BY DEF SkipsRespectRealTime, Past
  <2>1. stdout[i].call \in Calls
    BY WrittenCalls DEF IInv
  <2>2. stdout[i].call \in Slices
    BY <2>1 DEF TranscriptInv, Calls
  <2>3. stdout[i] = SliceResponse(stdout[i].call)
    BY <2>2 DEF IInv, WrittenInv
  <2>4. t \in skipped[stdout[i].call]
    BY <2>3 DEF SliceResponse
  <2> QED BY <2>2, <2>4 DEF OrderInv, Backs
<1> HIDE DEF Inv
<1> QED BY <1>1, <1>2, <1>3, PTL DEF Spec
=============================================================================
