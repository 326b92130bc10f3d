------------------------------- MODULE BenchRun -------------------------------
(***************************************************************************)
(* benchrun: every scenario is put to every arm, iteration by iteration,   *)
(* and each answer becomes a line of runs.jsonl.  The regular scenarios of *)
(* an arm and iteration share one provider session, each stress scenario   *)
(* has its own.  The manifest is written last.                             *)
(*                                                                         *)
(* Arms and scenarios are positions in the lists of setup.  A loop over a  *)
(* list is the set of the positions it has still to come to.               *)
(***************************************************************************)
EXTENDS ClaudeProvider, Sequences, FiniteSets, SequencesExt

CONSTANTS
    Setups,     \* flags, scenarios and replies of the CLI a run may meet
    Alias       \* Alias[name]: the arm a name on the command line stands for

ASSUME SetupsAssumption ==
    \A s \in Setups : /\ s.iterations \in Int
                      /\ s.arms \in Seq(ToSet(s.arms))
                      /\ s.scenarios \in Seq(ToSet(s.scenarios))
                      /\ s.walls \subseteq Int
                      /\ \A r \in s.replies : r.kind = "ok" => r.duration \in Int

VARIABLES
    setup,      \* [arms, iterations, scenarios, replies, walls]
    cli,        \* how the installed CLI reports session ids
    stage,      \* "start", "open", "ask", "hung", "append", "done", "exited"
    iteration,  \* loop over the iterations
    arms,       \* loop over the arms: the current one, and those after it
    left,       \* scenarios the current arm has still to record
    flow,       \* those among them in the current flow
    sess,       \* its provider session, or NoSession
    record,     \* the record to append
    file,       \* runs.jsonl: records, or Torn
    total,      \* records counted
    manifest    \* manifest.json: NoManifest, Torn or [total, arms]

loops == <<iteration, arms, left, flow>>
vars  == <<setup, cli, stage, loops, sess, record, file, total, manifest>>

Torn == [torn |-> TRUE]
NoManifest == [none |-> TRUE]
NoSession == [none |-> TRUE]
NoRecord == [none |-> TRUE]

FirstOf(S) == CHOOSE i \in S : \A j \in S : i <= j

-----------------------------------------------------------------------------
\* LoadDir refuses an empty list, an id that occurs twice, and an unknown category.
LoadDir(scenarios) ==
    /\ scenarios # << >>
    /\ \A i, j \in DOMAIN scenarios : scenarios[i].id = scenarios[j].id => i = j
    /\ \A i \in DOMAIN scenarios : scenarios[i].category \in {"regular", "stress"}

\* Faulty variant (for the mutation runs, as those below): aliases are not merged.
ParseArmsRepeated(names) ==
    IF \A i \in DOMAIN names : names[i] \in DOMAIN Alias \cup {""}
    THEN {i \in DOMAIN names : names[i] # ""}
    ELSE {}

\* parseArms: of the names for one arm the first counts, and blank ones are left
\* out; an unknown name, or no name, ends the program.
ParseArms(names) ==
    IF \A i \in DOMAIN names : names[i] \in DOMAIN Alias \cup {""}
    THEN {i \in DOMAIN names :
            /\ names[i] # ""
            /\ \A j \in 1..(i - 1) : names[j] # "" => Alias[names[j]] # Alias[names[i]]}
    ELSE {}

AllArms == ParseArms(setup.arms)
ArmName(a) == Alias[setup.arms[a]]

\* splitScenarioCategories: what is not a stress scenario is a regular one.
Regular == {p \in DOMAIN setup.scenarios : setup.scenarios[p].category # "stress"}

\* The order of main within an arm: the regular scenarios as one flow, then each
\* stress scenario as one.
NextFlow == IF left \cap Regular # {} THEN left \cap Regular ELSE {FirstOf(left)}

Arm == FirstOf(arms)
Place == FirstOf(flow)
Scenario == setup.scenarios[Place]

\* verifyScenarioAnswer: pass means every expected number is in the answer.
Passes(sc, answer) ==
    \A k \in DOMAIN sc.expected : k \in DOMAIN answer /\ answer[k] = sc.expected[k]

Unparsable == [unparsable |-> TRUE]

\* Why the record of an answered query is incomplete.
Reasons(reply, wall) ==
    (IF reply.answer = Unparsable THEN {"candidate_response_missing"} ELSE {})
    \cup (IF Tokens(Usage(reply)) = 0 THEN {"missing_usage_tokens"} ELSE {})
    \cup (IF wall <= 0 /\ reply.duration <= 0 THEN {"missing_latency"} ELSE {})

RunRecord(session, talk, reasons, pass, long, usage, wall, latency) ==
    [arm |-> ArmName(Arm), iteration |-> iteration,
     scenario |-> Scenario.id, category |-> Scenario.category,
     session |-> session, talk |-> talk, complete |-> reasons = {}, reasons |-> reasons,
     pass |-> pass, long |-> long, usage |-> usage, wall |-> wall, latency |-> latency]

\* The error of a query that failed goes into its record, with all the CLI has printed.
FailedRecord(session, wall, reasons, long) ==
    RunRecord(session, NoId, reasons, FALSE, long, [prompt |-> 0, completion |-> 0], wall, 0)

\* The answer goes into the record as it is, however long.  talk is not in the
\* code: the conversation of the CLI that gave the answer.
AnsweredRecord(session, talk, reply, wall) ==
    RunRecord(session, talk, Reasons(reply, wall),
              reply.answer # Unparsable /\ Passes(Scenario, reply.answer),
              reply.long, Usage(reply), wall, reply.duration)

-----------------------------------------------------------------------------
Init ==
    /\ setup \in Setups
    /\ cli \in {"echo", "fork", "none"}
    /\ stage = "start"
    /\ iteration = 1 /\ arms = {} /\ left = {} /\ flow = {}
    /\ sess = NoSession /\ record = NoRecord
    /\ file = << >> /\ total = 0 /\ manifest = NoManifest

\* The flags, the scenarios and the arms are checked first.
Start ==
    /\ stage = "start"
    /\ stage' = IF setup.iterations >= 1 /\ LoadDir(setup.scenarios) /\ AllArms # {}
                THEN "open" ELSE "exited"
    /\ arms' = AllArms /\ left' = DOMAIN setup.scenarios
    /\ UNCHANGED <<setup, cli, iteration, flow, sess, record, file, total, manifest>>

OpenSession ==
    /\ stage = "open" /\ iteration <= setup.iterations
    /\ flow' = NextFlow
    /\ sess' = NewSession(<<"local", iteration, Arm, FirstOf(NextFlow)>>)
    /\ stage' = "ask"
    /\ UNCHANGED <<setup, cli, iteration, arms, left, record, file, total, manifest>>

\* The loops of main, when scenarios rest are left of the current arm's.
Advance(rest) ==
    LET others == arms \ {Arm} IN
    IF rest # {} THEN left' = rest /\ UNCHANGED <<iteration, arms>>
    ELSE /\ left' = DOMAIN setup.scenarios
         /\ IF others # {} THEN arms' = others /\ iteration' = iteration
                           ELSE arms' = AllArms /\ iteration' = iteration + 1

\* Faulty variant: a flow without a session leaves no records.
FailSessionSilently ==
    /\ stage = "open" /\ iteration <= setup.iterations
    /\ Advance(left \ NextFlow)
    /\ UNCHANGED <<setup, cli, stage, flow, sess, record, file, total, manifest>>

\* The scenarios of a flow without a session are recorded all the same.
FailSession ==
    /\ stage = "open" /\ iteration <= setup.iterations
    /\ flow' = NextFlow
    /\ sess' = NoSession
    /\ stage' = "ask"
    /\ UNCHANGED <<setup, cli, iteration, arms, left, record, file, total, manifest>>

RecordRefusal ==
    /\ stage = "ask" /\ sess = NoSession
    /\ record' = FailedRecord(NoId, 0, {"session_start_failed"}, FALSE)
    /\ stage' = "append"
    /\ UNCHANGED <<setup, cli, loops, sess, file, total, manifest>>

\* The conversation the CLI would begin for the next query.
Fresh == <<"cli", iteration, Arm, Place>>

\* Query: an answer, whatever it is worth.
Answer ==
    /\ stage = "ask" /\ sess # NoSession
    /\ \E reply \in {r \in setup.replies : r.kind = "ok"}, wall \in setup.walls :
          /\ sess' = Remember(sess, ReportedId(cli, sess.remote, Fresh))
          /\ record' = AnsweredRecord(ID(sess'), Talk(cli, sess.remote, Fresh), reply, wall)
    /\ stage' = "append"
    /\ UNCHANGED <<setup, cli, loops, file, total, manifest>>

\* Query: the CLI fails, or its output cannot be used; the session is unchanged.
Failure ==
    /\ stage = "ask" /\ sess # NoSession
    /\ \E reply \in {r \in setup.replies : r.kind \in {"failed", "garbled"}}, wall \in setup.walls :
          record' = FailedRecord(ID(sess), wall,
                        {"query_failed"} \cup
                        (IF reply.kind = "failed" THEN {"provider_execution_error"} ELSE {}),
                        reply.long)
    /\ stage' = "append"
    /\ UNCHANGED <<setup, cli, loops, sess, file, total, manifest>>

Hang ==
    /\ stage = "ask" /\ sess # NoSession
    /\ \E reply \in setup.replies : reply.kind = "hang"
    /\ stage' = "hung"
    /\ UNCHANGED <<setup, cli, loops, sess, record, file, total, manifest>>

\* Faulty variant: the deadline is only noticed by a session that has answered before.
TimeoutLater ==
    /\ stage = "hung" /\ sess.remote # NoId
    /\ \E reply \in {r \in setup.replies : r.kind = "hang"} :
          record' = FailedRecord(ID(sess), 1,
                        {"query_failed", "provider_execution_error", "query_timeout"}, reply.long)
    /\ stage' = "append"
    /\ UNCHANGED <<setup, cli, loops, sess, file, total, manifest>>

\* The deadline of queryCtx kills the CLI, which may have printed something until then.
Timeout ==
    /\ stage = "hung"
    /\ \E reply \in {r \in setup.replies : r.kind = "hang"} :
          record' = FailedRecord(ID(sess), 1,
                        {"query_failed", "provider_execution_error", "query_timeout"}, reply.long)
    /\ stage' = "append"
    /\ UNCHANGED <<setup, cli, loops, sess, file, total, manifest>>

\* On to the next scenario of the flow, or to the next flow.
NextScenario ==
    /\ flow' = flow \ {Place}
    /\ Advance(left \ {Place})
    /\ stage' = IF flow = {Place} THEN "open" ELSE "ask"

\* Faulty variant: incomplete records are not counted.
AppendRecordUncounted ==
    /\ stage = "append"
    /\ file' = Append(file, record)
    /\ total' = total + (IF record.complete THEN 1 ELSE 0)
    /\ NextScenario
    /\ record' = NoRecord
    /\ UNCHANGED <<setup, cli, sess, manifest>>

\* AppendJSONL, and on to the next query.
AppendRecord ==
    /\ stage = "append"
    /\ file' = Append(file, record)
    /\ total' = total + 1
    /\ NextScenario
    /\ record' = NoRecord
    /\ UNCHANGED <<setup, cli, sess, manifest>>

\* The write fails, the program is killed in it, or Close fails after it: the line is
\* missing, incomplete or whole, and is not counted.
FailAppend ==
    /\ stage = "append"
    /\ file' \in {file, Append(file, Torn), Append(file, record)}
    /\ stage' = "exited"
    /\ UNCHANGED <<setup, cli, loops, sess, record, total, manifest>>

\* The manifest is written.  (Should its Close fail, only the exit code is another.)
Finish ==
    /\ stage = "open" /\ iteration > setup.iterations
    /\ manifest' = [total |-> total, arms |-> AllArms]
    /\ stage' = "done"
    /\ UNCHANGED <<setup, cli, loops, sess, record, file, total>>

FailManifest ==
    /\ stage = "open" /\ iteration > setup.iterations
    /\ manifest' \in {NoManifest, Torn}
    /\ stage' = "exited"
    /\ UNCHANGED <<setup, cli, loops, sess, record, file, total>>

\* The user interrupts the program between two writes.
Kill ==
    /\ stage \in {"open", "ask", "hung"}
    /\ stage' = "exited"
    /\ UNCHANGED <<setup, cli, loops, sess, record, file, total, manifest>>

Ended == stage \in {"done", "exited"} /\ UNCHANGED vars

\* What the program does by itself; Kill is the user's.
Step == \/ Start \/ OpenSession \/ FailSession \/ RecordRefusal
        \/ Answer \/ Failure \/ Hang \/ Timeout
        \/ AppendRecord \/ FailAppend \/ Finish \/ FailManifest

Next == Step \/ Kill \/ Ended

Spec == Init /\ [][Next]_vars /\ WF_vars(Step)

-----------------------------------------------------------------------------
Cells == {<<it, ArmName(a), setup.scenarios[p].id>> :
             it \in 1..setup.iterations, a \in AllArms, p \in DOMAIN setup.scenarios}
CellOf(rec) == <<rec.iteration, rec.arm, rec.scenario>>

\* The flow a record comes from.
FlowOf(rec) ==
    <<rec.iteration, rec.arm, rec.category, IF rec.category = "regular" THEN "" ELSE rec.scenario>>

BenchTypeOK ==
    /\ setup \in Setups
    /\ cli \in {"echo", "fork", "none"}
    /\ stage \in {"start", "open", "ask", "hung", "append", "done", "exited"}
    /\ iteration = 1 \/ iteration \in 1..(setup.iterations + 1)
    /\ arms \subseteq AllArms
    /\ flow \subseteq left /\ left \subseteq DOMAIN setup.scenarios
    /\ stage \in {"ask", "hung", "append"} => iteration <= setup.iterations /\ flow # {}
    /\ sess = NoSession \/ {"local", "remote"} = DOMAIN sess
    /\ stage = "append" => record # NoRecord
    /\ \A i \in DOMAIN file : file[i] = Torn => i = Len(file) /\ stage = "exited"
    /\ Cardinality({i \in DOMAIN file : file[i] # Torn}) \in
          IF stage = "exited" THEN {total, total + 1} ELSE {total}

\* With a CLI that goes on with the conversation it is told to resume, the complete
\* records of a flow come from one conversation, those of different flows from
\* different ones, and the session id in a record is the conversation's.
OneConversation ==
    cli = "echo" =>
        \A i, j \in DOMAIN file :
            /\ file[i] # Torn /\ file[j] # Torn
            /\ file[i].complete /\ file[j].complete
            => /\ file[i].talk = file[j].talk <=> FlowOf(file[i]) = FlowOf(file[j])
               /\ file[i].session = file[i].talk

\* A run ends, whatever the CLI replies: a reply that does not come is given up at
\* the deadline.  (The process is killed then; cmd.Run, without a WaitDelay, only
\* returns when no descendant of the CLI keeps the output pipe open.)
BenchEnds == <>(stage \in {"done", "exited"})
=============================================================================
