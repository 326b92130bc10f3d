----------------------------- MODULE BenchProofs -----------------------------
(***************************************************************************)
(* For all setups and all ways the CLI reports session ids: a manifest is  *)
(* only written over a whole file (ManifestWhole), with a CLI that resumes *)
(* conversations a flow is one conversation (OneFlowOneTalk), and the      *)
(* gates say what they mean: Gate 2 passes whole files only (GateTwoWhole),*)
(* Gate 6 tells flows from conversations (GateSixTellsFlows), and what is  *)
(* accepted was measured (AcceptedWasMeasured).                            *)
(*                                                                         *)
(* All rest on the same facts about the loops (LoopInv) and on            *)
(* Recorded(it, a, p), which says of a scenario p, an arm a and an         *)
(* iteration it, from the state of the loops alone, that they have been    *)
(* passed: the lines of the file are those recorded, one for each.         *)
(***************************************************************************)
EXTENDS Bench, SequenceLemmas, FunctionTheorems

\* A loop comes to the least position first.
LEMMA FirstIsLeast ==
  ASSUME NEW S, S \subseteq Nat, S # {}
  PROVE  FirstOf(S) \in S /\ \A j \in S : FirstOf(S) <= j
<1>1. PICK x \in S : \A y \in S : x <= y
  BY LeastOf
<1> QED BY <1>1 DEF FirstOf

-----------------------------------------------------------------------------
Active == stage \in {"open", "ask", "hung", "append", "done"}
InFlow == stage \in {"ask", "hung", "append"}

LoopInv ==
    /\ setup \in Setups
    /\ stage = "start" => iteration = 1 /\ file = << >> /\ total = 0
    /\ Active =>
          /\ setup.iterations >= 1 /\ LoadDir(setup.scenarios) /\ AllArms # {}
          /\ iteration \in 1..(setup.iterations + 1)
          /\ arms \subseteq AllArms /\ arms # {}
          /\ left \subseteq DOMAIN setup.scenarios /\ left # {}
          /\ left \cap Regular \in {{}, Regular} \/ InFlow
    /\ InFlow =>
          /\ iteration <= setup.iterations
          /\ flow # {}
          /\ flow = left \cap Regular \/ (left \cap Regular = {} /\ \E p \in left : flow = {p})
    /\ stage = "done" => iteration > setup.iterations

Recorded(it, a, p) ==
    \/ it < iteration
    \/ it = iteration /\ (a \notin arms \/ (a = Arm /\ p \notin left))

LineOf(rec, it, a, p) ==
    /\ rec.iteration = it /\ rec.arm = ArmName(a)
    /\ rec.scenario = setup.scenarios[p].id
    /\ rec.category = setup.scenarios[p].category
    /\ "torn" \notin DOMAIN rec /\ "none" \notin DOMAIN rec
    /\ rec.wall \in Int /\ rec.latency \in Int

Planned(it, a, p) == it \in 1..setup.iterations /\ a \in AllArms /\ p \in DOMAIN setup.scenarios

LinesInv ==
    Active =>
       /\ \E R : file \in Seq(R)
       /\ total = Len(file)
       /\ \A i \in DOMAIN file : \E it, a, p :
             Planned(it, a, p) /\ Recorded(it, a, p) /\ LineOf(file[i], it, a, p)
       /\ \A it, a, p : Planned(it, a, p) /\ Recorded(it, a, p) =>
             \E i \in DOMAIN file : LineOf(file[i], it, a, p)
       /\ \A i, j \in DOMAIN file : CellOf(file[i]) = CellOf(file[j]) => i = j

RecordInv == stage = "append" => LineOf(record, iteration, Arm, Place)

ManifestInv == IF stage = "done" THEN manifest = [total |-> total, arms |-> AllArms]
                                 ELSE manifest \in {NoManifest, Torn}

Inv == LoopInv /\ LinesInv /\ RecordInv /\ ManifestInv

-----------------------------------------------------------------------------
\* Arms and scenarios are positions of lists.
LEMMA ArmsAreNat ==
  ASSUME setup \in Setups
  PROVE  /\ AllArms \subseteq Nat /\ DOMAIN setup.scenarios \subseteq Nat
         /\ setup.iterations \in Int
         /\ Regular \subseteq DOMAIN setup.scenarios
<1>1. setup.arms \in Seq(ToSet(setup.arms)) /\ setup.scenarios \in Seq(ToSet(setup.scenarios))
  BY SetupsAssumption
<1>2. DOMAIN setup.arms \subseteq Nat /\ DOMAIN setup.scenarios \subseteq Nat
  BY <1>1
<1>3. AllArms \subseteq DOMAIN setup.arms
  BY DEF AllArms, ParseArms
<1> QED BY <1>2, <1>3, SetupsAssumption DEF Regular

\* The times that get into records are numbers.
LEMMA RepliesAreInt ==
  ASSUME setup \in Setups
  PROVE  /\ \A wall \in setup.walls : wall \in Int
         /\ \A reply \in setup.replies : reply.kind = "ok" => reply.duration \in Int
BY SetupsAssumption

\* Two triples of the plan have different lines.
LEMMA CellsDiffer ==
  ASSUME setup \in Setups, LoadDir(setup.scenarios),
         NEW a \in AllArms, NEW b \in AllArms,
         NEW p \in DOMAIN setup.scenarios, NEW q \in DOMAIN setup.scenarios
  PROVE  /\ ArmName(a) = ArmName(b) => a = b
         /\ setup.scenarios[p].id = setup.scenarios[q].id => p = q
<1>1. setup.scenarios[p].id = setup.scenarios[q].id => p = q
  BY DEF LoadDir
<1>2. setup.arms \in Seq(ToSet(setup.arms))
  BY SetupsAssumption
<1>3. AllArms \subseteq DOMAIN setup.arms
  BY DEF AllArms, ParseArms
<1>4. a \in DOMAIN setup.arms /\ b \in DOMAIN setup.arms
  BY <1>3
<1>5. a \in Nat /\ b \in Nat /\ a >= 1 /\ b >= 1
  BY <1>2, <1>4
<1>6. \A x \in AllArms : /\ setup.arms[x] # ""
                         /\ \A j \in 1..(x - 1) : setup.arms[j] # ""
                                => Alias[setup.arms[j]] # Alias[setup.arms[x]]
  BY DEF AllArms, ParseArms
<1>7. ASSUME NEW x \in AllArms, NEW y \in AllArms, x \in 1..(y - 1)
      PROVE  ArmName(x) # ArmName(y)
  <2>1. setup.arms[x] # ""
    BY <1>6
  <2>2. Alias[setup.arms[x]] # Alias[setup.arms[y]]
    BY <1>6, <1>7, <2>1
  <2> QED BY <2>2 DEF ArmName
<1>8. a \in 1..(b - 1) \/ b \in 1..(a - 1) \/ a = b
  BY <1>5
<1> QED BY <1>1, <1>7, <1>8

\* The loops have a current arm, and a flow under way a current scenario.
LEMMA Current ==
  ASSUME LoopInv, Active
  PROVE  /\ Arm \in arms /\ Arm \in AllArms
         /\ InFlow => Place \in flow /\ flow \subseteq left /\ Place \in left
                      /\ Place \in DOMAIN setup.scenarios
         /\ NextFlow # {} /\ NextFlow \subseteq left
<1>1. arms \subseteq Nat /\ arms # {} /\ left \subseteq Nat /\ left # {}
  BY ArmsAreNat DEF LoopInv
<1>2. Arm \in arms /\ Arm \in AllArms
  BY <1>1, FirstIsLeast DEF Arm, LoopInv
<1>3. InFlow => flow # {} /\ flow \subseteq left
  BY DEF LoopInv
<1>4. InFlow => Place \in flow
  BY <1>1, <1>3, FirstIsLeast DEF Place
<1>5. NextFlow # {} /\ NextFlow \subseteq left
  BY <1>1, FirstIsLeast DEF NextFlow
<1> QED BY <1>2, <1>3, <1>4, <1>5 DEF LoopInv

-----------------------------------------------------------------------------
\* A step that leaves the loops alone leaves what is recorded alone.
LEMMA Steady ==
  ASSUME UNCHANGED <<setup, iteration, arms, left>>
  PROVE  /\ AllArms' = AllArms /\ Arm' = Arm /\ Regular' = Regular
         /\ \A it, a, p : Recorded(it, a, p)' <=> Recorded(it, a, p)
         /\ \A it, a, p : Planned(it, a, p)' <=> Planned(it, a, p)
         /\ \A rec, it, a, p : LineOf(rec, it, a, p)' <=> LineOf(rec, it, a, p)
<1>1. AllArms' = AllArms /\ Arm' = Arm /\ Regular' = Regular
  BY DEF AllArms, Arm, Regular
<1>2. \A a : ArmName(a)' = ArmName(a)
  BY DEF ArmName
<1> QED BY <1>1, <1>2 DEF Recorded, Planned, LineOf

\* The three ways on from a scenario: to the next one of the arm, to the next arm,
\* to the next iteration.  Each records the scenario and no other.
LEMMA Passing ==
  ASSUME LoopInv, stage = "append", NextScenario, setup' = setup
  PROVE  /\ iteration' \in 1..(setup.iterations + 1)
         /\ arms' \subseteq AllArms /\ arms' # {}
         /\ left' \subseteq DOMAIN setup.scenarios /\ left' # {}
         /\ (stage' = "open" /\ left' \cap Regular \in {{}, Regular}) \/ stage' = "ask"
         /\ stage' = "ask" => /\ iteration' = iteration /\ arms' = arms
                             /\ flow' # {} /\ flow' = left' \cap Regular
                             /\ flow = left \cap Regular
         /\ ~Recorded(iteration, Arm, Place)
         /\ \A it, a, p : Planned(it, a, p) =>
               (Recorded(it, a, p)' <=>
                   Recorded(it, a, p) \/ (it = iteration /\ a = Arm /\ p = Place))
<1>1. /\ Arm \in arms /\ Place \in flow /\ Place \in left /\ flow \subseteq left
      /\ iteration \in 1..setup.iterations /\ setup.iterations \in Int
      /\ arms \subseteq AllArms /\ left \subseteq DOMAIN setup.scenarios
      /\ AllArms # {} /\ DOMAIN setup.scenarios # {}
      /\ Regular \subseteq DOMAIN setup.scenarios
      /\ flow = left \cap Regular \/ (left \cap Regular = {} /\ flow = {Place})
  BY Current, ArmsAreNat DEF LoopInv, Active, InFlow
<1>2. ~Recorded(iteration, Arm, Place)
  BY <1>1 DEF Recorded
<1>3. CASE left # {Place}
  <2>1. left' = left \ {Place} /\ left' # {} /\ iteration' = iteration /\ arms' = arms
    BY <1>1, <1>3 DEF NextScenario, Advance
  <2>2. Arm' = Arm
    BY <2>1 DEF Arm
  <2>3. \A it, a, p : Planned(it, a, p) =>
           (Recorded(it, a, p)' <=>
               Recorded(it, a, p) \/ (it = iteration /\ a = Arm /\ p = Place))
    BY <1>1, <2>1, <2>2 DEF Recorded
  <2>4. /\ flow' = flow \ {Place}
        /\ stage' = IF flow = {Place} THEN "open" ELSE "ask"
    BY DEF NextScenario
  <2>5. stage' = "open" => left' \cap Regular = {}
    BY <1>1, <2>1, <2>4
  <2>6. stage' = "ask" => flow' # {} /\ flow' = left' \cap Regular /\ flow = left \cap Regular
    BY <1>1, <2>1, <2>4
  <2> QED BY <1>1, <1>2, <2>1, <2>3, <2>4, <2>5, <2>6
<1>4. CASE left = {Place}
  <2>1. /\ left' = DOMAIN setup.scenarios
        /\ IF arms \ {Arm} # {} THEN arms' = arms \ {Arm} /\ iteration' = iteration
                                ELSE arms' = AllArms /\ iteration' = iteration + 1
    BY <1>4 DEF NextScenario, Advance
  <2>2. stage' = "open" /\ left' \cap Regular = Regular
    BY <1>1, <1>4, <2>1 DEF NextScenario
  <2>3. CASE arms \ {Arm} # {}
    <3>1. \A it, a, p : Planned(it, a, p) =>
             (Recorded(it, a, p)' <=>
                 Recorded(it, a, p) \/ (it = iteration /\ a = Arm /\ p = Place))
      BY <1>1, <1>4, <2>1, <2>3 DEF Recorded, Planned
    <3> QED BY <1>1, <1>2, <2>1, <2>2, <2>3, <3>1
  <2>4. CASE arms \ {Arm} = {}
    <3>1. \A it, a, p : Planned(it, a, p) =>
             (Recorded(it, a, p)' <=>
                 Recorded(it, a, p) \/ (it = iteration /\ a = Arm /\ p = Place))
      BY <1>1, <1>4, <2>1, <2>4 DEF Recorded, Planned
    <3>2. iteration' \in 1..(setup.iterations + 1)
      BY <1>1, <2>1, <2>4
    <3> QED BY <1>1, <1>2, <2>1, <2>2, <2>4, <3>1, <3>2
  <2> QED BY <2>3, <2>4
<1> QED BY <1>3, <1>4

-----------------------------------------------------------------------------
\* Whatever comes of a query, its record is about the current scenario.
LEMMA RecordOfCurrent ==
  ASSUME NEW session, NEW talk, NEW reasons, NEW pass, NEW long, NEW usage,
         NEW wall \in Int, NEW latency \in Int
  PROVE  LineOf(RunRecord(session, talk, reasons, pass, long, usage, wall, latency),
                iteration, Arm, Place)
BY DEF LineOf, RunRecord, Scenario

LEMMA FailureOfCurrent ==
  ASSUME NEW session, NEW wall \in Int, NEW reasons, NEW long
  PROVE  LineOf(FailedRecord(session, wall, reasons, long), iteration, Arm, Place)
<1>1. 0 \in Int
  OBVIOUS
<1> QED BY <1>1, RecordOfCurrent DEF FailedRecord

\* The invariant holds before the first step.
LEMMA InitInv == Init => Inv
BY DEF Init, Inv, LoopInv, LinesInv, RecordInv, ManifestInv, Active, InFlow

\* The facts about the lines outlive a step that changes neither file nor loops.
LEMMA LinesStay ==
  ASSUME LinesInv, Active, UNCHANGED <<setup, iteration, arms, left, file, total>>
  PROVE  LinesInv'
BY Steady DEF LinesInv

\* The loops begin with nothing recorded, or the program ends.
LEMMA StartStep ==
  ASSUME Inv, Start
  PROVE  Inv'
<1>1. /\ setup \in Setups /\ setup' = setup /\ iteration = 1 /\ iteration' = 1
      /\ file = << >> /\ file' = << >> /\ total = 0 /\ total' = 0
      /\ manifest' = manifest /\ manifest \in {NoManifest, Torn}
      /\ arms' = AllArms /\ left' = DOMAIN setup.scenarios
      /\ AllArms' = AllArms /\ Regular' = Regular
  BY DEF Inv, LoopInv, ManifestInv, Start, AllArms, Regular
<1>2. stage' \in {"open", "exited"}
  BY DEF Start
<1>3. ManifestInv' /\ RecordInv'
  BY <1>1, <1>2 DEF ManifestInv, RecordInv, NoManifest, Torn
<1>4. CASE stage' = "exited"
  BY <1>1, <1>3, <1>4 DEF Inv, LoopInv, LinesInv, Active, InFlow
<1>5. CASE stage' = "open"
  <2>1. /\ setup.iterations >= 1 /\ LoadDir(setup.scenarios) /\ AllArms # {}
        /\ setup.iterations \in Int
    BY <1>1, <1>5, ArmsAreNat DEF Start
  <2>2. Regular \subseteq DOMAIN setup.scenarios /\ DOMAIN setup.scenarios # {}
    <3>1. setup.scenarios \in Seq(ToSet(setup.scenarios)) /\ setup.scenarios # << >>
      BY <1>1, <2>1, SetupsAssumption DEF LoadDir
    <3>2. Len(setup.scenarios) # 0 /\ DOMAIN setup.scenarios = 1..Len(setup.scenarios)
      BY <3>1
    <3>3. 1 \in DOMAIN setup.scenarios
      BY <3>1, <3>2
    <3> QED BY <3>3 DEF Regular
  <2>3. LoopInv'
    BY <1>1, <1>5, <2>1, <2>2 DEF LoopInv, Active, InFlow
  <2>4. \A it, a, p : ~(Planned(it, a, p)' /\ Recorded(it, a, p)')
    BY <1>1, <2>1 DEF Planned, Recorded
  <2>5. LinesInv'
    <3>1. file' \in Seq({}) /\ Len(file') = 0 /\ DOMAIN file' = {}
      BY <1>1
    <3> QED BY <1>1, <2>4, <3>1 DEF LinesInv
  <2> QED BY <1>3, <2>3, <2>5 DEF Inv
<1> QED BY <1>2, <1>4, <1>5

\* A session is opened, or not: the flow begins.
LEMMA OpenStep ==
  ASSUME Inv, OpenSession \/ FailSession
  PROVE  Inv'
<1>1. /\ stage = "open" /\ stage' = "ask" /\ iteration <= setup.iterations
      /\ flow' = NextFlow
      /\ UNCHANGED <<setup, iteration, arms, left, file, total, manifest>>
  BY DEF OpenSession, FailSession
<1>2. Active /\ Active' /\ LoopInv /\ LinesInv
  BY <1>1 DEF Active, Inv
<1>3. LinesInv'
  BY <1>1, <1>2, LinesStay
<1>4. AllArms' = AllArms /\ Regular' = Regular
  BY <1>1, Steady
<1>5. /\ flow' # {}
      /\ flow' = left \cap Regular \/ (left \cap Regular = {} /\ \E p \in left : flow' = {p})
  BY <1>1, <1>2, Current DEF NextFlow
<1>6. LoopInv'
  BY <1>1, <1>2, <1>4, <1>5 DEF LoopInv, Active, InFlow
<1> QED BY <1>1, <1>3, <1>6 DEF Inv, RecordInv, ManifestInv

\* The query is answered, fails, hangs or is given up.
LEMMA QueryStep ==
  ASSUME Inv, RecordRefusal \/ Answer \/ Failure \/ Hang \/ Timeout
  PROVE  Inv'
<1>1. /\ stage \in {"ask", "hung"} /\ stage' \in {"append", "hung"}
      /\ UNCHANGED <<setup, iteration, arms, left, flow, file, total, manifest>>
  BY DEF RecordRefusal, Answer, Failure, Hang, Timeout, loops
<1>2. stage' = "append" => LineOf(record', iteration, Arm, Place)
  <2>1. CASE RecordRefusal
    <3>1. PICK long : record' = FailedRecord(NoId, 0, {"session_start_failed"}, long)
      BY <2>1 DEF RecordRefusal
    <3> QED BY <3>1, FailureOfCurrent
  <2>2. CASE Answer
    <3>1. PICK reply \in setup.replies, wall \in setup.walls :
             /\ reply.kind = "ok"
             /\ record' = AnsweredRecord(ID(sess'), Talk(cli, sess.remote, Fresh), reply, wall)
      BY <2>2 DEF Answer
    <3>2. wall \in Int /\ reply.duration \in Int
      BY <3>1, RepliesAreInt DEF Inv, LoopInv
    <3> QED BY <3>1, <3>2, RecordOfCurrent DEF AnsweredRecord
  <2>3. CASE Failure
    <3>1. PICK wall \in setup.walls :
             \E reasons, long : record' = FailedRecord(ID(sess), wall, reasons, long)
      BY <2>3 DEF Failure
    <3>2. wall \in Int
      BY RepliesAreInt DEF Inv, LoopInv
    <3> QED BY <3>1, <3>2, FailureOfCurrent
  <2>4. CASE Hang
    BY <2>4 DEF Hang
  <2>5. CASE Timeout
    BY <2>5, FailureOfCurrent DEF Timeout
  <2> QED BY <2>1, <2>2, <2>3, <2>4, <2>5
<1>3. Active /\ Active' /\ InFlow /\ LoopInv /\ LinesInv
  BY <1>1 DEF Active, InFlow, Inv
<1>4. LinesInv'
  BY <1>1, <1>3, LinesStay
<1>5. AllArms' = AllArms /\ Regular' = Regular /\ Arm' = Arm /\ Place' = Place
  BY <1>1, Steady DEF Place
<1>6. LoopInv'
  BY <1>1, <1>3, <1>5 DEF LoopInv, Active, InFlow
<1>7. RecordInv'
  BY <1>1, <1>2, <1>5 DEF RecordInv, LineOf, ArmName
<1> QED BY <1>1, <1>4, <1>6, <1>7 DEF Inv, ManifestInv

\* A file with a line more.
LEMMA LineAdded ==
  ASSUME LinesInv, Active, file' = Append(file, record)
  PROVE  /\ \E R : file' \in Seq(R)
         /\ Len(file') = Len(file) + 1 /\ Len(file) \in Nat
         /\ DOMAIN file = 1..Len(file) /\ DOMAIN file' = 1..(Len(file) + 1)
         /\ \A i \in DOMAIN file : file'[i] = file[i]
         /\ file'[Len(file) + 1] = record
         /\ \A i \in DOMAIN file' : i \in DOMAIN file \/ i = Len(file) + 1
<1>1. PICK R : file \in Seq(R)
  BY DEF LinesInv
<1>2. /\ file' \in Seq(R \cup {record}) /\ Len(file') = Len(file) + 1 /\ Len(file) \in Nat
      /\ DOMAIN file = 1..Len(file) /\ DOMAIN file' = 1..(Len(file) + 1)
      /\ \A i \in DOMAIN file : file'[i] = file[i]
      /\ file'[Len(file) + 1] = record
  BY <1>1
<1> QED BY <1>2

\* A line is added, and the scenario it is about is the one that gets recorded.
LEMMA AppendStep ==
  ASSUME Inv, AppendRecord
  PROVE  Inv'
<1>1. /\ stage = "append" /\ NextScenario /\ total' = total + 1
      /\ file' = Append(file, record) /\ setup' = setup /\ manifest' = manifest
      /\ LoopInv /\ LinesInv /\ Active /\ InFlow
  BY DEF AppendRecord, Inv, Active, InFlow
<1>2. /\ LineOf(record, iteration, Arm, Place)
      /\ Planned(iteration, Arm, Place)
  <2>1. iteration \in 1..setup.iterations
    BY <1>1, ArmsAreNat DEF LoopInv
  <2> QED BY <1>1, <2>1, Current DEF Inv, RecordInv, Planned
<1>3. /\ AllArms' = AllArms /\ Regular' = Regular
      /\ \A rec, it, a, p : LineOf(rec, it, a, p)' <=> LineOf(rec, it, a, p)
      /\ \A it, a, p : Planned(it, a, p)' <=> Planned(it, a, p)
  BY <1>1 DEF AllArms, Regular, LineOf, Planned, ArmName
<1>4. stage' \in {"open", "ask"}
  BY <1>1 DEF NextScenario
<1>5. LoopInv'
  BY <1>1, <1>3, <1>4, Passing DEF LoopInv, Active, InFlow
<1>6. /\ \E R : file' \in Seq(R)
      /\ Len(file') = Len(file) + 1 /\ Len(file) \in Nat
      /\ DOMAIN file = 1..Len(file) /\ DOMAIN file' = 1..(Len(file) + 1)
      /\ \A i \in DOMAIN file : file'[i] = file[i]
      /\ file'[Len(file) + 1] = record
      /\ \A i \in DOMAIN file' : i \in DOMAIN file \/ i = Len(file) + 1
  BY <1>1, LineAdded
<1>7. \A i \in DOMAIN file : CellOf(file[i]) # CellOf(record)
  <2> SUFFICES ASSUME NEW i \in DOMAIN file, CellOf(file[i]) = CellOf(record)
               PROVE  FALSE
    OBVIOUS
  <2>1. PICK it, a, p : Planned(it, a, p) /\ Recorded(it, a, p) /\ LineOf(file[i], it, a, p)
    BY <1>1 DEF LinesInv
  <2>2. /\ it = iteration /\ ArmName(a) = ArmName(Arm)
        /\ setup.scenarios[p].id = setup.scenarios[Place].id
    BY <1>2, <2>1 DEF LineOf, CellOf
  <2>3. a = Arm /\ p = Place
    <3>1. /\ setup \in Setups /\ LoadDir(setup.scenarios)
          /\ a \in AllArms /\ Arm \in AllArms
          /\ p \in DOMAIN setup.scenarios /\ Place \in DOMAIN setup.scenarios
      BY <1>1, <1>2, <2>1 DEF LoopInv, Planned
    <3> QED BY <2>2, <3>1, CellsDiffer
  <2> QED BY <1>1, <2>1, <2>2, <2>3, Passing
<1>8. \A i \in DOMAIN file' : \E it, a, p :
          Planned(it, a, p)' /\ Recorded(it, a, p)' /\ LineOf(file[i], it, a, p)'
  <2> SUFFICES ASSUME NEW i \in DOMAIN file'
               PROVE  \E it, a, p : /\ Planned(it, a, p) /\ Recorded(it, a, p)'
                                   /\ LineOf(file'[i], it, a, p)
    BY <1>1, <1>3 DEF LineOf, ArmName
  <2>1. CASE i \in DOMAIN file
    <3>1. PICK it, a, p : Planned(it, a, p) /\ Recorded(it, a, p) /\ LineOf(file[i], it, a, p)
      BY <1>1, <2>1 DEF LinesInv
    <3> QED BY <1>1, <1>6, <2>1, <3>1, Passing
  <2>2. CASE i = Len(file) + 1
    BY <1>1, <1>2, <1>6, <2>2, Passing
  <2> QED BY <1>6, <2>1, <2>2
<1>9. \A it, a, p : Planned(it, a, p)' /\ Recorded(it, a, p)' =>
          \E i \in DOMAIN file' : LineOf(file[i], it, a, p)'
  <2> SUFFICES ASSUME NEW it, NEW a, NEW p, Planned(it, a, p), Recorded(it, a, p)'
               PROVE  \E i \in DOMAIN file' : LineOf(file'[i], it, a, p)
    BY <1>1, <1>3 DEF LineOf, ArmName
  <2>1. CASE Recorded(it, a, p)
    <3>1. PICK i \in DOMAIN file : LineOf(file[i], it, a, p)
      BY <1>1, <2>1 DEF LinesInv
    <3>2. i \in DOMAIN file' /\ file'[i] = file[i]
      BY <1>6
    <3> QED BY <3>1, <3>2
  <2>2. CASE it = iteration /\ a = Arm /\ p = Place
    <3>1. Len(file) + 1 \in DOMAIN file' /\ LineOf(file'[Len(file) + 1], it, a, p)
      BY <1>2, <1>6, <2>2
    <3> QED BY <3>1
  <2> QED BY <1>1, <2>1, <2>2, Passing
<1>10. \A i, j \in DOMAIN file' : CellOf(file'[i]) = CellOf(file'[j]) => i = j
  <2>1. \A i, j \in DOMAIN file : CellOf(file[i]) = CellOf(file[j]) => i = j
    BY <1>1 DEF LinesInv
  <2> QED BY <1>6, <1>7, <2>1
<1>11. LinesInv'
  <2>1. total' = Len(file')
    BY <1>1, <1>6 DEF LinesInv
  <2>2. \E RR : file' \in Seq(RR)
    BY <1>6
  <2>3. \A i, j \in DOMAIN file' : CellOf(file[i])' = CellOf(file[j])' => i = j
    BY <1>10 DEF CellOf
  <2> QED BY <1>8, <1>9, <2>1, <2>2, <2>3 DEF LinesInv
<1> QED BY <1>1, <1>4, <1>5, <1>11 DEF Inv, RecordInv, ManifestInv

\* The end, with a manifest or without.
LEMMA EndStep ==
  ASSUME Inv, Finish \/ FailManifest \/ FailAppend \/ Kill
  PROVE  Inv'
<1>1. CASE Finish
  <2>1. /\ stage = "open" /\ stage' = "done" /\ iteration > setup.iterations
        /\ UNCHANGED <<setup, iteration, arms, left, flow, file, total>>
        /\ manifest' = [total |-> total, arms |-> AllArms]
    BY <1>1 DEF Finish, loops
  <2>2. Active /\ Active' /\ LoopInv /\ LinesInv
    BY <2>1 DEF Active, Inv
  <2>3. LinesInv'
    BY <2>1, <2>2, LinesStay
  <2>4. AllArms' = AllArms /\ Regular' = Regular
    BY <2>1, Steady
  <2>5. LoopInv'
    BY <2>1, <2>2, <2>4 DEF LoopInv, Active, InFlow
  <2> QED BY <2>1, <2>3, <2>4, <2>5 DEF Inv, RecordInv, ManifestInv
<1>2. CASE FailManifest \/ FailAppend \/ Kill
  <2>1. stage # "done" /\ stage' = "exited" /\ setup' = setup /\ manifest' \in {manifest, NoManifest, Torn}
    BY <1>2 DEF FailManifest, FailAppend, Kill
  <2> QED BY <2>1 DEF Inv, LoopInv, LinesInv, RecordInv, ManifestInv, Active, InFlow, NoManifest, Torn
<1> QED BY <1>1, <1>2

\* Every step keeps the invariant.
LEMMA InvStep ==
  ASSUME Inv, [Next]_vars
  PROVE  Inv'
<1>1. CASE UNCHANGED vars
  BY <1>1, Steady DEF Inv, LoopInv, LinesInv, RecordInv, ManifestInv, Active, InFlow,
                      vars, loops, Place
<1>2. CASE Next
  <2>1. CASE Ended
    BY <1>1, <2>1 DEF Ended
  <2> QED BY <1>2, <2>1, StartStep, OpenStep, QueryStep, AppendStep, EndStep DEF Next, Step
<1> QED BY <1>1, <1>2

\* With the loops through, every triple of the plan is recorded: lines and cells are
\* in bijection.
LEMMA WholeFile == Inv => ManifestMeansWhole
<1> SUFFICES ASSUME Inv, manifest \notin {NoManifest, Torn}
             PROVE  /\ Torn \notin ToSet(file)
                    /\ {CellOf(rec) : rec \in ToSet(file)} = Cells
                    /\ Len(file) = Cardinality(Cells)
                    /\ manifest.total = Len(file)
                    /\ Loads(file) <=> (\A rec \in ToSet(file) : ~rec.long)
  BY DEF ManifestMeansWhole
<1>1. /\ stage = "done" /\ manifest.total = total /\ iteration > setup.iterations
      /\ LoopInv /\ LinesInv /\ Active /\ setup \in Setups /\ LoadDir(setup.scenarios)
      /\ setup.iterations \in Int /\ setup.iterations >= 1
  BY ArmsAreNat DEF Inv, ManifestInv, LoopInv, Active
<1>2. PICK R : file \in Seq(R)
  BY <1>1 DEF LinesInv
<1>3. Len(file) \in Nat /\ DOMAIN file = 1..Len(file) /\ total = Len(file)
  BY <1>1, <1>2 DEF LinesInv
<1>4. ToSet(file) = {file[i] : i \in DOMAIN file}
  BY DEF ToSet
<1>5. \A it, a, p : Planned(it, a, p) => Recorded(it, a, p)
  BY <1>1 DEF Planned, Recorded, LoopInv
<1>6. /\ \A i \in DOMAIN file : \E it, a, p : Planned(it, a, p) /\ LineOf(file[i], it, a, p)
      /\ \A it, a, p : Planned(it, a, p) => \E i \in DOMAIN file : LineOf(file[i], it, a, p)
      /\ \A i, j \in DOMAIN file : CellOf(file[i]) = CellOf(file[j]) => i = j
  BY <1>1, <1>5 DEF LinesInv
<1>7. \A i \in DOMAIN file : "torn" \notin DOMAIN file[i]
  BY <1>6 DEF LineOf
<1>8. Torn \notin ToSet(file)
  BY <1>4, <1>7 DEF Torn
<1>9. \A i \in DOMAIN file : CellOf(file[i]) \in Cells
  <2> TAKE i \in DOMAIN file
  <2>1. PICK it, a, p : Planned(it, a, p) /\ LineOf(file[i], it, a, p)
    BY <1>6
  <2> QED BY <2>1 DEF Cells, CellOf, Planned, LineOf
<1>10. \A c \in Cells : \E i \in DOMAIN file : CellOf(file[i]) = c
  <2> TAKE c \in Cells
  <2>1. PICK it \in 1..setup.iterations, a \in AllArms, p \in DOMAIN setup.scenarios :
           c = <<it, ArmName(a), setup.scenarios[p].id>>
    BY DEF Cells
  <2>2. PICK i \in DOMAIN file : LineOf(file[i], it, a, p)
    BY <1>6, <2>1 DEF Planned
  <2> QED BY <2>1, <2>2 DEF CellOf, LineOf
<1>11. {CellOf(rec) : rec \in ToSet(file)} = Cells
  BY <1>4, <1>9, <1>10
<1>12. Len(file) = Cardinality(Cells)
  <2> DEFINE cell == [i \in 1..Len(file) |-> CellOf(file[i])]
  <2>1. cell \in Bijection(1..Len(file), Cells)
    <3>1. cell \in [1..Len(file) -> Cells]
      BY <1>3, <1>9
    <3>2. \A i, j \in 1..Len(file) : cell[i] = cell[j] => i = j
      BY <1>3, <1>6
    <3>3. \A c \in Cells : \E i \in 1..Len(file) : cell[i] = c
      BY <1>3, <1>10
    <3> QED BY <3>1, <3>2, <3>3, Fun_IsBij
  <2>2. ExistsBijection(1..Len(file), Cells)
    BY <2>1 DEF ExistsBijection
  <2> QED BY <1>3, <2>2, FS_CountingElements
<1>13. file # << >>
  <2>1. PICK a \in AllArms : TRUE
    BY <1>1 DEF LoopInv
  <2>2. PICK p \in DOMAIN setup.scenarios : TRUE
    BY <1>1 DEF LoopInv
  <2>3. Planned(1, a, p)
    BY <1>1, <2>1, <2>2 DEF Planned
  <2>4. \E i : i \in DOMAIN file
    BY <1>6, <2>3
  <2> QED BY <1>3, <2>4
<1>14. Loads(file) <=> (\A rec \in ToSet(file) : ~rec.long)
  BY <1>4, <1>7, <1>13 DEF Loads, IsTorn
<1> QED BY <1>1, <1>3, <1>8, <1>11, <1>12, <1>14

\* A manifest is only ever written over a whole file: one line for each iteration,
\* arm and scenario, none torn, and their number, which can be loaded unless one is
\* too long.  For all setups, whatever fails and whenever the program is killed.
THEOREM ManifestWhole == Spec => []ManifestMeansWhole
<1>1. Init => Inv
  BY InitInv
<1>2. Inv /\ [Next]_vars => Inv'
  BY InvStep
<1>3. Inv => ManifestMeansWhole
  BY WholeFile
<1> QED BY <1>1, <1>2, <1>3, PTL DEF Spec

\* What Gate 2 counts.
LEMMA CountIsRuns ==
  ASSUME NEW arm, NEW sc
  PROVE  Count(file, arm, sc) = CompleteRuns(arm, sc)
<1>1. {i \in Complete(file) : file[i].arm = arm /\ file[i].scenario = sc}
        = {i \in DOMAIN file : file[i].complete /\ file[i].arm = arm /\ file[i].scenario = sc}
  BY DEF Complete
<1> QED BY <1>1 DEF Count, CompleteRuns

\* Gate 2 looks at the arms and scenarios it finds: with a manifest, all of them.
LEMMA WholeGateTwo == Inv => GateTwoIsWhole
<1> SUFFICES ASSUME Inv, manifest \notin {NoManifest, Torn}, GateTwo(file),
                    NEW a \in AllArms, NEW sc \in ToSet(setup.scenarios)
             PROVE  CompleteRuns(ArmName(a), sc.id) >= MinRuns
  BY DEF GateTwoIsWhole
<1>1. /\ stage = "done" /\ iteration > setup.iterations /\ LinesInv /\ Active
      /\ setup.iterations \in Int /\ setup.iterations >= 1
      /\ iteration \in 1..(setup.iterations + 1)
  BY ArmsAreNat DEF Inv, ManifestInv, LoopInv, Active
<1>2. PICK p \in DOMAIN setup.scenarios : sc = setup.scenarios[p]
  BY DEF ToSet
<1>3. Planned(1, a, p) /\ Recorded(1, a, p)
  BY <1>1 DEF Planned, Recorded
<1>4. PICK i \in DOMAIN file : LineOf(file[i], 1, a, p)
  BY <1>1, <1>3 DEF LinesInv
<1>5. ArmName(a) \in ArmsIn(file) /\ sc.id \in ScenariosIn(file)
  BY <1>2, <1>4 DEF ArmsIn, ScenariosIn, LineOf, ToSet
<1> QED BY <1>5, CountIsRuns DEF GateTwo

\* Over the whole plan, if there is a manifest, Gate 2 asks for MinRuns complete
\* records of every arm and every scenario: it overlooks none that left no record.
THEOREM GateTwoWhole == Spec => []GateTwoIsWhole
<1>1. Init => Inv
  BY InitInv
<1>2. Inv /\ [Next]_vars => Inv'
  BY InvStep
<1>3. Inv => GateTwoIsWhole
  BY WholeGateTwo
<1> QED BY <1>1, <1>2, <1>3, PTL DEF Spec

-----------------------------------------------------------------------------
\* What a line that is not torn has, whatever became of the run.
Line(rec) ==
    /\ "torn" \notin DOMAIN rec
    /\ rec.category \in {"regular", "stress"}
    /\ rec.wall \in Int /\ rec.latency \in Int

FileInv ==
    /\ \E R : file \in Seq(R)
    /\ \A i \in DOMAIN file : (file[i] = Torn /\ i = Len(file) /\ stage = "exited") \/ Line(file[i])
    /\ Cardinality({i \in DOMAIN file : file[i] # Torn}) \in
          IF stage = "exited" THEN {total, total + 1} ELSE {total}

TypeInv ==
    /\ cli \in {"echo", "fork", "none"}
    /\ stage \in {"start", "open", "ask", "hung", "append", "done", "exited"}
    /\ iteration = 1 \/ iteration \in 1..(setup.iterations + 1)
    /\ arms \subseteq AllArms
    /\ flow \subseteq left /\ left \subseteq DOMAIN setup.scenarios
    /\ sess = NoSession \/ {"local", "remote"} = DOMAIN sess
    /\ FileInv

\* Lines that are not torn are counted one by one.
LEMMA TornLast ==
  ASSUME NEW n \in Nat, NEW f, DOMAIN f \in {1..n, 1..(n + 1)},
         \A i \in 1..n : f[i] # Torn,
         n + 1 \in DOMAIN f => f[n + 1] = Torn
  PROVE  Cardinality({i \in DOMAIN f : f[i] # Torn}) = n
<1>1. {i \in DOMAIN f : f[i] # Torn} = 1..n
  <2>1. ASSUME NEW i \in 1..n
        PROVE  i \in DOMAIN f /\ f[i] # Torn
    OBVIOUS
  <2>2. ASSUME NEW i \in DOMAIN f, f[i] # Torn
        PROVE  i \in 1..n
    <3>1. i \in 1..n \/ i = n + 1
      OBVIOUS
    <3> QED BY <2>2, <3>1
  <2> QED BY <2>1, <2>2
<1>2. [i \in 1..n |-> i] \in Bijection(1..n, 1..n)
  BY Fun_IsBij
<1>3. ExistsBijection(1..n, 1..n)
  BY <1>2 DEF ExistsBijection
<1>4. Cardinality(1..n) = n
  BY <1>3, FS_CountingElements
<1> QED BY <1>1, <1>4

\* While the loops run, and after, no line is torn.
LEMMA ActiveFile ==
  ASSUME Inv, Active
  PROVE  /\ \A i \in DOMAIN file : Line(file[i]) /\ file[i] # Torn
         /\ \E R : file \in Seq(R)
         /\ total = Len(file) /\ Len(file) \in Nat
<1>1. /\ LinesInv /\ setup \in Setups /\ LoadDir(setup.scenarios)
  BY DEF Inv, LoopInv
<1>2. \A i \in DOMAIN file : Line(file[i]) /\ file[i] # Torn
  <2> TAKE i \in DOMAIN file
  <2>1. PICK it, a, p : Planned(it, a, p) /\ LineOf(file[i], it, a, p)
    BY <1>1 DEF LinesInv
  <2>2. file[i].category \in {"regular", "stress"}
    BY <1>1, <2>1 DEF LineOf, Planned, LoadDir
  <2> QED BY <2>1, <2>2 DEF LineOf, Line, Torn
<1>3. Len(file) \in Nat
  <2>1. PICK R : file \in Seq(R)
    BY <1>1 DEF LinesInv
  <2> QED BY <2>1
<1> QED BY <1>1, <1>2, <1>3 DEF LinesInv

\* Nor is the line that is about to be written.
LEMMA RecordIsLine ==
  ASSUME Inv, stage = "append"
  PROVE  Line(record) /\ record # Torn
<1>1. /\ LineOf(record, iteration, Arm, Place)
      /\ Place \in DOMAIN setup.scenarios /\ LoadDir(setup.scenarios)
  BY Current DEF Inv, RecordInv, LoopInv, Active, InFlow
<1> QED BY <1>1 DEF LineOf, Line, LoadDir, Torn

LEMMA ActiveFileInv == Inv /\ Active => FileInv
<1> SUFFICES ASSUME Inv, Active
             PROVE  FileInv
  OBVIOUS
<1>1. PICK R : file \in Seq(R)
  BY ActiveFile
<1>2. DOMAIN file = 1..Len(file) /\ Len(file) \in Nat
  BY <1>1
<1>3. Cardinality({i \in DOMAIN file : file[i] # Torn}) = Len(file)
  BY <1>2, ActiveFile, TornLast
<1> QED BY <1>1, <1>3, ActiveFile DEF FileInv

\* The type invariant is kept, the loops' invariant given.
LEMMA TypeStep ==
  ASSUME Inv, Inv', TypeInv, [Next]_vars
  PROVE  TypeInv'
<1>1. CASE UNCHANGED vars \/ Ended
  <2>1. UNCHANGED <<setup, cli, stage, iteration, arms, left, flow, sess, file, total>>
    BY <1>1 DEF vars, loops, Ended
  <2>2. AllArms' = AllArms
    BY <2>1 DEF AllArms
  <2> QED BY <2>1, <2>2 DEF TypeInv, FileInv, Line
<1>2. CASE Start
  <2>1. /\ UNCHANGED <<setup, cli, iteration, flow, sess, file, total>>
        /\ stage = "start" /\ stage' \in {"open", "exited"}
        /\ arms' = AllArms /\ left' = DOMAIN setup.scenarios /\ AllArms' = AllArms
        /\ file = << >> /\ total = 0
    BY <1>2 DEF Start, AllArms, Inv, LoopInv
  <2>2. FileInv'
    BY <2>1 DEF TypeInv, FileInv
  <2> QED BY <2>1, <2>2 DEF TypeInv
<1>3. CASE OpenSession \/ FailSession
  <2>1. /\ UNCHANGED <<setup, cli, iteration, arms, left, file, total>>
        /\ stage = "open" /\ stage' = "ask" /\ flow' = NextFlow
        /\ sess' = NoSession \/ \E id : sess' = [local |-> id, remote |-> NoId]
        /\ AllArms' = AllArms
    BY <1>3 DEF OpenSession, FailSession, AllArms, NewSession
  <2>2. NextFlow \subseteq left
    BY <2>1, Current DEF Inv, Active
  <2>3. FileInv'
    <3>1. Active'
      BY <2>1 DEF Active
    <3> QED BY <3>1, ActiveFileInv, PTL
  <2>4. sess' = NoSession \/ {"local", "remote"} = DOMAIN sess'
    BY <2>1
  <2> QED BY <2>1, <2>2, <2>3, <2>4 DEF TypeInv
<1>4. CASE RecordRefusal \/ Answer \/ Failure \/ Hang \/ Timeout
  <2>1. /\ UNCHANGED <<setup, cli, iteration, arms, left, flow, file, total>>
        /\ stage \in {"ask", "hung"} /\ stage' \in {"append", "hung"}
        /\ sess' = sess \/ (sess # NoSession /\ \E id : sess' = Remember(sess, id))
        /\ AllArms' = AllArms
    BY <1>4 DEF RecordRefusal, Answer, Failure, Hang, Timeout, loops, AllArms
  <2>2. sess' = NoSession \/ {"local", "remote"} = DOMAIN sess'
    BY <2>1 DEF TypeInv, Remember
  <2>3. FileInv'
    <3>1. Active'
      BY <2>1 DEF Active
    <3> QED BY <3>1, ActiveFileInv, PTL
  <2> QED BY <2>1, <2>2, <2>3 DEF TypeInv
<1>5. CASE AppendRecord
  <2>1. /\ setup' = setup /\ cli' = cli /\ sess' = sess /\ AllArms' = AllArms
        /\ stage = "append" /\ NextScenario /\ stage' \in {"open", "ask"}
    BY <1>5 DEF AppendRecord, AllArms, NextScenario
  <2>2. FileInv'
    <3>1. Active'
      BY <2>1 DEF Active
    <3> QED BY <3>1, ActiveFileInv, PTL
  <2>3. /\ iteration' \in 1..(setup.iterations + 1) /\ arms' \subseteq AllArms
        /\ left' \subseteq DOMAIN setup.scenarios
        /\ stage' = "ask" => flow' = left' \cap Regular
    BY <2>1, Passing DEF Inv
  <2>4. stage' = "open" => flow' = {}
    BY <2>1 DEF NextScenario
  <2> QED BY <2>1, <2>2, <2>3, <2>4 DEF TypeInv
<1>6. CASE Finish \/ FailManifest \/ FailAppend \/ Kill
  <2>1. /\ UNCHANGED <<setup, cli, iteration, arms, left, flow, sess, total>>
        /\ AllArms' = AllArms /\ Active /\ stage' \in {"done", "exited"}
        /\ \/ file' = file
           \/ file' = Append(file, Torn) /\ stage' = "exited"
           \/ file' = Append(file, record) /\ stage = "append" /\ stage' = "exited"
    BY <1>6 DEF Finish, FailManifest, FailAppend, Kill, loops, AllArms, Active
  <2>2. PICK R : file \in Seq(R)
    BY <2>1, ActiveFile
  <2>3. /\ total = Len(file) /\ Len(file) \in Nat /\ DOMAIN file = 1..Len(file)
        /\ \A i \in DOMAIN file : Line(file[i]) /\ file[i] # Torn
    BY <2>1, <2>2, ActiveFile
  <2>4. CASE file' = file
    <3>1. FileInv
      BY <2>1, ActiveFileInv
    <3>2. Cardinality({i \in DOMAIN file : file[i] # Torn}) = total
      BY <2>3, TornLast
    <3>3. FileInv'
      BY <2>1, <2>3, <2>4, <3>1, <3>2 DEF FileInv, Line
    <3> QED BY <2>1, <3>3 DEF TypeInv
  <2>5. CASE file' = Append(file, Torn) /\ stage' = "exited"
    <3>1. /\ file' \in Seq(R \cup {Torn}) /\ Len(file') = Len(file) + 1
          /\ DOMAIN file' = 1..(Len(file) + 1) /\ file'[Len(file) + 1] = Torn
          /\ \A i \in 1..Len(file) : file'[i] = file[i]
      BY <2>2, <2>5
    <3>2. Cardinality({i \in DOMAIN file' : file'[i] # Torn}) = Len(file)
      BY <2>3, <3>1, TornLast
    <3>3. \A i \in DOMAIN file' : (file'[i] = Torn /\ i = Len(file')) \/ Line(file'[i])
      <4> TAKE i \in DOMAIN file'
      <4>1. i \in 1..Len(file) \/ i = Len(file) + 1
        BY <2>3, <3>1
      <4> QED BY <2>3, <3>1, <4>1
    <3>4. FileInv'
      BY <2>1, <2>3, <2>5, <3>1, <3>2, <3>3 DEF FileInv, Line
    <3> QED BY <2>1, <3>4 DEF TypeInv
  <2>6. CASE file' = Append(file, record) /\ stage = "append" /\ stage' = "exited"
    <3>1. /\ file' \in Seq(R \cup {record}) /\ Len(file') = Len(file) + 1
          /\ DOMAIN file' = 1..(Len(file) + 1) /\ file'[Len(file) + 1] = record
          /\ \A i \in 1..Len(file) : file'[i] = file[i]
      BY <2>2, <2>6
    <3>2. Line(record) /\ record # Torn
      BY <2>6, RecordIsLine
    <3>3. \A i \in DOMAIN file' : Line(file'[i]) /\ file'[i] # Torn
      <4> TAKE i \in DOMAIN file'
      <4>1. i \in 1..Len(file) \/ i = Len(file) + 1
        BY <2>3, <3>1
      <4> QED BY <2>3, <3>1, <3>2, <4>1
    <3>4. Cardinality({i \in DOMAIN file' : file'[i] # Torn}) = total + 1
      <4>1. /\ Len(file) + 1 \in Nat /\ total + 1 = Len(file) + 1
            /\ Len(file) + 1 + 1 \notin DOMAIN file'
        BY <2>3, <3>1
      <4> QED BY <3>1, <3>3, <4>1, TornLast
    <3>5. FileInv'
      BY <2>1, <2>6, <3>1, <3>3, <3>4 DEF FileInv, Line
    <3> QED BY <2>1, <3>5 DEF TypeInv
  <2> QED BY <2>1, <2>4, <2>5, <2>6
<1> QED BY <1>1, <1>2, <1>3, <1>4, <1>5, <1>6 DEF Next, Step

LEMMA TypesAgree ==
  ASSUME Inv, TypeInv
  PROVE  BenchTypeOK
<1>1. setup \in Setups /\ (InFlow => iteration <= setup.iterations /\ flow # {})
  BY DEF Inv, LoopInv
<1>2. stage = "append" => record # NoRecord
  BY DEF Inv, RecordInv, LineOf, NoRecord
<1>3. \A i \in DOMAIN file : file[i] = Torn => i = Len(file) /\ stage = "exited"
  BY DEF TypeInv, FileInv, Line, Torn
<1> QED BY <1>1, <1>2, <1>3 DEF TypeInv, FileInv, BenchTypeOK, InFlow

LEMMA InitType == Init => TypeInv
<1> SUFFICES ASSUME Init
             PROVE  TypeInv
  OBVIOUS
<1>1. FileInv
  <2>1. DOMAIN file = {} /\ file \in Seq({})
    BY DEF Init
  <2>2. Cardinality({i \in DOMAIN file : file[i] # Torn}) = 0
    BY <2>1, FS_EmptySet
  <2> QED BY <2>1, <2>2 DEF FileInv, Init
<1> QED BY <1>1 DEF Init, TypeInv

\* The loops stay in their lists, a torn line is the last one of a run that broke
\* off, and the lines that are not torn are those counted, and one more at most when
\* the run broke off right after it.
THEOREM BenchTypes == Spec => []BenchTypeOK
<1>1. Init => Inv /\ TypeInv
  BY InitInv, InitType
<1>2. Inv /\ TypeInv /\ [Next]_vars => Inv' /\ TypeInv'
  BY InvStep, TypeStep
<1>3. Inv /\ TypeInv => BenchTypeOK
  BY TypesAgree
<1> QED BY <1>1, <1>2, <1>3, PTL DEF Spec

-----------------------------------------------------------------------------
\* The flow of a triple of the plan, as FlowOf has it of a record.
Key(it, a, p) ==
    <<it, ArmName(a), setup.scenarios[p].category,
      IF setup.scenarios[p].category = "regular" THEN "" ELSE setup.scenarios[p].id>>

\* A session id given out in this flow, by the CLI or by the provider itself.
IdOf(id, key) ==
    \E it, a, p, by : Planned(it, a, p) /\ id = <<by, it, a, p>> /\ Key(it, a, p) = key

CurrentKey == Key(iteration, Arm, Place)

\* Every flow has one session id of its own in its complete lines.  A CLI that
\* reports its ids gives those of the conversations.
LinesTalk ==
    /\ \A i \in DOMAIN file : file[i].complete =>
          /\ IdOf(file[i].session, FlowOf(file[i]))
          /\ cli = "echo" => file[i].session = file[i].talk
    /\ \A i, j \in DOMAIN file :
          file[i].complete /\ file[j].complete /\ FlowOf(file[i]) = FlowOf(file[j])
          => file[i].session = file[j].session

SessionTalk ==
    /\ sess # NoSession =>
          /\ sess = [local |-> sess.local, remote |-> sess.remote]
          /\ IdOf(ID(sess), CurrentKey)
          /\ cli = "none" => sess.remote = NoId
    /\ \A i \in DOMAIN file : file[i].complete /\ FlowOf(file[i]) = CurrentKey
          => /\ sess # NoSession /\ file[i].session = ID(sess)
             /\ cli = "echo" => sess.remote # NoId

RecordTalk ==
    stage = "append" /\ record.complete =>
        /\ sess # NoSession /\ record.session = ID(sess)
        /\ cli = "echo" => sess.remote # NoId /\ record.talk = record.session

\* What holds when the loops have ended.
OneSession ==
    \A i, j \in DOMAIN file :
        /\ file[i] # Torn /\ file[j] # Torn
        /\ file[i].complete /\ file[j].complete
        => /\ file[i].session = file[j].session <=> FlowOf(file[i]) = FlowOf(file[j])
           /\ cli = "echo" => file[i].session = file[i].talk

TalkInv ==
    /\ cli \in {"echo", "fork", "none"}
    /\ cli # "fork" =>
          /\ IF Active THEN LinesTalk ELSE OneSession
          /\ InFlow => SessionTalk /\ RecordTalk

\* A line's flow is that of the triple it is about.
LEMMA LineHasKey ==
  ASSUME NEW rec, NEW it, NEW a, NEW p, LineOf(rec, it, a, p)
  PROVE  FlowOf(rec) = Key(it, a, p)
BY DEF LineOf, FlowOf, Key

\* A flow that begins has no lines yet.
LEMMA FlowIsNew ==
  ASSUME LoopInv, LinesInv, stage = "open", iteration <= setup.iterations
  PROVE  \A i \in DOMAIN file : FlowOf(file[i]) # Key(iteration, Arm, FirstOf(NextFlow))
<1> DEFINE first == FirstOf(NextFlow)
<1>1. /\ Active /\ setup \in Setups /\ LoadDir(setup.scenarios) /\ left \subseteq DOMAIN setup.scenarios
      /\ left \cap Regular \in {{}, Regular} /\ Arm \in AllArms /\ Arm \in arms
      /\ NextFlow # {} /\ NextFlow \subseteq left
      /\ DOMAIN setup.scenarios \subseteq Nat
  BY Current, ArmsAreNat DEF LoopInv, Active, InFlow
<1>2. first \in NextFlow /\ first \in left /\ first \in DOMAIN setup.scenarios
  BY <1>1, FirstIsLeast
<1> SUFFICES ASSUME NEW i \in DOMAIN file, FlowOf(file[i]) = Key(iteration, Arm, first)
             PROVE  FALSE
  OBVIOUS
<1>3. PICK it, a, p : Planned(it, a, p) /\ Recorded(it, a, p) /\ LineOf(file[i], it, a, p)
  BY <1>1 DEF LinesInv
<1>4. Key(it, a, p) = Key(iteration, Arm, first)
  BY <1>3, LineHasKey
<1>5. /\ it = iteration /\ ArmName(a) = ArmName(Arm)
      /\ setup.scenarios[p].category = setup.scenarios[first].category
      /\ setup.scenarios[p].category # "regular" =>
            setup.scenarios[p].id = setup.scenarios[first].id
  BY <1>4 DEF Key
<1>6. a \in AllArms /\ p \in DOMAIN setup.scenarios
  BY <1>3 DEF Planned
<1>7. a = Arm
  BY <1>1, <1>2, <1>5, <1>6, CellsDiffer
<1>8. p \notin left
  <2>1. it \in Int /\ ~(it < iteration)
    BY <1>1, <1>3, <1>5, ArmsAreNat DEF Planned
  <2> QED BY <1>1, <1>3, <1>7, <2>1 DEF Recorded
<1>9. CASE left \cap Regular # {}
  <2>1. first \in Regular /\ Regular \subseteq left
    BY <1>1, <1>2, <1>9 DEF NextFlow
  <2>2. setup.scenarios[p].category # "stress"
    BY <1>5, <2>1 DEF Regular
  <2> QED BY <1>6, <1>8, <2>1, <2>2 DEF Regular
<1>10. CASE left \cap Regular = {}
  <2>1. setup.scenarios[first].category = "stress"
    BY <1>2, <1>10 DEF Regular
  <2>2. p = first
    BY <1>1, <1>2, <1>5, <1>6, <2>1, CellsDiffer
  <2> QED BY <1>2, <1>8, <2>2
<1> QED BY <1>9, <1>10

\* What the lines say of sessions, line by line.
LEMMA LinesAgree == LinesTalk => OneSession
<1> SUFFICES ASSUME LinesTalk
             PROVE  OneSession
  OBVIOUS
<1>1. \A id, key, other : IdOf(id, key) /\ IdOf(id, other) => key = other
  <2> SUFFICES ASSUME NEW id, NEW key, NEW other, IdOf(id, key), IdOf(id, other)
               PROVE  key = other
    OBVIOUS
  <2>1. PICK it, a, p, by : id = <<by, it, a, p>> /\ Key(it, a, p) = key
    BY DEF IdOf
  <2>2. PICK jt, b, q, to : id = <<to, jt, b, q>> /\ Key(jt, b, q) = other
    BY DEF IdOf
  <2>3. it = jt /\ a = b /\ p = q
    BY <2>1, <2>2
  <2> QED BY <2>1, <2>2, <2>3
<1> QED BY <1>1 DEF LinesTalk, OneSession

\* Keys and ids depend on the setup alone.
LEMMA SameKeys ==
  ASSUME setup' = setup
  PROVE  /\ \A it, a, p : Key(it, a, p)' = Key(it, a, p)
         /\ \A id, key : IdOf(id, key)' <=> IdOf(id, key)
<1>1. \A it, a, p : Key(it, a, p)' = Key(it, a, p)
  BY DEF Key, ArmName
<1>2. \A it, a, p : Planned(it, a, p)' <=> Planned(it, a, p)
  BY DEF Planned, AllArms
<1> QED BY <1>1, <1>2 DEF IdOf

\* What holds of the sessions of the lines outlives a step that adds no line.
LEMMA LinesTalkStay ==
  ASSUME LinesTalk, setup' = setup, file' = file, cli' = cli
  PROVE  LinesTalk'
<1>1. \A i \in DOMAIN file' : FlowOf(file[i])' = FlowOf(file[i])
  BY DEF FlowOf
<1>2. \A i \in DOMAIN file' :
         IdOf(file[i].session, FlowOf(file[i]))' <=> IdOf(file[i].session, FlowOf(file[i]))
  BY SameKeys, <1>1 DEF IdOf
<1> QED BY <1>1, <1>2 DEF LinesTalk

LEMMA SameFileSameTalk ==
  ASSUME OneSession, file' = file, cli' = cli
  PROVE  OneSession'
<1>1. \A i \in DOMAIN file' : FlowOf(file[i])' = FlowOf(file[i])
  BY DEF FlowOf
<1> QED BY <1>1 DEF OneSession

\* What is known of a session outlives a step that leaves it, the lines and the
\* place in the loops alone.
LEMMA SessionTalkStays ==
  ASSUME SessionTalk, CurrentKey' = CurrentKey,
         setup' = setup, file' = file, cli' = cli, sess' = sess
  PROVE  SessionTalk'
<1>1. \A i \in DOMAIN file' : FlowOf(file[i])' = FlowOf(file[i])
  BY DEF FlowOf
<1>2. ID(sess)' = ID(sess)
  BY DEF ID
<1>3. IdOf(ID(sess), CurrentKey)' <=> IdOf(ID(sess), CurrentKey)
  BY <1>2, SameKeys DEF IdOf
<1> QED BY <1>1, <1>2, <1>3 DEF SessionTalk

\* A flow begins with a session that has its own id, and has no lines.
LEMMA TalkOpen ==
  ASSUME Inv, TalkInv, OpenSession \/ FailSession, cli # "fork"
  PROVE  TalkInv'
<1>1. /\ stage = "open" /\ stage' = "ask" /\ iteration <= setup.iterations /\ flow' = NextFlow
      /\ setup' = setup /\ iteration' = iteration /\ arms' = arms /\ file' = file /\ cli' = cli
      /\ Active /\ LoopInv /\ LinesInv /\ LinesTalk
  BY DEF OpenSession, FailSession, Inv, TalkInv, Active
<1>2. LinesTalk'
  BY <1>1, LinesTalkStay
<1> DEFINE first == FirstOf(NextFlow)
<1>3. CurrentKey' = Key(iteration, Arm, first)
  BY <1>1, SameKeys DEF CurrentKey, Place, Arm, Key, ArmName
<1>4. \A i \in DOMAIN file' : FlowOf(file[i])' # CurrentKey'
  BY <1>1, <1>3, FlowIsNew DEF FlowOf
<1>5. sess' = NoSession \/ sess' = [local |-> <<"local", iteration, Arm, first>>, remote |-> NoId]
  BY DEF OpenSession, FailSession, NewSession
<1>6. Planned(iteration, Arm, first)
  <2>1. iteration \in 1..setup.iterations /\ setup \in Setups
        /\ left \subseteq DOMAIN setup.scenarios
    BY <1>1, ArmsAreNat DEF LoopInv
  <2>2. NextFlow # {} /\ NextFlow \subseteq DOMAIN setup.scenarios /\ Arm \in AllArms
    BY <1>1, <2>1, Current
  <2>3. first \in NextFlow
    BY <2>1, <2>2, ArmsAreNat, FirstIsLeast
  <2> QED BY <2>1, <2>2, <2>3 DEF Planned
<1>7. sess' # NoSession => /\ sess' = [local |-> sess'.local, remote |-> sess'.remote]
                          /\ sess'.remote = NoId /\ ID(sess') = <<"local", iteration, Arm, first>>
  BY <1>5 DEF ID
<1>8. IdOf(<<"local", iteration, Arm, first>>, CurrentKey')
  BY <1>3, <1>6 DEF IdOf
<1>9. sess' # NoSession => IdOf(ID(sess), CurrentKey)'
  BY <1>1, <1>7, <1>8, SameKeys DEF IdOf
<1>10. SessionTalk'
  BY <1>4, <1>7, <1>9 DEF SessionTalk
<1> QED BY <1>1, <1>2, <1>10 DEF TalkInv, RecordTalk, Active

\* With the CLI's ids, the first answer of a session begins a conversation of the flow
\* and the next ones go on with it; without, the session's own id stays.  A query
\* without an answer leaves session and conversation alone.
LEMMA TalkQuery ==
  ASSUME Inv, TalkInv, RecordRefusal \/ Answer \/ Failure \/ Hang \/ Timeout, cli # "fork"
  PROVE  TalkInv'
<1>1. /\ stage \in {"ask", "hung"} /\ stage' \in {"append", "hung"}
      /\ UNCHANGED <<setup, cli, iteration, arms, flow, file>>
  BY DEF RecordRefusal, Answer, Failure, Hang, Timeout, loops
<1>2. /\ Active /\ InFlow /\ LoopInv /\ LinesTalk /\ SessionTalk /\ cli \in {"echo", "none"}
  BY <1>1 DEF Inv, TalkInv, Active, InFlow
<1>3. LinesTalk'
  BY <1>1, <1>2, LinesTalkStay
<1>4. CurrentKey' = CurrentKey
  BY <1>1 DEF CurrentKey, Key, ArmName, Arm, Place
<1>5. sess' = sess => SessionTalk'
  BY <1>1, <1>2, <1>4, SessionTalkStays
<1>6. SessionTalk' /\ RecordTalk'
  <2>1. CASE Answer
    <3>1. PICK reply \in setup.replies, wall \in setup.walls :
             /\ sess' = Remember(sess, ReportedId(cli, sess.remote, Fresh))
             /\ record' = AnsweredRecord(ID(sess'), Talk(cli, sess.remote, Fresh), reply, wall)
      BY <2>1 DEF Answer
    <3>2. /\ sess # NoSession /\ sess = [local |-> sess.local, remote |-> sess.remote]
          /\ IdOf(ID(sess), CurrentKey) /\ (cli = "none" => sess.remote = NoId)
      BY <1>2, <2>1 DEF Answer, SessionTalk
    <3> DEFINE talk == Talk(cli, sess.remote, Fresh)
    <3>3. record'.session = ID(sess') /\ record'.talk = talk
      BY <3>1 DEF AnsweredRecord, RunRecord
    <3>4. CASE cli = "none"
      <4>1. sess' = sess
        BY <3>1, <3>4 DEF Remember, ReportedId
      <4> QED BY <1>1, <1>5, <3>2, <3>3, <3>4, <4>1 DEF RecordTalk
    <3>5. CASE cli = "echo"
      <4>1. talk = IF sess.remote # NoId THEN sess.remote ELSE Fresh
        BY <3>5 DEF Talk
      <4>2. talk # NoId
        BY <4>1 DEF Fresh, NoId
      <4>3. sess' = [local |-> sess.local, remote |-> talk]
        BY <3>1, <3>2, <3>5, <4>2 DEF Remember, ReportedId
      <4>4. sess' # NoSession /\ sess'.remote = talk /\ sess'.local = sess.local
        BY <4>3 DEF NoSession
      <4>5. ID(sess') = talk
        BY <4>2, <4>4 DEF ID
      <4>6. IdOf(talk, CurrentKey)
        <5>1. CASE sess.remote # NoId
          BY <3>2, <4>1, <5>1 DEF ID
        <5>2. CASE sess.remote = NoId
          <6>1. iteration \in 1..setup.iterations
            BY <1>2, ArmsAreNat DEF LoopInv
          <6>2. Planned(iteration, Arm, Place)
            BY <1>2, <6>1, Current DEF Planned
          <6> QED BY <4>1, <5>2, <6>2 DEF IdOf, CurrentKey, Fresh
        <5> QED BY <5>1, <5>2
      <4>7. IdOf(ID(sess), CurrentKey)'
        BY <1>1, <1>4, <4>5, <4>6, SameKeys DEF IdOf
      <4>8. \A i \in DOMAIN file : file[i].complete /\ FlowOf(file[i]) = CurrentKey
               => file[i].session = talk
        <5> SUFFICES ASSUME NEW i \in DOMAIN file, file[i].complete, FlowOf(file[i]) = CurrentKey
                     PROVE  file[i].session = talk
          OBVIOUS
        <5>1. file[i].session = ID(sess) /\ sess.remote # NoId
          BY <1>2, <3>5 DEF SessionTalk
        <5> QED BY <4>1, <5>1 DEF ID
      <4>9. \A i \in DOMAIN file' : FlowOf(file[i])' = FlowOf(file[i])
        BY <1>1 DEF FlowOf
      <4>10. SessionTalk'
        BY <1>1, <1>4, <3>5, <4>2, <4>3, <4>4, <4>5, <4>7, <4>8, <4>9 DEF SessionTalk
      <4> QED BY <3>3, <4>2, <4>4, <4>5, <4>10 DEF RecordTalk
    <3> QED BY <1>2, <3>4, <3>5
  <2>2. CASE Hang
    BY <1>5, <2>2 DEF Hang, RecordTalk
  <2>3. CASE RecordRefusal \/ Failure \/ Timeout
    <3>1. sess' = sess
      BY <2>3 DEF RecordRefusal, Failure, Timeout
    <3>2. \E session, wall, reasons, long :
             reasons # {} /\ record' = FailedRecord(session, wall, reasons, long)
      <4>1. CASE RecordRefusal
        BY <4>1 DEF RecordRefusal
      <4>2. CASE Failure
        BY <4>2 DEF Failure
      <4>3. CASE Timeout
        BY <4>3 DEF Timeout
      <4> QED BY <2>3, <4>1, <4>2, <4>3
    <3>3. ~record'.complete
      <4>1. PICK session, wall, reasons, long :
               reasons # {} /\ record' = FailedRecord(session, wall, reasons, long)
        BY <3>2
      <4>2. record'.complete = (reasons = {})
        BY <4>1 DEF FailedRecord, RunRecord
      <4> QED BY <4>1, <4>2
    <3> QED BY <1>5, <3>1, <3>3 DEF RecordTalk
  <2> QED BY <2>1, <2>2, <2>3
<1> QED BY <1>1, <1>2, <1>3, <1>6 DEF TalkInv, Active

\* The new line agrees with the flow's other lines.
LEMMA LineTalks ==
  ASSUME Inv, TalkInv, stage = "append", file' = Append(file, record),
         setup' = setup, cli' = cli, cli # "fork"
  PROVE  /\ LinesTalk'
         /\ \A i \in DOMAIN file' :
               file'[i].complete /\ FlowOf(file'[i]) = CurrentKey
               => /\ sess # NoSession /\ file'[i].session = ID(sess)
                  /\ cli = "echo" => sess.remote # NoId
<1>1. /\ setup' = setup /\ cli' = cli /\ file' = Append(file, record) /\ stage = "append"
      /\ LoopInv /\ LinesInv /\ Active /\ InFlow /\ LinesTalk /\ SessionTalk /\ RecordTalk
  BY DEF Inv, TalkInv, Active, InFlow
<1>2. /\ \A i \in DOMAIN file : file'[i] = file[i]
      /\ file'[Len(file) + 1] = record
      /\ \A i \in DOMAIN file' : i \in DOMAIN file \/ i = Len(file) + 1
  BY <1>1, LineAdded
<1>3. FlowOf(record) = CurrentKey
  BY <1>1, LineHasKey DEF Inv, RecordInv, CurrentKey
<1>4. record.complete => /\ sess # NoSession /\ record.session = ID(sess)
                         /\ IdOf(record.session, FlowOf(record))
                         /\ cli = "echo" => sess.remote # NoId /\ record.session = record.talk
  BY <1>1, <1>3 DEF RecordTalk, SessionTalk
<1>5. \A i \in DOMAIN file' : file'[i].complete =>
          /\ IdOf(file'[i].session, FlowOf(file'[i]))
          /\ cli = "echo" => file'[i].session = file'[i].talk
  <2> SUFFICES ASSUME NEW i \in DOMAIN file', file'[i].complete
               PROVE  /\ IdOf(file'[i].session, FlowOf(file'[i]))
                      /\ cli = "echo" => file'[i].session = file'[i].talk
    OBVIOUS
  <2>1. CASE i \in DOMAIN file
    BY <1>1, <1>2, <2>1 DEF LinesTalk
  <2>2. CASE i = Len(file) + 1
    BY <1>2, <1>4, <2>2
  <2> QED BY <1>2, <2>1, <2>2
<1>6. \A i \in DOMAIN file' :
          file'[i].complete /\ FlowOf(file'[i]) = CurrentKey
          => /\ sess # NoSession /\ file'[i].session = ID(sess)
             /\ cli = "echo" => sess.remote # NoId
  <2> SUFFICES ASSUME NEW i \in DOMAIN file', file'[i].complete, FlowOf(file'[i]) = CurrentKey
               PROVE  /\ sess # NoSession /\ file'[i].session = ID(sess)
                      /\ cli = "echo" => sess.remote # NoId
    OBVIOUS
  <2>1. CASE i \in DOMAIN file
    BY <1>1, <1>2, <2>1 DEF SessionTalk
  <2>2. CASE i = Len(file) + 1
    BY <1>2, <1>4, <2>2
  <2> QED BY <1>2, <2>1, <2>2
<1>7. \A i, j \in DOMAIN file' :
          file'[i].complete /\ file'[j].complete /\ FlowOf(file'[i]) = FlowOf(file'[j])
          => file'[i].session = file'[j].session
  <2> SUFFICES ASSUME NEW i \in DOMAIN file', NEW j \in DOMAIN file',
                      file'[i].complete, file'[j].complete, FlowOf(file'[i]) = FlowOf(file'[j])
               PROVE  file'[i].session = file'[j].session
    OBVIOUS
  <2>1. CASE FlowOf(file'[i]) = CurrentKey
    BY <1>6, <2>1
  <2>2. CASE FlowOf(file'[i]) # CurrentKey
    <3>1. i \in DOMAIN file /\ j \in DOMAIN file
      BY <1>2, <1>3, <2>2
    <3> QED BY <1>1, <1>2, <3>1 DEF LinesTalk
  <2> QED BY <2>1, <2>2
<1>8. \A i \in DOMAIN file' : FlowOf(file[i])' = FlowOf(file'[i])
  BY DEF FlowOf
<1>9. LinesTalk'
  <2>1. \A i \in DOMAIN file' :
           IdOf(file[i].session, FlowOf(file[i]))' <=> IdOf(file'[i].session, FlowOf(file'[i]))
    BY <1>1, <1>8 DEF IdOf, Planned, Key, ArmName, AllArms
  <2> QED BY <1>1, <1>5, <1>7, <1>8, <2>1 DEF LinesTalk
<1> QED BY <1>6, <1>9

\* The flow goes on with its session, or ends.
LEMMA TalkAppend ==
  ASSUME Inv, TalkInv, AppendRecord, cli # "fork"
  PROVE  TalkInv'
<1>1. /\ stage = "append" /\ NextScenario /\ file' = Append(file, record)
      /\ setup' = setup /\ cli' = cli /\ sess' = sess
      /\ LoopInv /\ LinesInv /\ Active /\ InFlow /\ LinesTalk /\ SessionTalk /\ RecordTalk
  BY DEF AppendRecord, Inv, TalkInv, Active, InFlow
<1>2. /\ LinesTalk'
      /\ \A i \in DOMAIN file' :
            file'[i].complete /\ FlowOf(file'[i]) = CurrentKey
            => /\ sess # NoSession /\ file'[i].session = ID(sess)
               /\ cli = "echo" => sess.remote # NoId
  BY <1>1, LineTalks
<1>3. \A i \in DOMAIN file' : FlowOf(file[i])' = FlowOf(file'[i])
  BY DEF FlowOf
<1>4. stage' = "ask" => CurrentKey' = CurrentKey
  <2> SUFFICES ASSUME stage' = "ask"
               PROVE  CurrentKey' = CurrentKey
    OBVIOUS
  <2>1. /\ iteration' = iteration /\ arms' = arms /\ left' \subseteq DOMAIN setup.scenarios
        /\ flow' # {} /\ flow' = left' \cap Regular /\ flow = left \cap Regular
    BY <1>1, Passing
  <2>2. setup \in Setups /\ LoadDir(setup.scenarios) /\ Place \in flow
    BY <1>1, Current DEF LoopInv
  <2>3. Place' \in flow'
    <3>1. flow' \subseteq Nat
      BY <2>1, <2>2, ArmsAreNat
    <3>2. FirstOf(flow') \in flow'
      BY <2>1, <3>1, FirstIsLeast
    <3> QED BY <3>2 DEF Place
  <2>4. Place \in Regular /\ Place' \in Regular
    BY <2>1, <2>2, <2>3
  <2>5. /\ setup.scenarios[Place].category = "regular"
        /\ setup.scenarios[Place'].category = "regular"
    BY <2>2, <2>4 DEF Regular, LoadDir
  <2>6. Arm' = Arm
    BY <2>1 DEF Arm
  <2> QED BY <1>1, <2>1, <2>5, <2>6 DEF CurrentKey, Key, ArmName
<1>5. stage' \in {"open", "ask"}
  BY <1>1 DEF NextScenario
<1>6. stage' = "ask" => SessionTalk'
  <2> SUFFICES ASSUME stage' = "ask"
               PROVE  SessionTalk'
    OBVIOUS
  <2>1. ID(sess)' = ID(sess)
    BY <1>1 DEF ID
  <2>2. IdOf(ID(sess), CurrentKey)' <=> IdOf(ID(sess), CurrentKey)
    BY <1>1, <1>4, <2>1, SameKeys DEF IdOf
  <2> QED BY <1>1, <1>2, <1>3, <1>4, <2>1, <2>2 DEF SessionTalk
<1> QED BY <1>1, <1>2, <1>5, <1>6 DEF TalkInv, RecordTalk, Active, InFlow

\* No line yet.
LEMMA TalkStart ==
  ASSUME Inv, TalkInv, Start
  PROVE  TalkInv'
<1>1. file' = << >> /\ stage' \in {"open", "exited"} /\ cli' = cli
  BY DEF Inv, LoopInv, Start
<1>2. LinesTalk' /\ OneSession'
  BY <1>1 DEF LinesTalk, OneSession
<1> QED BY <1>1, <1>2 DEF TalkInv, InFlow

\* At most one line is added, torn or the record's.
LEMMA TalkEnd ==
  ASSUME Inv, TalkInv, Finish \/ FailManifest \/ FailAppend \/ Kill, cli # "fork"
  PROVE  TalkInv'
<1>1. /\ Active /\ stage' \in {"done", "exited"} /\ cli' = cli /\ setup' = setup
      /\ \/ file' \in {file, Append(file, Torn)}
         \/ file' = Append(file, record) /\ stage = "append" /\ stage' = "exited"
      /\ stage' = "done" => file' = file
  BY DEF Finish, FailManifest, FailAppend, Kill, Active
<1>2. LinesTalk /\ OneSession
  BY <1>1, LinesAgree DEF TalkInv
<1>3. CASE file' = file
  <2>1. LinesTalk' /\ OneSession'
    BY <1>1, <1>2, <1>3, LinesTalkStay, SameFileSameTalk
  <2> QED BY <1>1, <2>1 DEF TalkInv, InFlow
<1>4. CASE file' = Append(file, Torn)
  <2>1. PICK R : file \in Seq(R)
    BY <1>1 DEF Inv, LinesInv
  <2>2. \A i \in DOMAIN file' : file'[i] # Torn => i \in DOMAIN file /\ file'[i] = file[i]
    BY <1>4, <2>1
  <2>3. \A i \in DOMAIN file' : FlowOf(file[i])' = FlowOf(file'[i])
    BY DEF FlowOf
  <2>4. OneSession'
    <3> SUFFICES ASSUME NEW i \in DOMAIN file', NEW j \in DOMAIN file',
                        file'[i] # Torn, file'[j] # Torn, file'[i].complete, file'[j].complete
                 PROVE  /\ file'[i].session = file'[j].session <=> FlowOf(file'[i]) = FlowOf(file'[j])
                        /\ cli = "echo" => file'[i].session = file'[i].talk
      BY <1>1, <2>3 DEF OneSession
    <3>1. /\ i \in DOMAIN file /\ file'[i] = file[i]
          /\ j \in DOMAIN file /\ file'[j] = file[j]
      BY <2>2
    <3> QED BY <1>2, <3>1 DEF OneSession
  <2>5. Len(file') = Len(file) + 1 /\ Len(file) \in Nat
    BY <1>4, <2>1
  <2>6. stage' = "exited"
    BY <1>1, <2>5
  <2> QED BY <1>1, <2>4, <2>6 DEF TalkInv, InFlow, Active
<1>5. CASE file' = Append(file, record) /\ stage = "append" /\ stage' = "exited"
  <2>1. LinesTalk'
    BY <1>1, <1>5, LineTalks
  <2>2. OneSession'
    BY <2>1, LinesAgree, PTL
  <2> QED BY <1>1, <1>5, <2>2 DEF TalkInv, InFlow, Active
<1> QED BY <1>1, <1>3, <1>4, <1>5

\* Every step keeps what is known of sessions.
LEMMA TalkStep ==
  ASSUME Inv, TalkInv, [Next]_vars
  PROVE  TalkInv'
<1>1. CASE UNCHANGED vars
  <2>1. UNCHANGED <<setup, cli, stage, iteration, arms, flow, sess, record, file>>
    BY <1>1 DEF vars, loops
  <2>2. LinesTalk => LinesTalk'
    BY <2>1, LinesTalkStay
  <2>3. OneSession => OneSession'
    BY <2>1, SameFileSameTalk
  <2>4. CurrentKey' = CurrentKey
    BY <2>1 DEF CurrentKey, Key, ArmName, Arm, Place
  <2>5. SessionTalk => SessionTalk'
    BY <2>1, <2>4, SessionTalkStays
  <2>6. RecordTalk => RecordTalk'
    BY <2>1 DEF RecordTalk, ID
  <2> QED BY <2>1, <2>2, <2>3, <2>5, <2>6 DEF TalkInv, Active, InFlow
<1>2. CASE Next
  <2>1. cli' = cli
    BY <1>2 DEF Next, Step, Start, OpenSession, FailSession, RecordRefusal, Answer, Failure, Hang,
                Timeout, AppendRecord, FailAppend, Finish, FailManifest, Kill, Ended, vars, loops
  <2>2. cli = "fork" => TalkInv'
    BY <2>1 DEF TalkInv
  <2>3. CASE cli # "fork"
    <3>1. CASE Ended
      BY <1>1, <3>1 DEF Ended
    <3> QED BY <1>2, <2>3, <3>1, TalkStart, TalkOpen, TalkQuery, TalkAppend, TalkEnd DEF Next, Step
  <2> QED BY <2>2, <2>3
<1> QED BY <1>1, <1>2

\* Lines that are not torn, of flows with sessions, whatever the stage.
LEMMA Sessions == TalkInv /\ cli # "fork" => OneSession
BY LinesAgree DEF TalkInv

LEMMA InitTalk == Init => TalkInv
BY DEF Init, TalkInv, OneSession, Active, InFlow

\* With a CLI that resumes the conversation it is told to, a flow's complete records
\* are answers of one conversation, and no two flows share one: for all setups,
\* through queries that fail or hang and sessions that do not open.
THEOREM OneFlowOneTalk == Spec => []OneConversation
<1>1. Init => Inv /\ TalkInv
  BY InitInv, InitTalk
<1>2. Inv /\ TalkInv /\ [Next]_vars => Inv' /\ TalkInv'
  BY InvStep, TalkStep
<1>3. TalkInv => OneConversation
  BY Sessions DEF OneSession, OneConversation
<1> QED BY <1>1, <1>2, <1>3, PTL DEF Spec

\* Gate 6 compares session ids, and these tell flows apart.
LEMMA SixTellsFlows ==
  ASSUME TalkInv
  PROVE  GateSixExact
<1> SUFFICES ASSUME Loads(file), cli # "fork"
             PROVE  GateSix(file) <=>
                      \A i, j \in Complete(file) :
                          file[i].arm = file[j].arm /\ file[i].iteration = file[j].iteration
                          => FlowOf(file[i]) = FlowOf(file[j])
  BY DEF GateSixExact
<1>1. \A i \in Complete(file) : i \in DOMAIN file /\ file[i].complete /\ file[i] # Torn
  BY DEF Complete, Loads, IsTorn, Torn
<1>2. \A i, j \in Complete(file) :
          file[i].session = file[j].session <=> FlowOf(file[i]) = FlowOf(file[j])
  BY <1>1, Sessions DEF OneSession
<1> QED BY <1>2 DEF GateSix

\* Unless the CLI forks, Gate 6 fails exactly when an arm has complete records of
\* two flows in one iteration.
THEOREM GateSixTellsFlows == Spec => []GateSixExact
<1>1. Init => Inv /\ TalkInv
  BY InitInv, InitTalk
<1>2. Inv /\ TalkInv /\ [Next]_vars => Inv' /\ TalkInv'
  BY InvStep, TalkStep
<1>3. TalkInv => GateSixExact
  BY SixTellsFlows
<1> QED BY <1>1, <1>2, <1>3, PTL DEF Spec

-----------------------------------------------------------------------------
\* A function on positions has a largest value.
LEMMA LargestValue ==
  ASSUME NEW n \in Nat, NEW D \in SUBSET (1..n), D # {}, NEW values \in [D -> Nat]
  PROVE  \E i \in D : \A j \in D : values[j] <= values[i]
<1> DEFINE Bounds(m) == {b \in Nat : \A j \in D : j <= m => values[j] <= b}
           Above == {b \in Nat : \A j \in D : values[j] <= b}
           Unbounded == {m \in 0..n : Bounds(m) = {}}
<1>1. 0 \in Bounds(0)
  <2>1. \A j \in D : ~(j <= 0)
    OBVIOUS
  <2> QED BY <2>1
<1>2. ASSUME NEW m \in 1..n, NEW b \in Bounds(m - 1)
      PROVE  Bounds(m) # {}
  <2>1. \A j \in D : j <= m => j = m \/ j <= m - 1
    OBVIOUS
  <2>2. b \in Nat /\ \A j \in D : j <= m - 1 => values[j] <= b
    OBVIOUS
  <2>3. CASE m \in D /\ values[m] > b
    <3>1. values[m] \in Nat /\ \A j \in D : values[j] \in Nat
      BY <2>3
    <3>2. \A j \in D : j <= m => values[j] <= values[m]
      BY <2>1, <2>2, <2>3, <3>1
    <3> QED BY <3>1, <3>2
  <2>4. CASE ~(m \in D /\ values[m] > b)
    <3>1. \A j \in D : values[j] \in Nat
      OBVIOUS
    <3>2. \A j \in D : j <= m => values[j] <= b
      BY <2>1, <2>2, <2>4, <3>1
    <3> QED BY <2>2, <3>2
  <2> QED BY <2>3, <2>4
<1>3. Unbounded = {}
  <2> HIDE DEF Bounds
  <2> SUFFICES ASSUME Unbounded # {}
               PROVE  FALSE
    OBVIOUS
  <2>1. Unbounded \subseteq Nat
    OBVIOUS
  <2>2. PICK m \in Unbounded : \A y \in Unbounded : m <= y
    BY <2>1, FirstIsLeast
  <2>3. m \in 1..n
    BY <1>1, <2>2
  <2>4. m - 1 \in 0..n /\ ~(m <= m - 1)
    BY <2>3
  <2>5. Bounds(m - 1) # {}
    BY <2>2, <2>4
  <2> QED BY <1>2, <2>2, <2>3, <2>5
<1>4. Above # {}
  <2>1. Bounds(n) # {}
    <3> HIDE DEF Bounds
    <3>1. n \in 0..n
      OBVIOUS
    <3> QED BY <1>3, <3>1
  <2>2. PICK b \in Bounds(n) : TRUE
    BY <2>1
  <2>3. b \in Above
    <3>1. \A j \in D : j <= n
      OBVIOUS
    <3> QED BY <2>2, <3>1
  <2> QED BY <2>3
<1>5. PICK b \in Above : \A c \in Above : b <= c
  <2>1. Above \subseteq Nat
    OBVIOUS
  <2> QED BY <1>4, <2>1, FirstIsLeast
<1>6. \E i \in D : values[i] = b
  <2> SUFFICES ASSUME \A i \in D : values[i] # b
               PROVE  FALSE
    OBVIOUS
  <2>1. \A i \in D : values[i] \in Nat /\ values[i] <= b - 1
    BY <1>5
  <2>2. b - 1 \in Nat
    <3>1. PICK i \in D : TRUE
      OBVIOUS
    <3> QED BY <1>5, <2>1, <3>1
  <2>3. b - 1 \in Above
    BY <2>1, <2>2
  <2> QED BY <1>5, <2>2, <2>3
<1> QED BY <1>5, <1>6

\* There is a k-th smallest value, for k up to their number.
LEMMA RankIsValue ==
  ASSUME NEW n \in Nat, NEW D \in SUBSET (1..n), D # {}, NEW values \in [D -> Nat],
         NEW k \in Nat, k <= Cardinality(D)
  PROVE  Rank(values, k) \in Nat
<1> DEFINE upTo(x) == Cardinality({i \in DOMAIN values : values[i] <= x})
           high == {x \in {values[i] : i \in DOMAIN values} : upTo(x) >= k}
<1>1. PICK i \in D : \A j \in D : values[j] <= values[i]
  BY LargestValue
<1>2. {j \in DOMAIN values : values[j] <= values[i]} = D
  BY <1>1
<1>3. values[i] \in high
  BY <1>2
<1>4. high \subseteq Nat
  OBVIOUS
<1>5. FirstOf(high) \in high
  BY <1>3, <1>4, FirstIsLeast
<1>6. Rank(values, k) = FirstOf(high)
  BY DEF Rank, FirstOf
<1> QED BY <1>4, <1>5, <1>6

LEMMA MedianIsNumber ==
  ASSUME NEW n \in Nat, NEW D \in SUBSET (1..n), NEW values \in [D -> Nat]
  PROVE  TwiceMedian(values) \in Nat /\ (D = {} => TwiceMedian(values) = 0)
<1>1. IsFiniteSet(D) /\ Cardinality(D) \in Nat /\ (Cardinality(D) = 0 <=> D = {})
  <2>1. \A i \in D : i <= n
    OBVIOUS
  <2>2. IsFiniteSet(D)
    BY <2>1, FS_BoundedSetOfNaturals
  <2> QED BY <2>2, FS_CardinalityType, FS_EmptySet
<1>2. DOMAIN values = D
  OBVIOUS
<1>3. CASE D = {}
  BY <1>1, <1>2, <1>3 DEF TwiceMedian
<1>4. CASE D # {}
  <2> DEFINE c == Cardinality(D)
  <2>1. (c + 1) \div 2 \in Nat /\ (c + 1) \div 2 <= c
        /\ c \div 2 + 1 \in Nat /\ c \div 2 + 1 <= c
    <3> HIDE DEF c
    <3>1. c \in Nat /\ c # 0
      BY <1>1, <1>4, Zenon DEF c
    <3> QED BY <3>1
  <2>2. Rank(values, (c + 1) \div 2) \in Nat /\ Rank(values, c \div 2 + 1) \in Nat
    <3> HIDE DEF c
    <3>1. Rank(values, (c + 1) \div 2) \in Nat
      BY <1>4, <2>1, RankIsValue DEF c
    <3>2. Rank(values, c \div 2 + 1) \in Nat
      BY <1>4, <2>1, RankIsValue DEF c
    <3> QED BY <3>1, <3>2
  <2> QED BY <1>1, <1>2, <1>4, <2>2 DEF TwiceMedian
<1> QED BY <1>3, <1>4

\* Gate 5 needs latencies of the baseline, and two different arms.
LEMMA GateFiveCompares ==
  ASSUME NEW R, file \in Seq(R), \A i \in DOMAIN file : Line(file[i]), GateFive(file)
  PROVE  RegularOf(file, Baseline(file)) # {} /\ Baseline(file) # Target(file)
<1> DEFINE base == Latencies(file, RegularOf(file, Baseline(file)))
           target == Latencies(file, RegularOf(file, Target(file)))
<1>1. \A arm : RegularOf(file, arm) \subseteq DOMAIN file
  BY DEF RegularOf, CompleteOf, Complete
<1>2. DOMAIN file = 1..Len(file) /\ Len(file) \in Nat
  OBVIOUS
<1>3. base \in [{i \in RegularOf(file, Baseline(file)) : Latency(file[i]) > 0} -> Nat]
  <2>1. \A i \in DOMAIN file : Latency(file[i]) \in Int
    BY DEF Line, Latency
  <2> QED BY <1>1, <2>1 DEF Latencies
<1>4. /\ TwiceMedian(base) \in Nat
      /\ {i \in RegularOf(file, Baseline(file)) : Latency(file[i]) > 0} = {} => TwiceMedian(base) = 0
  BY <1>1, <1>2, <1>3, MedianIsNumber
<1>5. TwiceMedian(base) > 0 /\ 20 * (TwiceMedian(base) - TwiceMedian(target)) >= 3 * TwiceMedian(base)
  BY DEF GateFive
<1>6. TwiceMedian(base) # TwiceMedian(target)
  BY <1>4, <1>5
<1> QED BY <1>4, <1>5, <1>6

\* Gate 7 needs stress records of the target.
LEMMA GateSevenNeedsRecords ==
  ASSUME GateSeven(file)
  PROVE  StressOf(file, Target(file)) # {}
<1> SUFFICES ASSUME StressOf(file, Target(file)) = {}
             PROVE  FALSE
  OBVIOUS
<1>1. {i \in StressOf(file, Target(file)) : file[i].pass} = {}
  OBVIOUS
<1>2. Passed(file, StressOf(file, Target(file))) = 0 /\ Cardinality(StressOf(file, Target(file))) = 0
  BY <1>1, FS_EmptySet DEF Passed
<1>3. RateAtLeast(0, 0, 9, 10)
  BY <1>2 DEF GateSeven
<1> QED BY <1>3 DEF RateAtLeast

LEMMA FileInvMeasured ==
  ASSUME FileInv
  PROVE  AcceptedIsMeasured
<1> SUFFICES ASSUME Loads(file), GateTwo(file), GateFive(file), GateSeven(file)
             PROVE  /\ Baseline(file) # Target(file)
                    /\ {r.category : r \in ToSet(file)} = {"regular", "stress"}
                    /\ \A arm \in {Baseline(file), Target(file)}, sc \in ScenariosIn(file) :
                          CompleteRuns(arm, sc) >= MinRuns
  BY DEF AcceptedIsMeasured
<1>1. \A i \in DOMAIN file : Line(file[i])
  BY DEF FileInv, Loads, IsTorn, Torn
<1>2. PICK R : file \in Seq(R)
  BY DEF FileInv
<1>3. RegularOf(file, Baseline(file)) # {} /\ Baseline(file) # Target(file)
  BY <1>1, <1>2, GateFiveCompares
<1>4. PICK i \in RegularOf(file, Baseline(file)) : TRUE
  BY <1>3
<1>5. PICK j \in StressOf(file, Target(file)) : TRUE
  BY GateSevenNeedsRecords
<1>6. /\ i \in DOMAIN file /\ file[i].category = "regular" /\ file[i].arm = Baseline(file)
      /\ j \in DOMAIN file /\ file[j].category = "stress" /\ file[j].arm = Target(file)
  BY <1>4, <1>5 DEF RegularOf, StressOf, CompleteOf, Complete
<1>7. ToSet(file) = {file[k] : k \in DOMAIN file}
  BY DEF ToSet
<1>8. Baseline(file) \in ArmsIn(file) /\ Target(file) \in ArmsIn(file)
  BY <1>6, <1>7 DEF ArmsIn
<1>9. {r.category : r \in ToSet(file)} = {"regular", "stress"}
  BY <1>1, <1>6, <1>7 DEF Line
<1> QED BY <1>3, <1>8, <1>9, CountIsRuns DEF GateTwo

\* What passes gates 2, 5 and 7 has been measured: two different arms, regular and
\* stress scenarios, MinRuns complete records of each.
THEOREM AcceptedWasMeasured == Spec => []AcceptedIsMeasured
<1>1. Init => Inv /\ TypeInv
  BY InitInv, InitType
<1>2. Inv /\ TypeInv /\ [Next]_vars => Inv' /\ TypeInv'
  BY InvStep, TypeStep
<1>3. TypeInv => AcceptedIsMeasured
  BY FileInvMeasured DEF TypeInv
<1> QED BY <1>1, <1>2, <1>3, PTL DEF Spec
=============================================================================
