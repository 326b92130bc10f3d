------------------------------ MODULE BenchReport ------------------------------
(***************************************************************************)
(* benchreport: what it makes of the lines of a runs.jsonl.  A line is a   *)
(* record as benchrun writes it, or torn.  Rates and percentages are       *)
(* compared by cross-multiplication.                                       *)
(***************************************************************************)
EXTENDS Integers, Sequences, FiniteSets, SequencesExt

CONSTANTS
    MinRuns,    \* --min-runs
    TargetFlag, \* --target-arm
    ArmOrder    \* the arm names in alphabetical order

IsTorn(line) == "torn" \in DOMAIN line

\* LoadRunRecords refuses a line it cannot parse or that is longer than the
\* scanner's buffer, main an empty file.
Loads(lines) == lines # << >> /\ \A i \in DOMAIN lines : ~IsTorn(lines[i]) /\ ~lines[i].long

\* Faulty variant (for the mutation runs, as those below): all records count.
CompleteOfAll(records) == DOMAIN records

\* Groups of records are sets of positions.
Complete(records) == {i \in DOMAIN records : records[i].complete}

CompleteOf(records, category, arm) ==
    {i \in Complete(records) : records[i].category = category /\ records[i].arm = arm}

ArmsIn(records) == {r.arm : r \in ToSet(records)}
ScenariosIn(records) == {r.scenario : r \in ToSet(records)}
RegularArms(records) == {r.arm : r \in {r \in ToSet(records) : r.category = "regular"}}

Baseline(records) ==
    IF "baseline" \in RegularArms(records) THEN "baseline"
    ELSE LET first == CHOOSE i \in DOMAIN ArmOrder :
                          /\ ArmOrder[i] \in ArmsIn(records)
                          /\ \A j \in 1..(i - 1) : ArmOrder[j] \notin ArmsIn(records)
         IN  ArmOrder[first]

Target(records) ==
    CASE TargetFlag \in RegularArms(records) -> TargetFlag
      [] TargetFlag \notin RegularArms(records) /\ "dbdense" \in RegularArms(records) -> "dbdense"
      [] OTHER -> TargetFlag

Latency(r) == IF r.wall > 0 THEN r.wall ELSE r.latency

\* The k-th smallest of the values.
Rank(values, k) ==
    LET upTo(x) == Cardinality({i \in DOMAIN values : values[i] <= x})
        high == {x \in {values[i] : i \in DOMAIN values} : upTo(x) >= k}
    IN  CHOOSE x \in high : \A y \in high : x <= y

\* Twice the median; 0 without values.
TwiceMedian(values) ==
    LET n == Cardinality(DOMAIN values)
    IN  IF n = 0 THEN 0 ELSE Rank(values, (n + 1) \div 2) + Rank(values, n \div 2 + 1)

\* extractMetric: what is not positive is left out.
Latencies(records, S) ==
    [i \in {i \in S : Latency(records[i]) > 0} |-> Latency(records[i])]

Passed(records, S) == Cardinality({i \in S : records[i].pass})

\* a/b >= c/d for pass rates, which are 0 without records.
RateAtLeast(a, b, c, d) == a * (IF d = 0 THEN 1 ELSE d) >= c * (IF b = 0 THEN 1 ELSE b)

Count(records, arm, scenario) ==
    Cardinality({i \in Complete(records) : records[i].arm = arm /\ records[i].scenario = scenario})

RegularOf(records, arm) == CompleteOf(records, "regular", arm)
StressOf(records, arm) == CompleteOf(records, "stress", arm)

-----------------------------------------------------------------------------
\* evaluateGates: the gates that look at the plan, at latencies, at sessions and at
\* the stress scenarios.

\* MinRuns complete runs per arm and scenario that occur in the records.
GateTwo(records) ==
    \A arm \in ArmsIn(records), sc \in ScenariosIn(records) : Count(records, arm, sc) >= MinRuns

\* Latency reduction of at least 15 percent.
GateFive(records) ==
    LET base == TwiceMedian(Latencies(records, RegularOf(records, Baseline(records))))
        target == TwiceMedian(Latencies(records, RegularOf(records, Target(records))))
    IN  base > 0 /\ 20 * (base - target) >= 3 * base

\* Faulty variant: sessions are told apart by arm only.
GateSixPerArm(records) ==
    \A i, j \in Complete(records) :
        records[i].arm = records[j].arm => records[i].session = records[j].session

\* Session continuity per arm and iteration.  Every record benchrun calls
\* complete has a session id.
GateSix(records) ==
    \A i, j \in Complete(records) :
        records[i].arm = records[j].arm /\ records[i].iteration = records[j].iteration
        => records[i].session = records[j].session

\* The stress gate.  It also looks at the baseline's average score, which is
\* never below its pass rate and decides nothing.
GateSeven(records) ==
    LET base == StressOf(records, Baseline(records))
        target == StressOf(records, Target(records))
    IN  /\ RateAtLeast(Passed(records, target), Cardinality(target), 9, 10)
        /\ ~RateAtLeast(Passed(records, base), Cardinality(base), 1, 2)
=============================================================================
