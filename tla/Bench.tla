--------------------------------- MODULE Bench ---------------------------------
(***************************************************************************)
(* benchrun and benchreport together: what the report says of the records  *)
(* of a run, be it finished, still going or broken off.  benchreport keeps *)
(* no state: its gates are a function of the lines it reads.               *)
(***************************************************************************)
EXTENDS BenchRun, BenchReport

\* A manifest vouches for its directory: every cell of the plan (iteration, arm,
\* scenario) then has exactly one line in runs.jsonl, all lines are whole, their
\* number is the manifest's, and benchreport can load them, unless one is longer
\* than it reads: for a long answer, or for what a query printed that failed, could
\* not be parsed or hung.
ManifestMeansWhole ==
    manifest \notin {NoManifest, Torn} =>
        /\ Torn \notin ToSet(file)
        /\ {CellOf(rec) : rec \in ToSet(file)} = Cells
        /\ Len(file) = Cardinality(Cells)
        /\ manifest.total = Len(file)
        /\ Loads(file) <=> (\A rec \in ToSet(file) : ~rec.long)

CompleteRuns(arm, scenario) ==
    Cardinality({i \in DOMAIN file : /\ file[i].complete
                                     /\ file[i].arm = arm
                                     /\ file[i].scenario = scenario})

\* With a manifest, Gate 2 speaks of the whole plan, though it looks only at the
\* arms and scenarios it finds in the records.
GateTwoIsWhole ==
    manifest \notin {NoManifest, Torn} /\ GateTwo(file) =>
        \A a \in AllArms, sc \in ToSet(setup.scenarios) :
            CompleteRuns(ArmName(a), sc.id) >= MinRuns

\* Unless the CLI forks the conversations it resumes, Gate 6 passes exactly when
\* no arm has complete records of two flows in one iteration.  (So it fails for
\* every run that answers regular and stress scenarios in one iteration.)
GateSixExact ==
    Loads(file) /\ cli # "fork" =>
        (GateSix(file) <=>
            \A i, j \in Complete(file) :
                file[i].arm = file[j].arm /\ file[i].iteration = file[j].iteration
                => FlowOf(file[i]) = FlowOf(file[j]))

\* Gates 2, 5 and 7 together are not passed by an arm nobody measured: two
\* different arms are compared, and each has MinRuns complete records of every
\* scenario, regular and stress ones.
AcceptedIsMeasured ==
    Loads(file) /\ GateTwo(file) /\ GateFive(file) /\ GateSeven(file) =>
        /\ Baseline(file) # Target(file)
        /\ {r.category : r \in ToSet(file)} = {"regular", "stress"}
        /\ \A arm \in {Baseline(file), Target(file)}, sc \in ScenariosIn(file) :
              CompleteRuns(arm, sc) >= MinRuns
=============================================================================
