----------------------------- MODULE MCGenerate -----------------------------
(***************************************************************************)
(* Two noise tables at most, around the default scenario, a part of it, a  *)
(* signal table whose name a noise table may draw, and no signal at all.   *)
(***************************************************************************)
EXTENDS Generate

Config(tables, n) == [signal |-> tables, total |-> n]

Clashing == <<[name |-> <<"tmp_records", 0>>, fields |-> <<<<"id">>, <<"ref_id">>>>]>>

MCConfigs == {Config(DefaultSignalTables, 10), Config(DefaultSignalTables, 5),
              Config(Tail(DefaultSignalTables), 8), Config(Clashing, 3), Config(<< >>, 2)}
=============================================================================
