-------------------------------- MODULE MCBench --------------------------------
(***************************************************************************)
(* Six setups:  two arms over one regular and one stress scenario with     *)
(* replies of different worth and speed (the gates); one arm under two     *)
(* names, two iterations and three flows' worth of scenarios (the          *)
(* sessions); every kind of reply; regular scenarios only; an unknown arm; *)
(* a scenario that is there twice.                                         *)
(***************************************************************************)
EXTENDS Bench

Sc(id, category) == [id |-> id, category |-> category, expected |-> [count |-> 9]]
count == Sc("q1", "regular")
join  == Sc("q2", "regular")
group == Sc("q3", "stress")

Ok(answer, input, output, topInput, topOutput, duration) ==
    [kind |-> "ok", answer |-> answer, input |-> input, output |-> output,
     topInput |-> topInput, topOutput |-> topOutput, duration |-> duration, long |-> FALSE]
Good   == Ok([count |-> 9], 2, 1, 0, 0, 1)
Wrong  == Ok([count |-> 8], 2, 1, 0, 0, 1)
Prose  == Ok(Unparsable, 2, 1, 0, 0, 1)
OldCLI == Ok([count |-> 9], 0, 0, 2, 1, 1)
Bare   == Ok([count |-> 9], 0, 0, 0, 0, 1)
Quick  == Ok([count |-> 9], 2, 1, 0, 0, 0)
Essay  == [Good EXCEPT !.long = TRUE]
Bad(kind) == [kind |-> kind, long |-> FALSE]
Noisy(kind) == [Bad(kind) EXCEPT !.long = TRUE]

S(names, iterations, scenarios, replies, walls) ==
    [arms |-> names, iterations |-> iterations, scenarios |-> scenarios,
     replies |-> replies, walls |-> walls]

MCSetups ==
    {S(<<"baseline", "dbdense">>, 1, <<count, group>>, {Good, Wrong, Bad("failed")}, {2, 6}),
     S(<<"warmup-only", "", "dbdense">>, 2, <<count, group, join>>, {Good, Bad("hang")}, {2}),
     S(<<"dbdense">>, 1, <<count, join>>,
       {Good, Wrong, Prose, Essay, OldCLI, Bare, Quick, Bad("failed"), Bad("garbled"), Bad("hang"),
        Noisy("failed"), Noisy("garbled"), Noisy("hang")}, {0, 2}),
     S(<<"dbdense", "baseline">>, 2, <<count>>, {Good, Wrong}, {2, 6}),
     S(<<"baseline", "nonsense">>, 1, <<count>>, {Good}, {2}),
     S(<<"baseline">>, 1, <<count, join, count>>, {Good}, {2})}

MCAlias == [n \in {"baseline", "dbdense", "warmup-only", "warmup+slice"} |->
               IF n = "baseline" THEN "baseline" ELSE "dbdense"]
MCArmOrder == <<"baseline", "dbdense">>
=============================================================================
