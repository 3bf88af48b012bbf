--------------------------- MODULE MCIdMigration ---------------------------
(***************************************************************************)
(* Two releases of one line and a third one, four runs (an empty one, one  *)
(* of a legacy report), four results of two cases.  The databases differ   *)
(* in the rounds of the releases, in whether the second release has a      *)
(* round of its own and in whether two results of a run are of one case.   *)
(***************************************************************************)
EXTENDS IdMigration, TLC

Releases     == {"A", "B", "C"}
UpstreamOf   == [release \in Releases |-> IF release = "B" THEN "A" ELSE None]
TokenOf      == [release \in Releases |-> IF release = "C" THEN "SMOKE" ELSE None]
Campaigns    == {"SMOKE", "WBS", "DOWNGRADE", "WIFI_2ND"}
CreatedRounds == {"SMOKE", "WBS"}
Shells       == {"HRK_0A", "HDC"}
ShellRule    == [round \in Shells |-> IF round = "HRK_0A" THEN "DOWNGRADE" ELSE None]
Versions     == {"SMOKE", "DOWNGRADE", "WIFI_2ND"}
RemapOf      == [release \in Releases |-> IF release = "B" THEN "A" ELSE release]

RunRow(release, key, legacy) ==
  [release |-> release, key |-> key, legacy |-> legacy, round |-> None]
ResultRow(run, case, topology, suffix, was) ==
  [run |-> <<run>>, case |-> <<case>>, topology |-> topology, suffix |-> suffix, was |-> was]

Rows(rounds, a, b, c, second, same) ==
  [rounds |-> rounds,
   round  |-> [release \in Releases |-> CASE release = "A" -> a [] release = "B" -> b [] OTHER -> c],
   runs   |-> (<<"r1">> :> RunRow("A", "hrk", FALSE) @@ <<"r2">> :> RunRow("B", "hdr", FALSE)
                 @@ <<"r3">> :> RunRow("C", "hrk", TRUE) @@ <<"r4">> :> RunRow("A", "hdc", FALSE)),
   results |-> (<<"s1">> :> ResultRow("r1", "c1", "1HRK", 1, <<"s1">>)
                 @@ <<"s2">> :> ResultRow("r1", second, same, 2, <<"s2">>)
                 @@ <<"s3">> :> ResultRow("r2", "c2", None, 1, <<"s3">>)
                 @@ <<"s4">> :> ResultRow("r3", "c3", "1HDC", 1, <<"s4">>)),
   cases  |-> (<<"c1">> :> "connect" @@ <<"c2">> :> "roam" @@ <<"c3">> :> "smoke" @@ <<"c4">> :> "unused"),
   procedures |-> (<<"p1">> :> [case |-> <<"c1">>, sequence |-> 1] @@ <<"p2">> :> [case |-> <<"c1">>, sequence |-> 2]
                     @@ <<"p3">> :> [case |-> <<"c2">>, sequence |-> 1]
                     @@ <<"p4">> :> [case |-> <<"c4">>, sequence |-> 1]),
   judged |-> ("j1" :> [result |-> <<"s1">>, procedure |-> <<"p1">>]
                 @@ "j2" :> [result |-> <<"s2">>, procedure |-> IF second = "c1" THEN <<"p2">> ELSE <<"p3">>]
                 @@ "j3" :> [result |-> <<"s3">>, procedure |-> <<"p3">>]),
   defects |-> ("d1" :> [result |-> <<"s1">>, retest |-> <<"s2">>]),
   evidence |-> ("e1" :> <<"s1">> @@ "e3" :> <<"s3">>),
   reports |-> ("x1" :> [release |-> "B", round |-> None]),
   released |-> TRUE, leftover |-> FALSE]

Starts ==
  {Rows((rounds \cup {a, b, c}) \ {None}, a, b, c, second, same) :
     rounds \in {{"HDC"}, {"HDC", "DOWNGRADE"}}, a \in {"HRK_0A", "WIFI_2ND", "COMPARE", "DOWNGRADE"},
     b \in {None, "HRK_0A", "WIFI_2ND"}, c \in {"HDC", "SMOKE"}, second \in {"c1", "c2"}, same \in {"1HRK", "2HRK"}}

ExcusedCases == {<<"c3">>}
=============================================================================
