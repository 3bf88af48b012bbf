--------------------------- MODULE MCTrackingPage ---------------------------
(***************************************************************************)
(* Two browsers, a setting, a day, two sheets and a third to create.  The  *)
(* sheets behind the summary: two rounds, two runs and two results with    *)
(* any references and duplicates, or three rounds with any parents.        *)
(***************************************************************************)
EXTENDS TrackingPage, TLC

CONSTANTS s1, s2, s3, x1, x2

MCExisting == <<s1, s2>>

Rounded(i, up, status) == [id |-> i, upstream |-> up, status |-> status,
                           period |-> IF i = 2 THEN "p" ELSE None]
Ran(i, round) == [id |-> i, round |-> round, status |-> "FINISHED", target |-> "t", config |-> i]
Got(i, run, case, status) == [id |-> i, run |-> run, case |-> case, status |-> status]

With(rounds, runs, results) ==
  [round |-> rounds, run |-> runs, result |-> results,
   defect |-> <<[id |-> 1, result |-> 1, status |-> "opened"], [id |-> 2, result |-> 2, status |-> "closed"]>>,
   procedure |-> <<[id |-> 1, case |-> x1], [id |-> 2, case |-> x2]>>,
   judged |-> <<[result |-> 1, procedure |-> 1, status |-> "PASS"], [result |-> 2, procedure |-> 2, status |-> "FAIL"]>>,
   evidence |-> <<[result |-> 2, defect |-> 1], [result |-> None, defect |-> 1]>>]

TwoRounds == <<Rounded(2, 1, "DONE"), Rounded(1, None, "TESTING")>>
MCSample == With(TwoRounds, <<Ran(1, 1), Ran(2, 2)>>, <<Got(1, 1, x1, "PASS"), Got(2, 2, x2, "FAIL")>>)

MCEntity ==
  {With(TwoRounds, <<Ran(1, a), Ran(j, b)>>, <<Got(1, r, x1, s), Got(i, q, c, t)>>) :
     a \in {1, 3}, b \in {1, 2}, j, i \in {1, 2}, r, q \in {1, 2, 3}, c \in {x1, x2},
     s \in {"PASS", "FAILED"}, t \in {"PASSED", "BLOCK", "HOLD"}}
  \cup
  {With(<<Rounded(1, u, a), Rounded(2, v, b), Rounded(n, w, c)>>, <<Ran(1, 1), Ran(2, 2)>>,
        <<Got(1, 1, x1, "PASS"), Got(2, 2, x2, "FAIL")>>) :
     u \in {None, 2, 3}, v \in {None, 1, 3}, w \in {None, 1, 2}, a, b, c \in {"BLOCKED", "DONE", "DRAFT"}, n \in {2, 3}}
  \cup {MCSample}
Alike == Permutations(Browser) \cup Permutations(Value) \cup Permutations(Cell)
=============================================================================
