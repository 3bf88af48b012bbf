----------------------------- MODULE ReleaseTree -----------------------------
(***************************************************************************)
(* The scripts that rebuild the tree of releases above the runs and their  *)
(* results: migrate_topology_restructure.py, migrate_run_session_layer.py, *)
(* migrate_device_centric_rounds.py and migrate_excel_rounds_normalize.py, *)
(* each one transaction, run by hand in any order on one database, and the *)
(* judgements the service records in between.                              *)
(*                                                                         *)
(* The tree is round > configuration > RC > run > result; sessions and     *)
(* rounds of one device are put between.  Identifiers carry meaning for    *)
(* the scripts, which parse them: here they are tuples of their parts.     *)
(*   <<"round", b>>           a round; b is the part all below it repeat   *)
(*   <<"topo", b, c>>         configuration c of that round                *)
(*   <<"rc", b, c, n>>        its n-th release candidate                   *)
(*   <<"session", b, n>>, <<"stopo", b, n, c>>    of the sessions          *)
(*   <<"import", x>>          the release of report x of the workbook      *)
(*   <<"row", b, d>>          the row of device d of the round, made by hand*)
(* b is <<s>> for round s, <<s, d>> for its round of device d, <<x>> where  *)
(* report x stands for a round, and <<None>> for the round UNCLASSIFIED.   *)
(* Runs are <<"import", u>>, those of the service <<"service", u>>, and    *)
(* those that scripts make: <<"run", b, c, n, u>>, <<"device", u, d>>.     *)
(***************************************************************************)
EXTENDS Integers, Sequences, FiniteSets, FiniteSetsExt, Functions

CONSTANTS
  Result, Report, Device, Combo,
  Short,          \* the canonical rounds
  FirstRun,       \* the runs there are before the scripts
  Served,         \* those of them that the service started; the import made the others
  RunOf,          \* result -> its first run
  ReportOf,       \* first run -> the report of its release
  RoundOf,        \* report -> the round its name tells, None when it tells none: as that
                  \* of the fallback release never does
  Number,         \* report -> its number
  ComboOf,        \* result -> its configuration, None when it names none ("TBD")
  CaseComboOf,    \* result -> the configuration its case names, which the restructure
                  \* takes then, and the normalisation does not
  DeviceOf,       \* result -> the device its case names, None when it names none
  DevicesOf,      \* configuration -> its devices
  Version,        \* round of the campaign -> device -> the canonical round whose name
                  \* is the version of that device (ROUND_DEVICE_VERSIONS)
  HandMade,       \* the devices whose rows were made by hand
  None

\* Rounds, reports, configurations and devices have names of their own; reports are
\* numbered from 1, a version is the name of a canonical round, and some result names
\* its configuration.
ASSUME TreeAssumption ==
  /\ IsFiniteSet(Result) /\ Served \subseteq FirstRun /\ HandMade \subseteq Device
  /\ None \notin Combo \cup Device \cup Report \cup Short /\ Report \cap Short = {}
  /\ RunOf \in [Result -> FirstRun] /\ ReportOf \in [FirstRun -> Report]
  /\ RoundOf \in [Report -> Short \cup {None}]
  /\ ComboOf \in [Result -> Combo \cup {None}] /\ \E r \in Result : ComboOf[r] # None
  /\ CaseComboOf \in [Result -> Combo \cup {None}]
  /\ DeviceOf \in [Result -> Device \cup {None}] /\ DevicesOf \in [Combo -> SUBSET Device]
  /\ Number \in [Report -> Nat \ {0}]
  /\ DOMAIN Version \subseteq Short
  /\ \A s \in DOMAIN Version : \A d \in DOMAIN Version[s] : d \in Device /\ Version[s][d] \in Short

VARIABLES
  rel,      \* product_test_release: identifier -> row
  run,      \* product_test_run: identifier -> its release
  res,      \* product_test_result: its run and its status
  report,   \* product_test_report -> its release
  last      \* what was done last (history)

vars == <<rel, run, res, report, last>>

\* Above a round (MULTI_PRODUCT) and above an imported release: no release.
Multi   == <<"multi">>
Nothing == <<"nothing">>

\* The rows of f, and the other rows of g
f ++ g == [x \in (DOMAIN f) \cup (DOMAIN g) |-> IF x \in DOMAIN f THEN f[x] ELSE g[x]]

Row(up, visible, seq, status, by) ==
  [up |-> up, visible |-> visible, seq |-> seq, status |-> status, by |-> by]

RC(r)         == run[res[r].run]
Children(R, i) == {j \in DOMAIN R : R[j].up = i}
ResultsIn(i)  == {r \in Result : RC(r) = i}

\* The round a chain of upstream releases ends in: a release of no release.
Above(i)    == IF rel[i].up \in DOMAIN rel THEN rel[i].up ELSE i
TwoAbove(i) == Above(Above(i))
TopOf(i)    == TwoAbove(TwoAbove(TwoAbove(TwoAbove(TwoAbove(i)))))

Base(i) == IF i[1] = "import" THEN <<i[2]>> ELSE i[2]

\* The round a text names: that of the report, of the round, or of the version of the
\* device, which comes first in the identifier of its round.
NamedRound(i) ==
  LET b == Base(i) IN
    CASE b[1] \in Report -> RoundOf[b[1]]
      [] Len(b) = 2      -> Version[b[1]][b[2]]
      [] OTHER           -> b[1]

Label(i)     == i[Len(i)]
DevicesIn(i) == LET c == Label(i) IN
                  IF c \in Combo THEN DevicesOf[c] ELSE IF c \in Device THEN {c} ELSE {}

\* The status of an RC after its results (an open defect counts as a blocked result;
\* the import writes its statuses in capitals, which count as nothing) and that of a
\* release after those below it.
FromResults(S) == CASE "blocked" \in S -> "BLOCKED"
                    [] S \cap {"blocked", "testing"} = {} /\ "passed" \in S -> "PASSED"
                    [] OTHER -> "TESTING"

\* Mutant of FromReleases: a release is blocked when all below it are.
FromReleasesAll(S) == CASE S = {"BLOCKED"} -> "BLOCKED" [] S # {"BLOCKED"} /\ "TESTING" \in S -> "TESTING"
                        [] OTHER -> "PASSED"

FromReleases(S) == CASE "BLOCKED" \in S -> "BLOCKED" [] "BLOCKED" \notin S /\ "TESTING" \in S -> "TESTING"
                     [] OTHER -> "PASSED"

StatusesIn(U, s, i) == {s[r].status : r \in {r \in Result : U[s[r].run] = i}}

Recount(R, U, s, I) == [i \in I |-> [R[i] EXCEPT !.status = FromResults(StatusesIn(U, s, i))]] ++ R

\* The releases I after those below them that are visible as V says.
Rollup(R, I, V) ==
  LET below(i) == {R[j].status : j \in {j \in Children(R, i) : R[j].visible \in V}}
  IN [i \in {i \in I : below(i) # {}} |-> [R[i] EXCEPT !.status = FromReleases(below(i))]] ++ R

Hidden(R, i) == {j \in Children(R, i) : ~R[j].visible}
Shown(R, i)  == {j \in Children(R, i) : R[j].visible}
-----------------------------------------------------------------------------
\* migrate_topology_restructure.py --apply: each result of a known configuration gets a
\* run under its configuration, with the number of its old RC within the round.

\* The number of each RC within its round: by sequence, those of the same sequence in any
\* order (the code takes that of their identifiers).
Rankings ==
  LET rcs == {RC(r) : r \in Result}
      top == [i \in rcs |-> TopOf(i)]
      like(i) == {j \in rcs : top[j] = top[i]}
      tied == {i \in rcs : \E j \in like(i) \ {i} : rel[j].seq = rel[i].seq}
      before(i, j, o) == rel[i].seq < rel[j].seq \/ (rel[i].seq = rel[j].seq /\ o[i] < o[j])
  IN {[i \in rcs |-> 1 + Cardinality({j \in like(i) \ {i} : before(j, i, o)})] :
        o \in {o \in [tied -> 1..Cardinality(tied)] : IsInjective(o)}}

\* The configuration the restructure takes a result for
TopoOf(r) == IF ComboOf[r] # None THEN ComboOf[r] ELSE CaseComboOf[r]

Unplaced == {r \in Result : TopoOf(r) = None}

\* Mutant of Emptied: an RC is deleted with its runs.
EmptiedAny(R, U) == {i \in DOMAIN R : R[i].by = "import" /\ ~R[i].visible}

\* The imported RCs that are left without a run.
Emptied(R, U) == {i \in DOMAIN R : R[i].by = "import" /\ ~R[i].visible /\ \A u \in DOMAIN U : U[u] # i}

\* Mutant of EmptyRows: a row is deleted for having no report.
EmptyRowsAny(R) == {i \in DOMAIN R : i[1] = "row" /\ \A x \in Report : report[x] # i}

\* The rows made by hand that nothing hangs on.
EmptyRows(R) == {i \in DOMAIN R : i[1] = "row" /\ Children(R, i) = {} /\ \A x \in Report : report[x] # i}

Restructure(rank) ==
  LET placed  == Result \ Unplaced
      b(r)    == Base(TopOf(RC(r)))
      topo(r) == <<"topo", b(r), TopoOf(r)>>
      rc(r)   == <<"rc", b(r), TopoOf(r), rank[RC(r)]>>
      new(r)  == <<"run", b(r), TopoOf(r), rank[RC(r)], res[r].run>>
      topos   == {topo(r) : r \in placed}
      rcs     == {rc(r) : r \in placed}
      rounds  == [i \in topos |-> TopOf(RC(CHOOSE r \in placed : topo(r) = i))]
      rel1 == rel ++ [i \in topos |-> Row(rounds[i], TRUE, 1, "TESTING", "topology")]
                  ++ [i \in rcs |-> Row(<<"topo", i[2], i[3]>>, FALSE, i[4], "TESTING", "topology")]
      res1 == [r \in placed |-> [res[r] EXCEPT !.run = new(r)]] ++ res
      made == {new(r) : r \in placed}
      runs == [u \in made |-> <<"rc", u[2], u[3], u[4]>>] ++ run
      run1 == Restrict(runs, {u \in DOMAIN runs : u[1] = "import" => \E r \in Result : res1[r].run = u})
      rel2 == Restrict(rel1, (DOMAIN rel1) \ Emptied(rel1, run1))
      rel3 == Recount(Restrict(rel2, (DOMAIN rel2) \ EmptyRows(rel2)), run1, res1, rcs)
  IN /\ placed # {} /\ (topos \cup rcs) \cap DOMAIN rel = {} /\ made \cap DOMAIN run = {}
     /\ rel' = Rollup(rel3, topos, {FALSE})
     /\ run' = run1 /\ res' = res1 /\ last' = "topology"
     /\ UNCHANGED report

TopologyRestructure == \E rank \in Rankings : Restructure(rank)
-----------------------------------------------------------------------------
\* migrate_run_session_layer.py: between a round and its configurations, a session for
\* each number of an RC; a configuration with several is copied.
Topmost == LET shown == {i \in DOMAIN rel : rel[i].visible} IN {i \in shown : rel[i].up \notin shown}

NumbersOf(i) == {rel[j].seq : j \in Hidden(rel, i)}

SessionRounds == {i \in Topmost : /\ Shown(rel, i) # {}
                                  /\ \A j \in Children(rel, i) : j[1] # "session"}

RunSessionLayer ==
  LET rounds == SessionRounds
      numbers(i) == LET all == UNION {NumbersOf(t) : t \in Shown(rel, i)} IN IF all = {} THEN {1} ELSE all
      first(i, t) == Min(IF NumbersOf(t) = {} THEN numbers(i) ELSE NumbersOf(t))
      topos    == UNION {Shown(rel, i) : i \in rounds}
      sessions == UNION {{<<"session", Base(i), n>> : n \in numbers(i)} : i \in rounds}
      copy(t, n) == <<"stopo", Base(rel[t].up), n, Label(t)>>
      later(t) == NumbersOf(t) \ {first(rel[t].up, t)}
      copies   == UNION {{<<t, n>> : n \in later(t)} : t \in topos}
      above(i) == CHOOSE j \in rounds : Base(j) = Base(i)
      laters == {j \in DOMAIN rel : ~rel[j].visible /\ rel[j].up \in topos /\ rel[j].seq \in later(rel[j].up)}
      moved  == [t \in topos |-> [rel[t] EXCEPT !.up = <<"session", Base(@), first(@, t)>>]]
                ++ [j \in laters |-> [rel[j] EXCEPT !.up = copy(@, rel[j].seq)]] ++ rel
  IN /\ rounds # {}
     /\ rel' = moved ++ [i \in sessions |-> Row(above(i), TRUE, i[3], "TESTING", "session")]
                     ++ [i \in {copy(p[1], p[2]) : p \in copies} |->
                           [rel[(CHOOSE p \in copies : copy(p[1], p[2]) = i)[1]] EXCEPT
                              !.up = <<"session", i[2], i[3]>>, !.by = "session"]]
     /\ last' = "sessions"
     /\ UNCHANGED <<run, res, report>>
-----------------------------------------------------------------------------
\* migrate_device_centric_rounds.py: a round of its own for each device of a round of the
\* campaign, and a run of its own for the results whose case names that device first.
Campaigns == {i \in Topmost : i[1] = "round" /\ i[2][1] \in DOMAIN Version /\ Len(i[2]) = 1}

\* The configurations to copy, each with the device it is copied for.
DeviceTopos == UNION {{<<t, d>> : d \in DevicesIn(t) \cap DOMAIN Version[rel[t].up[2][1]]} :
                       t \in UNION {Shown(rel, i) : i \in Campaigns}}

DeviceRounds(pairs, rcs) ==
  LET b(p)    == <<rel[p[1]].up[2][1], p[2]>>
      topo(p) == <<"topo", b(p), Label(p[1])>>
      rc(q)   == <<"rc", b(q), Label(q[1]), rel[q[3]].seq>>
      moves   == {m \in Result \X rcs : m[2][3] = RC(m[1]) /\ m[2][2] = DeviceOf[m[1]]}
      new(m)  == <<"device", res[m[1]].run, m[2][2]>>
      run1 == run ++ [u \in {new(m) : m \in moves} |-> rc((CHOOSE m \in moves : new(m) = u)[2])]
      res1 == [r \in {m[1] : m \in moves} |-> [res[r] EXCEPT !.run = new(CHOOSE m \in moves : m[1] = r)]] ++ res
      rel1 == rel ++ [i \in {<<"round", b(p)>> : p \in pairs} |-> Row(Multi, TRUE, 0, "TESTING", "device")]
                  ++ [i \in {topo(p) : p \in pairs} |-> Row(<<"round", i[2]>>, TRUE, 1, "TESTING", "device")]
                  ++ [i \in {rc(q) : q \in rcs} |-> Row(<<"topo", i[2], i[3]>>, FALSE, i[4], "TESTING", "device")]
      mine  == {i \in DOMAIN rel1 : rel1[i].by = "device" /\ ~rel1[i].visible}
      above == {rel1[i].up : i \in mine} \cap DOMAIN rel1
      settled == Rollup(Recount(rel1, run1, res1, mine), above, BOOLEAN)
  IN /\ Campaigns # {}
     /\ rel' = Rollup(settled, {rel1[i].up : i \in above} \cap DOMAIN rel1, BOOLEAN)
     /\ run' = run1 /\ res' = res1 /\ last' = "devices"
     /\ UNCHANGED report

DeviceCentricRounds ==
  \E pairs \in {DeviceTopos} :
    \E rcs \in {UNION {{<<p[1], p[2], j>> : j \in Hidden(rel, p[1])} : p \in pairs}} : DeviceRounds(pairs, rcs)
-----------------------------------------------------------------------------
\* migrate_excel_rounds_normalize.py --apply: the canonical rounds, one RC for each
\* configuration, and each run under the RC of its last result.
LastOfRuns ==
  {F \in SUBSET Result : \A r \in Result : Cardinality({q \in F : res[q].run = res[r].run}) = 1}

\* Mutant of FirstRC: the first of the round, whatever the configuration.
FirstRCAny(t) == IF t[1] = "topo" THEN <<"rc", t[2], CHOOSE c \in Combo : TRUE, 1>> ELSE Nothing

FirstRC(t) == IF t[1] = "topo" THEN <<"rc", t[2], t[3], 1>> ELSE Nothing

\* The later RCs whose configuration has a first one.
Superseded(R) == {i \in DOMAIN R : i[1] = "rc" /\ i[4] # 1 /\ ~R[i].visible /\ FirstRC(R[i].up) \in DOMAIN R}

\* The round of what tells no round is UNCLASSIFIED.
Unclassified == <<"round", <<None>>>>

Normalize(final) ==
  LET topo(r) == <<"topo", <<NamedRound(RC(r))>>, ComboOf[r]>>
      rc(r)   == FirstRC(topo(r))
      topos   == {topo(r) : r \in Result}
      rcs     == {rc(r) : r \in Result}
      rounds  == {<<"round", <<s>>>> : s \in Short}
      upsert  == [i \in rounds |-> Row(Multi, TRUE, 1,
                    IF i \in DOMAIN rel THEN rel[i].status ELSE "TESTING",
                    IF i \in DOMAIN rel THEN rel[i].by ELSE "rounds")]
      others  == {<<"round", <<NamedRound(RC(r))>>>> : r \in Result} \ rounds
      rel1 == upsert ++ rel ++ [i \in others |-> Row(Multi, TRUE, 99, "TESTING", "rounds")]
                            ++ [i \in topos |-> Row(<<"round", i[2]>>, TRUE, 1, "TESTING", "rounds")]
                            ++ [i \in rcs |-> Row(<<"topo", i[2], i[3]>>, FALSE, 1, "TESTING", "rounds")]
      run1 == [u \in {res[r].run : r \in final} |-> rc(CHOOSE r \in final : res[r].run = u)] ++ run
      gone == Superseded(rel1)
      run2 == [u \in {u \in DOMAIN run : run1[u] \in gone} |-> FirstRC(rel1[run1[u]].up)] ++ run1
      rel2 == [i \in {i \in DOMAIN rel1 : i[1] = "import"} |-> [rel1[i] EXCEPT !.visible = FALSE]]
              ++ Restrict(rel1, (DOMAIN rel1) \ gone)
      rel3 == Recount(rel2, run2, res, rcs)
      rel4 == Rollup(rel3, topos, {FALSE})
  IN /\ rel' = Rollup(rel4, rounds, {TRUE})
     /\ run' = run2
     /\ report' = [x \in Report |-> LET s == NamedRound(report[x]) IN
                                     IF s = None THEN report[x] ELSE <<"round", <<s>>>>]
     /\ last' = "normalize"
     /\ UNCHANGED res

ExcelRoundsNormalize == \E final \in LastOfRuns : Normalize(final)
-----------------------------------------------------------------------------
\* The service judges a result; it moves none of the import's, whose status it does not
\* know.  (Bound: once each.)
Judge(r, s) ==
  /\ res[r].status = "testing"
  /\ res' = [res EXCEPT ![r].status = s]
  /\ last' = "judge"
  /\ UNCHANGED <<rel, run, report>>

\* As the import leaves the database, with the runs the service has started since; or with
\* rows made by hand too: then the reports are still at the releases of the import, or
\* have been put at the rows.
ImportRow(x, up, visible) == Row(up, visible, Number[x], "PASSED", "import")

RunId(u) == <<IF u \in Served THEN "service" ELSE "import", u>>

Told == {x \in Report : RoundOf[x] # None}

Init ==
  /\ run = [u \in {RunId(u) : u \in FirstRun} |-> <<"import", ReportOf[u[2]]>>]
  /\ res = [r \in Result |-> [run |-> RunId(RunOf[r]), status |-> IF RunOf[r] \in Served THEN "testing" ELSE "PASSED"]]
  /\ \/ /\ rel = [i \in {<<"import", x>> : x \in Report} |-> ImportRow(i[2], Nothing, TRUE)]
        /\ report = [x \in Report |-> <<"import", x>>]
     \/ \E d \in HandMade :
          /\ rel = [i \in {<<"import", x>> : x \in Told} |-> ImportRow(i[2], <<"row", <<RoundOf[i[2]]>>, d>>, FALSE)]
                ++ [i \in {<<"import", x>> : x \in Report} |-> ImportRow(i[2], Nothing, TRUE)]
                ++ [i \in {<<"row", <<RoundOf[x]>>, d>> : x \in Told} |-> Row(<<"round", i[2]>>, TRUE, 1, "TESTING", "hand")]
                ++ [i \in {<<"round", <<RoundOf[x]>>>> : x \in Told} |-> Row(Multi, TRUE, 1, "TESTING", "hand")]
          /\ \/ report = [x \in Report |-> <<"import", x>>]
             \/ report = [x \in Report |-> IF x \in Told THEN <<"row", <<RoundOf[x]>>, d>> ELSE <<"import", x>>]
  /\ last = "import"

Next == \/ TopologyRestructure \/ RunSessionLayer \/ DeviceCentricRounds \/ ExcelRoundsNormalize
        \/ \E r \in Result, s \in {"passed", "blocked"} : Judge(r, s)

Spec == Init /\ [][Next]_vars
-----------------------------------------------------------------------------
\* The rows are rows: and the base of an identifier names a round.
TypeOK ==
  /\ \A i \in DOMAIN rel : /\ rel[i].visible \in BOOLEAN /\ rel[i].seq \in Nat
                           /\ rel[i].status \in {"PASSED", "BLOCKED", "TESTING"}
                           /\ rel[i].up \in (DOMAIN rel) \cup {Multi, Nothing}
  /\ res \in [Result -> [run : DOMAIN run, status : {"PASSED", "testing", "passed", "blocked"}]]
  /\ last \in {"import", "topology", "sessions", "devices", "normalize", "judge"}

\* After the normalisation a configuration that has results has one RC: "RC2+ Run" are
\* merged into RC1 (migrate_excel_rounds_normalize.py:14).
OneRC == last = "normalize" => \A r \in Result : Hidden(rel, rel[RC(r)].up) = {RC(r)}

\* Whatever scripts are run, in whatever order, each result leads through its run and its
\* RC to a round, and each report to its release (migrate_topology_restructure.py:13-14):
\* except the report of an imported RC, which that script deletes without looking for
\* reports (line 544).  And the normalisation leaves one RC.
TreeWhole ==
  /\ \A r \in Result : RC(r) \in DOMAIN rel /\ rel[TopOf(RC(r))].up \in {Multi, Nothing}
  /\ \A x \in Report : report[x] \in (DOMAIN rel) \cup {<<"import", x>>}
  /\ OneRC

Campaign(i) == LET b == Base(i) IN IF b[1] \in Report THEN RoundOf[b[1]] ELSE b[1]

Place(i) == CASE i[1] = "rc" -> i[3] [] i[1] = "import" /\ rel[i].up # Nothing -> Label(rel[i].up) [] OTHER -> None

\* A result stays in its round of the campaign, and if it is moved then to its own
\* configuration or within the one it was in: except that the normalisation takes the
\* round of a device for the round of its version, the same for several rounds of the
\* campaign (release_id_to_round_short, line 185), and moves a run of several
\* configurations as a whole (line 583).
FiledRight ==
  [][\A r \in Result :
       /\ \/ Campaign(RC(r))' = Campaign(RC(r))
          \/ last' = "normalize" /\ Len(Base(RC(r))) = 2
       /\ RC(r)' # RC(r) => \/ RC(r)'[3] \in {ComboOf[r], TopoOf(r), Place(RC(r))}
                            \/ \E q \in Result : res[q].run = res[r].run /\ ComboOf[q] # ComboOf[r]]_vars

\* A blocked result shows as BLOCKED above it, as far up as the last script settles:
\* the restructure leaves the rounds as they are, no script settles a session, and the
\* normalisation not the round of what it cannot place (line 814).
BlockedShown ==
  \A r \in Result :
    LET topo == rel[RC(r)].up IN
    /\ res[r].status = "blocked"
    /\ \/ last = "normalize"
       \/ last = "topology" /\ TopoOf(r) # None
       \/ last = "devices" /\ rel[RC(r)].by = "device"
    => /\ rel[RC(r)].status = "BLOCKED" /\ rel[topo].status = "BLOCKED"
       /\ last # "topology" /\ rel[topo].up[1] = "round" /\ rel[topo].up # Unclassified
            => rel[rel[topo].up].status = "BLOCKED"

\* "product_test_run.product_test_release_id -> RC1 of its configuration"
\* (migrate_excel_rounds_normalize.py:15).
RunsUnderTheirConfiguration ==
  last = "normalize" => \A r \in Result : ComboOf[r] # None => RC(r)[3] = ComboOf[r]
=============================================================================
