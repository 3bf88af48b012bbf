-------------------------- MODULE TrackingSummary --------------------------
(***************************************************************************)
(* What the tracking page shows: get_tracking_summary of                   *)
(* app/routers/tracking_router.py joins the rows of the sheets "entity/..."*)
(* (custom_sheet_trace_service._rows) by hand.  Nothing keeps these rows   *)
(* consistent: an identifier may be missing or may occur twice, which is   *)
(* why a sheet is a sequence of rows.                                      *)
(*                                                                         *)
(* An identifier is a number, in the order in which the names sort; a      *)
(* status is its text in capitals, to which normalize_status refers every  *)
(* spelling; an empty cell is None.  Texts that are only copied are left   *)
(* out.                                                                    *)
(***************************************************************************)
EXTENDS Integers, FiniteSets, SequencesExt

CONSTANTS None,
          LegacyReport    \* identifiers with TEST_REPORT_ or TBD_REPORT_ in them

Alias == [PASS |-> "PASSED", BLOCK |-> "BLOCKED", IN_PROGRESS |-> "TESTING",
          FAIL |-> "FAILED", SKIP |-> "SKIPPED", CANCELED |-> "CANCELLED"]
normalize_status(s) == IF s \in DOMAIN Alias THEN Alias[s] ELSE s

\* The statuses that are counted, the worst first.
Canonical == <<"FAILED", "BLOCKED", "TESTING", "PASSED", "SKIPPED", "CANCELLED">>
Counted == Range(Canonical)

ReleasePriority(s) ==
  CASE s = "BLOCKED" -> 0 [] s = "TESTING" -> 1 [] s = "DRAFT" -> 2
    [] s \in {"PASSED", "QI_TEAM_RELEASED", "APPROVED"} -> 3
    [] s = "QI_TEAM_REVIEWED" -> 4 [] s = "DONE" -> 5 [] OTHER -> 99

derive_rollup_status(statuses) ==
  LET present == {k \in DOMAIN Canonical : Canonical[k] \in statuses}
  IN  IF present = {} THEN "TESTING" ELSE Canonical[Min(present)]

\* A dictionary by identifier holds the last row of an identifier; get(...) of one that
\* is missing reads as a row of empty cells.
Row(rows, i) ==
  LET found == {k \in DOMAIN rows : rows[k].id = i}
  IN  IF found = {} THEN None ELSE rows[Max(found)]

RoundOfRun(e, i) == LET run == Row(e.run, i) IN IF run = None THEN None ELSE run.round
RoundOfResult(e, i) ==
  LET result == Row(e.result, i) IN IF result = None THEN None ELSE RoundOfRun(e, result.run)

\* release_visible is False for every release (positional offset, row[7] = ''): so
\* resolve_parent_release always comes back to the release it began with, no round row
\* is resolved, and the target of a run stays the one of its row.
visible == FALSE
resolve_parent_release(i) == i
logical_target_from_release(run) == run.target

----------------------------------------------------------------------------
(* Releases. *)

\* The results that count for a round, once for each row of the round and of the run.
ReleaseCountLast(e, i, s) ==
  Cardinality({k \in DOMAIN e.result : /\ i # None /\ RoundOfRun(e, e.result[k].run) = i
                                       /\ normalize_status(e.result[k].status) = s})
ReleaseCount(e, i, s) ==
  Cardinality({x \in (DOMAIN e.round) \X (DOMAIN e.run) \X (DOMAIN e.result) :
                 /\ e.round[x[1]].id = i /\ i # None
                 /\ e.run[x[2]].round = i
                 /\ e.result[x[3]].run = e.run[x[2]].id
                 /\ normalize_status(e.result[x[3]].status) = s})

\* Rounds come in the order of their identifiers, those of one identifier as in the sheet.
Before(rounds, j, k) == rounds[j].id < rounds[k].id \/ (rounds[j].id = rounds[k].id /\ j < k)

\* The parents are settled one after the other, in the order of their first children;
\* a status settled earlier is what a later parent sees of its child.
SettleParent(rounds, status, first) ==
  LET up       == rounds[first].upstream
      parents  == {k \in DOMAIN rounds : rounds[k].id = up}
      children == {k \in DOMAIN rounds : rounds[k].upstream = up /\ ~visible
                                         /\ rounds[k].id \notin LegacyReport}
      best     == CHOOSE k \in children : \A j \in children \ {k} :
                    \/ ReleasePriority(status[k]) < ReleasePriority(status[j])
                    \/ ReleasePriority(status[k]) = ReleasePriority(status[j]) /\ Before(rounds, k, j)
  IN  IF parents = {} \/ children = {} THEN status
      ELSE [status EXCEPT ![Max(parents)] = status[best]]

\* The first children of the parents there may be, and of some of them the last.
Firsts(rounds) ==
  {k \in DOMAIN rounds : /\ rounds[k].upstream # None
                         /\ \A j \in DOMAIN rounds : Before(rounds, j, k) => rounds[j].upstream # rounds[k].upstream}
LastRound(rounds, S) == CHOOSE k \in S : \A j \in S \ {k} : Before(rounds, j, k)

ReleaseStatus(e) ==
  MapThenFoldSet(LAMBDA first, status : SettleParent(e.round, status, first),
                 [k \in DOMAIN e.round |-> normalize_status(e.round[k].status)],
                 LAMBDA k : k, LAMBDA S : LastRound(e.round, S), Firsts(e.round))

\* The work period of a release: its own, or that of the nearest of seven releases up.
resolve_release_work_period(e, release) ==
  LET up[n \in 0..7] == IF n = 0 THEN release
                        ELSE LET row == Row(e.round, up[n - 1]) IN IF row = None THEN None ELSE row.upstream
      period(n) == LET row == Row(e.round, up[n]) IN IF row = None THEN None ELSE row.period
      planned   == {n \in 0..7 : period(n) # None}
  IN  IF planned = {} THEN None ELSE period(Min(planned))

----------------------------------------------------------------------------
(* Runs, results, defects, evidence and procedures. *)

ActiveDefects(e) ==
  {[id |-> e.defect[k].id, result |-> e.defect[k].result,
    release |-> resolve_parent_release(RoundOfResult(e, e.defect[k].result))]
     : k \in {j \in DOMAIN e.defect : e.defect[j].status = "opened"}}

ResultsOf(e, run) == {k \in DOMAIN e.result : e.result[k].run = run}
RunCount(e, run, s) == Cardinality({k \in ResultsOf(e, run) : normalize_status(e.result[k].status) = s})

\* One line for each row of a run that has results.
Runs(e) ==
  {[row |-> j, id |-> e.run[j].id, release |-> e.run[j].round,
    parent |-> resolve_parent_release(e.run[j].round),
    status |-> derive_rollup_status({s \in Counted : RunCount(e, e.run[j].id, s) > 0}),
    own |-> normalize_status(e.run[j].status),
    count |-> [s \in Counted |-> RunCount(e, e.run[j].id, s)],
    total |-> Cardinality(ResultsOf(e, e.run[j].id)),
    planned |-> resolve_release_work_period(e, e.run[j].round),
    target |-> logical_target_from_release(e.run[j]),
    config |-> e.run[j].config]
     : j \in {i \in DOMAIN e.run : ResultsOf(e, e.run[i].id) # {}}}

\* case_map: one entry for each release and case.
CaseKey(e, k) == <<resolve_parent_release(RoundOfRun(e, e.result[k].run)), e.result[k].case>>
ResultsSummary(e) ==
  LET entry(key) ==
        LET rows == {k \in DOMAIN e.result : CaseKey(e, k) = key}
            with(s) == Cardinality({k \in rows : normalize_status(e.result[k].status) = s})
        IN  [release |-> key[1], case |-> key[2], total |-> Cardinality(rows),
             passed |-> with("PASSED"), blocked |-> with("BLOCKED"), testing |-> with("TESTING"),
             runs |-> {e.result[k].run : k \in rows},
             defects |-> {d \in DOMAIN e.defect :
                            /\ e.defect[d].status = "opened"
                            /\ e.defect[d].result \in {e.result[k].id : k \in rows}}]
  IN  {entry(CaseKey(e, k)) : k \in DOMAIN e.result}

CaseOfProcedure(e, p) == LET row == Row(e.procedure, p) IN IF row = None THEN None ELSE row.case

ProcedureResults(e) ==
  {[row |-> k, case |-> CaseOfProcedure(e, e.judged[k].procedure),
    status |-> normalize_status(e.judged[k].status),
    release |-> resolve_parent_release(RoundOfResult(e, e.judged[k].result))] : k \in DOMAIN e.judged}

\* Evidence is shown at the release of its result, or else at that of its defect: the
\* first row of the defect counts here, not the last.
Evidence(e) ==
  LET release(row) ==
        LET direct == IF row.result = None THEN None ELSE RoundOfResult(e, row.result)
            found  == {k \in DOMAIN e.defect : row.defect # None /\ e.defect[k].id = row.defect}
        IN  IF direct # None \/ found = {} THEN direct
            ELSE RoundOfResult(e, e.defect[Min(found)].result)
  IN  {[row |-> k, release |-> release(e.evidence[k])] : k \in DOMAIN e.evidence}

\* The lists by way of runs and results: configurations in use, cases, procedures.
Configs(e) == {e.run[j].config : j \in {i \in DOMAIN e.run : ResultsOf(e, e.run[i].id) # {}}} \ {None}
Cases(e) == {<<CaseKey(e, k)[2], CaseKey(e, k)[1]>> : k \in DOMAIN e.result}
Procedures(e) ==
  LET joined == {x \in (DOMAIN e.procedure) \X (DOMAIN e.result) : e.procedure[x[1]].case = e.result[x[2]].case}
  IN  {<<e.procedure[x[1]].id, CaseKey(e, x[2])[1]>> : x \in joined}

\* used_releases: the rounds whose results are about a case of the procedure.
UsedReleases(e, procedure) == {i[2] : i \in {x \in Procedures(e) : x[1] = procedure}} \ {None}
=============================================================================
