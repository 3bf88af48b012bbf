---------------------------- MODULE IdMigration ----------------------------
(***************************************************************************)
(* The scripts task15_1, 15_2, 15_3, 15_4 and 15_5, which an operator runs *)
(* by hand, in any order, again after a failure: rounds become campaigns,  *)
(* runs, results, cases and procedures get identifiers made of what they   *)
(* are, and the table of releases goes.                                    *)
(*                                                                         *)
(* Identifiers are tuples: <<name>> before 15-4, longer ones after it.     *)
(* The two dry-runs 15_2 and 15_3 are the plans of 15_4.                   *)
(***************************************************************************)
EXTENDS Naturals, Sequences, FiniteSets, FiniteSetsExt, Functions

CONSTANTS
  Release, Upstream,       \* releases, and the release each belongs to or None
  Token,                   \* the campaign that the name of a release tells, or None
  Canonical,               \* the rounds of the seven campaigns
  Created,                 \* those that 15-1 creates
  Shell, ShellCampaign,    \* rounds that are devices; the campaign of some of them
  OldName, NewName,        \* the round that 15-1 renames
  LegacyRounds,            \* rounds that tell the version of a legacy run
  Remap,                   \* the release a report is moved to
  Excused,                 \* cases that may have no procedure
  Databases,               \* the databases the scripts are started on
  Opened,                  \* defects that the server may open meanwhile
  None

VARIABLES db,       \* the database
          given,    \* the database of the beginning
          at,       \* where 15-4 or 15-5 is, when it is running
          plan,     \* what 15-4 has planned
          about,    \* the result, by its first identifier, that a defect was opened for
          late      \* 15-1 has moved a release after 15-4

vars == <<db, given, at, plan, about, late>>

\* The tables, and the columns of those that scripts rewrite row by row
IsRecord(x, fields) == x = [f \in fields |-> x[f]]
IsTable(rows, fields) == /\ rows = [x \in DOMAIN rows |-> rows[x]]
                         /\ \A x \in DOMAIN rows : IsRecord(rows[x], fields)

Formed(d) ==
  /\ IsRecord(d, {"rounds", "round", "runs", "results", "cases", "procedures", "judged",
                  "defects", "evidence", "reports", "released", "leftover"})
  /\ IsTable(d.runs, {"release", "key", "legacy", "round"})
  /\ IsTable(d.results, {"run", "case", "topology", "suffix", "was"})
  /\ IsTable(d.reports, {"release", "round"})
  /\ d.round = [r \in Release |-> d.round[r]]
  /\ \A r \in DOMAIN d.runs : d.runs[r].release \in Release
  /\ \A x \in DOMAIN d.reports : d.reports[x].release \in Release

\* A database that no script has worked on: what rows name exists, a result has its
\* first identifier, and its judgements are about the steps of its case.
Untouched(d) ==
  /\ Formed(d) /\ d.released
  /\ {d.round[r] : r \in Release} \subseteq d.rounds \cup {None}
  /\ \A s \in DOMAIN d.results :
       /\ Len(s) = 1 /\ d.results[s].was = s
       /\ d.results[s].run \in DOMAIN d.runs /\ d.results[s].case \in DOMAIN d.cases
  /\ IsFiniteSet(DOMAIN d.results) /\ None \notin DOMAIN d.results
  /\ \A c \in DOMAIN d.cases : Len(c) = 1
  /\ \A q \in DOMAIN d.procedures : Len(q) = 1 /\ d.procedures[q].case \in DOMAIN d.cases
  /\ \A j \in DOMAIN d.judged :
       /\ d.judged[j].result \in DOMAIN d.results /\ d.judged[j].procedure \in DOMAIN d.procedures
       /\ d.procedures[d.judged[j].procedure].case = d.results[d.judged[j].result].case
  /\ \A e \in DOMAIN d.evidence : d.evidence[e] \in DOMAIN d.results
  /\ \A x \in DOMAIN d.defects : /\ d.defects[x].result \in DOMAIN d.results
                                 /\ d.defects[x].retest \in (DOMAIN d.results) \cup {None}

\* The seven campaigns are no devices, and hold what 15-1 creates and renames.
ASSUME MigrationAssumption ==
  /\ IsFiniteSet(Release)
  /\ Created \cup {NewName} \subseteq Canonical /\ OldName \notin Canonical \cup Shell
  /\ Shell \cap Canonical = {} /\ None \notin Canonical
  /\ \A r \in Release : Token[r] \in Canonical \cup {None} /\ Remap[r] \in Release
  /\ \A round \in Shell : ShellCampaign[round] \in Canonical \cup {None}
  /\ \A d \in Databases : Untouched(d)

RunsOf(d, S)       == {s \in DOMAIN d.results : d.results[s].run \in S}
ReleaseOf(d, s)    == d.runs[d.results[s].run].release
ProceduresOf(d, c) == {p \in DOMAIN d.procedures : d.procedures[p].case = c}
Renumbered(d)      == \E r \in DOMAIN d.runs : Len(r) > 1
-----------------------------------------------------------------------------
\* resolve_round_for_release: the nearest release upstream that has a round
Up[n \in Nat] ==
  IF n = 0 THEN [r \in Release |-> r]
  ELSE LET nearer == Up[n - 1]
       IN  [r \in Release |-> IF nearer[r] = None THEN None ELSE Upstream[nearer[r]]]

ResolvedRound(d, release) ==
  LET has == {n \in 1..Cardinality(Release) :
                Up[n][release] \in Release /\ d.round[Up[n][release]] # None}
  IN  IF d.round[release] # None THEN d.round[release]
      ELSE IF has = {} THEN None ELSE d.round[Up[Min(has)][release]]

\* The round of a run, before and after the table of releases is dropped
RoundOfRun(d, r) == IF d.released THEN ResolvedRound(d, d.runs[r].release) ELSE d.runs[r].round
-----------------------------------------------------------------------------
\* task15_1: infer_release_target_round, with the rename of a round
InferredRound(d, release) ==
  LET current == d.round[release]
      target  == IF Token[release] # None THEN Token[release]
                 ELSE IF current \in Shell THEN ShellCampaign[current] ELSE current
  IN  IF target = OldName THEN NewName ELSE target

\* One transaction, refused while a release has no campaign; the new name of the
\* renamed round must be free.
NormalizeRounds ==
  /\ at = "rest" /\ db.released
  /\ db.rounds # {}
  /\ \A release \in Release : InferredRound(db, release) # None
  /\ ~({OldName, NewName} \subseteq db.rounds)
  /\ db' = [db EXCEPT !.round = [release \in Release |-> InferredRound(db, release)],
                      !.rounds = ((@ \ Shell) \ {OldName}) \cup Created
                                   \cup (IF OldName \in @ THEN {NewName} ELSE {})]
  /\ late' = (late \/ (Renumbered(db) /\ db'.round # db.round))
  /\ UNCHANGED <<given, at, plan, about>>
-----------------------------------------------------------------------------
\* task15_2: the new identifier of a run is made of its product, version and RC
\* (key; None when one of them is missing, as in every identifier that 15-4
\* has made) and of the commonest topology of its results.
KeyOf(d, r) ==
  LET run == d.runs[r]  round == d.round[run.release] IN
  IF run.key = None \/ (run.legacy /\ round \notin LegacyRounds) THEN None
  ELSE <<run.key, IF run.legacy THEN round ELSE None>>

Topologies(d, r) ==
  LET count(t) == Cardinality({s \in RunsOf(d, {r}) : d.results[s].topology = t})
      seen     == {d.results[s].topology : s \in RunsOf(d, {r})} \ {None}
  IN  IF d.runs[r].legacy \/ seen = {} THEN {None} ELSE {t \in seen : \A u \in seen : count(u) <= count(t)}

Named(d) == {r \in DOMAIN d.runs : RunsOf(d, {r}) # {}}

\* The functions that choose a member of each set of a family
Picks(family) == {f \in [DOMAIN family -> UNION Range(family)] : \A x \in DOMAIN family : f[x] \in family[x]}

RunNames(d) ==
  {[r \in Named(d) |-> <<KeyOf(d, r), topology[r]>>] :
     topology \in Picks([r \in Named(d) |-> Topologies(d, r)])}

NewResult(d, name, s) == <<name[d.results[s].run], d.results[s].suffix>>

\* task15_3: the new case of a result is made of the campaign of its release, its
\* own topology and the scenario of its old case; so one case becomes several.
\* Mutant: NewCaseUpstream takes the campaign of the release above, if it has one.
NewCaseUpstream(d, s) ==
  LET up == Upstream[ReleaseOf(d, s)] IN
  <<d.round[IF up = None THEN ReleaseOf(d, s) ELSE up],
    IF d.runs[d.results[s].run].legacy THEN None ELSE d.results[s].topology,
    d.cases[d.results[s].case]>>

NewCase(d, s) ==
  <<d.round[ReleaseOf(d, s)],
    IF d.runs[d.results[s].run].legacy THEN None ELSE d.results[s].topology,
    d.cases[d.results[s].case]>>

NewCases(d, c)  == {NewCase(d, s) : s \in {t \in DOMAIN d.results : d.results[t].case = c}}
UsedCases(d)    == {d.results[s].case : s \in DOMAIN d.results}
NewProcedure(d, p, new) == <<new, d.procedures[p].sequence>>

\* task15_4: the checks before the apply (simulate_post_apply, collect_plan).
\* A run without a name ends them with a KeyError.
ReportReady(d, name, report) ==
  LET round == ResolvedRound(d, Remap[d.reports[report].release]) IN
  /\ round \in Canonical
  /\ \E r \in DOMAIN name : d.round[d.runs[r].release] = round

Renumberable(d, name) ==
  /\ \A r \in DOMAIN name : KeyOf(d, r) # None
  /\ IsInjective(name)
  /\ \A s, t \in DOMAIN d.results : NewResult(d, name, s) = NewResult(d, name, t) => s = t
  /\ \A b, c \in UsedCases(d) : NewCases(d, b) \cap NewCases(d, c) # {} => b = c
  /\ \A c \in UsedCases(d) \ Excused : ProceduresOf(d, c) # {}
  /\ \A report \in DOMAIN d.reports : ReportReady(d, name, report)
  /\ \A x \in DOMAIN d.defects : {d.defects[x].result, d.defects[x].retest} \subseteq DOMAIN d.results \cup {None}

\* The new place of the judgements of a procedure: the first of its copies.
NewStep(d, p, q) ==
  IF d.procedures[q].case \in UsedCases(d) THEN NewProcedure(d, q, p.first[d.procedures[q].case]) ELSE q

\* Mutant of Renumbering: the evidence keeps its references.
RenumberingForgetful(d, p) ==
  LET old(n) == CHOOSE s \in DOMAIN d.results : NewResult(d, p.name, s) = n
  IN  [d EXCEPT !.results = [n \in {NewResult(d, p.name, s) : s \in DOMAIN d.results} |->
         [d.results[old(n)] EXCEPT !.run = p.name[@], !.case = NewCase(d, old(n))]]]

\* What a new identifier was made of
OldRun(p, n)       == CHOOSE r \in DOMAIN p.name : p.name[r] = n
OldResult(d, p, n) == CHOOSE s \in DOMAIN d.results : NewResult(d, p.name, s) = n
OldCase(d, n)      == CHOOSE c \in UsedCases(d) : n \in NewCases(d, c)

NewRef(d, p, s) == IF s = None THEN None ELSE NewResult(d, p.name, s)

\* The apply: copies with new identifiers, references moved, originals deleted.
\* Cases that no result uses, with their procedures, stay; so do the references of a
\* defect that the plan does not know.
Renumbering(d, p) ==
  LET used     == UsedCases(d)
      moved    == UNION {ProceduresOf(d, c) : c \in used}
      newCases == UNION {NewCases(d, c) : c \in used}
      copies   == UNION {{NewProcedure(d, q, new) : new \in NewCases(d, d.procedures[q].case)} : q \in moved}
  IN [d EXCEPT
       !.runs    = [n \in {p.name[r] : r \in DOMAIN p.name} |-> [d.runs[OldRun(p, n)] EXCEPT !.key = None]],
       !.results = [n \in {NewResult(d, p.name, s) : s \in DOMAIN d.results} |->
                      [d.results[OldResult(d, p, n)] EXCEPT !.run = p.name[@],
                                                            !.case = NewCase(d, OldResult(d, p, n))]],
       !.cases   = [n \in newCases \cup ((DOMAIN d.cases) \ used) |->
                      d.cases[IF n \in newCases THEN OldCase(d, n) ELSE n]],
       !.procedures = [n \in copies \cup ((DOMAIN d.procedures) \ moved) |->
                         IF n \in DOMAIN d.procedures THEN d.procedures[n]
                         ELSE [case |-> n[1], sequence |-> n[2]]],
       !.judged  = [j \in DOMAIN d.judged |-> [result |-> NewRef(d, p, d.judged[j].result),
                                               procedure |-> NewStep(d, p, d.judged[j].procedure)]],
       !.evidence = [e \in DOMAIN d.evidence |-> NewRef(d, p, d.evidence[e])],
       !.defects = [x \in DOMAIN d.defects |->
                      IF x \in p.defects THEN [result |-> NewRef(d, p, d.defects[x].result),
                                               retest |-> NewRef(d, p, d.defects[x].retest)]
                      ELSE d.defects[x]],
       !.reports = [x \in DOMAIN d.reports |-> [d.reports[x] EXCEPT !.release = Remap[@]]]]

\* 15-4 reads the database for its plan outside any transaction.
PlanRenumbering ==
  /\ at = "rest" /\ db.released
  /\ \E name \in RunNames(db) :
       /\ Renumberable(db, name)
       /\ \E first \in Picks([c \in UsedCases(db) |-> NewCases(db, c)]) :
            plan' = [name |-> name, first |-> first, defects |-> DOMAIN db.defects]
  /\ at' = "planned"
  /\ UNCHANGED <<db, given, about, late>>

\* One transaction; the validation comes after its commit.
Renumber == /\ at = "planned"
            /\ db' = Renumbering(db, plan)
            /\ at' = "rest" /\ plan' = None
            /\ UNCHANGED <<given, about, late>>

\* Meanwhile the server opens a defect on a result.
OpenDefect ==
  /\ \E x \in Opened \ (DOMAIN db.defects), s \in DOMAIN db.results :
       /\ db' = [db EXCEPT !.defects = [y \in (DOMAIN @) \cup {x} |->
                                          IF y = x THEN [result |-> s, retest |-> None] ELSE @[y]]]
       /\ about' = [y \in (DOMAIN about) \cup {x} |-> IF y = x THEN db.results[s].was ELSE about[y]]
  /\ UNCHANGED <<given, at, plan, late>>
-----------------------------------------------------------------------------
\* task15_5: the checks, and CREATE TABLE product_test_run_new, which sqlite3
\* commits at once: no transaction is open before the first INSERT.
\* Mutant: CreateNewTableUnchecked does not look at the rounds.
CreateNewTableUnchecked ==
  /\ at = "rest" /\ db.released /\ ~db.leftover
  /\ db' = [db EXCEPT !.leftover = TRUE]
  /\ at' = "rebuilding"
  /\ UNCHANGED <<given, plan, about, late>>

CreateNewTable ==
  /\ at = "rest" /\ db.released /\ ~db.leftover
  /\ \A r \in DOMAIN db.runs : ResolvedRound(db, db.runs[r].release) \in Canonical
  /\ \A x \in DOMAIN db.reports : ResolvedRound(db, db.reports[x].release) \in Canonical
  /\ db' = [db EXCEPT !.leftover = TRUE]
  /\ at' = "rebuilding"
  /\ UNCHANGED <<given, plan, about, late>>

\* Mutant of Rebuilt: the release of a run is not followed upstream.
RebuiltDirect(d) ==
  [d EXCEPT !.runs = [r \in DOMAIN d.runs |-> [d.runs[r] EXCEPT !.round = d.round[d.runs[r].release]]],
            !.released = FALSE, !.leftover = FALSE]

Rebuilt(d) ==
  [d EXCEPT !.runs = [r \in DOMAIN d.runs |->
                        [d.runs[r] EXCEPT !.round = ResolvedRound(d, d.runs[r].release)]],
            !.reports = [x \in DOMAIN d.reports |->
                        [d.reports[x] EXCEPT !.round = ResolvedRound(d, d.reports[x].release)]],
            !.released = FALSE, !.leftover = FALSE]

\* The transaction: the tables are rebuilt, the releases dropped.
Rebuild == /\ at = "rebuilding"
           /\ db' = Rebuilt(db)
           /\ at' = "rest"
           /\ UNCHANGED <<given, plan, about, late>>

\* An error, a lock that is held too long, or the end of the process before the
\* commit: a rollback.
Break == /\ at # "rest"
         /\ at' = "rest" /\ plan' = None
         /\ UNCHANGED <<db, given, about, late>>
-----------------------------------------------------------------------------
Init == /\ db \in Databases /\ given = db
        /\ about = [x \in DOMAIN db.defects |-> db.defects[x].result]
        /\ at = "rest" /\ plan = None /\ late = FALSE

Next == NormalizeRounds \/ PlanRenumbering \/ Renumber \/ CreateNewTable \/ Rebuild \/ Break \/ OpenDefect

Spec == Init /\ [][Next]_vars
-----------------------------------------------------------------------------
\* Every reference is to a row, or to None: except that of a defect which was opened
\* between the plan and the apply of 15-4.
Row(s)    == CHOOSE n \in DOMAIN db.results : db.results[n].was = s
Missed(x) == x \in Opened /\ db.defects[x].result \notin DOMAIN db.results

\* Typing, and the shape that one script leaves for the next: results lie in runs and
\* cases that exist, procedures in cases that exist, and after 15-5 runs and reports
\* carry a round of the seven.
TypeOK ==
  /\ at \in {"rest", "planned", "rebuilding"} /\ late \in BOOLEAN
  /\ \A n \in DOMAIN db.results : /\ db.results[n].run \in DOMAIN db.runs
                                  /\ db.results[n].case \in DOMAIN db.cases
  /\ \A q \in DOMAIN db.procedures : db.procedures[q].case \in DOMAIN db.cases
  /\ ~db.released => /\ \A r \in DOMAIN db.runs : db.runs[r].round \in Canonical
                     /\ \A x \in DOMAIN db.reports : db.reports[x].round \in Canonical

\* A judgement stays with a step of the case of its result, and with the step of the
\* same number: unless 15-4 has given the results of one case to several new cases,
\* for then the loop at task15_4_bulk_apply.py:248 moves all judgements to the first.
Split(c) == Cardinality({db.results[Row(s)].case : s \in {t \in DOMAIN given.results :
                                                            given.results[t].case = c}}) > 1

StepsKept ==
  \A j \in DOMAIN given.judged :
    LET step == db.procedures[db.judged[j].procedure] IN
    /\ step.sequence = given.procedures[given.judged[j].procedure].sequence
    /\ \/ step.case = db.results[db.judged[j].result].case
       \/ Split(given.results[given.judged[j].result].case)

\* A migration loses nothing: each result of the beginning is one row, and its
\* judgements, evidence and defects are still about it, whatever identifiers they have
\* now and wherever the scripts were broken off (task15_4_bulk_apply.py deletes the
\* originals at 282-289, and validates only defects and only after the commit).  A
\* defect that the server opens after the plan was read is the exception.  And StepsKept.
NothingLost ==
  /\ {db.results[n].was : n \in DOMAIN db.results} = DOMAIN given.results
  /\ Cardinality(DOMAIN db.results) = Cardinality(DOMAIN given.results)
  /\ \A j \in DOMAIN given.judged : db.judged[j].result = Row(given.judged[j].result)
  /\ \A e \in DOMAIN given.evidence : db.evidence[e] = Row(given.evidence[e])
  /\ \A x \in DOMAIN db.defects : Missed(x) \/ db.defects[x].result = Row(about[x])
  /\ \A x \in DOMAIN given.defects :
       given.defects[x].retest # None => db.defects[x].retest = Row(given.defects[x].retest)
  /\ StepsKept

\* No round that is used has been deleted: what a release, a run or a report names
\* exists, or is one of the seven that no script ever creates, which 15-1, 15-4 and
\* 15-5 accept by its name.
RoundsKept ==
  LET used == IF db.released THEN {db.round[release] : release \in Release} \ {None}
              ELSE {db.runs[r].round : r \in DOMAIN db.runs}
                     \cup {db.reports[x].round : x \in DOMAIN db.reports}
      neverCreated == Canonical \ (given.rounds \cup Created \cup {NewName : x \in {OldName} \cap given.rounds})
  IN  used \subseteq db.rounds \cup neverCreated

\* The campaign in the identifier of a case (15-3: the round of the release itself) is
\* the round that 15-5 gives to the run (the nearest round upstream): unless the
\* release had none of its own, or 15-1 was run again after 15-4.  And RoundsKept.
NamesAgree ==
  /\ \A n \in DOMAIN db.results :
       LET case == db.results[n].case IN
       Len(case) > 1 /\ case[1] # None /\ ~late => case[1] = RoundOfRun(db, db.results[n].run)
  /\ RoundsKept

\* Only 15-1 moves a result to another campaign: neither the renumbering nor the end
\* of the releases may, although the latter follows the releases upstream.
Campaign(d, s) == RoundOfRun(d, d.results[CHOOSE n \in DOMAIN d.results : d.results[n].was = s].run)

CampaignsKept ==
  [][\/ db.round # db'.round
     \/ \A s \in DOMAIN given.results : Campaign(db', s) = Campaign(db, s)]_vars
=============================================================================
