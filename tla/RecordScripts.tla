--------------------------- MODULE RecordScripts ---------------------------
(***************************************************************************)
(* The scripts that rework imported records in place: they merge the       *)
(* tables of targets and of environments, rename configurations, releases, *)
(* cases and their steps, add rounds and give runs other targets.  Each    *)
(* reads the database, and then changes it in one transaction or not at    *)
(* all: except that a CREATE TABLE before its first write is committed at  *)
(* once, and that two scripts write a whole file back.  Between them, the  *)
(* server starts and writes, and the import is repeated.                   *)
(***************************************************************************)
EXTENDS ExcelImport, FiniteSets

CONSTANTS
  Normal,      \* normalize_combo: the canonical topology of a connection
  Legacy,      \* the connections that name access points
  Unclassified,
  Length,      \* the rank of a topology: more devices first
  Device,      \* the device of a topology, None if it has none
  Scenario,    \* the scenario of the cases that have no identifier of their own
  RoundOf,     \* the round that the identifier of a release tells, or None
  TestRounds,  \* the rounds that a script knows
  Remap,       \* the runs of the diagnosis, with their old and new target
  Wanted,      \* the targets that one script wants to add
  New,         \* a target that a user registers
  MaxScripts   \* bound: the scripts and starts of the server after the import

\* The rounds that identifiers tell are rounds of the script.
ASSUME ScriptAssumption == /\ MaxScripts \in Nat /\ IsFiniteSet(TestRounds)
                           /\ \A r \in DOMAIN RoundOf : RoundOf[r] \in TestRounds

VARIABLES
  doing,  \* the merge whose new table has been created and not been filled
  left    \* the scripts that may still be run

vars == <<db, main, next, edition, touched, doing, left>>
-----------------------------------------------------------------------------
Renamed(rows, to(_)) ==
  [n \in {to(old) : old \in DOMAIN rows} |-> rows[CHOOSE old \in DOMAIN rows : to(old) = n]]
Distinct(names, to(_)) == \A m, n \in names : to(m) = to(n) => m = n

\* A script runs when nothing else does.  If a condition of it fails, or a statement
\* is refused, then it ends without a change, and is not a step.
Script(d) == /\ doing = "rest" /\ next = 0 /\ left > 0
             /\ db' = d /\ main' = d
             /\ touched' = TRUE /\ left' = left - 1
             /\ UNCHANGED <<next, edition, doing>>

\* A merge needs definitions and rows one to one.
OneToOne(definitions, rows) ==
  /\ Cardinality(DOMAIN rows) = Cardinality(definitions)
  /\ {rows[n] : n \in DOMAIN rows} = definitions

\* The new table is created before the first write and is committed at once: that of
\* the targets replaces the one that may be there.
MergeTargetsStart ==
  /\ doing = "rest" /\ next = 0 /\ left > 0
  /\ {"definitions", "targets"} \subseteq db.tables /\ OneToOne(db.definitions, db.targets)
  /\ \A u \in DOMAIN db.runs : db.runs[u].target \in DOMAIN db.targets
  /\ db' = [db EXCEPT !.tables = @ \cup {"units"}, !.units = {}]
  /\ doing' = "targets" /\ touched' = TRUE /\ left' = left - 1
  /\ UNCHANGED <<main, next, edition>>

MergeEnvironmentsStart ==
  /\ doing = "rest" /\ next = 0 /\ left > 0
  /\ {"configDefs", "configs"} \subseteq db.tables /\ OneToOne(db.configDefs, db.configs)
  /\ db.column = "environment" /\ "unified" \notin db.tables
  /\ db' = [db EXCEPT !.tables = @ \cup {"unified"}]
  /\ doing' = "environments" /\ touched' = TRUE /\ left' = left - 1
  /\ UNCHANGED <<main, next, edition>>

\* The transaction of a merge: the rows are copied and the old tables dropped.
Merged(d) ==
  IF doing = "targets"
  THEN [d EXCEPT !.units = DOMAIN d.targets, !.targets = <<>>, !.definitions = {},
                 !.tables = @ \ {"definitions", "targets"}]
  ELSE [d EXCEPT !.unified = DOMAIN d.configs, !.configs = <<>>, !.configDefs = {},
                 !.tables = @ \ {"configDefs", "configs"}]
Merge == /\ doing # "rest"
         /\ db' = Merged(db) /\ main' = Merged(db)
         /\ doing' = "rest"
         /\ UNCHANGED <<next, edition, touched, left>>

\* The end of the process in between.
Break == /\ doing # "rest"
         /\ doing' = "rest"
         /\ UNCHANGED <<db, main, next, edition, touched, left>>

DropOldTargets ==
  /\ db.definitions = {} /\ DOMAIN db.targets = {}
  /\ {"definitions", "targets"} \cap db.tables # {}
  /\ Script([db EXCEPT !.tables = @ \ {"definitions", "targets"}])

\* It works on a copy of the main file only.  What is missing there cannot be added: a
\* definition has no such column, and for a target the log would have to be written
\* back within the transaction.  If nothing is missing, the copy replaces the database.
AddMissingTargets ==
  /\ "targets" \in main.tables /\ Wanted \subseteq DOMAIN main.targets
  /\ main # db
  /\ Script(main)

\* Mutant of EnvPrefix: the runs keep the old identifier.
EnvPrefixAlone ==
  LET to(n) == IF n[1] = "ENV" THEN <<"TEST", n[2]>> ELSE n IN
  /\ "configs" \in db.tables /\ db.column = "environment"
  /\ Distinct(DOMAIN db.configs, to) /\ Distinct(db.configDefs, to)
  /\ Script([db EXCEPT !.configDefs = {to(n) : n \in @},
                       !.configs = Renamed([n \in DOMAIN @ |-> to(@[n])], to)])

\* "ENV-TEST_CONFIG-1" becomes "TEST_CONFIG-1", in the tables and in the runs that name
\* a row that becomes it.
EnvPrefix ==
  LET to(n) == IF n[1] = "ENV" THEN <<"TEST", n[2]>> ELSE n IN
  /\ "configs" \in db.tables /\ db.column = "environment"
  /\ Distinct(DOMAIN db.configs, to) /\ Distinct(db.configDefs, to)
  /\ Script([db EXCEPT !.configDefs = {to(n) : n \in @},
                       !.configs = Renamed([n \in DOMAIN @ |-> to(@[n])], to),
                       !.runs = [u \in DOMAIN @ |-> IF @[u].config \in DOMAIN db.configs
                                                    THEN [@[u] EXCEPT !.config = to(db.runs[u].config)] ELSE @[u]]])

\* The runs of the diagnosis get other targets: all of them, if all are as diagnosed.
\* Whether the new targets exist is printed and not asked.  The check that follows the
\* commit compares with the old targets again and always fails.
Relink ==
  /\ "units" \in db.tables
  /\ \A u \in DOMAIN Remap : u \in DOMAIN db.runs /\ db.runs[u].target = Remap[u][1]
  /\ Script([db EXCEPT !.runs = [u \in DOMAIN @ |->
               IF u \in DOMAIN Remap THEN [@[u] EXCEPT !.target = Remap[u][2]] ELSE @[u]]])

\* What a normalisation of the rounds that is broken off leaves: a column.
ShowColumn == /\ "visible" \notin db.columns
              /\ Script([db EXCEPT !.columns = @ \cup {"visible"}])

\* Access points become routers, in releases and in the connections of results.  Two
\* releases of one new name, or a result without a remark, are errors; a remark that
\* tells no connection ("") stays as it is.
Router(rid) == IF rid[2] \in Legacy THEN <<rid[1], Normal[rid[2]]>> ELSE rid
ApToRouter ==
  /\ db.columns = {"round", "visible"}
  /\ Distinct(DOMAIN db.releases, Router)
  /\ \A s \in DOMAIN db.results : db.results[s].combo # None
  /\ Script([db EXCEPT
       !.releases = Renamed(@, Router),
       !.runs     = [u \in DOMAIN @ |-> [@[u] EXCEPT !.release = Router(db.runs[u].release)]],
       !.reports  = [x \in DOMAIN @ |-> Router(@[x])],
       !.results  = [s \in DOMAIN @ |-> [@[s] EXCEPT !.combo =
                       IF db.results[s].combo = "" THEN "" ELSE Normal[db.results[s].combo]]]])

\* A case moves, with its results and its steps.
Moved(d, to(_)) ==
  [d EXCEPT !.cases      = Renamed(@, to),
            !.results    = [s \in DOMAIN @ |-> [@[s] EXCEPT !.case = to(d.results[s].case)]],
            !.procedures = [p \in DOMAIN @ |-> to(@[p])]]

\* The connections of the results of a case; of several, that of most devices.
CombosOf(c) == {IF r.combo = None THEN Unclassified ELSE Normal[r.combo] :
                  r \in {q \in {db.results[s] : s \in DOMAIN db.results} : q.case = c}}
ResultsWith(c, t) == {s \in DOMAIN db.results : /\ db.results[s].case = c
                                               /\ IF db.results[s].combo = None THEN t = Unclassified
                                                  ELSE t = Normal[db.results[s].combo]}
Longest(S) == IF S = {} THEN Unclassified ELSE CHOOSE t \in S : \A o \in S : Length[o] <= Length[t]

\* TEST_CASE-topology-scenario becomes TEST_CASE-longest topology-device-scenario: also
\* if the scenario begins with a device from the last time.
Proposal(c) ==
  LET longest == Longest(CombosOf(c)) IN
  IF c[1] # "TEST" \/ longest = Unclassified \/ Device[c[2]] = None THEN c
  ELSE <<"TEST", longest, <<Device[c[2]]>> \o c[3]>>

\* Mutant of CasesByTopology: the steps keep the old identifier of their case.
CasesByTopologyAlone ==
  LET to(c) == IF Proposal(c) \in DOMAIN db.cases THEN c ELSE Proposal(c) IN
  /\ Distinct(DOMAIN db.cases, to)
  /\ \E c \in DOMAIN db.cases : to(c) # c
  /\ Script([Moved(db, to) EXCEPT !.procedures = db.procedures])

\* A name that is taken is left out; one that two cases are to get is an error.
CasesByTopology ==
  LET to(c) == IF Proposal(c) \in DOMAIN db.cases THEN c ELSE Proposal(c) IN
  /\ Distinct(DOMAIN db.cases, to)
  /\ \E c \in DOMAIN db.cases : to(c) # c
  /\ Script(Moved(db, to))

\* The connection that most results of a case have.
Commonest(c) == IF CombosOf(c) = {} THEN Unclassified
                ELSE CHOOSE t \in CombosOf(c) : \A o \in CombosOf(c) :
                       Cardinality(ResultsWith(c, o)) <= Cardinality(ResultsWith(c, t))

\* A case whose identifier does not begin with TEST_CASE gets one that does, with the
\* first number that neither a case has nor another of them gets: one whose scenario
\* the script does not know is an error.  Deprecated ones are only marked, or all get the
\* same scenario, from number 2 on.
FixAbnormalCases ==
  \E rename \in BOOLEAN :
  LET deprecated == {c \in DOMAIN db.cases : c[1] = "DEPRECATED"}
      known      == {c \in DOMAIN db.cases : c[1] \notin {"TEST", "DEPRECATED"}} \ {Placeholder}
      abnormal   == known \cup (IF rename THEN deprecated ELSE {})
      first(c)   == IF c \in deprecated THEN 2 ELSE 1
      topology   == [c \in abnormal |-> Commonest(c)]
      name(c, n) == <<"TEST", topology[c], IF c \in deprecated THEN <<"HDC", "DHCP", n>> ELSE <<"HRK", Scenario[c], n>>>>
  IN  /\ next = 0 /\ left > 0 /\ abnormal # {} /\ known \subseteq DOMAIN Scenario
      /\ \E number \in [abnormal -> 1 .. 1 + Cardinality(DOMAIN db.cases)] :
           LET to(c) == IF c \in abnormal THEN name(c, number[c]) ELSE c
           IN  /\ \A c \in abnormal :
                    /\ number[c] >= first(c)
                    /\ \A n \in first(c) .. (number[c] - 1) :
                         name(c, n) \in (DOMAIN db.cases) \cup {to(e) : e \in abnormal}
               /\ Distinct(DOMAIN db.cases, to)
               /\ Script(Moved(db, to))

\* What AddRounds that is broken off leaves: its table, created before the first write.
RoundsTable == /\ "rounds" \notin db.tables
               /\ Script([db EXCEPT !.tables = @ \cup {"rounds"}])

AddRounds ==
  LET round(rid) == IF rid[1] \in DOMAIN RoundOf THEN <<"TEST", RoundOf[rid[1]]>> ELSE db.releases[rid].round IN
  Script([db EXCEPT !.tables = @ \cup {"rounds"}, !.rounds = @ \cup {<<"TEST", r>> : r \in TestRounds},
                    !.columns = @ \cup {"round"},
                    !.releases = [rid \in DOMAIN @ |-> [@[rid] EXCEPT !.round = round(rid)]]])

\* TEST_CASE, TEST_CONFIG and TEST_ROUND lose their TEST_ (BARE), in every table that is named:
\* if one of them does not exist, or a new identifier does, nothing happens.
Stripped(n)  == IF n # None /\ n[1] = "TEST" THEN [n EXCEPT ![1] = "BARE"] ELSE n
StripPrefix ==
  LET step(p) == <<Stripped(p[1]), p[2]>> IN
  /\ {"configs", "rounds"} \subseteq db.tables /\ db.column = "environment" /\ "round" \in db.columns
  /\ Distinct(DOMAIN db.cases, Stripped) /\ Distinct(db.rounds, Stripped)
  /\ Distinct(DOMAIN db.configs, Stripped) /\ Distinct(db.configDefs, Stripped)
  /\ Distinct(DOMAIN db.procedures, step)
  /\ Script([Moved(db, Stripped) EXCEPT
       !.procedures = Renamed(@, step),
       !.rounds     = {Stripped(r) : r \in @},
       !.releases   = [rid \in DOMAIN @ |-> [@[rid] EXCEPT !.round = Stripped(db.releases[rid].round)]],
       !.configDefs = {Stripped(n) : n \in @},
       !.configs    = Renamed([n \in DOMAIN @ |-> Stripped(@[n])], Stripped),
       !.runs       = [u \in DOMAIN @ |-> [@[u] EXCEPT !.config = Stripped(db.runs[u].config)]]])
-----------------------------------------------------------------------------
\* The server renames the merged table of environments, and the column of the runs,
\* and creates the tables of its models that do not exist.  If its own table exists
\* already, the renaming fails and so does every start.
ServerStart ==
  LET merged == "unified" \in db.tables IN
  /\ doing = "rest" /\ next = 0 /\ left > 0
  /\ merged => "served" \notin db.tables
  /\ db' = [db EXCEPT !.tables  = (@ \ {"unified"}) \cup {"served", "units", "rounds"},
                      !.served  = IF merged THEN db.unified ELSE @,
                      !.unified = IF merged THEN {} ELSE @,
                      !.column  = IF merged THEN "config" ELSE @]
  /\ db' # db
  /\ touched' = TRUE /\ left' = left - 1
  /\ UNCHANGED <<main, next, edition, doing>>

\* A commit of the server, which keeps the database open, is in the log.
Serve(d) == /\ "served" \in db.tables /\ next = 0 /\ doing = "rest" /\ d # db
            /\ db' = d /\ touched' = TRUE
            /\ UNCHANGED <<main, next, edition, doing, left>>
Register == Serve([db EXCEPT !.units = @ \cup {New}])
OpenDefect == \E s \in DOMAIN db.results :
                /\ <<"server", 0>> \notin DOMAIN db.defects
                /\ Serve([db EXCEPT !.defects = @ ++ [x \in {<<"server", 0>>} |-> s]])

Checkpoint == /\ doing = "rest" /\ next = 0 /\ main # db
              /\ main' = db
              /\ UNCHANGED <<db, next, edition, touched, doing, left>>

Import == /\ doing = "rest"
          /\ \/ ImportStep /\ UNCHANGED left
             \/ ImportEnd /\ UNCHANGED left
             \/ ImportCrash /\ UNCHANGED left
             \/ Correct /\ UNCHANGED left
             \/ ImportStart /\ left' = IF touched THEN left - 1 ELSE left
          /\ left' >= 0
          /\ UNCHANGED doing

Init == ImportInit /\ doing = "rest" /\ left = MaxScripts

Next == \/ Import
        \/ MergeTargetsStart \/ MergeEnvironmentsStart \/ Merge \/ Break
        \/ DropOldTargets \/ AddMissingTargets \/ EnvPrefix \/ Relink \/ ShowColumn \/ ApToRouter
        \/ CasesByTopology \/ FixAbnormalCases \/ RoundsTable \/ AddRounds \/ StripPrefix
        \/ ServerStart \/ Register \/ OpenDefect \/ Checkpoint

Spec == Init /\ [][Next]_vars
-----------------------------------------------------------------------------
\* The queries of scripts/diagnose_integrity.py, apart from those of the old tables.
Orphans(d) ==
  {s \in DOMAIN d.results : d.results[s].run \notin DOMAIN d.runs \/ d.results[s].case \notin DOMAIN d.cases}
  \cup {p \in DOMAIN d.procedures : d.procedures[p] \notin DOMAIN d.cases}
  \cup {x \in DOMAIN d.defects : d.defects[x] \notin DOMAIN d.results}
  \cup {u \in DOMAIN d.runs : d.runs[u].release \notin DOMAIN d.releases}
  \cup {rid \in DOMAIN d.releases : d.releases[rid].round \notin d.rounds \cup {None}}

\* The target and the configuration of a run are in one of the tables there are: the old
\* ones, or those of a merge, under the name that the column of the runs goes with.
TargetFound(d, u) == d.runs[u].target \in d.units \cup DOMAIN d.targets
ConfigFound(d, u) == d.runs[u].config \in (DOMAIN d.configs) \cup (IF d.column = "config" THEN d.served ELSE d.unified)

\* What scripts leave out: Relink does not ask for the new targets, and StripPrefix
\* changes runs also if their configuration is in a merged table, which it does not know.
Relinked(d, u) == u \in DOMAIN Remap /\ d.runs[u].target = Remap[u][2]
Overlooked(d, u) == \E n \in d.unified \cup d.served : d.runs[u].config = Stripped(n)

\* The identifiers that rows name exist, whatever scripts have run in whatever order and
\* been broken off, whatever was imported again (FK_CHECKS, diagnose_integrity.py:38):
\* in the database and in its main file, apart from what Relink and StripPrefix leave.
Sound(d) ==
  /\ Orphans(d) = {}
  /\ \A x \in DOMAIN d.reports : d.reports[x] \in DOMAIN d.releases
  /\ \A u \in DOMAIN d.runs : /\ TargetFound(d, u) \/ Relinked(d, u)
                              /\ ConfigFound(d, u) \/ Overlooked(d, u)
TypeOK ==
  /\ next \in 0 .. 10 /\ doing \in {"rest", "targets", "environments"} /\ left \in 0 .. MaxScripts
  /\ Sound(db) /\ Sound(main)

\* What a result is about: its run, release and case, whatever they are called now.
About(d, s) == LET u == d.runs[d.results[s].run] IN <<u.was, d.releases[u.release].was, d.cases[d.results[s].case].was>>

\* The steps that lie under the case of a result, by their numbers.
StepsUnder(d, s) == {p[2] : p \in {q \in DOMAIN d.procedures : d.procedures[q] = d.results[s].case}}

\* No step loses a result, a defect, a target of the server or a round, or makes a
\* result one of another run, release or case, or parts it from the steps of its case:
\* except that AddMissingTargets puts the main file in the place of what the server has
\* committed since, and that a second merge replaces the table of targets.
RowsKept ==
  [][LET both == DOMAIN db.results \cap DOMAIN db'.results IN
     /\ \A s \in both : About(db', s) = About(db, s)
     /\ \/ db' = main
        \/ /\ DOMAIN db.results \subseteq DOMAIN db'.results /\ DOMAIN db.defects \subseteq DOMAIN db'.defects
           /\ \A s \in both : StepsUnder(db, s) \subseteq StepsUnder(db', s)
           /\ Cardinality(db.rounds) <= Cardinality(db'.rounds)
           /\ db.units \subseteq db'.units \/ doing' = "targets"]_vars
=============================================================================
