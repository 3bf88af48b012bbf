---------------------------- MODULE ExcelImport ----------------------------
(***************************************************************************)
(* scripts/migrate_excel_to_db.py: the workbook is put into the database   *)
(* in nine transactions.  What an earlier import has inserted is found by  *)
(* its identifier and left alone, so that an import that was broken off    *)
(* can be started again, also with a later edition of the workbook.        *)
(***************************************************************************)
EXTENDS Naturals, Sequences, Functions

CONSTANTS
  Editions,  \* the workbook, as it is and as it is later corrected
  None

VARIABLES
  db,       \* the database, as every connection reads it
  main,     \* the content of its main file, without the write-ahead log
  next,     \* the transaction that the import does next, 0 if none runs
  edition,  \* the edition of the workbook that is in the file
  touched   \* whether anything but the import has written

importVars == <<db, main, next, edition, touched>>

\* The rows that exist win.
f ++ g == [n \in (DOMAIN f) \cup (DOMAIN g) |-> IF n \in DOMAIN f THEN f[n] ELSE g[n]]
-----------------------------------------------------------------------------
(* Identifiers are tuples: their prefix, and the text that follows it.  A   *)
(* row keeps, as "was", what it has been made for.                          *)

Fallback    == <<"FALLBACK", None>>
Placeholder == <<"PLACEHOLDER", None, <<>>>>

\* A database without rows.  Of the tables that scripts drop or add, "tables" has those
\* that exist.
Empty ==
  [accounts |-> {}, tables |-> {}, definitions |-> {}, targets |-> <<>>, units |-> {},
   configDefs |-> {}, configs |-> <<>>, unified |-> {}, served |-> {},
   column |-> "environment", columns |-> {}, rounds |-> {},
   releases |-> <<>>, cases |-> <<>>, procedures |-> <<>>, reports |-> <<>>,
   runs |-> <<>>, results |-> <<>>, defects |-> <<>>]

\* CREATE TABLE IF NOT EXISTS
Schema(d) == [d EXCEPT !.tables = @ \cup {"definitions", "targets", "configDefs", "configs"}]

\* The report identifiers of a report, TBD for one without: its place in the list
\* stands for the number that the script puts into the name.
RidsOf(w, n) == LET rids == w.reports[n].rids IN IF rids = <<>> THEN <<<<"TBD", n>>>> ELSE rids

\* The reports that list an identifier: the first of them makes its rows.
Reporting(w, rid) == {n \in DOMAIN w.reports : rid \in Range(RidsOf(w, n))}
FirstOf(S)   == CHOOSE n \in S : \A m \in S : n <= m
LastOf(S)    == CHOOSE n \in S : \A m \in S : n >= m
Rids(w)      == UNION {Range(RidsOf(w, n)) : n \in DOMAIN w.reports}
Released(w)  == UNION {Range(w.reports[n].rids) : n \in DOMAIN w.reports}
ReleaseFor(w, rid) == IF rid \in Released(w) THEN rid ELSE Fallback

\* What results name and no sheet defines gets a skeleton.
CasesOf(w)   == DOMAIN w.steps \cup ({w.results[i].case : i \in DOMAIN w.results} \ {None})
ConfigsOf(w) == Range(w.configs) \cup ({w.results[i].config : i \in DOMAIN w.results} \ {None})

LinesOf(w)   == UNION {Range(w.reports[n].targets) : n \in DOMAIN w.reports}
FirstTarget(w) ==
  LET listing == {n \in DOMAIN w.reports : w.reports[n].targets # <<>>} IN
  IF listing = {} THEN None ELSE Head(w.reports[FirstOf(listing)].targets)

\* The target of a report is looked up by its alias: of reports of one alias the last
\* one that lists targets decides.
TargetOf(w, n) ==
  LET namesakes == {m \in DOMAIN w.reports : w.reports[m].alias = w.reports[n].alias /\ w.reports[m].targets # <<>>} IN
  IF namesakes = {} THEN FirstTarget(w) ELSE Head(w.reports[LastOf(namesakes)].targets)

\* The configurations of the results of a report: if there are none, the first one.
Used(w, rid) ==
  LET used == {w.results[i].config : i \in {j \in DOMAIN w.results : w.results[j].rid = rid}} \ {None} IN
  IF used = {} THEN {Head(w.configs)} ELSE used

\* A result without a configuration goes to the first run of its report; one whose
\* report the workbook does not list to a run of the fallback release.
FirstUsed(w, rid) == CHOOSE c \in Used(w, rid) : \A e \in Used(w, rid) : w.order[c] <= w.order[e]
RunFor(w, i) ==
  LET r == w.results[i] IN
  IF r.rid \notin Rids(w) THEN <<"FALLBACK", r.rid>>
  ELSE <<"RUN", r.rid, IF r.config \in Used(w, r.rid) THEN r.config ELSE FirstUsed(w, r.rid)>>
CaseFor(w, i) == IF w.results[i].case = None THEN Placeholder ELSE w.results[i].case
ResultName(w, i) == <<w.results[i].rid, w.results[i].no>>
ResultsOf(w)  == {ResultName(w, i) : i \in DOMAIN w.results}
RowFor(w, s)  == FirstOf({i \in DOMAIN w.results : ResultName(w, i) = s})

\* A defect is named by its issue, the number of its result and the place of the issue
\* among those of the result.  The report is not in the name: results of one number
\* and one issue share a defect, which is about the one that was inserted first.
DefectNames(w, i) ==
  LET r == w.results[i] IN {<<r.issues[k], r.no, k>> : k \in DOMAIN r.issues}

Projects(d)    == [d EXCEPT !.accounts = @ \cup {<<"project">>}]
Users(w, d)    == [d EXCEPT !.accounts = @ \cup {<<"user", u>> : u \in {"migration"} \cup w.testers}]
Members(w, d)  == [d EXCEPT !.accounts = @ \cup {<<"member", "migration">>}]
Targets(w, d)  == [d EXCEPT !.definitions = @ \cup {line[1] : line \in LinesOf(w)},
                            !.targets = @ ++ [line \in LinesOf(w) |-> line[1]]]
Environments(w, d) ==
  LET names == {<<"ENV", c>> : c \in ConfigsOf(w)} IN
  [d EXCEPT !.configDefs = @ \cup names, !.configs = @ ++ [c \in names |-> c]]
Releases(w, d) ==
  [d EXCEPT !.releases = @ ++ [rid \in Released(w) \cup {Fallback} |-> [was |-> rid, round |-> None]]]
Cases(w, d) ==
  [d EXCEPT !.cases = @ ++ [c \in CasesOf(w) |-> [was |-> c, skeleton |-> c \notin DOMAIN w.steps]],
            !.procedures = @ ++ [p \in UNION {{c} \X (1 .. w.steps[c]) : c \in DOMAIN w.steps} |-> p[1]]]
Reports(w, d) ==
  LET row(rid, c) == [was |-> <<rid, c>>, release |-> ReleaseFor(w, rid), config |-> <<"ENV", c>>,
                      target |-> TargetOf(w, FirstOf(Reporting(w, rid)))]
  IN  [d EXCEPT !.reports = @ ++ [rid \in Rids(w) |-> ReleaseFor(w, rid)],
                !.runs = @ ++ [u \in UNION {{<<"RUN", rid, c>> : c \in Used(w, rid)} : rid \in Rids(w)} |-> row(u[2], u[3])]]

\* The transaction of the results: fallback runs and the placeholder case with it, and
\* defects only for the results that are new.
NewResults(w, d) == {RowFor(w, s) : s \in ResultsOf(w) \ DOMAIN d.results}
WithResults(w, d) ==
  LET lost == {w.results[i].rid : i \in DOMAIN w.results} \ Rids(w)
      row(i) == [run |-> RunFor(w, i), case |-> CaseFor(w, i), combo |-> w.results[i].combo]
  IN  [d EXCEPT
         !.runs = @ ++ [u \in {<<"FALLBACK", rid>> : rid \in lost} |->
                          [was |-> <<u[2], None>>, release |-> Fallback, target |-> FirstTarget(w),
                           config |-> <<"ENV", Head(w.configs)>>]],
         !.cases = @ ++ [c \in {CaseFor(w, i) : i \in DOMAIN w.results} \cap {Placeholder} |->
                           [was |-> c, skeleton |-> TRUE]],
         !.results = @ ++ [s \in ResultsOf(w) |-> row(RowFor(w, s))]]
Results(w, d) ==
  LET new == NewResults(w, d)
      about(x) == ResultName(w, FirstOf({i \in new : x \in DefectNames(w, i)}))
  IN  [WithResults(w, d) EXCEPT
         !.defects = @ ++ [x \in UNION {DefectNames(w, i) : i \in new} |-> about(x)]]

After(k, w, d) ==
  CASE k = 1 -> Projects(Schema(d)) [] k = 2 -> Users(w, d) [] k = 3 -> Members(w, d)
    [] k = 4 -> Targets(w, d) [] k = 5 -> Environments(w, d) [] k = 6 -> Releases(w, d)
    [] k = 7 -> Cases(w, d) [] k = 8 -> Reports(w, d) [] k = 9 -> Results(w, d)

\* A run is inserted with the column that a start of the server renames.
Fails(k, w, d) == k \in {8, 9} /\ d.column = "config" /\ DOMAIN After(k, w, d).runs # DOMAIN d.runs

\* The sheets are lists.  A sheet of configurations and a report with a target are there:
\* else the first of either is not, and the script writes an empty identifier.
WorkbookAssumption ==
  /\ Len(Editions) \in Nat \ {0}
  /\ \A e \in 1 .. Len(Editions) : LET w == Editions[e] IN
       /\ w.reports \in Seq(Range(w.reports)) /\ w.configs \in Seq(Range(w.configs)) \ {<<>>}
       /\ w.results \in Seq(Range(w.results))
       /\ \A n \in DOMAIN w.reports : w.reports[n].targets \in Seq(Range(w.reports[n].targets))
       /\ \E n \in DOMAIN w.reports : w.reports[n].targets # <<>>
       /\ \A c \in ConfigsOf(w) : w.order[c] \in Nat
ASSUME WorkbookIsWhole == WorkbookAssumption
-----------------------------------------------------------------------------
ImportStart == /\ next = 0
               /\ next' = 1
               /\ UNCHANGED <<db, main, edition, touched>>

ImportStep == /\ next \in 1 .. 9 /\ ~Fails(next, Editions[edition], db)
              /\ db' = After(next, Editions[edition], db)
              /\ next' = next + 1
              /\ UNCHANGED <<main, edition, touched>>

\* The end: the connection is closed.
ImportEnd == /\ next = 10
             /\ next' = 0 /\ main' = db
             /\ UNCHANGED <<db, edition, touched>>

\* Mutant of ImportCrash: results are committed one by one, their defects after them.
ImportCrashTorn ==
  /\ next \in 1 .. 10
  /\ db' \in {db} \cup (IF next = 9 THEN {WithResults(Editions[edition], db)} ELSE {})
  /\ next' = 0
  /\ UNCHANGED <<main, edition, touched>>

\* The end of the process, or an error, before the commit of the step: a rollback.
ImportCrash ==
  /\ next \in 1 .. 10
  /\ next' = 0
  /\ UNCHANGED <<db, main, edition, touched>>

\* Someone corrects the workbook.
Correct == /\ next = 0 /\ edition < Len(Editions)
           /\ edition' = edition + 1
           /\ UNCHANGED <<db, main, next, touched>>

ImportInit == db = Empty /\ main = Empty /\ next = 0 /\ edition = 1 /\ touched = FALSE
-----------------------------------------------------------------------------
\* What one import of each edition makes of an empty database.
Whole(w) ==
  Results(w, Reports(w, Cases(w, Releases(w, Environments(w, Targets(w, Members(w, Users(w, Projects(Schema(Empty))))))))))
Fresh == [e \in 1 .. Len(Editions) |-> Whole(Editions[e])]

\* The defects that the rows of a result ask for, in the editions up to one.
Listed(s, e) ==
  UNION {{DefectNames(Editions[f], i) : i \in {j \in DOMAIN Editions[f].results : ResultName(Editions[f], j) = s}} :
           f \in 1 .. e}

\* An import that was broken off anywhere, and as often, has in the end done what one
\* import does ("re-runnable": every insert of migrate_excel_to_db.py is guarded by
\* exists): every row of the workbook is there with what belongs to it, and no other
\* row, except of an earlier edition.  A defect is about a result whose row lists its
\* issue, and every result has the defects of its row as it was when it was inserted --
\* or another result of its number has them: of a corrected report identifier the new
\* result finds the defect of the old one.
Tables  == {"targets", "configs", "releases", "cases", "procedures", "reports", "runs", "results"}
Resumed ==
  next = 10 /\ ~touched =>
    LET earlier == {Fresh[e] : e \in 1 .. edition}
        now     == Fresh[edition]
    IN  /\ now.accounts \subseteq db.accounts /\ db.accounts \subseteq UNION {w.accounts : w \in earlier}
        /\ \A t \in Tables :
             /\ DOMAIN now[t] \subseteq DOMAIN db[t]
             /\ \A n \in DOMAIN db[t] : \E w \in earlier : n \in DOMAIN w[t] /\ db[t][n] = w[t][n]
        /\ \A x \in DOMAIN db.defects : \E row \in Listed(db.defects[x], edition) : x \in row
        /\ \A s \in DOMAIN db.results : \E row \in Listed(s, edition) : row \subseteq DOMAIN db.defects
=============================================================================
