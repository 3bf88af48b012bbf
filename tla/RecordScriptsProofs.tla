------------------------- MODULE RecordScriptsProofs -------------------------
(***************************************************************************)
(* Proofs about RecordScripts, and about the import as a part of it.  The  *)
(* invariant says of the database and of its main file that rows name rows *)
(* there are, of an import under way what its steps so far have put there, *)
(* and of a database that only imports have written where its rows are     *)
(* from.                                                                   *)
(***************************************************************************)
EXTENDS RecordScripts, FiniteSetTheorems, WellFoundedInduction, TLAPS

(* What rows are made of. *)
IsRelease(r) == r = [was |-> r.was, round |-> r.round]
IsCase(r)    == r = [was |-> r.was, skeleton |-> r.skeleton]
IsRun(r)     == r = [was |-> r.was, release |-> r.release, config |-> r.config, target |-> r.target]
IsResult(r)  == r = [run |-> r.run, case |-> r.case, combo |-> r.combo]
IsPair(n)    == n = <<n[1], n[2]>>

Fields == {"accounts", "tables", "definitions", "targets", "units", "configDefs", "configs", "unified",
           "served", "column", "columns", "rounds", "releases", "cases", "procedures", "reports",
           "runs", "results", "defects"}
IsDb(d) == d = [f \in Fields |-> d[f]]

RowsTyped(d) ==
  /\ \A n \in DOMAIN d.releases : IsRelease(d.releases[n])
  /\ \A n \in DOMAIN d.cases : IsCase(d.cases[n])
  /\ \A n \in DOMAIN d.runs : IsRun(d.runs[n])
  /\ \A n \in DOMAIN d.results : IsResult(d.results[n])

\* A run goes by the merged tables exactly if the server has renamed them.
Renaming(d) ==
  /\ IsFiniteSet(d.rounds)
  /\ \A n \in DOMAIN d.configs : IsPair(n)
  /\ \A n \in d.unified : IsPair(n)
  /\ \A n \in d.served : IsPair(n)
  /\ "unified" \in d.tables \/ d.unified = {}
  /\ "served" \in d.tables \/ d.served = {}
  /\ d.column = "environment" \/ (d.column = "config" /\ "served" \in d.tables)

Right(d) == IsDb(d) /\ RowsTyped(d) /\ Renaming(d) /\ Sound(d)

Control ==
  /\ next \in 0 .. 10 /\ doing \in {"rest", "targets", "environments"} /\ left \in 0 .. MaxScripts
  /\ edition \in 1 .. Len(Editions) /\ touched \in BOOLEAN
  /\ doing # "rest" => next = 0 /\ touched

Merging ==
  /\ doing = "targets" => db.units = {} /\ \A u \in DOMAIN db.runs : db.runs[u].target \in DOMAIN db.targets
  /\ doing = "environments" => db.column = "environment" /\ "unified" \in db.tables /\ db.unified = {}

\* What the main file has of a result, the database has.
Kept(r, s) == DOMAIN r \subseteq DOMAIN s /\ \A n \in DOMAIN r : s[n] = r[n]
Ahead(m, d) == Kept(m.results, d.results) /\ Kept(m.runs, d.runs) /\ Kept(m.releases, d.releases) /\ Kept(m.cases, d.cases)

\* What the steps of an import before step k have put into the database.
RunsOf(w) == UNION {{<<"RUN", rid, c>> : c \in Used(w, rid)} : rid \in Rids(w)}
StepsOf(w) == UNION {{c} \X (1 .. w.steps[c]) : c \in DOMAIN w.steps}
Names(w) == {<<"ENV", c>> : c \in ConfigsOf(w)}
Lost(w) == {<<"FALLBACK", rid>> : rid \in {w.results[i].rid : i \in DOMAIN w.results} \ Rids(w)}
Imported(k, w, d) ==
  /\ k > 1 => <<"project">> \in d.accounts
  /\ k > 2 => {<<"user", u>> : u \in {"migration"} \cup w.testers} \subseteq d.accounts
  /\ k > 3 => <<"member", "migration">> \in d.accounts
  /\ k > 4 => LinesOf(w) \subseteq DOMAIN d.targets
  /\ k > 5 => Names(w) \subseteq DOMAIN d.configs
  /\ k > 6 => Released(w) \cup {Fallback} \subseteq DOMAIN d.releases
  /\ k > 7 => CasesOf(w) \subseteq DOMAIN d.cases /\ StepsOf(w) \subseteq DOMAIN d.procedures
  /\ k > 8 => Rids(w) \subseteq DOMAIN d.reports /\ RunsOf(w) \subseteq DOMAIN d.runs
  /\ k > 9 => /\ Lost(w) \subseteq DOMAIN d.runs
              /\ {CaseFor(w, i) : i \in DOMAIN w.results} \subseteq DOMAIN d.cases
              /\ {ResultName(w, i) : i \in DOMAIN w.results} \subseteq DOMAIN d.results

Inv == Control /\ Right(db) /\ Right(main) /\ Merging /\ Ahead(main, db) /\ Imported(next, Editions[edition], db)

\* Where the rows are from that only imports have written.
From(t, n, e) == \E f \in 1 .. e : n \in DOMAIN Fresh[f][t] /\ db[t][n] = Fresh[f][t][n]
Own ==
  ~touched =>
    /\ \A a \in db.accounts : \E f \in 1 .. edition : a \in Fresh[f].accounts
    /\ \A t \in Tables : \A n \in DOMAIN db[t] : From(t, n, edition)
    /\ \A x \in DOMAIN db.defects : \E row \in Listed(db.defects[x], edition) : x \in row
    /\ \A s \in DOMAIN db.results : \E row \in Listed(s, edition) : row \subseteq DOMAIN db.defects
Inductive == Inv /\ Own

-----------------------------------------------------------------------------
LEMMA Joined ==
  ASSUME NEW f, NEW g
  PROVE  /\ DOMAIN (f ++ g) = (DOMAIN f) \cup (DOMAIN g)
         /\ \A x \in DOMAIN f : (f ++ g)[x] = f[x]
         /\ \A x \in DOMAIN g : x \notin DOMAIN f => (f ++ g)[x] = g[x]
PROOF BY DEF ++

\* A set of numbers that is not empty has a least one.
LEMMA LeastNumber ==
  ASSUME NEW N, N \subseteq Nat, N # {}
  PROVE  \E x \in N : \A n \in N : x <= n
PROOF
  <1> DEFINE R == {ss \in Nat \X Nat : ss[1] < ss[2]}
  <1>1. IsWellFoundedOn(R, Nat)
    BY NatLessThanWellFounded DEF OpToRel
  <1> HIDE DEF R
  <1>2. \E x \in N : \A y \in N : ~(<<y, x>> \in R)
    BY <1>1, WFMin
  <1>3. PICK x \in N : \A y \in N : ~(<<y, x>> \in R)
    BY <1>2
  <1>4. ASSUME NEW y \in N  PROVE x <= y
    <2>1. x \in Nat /\ y \in Nat /\ ~(y < x)
      BY <1>3 DEF R
    <2> QED  BY <2>1
  <1> QED  BY <1>4

\* A set of places of a list that is not empty has a first and a last one.
LEMMA FirstAndLast ==
  ASSUME NEW n \in Nat, NEW S, S \subseteq 1 .. n, S # {}
  PROVE  FirstOf(S) \in S /\ LastOf(S) \in S
PROOF
  <1>1. \E x \in S : \A m \in S : x <= m
    <2>1. S \subseteq Nat
      OBVIOUS
    <2> QED  BY <2>1, LeastNumber
  <1> DEFINE T == {n - x : x \in S}
  <1>2. T \subseteq Nat /\ T # {}
    <2>1. \A x \in S : x \in Nat /\ x <= n
      OBVIOUS
    <2>2. \A x \in S : n - x \in Nat
      BY <2>1
    <2>3. T # {}
      OBVIOUS
    <2> QED  BY <2>2, <2>3
  <1>3. PICK t \in T : \A m \in T : t <= m
    <2> HIDE DEF T
    <2> QED  BY <1>2, LeastNumber
  <1>4. PICK x \in S : t = n - x
    OBVIOUS
  <1>5. \A m \in S : x >= m
    BY <1>3, <1>4
  <1> QED  BY <1>1, <1>5 DEF FirstOf, LastOf

LEMMA FirstIn ==
  ASSUME NEW S, S \subseteq Nat, S # {}
  PROVE  FirstOf(S) \in S
PROOF
  <1>1. \E x \in S : \A m \in S : x <= m
    BY LeastNumber
  <1> QED  BY <1>1 DEF FirstOf

\* What a result or a report of a workbook names is in the workbook.
Closed(w) ==
  /\ DOMAIN w.results \subseteq Nat
  /\ FirstTarget(w) \in LinesOf(w)
  /\ \A n \in DOMAIN w.reports : TargetOf(w, n) \in LinesOf(w)
  /\ Head(w.configs) \in ConfigsOf(w)
  /\ \A rid : Used(w, rid) \subseteq ConfigsOf(w)
  /\ \A i \in DOMAIN w.results : /\ RunFor(w, i) \in RunsOf(w) \cup Lost(w)
                                 /\ CaseFor(w, i) \in CasesOf(w) \cup {Placeholder}
  /\ \A rid \in Rids(w) : FirstOf(Reporting(w, rid)) \in DOMAIN w.reports

LEMMA WorkbookClosed ==
  ASSUME NEW e \in 1 .. Len(Editions)
  PROVE  Closed(Editions[e])
PROOF
  <1> DEFINE w == Editions[e]
  <1>1. /\ w.reports \in Seq(Range(w.reports)) /\ w.configs \in Seq(Range(w.configs)) \ {<<>>}
        /\ \A n \in DOMAIN w.reports : w.reports[n].targets \in Seq(Range(w.reports[n].targets))
        /\ \E n \in DOMAIN w.reports : w.reports[n].targets # <<>>
        /\ \A c \in ConfigsOf(w) : w.order[c] \in Nat
        /\ w.results \in Seq(Range(w.results))
    BY WorkbookIsWhole DEF WorkbookAssumption
  <1> HIDE DEF w
  <1>2. PICK m \in Nat : DOMAIN w.reports = 1 .. m
    <2>1. Len(w.reports) \in Nat /\ DOMAIN w.reports = 1 .. Len(w.reports)
      BY <1>1
    <2> QED  BY <2>1
  <1>3. ASSUME NEW n \in DOMAIN w.reports, w.reports[n].targets # <<>>
        PROVE  Head(w.reports[n].targets) \in LinesOf(w)
    <2> DEFINE t == w.reports[n].targets
    <2>1. t \in Seq(Range(t)) /\ t # <<>>
      BY <1>1, <1>3
    <2> HIDE DEF t
    <2>2. Head(t) \in Range(t)
      BY <2>1
    <2> QED  BY <2>2 DEF LinesOf, t
  <1>4. FirstTarget(w) \in LinesOf(w)
    <2> DEFINE listing == {n \in DOMAIN w.reports : w.reports[n].targets # <<>>}
    <2>1. listing \subseteq 1 .. m /\ listing # {}
      BY <1>1, <1>2
    <2>2. FirstOf(listing) \in listing
      <3> HIDE DEF listing
      <3> QED  BY <2>1, FirstAndLast
    <2>3. Head(w.reports[FirstOf(listing)].targets) \in LinesOf(w)
      BY <2>2, <1>3
    <2>4. FirstTarget(w) = Head(w.reports[FirstOf(listing)].targets)
      BY <2>1 DEF FirstTarget
    <2> QED  BY <2>3, <2>4
  <1>5. ASSUME NEW n \in DOMAIN w.reports  PROVE TargetOf(w, n) \in LinesOf(w)
    <2> DEFINE namesakes == {q \in DOMAIN w.reports : w.reports[q].alias = w.reports[n].alias /\ w.reports[q].targets # <<>>}
    <2>1. TargetOf(w, n) = IF namesakes = {} THEN FirstTarget(w) ELSE Head(w.reports[LastOf(namesakes)].targets)
      BY DEF TargetOf
    <2>2. ASSUME namesakes # {}  PROVE Head(w.reports[LastOf(namesakes)].targets) \in LinesOf(w)
      <3>1. namesakes \subseteq 1 .. m
        BY <1>2
      <3>2. LastOf(namesakes) \in namesakes
        <4> HIDE DEF namesakes
        <4> QED  BY <2>2, <3>1, FirstAndLast
      <3> QED  BY <3>2, <1>3
    <2> QED  BY <2>1, <2>2, <1>4
  <1>6. Head(w.configs) \in ConfigsOf(w)
    <2>1. Head(w.configs) \in Range(w.configs)
      <3> DEFINE c == w.configs
      <3>1. c \in Seq(Range(c)) /\ c # <<>>
        BY <1>1
      <3> HIDE DEF c
      <3>2. Head(c) \in Range(c)
        BY <3>1
      <3> QED  BY <3>2 DEF c
    <2> QED  BY <2>1 DEF ConfigsOf
  <1>7. ASSUME NEW rid  PROVE Used(w, rid) \subseteq ConfigsOf(w) /\ Used(w, rid) # {}
    BY <1>6 DEF Used, ConfigsOf
  <1>8. ASSUME NEW rid  PROVE FirstUsed(w, rid) \in Used(w, rid)
    <2> DEFINE U == Used(w, rid)
               N == {w.order[c] : c \in U}
    <2>1. U \subseteq ConfigsOf(w) /\ U # {}
      BY <1>7
    <2>2. N \subseteq Nat /\ N # {}
      <3> HIDE DEF U
      <3> QED  BY <2>1, <1>1
    <2>3. PICK x \in N : \A y \in N : x <= y
      <3> HIDE DEF N
      <3> QED  BY <2>2, LeastNumber
    <2>4. PICK c \in U : x = w.order[c]
      OBVIOUS
    <2>5. \E q \in U : \A y \in U : w.order[q] <= w.order[y]
      <3> HIDE DEF U
      <3> QED  BY <2>3, <2>4
    <2>6. (CHOOSE q \in U : \A y \in U : w.order[q] <= w.order[y]) \in U
      <3> HIDE DEF U
      <3> QED  BY <2>5
    <2> QED  BY <2>6 DEF FirstUsed
  <1>9. ASSUME NEW i \in DOMAIN w.results  PROVE RunFor(w, i) \in RunsOf(w) \cup Lost(w)
    <2> DEFINE rid == w.results[i].rid
               c   == IF w.results[i].config \in Used(w, rid) THEN w.results[i].config ELSE FirstUsed(w, rid)
    <2>1. CASE rid \notin Rids(w)
      BY <2>1 DEF RunFor, Lost
    <2>2. CASE rid \in Rids(w)
      <3>1. RunFor(w, i) = <<"RUN", rid, c>>
        BY <2>2 DEF RunFor
      <3>2. c \in Used(w, rid)
        BY <1>8
      <3> HIDE DEF rid, c
      <3> QED  BY <2>2, <3>1, <3>2 DEF RunsOf
    <2> QED  BY <2>1, <2>2
  <1>10. ASSUME NEW i \in DOMAIN w.results  PROVE CaseFor(w, i) \in CasesOf(w) \cup {Placeholder}
    BY DEF CaseFor, CasesOf
  <1>11. ASSUME NEW rid \in Rids(w)  PROVE FirstOf(Reporting(w, rid)) \in DOMAIN w.reports
    <2> DEFINE S == Reporting(w, rid)
    <2>1. S \subseteq DOMAIN w.reports /\ S # {}
      BY DEF Reporting, Rids
    <2> HIDE DEF S
    <2>2. FirstOf(S) \in S
      BY <2>1, <1>2, FirstAndLast
    <2> QED  BY <2>1, <2>2 DEF S
  <1>12. DOMAIN w.results \subseteq Nat
    <2>1. DOMAIN w.results = 1 .. Len(w.results) /\ Len(w.results) \in Nat
      BY <1>1
    <2> QED  BY <2>1
  <1>13. Closed(w)
    BY <1>4, <1>5, <1>6, <1>7, <1>9, <1>10, <1>11, <1>12 DEF Closed
  <1> QED  BY <1>13 DEF w

-----------------------------------------------------------------------------
\* What a step of the import does to a database: rows are added, and name rows that
\* are there.
Grown(d, e) ==
  /\ IsDb(e) /\ RowsTyped(e)
  /\ e.units = d.units /\ e.unified = d.unified /\ e.served = d.served /\ e.column = d.column
  /\ e.rounds = d.rounds /\ d.tables \subseteq e.tables /\ d.accounts \subseteq e.accounts
  /\ Kept(d.targets, e.targets) /\ Kept(d.configs, e.configs) /\ Kept(d.releases, e.releases)
  /\ Kept(d.cases, e.cases) /\ Kept(d.procedures, e.procedures) /\ Kept(d.reports, e.reports)
  /\ Kept(d.runs, e.runs) /\ Kept(d.results, e.results) /\ Kept(d.defects, e.defects)
  /\ \A n \in DOMAIN e.configs : IsPair(n)
  /\ \A n \in (DOMAIN e.releases) \ DOMAIN d.releases : e.releases[n].round = None
  /\ \A p \in (DOMAIN e.procedures) \ DOMAIN d.procedures : e.procedures[p] \in DOMAIN e.cases
  /\ \A x \in (DOMAIN e.reports) \ DOMAIN d.reports : e.reports[x] \in DOMAIN e.releases
  /\ \A u \in (DOMAIN e.runs) \ DOMAIN d.runs : /\ e.runs[u].release \in DOMAIN e.releases
                                                /\ e.runs[u].target \in DOMAIN e.targets
                                                /\ e.runs[u].config \in DOMAIN e.configs
  /\ \A s \in (DOMAIN e.results) \ DOMAIN d.results : e.results[s].run \in DOMAIN e.runs /\ e.results[s].case \in DOMAIN e.cases
  /\ \A x \in (DOMAIN e.defects) \ DOMAIN d.defects : e.defects[x] \in DOMAIN e.results

LEMMA OrphansNone ==
  ASSUME NEW d
  PROVE  Orphans(d) = {} <=>
           /\ \A s \in DOMAIN d.results : d.results[s].run \in DOMAIN d.runs /\ d.results[s].case \in DOMAIN d.cases
           /\ \A p \in DOMAIN d.procedures : d.procedures[p] \in DOMAIN d.cases
           /\ \A x \in DOMAIN d.defects : d.defects[x] \in DOMAIN d.results
           /\ \A u \in DOMAIN d.runs : d.runs[u].release \in DOMAIN d.releases
           /\ \A n \in DOMAIN d.releases : d.releases[n].round \in d.rounds \cup {None}
PROOF BY DEF Orphans

LEMMA GrownRight ==
  ASSUME NEW d, NEW e, Right(d), Grown(d, e)
  PROVE  Right(e)
PROOF
  <1>1. Renaming(e)
    BY DEF Right, Renaming, Grown
  <1>2. Orphans(e) = {}
    <2>1. \A s \in DOMAIN e.results : e.results[s].run \in DOMAIN e.runs /\ e.results[s].case \in DOMAIN e.cases
      BY OrphansNone DEF Right, Sound, Grown, Kept
    <2>2. \A p \in DOMAIN e.procedures : e.procedures[p] \in DOMAIN e.cases
      BY OrphansNone DEF Right, Sound, Grown, Kept
    <2>3. \A x \in DOMAIN e.defects : e.defects[x] \in DOMAIN e.results
      BY OrphansNone DEF Right, Sound, Grown, Kept
    <2>4. \A u \in DOMAIN e.runs : e.runs[u].release \in DOMAIN e.releases
      BY OrphansNone DEF Right, Sound, Grown, Kept
    <2>5. \A n \in DOMAIN e.releases : e.releases[n].round \in e.rounds \cup {None}
      BY OrphansNone DEF Right, Sound, Grown, Kept
    <2> QED  BY <2>1, <2>2, <2>3, <2>4, <2>5, OrphansNone
  <1>3. \A x \in DOMAIN e.reports : e.reports[x] \in DOMAIN e.releases
    BY DEF Right, Sound, Grown, Kept
  <1>4. ASSUME NEW u \in DOMAIN e.runs
        PROVE  (TargetFound(e, u) \/ Relinked(e, u)) /\ (ConfigFound(e, u) \/ Overlooked(e, u))
    <2>1. CASE u \in DOMAIN d.runs
      <3>1. e.runs[u] = d.runs[u] /\ DOMAIN d.targets \subseteq DOMAIN e.targets /\ DOMAIN d.configs \subseteq DOMAIN e.configs
            /\ e.units = d.units /\ e.unified = d.unified /\ e.served = d.served /\ e.column = d.column
        BY <2>1 DEF Grown, Kept
      <3>2. (TargetFound(d, u) \/ Relinked(d, u)) /\ (ConfigFound(d, u) \/ Overlooked(d, u))
        BY <2>1 DEF Right, Sound
      <3>3. TargetFound(d, u) => TargetFound(e, u)
        BY <3>1 DEF TargetFound
      <3>4. Relinked(d, u) => Relinked(e, u)
        BY <3>1 DEF Relinked
      <3>5. ConfigFound(d, u) => ConfigFound(e, u)
        BY <3>1 DEF ConfigFound
      <3>6. Overlooked(d, u) => Overlooked(e, u)
        BY <3>1 DEF Overlooked
      <3> QED  BY <3>2, <3>3, <3>4, <3>5, <3>6
    <2>2. CASE u \notin DOMAIN d.runs
      <3>1. e.runs[u].target \in DOMAIN e.targets /\ e.runs[u].config \in DOMAIN e.configs
        BY <2>2 DEF Grown
      <3> QED  BY <3>1 DEF TargetFound, ConfigFound
    <2> QED  BY <2>1, <2>2
  <1>5. IsDb(e) /\ RowsTyped(e)
    BY DEF Grown
  <1> QED  BY <1>1, <1>2, <1>3, <1>4, <1>5 DEF Right, Sound

-----------------------------------------------------------------------------
\* The rows that a workbook asks for.
TargetRows(w)  == [line \in LinesOf(w) |-> line[1]]
ConfigRows(w)  == [c \in Names(w) |-> c]
ReleaseRows(w) == [rid \in Released(w) \cup {Fallback} |-> [was |-> rid, round |-> None]]
CaseRows(w)    == [c \in CasesOf(w) |-> [was |-> c, skeleton |-> c \notin DOMAIN w.steps]]
StepRows(w)    == [p \in StepsOf(w) |-> p[1]]
ReportRows(w)  == [rid \in Rids(w) |-> ReleaseFor(w, rid)]
RunRow(w, u)   == [was |-> <<u[2], u[3]>>, release |-> ReleaseFor(w, u[2]), config |-> <<"ENV", u[3]>>,
                   target |-> TargetOf(w, FirstOf(Reporting(w, u[2])))]
RunRows(w)     == [u \in RunsOf(w) |-> RunRow(w, u)]
LostRow(w, u)  == [was |-> <<u[2], None>>, release |-> Fallback, target |-> FirstTarget(w),
                   config |-> <<"ENV", Head(w.configs)>>]
LostRows(w)    == [u \in Lost(w) |-> LostRow(w, u)]
EmptyCase(w)   == {CaseFor(w, i) : i \in DOMAIN w.results} \cap {Placeholder}
EmptyRows(w)   == [c \in EmptyCase(w) |-> [was |-> c, skeleton |-> TRUE]]
ResultOf(w, s) == [run |-> RunFor(w, RowFor(w, s)), case |-> CaseFor(w, RowFor(w, s)), combo |-> w.results[RowFor(w, s)].combo]
ResultRows(w)  == [s \in ResultsOf(w) |-> ResultOf(w, s)]
Issues(w, I)   == UNION {DefectNames(w, i) : i \in I}
Owner(w, I, x) == ResultName(w, FirstOf({i \in I : x \in DefectNames(w, i)}))
IssueRows(w, I) == [x \in Issues(w, I) |-> Owner(w, I, x)]

LEMMA SchemaFields ==
  ASSUME NEW d, IsDb(d)
  PROVE  LET e == Projects(Schema(d)) IN
         /\ IsDb(e)
         /\ e.definitions = d.definitions /\ e.targets = d.targets /\ e.units = d.units
         /\ e.configDefs = d.configDefs /\ e.configs = d.configs /\ e.unified = d.unified
         /\ e.served = d.served /\ e.column = d.column /\ e.columns = d.columns /\ e.rounds = d.rounds
         /\ e.releases = d.releases /\ e.cases = d.cases /\ e.procedures = d.procedures
         /\ e.reports = d.reports /\ e.runs = d.runs /\ e.results = d.results /\ e.defects = d.defects
         /\ e.accounts = d.accounts \cup {<<"project">>} /\ d.tables \subseteq e.tables
PROOF
  <1> DEFINE e == Projects(Schema(d))
  <1>1. IsDb(e)
    BY DEF IsDb, Fields, Projects, Schema
  <1>2. /\ e.definitions = d.definitions /\ e.targets = d.targets /\ e.units = d.units
        /\ e.configDefs = d.configDefs /\ e.configs = d.configs /\ e.unified = d.unified
        /\ e.served = d.served /\ e.column = d.column /\ e.columns = d.columns /\ e.rounds = d.rounds
        /\ e.releases = d.releases /\ e.cases = d.cases /\ e.procedures = d.procedures
        /\ e.reports = d.reports /\ e.runs = d.runs /\ e.results = d.results /\ e.defects = d.defects
    BY DEF IsDb, Fields, Projects, Schema
  <1>3. /\ e.accounts = d.accounts \cup {<<"project">>} /\ d.tables \subseteq e.tables
    BY DEF IsDb, Fields, Projects, Schema
  <1> HIDE DEF e
  <1>4. QED  BY <1>1, <1>2, <1>3 DEF e

LEMMA UsersFields ==
  ASSUME NEW w, NEW d, IsDb(d)
  PROVE  LET e == Users(w, d) IN
         /\ IsDb(e)
         /\ e.tables = d.tables /\ e.definitions = d.definitions /\ e.targets = d.targets
         /\ e.units = d.units /\ e.configDefs = d.configDefs /\ e.configs = d.configs
         /\ e.unified = d.unified /\ e.served = d.served /\ e.column = d.column /\ e.columns = d.columns
         /\ e.rounds = d.rounds /\ e.releases = d.releases /\ e.cases = d.cases
         /\ e.procedures = d.procedures /\ e.reports = d.reports /\ e.runs = d.runs
         /\ e.results = d.results /\ e.defects = d.defects
         /\ e.accounts = d.accounts \cup {<<"user", u>> : u \in {"migration"} \cup w.testers}
PROOF
  <1> DEFINE e == Users(w, d)
  <1>1. IsDb(e)
    BY DEF IsDb, Fields, Users
  <1>2. /\ e.tables = d.tables /\ e.definitions = d.definitions /\ e.targets = d.targets
        /\ e.units = d.units /\ e.configDefs = d.configDefs /\ e.configs = d.configs
        /\ e.unified = d.unified /\ e.served = d.served /\ e.column = d.column /\ e.columns = d.columns
        /\ e.rounds = d.rounds /\ e.releases = d.releases /\ e.cases = d.cases
        /\ e.procedures = d.procedures /\ e.reports = d.reports /\ e.runs = d.runs
        /\ e.results = d.results /\ e.defects = d.defects
    BY DEF IsDb, Fields, Users
  <1>3. /\ e.accounts = d.accounts \cup {<<"user", u>> : u \in {"migration"} \cup w.testers}
    BY DEF IsDb, Fields, Users
  <1> HIDE DEF e
  <1>4. QED  BY <1>1, <1>2, <1>3 DEF e

LEMMA MembersFields ==
  ASSUME NEW w, NEW d, IsDb(d)
  PROVE  LET e == Members(w, d) IN
         /\ IsDb(e)
         /\ e.tables = d.tables /\ e.definitions = d.definitions /\ e.targets = d.targets
         /\ e.units = d.units /\ e.configDefs = d.configDefs /\ e.configs = d.configs
         /\ e.unified = d.unified /\ e.served = d.served /\ e.column = d.column /\ e.columns = d.columns
         /\ e.rounds = d.rounds /\ e.releases = d.releases /\ e.cases = d.cases
         /\ e.procedures = d.procedures /\ e.reports = d.reports /\ e.runs = d.runs
         /\ e.results = d.results /\ e.defects = d.defects
         /\ e.accounts = d.accounts \cup {<<"member", "migration">>}
PROOF
  <1> DEFINE e == Members(w, d)
  <1>1. IsDb(e)
    BY DEF IsDb, Fields, Members
  <1>2. /\ e.tables = d.tables /\ e.definitions = d.definitions /\ e.targets = d.targets
        /\ e.units = d.units /\ e.configDefs = d.configDefs /\ e.configs = d.configs
        /\ e.unified = d.unified /\ e.served = d.served /\ e.column = d.column /\ e.columns = d.columns
        /\ e.rounds = d.rounds /\ e.releases = d.releases /\ e.cases = d.cases
        /\ e.procedures = d.procedures /\ e.reports = d.reports /\ e.runs = d.runs
        /\ e.results = d.results /\ e.defects = d.defects
    BY DEF IsDb, Fields, Members
  <1>3. /\ e.accounts = d.accounts \cup {<<"member", "migration">>}
    BY DEF IsDb, Fields, Members
  <1> HIDE DEF e
  <1>4. QED  BY <1>1, <1>2, <1>3 DEF e

LEMMA TargetsFields ==
  ASSUME NEW w, NEW d, IsDb(d)
  PROVE  LET e == Targets(w, d) IN
         /\ IsDb(e)
         /\ e.accounts = d.accounts /\ e.tables = d.tables /\ e.units = d.units
         /\ e.configDefs = d.configDefs /\ e.configs = d.configs /\ e.unified = d.unified
         /\ e.served = d.served /\ e.column = d.column /\ e.columns = d.columns /\ e.rounds = d.rounds
         /\ e.releases = d.releases /\ e.cases = d.cases /\ e.procedures = d.procedures
         /\ e.reports = d.reports /\ e.runs = d.runs /\ e.results = d.results /\ e.defects = d.defects
         /\ e.targets = d.targets ++ TargetRows(w)
PROOF
  <1> DEFINE e == Targets(w, d)
  <1>1. IsDb(e)
    BY DEF IsDb, Fields, Targets, TargetRows
  <1>2. /\ e.accounts = d.accounts /\ e.tables = d.tables /\ e.units = d.units
        /\ e.configDefs = d.configDefs /\ e.configs = d.configs /\ e.unified = d.unified
        /\ e.served = d.served /\ e.column = d.column /\ e.columns = d.columns /\ e.rounds = d.rounds
        /\ e.releases = d.releases /\ e.cases = d.cases /\ e.procedures = d.procedures
        /\ e.reports = d.reports /\ e.runs = d.runs /\ e.results = d.results /\ e.defects = d.defects
    BY DEF IsDb, Fields, Targets, TargetRows
  <1>3. /\ e.targets = d.targets ++ TargetRows(w)
    BY DEF IsDb, Fields, Targets, TargetRows
  <1> HIDE DEF e
  <1>4. QED  BY <1>1, <1>2, <1>3 DEF e

LEMMA EnvironmentsFields ==
  ASSUME NEW w, NEW d, IsDb(d)
  PROVE  LET e == Environments(w, d) IN
         /\ IsDb(e)
         /\ e.accounts = d.accounts /\ e.tables = d.tables /\ e.definitions = d.definitions
         /\ e.targets = d.targets /\ e.units = d.units /\ e.unified = d.unified /\ e.served = d.served
         /\ e.column = d.column /\ e.columns = d.columns /\ e.rounds = d.rounds /\ e.releases = d.releases
         /\ e.cases = d.cases /\ e.procedures = d.procedures /\ e.reports = d.reports /\ e.runs = d.runs
         /\ e.results = d.results /\ e.defects = d.defects
         /\ e.configs = d.configs ++ ConfigRows(w)
PROOF
  <1> DEFINE e == Environments(w, d)
  <1>1. IsDb(e)
    BY DEF IsDb, Fields, Environments, ConfigRows, Names
  <1>2. /\ e.accounts = d.accounts /\ e.tables = d.tables /\ e.definitions = d.definitions
        /\ e.targets = d.targets /\ e.units = d.units /\ e.unified = d.unified /\ e.served = d.served
        /\ e.column = d.column /\ e.columns = d.columns /\ e.rounds = d.rounds /\ e.releases = d.releases
        /\ e.cases = d.cases /\ e.procedures = d.procedures /\ e.reports = d.reports /\ e.runs = d.runs
        /\ e.results = d.results /\ e.defects = d.defects
    BY DEF IsDb, Fields, Environments, ConfigRows, Names
  <1>3. /\ e.configs = d.configs ++ ConfigRows(w)
    BY DEF IsDb, Fields, Environments, ConfigRows, Names
  <1> HIDE DEF e
  <1>4. QED  BY <1>1, <1>2, <1>3 DEF e

LEMMA ReleasesFields ==
  ASSUME NEW w, NEW d, IsDb(d)
  PROVE  LET e == Releases(w, d) IN
         /\ IsDb(e)
         /\ e.accounts = d.accounts /\ e.tables = d.tables /\ e.definitions = d.definitions
         /\ e.targets = d.targets /\ e.units = d.units /\ e.configDefs = d.configDefs
         /\ e.configs = d.configs /\ e.unified = d.unified /\ e.served = d.served /\ e.column = d.column
         /\ e.columns = d.columns /\ e.rounds = d.rounds /\ e.cases = d.cases
         /\ e.procedures = d.procedures /\ e.reports = d.reports /\ e.runs = d.runs
         /\ e.results = d.results /\ e.defects = d.defects
         /\ e.releases = d.releases ++ ReleaseRows(w)
PROOF
  <1> DEFINE e == Releases(w, d)
  <1>1. IsDb(e)
    BY DEF IsDb, Fields, Releases, ReleaseRows
  <1>2. /\ e.accounts = d.accounts /\ e.tables = d.tables /\ e.definitions = d.definitions
        /\ e.targets = d.targets /\ e.units = d.units /\ e.configDefs = d.configDefs
        /\ e.configs = d.configs /\ e.unified = d.unified /\ e.served = d.served /\ e.column = d.column
        /\ e.columns = d.columns /\ e.rounds = d.rounds /\ e.cases = d.cases
        /\ e.procedures = d.procedures /\ e.reports = d.reports /\ e.runs = d.runs
        /\ e.results = d.results /\ e.defects = d.defects
    BY DEF IsDb, Fields, Releases, ReleaseRows
  <1>3. /\ e.releases = d.releases ++ ReleaseRows(w)
    BY DEF IsDb, Fields, Releases, ReleaseRows
  <1> HIDE DEF e
  <1>4. QED  BY <1>1, <1>2, <1>3 DEF e

LEMMA CasesFields ==
  ASSUME NEW w, NEW d, IsDb(d)
  PROVE  LET e == Cases(w, d) IN
         /\ IsDb(e)
         /\ e.accounts = d.accounts /\ e.tables = d.tables /\ e.definitions = d.definitions
         /\ e.targets = d.targets /\ e.units = d.units /\ e.configDefs = d.configDefs
         /\ e.configs = d.configs /\ e.unified = d.unified /\ e.served = d.served /\ e.column = d.column
         /\ e.columns = d.columns /\ e.rounds = d.rounds /\ e.releases = d.releases
         /\ e.reports = d.reports /\ e.runs = d.runs /\ e.results = d.results /\ e.defects = d.defects
         /\ e.cases = d.cases ++ CaseRows(w) /\ e.procedures = d.procedures ++ StepRows(w)
PROOF
  <1> DEFINE e == Cases(w, d)
  <1>1. IsDb(e)
    BY DEF IsDb, Fields, Cases, CaseRows, StepRows, StepsOf
  <1>2. /\ e.accounts = d.accounts /\ e.tables = d.tables /\ e.definitions = d.definitions
        /\ e.targets = d.targets /\ e.units = d.units /\ e.configDefs = d.configDefs
        /\ e.configs = d.configs /\ e.unified = d.unified /\ e.served = d.served /\ e.column = d.column
        /\ e.columns = d.columns /\ e.rounds = d.rounds /\ e.releases = d.releases
        /\ e.reports = d.reports /\ e.runs = d.runs /\ e.results = d.results /\ e.defects = d.defects
    BY DEF IsDb, Fields, Cases, CaseRows, StepRows, StepsOf
  <1>3. /\ e.cases = d.cases ++ CaseRows(w) /\ e.procedures = d.procedures ++ StepRows(w)
    BY DEF IsDb, Fields, Cases, CaseRows, StepRows, StepsOf
  <1> HIDE DEF e
  <1>4. QED  BY <1>1, <1>2, <1>3 DEF e

LEMMA ReportsFields ==
  ASSUME NEW w, NEW d, IsDb(d)
  PROVE  LET e == Reports(w, d) IN
         /\ IsDb(e)
         /\ e.accounts = d.accounts /\ e.tables = d.tables /\ e.definitions = d.definitions
         /\ e.targets = d.targets /\ e.units = d.units /\ e.configDefs = d.configDefs
         /\ e.configs = d.configs /\ e.unified = d.unified /\ e.served = d.served /\ e.column = d.column
         /\ e.columns = d.columns /\ e.rounds = d.rounds /\ e.releases = d.releases /\ e.cases = d.cases
         /\ e.procedures = d.procedures /\ e.results = d.results /\ e.defects = d.defects
         /\ e.reports = d.reports ++ ReportRows(w) /\ e.runs = d.runs ++ RunRows(w)
PROOF
  <1> DEFINE e == Reports(w, d)
  <1>1. IsDb(e)
    BY DEF IsDb, Fields, Reports, ReportRows, RunRows, RunRow, RunsOf
  <1>2. /\ e.accounts = d.accounts /\ e.tables = d.tables /\ e.definitions = d.definitions
        /\ e.targets = d.targets /\ e.units = d.units /\ e.configDefs = d.configDefs
        /\ e.configs = d.configs /\ e.unified = d.unified /\ e.served = d.served /\ e.column = d.column
        /\ e.columns = d.columns /\ e.rounds = d.rounds /\ e.releases = d.releases /\ e.cases = d.cases
        /\ e.procedures = d.procedures /\ e.results = d.results /\ e.defects = d.defects
    BY DEF IsDb, Fields, Reports, ReportRows, RunRows, RunRow, RunsOf
  <1>3. /\ e.reports = d.reports ++ ReportRows(w) /\ e.runs = d.runs ++ RunRows(w)
    BY DEF IsDb, Fields, Reports, ReportRows, RunRows, RunRow, RunsOf
  <1> HIDE DEF e
  <1>4. QED  BY <1>1, <1>2, <1>3 DEF e

LEMMA ResultsFields ==
  ASSUME NEW w, NEW d, IsDb(d)
  PROVE  LET e == Results(w, d) IN
         /\ IsDb(e)
         /\ e.accounts = d.accounts /\ e.tables = d.tables /\ e.definitions = d.definitions
         /\ e.targets = d.targets /\ e.units = d.units /\ e.configDefs = d.configDefs
         /\ e.configs = d.configs /\ e.unified = d.unified /\ e.served = d.served /\ e.column = d.column
         /\ e.columns = d.columns /\ e.rounds = d.rounds /\ e.releases = d.releases
         /\ e.procedures = d.procedures /\ e.reports = d.reports
         /\ e.runs = d.runs ++ LostRows(w) /\ e.cases = d.cases ++ EmptyRows(w)
         /\ e.results = d.results ++ ResultRows(w) /\ e.defects = d.defects ++ IssueRows(w, NewResults(w, d))
PROOF
  <1> DEFINE m == WithResults(w, d)
             e == Results(w, d)
  <1>1. IsDb(m)
    BY DEF IsDb, Fields, WithResults
  <1>2. /\ m.accounts = d.accounts /\ m.tables = d.tables /\ m.definitions = d.definitions
        /\ m.targets = d.targets /\ m.units = d.units /\ m.configDefs = d.configDefs
        /\ m.configs = d.configs /\ m.unified = d.unified /\ m.served = d.served /\ m.column = d.column
        /\ m.columns = d.columns /\ m.rounds = d.rounds /\ m.releases = d.releases
        /\ m.procedures = d.procedures /\ m.reports = d.reports /\ m.defects = d.defects
    BY DEF IsDb, Fields, WithResults
  <1>3. m.runs = d.runs ++ LostRows(w)
    BY DEF IsDb, Fields, WithResults, LostRows, LostRow, Lost
  <1>4. m.cases = d.cases ++ EmptyRows(w)
    BY DEF IsDb, Fields, WithResults, EmptyRows, EmptyCase
  <1>5. m.results = d.results ++ ResultRows(w)
    BY DEF IsDb, Fields, WithResults, ResultRows, ResultOf
  <1>6. e = [m EXCEPT !.defects = m.defects ++ IssueRows(w, NewResults(w, d))]
    BY DEF Results, IssueRows, Issues, Owner
  <1> HIDE DEF m, e
  <1>7. IsDb(e)
    BY <1>1, <1>6 DEF IsDb, Fields
  <1>8. /\ e.accounts = m.accounts /\ e.tables = m.tables /\ e.definitions = m.definitions
        /\ e.targets = m.targets /\ e.units = m.units /\ e.configDefs = m.configDefs
        /\ e.configs = m.configs /\ e.unified = m.unified /\ e.served = m.served /\ e.column = m.column
        /\ e.columns = m.columns /\ e.rounds = m.rounds /\ e.releases = m.releases /\ e.cases = m.cases
        /\ e.procedures = m.procedures /\ e.reports = m.reports /\ e.runs = m.runs
        /\ e.results = m.results
    BY <1>1, <1>6 DEF IsDb, Fields
  <1>9. e.defects = m.defects ++ IssueRows(w, NewResults(w, d))
    BY <1>1, <1>6 DEF IsDb, Fields
  <1>10. QED  BY <1>2, <1>3, <1>4, <1>5, <1>7, <1>8, <1>9 DEF e

LEMMA KeptJoined ==
  ASSUME NEW f, NEW g
  PROVE  Kept(f, f) /\ Kept(f, f ++ g)
PROOF BY DEF Kept, ++

LEMMA ImportedGrows ==
  ASSUME NEW k, NEW w, NEW d, NEW e, Imported(k, w, d), Grown(d, e)
  PROVE  Imported(k, w, e)
PROOF
  <1>1. /\ d.accounts \subseteq e.accounts /\ DOMAIN d.targets \subseteq DOMAIN e.targets
        /\ DOMAIN d.configs \subseteq DOMAIN e.configs /\ DOMAIN d.releases \subseteq DOMAIN e.releases
        /\ DOMAIN d.cases \subseteq DOMAIN e.cases /\ DOMAIN d.procedures \subseteq DOMAIN e.procedures
        /\ DOMAIN d.reports \subseteq DOMAIN e.reports /\ DOMAIN d.runs \subseteq DOMAIN e.runs
        /\ DOMAIN d.results \subseteq DOMAIN e.results
    BY DEF Grown, Kept
  <1> DEFINE I(n) == k > n
  <1> HIDE DEF I
  <1>2. \A A, B : A \subseteq B => \A S : S \subseteq A => S \subseteq B
    OBVIOUS
  <1> QED  BY <1>1, <1>2 DEF Imported

LEMMA StepSchema ==
  ASSUME NEW w, NEW d, Right(d), Closed(w), Imported(1, w, d)
  PROVE  Grown(d, Projects(Schema(d))) /\ Imported(2, w, Projects(Schema(d)))
PROOF
  <1> DEFINE e == Projects(Schema(d))
  <1>1. IsDb(d) /\ RowsTyped(d) /\ Renaming(d) /\ Sound(d)
    BY DEF Right
  <1>2. /\ IsDb(e)
        /\ e.definitions = d.definitions /\ e.targets = d.targets /\ e.units = d.units
        /\ e.configDefs = d.configDefs /\ e.configs = d.configs /\ e.unified = d.unified
        /\ e.served = d.served /\ e.column = d.column /\ e.columns = d.columns /\ e.rounds = d.rounds
        /\ e.releases = d.releases /\ e.cases = d.cases /\ e.procedures = d.procedures
        /\ e.reports = d.reports /\ e.runs = d.runs /\ e.results = d.results /\ e.defects = d.defects
    BY <1>1, SchemaFields
  <1>3. e.accounts = d.accounts \cup {<<"project">>} /\ d.tables \subseteq e.tables
    BY <1>1, SchemaFields
  <1> HIDE DEF e
  <1>8. Grown(d, e)
    BY <1>1, <1>2, <1>3, KeptJoined DEF Grown, RowsTyped, Renaming
  <1>9. Imported(1, w, e)
    BY <1>8, ImportedGrows
  <1>10. Imported(2, w, e)
    BY <1>3, <1>9 DEF Imported
  <1> QED  BY <1>8, <1>10 DEF e

LEMMA StepUsers ==
  ASSUME NEW w, NEW d, Right(d), Closed(w), Imported(2, w, d)
  PROVE  Grown(d, Users(w, d)) /\ Imported(3, w, Users(w, d))
PROOF
  <1> DEFINE e == Users(w, d)
  <1>1. IsDb(d) /\ RowsTyped(d) /\ Renaming(d) /\ Sound(d)
    BY DEF Right
  <1>2. /\ IsDb(e)
        /\ e.tables = d.tables /\ e.definitions = d.definitions /\ e.targets = d.targets
        /\ e.units = d.units /\ e.configDefs = d.configDefs /\ e.configs = d.configs
        /\ e.unified = d.unified /\ e.served = d.served /\ e.column = d.column /\ e.columns = d.columns
        /\ e.rounds = d.rounds /\ e.releases = d.releases /\ e.cases = d.cases
        /\ e.procedures = d.procedures /\ e.reports = d.reports /\ e.runs = d.runs
        /\ e.results = d.results /\ e.defects = d.defects
    BY <1>1, UsersFields
  <1>3. e.accounts = d.accounts \cup {<<"user", u>> : u \in {"migration"} \cup w.testers}
    BY <1>1, UsersFields
  <1> HIDE DEF e
  <1>8. Grown(d, e)
    BY <1>1, <1>2, <1>3, KeptJoined DEF Grown, RowsTyped, Renaming
  <1>9. Imported(2, w, e)
    BY <1>8, ImportedGrows
  <1>10. Imported(3, w, e)
    BY <1>3, <1>9 DEF Imported
  <1> QED  BY <1>8, <1>10 DEF e

LEMMA StepMembers ==
  ASSUME NEW w, NEW d, Right(d), Closed(w), Imported(3, w, d)
  PROVE  Grown(d, Members(w, d)) /\ Imported(4, w, Members(w, d))
PROOF
  <1> DEFINE e == Members(w, d)
  <1>1. IsDb(d) /\ RowsTyped(d) /\ Renaming(d) /\ Sound(d)
    BY DEF Right
  <1>2. /\ IsDb(e)
        /\ e.tables = d.tables /\ e.definitions = d.definitions /\ e.targets = d.targets
        /\ e.units = d.units /\ e.configDefs = d.configDefs /\ e.configs = d.configs
        /\ e.unified = d.unified /\ e.served = d.served /\ e.column = d.column /\ e.columns = d.columns
        /\ e.rounds = d.rounds /\ e.releases = d.releases /\ e.cases = d.cases
        /\ e.procedures = d.procedures /\ e.reports = d.reports /\ e.runs = d.runs
        /\ e.results = d.results /\ e.defects = d.defects
    BY <1>1, MembersFields
  <1>3. e.accounts = d.accounts \cup {<<"member", "migration">>}
    BY <1>1, MembersFields
  <1> HIDE DEF e
  <1>8. Grown(d, e)
    BY <1>1, <1>2, <1>3, KeptJoined DEF Grown, RowsTyped, Renaming
  <1>9. Imported(3, w, e)
    BY <1>8, ImportedGrows
  <1>10. Imported(4, w, e)
    BY <1>3, <1>9 DEF Imported
  <1> QED  BY <1>8, <1>10 DEF e

LEMMA StepTargets ==
  ASSUME NEW w, NEW d, Right(d), Closed(w), Imported(4, w, d)
  PROVE  Grown(d, Targets(w, d)) /\ Imported(5, w, Targets(w, d))
PROOF
  <1> DEFINE e == Targets(w, d)
  <1>1. IsDb(d) /\ RowsTyped(d) /\ Renaming(d) /\ Sound(d)
    BY DEF Right
  <1>2. /\ IsDb(e)
        /\ e.accounts = d.accounts /\ e.tables = d.tables /\ e.units = d.units
        /\ e.configDefs = d.configDefs /\ e.configs = d.configs /\ e.unified = d.unified
        /\ e.served = d.served /\ e.column = d.column /\ e.columns = d.columns /\ e.rounds = d.rounds
        /\ e.releases = d.releases /\ e.cases = d.cases /\ e.procedures = d.procedures
        /\ e.reports = d.reports /\ e.runs = d.runs /\ e.results = d.results /\ e.defects = d.defects
    BY <1>1, TargetsFields
  <1> DEFINE g == TargetRows(w)
  <1>3. e.targets = d.targets ++ g
    BY <1>1, TargetsFields
  <1>0. DOMAIN g = LinesOf(w)
    BY DEF TargetRows, ConfigRows, ReleaseRows, CaseRows, StepRows, ReportRows, RunRows, RunRow
  <1> HIDE DEF e, g
  <1>4. Kept(d.targets, e.targets) /\ LinesOf(w) \subseteq DOMAIN e.targets
    BY <1>0, <1>3 DEF ++, Kept
  <1>8. Grown(d, e)
    BY <1>1, <1>2, <1>4, KeptJoined DEF Grown, RowsTyped, Renaming
  <1>9. Imported(4, w, e)
    BY <1>8, ImportedGrows
  <1>10. Imported(5, w, e)
    BY <1>4, <1>9 DEF Imported
  <1> QED  BY <1>8, <1>10 DEF e

LEMMA StepEnvironments ==
  ASSUME NEW w, NEW d, Right(d), Closed(w), Imported(5, w, d)
  PROVE  Grown(d, Environments(w, d)) /\ Imported(6, w, Environments(w, d))
PROOF
  <1> DEFINE e == Environments(w, d)
  <1>1. IsDb(d) /\ RowsTyped(d) /\ Renaming(d) /\ Sound(d)
    BY DEF Right
  <1>2. /\ IsDb(e)
        /\ e.accounts = d.accounts /\ e.tables = d.tables /\ e.definitions = d.definitions
        /\ e.targets = d.targets /\ e.units = d.units /\ e.unified = d.unified /\ e.served = d.served
        /\ e.column = d.column /\ e.columns = d.columns /\ e.rounds = d.rounds /\ e.releases = d.releases
        /\ e.cases = d.cases /\ e.procedures = d.procedures /\ e.reports = d.reports /\ e.runs = d.runs
        /\ e.results = d.results /\ e.defects = d.defects
    BY <1>1, EnvironmentsFields
  <1> DEFINE g == ConfigRows(w)
  <1>3. e.configs = d.configs ++ g
    BY <1>1, EnvironmentsFields
  <1>0. DOMAIN g = Names(w)
    BY DEF TargetRows, ConfigRows, ReleaseRows, CaseRows, StepRows, ReportRows, RunRows, RunRow
  <1> HIDE DEF e, g
  <1>4. Kept(d.configs, e.configs) /\ DOMAIN e.configs = DOMAIN d.configs \cup Names(w)
    BY <1>0, <1>3 DEF ++, Kept
  <1>5. \A n \in Names(w) : IsPair(n)
    BY DEF Names, IsPair
  <1> HIDE DEF e
  <1>8. Grown(d, e)
    BY <1>1, <1>2, <1>4, <1>5, KeptJoined DEF Grown, RowsTyped, Renaming
  <1>9. Imported(5, w, e)
    BY <1>8, ImportedGrows
  <1>10. Imported(6, w, e)
    BY <1>4, <1>9 DEF Imported
  <1> QED  BY <1>8, <1>10 DEF e

LEMMA StepReleases ==
  ASSUME NEW w, NEW d, Right(d), Closed(w), Imported(6, w, d)
  PROVE  Grown(d, Releases(w, d)) /\ Imported(7, w, Releases(w, d))
PROOF
  <1> DEFINE e == Releases(w, d)
  <1>1. IsDb(d) /\ RowsTyped(d) /\ Renaming(d) /\ Sound(d)
    BY DEF Right
  <1>2. /\ IsDb(e)
        /\ e.accounts = d.accounts /\ e.tables = d.tables /\ e.definitions = d.definitions
        /\ e.targets = d.targets /\ e.units = d.units /\ e.configDefs = d.configDefs
        /\ e.configs = d.configs /\ e.unified = d.unified /\ e.served = d.served /\ e.column = d.column
        /\ e.columns = d.columns /\ e.rounds = d.rounds /\ e.cases = d.cases
        /\ e.procedures = d.procedures /\ e.reports = d.reports /\ e.runs = d.runs
        /\ e.results = d.results /\ e.defects = d.defects
    BY <1>1, ReleasesFields
  <1> DEFINE ids == Released(w) \cup {Fallback}
             g   == ReleaseRows(w)
  <1>3. e.releases = d.releases ++ g
    BY <1>1, ReleasesFields
  <1>0. DOMAIN g = ids /\ \A n \in ids : g[n] = [was |-> n, round |-> None]
    BY DEF TargetRows, ConfigRows, ReleaseRows, CaseRows, StepRows, ReportRows, RunRows, RunRow
  <1> HIDE DEF e, g, ids
  <1>4. Kept(d.releases, e.releases) /\ DOMAIN e.releases = DOMAIN d.releases \cup ids
    BY <1>0, <1>3 DEF ++, Kept
  <1>5. \A n \in DOMAIN e.releases : n \notin DOMAIN d.releases => n \in ids /\ e.releases[n] = [was |-> n, round |-> None]
    BY <1>0, <1>3 DEF ++, Kept
  <1>6. \A n \in DOMAIN e.releases : IsRelease(e.releases[n]) /\ (n \notin DOMAIN d.releases => e.releases[n].round = None)
    <2>1. \A n \in DOMAIN d.releases : IsRelease(e.releases[n])
      BY <1>1, <1>4 DEF RowsTyped, Kept
    <2>2. \A n : IsRelease([was |-> n, round |-> None]) /\ [was |-> n, round |-> None].round = None
      BY DEF IsRelease
    <2> QED  BY <2>1, <2>2, <1>5
  <1>8. Grown(d, e)
    BY <1>1, <1>2, <1>4, <1>6, KeptJoined DEF Grown, RowsTyped, Renaming
  <1>9. Imported(6, w, e)
    BY <1>8, ImportedGrows
  <1>10. Imported(7, w, e)
    BY <1>4, <1>9 DEF Imported, ids
  <1> QED  BY <1>8, <1>10 DEF e

LEMMA StepCases ==
  ASSUME NEW w, NEW d, Right(d), Closed(w), Imported(7, w, d)
  PROVE  Grown(d, Cases(w, d)) /\ Imported(8, w, Cases(w, d))
PROOF
  <1> DEFINE e == Cases(w, d)
  <1>1. IsDb(d) /\ RowsTyped(d) /\ Renaming(d) /\ Sound(d)
    BY DEF Right
  <1>2. /\ IsDb(e)
        /\ e.accounts = d.accounts /\ e.tables = d.tables /\ e.definitions = d.definitions
        /\ e.targets = d.targets /\ e.units = d.units /\ e.configDefs = d.configDefs
        /\ e.configs = d.configs /\ e.unified = d.unified /\ e.served = d.served /\ e.column = d.column
        /\ e.columns = d.columns /\ e.rounds = d.rounds /\ e.releases = d.releases
        /\ e.reports = d.reports /\ e.runs = d.runs /\ e.results = d.results /\ e.defects = d.defects
    BY <1>1, CasesFields
  <1> DEFINE g == CaseRows(w)
             h == StepRows(w)
  <1>3. e.cases = d.cases ++ g /\ e.procedures = d.procedures ++ h
    BY <1>1, CasesFields
  <1>0. /\ DOMAIN g = CasesOf(w) /\ \A n \in CasesOf(w) : g[n] = [was |-> n, skeleton |-> n \notin DOMAIN w.steps]
        /\ DOMAIN h = StepsOf(w) /\ \A p \in StepsOf(w) : h[p] = p[1]
    BY DEF TargetRows, ConfigRows, ReleaseRows, CaseRows, StepRows, ReportRows, RunRows, RunRow
  <1> HIDE DEF e, g, h
  <1>4. /\ Kept(d.cases, e.cases) /\ DOMAIN e.cases = DOMAIN d.cases \cup CasesOf(w)
        /\ Kept(d.procedures, e.procedures) /\ DOMAIN e.procedures = DOMAIN d.procedures \cup StepsOf(w)
    BY <1>0, <1>3 DEF ++, Kept
  <1>5. \A n \in DOMAIN e.cases : n \notin DOMAIN d.cases => e.cases[n] = [was |-> n, skeleton |-> n \notin DOMAIN w.steps]
    BY <1>0, <1>3 DEF ++, Kept
  <1>6. \A n \in DOMAIN e.cases : IsCase(e.cases[n])
    <2>1. \A n \in DOMAIN d.cases : IsCase(e.cases[n])
      BY <1>1, <1>4 DEF RowsTyped, Kept
    <2>2. \A n : IsCase([was |-> n, skeleton |-> n \notin DOMAIN w.steps])
      BY DEF IsCase
    <2> QED  BY <2>1, <2>2, <1>5
  <1>7. \A p \in DOMAIN e.procedures : p \notin DOMAIN d.procedures => e.procedures[p] \in DOMAIN e.cases
    <2>1. \A p \in StepsOf(w) : p[1] \in CasesOf(w)
      BY DEF StepsOf, CasesOf
    <2>2. \A p \in DOMAIN e.procedures : p \notin DOMAIN d.procedures => p \in StepsOf(w) /\ e.procedures[p] = p[1]
      BY <1>0, <1>3 DEF ++, Kept
    <2> QED  BY <2>1, <2>2, <1>4
  <1> HIDE DEF e
  <1>8. Grown(d, e)
    BY <1>1, <1>2, <1>4, <1>6, <1>7, KeptJoined DEF Grown, RowsTyped, Renaming
  <1>9. Imported(7, w, e)
    BY <1>8, ImportedGrows
  <1>10. Imported(8, w, e)
    BY <1>4, <1>9 DEF Imported
  <1> QED  BY <1>8, <1>10 DEF e

LEMMA StepReports ==
  ASSUME NEW w, NEW d, Right(d), Closed(w), Imported(8, w, d)
  PROVE  Grown(d, Reports(w, d)) /\ Imported(9, w, Reports(w, d))
PROOF
  <1> DEFINE e == Reports(w, d)
  <1>1. IsDb(d) /\ RowsTyped(d) /\ Renaming(d) /\ Sound(d)
    BY DEF Right
  <1>2. /\ IsDb(e)
        /\ e.accounts = d.accounts /\ e.tables = d.tables /\ e.definitions = d.definitions
        /\ e.targets = d.targets /\ e.units = d.units /\ e.configDefs = d.configDefs
        /\ e.configs = d.configs /\ e.unified = d.unified /\ e.served = d.served /\ e.column = d.column
        /\ e.columns = d.columns /\ e.rounds = d.rounds /\ e.releases = d.releases /\ e.cases = d.cases
        /\ e.procedures = d.procedures /\ e.results = d.results /\ e.defects = d.defects
    BY <1>1, ReportsFields
  <1> DEFINE row(rid, c) == [was |-> <<rid, c>>, release |-> ReleaseFor(w, rid), config |-> <<"ENV", c>>,
                             target |-> TargetOf(w, FirstOf(Reporting(w, rid)))]
             g == ReportRows(w)
             h == RunRows(w)
  <1>3. e.reports = d.reports ++ g /\ e.runs = d.runs ++ h
    BY <1>1, ReportsFields
  <1>0. /\ DOMAIN g = Rids(w) /\ \A x \in Rids(w) : g[x] = ReleaseFor(w, x)
        /\ DOMAIN h = RunsOf(w) /\ \A u \in RunsOf(w) : h[u] = row(u[2], u[3])
    BY DEF TargetRows, ConfigRows, ReleaseRows, CaseRows, StepRows, ReportRows, RunRows, RunRow
  <1> HIDE DEF e, g, h
  <1>4. /\ Kept(d.reports, e.reports) /\ DOMAIN e.reports = DOMAIN d.reports \cup Rids(w)
        /\ Kept(d.runs, e.runs) /\ DOMAIN e.runs = DOMAIN d.runs \cup RunsOf(w)
    BY <1>0, <1>3 DEF ++, Kept
  <1>5. \A u \in RunsOf(w) : u[2] \in Rids(w) /\ u[3] \in Used(w, u[2])
    BY DEF RunsOf
  <1>6. \A rid : ReleaseFor(w, rid) \in DOMAIN d.releases
    BY DEF ReleaseFor, Imported
  <1>7. /\ \A x \in DOMAIN e.reports : x \notin DOMAIN d.reports => e.reports[x] \in DOMAIN e.releases
        /\ \A u \in DOMAIN e.runs : IsRun(e.runs[u])
        /\ \A u \in DOMAIN e.runs : u \notin DOMAIN d.runs => /\ e.runs[u].release \in DOMAIN e.releases
                                                            /\ e.runs[u].target \in DOMAIN e.targets
                                                            /\ e.runs[u].config \in DOMAIN e.configs
    <2>1. \A x \in DOMAIN e.reports : x \notin DOMAIN d.reports => e.reports[x] = ReleaseFor(w, x)
      BY <1>0, <1>3 DEF ++, Kept
    <2>2. \A u \in DOMAIN e.runs : u \notin DOMAIN d.runs => u \in RunsOf(w) /\ e.runs[u] = row(u[2], u[3])
      BY <1>0, <1>3 DEF ++, Kept
    <2>3. \A rid, c : IsRun(row(rid, c))
      BY DEF IsRun
    <2>4. \A u \in DOMAIN d.runs : IsRun(e.runs[u])
      BY <1>1, <1>4 DEF RowsTyped, Kept
    <2>5. ASSUME NEW u \in RunsOf(w)
          PROVE  /\ row(u[2], u[3]).release \in DOMAIN d.releases
                 /\ row(u[2], u[3]).target \in DOMAIN d.targets
                 /\ row(u[2], u[3]).config \in DOMAIN d.configs
      <3>1. u[2] \in Rids(w) /\ u[3] \in Used(w, u[2])
        BY <1>5
      <3>2. FirstOf(Reporting(w, u[2])) \in DOMAIN w.reports
        BY <3>1 DEF Closed
      <3>3. TargetOf(w, FirstOf(Reporting(w, u[2]))) \in LinesOf(w)
        BY <3>2 DEF Closed
      <3>4. u[3] \in ConfigsOf(w)
        BY <3>1 DEF Closed
      <3>5. <<"ENV", u[3]>> \in Names(w)
        BY <3>4 DEF Names
      <3>6. LinesOf(w) \subseteq DOMAIN d.targets /\ Names(w) \subseteq DOMAIN d.configs
        BY DEF Imported
      <3> QED  BY <3>3, <3>5, <3>6, <1>6
    <2> HIDE DEF row, e
    <2> QED  BY <2>1, <2>2, <2>3, <2>4, <2>5, <1>2, <1>6
  <1> HIDE DEF e, row
  <1>8. Grown(d, e)
    BY <1>1, <1>2, <1>4, <1>7, KeptJoined DEF Grown, RowsTyped, Renaming
  <1>9. Imported(8, w, e)
    BY <1>8, ImportedGrows
  <1>10. Imported(9, w, e)
    BY <1>4, <1>9 DEF Imported
  <1> QED  BY <1>8, <1>10 DEF e

LEMMA ResultOfRow ==
  ASSUME NEW w, NEW s \in ResultsOf(w), DOMAIN w.results \subseteq Nat
  PROVE  RowFor(w, s) \in DOMAIN w.results /\ ResultName(w, RowFor(w, s)) = s
PROOF
  <1> DEFINE S == {i \in DOMAIN w.results : ResultName(w, i) = s}
  <1>1. S \subseteq Nat /\ S # {}
    BY DEF ResultsOf
  <1> HIDE DEF S
  <1>2. FirstOf(S) \in S
    BY <1>1, FirstIn
  <1> QED  BY <1>2 DEF S, RowFor

\* The rows of the new results, each with its number and the defects it asks for.
LEMMA NewRows ==
  ASSUME NEW w, NEW d, DOMAIN w.results \subseteq Nat
  PROVE  /\ NewResults(w, d) \subseteq DOMAIN w.results
         /\ \A s \in ResultsOf(w) \ DOMAIN d.results : RowFor(w, s) \in NewResults(w, d)
PROOF BY ResultOfRow DEF NewResults

LEMMA OwnerFound ==
  ASSUME NEW w, NEW I, I \subseteq DOMAIN w.results, DOMAIN w.results \subseteq Nat, NEW x \in Issues(w, I)
  PROVE  \E i \in DOMAIN w.results : Owner(w, I, x) = ResultName(w, i) /\ x \in DefectNames(w, i)
PROOF
  <1> DEFINE S == {i \in I : x \in DefectNames(w, i)}
  <1>1. S \subseteq Nat /\ S # {}
    BY DEF Issues
  <1> HIDE DEF S
  <1>2. FirstOf(S) \in S
    BY <1>1, FirstIn
  <1>3. FirstOf(S) \in DOMAIN w.results /\ x \in DefectNames(w, FirstOf(S))
    BY <1>2 DEF S
  <1>4. Owner(w, I, x) = ResultName(w, FirstOf(S))
    BY DEF Owner, S
  <1> QED  BY <1>3, <1>4

LEMMA StepResults ==
  ASSUME NEW w, NEW d, Right(d), Closed(w), Imported(9, w, d)
  PROVE  Grown(d, Results(w, d)) /\ Imported(10, w, Results(w, d))
PROOF
  <1> DEFINE e == Results(w, d)
             I == NewResults(w, d)
  <1>1. IsDb(d) /\ RowsTyped(d) /\ Renaming(d) /\ Sound(d)
    BY DEF Right
  <1>2. /\ IsDb(e)
        /\ e.accounts = d.accounts /\ e.tables = d.tables /\ e.targets = d.targets
        /\ e.units = d.units /\ e.configs = d.configs /\ e.unified = d.unified
        /\ e.served = d.served /\ e.column = d.column /\ e.rounds = d.rounds
        /\ e.releases = d.releases /\ e.procedures = d.procedures /\ e.reports = d.reports
        /\ e.runs = d.runs ++ LostRows(w) /\ e.cases = d.cases ++ EmptyRows(w)
        /\ e.results = d.results ++ ResultRows(w) /\ e.defects = d.defects ++ IssueRows(w, I)
    BY <1>1, ResultsFields
  <1>3. /\ DOMAIN LostRows(w) = Lost(w) /\ \A u \in Lost(w) : LostRows(w)[u] = LostRow(w, u)
        /\ DOMAIN EmptyRows(w) = EmptyCase(w) /\ \A c \in EmptyCase(w) : EmptyRows(w)[c] = [was |-> c, skeleton |-> TRUE]
        /\ DOMAIN ResultRows(w) = ResultsOf(w) /\ \A s \in ResultsOf(w) : ResultRows(w)[s] = ResultOf(w, s)
        /\ DOMAIN IssueRows(w, I) = Issues(w, I) /\ \A x \in Issues(w, I) : IssueRows(w, I)[x] = Owner(w, I, x)
    BY DEF LostRows, EmptyRows, ResultRows, IssueRows
  <1> DEFINE lr == LostRows(w)
             er == EmptyRows(w)
             rr == ResultRows(w)
             ir == IssueRows(w, I)
  <1> HIDE DEF e, lr, er, rr, ir, I
  <1>4. /\ Kept(d.runs, e.runs) /\ DOMAIN e.runs = DOMAIN d.runs \cup Lost(w)
        /\ Kept(d.cases, e.cases) /\ DOMAIN e.cases = DOMAIN d.cases \cup EmptyCase(w)
        /\ Kept(d.results, e.results) /\ DOMAIN e.results = DOMAIN d.results \cup ResultsOf(w)
        /\ Kept(d.defects, e.defects) /\ DOMAIN e.defects = DOMAIN d.defects \cup Issues(w, I)
    BY <1>2, <1>3 DEF ++, Kept
  <1>5. \A u \in DOMAIN e.runs : u \notin DOMAIN d.runs => u \in Lost(w) /\ e.runs[u] = LostRow(w, u)
    BY <1>2, <1>3 DEF ++
  <1>6. \A c \in DOMAIN e.cases : c \notin DOMAIN d.cases => e.cases[c] = [was |-> c, skeleton |-> TRUE]
    BY <1>2, <1>3 DEF ++
  <1>7. \A s \in DOMAIN e.results : s \notin DOMAIN d.results => s \in ResultsOf(w) /\ e.results[s] = ResultOf(w, s)
    BY <1>2, <1>3 DEF ++
  <1>8. \A x \in DOMAIN e.defects : x \notin DOMAIN d.defects => x \in Issues(w, I) /\ e.defects[x] = Owner(w, I, x)
    BY <1>2, <1>3 DEF ++
  <1>9. RowsTyped(e)
    <2>1. /\ \A u : IsRun(LostRow(w, u)) /\ \A s : IsResult(ResultOf(w, s))
          /\ \A c : IsCase([was |-> c, skeleton |-> TRUE])
      BY DEF IsRun, IsResult, IsCase, LostRow, ResultOf
    <2>2. \A u \in DOMAIN e.runs : IsRun(e.runs[u])
      BY <1>1, <1>4, <1>5, <2>1 DEF RowsTyped, Kept
    <2>3. \A c \in DOMAIN e.cases : IsCase(e.cases[c])
      BY <1>1, <1>4, <1>6, <2>1 DEF RowsTyped, Kept
    <2>4. \A s \in DOMAIN e.results : IsResult(e.results[s])
      BY <1>1, <1>4, <1>7, <2>1 DEF RowsTyped, Kept
    <2> QED  BY <1>1, <1>2, <2>2, <2>3, <2>4 DEF RowsTyped
  <1>10. ASSUME NEW u \in DOMAIN e.runs, u \notin DOMAIN d.runs
         PROVE  e.runs[u].release \in DOMAIN e.releases /\ e.runs[u].target \in DOMAIN e.targets /\
                 e.runs[u].config \in DOMAIN e.configs
    <2>1. e.runs[u] = LostRow(w, u)
      BY <1>5, <1>10
    <2>2. e.runs[u].release = Fallback /\ e.runs[u].target = FirstTarget(w) /\ e.runs[u].config = <<"ENV", Head(w.configs)>>
      BY <2>1 DEF LostRow
    <2>3. Fallback \in DOMAIN d.releases /\ LinesOf(w) \subseteq DOMAIN d.targets /\ Names(w) \subseteq DOMAIN d.configs
      BY DEF Imported
    <2>4. <<"ENV", Head(w.configs)>> \in Names(w)
      BY DEF Closed, Names
    <2>5. FirstTarget(w) \in LinesOf(w)
      BY DEF Closed
    <2> QED  BY <1>2, <2>2, <2>3, <2>4, <2>5
  <1>11. ASSUME NEW i \in DOMAIN w.results
         PROVE  RunFor(w, i) \in DOMAIN e.runs /\ CaseFor(w, i) \in DOMAIN e.cases
    <2>1. RunFor(w, i) \in RunsOf(w) \cup Lost(w) /\ CaseFor(w, i) \in CasesOf(w) \cup {Placeholder}
      BY DEF Closed
    <2>2. RunsOf(w) \subseteq DOMAIN d.runs /\ CasesOf(w) \subseteq DOMAIN d.cases
      BY DEF Imported
    <2>3. CaseFor(w, i) = Placeholder => Placeholder \in EmptyCase(w)
      BY DEF EmptyCase
    <2> QED  BY <1>4, <2>1, <2>2, <2>3
  <1>12. ASSUME NEW s \in DOMAIN e.results, s \notin DOMAIN d.results
         PROVE  e.results[s].run \in DOMAIN e.runs /\ e.results[s].case \in DOMAIN e.cases
    <2>1. s \in ResultsOf(w) /\ e.results[s] = ResultOf(w, s)
      BY <1>7, <1>12
    <2>2. RowFor(w, s) \in DOMAIN w.results
      BY <2>1, ResultOfRow DEF Closed
    <2>3. e.results[s].run = RunFor(w, RowFor(w, s)) /\ e.results[s].case = CaseFor(w, RowFor(w, s))
      BY <2>1 DEF ResultOf
    <2> QED  BY <2>2, <2>3, <1>11
  <1>13. ASSUME NEW x \in DOMAIN e.defects, x \notin DOMAIN d.defects
         PROVE  e.defects[x] \in DOMAIN e.results
    <2>1. x \in Issues(w, I) /\ e.defects[x] = Owner(w, I, x)
      BY <1>8, <1>13
    <2>2. I \subseteq DOMAIN w.results /\ DOMAIN w.results \subseteq Nat
      BY NewRows DEF Closed, I
    <2>3. PICK i \in DOMAIN w.results : Owner(w, I, x) = ResultName(w, i)
      BY <2>1, <2>2, OwnerFound
    <2>4. ResultName(w, i) \in ResultsOf(w)
      BY DEF ResultsOf
    <2> QED  BY <1>4, <2>1, <2>3, <2>4
  <1>14. Grown(d, e)
    BY <1>1, <1>2, <1>4, <1>9, <1>10, <1>12, <1>13, KeptJoined DEF Grown, Renaming
  <1>15. Imported(9, w, e)
    BY <1>14, ImportedGrows
  <1>16. ResultsOf(w) \subseteq DOMAIN e.results /\ Lost(w) \subseteq DOMAIN e.runs
         /\ {CaseFor(w, i) : i \in DOMAIN w.results} \subseteq DOMAIN e.cases
    BY <1>4, <1>11
  <1>17. Imported(10, w, e)
    BY <1>15, <1>16 DEF Imported, ResultsOf
  <1> QED  BY <1>14, <1>17 DEF e

\* Every step of the import adds rows only, and what it is there for.
LEMMA AfterGrown ==
  ASSUME NEW w, NEW d, NEW k \in 1 .. 9, Right(d), Closed(w), Imported(k, w, d)
  PROVE  Grown(d, After(k, w, d)) /\ Imported(k + 1, w, After(k, w, d))
PROOF
  <1>1. CASE k = 1  BY <1>1, StepSchema DEF After
  <1>2. CASE k = 2  BY <1>2, StepUsers DEF After
  <1>3. CASE k = 3  BY <1>3, StepMembers DEF After
  <1>4. CASE k = 4  BY <1>4, StepTargets DEF After
  <1>5. CASE k = 5  BY <1>5, StepEnvironments DEF After
  <1>6. CASE k = 6  BY <1>6, StepReleases DEF After
  <1>7. CASE k = 7  BY <1>7, StepCases DEF After
  <1>8. CASE k = 8  BY <1>8, StepReports DEF After
  <1>9. CASE k = 9  BY <1>9, StepResults DEF After
  <1>10. k = 1 \/ k = 2 \/ k = 3 \/ k = 4 \/ k = 5 \/ k = 6 \/ k = 7 \/ k = 8 \/ k = 9
    OBVIOUS
  <1> QED  BY <1>1, <1>2, <1>3, <1>4, <1>5, <1>6, <1>7, <1>8, <1>9, <1>10

-----------------------------------------------------------------------------
\* What no step but one that puts the main file back takes from a database, apart from
\* the targets that a second merge replaces.
Keeping(d, e) ==
  /\ DOMAIN d.results \subseteq DOMAIN e.results /\ DOMAIN d.defects \subseteq DOMAIN e.defects
  /\ \A s \in DOMAIN d.results : About(e, s) = About(d, s) /\ StepsUnder(d, s) \subseteq StepsUnder(e, s)
  /\ Cardinality(d.rounds) <= Cardinality(e.rounds)

\* References to rows that stay where they are stay right.
SameRows(d, e) ==
  /\ e.results = d.results /\ e.cases = d.cases /\ e.procedures = d.procedures
  /\ e.releases = d.releases /\ e.reports = d.reports

LEMMA AboutKept ==
  ASSUME NEW d, NEW e, Right(d), Kept(d.results, e.results), Kept(d.runs, e.runs),
         Kept(d.releases, e.releases), Kept(d.cases, e.cases), NEW s \in DOMAIN d.results
  PROVE  About(e, s) = About(d, s)
PROOF
  <1>1. /\ d.results[s].run \in DOMAIN d.runs /\ d.results[s].case \in DOMAIN d.cases
        /\ d.runs[d.results[s].run].release \in DOMAIN d.releases
    BY OrphansNone DEF Right, Sound
  <1>2. /\ e.results[s] = d.results[s] /\ e.runs[d.results[s].run] = d.runs[d.results[s].run]
        /\ e.releases[d.runs[d.results[s].run].release] = d.releases[d.runs[d.results[s].run].release]
        /\ e.cases[d.results[s].case] = d.cases[d.results[s].case]
    BY <1>1 DEF Kept
  <1> QED  BY <1>2 DEF About

LEMMA GrownKeeping ==
  ASSUME NEW d, NEW e, Right(d), Grown(d, e)
  PROVE  Keeping(d, e)
PROOF
  <1>1. /\ DOMAIN d.results \subseteq DOMAIN e.results /\ DOMAIN d.defects \subseteq DOMAIN e.defects
        /\ e.rounds = d.rounds
    BY DEF Grown, Kept
  <1>2. Cardinality(d.rounds) <= Cardinality(e.rounds)
    <2>1. IsFiniteSet(d.rounds)
      BY DEF Right, Renaming
    <2>2. Cardinality(d.rounds) \in Nat
      BY <2>1, FS_CardinalityType
    <2> QED  BY <1>1, <2>2
  <1>3. ASSUME NEW s \in DOMAIN d.results
        PROVE  About(e, s) = About(d, s) /\ StepsUnder(d, s) \subseteq StepsUnder(e, s)
    <2>1. About(e, s) = About(d, s)
      BY AboutKept DEF Grown
    <2>2. e.results[s] = d.results[s] /\ Kept(d.procedures, e.procedures)
      BY DEF Grown, Kept
    <2>3. StepsUnder(d, s) \subseteq StepsUnder(e, s)
      BY <2>2 DEF StepsUnder, Kept
    <2> QED  BY <2>1, <2>3
  <1> QED  BY <1>1, <1>2, <1>3 DEF Keeping

\* What leaves results, cases, releases and reports alone, and of the runs what they are.
LEMMA SameRight ==
  ASSUME NEW d, NEW e, Right(d), IsDb(e), Renaming(e), SameRows(d, e),
         DOMAIN e.runs = DOMAIN d.runs,
         \A u \in DOMAIN d.runs : /\ IsRun(e.runs[u])
                                  /\ e.runs[u].release = d.runs[u].release /\ e.runs[u].was = d.runs[u].was
                                  /\ TargetFound(e, u) \/ Relinked(e, u)
                                  /\ ConfigFound(e, u) \/ Overlooked(e, u),
         DOMAIN d.defects \subseteq DOMAIN e.defects,
         \A x \in DOMAIN e.defects : e.defects[x] \in DOMAIN d.results,
         d.rounds \subseteq e.rounds
  PROVE  Right(e) /\ Keeping(d, e)
PROOF
  <1>1. /\ \A s \in DOMAIN d.results : d.results[s].run \in DOMAIN d.runs /\ d.results[s].case \in DOMAIN d.cases
        /\ \A p \in DOMAIN d.procedures : d.procedures[p] \in DOMAIN d.cases
        /\ \A u \in DOMAIN d.runs : d.runs[u].release \in DOMAIN d.releases
        /\ \A n \in DOMAIN d.releases : d.releases[n].round \in d.rounds \cup {None}
    BY OrphansNone DEF Right, Sound
  <1>2. Orphans(e) = {}
    BY <1>1, OrphansNone DEF SameRows
  <1>3. \A x \in DOMAIN e.reports : e.reports[x] \in DOMAIN e.releases
    BY DEF Right, Sound, SameRows
  <1>4. RowsTyped(e)
    BY DEF Right, RowsTyped, SameRows
  <1>5. Right(e)
    BY <1>2, <1>3, <1>4 DEF Right, Sound
  <1>6. Cardinality(d.rounds) <= Cardinality(e.rounds)
    <2>1. IsFiniteSet(e.rounds)
      BY DEF Renaming
    <2> QED  BY <2>1, FS_Subset
  <1>7. ASSUME NEW s \in DOMAIN d.results
        PROVE  About(e, s) = About(d, s) /\ StepsUnder(d, s) \subseteq StepsUnder(e, s)
    <2>1. d.results[s].run \in DOMAIN d.runs
      BY <1>1
    <2>2. e.runs[d.results[s].run].was = d.runs[d.results[s].run].was /\
           e.runs[d.results[s].run].release = d.runs[d.results[s].run].release
      BY <2>1
    <2>3. About(e, s) = About(d, s)
      BY <2>2 DEF About, SameRows
    <2>4. StepsUnder(d, s) = StepsUnder(e, s)
      BY DEF StepsUnder, SameRows
    <2> QED  BY <2>3, <2>4
  <1>8. DOMAIN d.results = DOMAIN e.results
    BY DEF SameRows
  <1> QED  BY <1>5, <1>6, <1>7, <1>8 DEF Keeping

LEMMA FoundSame ==
  ASSUME NEW d, NEW e, NEW u, Right(d), u \in DOMAIN d.runs
  PROVE  /\ (e.runs[u].target = d.runs[u].target /\ d.units \subseteq e.units /\ DOMAIN d.targets \subseteq DOMAIN e.targets)
              => TargetFound(e, u) \/ Relinked(e, u)
         /\ (e.runs[u].config = d.runs[u].config /\ DOMAIN d.configs \subseteq DOMAIN e.configs
               /\ e.column = d.column /\ d.unified \subseteq e.unified /\ d.served \subseteq e.served)
              => ConfigFound(e, u) \/ Overlooked(e, u)
PROOF
  <1>1. (TargetFound(d, u) \/ Relinked(d, u)) /\ (ConfigFound(d, u) \/ Overlooked(d, u))
    BY DEF Right, Sound
  <1>2. ASSUME e.runs[u].target = d.runs[u].target, d.units \subseteq e.units, DOMAIN d.targets \subseteq DOMAIN e.targets
        PROVE  TargetFound(e, u) \/ Relinked(e, u)
    BY <1>1, <1>2 DEF TargetFound, Relinked
  <1>3. ASSUME e.runs[u].config = d.runs[u].config, DOMAIN d.configs \subseteq DOMAIN e.configs,
               e.column = d.column, d.unified \subseteq e.unified, d.served \subseteq e.served
        PROVE  ConfigFound(e, u) \/ Overlooked(e, u)
    <2>1. CASE ConfigFound(d, u)  BY <1>3, <2>1 DEF ConfigFound
    <2>2. CASE Overlooked(d, u)  BY <1>3, <2>2 DEF Overlooked
    <2> QED  BY <1>1, <2>1, <2>2
  <1> QED  BY <1>2, <1>3

-----------------------------------------------------------------------------
\* The old tables are empty.
LEMMA DropOldTargetsRight ==
  ASSUME Right(db), DropOldTargets
  PROVE  Right(db') /\ Keeping(db, db') /\ db.units \subseteq db'.units
PROOF
  <1>1. Right(db) /\ IsDb(db) /\ Renaming(db) /\ RowsTyped(db)
    BY DEF Right
  <1>2. db' = [db EXCEPT !.tables = @ \ {"definitions", "targets"}]
    BY DEF DropOldTargets, Script
  <1>3. /\ IsDb(db') /\ db'.tables = db.tables \ {"definitions", "targets"}
        /\ db'.accounts = db.accounts /\ db'.definitions = db.definitions /\ db'.targets = db.targets
        /\ db'.units = db.units /\ db'.configDefs = db.configDefs /\ db'.configs = db.configs
        /\ db'.unified = db.unified /\ db'.served = db.served /\ db'.column = db.column
        /\ db'.columns = db.columns /\ db'.rounds = db.rounds /\ db'.releases = db.releases
        /\ db'.cases = db.cases /\ db'.procedures = db.procedures /\ db'.reports = db.reports
        /\ db'.runs = db.runs /\ db'.results = db.results /\ db'.defects = db.defects
    BY <1>1, <1>2 DEF IsDb, Fields
  <1>4. Renaming(db')
    BY <1>1, <1>3 DEF Renaming
  <1>5. ASSUME NEW u \in DOMAIN db.runs
        PROVE  /\ IsRun(db'.runs[u]) /\ db'.runs[u].release = db.runs[u].release /\ db'.runs[u].was = db.runs[u].was
               /\ TargetFound(db', u) \/ Relinked(db', u)
               /\ ConfigFound(db', u) \/ Overlooked(db', u)
    BY <1>1, <1>3, FoundSame DEF RowsTyped
  <1>6. \A x \in DOMAIN db'.defects : db'.defects[x] \in DOMAIN db.results
    BY <1>1, <1>3, OrphansNone DEF Right, Sound
  <1> QED  BY <1>1, <1>3, <1>4, <1>5, <1>6, SameRight DEF SameRows

\* A column more.
LEMMA ShowColumnRight ==
  ASSUME Right(db), ShowColumn
  PROVE  Right(db') /\ Keeping(db, db') /\ db.units \subseteq db'.units
PROOF
  <1>1. Right(db) /\ IsDb(db) /\ Renaming(db) /\ RowsTyped(db)
    BY DEF Right
  <1>2. db' = [db EXCEPT !.columns = @ \cup {"visible"}]
    BY DEF ShowColumn, Script
  <1>3. /\ IsDb(db')
        /\ db'.accounts = db.accounts /\ db'.tables = db.tables /\ db'.definitions = db.definitions
        /\ db'.targets = db.targets /\ db'.units = db.units /\ db'.configDefs = db.configDefs
        /\ db'.configs = db.configs /\ db'.unified = db.unified /\ db'.served = db.served
        /\ db'.column = db.column /\ db'.rounds = db.rounds /\ db'.releases = db.releases
        /\ db'.cases = db.cases /\ db'.procedures = db.procedures /\ db'.reports = db.reports
        /\ db'.runs = db.runs /\ db'.results = db.results /\ db'.defects = db.defects
    BY <1>1, <1>2 DEF IsDb, Fields
  <1>4. Renaming(db')
    BY <1>1, <1>3 DEF Renaming
  <1>5. ASSUME NEW u \in DOMAIN db.runs
        PROVE  /\ IsRun(db'.runs[u]) /\ db'.runs[u].release = db.runs[u].release /\ db'.runs[u].was = db.runs[u].was
               /\ TargetFound(db', u) \/ Relinked(db', u)
               /\ ConfigFound(db', u) \/ Overlooked(db', u)
    BY <1>1, <1>3, FoundSame DEF RowsTyped
  <1>6. \A x \in DOMAIN db'.defects : db'.defects[x] \in DOMAIN db.results
    BY <1>1, <1>3, OrphansNone DEF Right, Sound
  <1> QED  BY <1>1, <1>3, <1>4, <1>5, <1>6, SameRight DEF SameRows

LEMMA RoundsTableRight ==
  ASSUME Right(db), RoundsTable
  PROVE  Right(db') /\ Keeping(db, db') /\ db.units \subseteq db'.units
PROOF
  <1>1. Right(db) /\ IsDb(db) /\ Renaming(db) /\ RowsTyped(db)
    BY DEF Right
  <1>2. db' = [db EXCEPT !.tables = @ \cup {"rounds"}]
    BY DEF RoundsTable, Script
  <1>3. /\ IsDb(db')
        /\ db'.accounts = db.accounts /\ db'.tables = db.tables \cup {"rounds"} /\ db'.definitions = db.definitions
        /\ db'.targets = db.targets /\ db'.units = db.units /\ db'.configDefs = db.configDefs
        /\ db'.configs = db.configs /\ db'.unified = db.unified /\ db'.served = db.served
        /\ db'.column = db.column /\ db'.columns = db.columns /\ db'.rounds = db.rounds /\ db'.releases = db.releases
        /\ db'.cases = db.cases /\ db'.procedures = db.procedures /\ db'.reports = db.reports
        /\ db'.runs = db.runs /\ db'.results = db.results /\ db'.defects = db.defects
    BY <1>1, <1>2 DEF IsDb, Fields
  <1>4. Renaming(db')
    BY <1>1, <1>3 DEF Renaming
  <1>5. ASSUME NEW u \in DOMAIN db.runs
        PROVE  /\ IsRun(db'.runs[u]) /\ db'.runs[u].release = db.runs[u].release /\ db'.runs[u].was = db.runs[u].was
               /\ TargetFound(db', u) \/ Relinked(db', u)
               /\ ConfigFound(db', u) \/ Overlooked(db', u)
    BY <1>1, <1>3, FoundSame DEF RowsTyped
  <1>6. \A x \in DOMAIN db'.defects : db'.defects[x] \in DOMAIN db.results
    BY <1>1, <1>3, OrphansNone DEF Right, Sound
  <1> QED  BY <1>1, <1>3, <1>4, <1>5, <1>6, SameRight DEF SameRows

\* The runs of the diagnosis have the new target, whether it exists or not.
LEMMA RelinkRight ==
  ASSUME Right(db), Relink
  PROVE  Right(db') /\ Keeping(db, db') /\ db.units \subseteq db'.units
PROOF
  <1>1. Right(db) /\ IsDb(db) /\ Renaming(db) /\ RowsTyped(db)
    BY DEF Right
  <1> DEFINE row(u) == IF u \in DOMAIN Remap THEN [db.runs[u] EXCEPT !.target = Remap[u][2]] ELSE db.runs[u]
  <1>2. db' = [db EXCEPT !.runs = [u \in DOMAIN db.runs |-> row(u)]]
    BY DEF Relink, Script
  <1>3. /\ IsDb(db') /\ db'.runs = [u \in DOMAIN db.runs |-> row(u)]
        /\ db'.accounts = db.accounts /\ db'.tables = db.tables /\ db'.definitions = db.definitions
        /\ db'.targets = db.targets /\ db'.units = db.units /\ db'.configDefs = db.configDefs
        /\ db'.configs = db.configs /\ db'.unified = db.unified /\ db'.served = db.served
        /\ db'.column = db.column /\ db'.columns = db.columns /\ db'.rounds = db.rounds
        /\ db'.releases = db.releases /\ db'.cases = db.cases /\ db'.procedures = db.procedures
        /\ db'.reports = db.reports /\ db'.results = db.results /\ db'.defects = db.defects
    BY <1>1, <1>2 DEF IsDb, Fields
  <1>4. Renaming(db')
    BY <1>1, <1>3 DEF Renaming
  <1>5. ASSUME NEW u \in DOMAIN db.runs
        PROVE  /\ IsRun(db'.runs[u]) /\ db'.runs[u].release = db.runs[u].release /\ db'.runs[u].was = db.runs[u].was
               /\ TargetFound(db', u) \/ Relinked(db', u)
               /\ ConfigFound(db', u) \/ Overlooked(db', u)
    <2>1. IsRun(db.runs[u])
      BY <1>1 DEF RowsTyped
    <2>2. db'.runs[u] = row(u)
      BY <1>3
    <2>3. CASE u \in DOMAIN Remap
      <3>1. db'.runs[u] = [db.runs[u] EXCEPT !.target = Remap[u][2]]
        BY <2>2, <2>3
      <3>2. /\ IsRun(db'.runs[u]) /\ db'.runs[u].release = db.runs[u].release /\ db'.runs[u].was = db.runs[u].was
            /\ db'.runs[u].config = db.runs[u].config /\ db'.runs[u].target = Remap[u][2]
        BY <2>1, <3>1 DEF IsRun
      <3>3. Relinked(db', u)
        BY <2>3, <3>2 DEF Relinked
      <3> QED  BY <1>1, <1>3, <3>2, <3>3, FoundSame
    <2>4. CASE u \notin DOMAIN Remap
      <3>1. db'.runs[u] = db.runs[u]
        BY <2>2, <2>4
      <3> QED  BY <1>1, <1>3, <2>1, <3>1, FoundSame
    <2> QED  BY <2>3, <2>4
  <1>6. \A x \in DOMAIN db'.defects : db'.defects[x] \in DOMAIN db.results
    BY <1>1, <1>3, OrphansNone DEF Right, Sound
  <1>7. DOMAIN db'.runs = DOMAIN db.runs
    BY <1>3
  <1> HIDE DEF row
  <1> QED  BY <1>1, <1>3, <1>4, <1>5, <1>6, <1>7, SameRight DEF SameRows

\* A target more.
LEMMA RegisterRight ==
  ASSUME Right(db), Register
  PROVE  Right(db') /\ Keeping(db, db') /\ db.units \subseteq db'.units
PROOF
  <1>1. Right(db) /\ IsDb(db) /\ Renaming(db) /\ RowsTyped(db)
    BY DEF Right
  <1>2. db' = [db EXCEPT !.units = @ \cup {New}]
    BY DEF Register, Serve
  <1>3. /\ IsDb(db') /\ db'.units = db.units \cup {New}
        /\ db'.accounts = db.accounts /\ db'.tables = db.tables /\ db'.definitions = db.definitions
        /\ db'.targets = db.targets /\ db'.configDefs = db.configDefs /\ db'.configs = db.configs
        /\ db'.unified = db.unified /\ db'.served = db.served /\ db'.column = db.column
        /\ db'.columns = db.columns /\ db'.rounds = db.rounds /\ db'.releases = db.releases
        /\ db'.cases = db.cases /\ db'.procedures = db.procedures /\ db'.reports = db.reports
        /\ db'.runs = db.runs /\ db'.results = db.results /\ db'.defects = db.defects
    BY <1>1, <1>2 DEF IsDb, Fields
  <1>4. Renaming(db')
    BY <1>1, <1>3 DEF Renaming
  <1>5. ASSUME NEW u \in DOMAIN db.runs
        PROVE  /\ IsRun(db'.runs[u]) /\ db'.runs[u].release = db.runs[u].release /\ db'.runs[u].was = db.runs[u].was
               /\ TargetFound(db', u) \/ Relinked(db', u)
               /\ ConfigFound(db', u) \/ Overlooked(db', u)
    BY <1>1, <1>3, FoundSame DEF RowsTyped
  <1>6. \A x \in DOMAIN db'.defects : db'.defects[x] \in DOMAIN db.results
    BY <1>1, <1>3, OrphansNone DEF Right, Sound
  <1> QED  BY <1>1, <1>3, <1>4, <1>5, <1>6, SameRight DEF SameRows

\* A defect more, of a result that is there.
LEMMA OpenDefectRight ==
  ASSUME Right(db), OpenDefect
  PROVE  Right(db') /\ Keeping(db, db') /\ db.units \subseteq db'.units
PROOF
  <1>1. Right(db) /\ IsDb(db) /\ Renaming(db) /\ RowsTyped(db)
    BY DEF Right
  <1>2. PICK s \in DOMAIN db.results :
             db' = [db EXCEPT !.defects = @ ++ [x \in {<<"server", 0>>} |-> s]]
    BY DEF OpenDefect, Serve
  <1> DEFINE more == [x \in {<<"server", 0>>} |-> s]
  <1>3. /\ IsDb(db') /\ db'.defects = db.defects ++ more
        /\ db'.accounts = db.accounts /\ db'.tables = db.tables /\ db'.definitions = db.definitions
        /\ db'.targets = db.targets /\ db'.units = db.units /\ db'.configDefs = db.configDefs
        /\ db'.configs = db.configs /\ db'.unified = db.unified /\ db'.served = db.served
        /\ db'.column = db.column /\ db'.columns = db.columns /\ db'.rounds = db.rounds
        /\ db'.releases = db.releases /\ db'.cases = db.cases /\ db'.procedures = db.procedures
        /\ db'.reports = db.reports /\ db'.runs = db.runs /\ db'.results = db.results
    BY <1>1, <1>2 DEF IsDb, Fields
  <1>4. Renaming(db')
    BY <1>1, <1>3 DEF Renaming
  <1>5. ASSUME NEW u \in DOMAIN db.runs
        PROVE  /\ IsRun(db'.runs[u]) /\ db'.runs[u].release = db.runs[u].release /\ db'.runs[u].was = db.runs[u].was
               /\ TargetFound(db', u) \/ Relinked(db', u)
               /\ ConfigFound(db', u) \/ Overlooked(db', u)
    BY <1>1, <1>3, FoundSame DEF RowsTyped
  <1>6. /\ DOMAIN db.defects \subseteq DOMAIN db'.defects
        /\ \A x \in DOMAIN db'.defects : db'.defects[x] \in DOMAIN db.results
    <2>1. \A x \in DOMAIN db.defects : db.defects[x] \in DOMAIN db.results
      BY <1>1, OrphansNone DEF Right, Sound
    <2>2. \A x \in DOMAIN more : more[x] = s
      OBVIOUS
    <2> HIDE DEF more
    <2> QED  BY <1>3, <2>1, <2>2 DEF ++
  <1> HIDE DEF more
  <1> QED  BY <1>1, <1>3, <1>4, <1>5, <1>6, SameRight DEF SameRows

\* A merged table of environments gets the server's name, and the column of the runs.
LEMMA ServerStartRight ==
  ASSUME Right(db), ServerStart
  PROVE  Right(db') /\ Keeping(db, db') /\ db.units \subseteq db'.units
PROOF
  <1>1. Right(db) /\ IsDb(db) /\ Renaming(db) /\ RowsTyped(db)
    BY DEF Right
  <1> DEFINE merged == "unified" \in db.tables
  <1>2. /\ merged => "served" \notin db.tables
        /\ db' = [db EXCEPT !.tables  = (@ \ {"unified"}) \cup {"served", "units", "rounds"},
                            !.served  = IF merged THEN db.unified ELSE @,
                            !.unified = IF merged THEN {} ELSE @,
                            !.column  = IF merged THEN "config" ELSE @]
    BY DEF ServerStart
  <1>3. /\ IsDb(db') /\ db'.tables = (db.tables \ {"unified"}) \cup {"served", "units", "rounds"}
        /\ db'.served = (IF merged THEN db.unified ELSE db.served)
        /\ db'.unified = (IF merged THEN {} ELSE db.unified)
        /\ db'.column = (IF merged THEN "config" ELSE db.column)
        /\ db'.accounts = db.accounts /\ db'.definitions = db.definitions /\ db'.targets = db.targets
        /\ db'.units = db.units /\ db'.configDefs = db.configDefs /\ db'.configs = db.configs
        /\ db'.columns = db.columns /\ db'.rounds = db.rounds /\ db'.releases = db.releases
        /\ db'.cases = db.cases /\ db'.procedures = db.procedures /\ db'.reports = db.reports
        /\ db'.runs = db.runs /\ db'.results = db.results /\ db'.defects = db.defects
    BY <1>1, <1>2 DEF IsDb, Fields
  <1>4. Renaming(db')
    BY <1>1, <1>3 DEF Renaming
  <1>5. ASSUME NEW u \in DOMAIN db.runs
        PROVE  /\ IsRun(db'.runs[u]) /\ db'.runs[u].release = db.runs[u].release /\ db'.runs[u].was = db.runs[u].was
               /\ TargetFound(db', u) \/ Relinked(db', u)
               /\ ConfigFound(db', u) \/ Overlooked(db', u)
    <2>1. (TargetFound(db', u) \/ Relinked(db', u)) /\ IsRun(db.runs[u])
      BY <1>1, <1>3, FoundSame DEF RowsTyped
    <2>2. ConfigFound(db, u) \/ Overlooked(db, u)
      BY <1>1 DEF Right, Sound
    <2>3. CASE merged
      <3>1. db.column = "environment" /\ db.served = {}
        BY <1>1, <1>2, <2>3 DEF Renaming
      <3> QED  BY <1>3, <2>1, <2>2, <2>3, <3>1 DEF ConfigFound, Overlooked
    <2>4. CASE ~merged
      BY <1>3, <2>1, <2>2, <2>4 DEF ConfigFound, Overlooked
    <2> QED  BY <2>3, <2>4
  <1>6. \A x \in DOMAIN db'.defects : db'.defects[x] \in DOMAIN db.results
    BY <1>1, <1>3, OrphansNone DEF Right, Sound
  <1> QED  BY <1>1, <1>3, <1>4, <1>5, <1>6, SameRight DEF SameRows

\* Every run has an old target: the new table may be emptied.
LEMMA MergeTargetsStartRight ==
  ASSUME Right(db), MergeTargetsStart
  PROVE  Right(db') /\ Keeping(db, db') /\ Merging'
PROOF
  <1>1. Right(db) /\ IsDb(db) /\ Renaming(db) /\ RowsTyped(db)
    BY DEF Right
  <1>2. /\ db' = [db EXCEPT !.tables = @ \cup {"units"}, !.units = {}]
        /\ \A u \in DOMAIN db.runs : db.runs[u].target \in DOMAIN db.targets
        /\ doing' = "targets"
    BY DEF MergeTargetsStart
  <1>3. /\ IsDb(db') /\ db'.tables = db.tables \cup {"units"} /\ db'.units = {}
        /\ db'.accounts = db.accounts /\ db'.definitions = db.definitions /\ db'.targets = db.targets
        /\ db'.configDefs = db.configDefs /\ db'.configs = db.configs /\ db'.unified = db.unified
        /\ db'.served = db.served /\ db'.column = db.column /\ db'.columns = db.columns
        /\ db'.rounds = db.rounds /\ db'.releases = db.releases /\ db'.cases = db.cases
        /\ db'.procedures = db.procedures /\ db'.reports = db.reports /\ db'.runs = db.runs
        /\ db'.results = db.results /\ db'.defects = db.defects
    BY <1>1, <1>2 DEF IsDb, Fields
  <1>4. Renaming(db')
    BY <1>1, <1>3 DEF Renaming
  <1>5. ASSUME NEW u \in DOMAIN db.runs
        PROVE  /\ IsRun(db'.runs[u]) /\ db'.runs[u].release = db.runs[u].release /\ db'.runs[u].was = db.runs[u].was
               /\ TargetFound(db', u) \/ Relinked(db', u)
               /\ ConfigFound(db', u) \/ Overlooked(db', u)
    <2>1. TargetFound(db', u)
      BY <1>2, <1>3 DEF TargetFound
    <2> QED  BY <1>1, <1>3, <2>1, FoundSame DEF RowsTyped
  <1>6. \A x \in DOMAIN db'.defects : db'.defects[x] \in DOMAIN db.results
    BY <1>1, <1>3, OrphansNone DEF Right, Sound
  <1>7. Merging'
    BY <1>2, <1>3 DEF Merging
  <1> QED  BY <1>1, <1>3, <1>4, <1>5, <1>6, <1>7, SameRight DEF SameRows

\* The table of the merge is new, and has no rows.
LEMMA MergeEnvironmentsStartRight ==
  ASSUME Right(db), MergeEnvironmentsStart
  PROVE  Right(db') /\ Keeping(db, db') /\ db.units \subseteq db'.units /\ Merging'
PROOF
  <1>1. Right(db) /\ IsDb(db) /\ Renaming(db) /\ RowsTyped(db)
    BY DEF Right
  <1>2. /\ db' = [db EXCEPT !.tables = @ \cup {"unified"}]
        /\ db.column = "environment" /\ "unified" \notin db.tables /\ doing' = "environments"
    BY DEF MergeEnvironmentsStart
  <1>3. /\ IsDb(db') /\ db'.tables = db.tables \cup {"unified"}
        /\ db'.accounts = db.accounts /\ db'.definitions = db.definitions /\ db'.targets = db.targets
        /\ db'.units = db.units /\ db'.configDefs = db.configDefs /\ db'.configs = db.configs
        /\ db'.unified = db.unified /\ db'.served = db.served /\ db'.column = db.column
        /\ db'.columns = db.columns /\ db'.rounds = db.rounds /\ db'.releases = db.releases
        /\ db'.cases = db.cases /\ db'.procedures = db.procedures /\ db'.reports = db.reports
        /\ db'.runs = db.runs /\ db'.results = db.results /\ db'.defects = db.defects
    BY <1>1, <1>2 DEF IsDb, Fields
  <1>4. Renaming(db')
    BY <1>1, <1>3 DEF Renaming
  <1>5. ASSUME NEW u \in DOMAIN db.runs
        PROVE  /\ IsRun(db'.runs[u]) /\ db'.runs[u].release = db.runs[u].release /\ db'.runs[u].was = db.runs[u].was
               /\ TargetFound(db', u) \/ Relinked(db', u)
               /\ ConfigFound(db', u) \/ Overlooked(db', u)
    BY <1>1, <1>3, FoundSame DEF RowsTyped
  <1>6. \A x \in DOMAIN db'.defects : db'.defects[x] \in DOMAIN db.results
    BY <1>1, <1>3, OrphansNone DEF Right, Sound
  <1>7. Merging'
    BY <1>1, <1>2, <1>3 DEF Merging, Renaming
  <1> QED  BY <1>1, <1>3, <1>4, <1>5, <1>6, <1>7, SameRight DEF SameRows

\* What a run names moves from the old tables to the new one.
LEMMA MergeRight ==
  ASSUME Right(db), Control, Merging, Merge
  PROVE  Right(db') /\ Keeping(db, db') /\ db.units \subseteq db'.units
PROOF
  <1>1. Right(db) /\ IsDb(db) /\ Renaming(db) /\ RowsTyped(db)
    BY DEF Right
  <1>2. CASE doing = "targets"
    <2>2. db' = [db EXCEPT !.units = DOMAIN db.targets, !.targets = <<>>, !.definitions = {},
                           !.tables = @ \ {"definitions", "targets"}]
      BY <1>2 DEF Merge, Merged
    <2>3. /\ IsDb(db') /\ db'.tables = db.tables \ {"definitions", "targets"} /\ db'.units = DOMAIN db.targets
          /\ db'.accounts = db.accounts /\ db'.configDefs = db.configDefs /\ db'.configs = db.configs
          /\ db'.unified = db.unified /\ db'.served = db.served /\ db'.column = db.column
          /\ db'.columns = db.columns /\ db'.rounds = db.rounds /\ db'.releases = db.releases
          /\ db'.cases = db.cases /\ db'.procedures = db.procedures /\ db'.reports = db.reports
          /\ db'.runs = db.runs /\ db'.results = db.results /\ db'.defects = db.defects
      BY <1>1, <2>2 DEF IsDb, Fields
    <2>4. Renaming(db')
      BY <1>1, <2>3 DEF Renaming
    <2>5. ASSUME NEW u \in DOMAIN db.runs
          PROVE  /\ IsRun(db'.runs[u]) /\ db'.runs[u].release = db.runs[u].release /\ db'.runs[u].was = db.runs[u].was
                 /\ TargetFound(db', u) \/ Relinked(db', u)
                 /\ ConfigFound(db', u) \/ Overlooked(db', u)
      <3>1. TargetFound(db', u)
        BY <1>2, <2>3 DEF TargetFound, Merging
      <3> QED  BY <1>1, <2>3, <3>1, FoundSame DEF RowsTyped
    <2>6. \A x \in DOMAIN db'.defects : db'.defects[x] \in DOMAIN db.results
      BY <1>1, <2>3, OrphansNone DEF Right, Sound
    <2>7. db.units = {}
      BY <1>2 DEF Merging
    <2> QED  BY <1>1, <2>3, <2>4, <2>5, <2>6, <2>7, SameRight DEF SameRows
  <1>3. CASE doing = "environments"
    <2>1. db.column = "environment" /\ db.unified = {} /\ "unified" \in db.tables
      BY <1>3 DEF Merging
    <2>2. db' = [db EXCEPT !.unified = DOMAIN db.configs, !.configs = <<>>, !.configDefs = {},
                           !.tables = @ \ {"configDefs", "configs"}]
      BY <1>3 DEF Merge, Merged
    <2>3. /\ IsDb(db') /\ db'.tables = db.tables \ {"configDefs", "configs"}
          /\ db'.unified = DOMAIN db.configs /\ db'.configs = <<>>
          /\ db'.accounts = db.accounts /\ db'.definitions = db.definitions /\ db'.targets = db.targets
          /\ db'.units = db.units /\ db'.served = db.served /\ db'.column = db.column
          /\ db'.columns = db.columns /\ db'.rounds = db.rounds /\ db'.releases = db.releases
          /\ db'.cases = db.cases /\ db'.procedures = db.procedures /\ db'.reports = db.reports
          /\ db'.runs = db.runs /\ db'.results = db.results /\ db'.defects = db.defects
      BY <1>1, <2>2 DEF IsDb, Fields
    <2>7. DOMAIN db'.configs = {}
      BY <2>3
    <2>4. Renaming(db')
      BY <1>1, <2>1, <2>3, <2>7 DEF Renaming
    <2>5. ASSUME NEW u \in DOMAIN db.runs
          PROVE  /\ IsRun(db'.runs[u]) /\ db'.runs[u].release = db.runs[u].release /\ db'.runs[u].was = db.runs[u].was
                 /\ TargetFound(db', u) \/ Relinked(db', u)
                 /\ ConfigFound(db', u) \/ Overlooked(db', u)
      <3>1. ConfigFound(db, u) \/ Overlooked(db, u)
        BY <1>1 DEF Right, Sound
      <3>2. ConfigFound(db', u) \/ Overlooked(db', u)
        BY <2>1, <2>3, <3>1 DEF ConfigFound, Overlooked
      <3> QED  BY <1>1, <2>3, <3>2, FoundSame DEF RowsTyped
    <2>6. \A x \in DOMAIN db'.defects : db'.defects[x] \in DOMAIN db.results
      BY <1>1, <2>3, OrphansNone DEF Right, Sound
    <2> QED  BY <1>1, <2>3, <2>4, <2>5, <2>6, SameRight DEF SameRows
  <1> QED  BY <1>2, <1>3 DEF Control, Merge

\* The runs that name a configuration follow it.
LEMMA EnvPrefixRight ==
  ASSUME Right(db), EnvPrefix
  PROVE  Right(db') /\ Keeping(db, db') /\ db.units \subseteq db'.units
PROOF
  <1>1. Right(db) /\ IsDb(db) /\ Renaming(db) /\ RowsTyped(db)
    BY DEF Right
  <1> DEFINE to(n) == IF n[1] = "ENV" THEN <<"TEST", n[2]>> ELSE n
             row(u) == IF db.runs[u].config \in DOMAIN db.configs
                       THEN [db.runs[u] EXCEPT !.config = to(db.runs[u].config)] ELSE db.runs[u]
             configs == Renamed([n \in DOMAIN db.configs |-> to(db.configs[n])], to)
  <1>2. /\ db.column = "environment"
        /\ db' = [db EXCEPT !.configDefs = {to(n) : n \in db.configDefs}, !.configs = configs,
                            !.runs = [u \in DOMAIN db.runs |-> row(u)]]
    BY DEF EnvPrefix, Script, Renamed, Distinct
  <1> HIDE DEF row, configs
  <1>3. /\ IsDb(db') /\ db'.configs = configs /\ db'.runs = [u \in DOMAIN db.runs |-> row(u)]
        /\ db'.accounts = db.accounts /\ db'.tables = db.tables /\ db'.definitions = db.definitions
        /\ db'.targets = db.targets /\ db'.units = db.units /\ db'.unified = db.unified
        /\ db'.served = db.served /\ db'.column = db.column /\ db'.columns = db.columns
        /\ db'.rounds = db.rounds /\ db'.releases = db.releases /\ db'.cases = db.cases
        /\ db'.procedures = db.procedures /\ db'.reports = db.reports /\ db'.results = db.results
        /\ db'.defects = db.defects
    BY <1>1, <1>2 DEF IsDb, Fields
  <1>7. DOMAIN configs = {to(n) : n \in DOMAIN db.configs}
    BY DEF configs, Renamed
  <1>4. Renaming(db')
    <2>1. \A n \in DOMAIN db'.configs : IsPair(n)
      BY <1>1, <1>3, <1>7 DEF Renaming, IsPair
    <2> QED  BY <1>1, <1>3, <2>1 DEF Renaming
  <1>5. ASSUME NEW u \in DOMAIN db.runs
        PROVE  /\ IsRun(db'.runs[u]) /\ db'.runs[u].release = db.runs[u].release /\ db'.runs[u].was = db.runs[u].was
               /\ TargetFound(db', u) \/ Relinked(db', u)
               /\ ConfigFound(db', u) \/ Overlooked(db', u)
    <2>1. IsRun(db.runs[u]) /\ db'.runs[u] = row(u) /\ (ConfigFound(db, u) \/ Overlooked(db, u))
      BY <1>1, <1>3 DEF RowsTyped, Right, Sound
    <2>2. /\ IsRun(db'.runs[u]) /\ db'.runs[u].release = db.runs[u].release /\ db'.runs[u].was = db.runs[u].was
          /\ db'.runs[u].target = db.runs[u].target
          /\ db'.runs[u].config = IF db.runs[u].config \in DOMAIN db.configs THEN to(db.runs[u].config) ELSE db.runs[u].config
      <3> HIDE DEF to
      <3> QED  BY <2>1 DEF IsRun, row
    <2>3. TargetFound(db', u) \/ Relinked(db', u)
      BY <1>1, <1>3, <2>2, FoundSame
    <2>4. ConfigFound(db', u) \/ Overlooked(db', u)
      <3> HIDE DEF to
      <3> QED  BY <1>2, <1>3, <1>7, <2>1, <2>2 DEF ConfigFound, Overlooked
    <2> QED  BY <2>2, <2>3, <2>4
  <1>6. \A x \in DOMAIN db'.defects : db'.defects[x] \in DOMAIN db.results
    BY <1>1, <1>3, OrphansNone DEF Right, Sound
  <1>8. DOMAIN db'.runs = DOMAIN db.runs
    BY <1>3
  <1> HIDE DEF to
  <1> QED  BY <1>1, <1>3, <1>4, <1>5, <1>6, <1>8, SameRight DEF SameRows

-----------------------------------------------------------------------------
\* The image of a finite set is finite, and as large if the function is one to one.
LEMMA FiniteImage ==
  ASSUME NEW S, IsFiniteSet(S), NEW f, f = [x \in S |-> f[x]], NEW T, T = {f[x] : x \in S}
  PROVE  /\ IsFiniteSet(T)
         /\ (\A x, y \in S : f[x] = f[y] => x = y) => Cardinality(T) = Cardinality(S)
PROOF
  <1>1. f \in [S -> T]
    OBVIOUS
  <1>2. f \in Surjection(S, T)
    BY <1>1 DEF Surjection
  <1>3. ASSUME \A x, y \in S : f[x] = f[y] => x = y  PROVE f \in Injection(S, T)
    BY <1>1, <1>3 DEF Injection, IsInjective
  <1> QED  BY <1>2, <1>3, FS_Surjection

\* What a script makes that renames releases (f), cases (g) and their steps (h).
Reworked(d, e, f, g, h) ==
  /\ DOMAIN f = DOMAIN d.releases /\ DOMAIN e.releases = {f[n] : n \in DOMAIN d.releases}
  /\ \A n \in DOMAIN d.releases : /\ IsRelease(e.releases[f[n]]) /\ e.releases[f[n]].was = d.releases[n].was
                                  /\ e.releases[f[n]].round \in e.rounds \cup {None}
  /\ DOMAIN g = DOMAIN d.cases /\ DOMAIN e.cases = {g[c] : c \in DOMAIN d.cases}
  /\ \A c \in DOMAIN d.cases : IsCase(e.cases[g[c]]) /\ e.cases[g[c]].was = d.cases[c].was
  /\ DOMAIN h = DOMAIN d.procedures /\ DOMAIN e.procedures = {h[p] : p \in DOMAIN d.procedures}
  /\ \A p \in DOMAIN d.procedures : e.procedures[h[p]] = g[d.procedures[p]] /\ h[p][2] = p[2]
  /\ DOMAIN e.reports = DOMAIN d.reports /\ \A x \in DOMAIN d.reports : e.reports[x] = f[d.reports[x]]
  /\ DOMAIN e.results = DOMAIN d.results
  /\ \A s \in DOMAIN d.results : /\ IsResult(e.results[s]) /\ e.results[s].run = d.results[s].run
                                 /\ e.results[s].case = g[d.results[s].case]
  /\ DOMAIN e.runs = DOMAIN d.runs
  /\ \A u \in DOMAIN d.runs : /\ IsRun(e.runs[u]) /\ e.runs[u].was = d.runs[u].was
                              /\ e.runs[u].release = f[d.runs[u].release]
                              /\ TargetFound(e, u) \/ Relinked(e, u)
                              /\ ConfigFound(e, u) \/ Overlooked(e, u)
  /\ e.defects = d.defects
  /\ Cardinality(d.rounds) <= Cardinality(e.rounds)

LEMMA ReworkedRight ==
  ASSUME NEW d, NEW e, NEW f, NEW g, NEW h, Right(d), IsDb(e), Renaming(e), Reworked(d, e, f, g, h)
  PROVE  Right(e) /\ Keeping(d, e)
PROOF
  <1>1. /\ \A s \in DOMAIN d.results : d.results[s].run \in DOMAIN d.runs /\ d.results[s].case \in DOMAIN d.cases
        /\ \A p \in DOMAIN d.procedures : d.procedures[p] \in DOMAIN d.cases
        /\ \A x \in DOMAIN d.defects : d.defects[x] \in DOMAIN d.results
        /\ \A u \in DOMAIN d.runs : d.runs[u].release \in DOMAIN d.releases
        /\ \A x \in DOMAIN d.reports : d.reports[x] \in DOMAIN d.releases
    BY OrphansNone DEF Right, Sound
  <1>2. RowsTyped(e)
    BY DEF Reworked, RowsTyped
  <1>3. \A s \in DOMAIN e.results : e.results[s].run \in DOMAIN e.runs /\ e.results[s].case \in DOMAIN e.cases
    BY <1>1 DEF Reworked
  <1>4. \A p \in DOMAIN e.procedures : e.procedures[p] \in DOMAIN e.cases
    BY <1>1 DEF Reworked
  <1>5. \A x \in DOMAIN e.defects : e.defects[x] \in DOMAIN e.results
    BY <1>1 DEF Reworked
  <1>6. \A u \in DOMAIN e.runs : e.runs[u].release \in DOMAIN e.releases
    BY <1>1 DEF Reworked
  <1>7. \A n \in DOMAIN e.releases : e.releases[n].round \in e.rounds \cup {None}
    BY DEF Reworked
  <1>8. Orphans(e) = {}
    BY <1>3, <1>4, <1>5, <1>6, <1>7, OrphansNone
  <1>9. \A x \in DOMAIN e.reports : e.reports[x] \in DOMAIN e.releases
    BY <1>1 DEF Reworked
  <1>10. \A u \in DOMAIN e.runs : (TargetFound(e, u) \/ Relinked(e, u)) /\ (ConfigFound(e, u) \/ Overlooked(e, u))
    BY DEF Reworked
  <1>11. Right(e)
    BY <1>2, <1>8, <1>9, <1>10 DEF Right, Sound
  <1>12. ASSUME NEW s \in DOMAIN d.results
         PROVE  About(e, s) = About(d, s) /\ StepsUnder(d, s) \subseteq StepsUnder(e, s)
    <2>1. d.results[s].run \in DOMAIN d.runs /\ d.results[s].case \in DOMAIN d.cases
          /\ d.runs[d.results[s].run].release \in DOMAIN d.releases
      BY <1>1
    <2>2. e.results[s].run = d.results[s].run /\ e.results[s].case = g[d.results[s].case]
      BY DEF Reworked
    <2>3. e.runs[d.results[s].run].was = d.runs[d.results[s].run].was
          /\ e.runs[d.results[s].run].release = f[d.runs[d.results[s].run].release]
      BY <2>1 DEF Reworked
    <2>4. /\ e.releases[f[d.runs[d.results[s].run].release]].was = d.releases[d.runs[d.results[s].run].release].was
          /\ e.cases[g[d.results[s].case]].was = d.cases[d.results[s].case].was
      BY <2>1 DEF Reworked
    <2>5. About(e, s) = About(d, s)
      BY <2>2, <2>3, <2>4 DEF About
    <2>6. ASSUME NEW p \in DOMAIN d.procedures, d.procedures[p] = d.results[s].case
          PROVE  p[2] \in StepsUnder(e, s)
      <3>1. h[p] \in DOMAIN e.procedures /\ e.procedures[h[p]] = e.results[s].case /\ h[p][2] = p[2]
        BY <2>2, <2>6 DEF Reworked
      <3> QED  BY <3>1 DEF StepsUnder
    <2>7. StepsUnder(d, s) \subseteq StepsUnder(e, s)
      BY <2>6 DEF StepsUnder
    <2> QED  BY <2>5, <2>7
  <1>13. DOMAIN d.results \subseteq DOMAIN e.results /\ DOMAIN d.defects \subseteq DOMAIN e.defects
         /\ Cardinality(d.rounds) <= Cardinality(e.rounds)
    BY DEF Reworked
  <1> QED  BY <1>11, <1>12, <1>13 DEF Keeping

\* A release has a round that is there, or none.
LEMMA AddRoundsRight ==
  ASSUME Right(db), AddRounds
  PROVE  Right(db') /\ Keeping(db, db') /\ db.units \subseteq db'.units
PROOF
  <1>1. Right(db) /\ IsDb(db) /\ Renaming(db) /\ RowsTyped(db)
    BY DEF Right
  <1> DEFINE known == {<<"TEST", r>> : r \in TestRounds}
             round(n) == IF n[1] \in DOMAIN RoundOf THEN <<"TEST", RoundOf[n[1]]>> ELSE db.releases[n].round
             row(n) == [db.releases[n] EXCEPT !.round = round(n)]
  <1>2. db' = [db EXCEPT !.tables = @ \cup {"rounds"}, !.rounds = @ \cup known, !.columns = @ \cup {"round"},
                         !.releases = [n \in DOMAIN db.releases |-> row(n)]]
    BY DEF AddRounds, Script
  <1> HIDE DEF row, known
  <1>3. /\ IsDb(db') /\ db'.tables = db.tables \cup {"rounds"} /\ db'.rounds = db.rounds \cup known
        /\ db'.releases = [n \in DOMAIN db.releases |-> row(n)]
        /\ db'.accounts = db.accounts /\ db'.definitions = db.definitions /\ db'.targets = db.targets
        /\ db'.units = db.units /\ db'.configDefs = db.configDefs /\ db'.configs = db.configs
        /\ db'.unified = db.unified /\ db'.served = db.served /\ db'.column = db.column
        /\ db'.cases = db.cases /\ db'.procedures = db.procedures /\ db'.reports = db.reports
        /\ db'.runs = db.runs /\ db'.results = db.results /\ db'.defects = db.defects
    BY <1>1, <1>2 DEF IsDb, Fields
  <1>4. IsFiniteSet(db'.rounds)
    <2>1. IsFiniteSet(known)
      <3> DEFINE t == [r \in TestRounds |-> <<"TEST", r>>]
      <3>1. t = [r \in TestRounds |-> t[r]] /\ known = {t[r] : r \in TestRounds}
        BY DEF known
      <3> HIDE DEF t
      <3> QED  BY <3>1, ScriptAssumption, FiniteImage
    <2>2. IsFiniteSet(db.rounds)
      BY <1>1 DEF Renaming
    <2>3. IsFiniteSet(db.rounds \cup known)
      BY <2>1, <2>2, FS_Union
    <2> QED  BY <1>3, <2>3
  <1>5. Renaming(db')
    BY <1>1, <1>3, <1>4 DEF Renaming
  <1>6. Cardinality(db.rounds) <= Cardinality(db'.rounds)
    BY <1>3, <1>4, FS_Subset
  <1> DEFINE f == [n \in DOMAIN db.releases |-> n]
             g == [c \in DOMAIN db.cases |-> c]
             h == [p \in DOMAIN db.procedures |-> p]
  <1>7. ASSUME NEW n \in DOMAIN db.releases
        PROVE  /\ IsRelease(db'.releases[n]) /\ db'.releases[n].was = db.releases[n].was
               /\ db'.releases[n].round \in db'.rounds \cup {None}
    <2>1. db'.releases[n] = row(n) /\ IsRelease(db.releases[n])
      BY <1>1, <1>3 DEF RowsTyped
    <2>2. IsRelease(row(n)) /\ row(n).was = db.releases[n].was /\ row(n).round = round(n)
      <3> HIDE DEF round
      <3> QED  BY <2>1 DEF IsRelease, row
    <2>3. round(n) \in db'.rounds \cup {None}
      <3>1. db.releases[n].round \in db.rounds \cup {None}
        BY <1>1, OrphansNone DEF Right, Sound
      <3>2. n[1] \in DOMAIN RoundOf => <<"TEST", RoundOf[n[1]]>> \in known
        BY ScriptAssumption DEF known
      <3> QED  BY <1>3, <3>1, <3>2
    <2> QED  BY <2>1, <2>2, <2>3
  <1>8. /\ \A s \in DOMAIN db.results : db.results[s].run \in DOMAIN db.runs /\ db.results[s].case \in DOMAIN db.cases
        /\ \A p \in DOMAIN db.procedures : db.procedures[p] \in DOMAIN db.cases
        /\ \A u \in DOMAIN db.runs : db.runs[u].release \in DOMAIN db.releases
        /\ \A x \in DOMAIN db.reports : db.reports[x] \in DOMAIN db.releases
    BY <1>1, OrphansNone DEF Right, Sound
  <1>9. ASSUME NEW u \in DOMAIN db.runs
        PROVE  /\ IsRun(db'.runs[u]) /\ db'.runs[u].release = f[db.runs[u].release] /\ db'.runs[u].was = db.runs[u].was
               /\ TargetFound(db', u) \/ Relinked(db', u)
               /\ ConfigFound(db', u) \/ Overlooked(db', u)
    BY <1>1, <1>3, <1>8, FoundSame DEF RowsTyped
  <1>10. /\ DOMAIN f = DOMAIN db.releases /\ \A n \in DOMAIN db.releases : f[n] = n
         /\ DOMAIN g = DOMAIN db.cases /\ \A c \in DOMAIN db.cases : g[c] = c
         /\ DOMAIN h = DOMAIN db.procedures /\ \A p \in DOMAIN db.procedures : h[p] = p
    OBVIOUS
  <1>11. DOMAIN db'.releases = DOMAIN db.releases
    BY <1>3
  <1> HIDE DEF f, g, h
  <1>12. Reworked(db, db', f, g, h)
    <2>1. /\ DOMAIN db'.releases = {f[n] : n \in DOMAIN db.releases}
          /\ \A n \in DOMAIN db.releases : /\ IsRelease(db'.releases[f[n]]) /\ db'.releases[f[n]].was = db.releases[n].was
                                           /\ db'.releases[f[n]].round \in db'.rounds \cup {None}
      BY <1>7, <1>10, <1>11
    <2>2. /\ DOMAIN db'.cases = {g[c] : c \in DOMAIN db.cases}
          /\ \A c \in DOMAIN db.cases : IsCase(db'.cases[g[c]]) /\ db'.cases[g[c]].was = db.cases[c].was
      BY <1>1, <1>3, <1>10 DEF RowsTyped
    <2>3. /\ DOMAIN db'.procedures = {h[p] : p \in DOMAIN db.procedures}
          /\ \A p \in DOMAIN db.procedures : db'.procedures[h[p]] = g[db.procedures[p]] /\ h[p][2] = p[2]
      BY <1>3, <1>8, <1>10
    <2>4. /\ \A x \in DOMAIN db.reports : db'.reports[x] = f[db.reports[x]]
          /\ \A s \in DOMAIN db.results : /\ IsResult(db'.results[s]) /\ db'.results[s].run = db.results[s].run
                                          /\ db'.results[s].case = g[db.results[s].case]
      BY <1>1, <1>3, <1>8, <1>10 DEF RowsTyped
    <2> QED  BY <1>3, <1>6, <1>9, <1>10, <2>1, <2>2, <2>3, <2>4 DEF Reworked
  <1>13. Right(db') /\ Keeping(db, db')
    BY <1>1, <1>3, <1>5, <1>12, ReworkedRight
  <1> QED  BY <1>3, <1>13

\* Releases that are renamed keep apart, and runs and reports follow them.
LEMMA ApToRouterRight ==
  ASSUME Right(db), ApToRouter
  PROVE  Right(db') /\ Keeping(db, db') /\ db.units \subseteq db'.units
PROOF
  <1>1. Right(db) /\ IsDb(db) /\ Renaming(db) /\ RowsTyped(db)
    BY DEF Right
  <1> DEFINE D == DOMAIN db.releases
             pick(n) == CHOOSE old \in D : Router(old) = n
             run(u) == [db.runs[u] EXCEPT !.release = Router(db.runs[u].release)]
             result(s) == [db.results[s] EXCEPT !.combo = IF db.results[s].combo = "" THEN "" ELSE Normal[db.results[s].combo]]
  <1>2. /\ \A m, n \in D : Router(m) = Router(n) => m = n
        /\ db' = [db EXCEPT !.releases = [n \in {Router(old) : old \in D} |-> db.releases[pick(n)]],
                            !.runs = [u \in DOMAIN db.runs |-> run(u)],
                            !.reports = [x \in DOMAIN db.reports |-> Router(db.reports[x])],
                            !.results = [s \in DOMAIN db.results |-> result(s)]]
    BY DEF ApToRouter, Script, Renamed, Distinct
  <1> DEFINE f == [n \in D |-> Router(n)]
             g == [c \in DOMAIN db.cases |-> c]
             h == [p \in DOMAIN db.procedures |-> p]
  <1>3. ASSUME NEW n \in D  PROVE pick(Router(n)) = n
    <2>1. pick(Router(n)) \in D /\ Router(pick(Router(n))) = Router(n)
      OBVIOUS
    <2> QED  BY <1>2, <2>1
  <1> HIDE DEF run, result, pick
  <1>4. /\ IsDb(db') /\ db'.releases = [n \in {Router(old) : old \in D} |-> db.releases[pick(n)]]
        /\ db'.runs = [u \in DOMAIN db.runs |-> run(u)]
        /\ db'.reports = [x \in DOMAIN db.reports |-> Router(db.reports[x])]
        /\ db'.results = [s \in DOMAIN db.results |-> result(s)]
        /\ db'.accounts = db.accounts /\ db'.tables = db.tables /\ db'.definitions = db.definitions
        /\ db'.targets = db.targets /\ db'.units = db.units /\ db'.configDefs = db.configDefs
        /\ db'.configs = db.configs /\ db'.unified = db.unified /\ db'.served = db.served
        /\ db'.column = db.column /\ db'.columns = db.columns /\ db'.rounds = db.rounds
        /\ db'.cases = db.cases /\ db'.procedures = db.procedures /\ db'.defects = db.defects
    BY <1>1, <1>2 DEF IsDb, Fields
  <1>5. Renaming(db')
    BY <1>1, <1>4 DEF Renaming
  <1>6. Cardinality(db.rounds) <= Cardinality(db'.rounds)
    <2>1. Cardinality(db.rounds) \in Nat
      BY <1>1, FS_CardinalityType DEF Renaming
    <2> QED  BY <1>4, <2>1
  <1>8. /\ \A s \in DOMAIN db.results : db.results[s].run \in DOMAIN db.runs /\ db.results[s].case \in DOMAIN db.cases
        /\ \A p \in DOMAIN db.procedures : db.procedures[p] \in DOMAIN db.cases
        /\ \A u \in DOMAIN db.runs : db.runs[u].release \in DOMAIN db.releases
        /\ \A x \in DOMAIN db.reports : db.reports[x] \in DOMAIN db.releases
        /\ \A n \in DOMAIN db.releases : db.releases[n].round \in db.rounds \cup {None}
    BY <1>1, OrphansNone DEF Right, Sound
  <1>10. /\ DOMAIN f = D /\ \A n \in D : f[n] = Router(n)
         /\ DOMAIN g = DOMAIN db.cases /\ \A c \in DOMAIN db.cases : g[c] = c
         /\ DOMAIN h = DOMAIN db.procedures /\ \A p \in DOMAIN db.procedures : h[p] = p
    OBVIOUS
  <1> HIDE DEF f, g, h
  <1>7. DOMAIN db'.releases = {f[n] : n \in D} /\ \A n \in D : db'.releases[f[n]] = db.releases[n]
    <2> HIDE DEF D
    <2>1. DOMAIN db'.releases = {Router(old) : old \in D}
      BY <1>4
    <2>2. \A n \in D : db'.releases[Router(n)] = db.releases[n]
      BY <1>3, <1>4
    <2> QED  BY <1>10, <2>1, <2>2
  <1>9. ASSUME NEW u \in DOMAIN db.runs
        PROVE  /\ IsRun(db'.runs[u]) /\ db'.runs[u].release = f[db.runs[u].release] /\ db'.runs[u].was = db.runs[u].was
               /\ TargetFound(db', u) \/ Relinked(db', u)
               /\ ConfigFound(db', u) \/ Overlooked(db', u)
    <2>1. IsRun(db.runs[u]) /\ db'.runs[u] = run(u)
      BY <1>1, <1>4 DEF RowsTyped
    <2>2. /\ IsRun(db'.runs[u]) /\ db'.runs[u].release = Router(db.runs[u].release) /\ db'.runs[u].was = db.runs[u].was
          /\ db'.runs[u].target = db.runs[u].target /\ db'.runs[u].config = db.runs[u].config
      BY <2>1 DEF IsRun, run
    <2>3. (TargetFound(db', u) \/ Relinked(db', u)) /\ (ConfigFound(db', u) \/ Overlooked(db', u))
      <3>1. /\ db'.units = db.units /\ db'.targets = db.targets /\ db'.configs = db.configs
            /\ db'.column = db.column /\ db'.unified = db.unified /\ db'.served = db.served
        BY <1>4
      <3> QED  BY <1>1, <2>2, <3>1, FoundSame
    <2>4. f[db.runs[u].release] = Router(db.runs[u].release)
      BY <1>8, <1>10
    <2> QED  BY <2>2, <2>3, <2>4
  <1>11. ASSUME NEW s \in DOMAIN db.results
         PROVE  /\ IsResult(db'.results[s]) /\ db'.results[s].run = db.results[s].run
                /\ db'.results[s].case = db.results[s].case
    <2>1. IsResult(db.results[s]) /\ db'.results[s] = result(s)
      BY <1>1, <1>4 DEF RowsTyped
    <2> QED  BY <2>1 DEF IsResult, result
  <1>12. Reworked(db, db', f, g, h)
    <2>1. /\ DOMAIN db'.releases = {f[n] : n \in D}
          /\ \A n \in D : /\ IsRelease(db'.releases[f[n]]) /\ db'.releases[f[n]].was = db.releases[n].was
                          /\ db'.releases[f[n]].round \in db'.rounds \cup {None}
      BY <1>1, <1>4, <1>7, <1>8 DEF RowsTyped
    <2>2. /\ DOMAIN db'.cases = {g[c] : c \in DOMAIN db.cases}
          /\ \A c \in DOMAIN db.cases : IsCase(db'.cases[g[c]]) /\ db'.cases[g[c]].was = db.cases[c].was
      BY <1>1, <1>4, <1>10 DEF RowsTyped
    <2>3. /\ DOMAIN db'.procedures = {h[p] : p \in DOMAIN db.procedures}
          /\ \A p \in DOMAIN db.procedures : db'.procedures[h[p]] = g[db.procedures[p]] /\ h[p][2] = p[2]
      BY <1>4, <1>8, <1>10
    <2>4. /\ \A x \in DOMAIN db.reports : db'.reports[x] = f[db.reports[x]]
          /\ \A s \in DOMAIN db.results : /\ IsResult(db'.results[s]) /\ db'.results[s].run = db.results[s].run
                                          /\ db'.results[s].case = g[db.results[s].case]
      <3>1. ASSUME NEW x \in DOMAIN db.reports  PROVE db'.reports[x] = f[db.reports[x]]
        <4>1. f[db.reports[x]] = Router(db.reports[x])
          BY <1>8, <1>10
        <4> QED  BY <1>4, <4>1
      <3> QED  BY <1>8, <1>10, <1>11, <3>1
    <2>5. DOMAIN db'.reports = DOMAIN db.reports /\ DOMAIN db'.results = DOMAIN db.results
          /\ DOMAIN db'.runs = DOMAIN db.runs
      BY <1>4
    <2> QED  BY <1>4, <1>6, <1>9, <1>10, <2>1, <2>2, <2>3, <2>4, <2>5 DEF Reworked
  <1>13. Right(db') /\ Keeping(db, db')
    BY <1>1, <1>4, <1>5, <1>12, ReworkedRight
  <1> QED  BY <1>4, <1>13

\* Cases that are renamed (g) keep apart, and results and steps follow them.
LEMMA MovedRight ==
  ASSUME NEW d, NEW e, NEW g, Right(d), IsDb(e), DOMAIN g = DOMAIN d.cases,
         DOMAIN e.cases = {g[c] : c \in DOMAIN d.cases},
         \A c \in DOMAIN d.cases : e.cases[g[c]] = d.cases[c],
         e.results = [s \in DOMAIN d.results |-> [d.results[s] EXCEPT !.case = g[d.results[s].case]]],
         e.procedures = [p \in DOMAIN d.procedures |-> g[d.procedures[p]]],
         e.accounts = d.accounts, e.tables = d.tables, e.definitions = d.definitions,
         e.targets = d.targets, e.units = d.units, e.configDefs = d.configDefs, e.configs = d.configs,
         e.unified = d.unified, e.served = d.served, e.column = d.column, e.columns = d.columns,
         e.rounds = d.rounds, e.releases = d.releases, e.reports = d.reports, e.runs = d.runs,
         e.defects = d.defects
  PROVE  Right(e) /\ Keeping(d, e)
PROOF
  <1>1. Renaming(e)
    BY DEF Right, Renaming
  <1> DEFINE f == [n \in DOMAIN d.releases |-> n]
             h == [p \in DOMAIN d.procedures |-> p]
  <1>2. /\ DOMAIN f = DOMAIN d.releases /\ \A n \in DOMAIN d.releases : f[n] = n
        /\ DOMAIN h = DOMAIN d.procedures /\ \A p \in DOMAIN d.procedures : h[p] = p
    OBVIOUS
  <1> HIDE DEF f, h
  <1>3. /\ \A s \in DOMAIN d.results : d.results[s].run \in DOMAIN d.runs /\ d.results[s].case \in DOMAIN d.cases
        /\ \A p \in DOMAIN d.procedures : d.procedures[p] \in DOMAIN d.cases
        /\ \A u \in DOMAIN d.runs : d.runs[u].release \in DOMAIN d.releases
        /\ \A x \in DOMAIN d.reports : d.reports[x] \in DOMAIN d.releases
        /\ \A n \in DOMAIN d.releases : d.releases[n].round \in d.rounds \cup {None}
    BY OrphansNone DEF Right, Sound
  <1>4. /\ DOMAIN e.releases = {f[n] : n \in DOMAIN d.releases}
        /\ \A n \in DOMAIN d.releases : /\ IsRelease(e.releases[f[n]]) /\ e.releases[f[n]].was = d.releases[n].was
                                        /\ e.releases[f[n]].round \in e.rounds \cup {None}
    BY <1>2, <1>3 DEF Right, RowsTyped
  <1>5. \A c \in DOMAIN d.cases : IsCase(e.cases[g[c]]) /\ e.cases[g[c]].was = d.cases[c].was
    BY DEF Right, RowsTyped
  <1>6. /\ DOMAIN e.procedures = {h[p] : p \in DOMAIN d.procedures}
        /\ \A p \in DOMAIN d.procedures : e.procedures[h[p]] = g[d.procedures[p]] /\ h[p][2] = p[2]
    BY <1>2
  <1>7. ASSUME NEW s \in DOMAIN d.results
        PROVE  /\ IsResult(e.results[s]) /\ e.results[s].run = d.results[s].run
               /\ e.results[s].case = g[d.results[s].case]
    <2>1. IsResult(d.results[s]) /\ e.results[s] = [d.results[s] EXCEPT !.case = g[d.results[s].case]]
      BY DEF Right, RowsTyped
    <2> QED  BY <2>1 DEF IsResult
  <1>8. ASSUME NEW u \in DOMAIN d.runs
        PROVE  /\ IsRun(e.runs[u]) /\ e.runs[u].was = d.runs[u].was /\ e.runs[u].release = f[d.runs[u].release]
               /\ TargetFound(e, u) \/ Relinked(e, u)
               /\ ConfigFound(e, u) \/ Overlooked(e, u)
    <2>1. IsRun(e.runs[u]) /\ e.runs[u].release = f[d.runs[u].release]
      BY <1>2, <1>3 DEF Right, RowsTyped
    <2>2. (TargetFound(e, u) \/ Relinked(e, u)) /\ (ConfigFound(e, u) \/ Overlooked(e, u))
      BY FoundSame
    <2> QED  BY <2>1, <2>2
  <1>9. Cardinality(d.rounds) <= Cardinality(e.rounds)
    <2>1. Cardinality(d.rounds) \in Nat
      BY FS_CardinalityType DEF Right, Renaming
    <2> QED  BY <2>1
  <1>10. \A x \in DOMAIN d.reports : e.reports[x] = f[d.reports[x]]
    BY <1>2, <1>3
  <1>11. DOMAIN e.results = DOMAIN d.results
    OBVIOUS
  <1>12. Reworked(d, e, f, g, h)
    BY <1>2, <1>4, <1>5, <1>6, <1>7, <1>8, <1>9, <1>10, <1>11 DEF Reworked
  <1> QED  BY <1>1, <1>12, ReworkedRight

\* Proposed names that are taken are left out.
LEMMA CasesByTopologyRight ==
  ASSUME Right(db), CasesByTopology
  PROVE  Right(db') /\ Keeping(db, db') /\ db.units \subseteq db'.units
PROOF
  <1>1. Right(db) /\ IsDb(db) /\ Renaming(db) /\ RowsTyped(db)
    BY DEF Right
  <1> DEFINE D == DOMAIN db.cases
             to(c) == IF Proposal(c) \in DOMAIN db.cases THEN c ELSE Proposal(c)
             pick(n) == CHOOSE old \in D : to(old) = n
  <1>2. /\ \A m, n \in D : to(m) = to(n) => m = n
        /\ db' = [db EXCEPT !.cases = [n \in {to(old) : old \in D} |-> db.cases[pick(n)]],
                            !.results = [s \in DOMAIN db.results |-> [db.results[s] EXCEPT !.case = to(db.results[s].case)]],
                            !.procedures = [p \in DOMAIN db.procedures |-> to(db.procedures[p])]]
    BY DEF CasesByTopology, Script, Moved, Renamed, Distinct
  <1>3. ASSUME NEW c \in D  PROVE pick(to(c)) = c
    <2>1. pick(to(c)) \in D /\ to(pick(to(c))) = to(c)
      <3> HIDE DEF to
      <3> QED  OBVIOUS
    <2> HIDE DEF to, pick
    <2> QED  BY <1>2, <2>1
  <1> DEFINE g == [c \in D |-> to(c)]
  <1> HIDE DEF pick, to
  <1>4. /\ \A c \in D : g[c] = to(c)
        /\ \A s \in DOMAIN db.results : db.results[s].case \in D
        /\ \A p \in DOMAIN db.procedures : db.procedures[p] \in D
    BY <1>1, OrphansNone DEF Right, Sound
  <1>5. /\ IsDb(db') /\ db'.cases = [n \in {to(old) : old \in D} |-> db.cases[pick(n)]]
        /\ db'.results = [s \in DOMAIN db.results |-> [db.results[s] EXCEPT !.case = to(db.results[s].case)]]
        /\ db'.procedures = [p \in DOMAIN db.procedures |-> to(db.procedures[p])]
        /\ db'.accounts = db.accounts /\ db'.tables = db.tables /\ db'.definitions = db.definitions
        /\ db'.targets = db.targets /\ db'.units = db.units /\ db'.configDefs = db.configDefs
        /\ db'.configs = db.configs /\ db'.unified = db.unified /\ db'.served = db.served
        /\ db'.column = db.column /\ db'.columns = db.columns /\ db'.rounds = db.rounds
        /\ db'.releases = db.releases /\ db'.reports = db.reports /\ db'.runs = db.runs
        /\ db'.defects = db.defects
    BY <1>1, <1>2 DEF IsDb, Fields
  <1>6. /\ db'.results = [s \in DOMAIN db.results |-> [db.results[s] EXCEPT !.case = g[db.results[s].case]]]
        /\ db'.procedures = [p \in DOMAIN db.procedures |-> g[db.procedures[p]]]
    <2> HIDE DEF g, D
    <2> QED  BY <1>4, <1>5
  <1>7. DOMAIN g = D /\ DOMAIN db'.cases = {g[c] : c \in D} /\ \A c \in D : db'.cases[g[c]] = db.cases[c]
    <2>1. DOMAIN db'.cases = {to(old) : old \in D}
      BY <1>5
    <2>2. \A c \in D : db'.cases[to(c)] = db.cases[c]
      BY <1>3, <1>5
    <2>3. DOMAIN g = D
      OBVIOUS
    <2> HIDE DEF g
    <2> QED  BY <1>4, <2>1, <2>2, <2>3
  <1> HIDE DEF g
  <1>8. Right(db') /\ Keeping(db, db')
    BY <1>1, <1>5, <1>6, <1>7, MovedRight
  <1> QED  BY <1>5, <1>8

\* Numbers keep the new names apart.
LEMMA FixAbnormalCasesRight ==
  ASSUME Right(db), FixAbnormalCases
  PROVE  Right(db') /\ Keeping(db, db') /\ db.units \subseteq db'.units
PROOF
  <1>1. Right(db) /\ IsDb(db) /\ Renaming(db) /\ RowsTyped(db)
    BY DEF Right
  <1> DEFINE D == DOMAIN db.cases
             deprecated == {c \in DOMAIN db.cases : c[1] = "DEPRECATED"}
             known      == {c \in DOMAIN db.cases : c[1] \notin {"TEST", "DEPRECATED"}} \ {Placeholder}
             abnormal(r)   == known \cup (IF r THEN deprecated ELSE {})
             topology(r)   == [c \in abnormal(r) |-> Commonest(c)]
             name(r, c, n) == <<"TEST", topology(r)[c],
                                IF c \in deprecated THEN <<"HDC", "DHCP", n>> ELSE <<"HRK", Scenario[c], n>>>>
  <1>9. PICK r \in BOOLEAN : \E number \in [abnormal(r) -> 1 .. 1 + Cardinality(DOMAIN db.cases)] :
          LET to(c) == IF c \in abnormal(r) THEN name(r, c, number[c]) ELSE c
          IN  Distinct(DOMAIN db.cases, to) /\ Script(Moved(db, to))
    BY DEF FixAbnormalCases
  <1>10. PICK number \in [abnormal(r) -> 1 .. 1 + Cardinality(DOMAIN db.cases)] :
          LET to(c) == IF c \in abnormal(r) THEN name(r, c, number[c]) ELSE c
          IN  Distinct(DOMAIN db.cases, to) /\ Script(Moved(db, to))
    BY <1>9
  <1> DEFINE to(c) == IF c \in abnormal(r) THEN name(r, c, number[c]) ELSE c
             pick(n) == CHOOSE old \in D : to(old) = n
  <1>2. /\ \A m, n \in D : to(m) = to(n) => m = n
        /\ db' = [db EXCEPT !.cases = [n \in {to(old) : old \in D} |-> db.cases[pick(n)]],
                            !.results = [s \in DOMAIN db.results |-> [db.results[s] EXCEPT !.case = to(db.results[s].case)]],
                            !.procedures = [p \in DOMAIN db.procedures |-> to(db.procedures[p])]]
    BY <1>10 DEF Script, Moved, Renamed, Distinct
  <1>3. ASSUME NEW c \in D  PROVE pick(to(c)) = c
    <2>1. pick(to(c)) \in D /\ to(pick(to(c))) = to(c)
      <3> HIDE DEF to
      <3> QED  OBVIOUS
    <2> HIDE DEF to, pick
    <2> QED  BY <1>2, <2>1
  <1> DEFINE g == [c \in D |-> to(c)]
  <1> HIDE DEF pick, to
  <1>4. /\ \A c \in D : g[c] = to(c)
        /\ \A s \in DOMAIN db.results : db.results[s].case \in D
        /\ \A p \in DOMAIN db.procedures : db.procedures[p] \in D
    BY <1>1, OrphansNone DEF Right, Sound
  <1>5. /\ IsDb(db') /\ db'.cases = [n \in {to(old) : old \in D} |-> db.cases[pick(n)]]
        /\ db'.results = [s \in DOMAIN db.results |-> [db.results[s] EXCEPT !.case = to(db.results[s].case)]]
        /\ db'.procedures = [p \in DOMAIN db.procedures |-> to(db.procedures[p])]
        /\ db'.accounts = db.accounts /\ db'.tables = db.tables /\ db'.definitions = db.definitions
        /\ db'.targets = db.targets /\ db'.units = db.units /\ db'.configDefs = db.configDefs
        /\ db'.configs = db.configs /\ db'.unified = db.unified /\ db'.served = db.served
        /\ db'.column = db.column /\ db'.columns = db.columns /\ db'.rounds = db.rounds
        /\ db'.releases = db.releases /\ db'.reports = db.reports /\ db'.runs = db.runs
        /\ db'.defects = db.defects
    BY <1>1, <1>2 DEF IsDb, Fields
  <1>6. /\ db'.results = [s \in DOMAIN db.results |-> [db.results[s] EXCEPT !.case = g[db.results[s].case]]]
        /\ db'.procedures = [p \in DOMAIN db.procedures |-> g[db.procedures[p]]]
    <2> HIDE DEF g, D
    <2> QED  BY <1>4, <1>5
  <1>7. DOMAIN g = D /\ DOMAIN db'.cases = {g[c] : c \in D} /\ \A c \in D : db'.cases[g[c]] = db.cases[c]
    <2>1. DOMAIN db'.cases = {to(old) : old \in D}
      BY <1>5
    <2>2. \A c \in D : db'.cases[to(c)] = db.cases[c]
      BY <1>3, <1>5
    <2>3. DOMAIN g = D
      OBVIOUS
    <2> HIDE DEF g
    <2> QED  BY <1>4, <2>1, <2>2, <2>3
  <1> HIDE DEF g
  <1>8. Right(db') /\ Keeping(db, db')
    BY <1>1, <1>5, <1>6, <1>7, MovedRight
  <1> QED  BY <1>5, <1>8

\* Names of two parts keep them, and a prefix that is gone is not taken off again.
LEMMA StrippedPair ==
  ASSUME NEW n, IsPair(n)
  PROVE  IsPair(Stripped(n)) /\ Stripped(Stripped(n)) = Stripped(n)
PROOF
  <1> DEFINE m == [n EXCEPT ![1] = "BARE"]
  <1>1. m = <<"BARE", n[2]>>
    BY DEF IsPair
  <1>2. CASE n # None /\ n[1] = "TEST"
    <2>1. Stripped(n) = <<"BARE", n[2]>>
      BY <1>1, <1>2 DEF Stripped
    <2> QED  BY <2>1 DEF Stripped, IsPair
  <1>3. CASE ~(n # None /\ n[1] = "TEST")
    BY <1>3 DEF Stripped
  <1> QED  BY <1>2, <1>3

\* What is named and what names it lose the prefix; a configuration in a merged table keeps it.
LEMMA StripPrefixRight ==
  ASSUME Right(db), StripPrefix
  PROVE  Right(db') /\ Keeping(db, db') /\ db.units \subseteq db'.units
PROOF
  <1>1. Right(db) /\ IsDb(db) /\ Renaming(db) /\ RowsTyped(db)
    BY DEF Right
  <1> DEFINE step(p) == <<Stripped(p[1]), p[2]>>
             R == DOMAIN db.releases
             C == DOMAIN db.cases
             P == DOMAIN db.procedures
             caseOf(n) == CHOOSE old \in C : Stripped(old) = n
             stepOf(n) == CHOOSE old \in P : step(old) = n
             moved == [p \in P |-> Stripped(db.procedures[p])]
             release(n) == [db.releases[n] EXCEPT !.round = Stripped(db.releases[n].round)]
             run(u) == [db.runs[u] EXCEPT !.config = Stripped(db.runs[u].config)]
             result(s) == [db.results[s] EXCEPT !.case = Stripped(db.results[s].case)]
             cases == Renamed(db.cases, Stripped)
             procedures == Renamed(moved, step)
             configs == Renamed([n \in DOMAIN db.configs |-> Stripped(db.configs[n])], Stripped)
  <1>2. /\ db.column = "environment"
        /\ \A m, n \in C : Stripped(m) = Stripped(n) => m = n
        /\ \A m, n \in db.rounds : Stripped(m) = Stripped(n) => m = n
        /\ \A m, n \in P : step(m) = step(n) => m = n
    BY DEF StripPrefix, Distinct
  <1>3. db' = [Moved(db, Stripped) EXCEPT
                 !.procedures = procedures,
                 !.rounds     = {Stripped(r) : r \in db.rounds},
                 !.releases   = [n \in R |-> release(n)],
                 !.configDefs = {Stripped(n) : n \in db.configDefs},
                 !.configs    = configs,
                 !.runs       = [u \in DOMAIN db.runs |-> run(u)]]
    BY <1>1 DEF IsDb, Fields, StripPrefix, Script, Distinct, Moved, Renamed
  <1> HIDE DEF release, run, result, cases, procedures, configs
  <1> DEFINE M == Moved(db, Stripped)
             results == [s \in DOMAIN db.results |-> result(s)]
             rounds == {Stripped(r) : r \in db.rounds}
  <1>4. M = [db EXCEPT !.cases = cases, !.results = results, !.procedures = moved]
    BY DEF Moved, Renamed, cases, result
  <1> HIDE DEF M, results, moved
  <1>5. /\ IsDb(M) /\ M.cases = cases /\ M.results = results
        /\ M.accounts = db.accounts /\ M.tables = db.tables /\ M.definitions = db.definitions
        /\ M.targets = db.targets /\ M.units = db.units /\ M.configDefs = db.configDefs
        /\ M.configs = db.configs /\ M.unified = db.unified /\ M.served = db.served
        /\ M.column = db.column /\ M.columns = db.columns /\ M.rounds = db.rounds
        /\ M.releases = db.releases /\ M.reports = db.reports /\ M.runs = db.runs
        /\ M.defects = db.defects
    BY <1>1, <1>4 DEF IsDb, Fields
  <1>6. db' = [M EXCEPT !.procedures = procedures, !.rounds = rounds, !.releases = [n \in R |-> release(n)],
                        !.configDefs = {Stripped(n) : n \in db.configDefs}, !.configs = configs,
                        !.runs = [u \in DOMAIN db.runs |-> run(u)]]
    BY <1>3 DEF M
  <1> HIDE DEF rounds
  <1>7. /\ IsDb(db') /\ db'.procedures = procedures /\ db'.rounds = rounds /\ db'.releases = [n \in R |-> release(n)]
        /\ db'.configs = configs /\ db'.runs = [u \in DOMAIN db.runs |-> run(u)]
        /\ db'.accounts = M.accounts /\ db'.tables = M.tables /\ db'.definitions = M.definitions
        /\ db'.targets = M.targets /\ db'.units = M.units /\ db'.unified = M.unified
        /\ db'.served = M.served /\ db'.column = M.column /\ db'.columns = M.columns
        /\ db'.cases = M.cases /\ db'.reports = M.reports /\ db'.results = M.results
        /\ db'.defects = M.defects
    BY <1>5, <1>6 DEF IsDb, Fields
  <1>8. /\ db'.cases = cases /\ db'.results = results
        /\ db'.accounts = db.accounts /\ db'.tables = db.tables /\ db'.definitions = db.definitions
        /\ db'.targets = db.targets /\ db'.units = db.units /\ db'.unified = db.unified
        /\ db'.served = db.served /\ db'.column = db.column /\ db'.columns = db.columns
        /\ db'.reports = db.reports /\ db'.defects = db.defects
    BY <1>5, <1>7
  <1>9. /\ \A s \in DOMAIN db.results : db.results[s].run \in DOMAIN db.runs /\ db.results[s].case \in C
        /\ \A p \in P : db.procedures[p] \in C
        /\ \A u \in DOMAIN db.runs : db.runs[u].release \in R
        /\ \A x \in DOMAIN db.reports : db.reports[x] \in R
        /\ \A n \in R : db.releases[n].round \in db.rounds \cup {None}
    BY <1>1, OrphansNone DEF Right, Sound
  <1>10. IsFiniteSet(db'.rounds) /\ Cardinality(db.rounds) <= Cardinality(db'.rounds)
    <2> DEFINE t == [r \in db.rounds |-> Stripped(r)]
    <2>1. t = [r \in db.rounds |-> t[r]] /\ rounds = {t[r] : r \in db.rounds} /\ \A r \in db.rounds : t[r] = Stripped(r)
      BY DEF rounds
    <2> HIDE DEF t
    <2>2. IsFiniteSet(db.rounds)
      BY <1>1 DEF Renaming
    <2>3. IsFiniteSet(rounds) /\ Cardinality(rounds) = Cardinality(db.rounds)
      BY <1>2, <2>1, <2>2, FiniteImage
    <2>4. Cardinality(db.rounds) \in Nat
      BY <2>2, FS_CardinalityType
    <2> QED  BY <1>7, <2>3, <2>4
  <1>11. DOMAIN configs = {Stripped(n) : n \in DOMAIN db.configs}
    BY DEF configs, Renamed
  <1>12. Renaming(db')
    <2>1. \A n \in DOMAIN db'.configs : IsPair(n)
      BY <1>1, <1>7, <1>11, StrippedPair DEF Renaming
    <2> QED  BY <1>1, <1>8, <1>10, <2>1 DEF Renaming
  <1> DEFINE f == [n \in R |-> n]
             g == [c \in C |-> Stripped(c)]
             h == [p \in P |-> step(p)]
  <1>13. /\ DOMAIN f = R /\ \A n \in R : f[n] = n
         /\ DOMAIN g = C /\ \A c \in C : g[c] = Stripped(c)
         /\ DOMAIN h = P /\ \A p \in P : h[p] = step(p)
    OBVIOUS
  <1> HIDE DEF f, g, h
  <1>14. DOMAIN cases = {Stripped(old) : old \in C} /\ \A c \in C : cases[Stripped(c)] = db.cases[c]
    <2>1. cases = [n \in {Stripped(old) : old \in C} |-> db.cases[caseOf(n)]]
      BY DEF cases, Renamed
    <2>2. ASSUME NEW c \in C  PROVE caseOf(Stripped(c)) = c
      <3>1. caseOf(Stripped(c)) \in C /\ Stripped(caseOf(Stripped(c))) = Stripped(c)
        OBVIOUS
      <3> QED  BY <1>2, <3>1
    <2> HIDE DEF caseOf
    <2> QED  BY <2>1, <2>2
  <1>15. DOMAIN procedures = {step(old) : old \in P} /\ \A p \in P : procedures[step(p)] = Stripped(db.procedures[p])
    <2>1. DOMAIN moved = P /\ \A p \in P : moved[p] = Stripped(db.procedures[p])
      BY DEF moved
    <2>2. procedures = [n \in {step(old) : old \in P} |-> moved[stepOf(n)]]
      BY <2>1 DEF procedures, Renamed
    <2>3. ASSUME NEW p \in P  PROVE stepOf(step(p)) = p
      <3>1. stepOf(step(p)) \in P /\ step(stepOf(step(p))) = step(p)
        <4> HIDE DEF step
        <4> QED  OBVIOUS
      <3> HIDE DEF step, stepOf
      <3> QED  BY <1>2, <3>1
    <2> HIDE DEF stepOf, step
    <2> QED  BY <2>1, <2>2, <2>3
  <1>16. ASSUME NEW n \in R
         PROVE  /\ IsRelease(db'.releases[n]) /\ db'.releases[n].was = db.releases[n].was
                /\ db'.releases[n].round \in db'.rounds \cup {None}
    <2>1. IsRelease(db.releases[n]) /\ db'.releases[n] = release(n)
      BY <1>1, <1>7 DEF RowsTyped
    <2>2. /\ IsRelease(db'.releases[n]) /\ db'.releases[n].was = db.releases[n].was
          /\ db'.releases[n].round = Stripped(db.releases[n].round)
      BY <2>1 DEF IsRelease, release
    <2>3. Stripped(None) = None
      BY DEF Stripped
    <2> QED  BY <1>7, <1>9, <2>2, <2>3 DEF rounds
  <1>17. ASSUME NEW u \in DOMAIN db.runs
         PROVE  /\ IsRun(db'.runs[u]) /\ db'.runs[u].was = db.runs[u].was /\ db'.runs[u].release = f[db.runs[u].release]
                /\ TargetFound(db', u) \/ Relinked(db', u)
                /\ ConfigFound(db', u) \/ Overlooked(db', u)
    <2>1. IsRun(db.runs[u]) /\ db'.runs[u] = run(u) /\ (ConfigFound(db, u) \/ Overlooked(db, u))
      BY <1>1, <1>7 DEF RowsTyped, Right, Sound
    <2>2. /\ IsRun(db'.runs[u]) /\ db'.runs[u].release = db.runs[u].release /\ db'.runs[u].was = db.runs[u].was
          /\ db'.runs[u].target = db.runs[u].target /\ db'.runs[u].config = Stripped(db.runs[u].config)
      BY <2>1 DEF IsRun, run
    <2>3. db'.units = db.units /\ db'.targets = db.targets
      BY <1>8
    <2>4. TargetFound(db', u) \/ Relinked(db', u)
      BY <1>1, <2>2, <2>3, FoundSame
    <2>5. db'.column = "environment" /\ db'.unified = db.unified /\ db'.served = db.served /\ db'.configs = configs
      BY <1>2, <1>7, <1>8
    <2>6. ASSUME db.runs[u].config \in DOMAIN db.configs  PROVE ConfigFound(db', u) \/ Overlooked(db', u)
      <3>1. db'.runs[u].config \in DOMAIN db'.configs
        BY <1>11, <2>2, <2>5, <2>6
      <3> QED  BY <3>1 DEF ConfigFound
    <2>7. ASSUME db.runs[u].config \in db.unified  PROVE ConfigFound(db', u) \/ Overlooked(db', u)
      <3>1. db.runs[u].config \in db'.unified \cup db'.served /\ db'.runs[u].config = Stripped(db.runs[u].config)
        BY <2>2, <2>5, <2>7
      <3> QED  BY <3>1 DEF Overlooked
    <2>8. ASSUME Overlooked(db, u)  PROVE ConfigFound(db', u) \/ Overlooked(db', u)
      <3>1. PICK n \in db.unified \cup db.served : db.runs[u].config = Stripped(n)
        BY <2>8 DEF Overlooked
      <3>2. IsPair(n)
        BY <1>1 DEF Renaming
      <3>3. db'.runs[u].config = Stripped(n)
        BY <2>2, <3>1, <3>2, StrippedPair
      <3>4. n \in db'.unified \cup db'.served
        BY <2>5
      <3> QED  BY <3>3, <3>4 DEF Overlooked
    <2>9. ConfigFound(db', u) \/ Overlooked(db', u)
      BY <1>2, <2>1, <2>6, <2>7, <2>8 DEF ConfigFound
    <2> QED  BY <1>9, <1>13, <2>2, <2>4, <2>9
  <1>18. ASSUME NEW s \in DOMAIN db.results
         PROVE  /\ IsResult(db'.results[s]) /\ db'.results[s].run = db.results[s].run
                /\ db'.results[s].case = g[db.results[s].case]
    <2>1. IsResult(db.results[s]) /\ db'.results[s] = result(s)
      BY <1>1, <1>8 DEF RowsTyped, results
    <2>2. IsResult(db'.results[s]) /\ db'.results[s].run = db.results[s].run
          /\ db'.results[s].case = Stripped(db.results[s].case)
      BY <2>1 DEF IsResult, result
    <2> QED  BY <1>9, <1>13, <2>2
  <1>19. Reworked(db, db', f, g, h)
    <2>1. /\ DOMAIN db'.releases = {f[n] : n \in R}
          /\ \A n \in R : /\ IsRelease(db'.releases[f[n]]) /\ db'.releases[f[n]].was = db.releases[n].was
                          /\ db'.releases[f[n]].round \in db'.rounds \cup {None}
      <3>1. DOMAIN db'.releases = R
        BY <1>7
      <3> QED  BY <1>13, <1>16, <3>1
    <2>2. /\ DOMAIN db'.cases = {g[c] : c \in C}
          /\ \A c \in C : IsCase(db'.cases[g[c]]) /\ db'.cases[g[c]].was = db.cases[c].was
      BY <1>1, <1>8, <1>13, <1>14 DEF RowsTyped
    <2>3. DOMAIN db'.procedures = {h[p] : p \in P}
      <3> HIDE DEF step
      <3> QED  BY <1>7, <1>13, <1>15
    <2>4. ASSUME NEW p \in P  PROVE db'.procedures[h[p]] = g[db.procedures[p]] /\ h[p][2] = p[2]
      <3>1. h[p] = step(p) /\ g[db.procedures[p]] = Stripped(db.procedures[p])
        <4> HIDE DEF step
        <4> QED  BY <1>9, <1>13
      <3>2. step(p)[2] = p[2]
        OBVIOUS
      <3>3. db'.procedures[step(p)] = Stripped(db.procedures[p])
        <4> HIDE DEF step
        <4> QED  BY <1>7, <1>15
      <3> HIDE DEF step
      <3> QED  BY <3>1, <3>2, <3>3
    <2>5. \A x \in DOMAIN db.reports : db'.reports[x] = f[db.reports[x]]
      BY <1>8, <1>9, <1>13
    <2>6. DOMAIN db'.reports = DOMAIN db.reports /\ DOMAIN db'.results = DOMAIN db.results
          /\ DOMAIN db'.runs = DOMAIN db.runs /\ db'.defects = db.defects
      BY <1>7, <1>8 DEF results
    <2> HIDE DEF R, C, P
    <2>7. DOMAIN f = DOMAIN db.releases /\ DOMAIN g = DOMAIN db.cases /\ DOMAIN h = DOMAIN db.procedures
      BY <1>13 DEF R, C, P
    <2> QED  BY <1>10, <1>17, <1>18, <2>1, <2>2, <2>3, <2>4, <2>5, <2>6, <2>7 DEF Reworked, R, C, P
  <1>20. Right(db') /\ Keeping(db, db')
    BY <1>1, <1>7, <1>12, <1>19, ReworkedRight
  <1> QED  BY <1>8, <1>20

-----------------------------------------------------------------------------
\* What is written to the log leaves alone what the main file and the database share.
LEMMA AheadStays ==
  ASSUME Right(db), Ahead(main, db),
         Register \/ OpenDefect \/ ServerStart \/ MergeTargetsStart \/ MergeEnvironmentsStart
  PROVE  Ahead(main, db')
PROOF
  <1>1. IsDb(db)
    BY DEF Right
  <1> DEFINE Same == db'.results = db.results /\ db'.runs = db.runs /\ db'.releases = db.releases /\ db'.cases = db.cases
  <1>2. CASE Register
    <2>1. Same
      BY <1>1, <1>2 DEF IsDb, Fields, Register, Serve
    <2> QED  BY <2>1 DEF Ahead
  <1>3. CASE OpenDefect
    <2>1. PICK s \in DOMAIN db.results : db' = [db EXCEPT !.defects = @ ++ [x \in {<<"server", 0>>} |-> s]]
      BY <1>3 DEF OpenDefect, Serve
    <2>2. Same
      BY <1>1, <2>1 DEF IsDb, Fields
    <2> QED  BY <2>2 DEF Ahead
  <1>4. CASE ServerStart
    <2>1. Same
      BY <1>1, <1>4 DEF IsDb, Fields, ServerStart
    <2> QED  BY <2>1 DEF Ahead
  <1>5. CASE MergeTargetsStart
    <2>1. Same
      BY <1>1, <1>5 DEF IsDb, Fields, MergeTargetsStart
    <2> QED  BY <2>1 DEF Ahead
  <1>6. CASE MergeEnvironmentsStart
    <2>1. Same
      BY <1>1, <1>6 DEF IsDb, Fields, MergeEnvironmentsStart
    <2> QED  BY <2>1 DEF Ahead
  <1> QED  BY <1>2, <1>3, <1>4, <1>5, <1>6

\* The rows that a step keeps, with what they are about.
Keeps ==
  LET both == DOMAIN db.results \cap DOMAIN db'.results IN
  /\ \A s \in both : About(db', s) = About(db, s)
  /\ \/ db' = main
     \/ /\ DOMAIN db.results \subseteq DOMAIN db'.results /\ DOMAIN db.defects \subseteq DOMAIN db'.defects
        /\ \A s \in both : StepsUnder(db, s) \subseteq StepsUnder(db', s)
        /\ Cardinality(db.rounds) <= Cardinality(db'.rounds)
        /\ db.units \subseteq db'.units \/ doing' = "targets"

LEMMA KeepingKeeps ==
  ASSUME Keeping(db, db'), db.units \subseteq db'.units \/ doing' = "targets"
  PROVE  Keeps
PROOF BY DEF Keeping, Keeps

LEMMA KeepingSame ==
  ASSUME NEW d, Right(d)
  PROVE  Keeping(d, d)
PROOF
  <1>1. Cardinality(d.rounds) \in Nat
    BY FS_CardinalityType DEF Right, Renaming
  <1> QED  BY <1>1 DEF Keeping

\* Nothing is asked of an import that does not run, or has just begun.
LEMMA NothingImported ==
  ASSUME NEW w, NEW d, NEW k \in 0 .. 1
  PROVE  Imported(k, w, d)
PROOF
  <1>1. \A n \in 1 .. 9 : ~(k > n)
    OBVIOUS
  <1> QED  BY <1>1 DEF Imported

LEMMA ScriptInv ==
  ASSUME Inv, NEW d, Script(d), Right(d)
  PROVE  Inv'
PROOF
  <1>1. db' = d /\ main' = d /\ next' = 0 /\ doing' = "rest" /\ left' = left - 1 /\ touched' = TRUE /\ edition' = edition
        /\ left > 0
    BY DEF Script
  <1>2. Control'
    BY <1>1, ScriptAssumption DEF Inv, Control
  <1>3. Merging'
    BY <1>1 DEF Merging
  <1>4. Ahead(main', db')
    BY <1>1, KeptJoined DEF Ahead
  <1>5. Imported(next', Editions[edition'], db')
    BY <1>1, NothingImported
  <1> QED  BY <1>1, <1>2, <1>3, <1>4, <1>5 DEF Inv

\* What the scripts do.
LEMMA ScriptStep ==
  ASSUME Inv, DropOldTargets \/ EnvPrefix \/ Relink \/ ShowColumn \/ ApToRouter
              \/ CasesByTopology \/ FixAbnormalCases \/ RoundsTable \/ AddRounds \/ StripPrefix
  PROVE  Inv' /\ Keeps
PROOF
  <1>1. Right(db) /\ Control
    BY DEF Inv
  <1>2. Right(db') /\ Keeping(db, db') /\ db.units \subseteq db'.units
    BY <1>1, DropOldTargetsRight, EnvPrefixRight, RelinkRight, ShowColumnRight, ApToRouterRight,
       CasesByTopologyRight, FixAbnormalCasesRight, RoundsTableRight, AddRoundsRight, StripPrefixRight
  <1>3. Script(db')
    <2>1. CASE DropOldTargets  BY <2>1 DEF DropOldTargets, Script
    <2>2. CASE EnvPrefix  BY <2>2 DEF EnvPrefix, Script
    <2>3. CASE Relink  BY <2>3 DEF Relink, Script
    <2>4. CASE ShowColumn  BY <2>4 DEF ShowColumn, Script
    <2>5. CASE ApToRouter  BY <2>5 DEF ApToRouter, Script
    <2>6. CASE CasesByTopology  BY <2>6 DEF CasesByTopology, Script
    <2>7. CASE FixAbnormalCases  BY <2>7 DEF FixAbnormalCases, Script
    <2>8. CASE AddRounds  BY <2>8 DEF AddRounds, Script
    <2>9. CASE StripPrefix  BY <2>9 DEF StripPrefix, Script
    <2>10. CASE RoundsTable  BY <2>10 DEF RoundsTable, Script
    <2> QED  BY <2>1, <2>2, <2>3, <2>4, <2>5, <2>6, <2>7, <2>8, <2>9, <2>10
  <1>4. Inv'
    BY <1>2, <1>3, ScriptInv
  <1> QED  BY <1>2, <1>4, KeepingKeeps

\* The main file in the place of the database: what both have is about the same.
LEMMA AddMissingTargetsStep ==
  ASSUME Inv, AddMissingTargets
  PROVE  Inv' /\ Keeps
PROOF
  <1>1. Right(main) /\ Ahead(main, db)
    BY DEF Inv
  <1>2. Script(main) /\ db' = main
    BY DEF AddMissingTargets, Script
  <1>3. Inv'
    BY <1>1, <1>2, ScriptInv
  <1>4. \A s \in DOMAIN main.results : About(db, s) = About(main, s)
    BY <1>1, AboutKept DEF Ahead
  <1>5. Keeps
    BY <1>2, <1>4 DEF Keeps
  <1> QED  BY <1>3, <1>5

\* A merge begins, ends or breaks off, and the server starts and writes.
LEMMA MergeStep ==
  ASSUME Inv, MergeTargetsStart \/ MergeEnvironmentsStart \/ Merge \/ Break
  PROVE  Inv' /\ Keeps
PROOF
  <1>1. Right(db) /\ Right(main) /\ Control /\ Merging /\ Ahead(main, db) /\ MaxScripts \in Nat
    BY ScriptAssumption DEF Inv
  <1>2. CASE MergeTargetsStart
    <2>1. Right(db') /\ Keeping(db, db') /\ Merging'
      BY <1>1, <1>2, MergeTargetsStartRight
    <2>2. Ahead(main, db')
      BY <1>1, <1>2, AheadStays
    <2>3. /\ main' = main /\ next = 0 /\ next' = 0 /\ doing' = "targets" /\ left > 0 /\ left' = left - 1
          /\ touched' = TRUE /\ edition' = edition
      BY <1>2 DEF MergeTargetsStart
    <2>4. Control'
      BY <1>1, <2>3 DEF Control
    <2>5. Imported(next', Editions[edition'], db')
      BY <2>3, NothingImported
    <2> QED  BY <1>1, <2>1, <2>2, <2>3, <2>4, <2>5, KeepingKeeps DEF Inv
  <1>3. CASE MergeEnvironmentsStart
    <2>1. Right(db') /\ Keeping(db, db') /\ db.units \subseteq db'.units /\ Merging'
      BY <1>1, <1>3, MergeEnvironmentsStartRight
    <2>2. Ahead(main, db')
      BY <1>1, <1>3, AheadStays
    <2>3. /\ main' = main /\ next = 0 /\ next' = 0 /\ doing' = "environments" /\ left > 0 /\ left' = left - 1
          /\ touched' = TRUE /\ edition' = edition
      BY <1>3 DEF MergeEnvironmentsStart
    <2>4. Control'
      BY <1>1, <2>3 DEF Control
    <2>5. Imported(next', Editions[edition'], db')
      BY <2>3, NothingImported
    <2> QED  BY <1>1, <2>1, <2>2, <2>3, <2>4, <2>5, KeepingKeeps DEF Inv
  <1>4. CASE Merge
    <2>1. Right(db') /\ Keeping(db, db') /\ db.units \subseteq db'.units
      BY <1>1, <1>4, MergeRight
    <2>2. /\ main' = db' /\ next = 0 /\ next' = 0 /\ doing' = "rest" /\ left' = left
          /\ touched' = touched /\ edition' = edition
      BY <1>1, <1>4 DEF Merge, Control
    <2>3. Control'
      BY <1>1, <2>2 DEF Control
    <2>4. Merging'
      BY <2>2 DEF Merging
    <2>5. Ahead(main', db')
      BY <2>2, KeptJoined DEF Ahead
    <2>6. Imported(next', Editions[edition'], db')
      BY <2>2, NothingImported
    <2> QED  BY <2>1, <2>2, <2>3, <2>4, <2>5, <2>6, KeepingKeeps DEF Inv
  <1>5. CASE Break
    <2>1. /\ db' = db /\ main' = main /\ next = 0 /\ next' = 0 /\ doing' = "rest" /\ left' = left
          /\ touched' = touched /\ edition' = edition
      BY <1>1, <1>5 DEF Break, Control
    <2>2. Control'
      BY <1>1, <2>1 DEF Control
    <2>3. Merging'
      BY <2>1 DEF Merging
    <2>4. Imported(next', Editions[edition'], db')
      BY <2>1, NothingImported
    <2>5. Keeping(db, db')
      BY <1>1, <2>1, KeepingSame
    <2> QED  BY <1>1, <2>1, <2>2, <2>3, <2>4, <2>5, KeepingKeeps DEF Inv
  <1> QED  BY <1>2, <1>3, <1>4, <1>5

LEMMA ServerStep ==
  ASSUME Inv, ServerStart \/ Register \/ OpenDefect \/ Checkpoint
  PROVE  Inv' /\ Keeps
PROOF
  <1>1. Right(db) /\ Right(main) /\ Control /\ Merging /\ Ahead(main, db) /\ MaxScripts \in Nat
    BY ScriptAssumption DEF Inv
  <1>2. CASE Checkpoint
    <2>1. /\ db' = db /\ main' = db /\ next = 0 /\ next' = 0 /\ doing' = "rest" /\ left' = left
          /\ touched' = touched /\ edition' = edition
      BY <1>2 DEF Checkpoint
    <2>2. Control'
      BY <1>1, <2>1 DEF Control
    <2>3. Merging'
      BY <2>1 DEF Merging
    <2>4. Imported(next', Editions[edition'], db')
      BY <2>1, NothingImported
    <2>5. Keeping(db, db')
      BY <1>1, <2>1, KeepingSame
    <2>6. Ahead(main', db')
      BY <2>1, KeptJoined DEF Ahead
    <2> QED  BY <1>1, <2>1, <2>2, <2>3, <2>4, <2>5, <2>6, KeepingKeeps DEF Inv
  <1>3. CASE ServerStart \/ Register \/ OpenDefect
    <2>1. Right(db') /\ Keeping(db, db') /\ db.units \subseteq db'.units
      BY <1>1, <1>3, ServerStartRight, RegisterRight, OpenDefectRight
    <2>2. Ahead(main, db')
      BY <1>1, <1>3, AheadStays
    <2>3. /\ main' = main /\ next = 0 /\ next' = 0 /\ doing' = "rest" /\ (left' = left \/ (left > 0 /\ left' = left - 1))
          /\ touched' = TRUE /\ edition' = edition
      BY <1>3 DEF ServerStart, Register, OpenDefect, Serve
    <2>4. Control'
      BY <1>1, <2>3 DEF Control
    <2>5. Imported(next', Editions[edition'], db')
      BY <2>3, NothingImported
    <2>6. Merging'
      BY <2>3 DEF Merging
    <2> QED  BY <1>1, <2>1, <2>2, <2>3, <2>4, <2>5, <2>6, KeepingKeeps DEF Inv
  <1> QED  BY <1>2, <1>3

LEMMA ImportStepStep ==
  ASSUME Inv, Import
  PROVE  Inv' /\ Keeps
PROOF
  <1> DEFINE w == Editions[edition]
  <1>1. /\ Right(db) /\ Right(main) /\ Control /\ Merging /\ Ahead(main, db) /\ MaxScripts \in Nat
        /\ Imported(next, w, db)
    BY ScriptAssumption DEF Inv
  <1>2. doing = "rest" /\ doing' = "rest" /\ left' >= 0 /\ (left' = left \/ left' = left - 1)
    BY DEF Import
  <1>3. Merging'
    BY <1>2 DEF Merging
  <1>4. left' \in 0 .. MaxScripts
    BY <1>1, <1>2 DEF Control
  <1>5. CASE ImportStep
    <2>1. next \in 1 .. 9 /\ db' = After(next, w, db) /\ next' = next + 1 /\ main' = main /\
           edition' = edition /\ touched' = touched
      BY <1>5 DEF ImportStep
    <2>2. Closed(w)
      BY <1>1, WorkbookClosed DEF Control
    <2> HIDE DEF w
    <2>3. Grown(db, db') /\ Imported(next', w, db')
      BY <1>1, <2>1, <2>2, AfterGrown
    <2>4. Right(db') /\ Keeping(db, db')
      BY <1>1, <2>3, GrownRight, GrownKeeping
    <2>5. db.units \subseteq db'.units
      BY <2>3 DEF Grown
    <2>6. Ahead(main', db')
      <3>1. Kept(db.results, db'.results) /\ Kept(db.runs, db'.runs) /\ Kept(db.releases, db'.releases) /\
             Kept(db.cases, db'.cases)
        BY <2>3 DEF Grown
      <3>2. Kept(main.results, db.results) /\ Kept(main.runs, db.runs) /\ Kept(main.releases, db.releases) /\
             Kept(main.cases, db.cases)
        BY <1>1 DEF Ahead
      <3>3. \A f, g, h : Kept(f, g) /\ Kept(g, h) => Kept(f, h)
        BY DEF Kept
      <3> QED  BY <2>1, <3>1, <3>2, <3>3 DEF Ahead
    <2>7. Control'
      BY <1>1, <1>2, <1>4, <2>1 DEF Control
    <2>8. Imported(next', Editions[edition'], db')
      BY <2>1, <2>3 DEF w
    <2> QED  BY <1>1, <1>3, <2>1, <2>4, <2>5, <2>6, <2>7, <2>8, KeepingKeeps DEF Inv
  <1>6. CASE ImportEnd \/ ImportCrash \/ Correct \/ ImportStart
    <2>1. /\ db' = db /\ main' \in {main, db} /\ next' \in 0 .. 1 /\ touched' = touched
          /\ edition' = edition \/ (edition < Len(Editions) /\ edition' = edition + 1)
      BY <1>6 DEF ImportEnd, ImportCrash, Correct, ImportStart
    <2>2. Control'
      <3>1. Len(Editions) \in Nat
        BY WorkbookIsWhole DEF WorkbookAssumption
      <3> QED  BY <1>1, <1>2, <1>4, <2>1, <3>1 DEF Control
    <2>3. Imported(next', Editions[edition'], db')
      BY <2>1, NothingImported
    <2>4. Keeping(db, db')
      BY <1>1, <2>1, KeepingSame
    <2>5. Ahead(main', db') /\ Right(main')
      BY <1>1, <2>1, KeptJoined DEF Ahead
    <2> QED  BY <1>1, <1>3, <2>1, <2>2, <2>3, <2>4, <2>5, KeepingKeeps DEF Inv
  <1> QED  BY <1>5, <1>6 DEF Import

LEMMA NextStep ==
  ASSUME Inv, Next
  PROVE  Inv' /\ Keeps
PROOF BY ScriptStep, AddMissingTargetsStep, MergeStep, ServerStep, ImportStepStep DEF Next

LEMMA EmptyRight == Right(Empty)
PROOF
  <1>1. IsDb(Empty)
    BY DEF IsDb, Fields, Empty
  <1>2. /\ DOMAIN Empty.releases = {} /\ DOMAIN Empty.cases = {} /\ DOMAIN Empty.procedures = {}
        /\ DOMAIN Empty.reports = {} /\ DOMAIN Empty.runs = {} /\ DOMAIN Empty.results = {}
        /\ DOMAIN Empty.defects = {} /\ DOMAIN Empty.configs = {}
    BY DEF Empty
  <1>3. Empty.rounds = {} /\ Empty.unified = {} /\ Empty.served = {} /\ Empty.column = "environment"
    BY DEF Empty
  <1>4. RowsTyped(Empty)
    BY <1>2 DEF RowsTyped
  <1>5. Renaming(Empty)
    BY <1>2, <1>3, FS_EmptySet DEF Renaming
  <1>6. Sound(Empty)
    BY <1>2, OrphansNone DEF Sound
  <1> QED  BY <1>1, <1>4, <1>5, <1>6 DEF Right

LEMMA InitInv ==
  ASSUME Init
  PROVE  Inv
PROOF
  <1>1. /\ db = Empty /\ main = Empty /\ next = 0 /\ edition = 1 /\ touched = FALSE /\ doing = "rest" /\ left = MaxScripts
    BY DEF Init, ImportInit
  <1>2. Control
    <2>1. Len(Editions) \in Nat \ {0}
      BY WorkbookIsWhole DEF WorkbookAssumption
    <2>2. MaxScripts \in Nat
      BY ScriptAssumption
    <2>3. next \in 0 .. 10 /\ left \in 0 .. MaxScripts /\ edition \in 1 .. Len(Editions)
      BY <1>1, <2>1, <2>2
    <2>4. doing \in {"rest", "targets", "environments"} /\ touched \in BOOLEAN /\ ~(doing # "rest")
      BY <1>1, Zenon
    <2> QED  BY <2>3, <2>4 DEF Control
  <1>3. Imported(next, Editions[edition], db)
    BY <1>1, NothingImported
  <1>4. Ahead(main, db)
    BY <1>1, KeptJoined DEF Ahead
  <1> QED  BY <1>1, <1>2, <1>3, <1>4, EmptyRight DEF Inv, Merging

\* What the steps before have put into the database, what the rows in it name, and that
\* the main file is behind the database: for every workbook and every order of scripts.
THEOREM RecordsInvariant == Spec => []Inv
PROOF
  <1>1. Inv /\ [Next]_vars => Inv'
    <2>1. ASSUME Inv, Next  PROVE Inv'
      BY <2>1, NextStep
    <2>2. ASSUME Inv, UNCHANGED vars  PROVE Inv'
      BY <2>2 DEF vars, Inv, Control, Merging
    <2> QED  BY <2>1, <2>2
  <1> QED  BY <1>1, InitInv, PTL DEF Spec

\* The identifiers that rows name exist, in the database and in its main file, for any
\* number of scripts in any order, broken off anywhere: apart from the targets that
\* Relink gives to runs and the configurations that StripPrefix overlooks (FK_CHECKS,
\* diagnose_integrity.py:38).
THEOREM RecordsFound == Spec => []TypeOK
PROOF
  <1>1. Inv => TypeOK
    BY DEF Inv, Control, Right, TypeOK
  <1> QED  BY <1>1, RecordsInvariant, PTL

\* No step loses a result, a defect, a round or a target of the server, or makes a
\* result one of another run, release or case, or parts it from the steps of its case,
\* apart from the two scripts that put a whole file or table back (migrate_*.py).
THEOREM RecordsKept == Spec => RowsKept
PROOF
  <1>1. Inv /\ [Next]_vars => [Keeps]_vars
    BY NextStep
  <1> QED  BY <1>1, RecordsInvariant, PTL DEF Spec, RowsKept, Keeps

-----------------------------------------------------------------------------
\* What one import makes of an empty database.
LEMMA WholeFields ==
  ASSUME NEW w
  PROVE  LET F == Whole(w) IN
         /\ F.accounts = {<<"project">>} \cup {<<"user", u>> : u \in {"migration"} \cup w.testers}
                          \cup {<<"member", "migration">>}
         /\ DOMAIN F.targets = LinesOf(w) /\ \A n \in LinesOf(w) : F.targets[n] = TargetRows(w)[n]
         /\ DOMAIN F.configs = Names(w) /\ \A n \in Names(w) : F.configs[n] = ConfigRows(w)[n]
         /\ DOMAIN F.releases = Released(w) \cup {Fallback}
         /\ \A n \in Released(w) \cup {Fallback} : F.releases[n] = ReleaseRows(w)[n]
         /\ DOMAIN F.cases = CasesOf(w) \cup EmptyCase(w) /\ \A c \in CasesOf(w) : F.cases[c] = CaseRows(w)[c]
         /\ \A c \in EmptyCase(w) : c \notin CasesOf(w) => F.cases[c] = EmptyRows(w)[c]
         /\ DOMAIN F.procedures = StepsOf(w) /\ \A p \in StepsOf(w) : F.procedures[p] = StepRows(w)[p]
         /\ DOMAIN F.reports = Rids(w) /\ \A x \in Rids(w) : F.reports[x] = ReportRows(w)[x]
         /\ DOMAIN F.runs = RunsOf(w) \cup Lost(w) /\ \A u \in RunsOf(w) : F.runs[u] = RunRows(w)[u]
         /\ \A u \in Lost(w) : u \notin RunsOf(w) => F.runs[u] = LostRows(w)[u]
         /\ DOMAIN F.results = ResultsOf(w) /\ \A s \in ResultsOf(w) : F.results[s] = ResultRows(w)[s]
PROOF
  <1> DEFINE d1 == Projects(Schema(Empty))
             d2 == Users(w, d1)
             d3 == Members(w, d2)
             d4 == Targets(w, d3)
             d5 == Environments(w, d4)
             d6 == Releases(w, d5)
             d7 == Cases(w, d6)
             d8 == Reports(w, d7)
             d9 == Results(w, d8)
             TR == TargetRows(w)
             CR == ConfigRows(w)
             RR == ReleaseRows(w)
             KR == CaseRows(w)
             SR == StepRows(w)
             PR == ReportRows(w)
             UR == RunRows(w)
             LR == LostRows(w)
             ER == EmptyRows(w)
             XR == ResultRows(w)
  <1>0. Whole(w) = d9
    BY DEF Whole
  <1>1. /\ DOMAIN TR = LinesOf(w) /\ DOMAIN CR = Names(w) /\ DOMAIN RR = Released(w) \cup {Fallback}
        /\ DOMAIN KR = CasesOf(w) /\ DOMAIN SR = StepsOf(w) /\ DOMAIN PR = Rids(w) /\ DOMAIN UR = RunsOf(w)
        /\ DOMAIN LR = Lost(w) /\ DOMAIN ER = EmptyCase(w) /\ DOMAIN XR = ResultsOf(w)
    BY DEF TargetRows, ConfigRows, ReleaseRows, CaseRows, StepRows, ReportRows, RunRows, LostRows, EmptyRows,
     ResultRows
  <1>2. IsDb(Empty)
    BY EmptyRight DEF Right
  <1>3. /\ IsDb(d1) /\ d1.accounts = Empty.accounts \cup {<<"project">>}
        /\ d1.targets = Empty.targets /\ d1.configs = Empty.configs /\ d1.releases = Empty.releases /\ d1.cases = Empty.cases
        /\ d1.procedures = Empty.procedures /\ d1.reports = Empty.reports /\ d1.runs = Empty.runs
        /\ d1.results = Empty.results /\ d1.defects = Empty.defects
    BY <1>2, SchemaFields
  <1>4. /\ Empty.accounts = {} /\ DOMAIN Empty.targets = {} /\ DOMAIN Empty.configs = {}
        /\ DOMAIN Empty.releases = {} /\ DOMAIN Empty.cases = {} /\ DOMAIN Empty.procedures = {}
        /\ DOMAIN Empty.reports = {} /\ DOMAIN Empty.runs = {} /\ DOMAIN Empty.results = {} /\ DOMAIN Empty.defects = {}
    BY DEF Empty
  <1>5. /\ d1.accounts = {<<"project">>} /\ DOMAIN d1.targets = {} /\ DOMAIN d1.configs = {}
        /\ DOMAIN d1.releases = {} /\ DOMAIN d1.cases = {} /\ DOMAIN d1.procedures = {}
        /\ DOMAIN d1.reports = {} /\ DOMAIN d1.runs = {} /\ DOMAIN d1.results = {} /\ DOMAIN d1.defects = {}
    BY <1>3, <1>4
  <1> HIDE DEF d1
  <1>6. /\ IsDb(d2) /\ d2.accounts = d1.accounts \cup {<<"user", u>> : u \in {"migration"} \cup w.testers}
        /\ d2.targets = d1.targets /\ d2.configs = d1.configs /\ d2.releases = d1.releases
        /\ d2.cases = d1.cases /\ d2.procedures = d1.procedures /\ d2.reports = d1.reports /\ d2.runs = d1.runs
        /\ d2.results = d1.results /\ d2.defects = d1.defects
    BY <1>3, UsersFields
  <1> HIDE DEF d2
  <1>7. /\ IsDb(d3) /\ d3.accounts = d2.accounts \cup {<<"member", "migration">>} /\ d3.targets = d2.targets
        /\ d3.configs = d2.configs /\ d3.releases = d2.releases /\ d3.cases = d2.cases
        /\ d3.procedures = d2.procedures /\ d3.reports = d2.reports /\ d3.runs = d2.runs
        /\ d3.results = d2.results /\ d3.defects = d2.defects
    BY <1>6, MembersFields
  <1> HIDE DEF d3
  <1>8. /\ IsDb(d4) /\ d4.targets = d3.targets ++ TR /\ d4.accounts = d3.accounts /\ d4.configs = d3.configs
        /\ d4.releases = d3.releases /\ d4.cases = d3.cases /\ d4.procedures = d3.procedures
        /\ d4.reports = d3.reports /\ d4.runs = d3.runs /\ d4.results = d3.results /\ d4.defects = d3.defects
    BY <1>7, TargetsFields
  <1> HIDE DEF d4
  <1>9. /\ IsDb(d5) /\ d5.configs = d4.configs ++ CR /\ d5.accounts = d4.accounts /\ d5.targets = d4.targets
        /\ d5.releases = d4.releases /\ d5.cases = d4.cases /\ d5.procedures = d4.procedures
        /\ d5.reports = d4.reports /\ d5.runs = d4.runs /\ d5.results = d4.results /\ d5.defects = d4.defects
    BY <1>8, EnvironmentsFields
  <1> HIDE DEF d5
  <1>10. /\ IsDb(d6) /\ d6.releases = d5.releases ++ RR /\ d6.accounts = d5.accounts /\ d6.targets = d5.targets
        /\ d6.configs = d5.configs /\ d6.cases = d5.cases /\ d6.procedures = d5.procedures
        /\ d6.reports = d5.reports /\ d6.runs = d5.runs /\ d6.results = d5.results /\ d6.defects = d5.defects
    BY <1>9, ReleasesFields
  <1> HIDE DEF d6
  <1>11. /\ IsDb(d7) /\ d7.cases = d6.cases ++ KR /\ d7.procedures = d6.procedures ++ SR
        /\ d7.accounts = d6.accounts /\ d7.targets = d6.targets /\ d7.configs = d6.configs
        /\ d7.releases = d6.releases /\ d7.reports = d6.reports /\ d7.runs = d6.runs /\ d7.results = d6.results
        /\ d7.defects = d6.defects
    BY <1>10, CasesFields
  <1> HIDE DEF d7
  <1>12. /\ IsDb(d8) /\ d8.reports = d7.reports ++ PR /\ d8.runs = d7.runs ++ UR /\ d8.accounts = d7.accounts
        /\ d8.targets = d7.targets /\ d8.configs = d7.configs /\ d8.releases = d7.releases
        /\ d8.cases = d7.cases /\ d8.procedures = d7.procedures /\ d8.results = d7.results
        /\ d8.defects = d7.defects
    BY <1>11, ReportsFields
  <1> HIDE DEF d8
  <1>13. /\ IsDb(d9) /\ d9.runs = d8.runs ++ LR /\ d9.cases = d8.cases ++ ER /\ d9.results = d8.results ++ XR
        /\ d9.defects = d8.defects ++ IssueRows(w, NewResults(w, d8)) /\ d9.accounts = d8.accounts
        /\ d9.targets = d8.targets /\ d9.configs = d8.configs /\ d9.releases = d8.releases
        /\ d9.procedures = d8.procedures /\ d9.reports = d8.reports
    BY <1>12, ResultsFields
  <1> HIDE DEF d9
  <1> HIDE DEF TR, CR, RR, KR, SR, PR, UR, LR, ER, XR
  <1>15. d9.accounts = {<<"project">>} \cup {<<"user", u>> : u \in {"migration"} \cup w.testers} \cup {<<"member", "migration">>}
    BY <1>5, <1>6, <1>7, <1>8, <1>9, <1>10, <1>11, <1>12, <1>13
  <1>16. DOMAIN d9.targets = DOMAIN TR /\ \A n \in DOMAIN TR : d9.targets[n] = TR[n]
    <2>1. DOMAIN d3.targets = {} /\ d4.targets = d3.targets ++ TR
      BY <1>5, <1>6, <1>7, <1>8
    <2>2. DOMAIN d4.targets = DOMAIN TR /\ \A n \in DOMAIN TR : d4.targets[n] = TR[n]
      BY <2>1 DEF ++
    <2> QED  BY <2>2, <1>9, <1>10, <1>11, <1>12, <1>13
  <1>17. DOMAIN d9.configs = DOMAIN CR /\ \A n \in DOMAIN CR : d9.configs[n] = CR[n]
    <2>1. DOMAIN d4.configs = {} /\ d5.configs = d4.configs ++ CR
      BY <1>5, <1>6, <1>7, <1>8, <1>9
    <2>2. DOMAIN d5.configs = DOMAIN CR /\ \A n \in DOMAIN CR : d5.configs[n] = CR[n]
      BY <2>1 DEF ++
    <2> QED  BY <2>2, <1>10, <1>11, <1>12, <1>13
  <1>18. DOMAIN d9.releases = DOMAIN RR /\ \A n \in DOMAIN RR : d9.releases[n] = RR[n]
    <2>1. DOMAIN d5.releases = {} /\ d6.releases = d5.releases ++ RR
      BY <1>5, <1>6, <1>7, <1>8, <1>9, <1>10
    <2>2. DOMAIN d6.releases = DOMAIN RR /\ \A n \in DOMAIN RR : d6.releases[n] = RR[n]
      BY <2>1 DEF ++
    <2> QED  BY <2>2, <1>11, <1>12, <1>13
  <1>19. DOMAIN d9.procedures = DOMAIN SR /\ \A n \in DOMAIN SR : d9.procedures[n] = SR[n]
    <2>1. DOMAIN d6.procedures = {} /\ d7.procedures = d6.procedures ++ SR
      BY <1>5, <1>6, <1>7, <1>8, <1>9, <1>10, <1>11
    <2>2. DOMAIN d7.procedures = DOMAIN SR /\ \A n \in DOMAIN SR : d7.procedures[n] = SR[n]
      BY <2>1 DEF ++
    <2> QED  BY <2>2, <1>12, <1>13
  <1>20. DOMAIN d9.reports = DOMAIN PR /\ \A n \in DOMAIN PR : d9.reports[n] = PR[n]
    <2>1. DOMAIN d7.reports = {} /\ d8.reports = d7.reports ++ PR
      BY <1>5, <1>6, <1>7, <1>8, <1>9, <1>10, <1>11, <1>12
    <2>2. DOMAIN d8.reports = DOMAIN PR /\ \A n \in DOMAIN PR : d8.reports[n] = PR[n]
      BY <2>1 DEF ++
    <2> QED  BY <2>2, <1>13
  <1>21. DOMAIN d9.results = DOMAIN XR /\ \A n \in DOMAIN XR : d9.results[n] = XR[n]
    <2>1. DOMAIN d8.results = {} /\ d9.results = d8.results ++ XR
      BY <1>5, <1>6, <1>7, <1>8, <1>9, <1>10, <1>11, <1>12, <1>13
    <2>2. DOMAIN d9.results = DOMAIN XR /\ \A n \in DOMAIN XR : d9.results[n] = XR[n]
      BY <2>1 DEF ++
    <2> QED  BY <2>2
  <1>22. /\ DOMAIN d9.cases = DOMAIN KR \cup DOMAIN ER /\ \A n \in DOMAIN KR : d9.cases[n] = KR[n]
         /\ \A n \in DOMAIN ER : n \notin DOMAIN KR => d9.cases[n] = ER[n]
    <2>1. DOMAIN d6.cases = {} /\ d7.cases = d6.cases ++ KR
      BY <1>5, <1>6, <1>7, <1>8, <1>9, <1>10, <1>11
    <2>2. DOMAIN d7.cases = DOMAIN KR /\ \A n \in DOMAIN KR : d7.cases[n] = KR[n]
      BY <2>1 DEF ++
    <2>3. DOMAIN d8.cases = DOMAIN KR /\ (\A n \in DOMAIN KR : d8.cases[n] = KR[n]) /\ d9.cases = d8.cases ++ ER
      BY <2>2, <1>12, <1>13
    <2> QED  BY <2>3 DEF ++
  <1>23. /\ DOMAIN d9.runs = DOMAIN UR \cup DOMAIN LR /\ \A n \in DOMAIN UR : d9.runs[n] = UR[n]
         /\ \A n \in DOMAIN LR : n \notin DOMAIN UR => d9.runs[n] = LR[n]
    <2>1. DOMAIN d7.runs = {} /\ d8.runs = d7.runs ++ UR
      BY <1>5, <1>6, <1>7, <1>8, <1>9, <1>10, <1>11, <1>12
    <2>2. DOMAIN d8.runs = DOMAIN UR /\ \A n \in DOMAIN UR : d8.runs[n] = UR[n]
      BY <2>1 DEF ++
    <2>3. DOMAIN d8.runs = DOMAIN UR /\ (\A n \in DOMAIN UR : d8.runs[n] = UR[n]) /\ d9.runs = d8.runs ++ LR
      BY <2>2, <1>13
    <2> QED  BY <2>3 DEF ++
  <1> QED  BY <1>0, <1>1, <1>15, <1>16, <1>17, <1>18, <1>19, <1>20, <1>21, <1>22, <1>23 DEF TR, CR,
            RR, KR, SR, PR, UR, LR, ER, XR

\* The rows of e are those of f, or as in h.
Taken(f, e, h) == \A n \in DOMAIN e : (n \in DOMAIN f /\ e[n] = f[n]) \/ (n \in DOMAIN h /\ e[n] = h[n])

\* The defects of e are those of f, or about a result whose row asks for them.
Issued(f, e, w) ==
  \A x \in DOMAIN e : \/ (x \in DOMAIN f /\ e[x] = f[x])
                       \/ \E i \in DOMAIN w.results : e[x] = ResultName(w, i) /\ x \in DefectNames(w, i)

\* What a step adds is of the workbook, and a result comes with its issues.
Sourced(d, e, w) ==
  /\ e.accounts \subseteq d.accounts \cup Whole(w).accounts
  /\ Taken(d.targets, e.targets, Whole(w).targets)
  /\ Taken(d.configs, e.configs, Whole(w).configs)
  /\ Taken(d.releases, e.releases, Whole(w).releases)
  /\ Taken(d.cases, e.cases, Whole(w).cases)
  /\ Taken(d.procedures, e.procedures, Whole(w).procedures)
  /\ Taken(d.reports, e.reports, Whole(w).reports)
  /\ Taken(d.runs, e.runs, Whole(w).runs)
  /\ Taken(d.results, e.results, Whole(w).results)
  /\ Issued(d.defects, e.defects, w)
  /\ \A s \in DOMAIN e.results : \/ s \in DOMAIN d.results
                                 \/ \E i \in DOMAIN w.results :
                                      ResultName(w, i) = s /\ DefectNames(w, i) \subseteq DOMAIN e.defects
  /\ DOMAIN d.results \subseteq DOMAIN e.results /\ DOMAIN d.defects \subseteq DOMAIN e.defects

LEMMA TakenSame ==
  ASSUME NEW f, NEW h
  PROVE  Taken(f, f, h) /\ Issued(f, f, h)
PROOF BY DEF Taken, Issued

LEMMA StepSourced ==
  ASSUME NEW w, NEW d, NEW k \in 1 .. 9, Right(d), Closed(w), Imported(k, w, d)
  PROVE  Sourced(d, After(k, w, d), w)
PROOF
  <1> DEFINE F == Whole(w)
  <1>0. IsDb(d)
    BY DEF Right
  <1>1. CASE k = 1
    <2> DEFINE e == Projects(Schema(d))
    <2>1. /\ e.targets = d.targets /\ e.configs = d.configs /\ e.releases = d.releases /\ e.cases = d.cases
          /\ e.procedures = d.procedures /\ e.reports = d.reports /\ e.runs = d.runs
          /\ e.results = d.results /\ e.defects = d.defects
      BY <1>0, SchemaFields
    <2>2. e.accounts = d.accounts \cup {<<"project">>}
      BY <1>0, SchemaFields
    <2>3. {<<"project">>} \subseteq F.accounts
      BY WholeFields
    <2> HIDE DEF e, F
    <2>4. e.accounts \subseteq d.accounts \cup F.accounts
      BY <2>2, <2>3
    <2>9. Sourced(d, e, w)
      BY <2>1, TakenSame, <2>4 DEF Sourced, F
    <2> QED  BY <1>1, <2>9 DEF After, e
  <1>2. CASE k = 2
    <2> DEFINE e == Users(w, d)
    <2>1. /\ e.targets = d.targets /\ e.configs = d.configs /\ e.releases = d.releases /\ e.cases = d.cases
          /\ e.procedures = d.procedures /\ e.reports = d.reports /\ e.runs = d.runs
          /\ e.results = d.results /\ e.defects = d.defects
      BY <1>0, UsersFields
    <2>2. e.accounts = d.accounts \cup {<<"user", u>> : u \in {"migration"} \cup w.testers}
      BY <1>0, UsersFields
    <2>3. {<<"user", u>> : u \in {"migration"} \cup w.testers} \subseteq F.accounts
      BY WholeFields
    <2> HIDE DEF e, F
    <2>4. e.accounts \subseteq d.accounts \cup F.accounts
      BY <2>2, <2>3
    <2>9. Sourced(d, e, w)
      BY <2>1, TakenSame, <2>4 DEF Sourced, F
    <2> QED  BY <1>2, <2>9 DEF After, e
  <1>3. CASE k = 3
    <2> DEFINE e == Members(w, d)
    <2>1. /\ e.targets = d.targets /\ e.configs = d.configs /\ e.releases = d.releases /\ e.cases = d.cases
          /\ e.procedures = d.procedures /\ e.reports = d.reports /\ e.runs = d.runs
          /\ e.results = d.results /\ e.defects = d.defects
      BY <1>0, MembersFields
    <2>2. e.accounts = d.accounts \cup {<<"member", "migration">>}
      BY <1>0, MembersFields
    <2>3. {<<"member", "migration">>} \subseteq F.accounts
      BY WholeFields
    <2> HIDE DEF e, F
    <2>4. e.accounts \subseteq d.accounts \cup F.accounts
      BY <2>2, <2>3
    <2>9. Sourced(d, e, w)
      BY <2>1, TakenSame, <2>4 DEF Sourced, F
    <2> QED  BY <1>3, <2>9 DEF After, e
  <1>4. CASE k = 4
    <2> DEFINE e == Targets(w, d)
    <2>1. /\ e.accounts = d.accounts /\ e.configs = d.configs /\ e.releases = d.releases /\ e.cases = d.cases
          /\ e.procedures = d.procedures /\ e.reports = d.reports /\ e.runs = d.runs
          /\ e.results = d.results /\ e.defects = d.defects
      BY <1>0, TargetsFields
    <2>2. e.targets = d.targets ++ TargetRows(w)
      BY <1>0, TargetsFields
    <2>3. /\ DOMAIN TargetRows(w) = LinesOf(w) /\ LinesOf(w) \subseteq DOMAIN F.targets
          /\ \A n \in LinesOf(w) : F.targets[n] = TargetRows(w)[n]
      <3>1. DOMAIN TargetRows(w) = LinesOf(w)
        BY DEF TargetRows
      <3> QED  BY <3>1, WholeFields
    <2> DEFINE rows0 == TargetRows(w)
    <2> HIDE DEF e, F, rows0
    <2>4. Taken(d.targets, e.targets, F.targets)
      <3>1. e.targets = d.targets ++ rows0 /\ DOMAIN rows0 \subseteq DOMAIN F.targets /\
             \A n \in DOMAIN rows0 : F.targets[n] = rows0[n]
        BY <2>2, <2>3 DEF rows0
      <3> QED  BY <3>1 DEF Taken, ++
    <2>9. Sourced(d, e, w)
      BY <2>1, TakenSame, <2>4 DEF Sourced, F
    <2> QED  BY <1>4, <2>9 DEF After, e
  <1>5. CASE k = 5
    <2> DEFINE e == Environments(w, d)
    <2>1. /\ e.accounts = d.accounts /\ e.targets = d.targets /\ e.releases = d.releases /\ e.cases = d.cases
          /\ e.procedures = d.procedures /\ e.reports = d.reports /\ e.runs = d.runs
          /\ e.results = d.results /\ e.defects = d.defects
      BY <1>0, EnvironmentsFields
    <2>2. e.configs = d.configs ++ ConfigRows(w)
      BY <1>0, EnvironmentsFields
    <2>3. /\ DOMAIN ConfigRows(w) = Names(w) /\ Names(w) \subseteq DOMAIN F.configs
          /\ \A n \in Names(w) : F.configs[n] = ConfigRows(w)[n]
      <3>1. DOMAIN ConfigRows(w) = Names(w)
        BY DEF ConfigRows
      <3> QED  BY <3>1, WholeFields
    <2> DEFINE rows0 == ConfigRows(w)
    <2> HIDE DEF e, F, rows0
    <2>4. Taken(d.configs, e.configs, F.configs)
      <3>1. e.configs = d.configs ++ rows0 /\ DOMAIN rows0 \subseteq DOMAIN F.configs /\
             \A n \in DOMAIN rows0 : F.configs[n] = rows0[n]
        BY <2>2, <2>3 DEF rows0
      <3> QED  BY <3>1 DEF Taken, ++
    <2>9. Sourced(d, e, w)
      BY <2>1, TakenSame, <2>4 DEF Sourced, F
    <2> QED  BY <1>5, <2>9 DEF After, e
  <1>6. CASE k = 6
    <2> DEFINE e == Releases(w, d)
    <2>1. /\ e.accounts = d.accounts /\ e.targets = d.targets /\ e.configs = d.configs /\ e.cases = d.cases
          /\ e.procedures = d.procedures /\ e.reports = d.reports /\ e.runs = d.runs
          /\ e.results = d.results /\ e.defects = d.defects
      BY <1>0, ReleasesFields
    <2>2. e.releases = d.releases ++ ReleaseRows(w)
      BY <1>0, ReleasesFields
    <2>3. /\ DOMAIN ReleaseRows(w) = Released(w) \cup {Fallback} /\ Released(w) \cup {Fallback} \subseteq DOMAIN F.releases
          /\ \A n \in Released(w) \cup {Fallback} : F.releases[n] = ReleaseRows(w)[n]
      <3>1. DOMAIN ReleaseRows(w) = Released(w) \cup {Fallback}
        BY DEF ReleaseRows
      <3> QED  BY <3>1, WholeFields
    <2> DEFINE rows0 == ReleaseRows(w)
    <2> HIDE DEF e, F, rows0
    <2>4. Taken(d.releases, e.releases, F.releases)
      <3>1. e.releases = d.releases ++ rows0 /\ DOMAIN rows0 \subseteq DOMAIN F.releases /\
             \A n \in DOMAIN rows0 : F.releases[n] = rows0[n]
        BY <2>2, <2>3 DEF rows0
      <3> QED  BY <3>1 DEF Taken, ++
    <2>9. Sourced(d, e, w)
      BY <2>1, TakenSame, <2>4 DEF Sourced, F
    <2> QED  BY <1>6, <2>9 DEF After, e
  <1>7. CASE k = 7
    <2> DEFINE e == Cases(w, d)
    <2>1. /\ e.accounts = d.accounts /\ e.targets = d.targets /\ e.configs = d.configs
          /\ e.releases = d.releases /\ e.reports = d.reports /\ e.runs = d.runs /\ e.results = d.results
          /\ e.defects = d.defects
      BY <1>0, CasesFields
    <2>2. e.cases = d.cases ++ CaseRows(w)
      BY <1>0, CasesFields
    <2>3. e.procedures = d.procedures ++ StepRows(w)
      BY <1>0, CasesFields
    <2>4. /\ DOMAIN CaseRows(w) = CasesOf(w) /\ CasesOf(w) \subseteq DOMAIN F.cases
          /\ \A n \in CasesOf(w) : F.cases[n] = CaseRows(w)[n]
      <3>1. DOMAIN CaseRows(w) = CasesOf(w)
        BY DEF CaseRows
      <3> QED  BY <3>1, WholeFields
    <2>5. /\ DOMAIN StepRows(w) = StepsOf(w) /\ StepsOf(w) \subseteq DOMAIN F.procedures
          /\ \A n \in StepsOf(w) : F.procedures[n] = StepRows(w)[n]
      <3>1. DOMAIN StepRows(w) = StepsOf(w)
        BY DEF StepRows
      <3> QED  BY <3>1, WholeFields
    <2> DEFINE rows0 == CaseRows(w)
               rows1 == StepRows(w)
    <2> HIDE DEF e, F, rows0, rows1
    <2>6. Taken(d.cases, e.cases, F.cases)
      <3>1. e.cases = d.cases ++ rows0 /\ DOMAIN rows0 \subseteq DOMAIN F.cases /\ \A n \in DOMAIN rows0 : F.cases[n] = rows0[n]
        BY <2>2, <2>4 DEF rows0
      <3> QED  BY <3>1 DEF Taken, ++
    <2>7. Taken(d.procedures, e.procedures, F.procedures)
      <3>1. e.procedures = d.procedures ++ rows1 /\ DOMAIN rows1 \subseteq DOMAIN F.procedures /\
             \A n \in DOMAIN rows1 : F.procedures[n] = rows1[n]
        BY <2>3, <2>5 DEF rows1
      <3> QED  BY <3>1 DEF Taken, ++
    <2>9. Sourced(d, e, w)
      BY <2>1, TakenSame, <2>6, <2>7 DEF Sourced, F
    <2> QED  BY <1>7, <2>9 DEF After, e
  <1>8. CASE k = 8
    <2> DEFINE e == Reports(w, d)
    <2>1. /\ e.accounts = d.accounts /\ e.targets = d.targets /\ e.configs = d.configs
          /\ e.releases = d.releases /\ e.cases = d.cases /\ e.procedures = d.procedures
          /\ e.results = d.results /\ e.defects = d.defects
      BY <1>0, ReportsFields
    <2>2. e.reports = d.reports ++ ReportRows(w)
      BY <1>0, ReportsFields
    <2>3. e.runs = d.runs ++ RunRows(w)
      BY <1>0, ReportsFields
    <2>4. /\ DOMAIN ReportRows(w) = Rids(w) /\ Rids(w) \subseteq DOMAIN F.reports
          /\ \A n \in Rids(w) : F.reports[n] = ReportRows(w)[n]
      <3>1. DOMAIN ReportRows(w) = Rids(w)
        BY DEF ReportRows
      <3> QED  BY <3>1, WholeFields
    <2>5. /\ DOMAIN RunRows(w) = RunsOf(w) /\ RunsOf(w) \subseteq DOMAIN F.runs
          /\ \A n \in RunsOf(w) : F.runs[n] = RunRows(w)[n]
      <3>1. DOMAIN RunRows(w) = RunsOf(w)
        BY DEF RunRows
      <3> QED  BY <3>1, WholeFields
    <2> DEFINE rows0 == ReportRows(w)
               rows1 == RunRows(w)
    <2> HIDE DEF e, F, rows0, rows1
    <2>6. Taken(d.reports, e.reports, F.reports)
      <3>1. e.reports = d.reports ++ rows0 /\ DOMAIN rows0 \subseteq DOMAIN F.reports /\
             \A n \in DOMAIN rows0 : F.reports[n] = rows0[n]
        BY <2>2, <2>4 DEF rows0
      <3> QED  BY <3>1 DEF Taken, ++
    <2>7. Taken(d.runs, e.runs, F.runs)
      <3>1. e.runs = d.runs ++ rows1 /\ DOMAIN rows1 \subseteq DOMAIN F.runs /\ \A n \in DOMAIN rows1 : F.runs[n] = rows1[n]
        BY <2>3, <2>5 DEF rows1
      <3> QED  BY <3>1 DEF Taken, ++
    <2>9. Sourced(d, e, w)
      BY <2>1, TakenSame, <2>6, <2>7 DEF Sourced, F
    <2> QED  BY <1>8, <2>9 DEF After, e
  <1>9. CASE k = 9
    <2> DEFINE e == Results(w, d)
               I == NewResults(w, d)
               lr == LostRows(w)
               er == EmptyRows(w)
               rr == ResultRows(w)
               ir == IssueRows(w, I)
    <2>1. /\ e.accounts = d.accounts /\ e.targets = d.targets /\ e.configs = d.configs /\ e.releases = d.releases
          /\ e.procedures = d.procedures /\ e.reports = d.reports
          /\ e.runs = d.runs ++ lr /\ e.cases = d.cases ++ er /\ e.results = d.results ++ rr /\ e.defects = d.defects ++ ir
      BY <1>0, ResultsFields
    <2>2. DOMAIN lr = Lost(w) /\ DOMAIN er = EmptyCase(w) /\ DOMAIN rr = ResultsOf(w) /\ DOMAIN ir = Issues(w, I)
      BY DEF LostRows, EmptyRows, ResultRows, IssueRows
    <2>3. /\ I \subseteq DOMAIN w.results /\ DOMAIN w.results \subseteq Nat
          /\ \A x \in Issues(w, I) : ir[x] = Owner(w, I, x)
          /\ \A s \in ResultsOf(w) \ DOMAIN d.results : RowFor(w, s) \in I
      BY NewRows DEF IssueRows, Closed
    <2>4. CasesOf(w) \subseteq DOMAIN d.cases /\ RunsOf(w) \subseteq DOMAIN d.runs
      BY <1>9 DEF Imported
    <2>5. /\ Lost(w) \subseteq DOMAIN F.runs /\ \A u \in Lost(w) : u \notin RunsOf(w) => F.runs[u] = lr[u]
          /\ EmptyCase(w) \subseteq DOMAIN F.cases /\ \A c \in EmptyCase(w) : c \notin CasesOf(w) => F.cases[c] = er[c]
          /\ ResultsOf(w) \subseteq DOMAIN F.results /\ \A s \in ResultsOf(w) : F.results[s] = rr[s]
      BY WholeFields
    <2> HIDE DEF e, F, lr, er, rr, ir, I
    <2>6. Taken(d.runs, e.runs, F.runs)
      BY <2>1, <2>2, <2>4, <2>5 DEF Taken, ++
    <2>7. Taken(d.cases, e.cases, F.cases)
      BY <2>1, <2>2, <2>4, <2>5 DEF Taken, ++
    <2>8. Taken(d.results, e.results, F.results)
      BY <2>1, <2>2, <2>5 DEF Taken, ++
    <2>10. Issued(d.defects, e.defects, w)
      <3> SUFFICES ASSUME NEW x \in DOMAIN e.defects, x \notin DOMAIN d.defects
                   PROVE  \E i \in DOMAIN w.results : e.defects[x] = ResultName(w, i) /\ x \in DefectNames(w, i)
        BY <2>1 DEF Issued, ++
      <3>1. x \in Issues(w, I) /\ e.defects[x] = Owner(w, I, x)
        BY <2>1, <2>2, <2>3 DEF ++
      <3> QED  BY <3>1, <2>3, OwnerFound
    <2>11. /\ DOMAIN e.results = DOMAIN d.results \cup ResultsOf(w) /\ DOMAIN e.defects = DOMAIN d.defects \cup Issues(w, I)
      BY <2>1, <2>2 DEF ++
    <2>12. ASSUME NEW s \in DOMAIN e.results, s \notin DOMAIN d.results
           PROVE  \E i \in DOMAIN w.results : ResultName(w, i) = s /\ DefectNames(w, i) \subseteq DOMAIN e.defects
      <3>1. s \in ResultsOf(w) /\ RowFor(w, s) \in I
        BY <2>3, <2>11, <2>12
      <3>2. RowFor(w, s) \in DOMAIN w.results /\ ResultName(w, RowFor(w, s)) = s
        BY <2>3, <3>1, ResultOfRow
      <3>3. DefectNames(w, RowFor(w, s)) \subseteq Issues(w, I)
        BY <3>1 DEF Issues
      <3> QED  BY <2>11, <3>2, <3>3
    <2>13. Sourced(d, e, w)
      BY <2>1, <2>6, <2>7, <2>8, <2>10, <2>11, <2>12, TakenSame DEF Sourced, F
    <2> QED  BY <1>9, <2>13 DEF After, e
  <1>10. k = 1 \/ k = 2 \/ k = 3 \/ k = 4 \/ k = 5 \/ k = 6 \/ k = 7 \/ k = 8 \/ k = 9
    OBVIOUS
  <1> QED  BY <1>1, <1>2, <1>3, <1>4, <1>5, <1>6, <1>7, <1>8, <1>9, <1>10

LEMMA FreshWhole ==
  ASSUME NEW e \in 1 .. Len(Editions)
  PROVE  Fresh[e] = Whole(Editions[e])
PROOF BY DEF Fresh

LEMMA ListedRow ==
  ASSUME NEW e, NEW f \in 1 .. e, NEW i \in DOMAIN Editions[f].results
  PROVE  DefectNames(Editions[f], i) \in Listed(ResultName(Editions[f], i), e)
PROOF BY DEF Listed

LEMMA ListedGrows ==
  ASSUME NEW s, NEW e, NEW f, 1 .. e \subseteq 1 .. f
  PROVE  Listed(s, e) \subseteq Listed(s, f)
PROOF BY DEF Listed

LEMMA InitOwn ==
  ASSUME Init
  PROVE  Own
PROOF
  <1>1. db = Empty
    BY DEF Init, ImportInit
  <1>2. Empty.accounts = {} /\ \A t \in Tables : DOMAIN Empty[t] = {}
    BY DEF Empty, Tables
  <1>3. DOMAIN Empty.results = {} /\ DOMAIN Empty.defects = {}
    BY DEF Empty
  <1> QED  BY <1>1, <1>2, <1>3 DEF Own

\* An import adds what its edition has, and nothing else writes unnoticed.
LEMMA OwnImport ==
  ASSUME Inv, Own, ImportStep
  PROVE  Own'
PROOF
  <1> DEFINE w == Editions[edition]
  <1>1. /\ next \in 1 .. 9 /\ db' = After(next, w, db) /\ edition' = edition /\ touched' = touched
    BY DEF ImportStep
  <1>2. edition \in 1 .. Len(Editions) /\ edition \in 1 .. edition
    <2>1. edition \in 1 .. Len(Editions)
      BY DEF Inv, Control
    <2> QED  BY <2>1
  <1>3. Closed(w) /\ Fresh[edition] = Whole(w)
    BY <1>2, WorkbookClosed, FreshWhole
  <1>4. Right(db) /\ Imported(next, w, db)
    BY DEF Inv
  <1> HIDE DEF w
  <1>5. Sourced(db, db', w)
    BY <1>1, <1>3, <1>4, StepSourced
  <1> SUFFICES ASSUME ~touched  PROVE
        /\ \A a \in db'.accounts : \E f \in 1 .. edition : a \in Fresh[f].accounts
        /\ \A t \in Tables : \A n \in DOMAIN db'[t] :
            \E f \in 1 .. edition : n \in DOMAIN Fresh[f][t] /\ db'[t][n] = Fresh[f][t][n]
        /\ \A x \in DOMAIN db'.defects : \E row \in Listed(db'.defects[x], edition) : x \in row
        /\ \A s \in DOMAIN db'.results : \E row \in Listed(s, edition) : row \subseteq DOMAIN db'.defects
    BY <1>1 DEF Own, From
  <1>6. /\ \A a \in db.accounts : \E f \in 1 .. edition : a \in Fresh[f].accounts
        /\ \A t \in Tables : \A n \in DOMAIN db[t] : \E f \in 1 .. edition : n \in DOMAIN Fresh[f][t] /\ db[t][n] = Fresh[f][t][n]
        /\ \A x \in DOMAIN db.defects : \E row \in Listed(db.defects[x], edition) : x \in row
        /\ \A s \in DOMAIN db.results : \E row \in Listed(s, edition) : row \subseteq DOMAIN db.defects
    BY DEF Own, From
  <1>7. \A a \in db'.accounts : \E f \in 1 .. edition : a \in Fresh[f].accounts
    <2>1. db'.accounts \subseteq db.accounts \cup Fresh[edition].accounts
      BY <1>3, <1>5 DEF Sourced
    <2> QED  BY <1>2, <1>6, <2>1
  <1>8. ASSUME NEW t \in Tables, NEW n \in DOMAIN db'[t]
        PROVE  \E f \in 1 .. edition : n \in DOMAIN Fresh[f][t] /\ db'[t][n] = Fresh[f][t][n]
    <2>1. Taken(db[t], db'[t], Fresh[edition][t])
      BY <1>3, <1>5 DEF Sourced, Tables
    <2>2. CASE n \in DOMAIN Fresh[edition][t] /\ db'[t][n] = Fresh[edition][t][n]
      BY <1>2, <2>2
    <2>3. CASE n \in DOMAIN db[t] /\ db'[t][n] = db[t][n]
      <3>1. PICK f \in 1 .. edition : n \in DOMAIN Fresh[f][t] /\ db[t][n] = Fresh[f][t][n]
        BY <1>6, <2>3
      <3> QED  BY <2>3, <3>1
    <2> QED  BY <2>1, <2>2, <2>3 DEF Taken
  <1>9. ASSUME NEW i \in DOMAIN w.results
        PROVE  DefectNames(w, i) \in Listed(ResultName(w, i), edition)
    BY <1>2, <1>9, ListedRow DEF w
  <1>10. ASSUME NEW x \in DOMAIN db'.defects
         PROVE  \E row \in Listed(db'.defects[x], edition) : x \in row
    <2>1. \/ x \in DOMAIN db.defects /\ db'.defects[x] = db.defects[x]
          \/ \E i \in DOMAIN w.results : db'.defects[x] = ResultName(w, i) /\ x \in DefectNames(w, i)
      BY <1>5 DEF Sourced, Issued
    <2> QED  BY <1>6, <1>9, <2>1
  <1>11. ASSUME NEW s \in DOMAIN db'.results
         PROVE  \E row \in Listed(s, edition) : row \subseteq DOMAIN db'.defects
    <2>1. CASE s \in DOMAIN db.results
      <3>1. DOMAIN db.defects \subseteq DOMAIN db'.defects
        BY <1>5 DEF Sourced
      <3>2. PICK row \in Listed(s, edition) : row \subseteq DOMAIN db.defects
        BY <1>6, <2>1
      <3> QED  BY <3>1, <3>2
    <2>2. CASE s \notin DOMAIN db.results
      <3>1. PICK i \in DOMAIN w.results : ResultName(w, i) = s /\ DefectNames(w, i) \subseteq DOMAIN db'.defects
        BY <1>5, <2>2 DEF Sourced
      <3> QED  BY <1>9, <3>1
    <2> QED  BY <2>1, <2>2
  <1> QED  BY <1>7, <1>8, <1>10, <1>11

LEMMA OwnSame ==
  ASSUME Own, db' = db, touched' = touched, edition \in Nat, edition' \in {edition, edition + 1}
  PROVE  Own'
PROOF
  <1>1. 1 .. edition \subseteq 1 .. edition'
    OBVIOUS
  <1> HIDE DEF Fresh
  <1>2. CASE touched
    BY <1>2 DEF Own
  <1>3. CASE ~touched
    <2>1. \A a \in db'.accounts : \E f \in 1 .. edition' : a \in Fresh[f].accounts
      BY <1>1, <1>3 DEF Own
    <2>2. \A t \in Tables : \A n \in DOMAIN db'[t] :
           \E f \in 1 .. edition' : n \in DOMAIN Fresh[f][t] /\ db'[t][n] = Fresh[f][t][n]
      BY <1>1, <1>3 DEF Own, From
    <2>3. \A s : Listed(s, edition) \subseteq Listed(s, edition')
      BY <1>1, ListedGrows
    <2>4. \A x \in DOMAIN db'.defects : \E row \in Listed(db'.defects[x], edition') : x \in row
      BY <1>3, <2>3 DEF Own
    <2>5. \A s \in DOMAIN db'.results : \E row \in Listed(s, edition') : row \subseteq DOMAIN db'.defects
      BY <1>3, <2>3 DEF Own
    <2> QED  BY <2>1, <2>2, <2>4, <2>5 DEF Own, From
  <1> QED  BY <1>2, <1>3

LEMMA OwnStep ==
  ASSUME Inv, Own, [Next]_vars
  PROVE  Own'
PROOF
  <1>1. Control /\ edition \in Nat
    <2>1. edition \in 1 .. Len(Editions)
      BY DEF Inv, Control
    <2> QED  BY <2>1 DEF Inv
  <1>2. ASSUME touched'  PROVE Own'
    BY <1>2 DEF Own
  <1>3. CASE Import
    <2>1. CASE ImportStep
      BY <2>1, OwnImport
    <2>2. CASE ImportEnd \/ ImportCrash \/ Correct \/ ImportStart
      <3>1. db' = db /\ touched' = touched /\ edition' \in {edition, edition + 1}
        BY <2>2 DEF ImportEnd, ImportCrash, Correct, ImportStart
      <3> QED  BY <1>1, <3>1, OwnSame
    <2> QED  BY <1>3, <2>1, <2>2 DEF Import
  <1>4. CASE Merge \/ Break
    <2>1. touched'
      BY <1>1, <1>4 DEF Merge, Break, Control
    <2> QED  BY <1>2, <2>1
  <1>5. CASE Checkpoint \/ UNCHANGED vars
    <2>1. db' = db /\ touched' = touched /\ edition' = edition
      BY <1>5 DEF Checkpoint, vars
    <2> QED  BY <1>1, <2>1, OwnSame
  <1>6. CASE MergeTargetsStart \/ MergeEnvironmentsStart \/ ServerStart \/ Register \/ OpenDefect
    <2>1. touched'
      BY <1>6 DEF MergeTargetsStart, MergeEnvironmentsStart, ServerStart, Register, OpenDefect, Serve
    <2> QED  BY <1>2, <2>1
  <1>7. ASSUME NEW d, Script(d)  PROVE touched'
    BY <1>7 DEF Script
  <1>8. CASE DropOldTargets  BY <1>2, <1>7, <1>8 DEF DropOldTargets
  <1>9. CASE AddMissingTargets  BY <1>2, <1>7, <1>9 DEF AddMissingTargets
  <1>10. CASE EnvPrefix
    <2>1. touched'
      BY <1>10 DEF EnvPrefix, Script
    <2> QED  BY <1>2, <2>1
  <1>11. CASE Relink  BY <1>2, <1>7, <1>11 DEF Relink
  <1>12. CASE ShowColumn  BY <1>2, <1>7, <1>12 DEF ShowColumn
  <1>13. CASE ApToRouter
    <2>1. touched'
      BY <1>13 DEF ApToRouter, Script
    <2> QED  BY <1>2, <2>1
  <1>14. CASE CasesByTopology
    <2>1. touched'
      BY <1>14 DEF CasesByTopology, Script
    <2> QED  BY <1>2, <2>1
  <1>15. CASE FixAbnormalCases
    <2>1. touched'
      BY <1>15 DEF FixAbnormalCases, Script
    <2> QED  BY <1>2, <2>1
  <1>16. CASE AddRounds  BY <1>2, <1>7, <1>16 DEF AddRounds
  <1>17. CASE StripPrefix
    <2>1. touched'
      BY <1>17 DEF StripPrefix, Script
    <2> QED  BY <1>2, <2>1
  <1>18. CASE RoundsTable  BY <1>2, <1>7, <1>18 DEF RoundsTable
  <1> QED  BY <1>3, <1>4, <1>5, <1>6, <1>8, <1>9, <1>10, <1>11, <1>12, <1>13, <1>14, <1>15, <1>16, <1>17, <1>18 DEF Next

\* Everything that an import that runs to its end asks for is there.
LEMMA AllThere ==
  ASSUME Inv, Own, next = 10, ~touched
  PROVE  LET now == Fresh[edition] IN
         /\ now.accounts \subseteq db.accounts
         /\ \A t \in Tables : DOMAIN now[t] \subseteq DOMAIN db[t]
PROOF
  <1> DEFINE w == Editions[edition]
             F == Whole(w)
  <1>1. edition \in 1 .. Len(Editions) /\ F = Fresh[edition]
    BY FreshWhole DEF Inv, Control
  <1>2. Imported(10, w, db)
    BY DEF Inv
  <1>3. /\ <<"project">> \in db.accounts /\ {<<"user", u>> : u \in {"migration"} \cup w.testers} \subseteq db.accounts
        /\ <<"member", "migration">> \in db.accounts
        /\ LinesOf(w) \subseteq DOMAIN db.targets /\ Names(w) \subseteq DOMAIN db.configs
        /\ Released(w) \cup {Fallback} \subseteq DOMAIN db.releases
        /\ CasesOf(w) \subseteq DOMAIN db.cases /\ StepsOf(w) \subseteq DOMAIN db.procedures
        /\ Rids(w) \subseteq DOMAIN db.reports /\ RunsOf(w) \subseteq DOMAIN db.runs /\ Lost(w) \subseteq DOMAIN db.runs
        /\ {CaseFor(w, i) : i \in DOMAIN w.results} \subseteq DOMAIN db.cases
        /\ {ResultName(w, i) : i \in DOMAIN w.results} \subseteq DOMAIN db.results
    <2> HIDE DEF w
    <2> QED  BY <1>2 DEF Imported
  <1>4. ResultsOf(w) \subseteq DOMAIN db.results /\ EmptyCase(w) \subseteq DOMAIN db.cases
    <2> HIDE DEF w
    <2> QED  BY <1>3 DEF ResultsOf, EmptyCase
  <1>6. /\ F.accounts = {<<"project">>} \cup {<<"user", u>> : u \in {"migration"} \cup w.testers} \cup {<<"member", "migration">>}
        /\ DOMAIN F.targets = LinesOf(w) /\ DOMAIN F.configs = Names(w) /\ DOMAIN F.releases = Released(w) \cup {Fallback}
        /\ DOMAIN F.cases = CasesOf(w) \cup EmptyCase(w) /\ DOMAIN F.procedures = StepsOf(w)
        /\ DOMAIN F.reports = Rids(w) /\ DOMAIN F.runs = RunsOf(w) \cup Lost(w) /\ DOMAIN F.results = ResultsOf(w)
    BY WholeFields
  <1> HIDE DEF w, F
  <1>7. F.accounts \subseteq db.accounts
    BY <1>3, <1>6
  <1>8. ASSUME NEW t \in Tables  PROVE DOMAIN F[t] \subseteq DOMAIN db[t]
    <2>1. /\ DOMAIN F.targets \subseteq DOMAIN db.targets /\ DOMAIN F.configs \subseteq DOMAIN db.configs
          /\ DOMAIN F.releases \subseteq DOMAIN db.releases /\ DOMAIN F.cases \subseteq DOMAIN db.cases
          /\ DOMAIN F.procedures \subseteq DOMAIN db.procedures /\ DOMAIN F.reports \subseteq DOMAIN db.reports
          /\ DOMAIN F.runs \subseteq DOMAIN db.runs /\ DOMAIN F.results \subseteq DOMAIN db.results
      BY <1>3, <1>4, <1>6
    <2> QED  BY <2>1 DEF Tables
  <1> QED  BY <1>1, <1>7, <1>8

\* What an import has put there so far, and where the rows are from that only imports
\* have written: for every workbook, edition and crash.
THEOREM ImportInvariant == Spec => []Inductive
PROOF
  <1>1. Init => Inductive
    BY InitInv, InitOwn DEF Inductive
  <1>2. Inductive /\ [Next]_vars => Inductive'
    <2>1. ASSUME Inductive, Next  PROVE Inductive'
      BY <2>1, NextStep, OwnStep DEF Inductive
    <2>2. ASSUME Inductive, UNCHANGED vars  PROVE Inductive'
      <3>1. Inv'
        BY <2>2 DEF vars, Inductive, Inv, Control, Merging
      <3>2. Own'
        BY <2>2, OwnStep DEF Inductive
      <3> QED  BY <3>1, <3>2 DEF Inductive
    <2> QED  BY <2>1, <2>2
  <1> QED  BY <1>1, <1>2, PTL DEF Spec

\* An import that was broken off anywhere, and as often, also between two editions of
\* the workbook, has in the end put there what one import does, and no other row than
\* an edition asks for (migrate_excel_to_db.py: every insert is guarded by exists).  Of
\* defects that is: each is about a result whose row lists its issue, and those of a
\* result exist, though perhaps about another result of its number (line 993).
THEOREM ImportResumes == Spec => []Resumed
PROOF
  <1>1. ASSUME Inductive  PROVE Resumed
    <2> SUFFICES ASSUME next = 10, ~touched
                 PROVE  LET earlier == {Fresh[e] : e \in 1 .. edition}
                            now     == Fresh[edition]
                        IN  /\ now.accounts \subseteq db.accounts /\ db.accounts \subseteq UNION {w.accounts : w \in earlier}
                            /\ \A t \in Tables :
                                 /\ DOMAIN now[t] \subseteq DOMAIN db[t]
                                 /\ \A n \in DOMAIN db[t] : \E w \in earlier : n \in DOMAIN w[t] /\ db[t][n] = w[t][n]
                            /\ \A x \in DOMAIN db.defects : \E row \in Listed(db.defects[x], edition) : x \in row
                            /\ \A s \in DOMAIN db.results : \E row \in Listed(s, edition) : row \subseteq DOMAIN db.defects
      BY DEF Resumed
    <2>1. /\ Fresh[edition].accounts \subseteq db.accounts
          /\ \A t \in Tables : DOMAIN Fresh[edition][t] \subseteq DOMAIN db[t]
      BY <1>1, AllThere DEF Inductive
    <2>2. /\ \A a \in db.accounts : \E f \in 1 .. edition : a \in Fresh[f].accounts
          /\ \A t \in Tables : \A n \in DOMAIN db[t] :
              \E f \in 1 .. edition : n \in DOMAIN Fresh[f][t] /\ db[t][n] = Fresh[f][t][n]
      BY <1>1 DEF Inductive, Own, From
    <2>5. /\ \A x \in DOMAIN db.defects : \E row \in Listed(db.defects[x], edition) : x \in row
          /\ \A s \in DOMAIN db.results : \E row \in Listed(s, edition) : row \subseteq DOMAIN db.defects
      BY <1>1 DEF Inductive, Own
    <2> DEFINE earlier == {Fresh[e] : e \in 1 .. edition}
    <2>3. db.accounts \subseteq UNION {w.accounts : w \in earlier}
      BY <2>2
    <2>4. ASSUME NEW t \in Tables, NEW n \in DOMAIN db[t]
          PROVE  \E w \in earlier : n \in DOMAIN w[t] /\ db[t][n] = w[t][n]
      BY <2>2, <2>4
    <2> QED  BY <2>1, <2>3, <2>4, <2>5
  <1> QED  BY <1>1, ImportInvariant, PTL
=============================================================================
