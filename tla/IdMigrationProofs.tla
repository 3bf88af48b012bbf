------------------------- MODULE IdMigrationProofs -------------------------
(***************************************************************************)
(* Proofs about IdMigration, for all releases, runs, results, cases and    *)
(* reports: whatever order the scripts are run in and wherever they are    *)
(* broken off, nothing is lost and identifiers tell where a result lies.   *)
(***************************************************************************)
EXTENDS IdMigration, FiniteSetTheorems, WellFoundedInduction, TLAPS

\* Results lie in runs and cases, procedures in cases.
Placed(d) ==
  /\ \A n \in DOMAIN d.results : /\ d.results[n].run \in DOMAIN d.runs
                                 /\ d.results[n].case \in DOMAIN d.cases
  /\ \A q \in DOMAIN d.procedures : d.procedures[q].case \in DOMAIN d.cases

\* Every result of the beginning is one row.
Same(d) ==
  /\ {d.results[n].was : n \in DOMAIN d.results} = DOMAIN given.results
  /\ \A m, n \in DOMAIN d.results : d.results[m].was = d.results[n].was => m = n

\* What refers to a result, refers to the row that was s.
At(d, n, s) == n \in DOMAIN d.results /\ d.results[n].was = s
Lost(d, x)  == x \in Opened /\ d.defects[x].result \notin DOMAIN d.results
Referred(d) ==
  /\ \A j \in DOMAIN given.judged : At(d, d.judged[j].result, given.judged[j].result)
  /\ \A e \in DOMAIN given.evidence : At(d, d.evidence[e], given.evidence[e])
  /\ \A x \in DOMAIN d.defects : /\ Lost(d, x) \/ At(d, d.defects[x].result, about[x])
                                 /\ about[x] \in DOMAIN given.results
  /\ \A x \in DOMAIN given.defects :
       /\ x \in DOMAIN d.defects
       /\ given.defects[x].retest # None => At(d, d.defects[x].retest, given.defects[x].retest)

\* 15-4 has not been applied, or has made every identifier anew.
First(d) ==
  /\ d.results = given.results /\ d.cases = given.cases /\ d.procedures = given.procedures
  /\ d.judged = given.judged /\ d.evidence = given.evidence
Unopened(d) == First(d) => \A x \in DOMAIN d.defects : d.defects[x].result \in DOMAIN d.results
Second(d) == \A r \in DOMAIN d.runs : Len(r) > 1 /\ d.runs[r].key = None

\* A judgement is about a step of the number that it was about, in the case of its
\* result, if that has not been split.
Stepped(d) ==
  \A j \in DOMAIN given.judged :
    /\ d.judged[j].procedure \in DOMAIN d.procedures
    /\ d.procedures[d.judged[j].procedure].sequence
         = given.procedures[given.judged[j].procedure].sequence

\* What was planned is what the database still asks for.
Ready(d, p) ==
  /\ d.released
  /\ DOMAIN p.name = Named(d)
  /\ \A r \in Named(d) : KeyOf(d, r) # None /\ Len(p.name[r]) = 2
  /\ \A r, q \in Named(d) : p.name[r] = p.name[q] => r = q
  /\ \A s, t \in DOMAIN d.results : NewResult(d, p.name, s) = NewResult(d, p.name, t) => s = t
  /\ \A b, c \in UsedCases(d) : NewCases(d, b) \cap NewCases(d, c) # {} => b = c
  /\ \A c \in UsedCases(d) : p.first[c] \in NewCases(d, c)
  /\ DOMAIN given.defects \subseteq p.defects
  /\ p.defects \subseteq DOMAIN d.defects /\ (DOMAIN d.defects) \ p.defects \subseteq Opened
  /\ \A x \in p.defects :
       {d.defects[x].result, d.defects[x].retest} \subseteq (DOMAIN d.results) \cup {None}

\* What 15-5 has checked before it began
Resolved(d) ==
  /\ d.released
  /\ \A r \in DOMAIN d.runs : ResolvedRound(d, d.runs[r].release) \in Canonical
  /\ \A x \in DOMAIN d.reports : ResolvedRound(d, d.reports[x].release) \in Canonical

Ended(d) == /\ \A r \in DOMAIN d.runs : d.runs[r].round \in Canonical
            /\ \A x \in DOMAIN d.reports : d.reports[x].round \in Canonical

\* The rounds that stay, through every repetition of 15-1
Standing(d) ==
  /\ given.rounds \ (Shell \cup {OldName}) \subseteq d.rounds
  /\ OldName \in given.rounds => {OldName, NewName} \cap d.rounds # {}

Told(d) ==
  \A n \in DOMAIN d.results :
    LET case == d.results[n].case IN
    Len(case) > 1 /\ case[1] # None /\ ~late => case[1] = RoundOfRun(d, d.results[n].run)

Types == /\ Formed(db) /\ given \in Databases
         /\ at \in {"rest", "planned", "rebuilding"} /\ late \in BOOLEAN
         /\ about = [x \in DOMAIN db.defects |-> about[x]]

Inductive ==
  /\ Types /\ Placed(db) /\ Same(db) /\ Referred(db) /\ Unopened(db) /\ Stepped(db) /\ StepsKept
  /\ First(db) \/ Second(db)
  /\ at = "planned" => Ready(db, plan)
  /\ at = "rebuilding" => Resolved(db)
  /\ db.released \/ Ended(db)
  /\ Told(db) /\ RoundsKept /\ Standing(db)

-----------------------------------------------------------------------------
\* Rounds

LEMMA MinExists ==
  ASSUME NEW N \in SUBSET Nat, IsFiniteSet(N), N # {}
  PROVE  Min(N) \in N
PROOF
  <1> DEFINE Below(x) == {y \in N : y < x}
             T == {Below(x) : x \in N}
             R == StrictSubsetOrdering(N)
  <1>1. IsWellFoundedOn(R, SUBSET N)
    BY FS_StrictSubsetOrderingWellFounded, FS_FiniteSubsetsOfFinite
  <1>2. T \subseteq SUBSET N /\ T # {}
    OBVIOUS
  <1>3. PICK A \in T : \A B \in T : ~(<<B, A>> \in R)
    <2> HIDE DEF T, R
    <2> QED  BY <1>1, <1>2, WFMin
  <1>4. PICK x \in N : A = Below(x)
    OBVIOUS
  <1>5. \A y \in N : x =< y
    <2> SUFFICES ASSUME NEW y \in N, y < x  PROVE FALSE
      OBVIOUS
    <2>0. Below(y) \in T
      OBVIOUS
    <2>1. Below(y) \subseteq A /\ y \in A /\ y \notin Below(y)
      <3>1. x \in Int /\ y \in Int /\ \A z \in N : z \in Int
        OBVIOUS
      <3>2. ~(y < y) /\ \A z \in N : z < y => z < x
        BY <3>1
      <3> QED  BY <1>4, <3>2
    <2>2. <<Below(y), A>> \in R
      BY <2>1, <1>4 DEF StrictSubsetOrdering
    <2> QED  BY <2>0, <2>2, <1>3
  <1> QED  BY <1>5 DEF Min

\* The round that is found upstream is that of a release, and a release with a round
\* has no other.
LEMMA ResolvedFacts ==
  ASSUME NEW d, NEW r \in Release
  PROVE  /\ ResolvedRound(d, r) \in {d.round[x] : x \in Release} \cup {None}
         /\ d.round[r] # None => ResolvedRound(d, r) = d.round[r]
PROOF
  <1> DEFINE has == {n \in 1..Cardinality(Release) : Up[n][r] \in Release /\ d.round[Up[n][r]] # None}
  <1>1. CASE d.round[r] # None
    BY <1>1 DEF ResolvedRound
  <1>2. CASE d.round[r] = None /\ has = {}
    BY <1>2 DEF ResolvedRound
  <1>3. CASE d.round[r] = None /\ has # {}
    <2>1. Cardinality(Release) \in Nat
      BY MigrationAssumption, FS_CardinalityType
    <2>2. has \in SUBSET Nat /\ has \subseteq 1..Cardinality(Release)
      BY <2>1
    <2>3. IsFiniteSet(1..Cardinality(Release))
      BY <2>1, FS_Interval
    <2>4. IsFiniteSet(has)
      BY <2>2, <2>3, FS_Subset
    <2>5. ResolvedRound(d, r) = d.round[Up[Min(has)][r]]
      BY <1>3 DEF ResolvedRound
    <2>6. Min(has) \in has
      <3> HIDE DEF has
      <3> QED  BY <1>3, <2>2, <2>4, MinExists
    <2> QED  BY <1>3, <2>5, <2>6
  <1> QED  BY <1>1, <1>2, <1>3

LEMMA ResolvedSame ==
  ASSUME NEW d, NEW e, d.round = e.round, NEW r
  PROVE  ResolvedRound(d, r) = ResolvedRound(e, r)
PROOF
  BY DEF ResolvedRound

-----------------------------------------------------------------------------
\* Steps that leave runs and results alone

LEMMA RowIs ==
  ASSUME NEW d, \A m, n \in DOMAIN d.results : d.results[m].was = d.results[n].was => m = n,
         NEW n, NEW s, At(d, n, s)
  PROVE  (CHOOSE m \in DOMAIN d.results : d.results[m].was = s) = n
PROOF
  BY DEF At

\* What a script does to the rounds, the defects or the releases does not touch the rows.
Alike(d, e) ==
  /\ DOMAIN e.runs = DOMAIN d.runs
  /\ \A r \in DOMAIN d.runs : /\ e.runs[r].release = d.runs[r].release
                             /\ e.runs[r].key = d.runs[r].key /\ e.runs[r].legacy = d.runs[r].legacy
  /\ e.results = d.results /\ e.cases = d.cases
  /\ e.procedures = d.procedures /\ e.judged = d.judged /\ e.evidence = d.evidence

LEMMA RowsStill ==
  ASSUME Inductive, given' = given, Alike(db, db')
  PROVE  Placed(db)' /\ Same(db)' /\ Stepped(db)' /\ StepsKept' /\ (First(db) \/ Second(db))'
PROOF
  <1>1. Placed(db)' /\ Same(db)' /\ Stepped(db)'
    BY DEF Inductive, Alike, Placed, Same, Stepped
  <1>2. \A s : Row(s)' = Row(s)
    BY DEF Row, Alike
  <1>3. \A c : Split(c)' = Split(c)
    BY <1>2 DEF Split, Alike
  <1>4. StepsKept'
    BY <1>3 DEF Inductive, StepsKept, Alike
  <1>5. (First(db) \/ Second(db))'
    BY DEF Inductive, Alike, First, Second
  <1> QED  BY <1>1, <1>4, <1>5

LEMMA ReferencesStill ==
  ASSUME Inductive, given' = given, about' = about, Alike(db, db'), db'.defects = db.defects
  PROVE  Referred(db)' /\ Unopened(db)'
PROOF
  <1>1. \A n, s : At(db, n, s)' = At(db, n, s)
    BY DEF At, Alike
  <1>2. \A x : Lost(db, x)' = Lost(db, x)
    BY DEF Lost, Alike
  <1>3. Unopened(db)'
    BY DEF Inductive, Unopened, First, Alike
  <1> QED  BY <1>1, <1>2, <1>3 DEF Inductive, Referred, Alike

Tables == {"rounds", "round", "runs", "results", "cases", "procedures", "judged",
           "defects", "evidence", "reports", "released", "leftover"}

LEMMA FormedStill ==
  ASSUME Formed(db), Alike(db, db'), IsRecord(db', Tables),
         IsTable(db'.runs, {"release", "key", "legacy", "round"}),
         IsTable(db'.reports, {"release", "round"}),
         \A x \in DOMAIN db'.reports : db'.reports[x].release \in Release,
         db'.round = [r \in Release |-> db'.round[r]]
  PROVE  Formed(db')
PROOF
  BY DEF Formed, Alike, Tables

LEMMA InitInductive == Init => Inductive
PROOF
  <1> SUFFICES ASSUME Init
               PROVE  Inductive
    OBVIOUS
  <1>1. Untouched(db) /\ given = db /\ given \in Databases
    BY MigrationAssumption DEF Init
  <1>2. about = [x \in DOMAIN db.defects |-> about[x]] /\ \A x \in DOMAIN db.defects : about[x] = db.defects[x].result
    BY DEF Init
  <1>3. at = "rest" /\ late = FALSE
    BY DEF Init
  <1>4. Types /\ Placed(db)
    BY <1>1, <1>2, <1>3 DEF Types, Placed, Untouched
  <1>5. \A n \in DOMAIN db.results : db.results[n].was = n
    BY <1>1 DEF Untouched
  <1>6. Same(db)
    BY <1>1, <1>5 DEF Same
  <1>7. Referred(db)
    <2>1. \A n \in DOMAIN db.results : At(db, n, n)
      BY <1>5 DEF At
    <2>2. \A j \in DOMAIN given.judged : At(db, db.judged[j].result, given.judged[j].result)
      BY <1>1, <2>1 DEF Untouched
    <2>3. \A e \in DOMAIN given.evidence : At(db, db.evidence[e], given.evidence[e])
      BY <1>1, <2>1 DEF Untouched
    <2>4. \A x \in DOMAIN db.defects : /\ At(db, db.defects[x].result, about[x])
                                      /\ about[x] \in DOMAIN given.results
      BY <1>1, <1>2, <2>1 DEF Untouched
    <2>5. \A x \in DOMAIN given.defects :
            /\ x \in DOMAIN db.defects
            /\ given.defects[x].retest # None => At(db, db.defects[x].retest, given.defects[x].retest)
      BY <1>1, <2>1 DEF Untouched
    <2> QED  BY <2>2, <2>3, <2>4, <2>5 DEF Referred
  <1>7a. Unopened(db)
    BY <1>1 DEF Unopened, Untouched
  <1>8. Stepped(db)
    BY <1>1 DEF Stepped, Untouched
  <1>9. StepsKept
    BY <1>1 DEF StepsKept, Untouched
  <1>10. First(db)
    BY <1>1 DEF First
  <1>11. Told(db)
    <2> SUFFICES ASSUME NEW n \in DOMAIN db.results, Len(db.results[n].case) > 1
                 PROVE  FALSE
      BY DEF Told
    <2>1. Len(db.results[n].case) = 1
      BY <1>1 DEF Untouched
    <2> QED  BY <2>1
  <1>12. Standing(db)
    BY <1>1 DEF Standing
  <1>13. RoundsKept
    BY <1>1 DEF RoundsKept, Untouched
  <1>14. db.released
    BY <1>1 DEF Untouched
  <1> QED  BY <1>3, <1>4, <1>6, <1>7, <1>7a, <1>8, <1>9, <1>10, <1>11, <1>12,
          <1>13, <1>14 DEF Inductive

LEMMA IdleStep ==
  ASSUME Inductive, UNCHANGED <<db, given, about, late>>,
         (at' = at /\ plan' = plan) \/ at' = "rest"
  PROVE  Inductive'
PROOF
  <1>1. Types'
    BY DEF Inductive, Types
  <1>2. /\ Placed(db)' /\ Same(db)' /\ Referred(db)' /\ Unopened(db)' /\ Stepped(db)'
        /\ (First(db) \/ Second(db))'
    BY DEF Inductive, Placed, Same, Referred, Unopened, At, Lost, Stepped, First, Second
  <1>3. StepsKept' /\ Standing(db)'
    <2>1. \A s : Row(s)' = Row(s)
      BY DEF Row
    <2>2. \A c : Split(c)' = Split(c)
      BY <2>1 DEF Split
    <2> QED  BY <2>2 DEF Inductive, StepsKept, Standing
  <1>3a. RoundsKept'
    BY DEF Inductive, RoundsKept
  <1>4. Told(db)' /\ (db.released \/ Ended(db))'
    BY DEF Inductive, Told, Ended
  <1>5. (at = "planned" => Ready(db, plan))'
    BY DEF Inductive, Ready
  <1>6. (at = "rebuilding" => Resolved(db))'
    BY DEF Inductive
  <1> QED  BY <1>1, <1>2, <1>3, <1>3a, <1>4, <1>5, <1>6 DEF Inductive

LEMMA BreakStep ==
  ASSUME Inductive, Break
  PROVE  Inductive'
PROOF
  BY IdleStep DEF Break

\* A defect is opened on a row that is there, and is not among those that were planned.
LEMMA OpenStep ==
  ASSUME Inductive, OpenDefect
  PROVE  Inductive'
PROOF
  <1>1. PICK x \in Opened \ (DOMAIN db.defects), s \in DOMAIN db.results :
          /\ db' = [db EXCEPT !.defects = [y \in (DOMAIN @) \cup {x} |->
                                             IF y = x THEN [result |-> s, retest |-> None] ELSE @[y]]]
          /\ about' = [y \in (DOMAIN about) \cup {x} |-> IF y = x THEN db.results[s].was ELSE about[y]]
    BY DEF OpenDefect
  <1>2. UNCHANGED <<given, at, plan, late>>
    BY DEF OpenDefect
  <1> DEFINE defects == [y \in (DOMAIN db.defects) \cup {x} |->
                           IF y = x THEN [result |-> s, retest |-> None] ELSE db.defects[y]]
  <1>3. Formed(db) /\ db.round = [r \in Release |-> db.round[r]]
    BY DEF Inductive, Types, Formed
  <1>4. /\ db'.rounds = db.rounds /\ db'.round = db.round /\ db'.defects = defects
        /\ db'.leftover = db.leftover /\ Alike(db, db') /\ db'.reports = db.reports
        /\ db'.released = db.released /\ db'.runs = db.runs /\ Formed(db')
    <2>1. db' = [db EXCEPT !.defects = defects]
      BY <1>1
    <2> HIDE DEF defects
    <2>2. /\ db'.rounds = db.rounds /\ db'.round = db.round /\ db'.defects = defects
          /\ db'.leftover = db.leftover /\ Alike(db, db') /\ db'.reports = db.reports
          /\ db'.released = db.released /\ db'.runs = db.runs /\ IsRecord(db', Tables)
      BY <1>3, <2>1 DEF Formed, IsRecord, Alike, Tables
    <2> QED  BY <1>3, <2>2, FormedStill DEF Formed
  <1>5. /\ DOMAIN db'.defects = (DOMAIN db.defects) \cup {x}
        /\ db'.defects[x] = [result |-> s, retest |-> None]
        /\ \A y \in DOMAIN db.defects : db'.defects[y] = db.defects[y]
    BY <1>1, <1>4
  <1>6. /\ DOMAIN about' = (DOMAIN about) \cup {x} /\ about'[x] = db.results[s].was
        /\ \A y \in DOMAIN about : y # x => about'[y] = about[y]
        /\ about' = [y \in DOMAIN about' |-> about'[y]]
    BY <1>1
  <1>7. DOMAIN about = DOMAIN db.defects
    BY DEF Inductive, Types
  <1> HIDE DEF defects
  <1>8. Types'
    BY <1>2, <1>4, <1>5, <1>6, <1>7 DEF Inductive, Types
  <1>9. Placed(db)' /\ Same(db)' /\ Stepped(db)' /\ StepsKept' /\ (First(db) \/ Second(db))'
    BY <1>2, <1>4, RowsStill
  <1>10. Referred(db)'
    <2>1. \A n, r : At(db, n, r)' = At(db, n, r)
      BY <1>4 DEF At, Alike
    <2>2. \A y \in DOMAIN db.defects : Lost(db, y)' = Lost(db, y)
      BY <1>4, <1>5 DEF Lost, Alike
    <2>3. At(db, s, db.results[s].was) /\ db.results[s].was \in DOMAIN given.results
      BY <1>3 DEF At, Inductive, Same
    <2>4. \A y \in DOMAIN db'.defects : /\ Lost(db, y)' \/ At(db, db.defects[y].result, about[y])'
                                       /\ about'[y] \in DOMAIN given.results
      <3> SUFFICES ASSUME NEW y \in DOMAIN db'.defects
                   PROVE  /\ Lost(db, y)' \/ At(db', db'.defects[y].result, about'[y])
                          /\ about'[y] \in DOMAIN given.results
        OBVIOUS
      <3>1. CASE y = x
        BY <1>5, <1>6, <2>1, <2>3, <3>1
      <3>2. CASE y # x
        <4>1. y \in DOMAIN db.defects /\ db'.defects[y] = db.defects[y] /\ about'[y] = about[y]
          BY <1>5, <1>6, <1>7, <3>2
        <4>2. (Lost(db, y) \/ At(db, db.defects[y].result, about[y])) /\ about[y] \in DOMAIN given.results
          BY <4>1 DEF Inductive, Referred
        <4> QED  BY <2>1, <2>2, <4>1, <4>2
      <3> QED  BY <3>1, <3>2
    <2>5. \A j \in DOMAIN given.judged : At(db', db'.judged[j].result, given.judged[j].result)
      BY <1>4, <2>1 DEF Inductive, Referred, Alike
    <2>6. \A e \in DOMAIN given.evidence : At(db', db'.evidence[e], given.evidence[e])
      BY <1>4, <2>1 DEF Inductive, Referred, Alike
    <2>7. \A y \in DOMAIN given.defects :
            /\ y \in DOMAIN db'.defects
            /\ given.defects[y].retest # None => At(db', db'.defects[y].retest, given.defects[y].retest)
      BY <1>5, <2>1 DEF Inductive, Referred
    <2> QED  BY <1>2, <2>4, <2>5, <2>6, <2>7 DEF Referred
  <1>10a. Unopened(db)'
    BY <1>2, <1>4, <1>5 DEF Inductive, Unopened, First, Alike
  <1>11. (at = "planned" => Ready(db, plan))'
    <2> SUFFICES ASSUME Ready(db, plan)
                 PROVE  Ready(db, plan)'
      BY <1>2 DEF Inductive
    <2>1. /\ Named(db)' = Named(db) /\ UsedCases(db)' = UsedCases(db)
          /\ \A r \in Named(db) : KeyOf(db, r)' = KeyOf(db, r)
          /\ \A t : NewResult(db, plan.name, t)' = NewResult(db, plan.name, t)
      BY <1>2, <1>4 DEF Named, RunsOf, UsedCases, KeyOf, NewResult, Alike
    <2>2. \A c : NewCases(db, c)' = NewCases(db, c)
      BY <1>4 DEF NewCases, NewCase, ReleaseOf, Alike
    <2>3. /\ DOMAIN given.defects \subseteq plan.defects
          /\ plan.defects \subseteq DOMAIN db'.defects /\ (DOMAIN db'.defects) \ plan.defects \subseteq Opened
          /\ \A y \in plan.defects :
               {db'.defects[y].result, db'.defects[y].retest} \subseteq (DOMAIN db'.results) \cup {None}
      BY <1>4, <1>5 DEF Ready, Alike
    <2> QED  BY <1>2, <1>4, <2>1, <2>2, <2>3 DEF Ready, Alike
  <1>12. (at = "rebuilding" => Resolved(db))' /\ (db.released \/ Ended(db))'
    BY <1>2, <1>4, ResolvedSame DEF Inductive, Resolved, Ended, Alike
  <1>13. Told(db)'
    <2>1. \A r : RoundOfRun(db, r)' = RoundOfRun(db, r)
      BY <1>4, ResolvedSame DEF RoundOfRun, Alike
    <2> QED  BY <1>2, <1>4, <2>1 DEF Inductive, Told, Alike
  <1>14. RoundsKept' /\ Standing(db)'
    BY <1>2, <1>4 DEF Inductive, RoundsKept, Standing, Alike
  <1> QED  BY <1>8, <1>9, <1>10, <1>10a, <1>11, <1>12, <1>13, <1>14 DEF Inductive

\* Steps of the scripts that change no row.
LEMMA Unmoved ==
  ASSUME Inductive, Alike(db, db'), db'.defects = db.defects, Formed(db'), UNCHANGED <<given, about>>,
         at' \in {"rest", "planned", "rebuilding"}, late' \in BOOLEAN
  PROVE  /\ Types' /\ Placed(db)' /\ Same(db)' /\ Referred(db)' /\ Unopened(db)' /\ Stepped(db)' /\ StepsKept'
         /\ (First(db) \/ Second(db))'
PROOF
  <1>1. Types'
    BY DEF Inductive, Types
  <1> QED  BY <1>1, RowsStill, ReferencesStill

LEMMA CreateStep ==
  ASSUME Inductive, CreateNewTable
  PROVE  Inductive'
PROOF
  <1>1. /\ db' = [db EXCEPT !.leftover = TRUE] /\ at' = "rebuilding" /\ UNCHANGED <<given, plan, about, late>>
        /\ Resolved(db)
    BY DEF CreateNewTable, Resolved
  <1>2. Formed(db) /\ late \in BOOLEAN
    BY DEF Inductive, Types
  <1>3. /\ db'.rounds = db.rounds /\ db'.round = db.round /\ db'.defects = db.defects /\ db'.runs = db.runs
        /\ Alike(db, db') /\ db'.reports = db.reports /\ db'.released = db.released /\ IsRecord(db', Tables)
    BY <1>1, <1>2 DEF Formed, IsRecord, Alike, Tables
  <1>4. Formed(db')
    BY <1>2, <1>3, FormedStill DEF Formed
  <1>5. /\ Types' /\ Placed(db)' /\ Same(db)' /\ Referred(db)' /\ Unopened(db)' /\ Stepped(db)' /\ StepsKept'
        /\ (First(db) \/ Second(db))'
    BY <1>1, <1>2, <1>3, <1>4, Unmoved
  <1>6. Resolved(db)'
    <2>1. \A r : ResolvedRound(db, r)' = ResolvedRound(db, r)
      BY <1>3, ResolvedSame
    <2> QED  BY <1>1, <1>3, <2>1 DEF Resolved
  <1>7. Told(db)'
    <2>1. \A r \in DOMAIN db.runs : RoundOfRun(db, r)' = RoundOfRun(db, r)
      BY <1>3, ResolvedSame DEF RoundOfRun
    <2>2. db'.results = db.results /\ late' = late
      BY <1>1, <1>3 DEF Alike
    <2> QED  BY <2>1, <2>2 DEF Inductive, Told, Placed
  <1>8. RoundsKept' /\ Standing(db)'
    BY <1>1, <1>3 DEF Inductive, RoundsKept, Standing
  <1>9. db'.released
    BY <1>6 DEF Resolved
  <1> QED  BY <1>1, <1>5, <1>6, <1>7, <1>8, <1>9 DEF Inductive

LEMMA RebuiltFields ==
  ASSUME Formed(db), db' = Rebuilt(db)
  PROVE  /\ db'.rounds = db.rounds /\ db'.round = db.round /\ db'.defects = db.defects
         /\ Alike(db, db') /\ ~db'.released /\ Formed(db')
         /\ \A r \in DOMAIN db.runs : db'.runs[r].round = ResolvedRound(db, db.runs[r].release)
         /\ DOMAIN db'.reports = DOMAIN db.reports
         /\ \A x \in DOMAIN db.reports : db'.reports[x].round = ResolvedRound(db, db.reports[x].release)
PROOF
  <1> DEFINE runs == [r \in DOMAIN db.runs |->
                        [db.runs[r] EXCEPT !.round = ResolvedRound(db, db.runs[r].release)]]
             reports == [x \in DOMAIN db.reports |->
                        [db.reports[x] EXCEPT !.round = ResolvedRound(db, db.reports[x].release)]]
  <1>1. db' = [db EXCEPT !.runs = runs, !.reports = reports, !.released = FALSE, !.leftover = FALSE]
    BY DEF Rebuilt
  <1>2. DOMAIN runs = DOMAIN db.runs /\ IsTable(runs, {"release", "key", "legacy", "round"})
    BY DEF Formed, IsTable, IsRecord
  <1>2a. \A r \in DOMAIN db.runs :
           /\ runs[r].release = db.runs[r].release /\ runs[r].key = db.runs[r].key
           /\ runs[r].legacy = db.runs[r].legacy
           /\ runs[r].round = ResolvedRound(db, db.runs[r].release)
    BY DEF Formed, IsTable, IsRecord
  <1>3. DOMAIN reports = DOMAIN db.reports /\ IsTable(reports, {"release", "round"})
    BY DEF Formed, IsTable, IsRecord
  <1>3a. \A x \in DOMAIN db.reports : /\ reports[x].round = ResolvedRound(db, db.reports[x].release)
                                     /\ reports[x].release = db.reports[x].release
    BY DEF Formed, IsTable, IsRecord
  <1> HIDE DEF runs, reports
  <1> DEFINE mid == [db EXCEPT !.runs = runs, !.reports = reports]
  <1>4. /\ mid.rounds = db.rounds /\ mid.round = db.round /\ mid.defects = db.defects /\ mid.runs = runs
        /\ mid.reports = reports /\ mid.results = db.results /\ mid.cases = db.cases
        /\ mid.procedures = db.procedures /\ mid.judged = db.judged /\ mid.evidence = db.evidence
        /\ IsRecord(mid, Tables)
    BY DEF Formed, IsRecord, Tables
  <1>5. db' = [mid EXCEPT !.released = FALSE, !.leftover = FALSE]
    BY <1>1
  <1> HIDE DEF mid
  <1>6. /\ db'.rounds = db.rounds /\ db'.round = db.round /\ db'.defects = db.defects /\ db'.runs = runs
        /\ db'.reports = reports /\ db'.results = db.results /\ db'.cases = db.cases
        /\ db'.procedures = db.procedures /\ db'.judged = db.judged /\ db'.evidence = db.evidence
        /\ ~db'.released /\ IsRecord(db', Tables)
    BY <1>4, <1>5 DEF IsRecord, Tables
  <1>7. Alike(db, db')
    BY <1>2, <1>2a, <1>6 DEF Alike
  <1>8. Formed(db')
    BY <1>2, <1>3, <1>3a, <1>6, <1>7, FormedStill DEF Formed
  <1> QED  BY <1>2, <1>2a, <1>3, <1>3a, <1>6, <1>7, <1>8

LEMMA RebuildStep ==
  ASSUME Inductive, Rebuild
  PROVE  Inductive'
PROOF
  <1>1. db' = Rebuilt(db) /\ at = "rebuilding" /\ at' = "rest" /\ UNCHANGED <<given, plan, about, late>>
    BY DEF Rebuild
  <1>2. Formed(db) /\ late \in BOOLEAN /\ Resolved(db)
    BY <1>1 DEF Inductive, Types
  <1>3. /\ db'.rounds = db.rounds /\ db'.round = db.round /\ db'.defects = db.defects
        /\ Alike(db, db') /\ ~db'.released /\ Formed(db')
        /\ \A r \in DOMAIN db.runs : db'.runs[r].round = ResolvedRound(db, db.runs[r].release)
        /\ DOMAIN db'.reports = DOMAIN db.reports
        /\ \A x \in DOMAIN db.reports : db'.reports[x].round = ResolvedRound(db, db.reports[x].release)
    BY <1>1, <1>2, RebuiltFields
  <1>5. /\ Types' /\ Placed(db)' /\ Same(db)' /\ Referred(db)' /\ Unopened(db)' /\ Stepped(db)' /\ StepsKept'
        /\ (First(db) \/ Second(db))'
    BY <1>1, <1>2, <1>3, Unmoved
  <1>6. Ended(db)'
    BY <1>2, <1>3 DEF Resolved, Ended, Alike
  <1>7. Told(db)'
    <2>1. \A r \in DOMAIN db.runs : RoundOfRun(db, r)' = RoundOfRun(db, r)
      BY <1>2, <1>3 DEF RoundOfRun, Resolved
    <2> QED  BY <1>1, <1>3, <2>1 DEF Inductive, Told, Alike, Placed
  <1>8. Standing(db)'
    BY <1>1, <1>3 DEF Inductive, Standing
  <1>9. RoundsKept'
    <2> DEFINE never == Canonical \ (given.rounds \cup Created \cup {NewName : x \in {OldName} \cap given.rounds})
    <2>1. {db.round[release] : release \in Release} \ {None} \subseteq db.rounds \cup never
      BY <1>2 DEF Inductive, RoundsKept, Resolved
    <2>2. \A release \in Release :
            ResolvedRound(db, release) \in Canonical => ResolvedRound(db, release) \in db.rounds \cup never
      BY <2>1, ResolvedFacts, MigrationAssumption
    <2>3. \A r \in DOMAIN db'.runs : db'.runs[r].round \in db.rounds \cup never
      BY <1>2, <1>3, <2>2 DEF Resolved, Alike, Formed
    <2>4. \A x \in DOMAIN db'.reports : db'.reports[x].round \in db.rounds \cup never
      BY <1>2, <1>3, <2>2 DEF Resolved, Formed
    <2> QED  BY <1>1, <1>3, <2>3, <2>4 DEF RoundsKept
  <1> QED  BY <1>1, <1>5, <1>6, <1>7, <1>8, <1>9 DEF Inductive

\* 15-1 leaves or creates every campaign but those that nobody creates, and keeps the
\* other rounds that releases name.
LEMMA RoundsNormalized ==
  ASSUME Inductive, NormalizeRounds
  PROVE  RoundsKept' /\ Standing(db)'
PROOF
  <1> DEFINE never == Canonical \ (given.rounds \cup Created \cup {NewName : x \in {OldName} \cap given.rounds})
             rounds == ((db.rounds \ Shell) \ {OldName}) \cup Created
                          \cup (IF OldName \in db.rounds THEN {NewName} ELSE {})
  <1>1. /\ db.released /\ \A release \in Release : InferredRound(db, release) # None
        /\ given' = given
    BY DEF NormalizeRounds
  <1>2. Formed(db) /\ Standing(db) /\ RoundsKept
    BY DEF Inductive, Types
  <1>3. /\ db'.rounds = rounds /\ db'.released = db.released
        /\ db'.round = [release \in Release |-> InferredRound(db, release)]
    BY <1>2 DEF NormalizeRounds, Formed, IsRecord
  <1>4. Canonical \subseteq rounds \cup never
    <2> SUFFICES ASSUME NEW c \in Canonical, c \notin never
                 PROVE  c \in rounds
      OBVIOUS
    <2>1. c \notin Shell /\ c # OldName
      BY MigrationAssumption
    <2>2. CASE c \in Created
      BY <2>2
    <2>3. CASE c \in given.rounds
      BY <1>2, <2>1, <2>3 DEF Standing
    <2>4. CASE c = NewName /\ OldName \in given.rounds
      BY <1>2, <2>1, <2>4 DEF Standing
    <2> QED  BY <2>2, <2>3, <2>4
  <1>5. \A release \in Release : db.round[release] \in db.rounds \cup never \cup {None}
    BY <1>1, <1>2 DEF RoundsKept
  <1>6. ASSUME NEW release \in Release  PROVE InferredRound(db, release) \in rounds \cup never
    <2> DEFINE current == db.round[release]
               target  == IF Token[release] # None THEN Token[release]
                          ELSE IF current \in Shell THEN ShellCampaign[current] ELSE current
    <2>1. InferredRound(db, release) = IF target = OldName THEN NewName ELSE target
      BY DEF InferredRound
    <2>2. NewName \in Canonical
      BY MigrationAssumption
    <2>3. CASE target \in Canonical \/ target = OldName
      BY <1>4, <2>1, <2>2, <2>3
    <2>4. CASE target \notin Canonical /\ target # OldName
      <3>1. target # None
        BY <1>1, <2>1, <2>4
      <3>2. target = current /\ current \notin Shell
        BY <2>4, <3>1, MigrationAssumption
      <3>3. current \in db.rounds
        BY <1>5, <2>4, <3>1, <3>2
      <3> QED  BY <2>1, <2>4, <3>2, <3>3
    <2> QED  BY <2>3, <2>4
  <1>7. RoundsKept'
    <2>1. {db'.round[release] : release \in Release} \subseteq rounds \cup never
      BY <1>3, <1>6
    <2> QED  BY <1>1, <1>3, <2>1 DEF RoundsKept
  <1>8. Standing(db')
    <2>1. given.rounds \ (Shell \cup {OldName}) \subseteq rounds
      BY <1>2 DEF Standing
    <2>2. NewName \notin Shell /\ NewName # OldName
      BY MigrationAssumption
    <2>3. OldName \in given.rounds => NewName \in rounds
      BY <1>2, <2>2 DEF Standing
    <2> QED  BY <1>3, <2>1, <2>3 DEF Standing
  <1> QED  BY <1>1, <1>7, <1>8 DEF Standing

\* Before 15-4 no identifier of a case tells a campaign; after it every identifier of a
\* run tells that it has been applied.
LEMMA Untold ==
  ASSUME Inductive, ~Renumbered(db), NEW n \in DOMAIN db.results
  PROVE  ~(Len(db.results[n].case) > 1)
PROOF
  <1>1. CASE First(db)
    <2>1. Untouched(given)
      BY MigrationAssumption DEF Inductive, Types
    <2>2. db.results[n].case \in DOMAIN given.cases
      BY <1>1, <2>1 DEF First, Untouched
    <2>3. Len(db.results[n].case) = 1
      BY <2>1, <2>2 DEF Untouched
    <2> QED  BY <2>3
  <1>2. CASE Second(db)
    BY <1>2 DEF Second, Renumbered, Inductive, Placed
  <1> QED  BY <1>1, <1>2 DEF Inductive

LEMMA NormalizeStep ==
  ASSUME Inductive, NormalizeRounds
  PROVE  Inductive'
PROOF
  <1> DEFINE rounds == ((db.rounds \ Shell) \ {OldName}) \cup Created
                          \cup (IF OldName \in db.rounds THEN {NewName} ELSE {})
             round == [release \in Release |-> InferredRound(db, release)]
  <1>1. /\ db' = [db EXCEPT !.round = round, !.rounds = rounds] /\ at = "rest"
        /\ late' = (late \/ (Renumbered(db) /\ db'.round # db.round))
        /\ UNCHANGED <<given, at, plan, about>> /\ db.released
    BY DEF NormalizeRounds
  <1>2. Formed(db) /\ late \in BOOLEAN
    BY DEF Inductive, Types
  <1>3. round = [release \in Release |-> round[release]]
    OBVIOUS
  <1> HIDE DEF rounds, round
  <1>4. /\ db'.round = round /\ db'.defects = db.defects /\ db'.runs = db.runs /\ Alike(db, db')
        /\ db'.reports = db.reports /\ db'.released = db.released /\ IsRecord(db', Tables)
    BY <1>1, <1>2 DEF Formed, IsRecord, Alike, Tables
  <1>5. Formed(db')
    BY <1>2, <1>3, <1>4, FormedStill DEF Formed
  <1>6. late' \in BOOLEAN
    BY <1>1, <1>2
  <1>7. /\ Types' /\ Placed(db)' /\ Same(db)' /\ Referred(db)' /\ Unopened(db)' /\ Stepped(db)' /\ StepsKept'
        /\ (First(db) \/ Second(db))'
    BY <1>1, <1>4, <1>5, <1>6, Unmoved
  <1>8. Told(db)'
    <2> SUFFICES ASSUME ~late', NEW n \in DOMAIN db'.results, Len(db'.results[n].case) > 1,
                        db'.results[n].case[1] # None
                 PROVE  db'.results[n].case[1] = RoundOfRun(db', db'.results[n].run)
      BY DEF Told
    <2>1. db'.results = db.results /\ db.results[n].run \in DOMAIN db.runs
      BY <1>4 DEF Alike, Inductive, Placed
    <2>2. Renumbered(db)
      BY <2>1, Untold
    <2>3. ~late /\ db'.round = db.round
      BY <1>1, <2>2
    <2>4. \A r \in DOMAIN db.runs : RoundOfRun(db', r) = RoundOfRun(db, r)
      BY <1>4, <2>3, ResolvedSame DEF RoundOfRun
    <2> QED  BY <2>1, <2>3, <2>4 DEF Inductive, Told
  <1> QED  BY <1>1, <1>4, <1>7, <1>8, RoundsNormalized DEF Inductive

\* What is planned is what 15-4 checked.
LEMMA PlanStep ==
  ASSUME Inductive, PlanRenumbering
  PROVE  Inductive'
PROOF
  <1>1. PICK name \in RunNames(db) :
          /\ Renumberable(db, name)
          /\ \E first \in Picks([c \in UsedCases(db) |-> NewCases(db, c)]) :
               plan' = [name |-> name, first |-> first, defects |-> DOMAIN db.defects]
    BY DEF PlanRenumbering
  <1>2. PICK first \in Picks([c \in UsedCases(db) |-> NewCases(db, c)]) :
          plan' = [name |-> name, first |-> first, defects |-> DOMAIN db.defects]
    BY <1>1
  <1>3. db.released /\ at' = "planned" /\ UNCHANGED <<db, given, about, late>>
    BY DEF PlanRenumbering
  <1>4. plan'.name = name /\ plan'.first = first /\ plan'.defects = DOMAIN db.defects
    BY <1>2
  <1>5. DOMAIN name = Named(db) /\ \A r \in Named(db) : Len(name[r]) = 2
    <2>1. PICK topology \in Picks([r \in Named(db) |-> Topologies(db, r)]) :
            name = [r \in Named(db) |-> <<KeyOf(db, r), topology[r]>>]
      BY DEF RunNames
    <2> QED  BY <2>1
  <1>6. \A c \in UsedCases(db) : first[c] \in NewCases(db, c)
    BY DEF Picks
  <1>7. /\ \A r \in Named(db) : KeyOf(db, r) # None
        /\ \A r, q \in Named(db) : name[r] = name[q] => r = q
        /\ \A s, t \in DOMAIN db.results : NewResult(db, name, s) = NewResult(db, name, t) => s = t
        /\ \A b, c \in UsedCases(db) : NewCases(db, b) \cap NewCases(db, c) # {} => b = c
        /\ \A x \in DOMAIN db.defects :
             {db.defects[x].result, db.defects[x].retest} \subseteq (DOMAIN db.results) \cup {None}
    BY <1>1, <1>5 DEF Renumberable, IsInjective
  <1>7a. DOMAIN given.defects \subseteq DOMAIN db.defects
    BY DEF Inductive, Referred
  <1>8. Ready(db, plan')
    BY <1>3, <1>4, <1>5, <1>6, <1>7, <1>7a DEF Ready
  <1>9. Types'
    BY <1>3 DEF Inductive, Types
  <1>10. /\ Placed(db)' /\ Same(db)' /\ Referred(db)' /\ Unopened(db)' /\ Stepped(db)' /\ StepsKept'
         /\ (First(db) \/ Second(db))'
    BY <1>3, <1>9, Unmoved DEF Types, Alike
  <1>11. Told(db)' /\ RoundsKept' /\ Standing(db)' /\ (db.released \/ Ended(db))'
    BY <1>3 DEF Inductive, Told, RoundsKept, Standing
  <1>12. Ready(db, plan)'
    BY <1>3, <1>8 DEF Ready
  <1> QED  BY <1>3, <1>9, <1>10, <1>11, <1>12 DEF Inductive

-----------------------------------------------------------------------------
\* 15-4

Moved(d)    == UNION {ProceduresOf(d, c) : c \in UsedCases(d)}
Recased(d)  == UNION {NewCases(d, c) : c \in UsedCases(d)}
Recopied(d) == UNION {{NewProcedure(d, q, new) : new \in NewCases(d, d.procedures[q].case)} : q \in Moved(d)}

LEMMA OldIs ==
  ASSUME NEW d, NEW p, Ready(d, p)
  PROVE  /\ \A r \in DOMAIN p.name : OldRun(p, p.name[r]) = r
         /\ \A s \in DOMAIN d.results : OldResult(d, p, NewResult(d, p.name, s)) = s
PROOF
  BY DEF Ready, OldRun, OldResult

\* What the apply makes of every table
LEMMA RenumberedFields ==
  ASSUME Formed(db), db' = Renumbering(db, plan)
  PROVE  /\ db'.runs = [n \in {plan.name[r] : r \in DOMAIN plan.name} |->
                          [db.runs[OldRun(plan, n)] EXCEPT !.key = None]]
         /\ db'.results = [n \in {NewResult(db, plan.name, s) : s \in DOMAIN db.results} |->
                             [db.results[OldResult(db, plan, n)] EXCEPT
                                !.run = plan.name[@], !.case = NewCase(db, OldResult(db, plan, n))]]
         /\ DOMAIN db'.cases = Recased(db) \cup ((DOMAIN db.cases) \ UsedCases(db))
         /\ db'.procedures = [n \in Recopied(db) \cup ((DOMAIN db.procedures) \ Moved(db)) |->
                                IF n \in DOMAIN db.procedures THEN db.procedures[n]
                                ELSE [case |-> n[1], sequence |-> n[2]]]
         /\ db'.judged = [j \in DOMAIN db.judged |->
                            [result |-> NewRef(db, plan, db.judged[j].result),
                             procedure |-> NewStep(db, plan, db.judged[j].procedure)]]
         /\ db'.evidence = [e \in DOMAIN db.evidence |-> NewRef(db, plan, db.evidence[e])]
         /\ db'.defects = [x \in DOMAIN db.defects |->
                             IF x \in plan.defects
                               THEN [result |-> NewRef(db, plan, db.defects[x].result),
                                     retest |-> NewRef(db, plan, db.defects[x].retest)]
                               ELSE db.defects[x]]
         /\ db'.reports = [x \in DOMAIN db.reports |-> [db.reports[x] EXCEPT !.release = Remap[@]]]
         /\ db'.rounds = db.rounds /\ db'.round = db.round /\ db'.released = db.released
         /\ IsRecord(db', Tables)
PROOF
  <1> DEFINE runs == [n \in {plan.name[r] : r \in DOMAIN plan.name} |->
                        [db.runs[OldRun(plan, n)] EXCEPT !.key = None]]
             results == [n \in {NewResult(db, plan.name, s) : s \in DOMAIN db.results} |->
                           [db.results[OldResult(db, plan, n)] EXCEPT
                              !.run = plan.name[@], !.case = NewCase(db, OldResult(db, plan, n))]]
             cases == [n \in Recased(db) \cup ((DOMAIN db.cases) \ UsedCases(db)) |->
                         db.cases[IF n \in Recased(db) THEN OldCase(db, n) ELSE n]]
             procedures == [n \in Recopied(db) \cup ((DOMAIN db.procedures) \ Moved(db)) |->
                              IF n \in DOMAIN db.procedures THEN db.procedures[n]
                              ELSE [case |-> n[1], sequence |-> n[2]]]
             judged == [j \in DOMAIN db.judged |-> [result |-> NewRef(db, plan, db.judged[j].result),
                                                    procedure |-> NewStep(db, plan, db.judged[j].procedure)]]
             evidence == [e \in DOMAIN db.evidence |-> NewRef(db, plan, db.evidence[e])]
             defects == [x \in DOMAIN db.defects |->
                           IF x \in plan.defects THEN [result |-> NewRef(db, plan, db.defects[x].result),
                                                       retest |-> NewRef(db, plan, db.defects[x].retest)]
                           ELSE db.defects[x]]
             reports == [x \in DOMAIN db.reports |-> [db.reports[x] EXCEPT !.release = Remap[@]]]
             first == [db EXCEPT !.runs = runs, !.results = results, !.cases = cases, !.procedures = procedures]
  <1>1. db' = [db EXCEPT !.runs = runs, !.results = results, !.cases = cases, !.procedures = procedures,
                         !.judged = judged, !.evidence = evidence, !.defects = defects, !.reports = reports]
    BY DEF Renumbering, Moved, Recased, Recopied
  <1>2. DOMAIN cases = Recased(db) \cup ((DOMAIN db.cases) \ UsedCases(db))
    OBVIOUS
  <1> HIDE DEF runs, results, cases, procedures, judged, evidence, defects, reports
  <1>3. /\ first.runs = runs /\ first.results = results /\ first.cases = cases
        /\ first.procedures = procedures /\ first.rounds = db.rounds /\ first.round = db.round
        /\ first.released = db.released /\ IsRecord(first, Tables)
    BY DEF Formed, IsRecord, Tables
  <1>4. db' = [first EXCEPT !.judged = judged, !.evidence = evidence, !.defects = defects, !.reports = reports]
    BY <1>1
  <1> HIDE DEF first
  <1>5. /\ db'.runs = runs /\ db'.results = results /\ db'.cases = cases /\ db'.procedures = procedures
        /\ db'.judged = judged /\ db'.evidence = evidence /\ db'.defects = defects /\ db'.reports = reports
        /\ db'.rounds = db.rounds /\ db'.round = db.round /\ db'.released = db.released
        /\ IsRecord(db', Tables)
    BY <1>3, <1>4 DEF IsRecord, Tables
  <1> QED  BY <1>2, <1>5 DEF runs, results, procedures, judged, evidence, defects, reports

\* The new row of each run and of each result
LEMMA NewRows ==
  ASSUME Inductive, Ready(db, plan), db' = Renumbering(db, plan)
  PROVE  /\ DOMAIN db'.runs = {plan.name[r] : r \in Named(db)}
         /\ IsTable(db'.runs, {"release", "key", "legacy", "round"})
         /\ \A r \in Named(db) : /\ db'.runs[plan.name[r]].release = db.runs[r].release
                                 /\ db'.runs[plan.name[r]].key = None
         /\ DOMAIN db'.results = {NewResult(db, plan.name, s) : s \in DOMAIN db.results}
         /\ IsTable(db'.results, {"run", "case", "topology", "suffix", "was"})
         /\ \A s \in DOMAIN db.results :
              /\ db'.results[NewResult(db, plan.name, s)].run = plan.name[db.results[s].run]
              /\ db'.results[NewResult(db, plan.name, s)].case = NewCase(db, s)
              /\ db'.results[NewResult(db, plan.name, s)].was = db.results[s].was
         /\ \A s \in DOMAIN db.results : db.results[s].run \in Named(db)
PROOF
  <1> DEFINE new(s) == NewResult(db, plan.name, s)
  <1>1. Formed(db) /\ DOMAIN plan.name = Named(db)
    BY DEF Inductive, Types, Ready
  <1>2. /\ db'.runs = [n \in {plan.name[r] : r \in Named(db)} |-> [db.runs[OldRun(plan, n)] EXCEPT !.key = None]]
        /\ db'.results = [n \in {new(s) : s \in DOMAIN db.results} |->
                            [db.results[OldResult(db, plan, n)] EXCEPT
                               !.run = plan.name[@], !.case = NewCase(db, OldResult(db, plan, n))]]
    BY <1>1, RenumberedFields
  <1>3. /\ \A r \in Named(db) : OldRun(plan, plan.name[r]) = r
        /\ \A s \in DOMAIN db.results : OldResult(db, plan, new(s)) = s
    BY <1>1, OldIs
  <1>4. /\ \A r \in DOMAIN db.runs : IsRecord(db.runs[r], {"release", "key", "legacy", "round"})
        /\ \A s \in DOMAIN db.results : IsRecord(db.results[s], {"run", "case", "topology", "suffix", "was"})
    BY <1>1 DEF Formed, IsTable
  <1>5. Named(db) \subseteq DOMAIN db.runs
    BY DEF Named
  <1>6. \A s \in DOMAIN db.results : db.results[s].run \in Named(db)
    BY DEF Inductive, Placed, Named, RunsOf
  <1> HIDE DEF new
  <1>7. ASSUME NEW r \in Named(db)
        PROVE  /\ db'.runs[plan.name[r]] = [db.runs[r] EXCEPT !.key = None]
               /\ db'.runs[plan.name[r]].release = db.runs[r].release
               /\ db'.runs[plan.name[r]].key = None
               /\ IsRecord(db'.runs[plan.name[r]], {"release", "key", "legacy", "round"})
    <2> DEFINE n == plan.name[r]
               renamed(m) == [db.runs[OldRun(plan, m)] EXCEPT !.key = None]
    <2>a. n \in {plan.name[q] : q \in Named(db)} /\ OldRun(plan, n) = r
      BY <1>3
    <2>b. db'.runs = [m \in {plan.name[q] : q \in Named(db)} |-> renamed(m)]
      BY <1>2
    <2> HIDE DEF n, renamed
    <2>c. db'.runs[n] = renamed(n)
      BY <2>a, <2>b
    <2>1. db'.runs[plan.name[r]] = [db.runs[r] EXCEPT !.key = None]
      BY <2>a, <2>c DEF n, renamed
    <2> QED  BY <1>4, <1>5, <2>1 DEF IsRecord
  <1>8. ASSUME NEW s \in DOMAIN db.results
        PROVE  /\ db'.results[new(s)].run = plan.name[db.results[s].run]
               /\ db'.results[new(s)].case = NewCase(db, s)
               /\ db'.results[new(s)].was = db.results[s].was
               /\ IsRecord(db'.results[new(s)], {"run", "case", "topology", "suffix", "was"})
    <2>1. db'.results[new(s)] = [db.results[s] EXCEPT !.run = plan.name[@], !.case = NewCase(db, s)]
      BY <1>2, <1>3
    <2> QED  BY <1>4, <2>1 DEF IsRecord
  <1>9. DOMAIN db'.runs = {plan.name[r] : r \in Named(db)} /\ db'.runs = [n \in DOMAIN db'.runs |-> db'.runs[n]]
    BY <1>2
  <1>10. DOMAIN db'.results = {new(s) : s \in DOMAIN db.results} /\ db'.results = [n \in DOMAIN db'.results |-> db'.results[n]]
    BY <1>2
  <1>11. IsTable(db'.runs, {"release", "key", "legacy", "round"})
    BY <1>7, <1>9 DEF IsTable
  <1>12. IsTable(db'.results, {"run", "case", "topology", "suffix", "was"})
    BY <1>8, <1>10 DEF IsTable
  <1> QED  BY <1>6, <1>7, <1>8, <1>9, <1>10, <1>11, <1>12 DEF new

\* In a database that 15-4 has not been applied to, identifiers are names.
LEMMA FirstFacts ==
  ASSUME Inductive, First(db)
  PROVE  /\ Untouched(given)
         /\ \A s \in DOMAIN db.results : Len(s) = 1 /\ db.results[s].was = s /\ s # None
         /\ \A q \in DOMAIN db.procedures : Len(q) = 1
         /\ \A j \in DOMAIN given.judged :
              /\ j \in DOMAIN db.judged /\ db.judged[j].result \in DOMAIN db.results
              /\ db.judged[j].procedure \in DOMAIN db.procedures
              /\ db.procedures[db.judged[j].procedure].case = db.results[db.judged[j].result].case
         /\ \A n \in DOMAIN db.results : \A r, k : n # <<r, k>>
PROOF
  <1>1. Untouched(given)
    BY MigrationAssumption DEF Inductive, Types
  <1>2. \A s \in DOMAIN db.results : Len(s) = 1 /\ db.results[s].was = s /\ s # None
    BY <1>1 DEF First, Untouched
  <1>3. \A q \in DOMAIN db.procedures : Len(q) = 1
    BY <1>1 DEF First, Untouched
  <1>4. \A j \in DOMAIN given.judged :
          /\ j \in DOMAIN db.judged /\ db.judged[j].result \in DOMAIN db.results
          /\ db.judged[j].procedure \in DOMAIN db.procedures
          /\ db.procedures[db.judged[j].procedure].case = db.results[db.judged[j].result].case
    BY <1>1 DEF First, Untouched
  <1>5. ASSUME NEW n \in DOMAIN db.results, NEW r, NEW k  PROVE n # <<r, k>>
    <2>1. Len(n) = 1 /\ Len(<<r, k>>) = 2
      BY <1>2
    <2> QED  BY <2>1
  <1> QED  BY <1>1, <1>2, <1>3, <1>4, <1>5

LEMMA NewPlaces ==
  ASSUME Inductive, First(db), Ready(db, plan), db' = Renumbering(db, plan)
  PROVE  Placed(db')
PROOF
  <1>1. Formed(db)
    BY DEF Inductive, Types
  <1>2. /\ DOMAIN db'.cases = Recased(db) \cup ((DOMAIN db.cases) \ UsedCases(db))
        /\ db'.procedures = [n \in Recopied(db) \cup ((DOMAIN db.procedures) \ Moved(db)) |->
                               IF n \in DOMAIN db.procedures THEN db.procedures[n]
                               ELSE [case |-> n[1], sequence |-> n[2]]]
    BY <1>1, RenumberedFields
  <1>3. ASSUME NEW n \in DOMAIN db'.results
        PROVE  db'.results[n].run \in DOMAIN db'.runs /\ db'.results[n].case \in DOMAIN db'.cases
    <2>1. PICK s \in DOMAIN db.results : n = NewResult(db, plan.name, s)
      BY NewRows
    <2>2. db'.results[n].run \in DOMAIN db'.runs /\ db'.results[n].case = NewCase(db, s)
      BY <2>1, NewRows
    <2>3. NewCase(db, s) \in Recased(db)
      BY DEF Recased, NewCases, UsedCases
    <2> QED  BY <1>2, <2>2, <2>3
  <1>4. ASSUME NEW n \in DOMAIN db'.procedures
        PROVE  db'.procedures[n].case \in DOMAIN db'.cases
    <2>1. CASE n \in DOMAIN db.procedures
      <3>1. n \notin Recopied(db)
        <4>1. Len(n) = 1
          BY <2>1, FirstFacts
        <4>2. \A q, new : Len(NewProcedure(db, q, new)) = 2
          BY DEF NewProcedure
        <4> QED  BY <4>1, <4>2 DEF Recopied
      <3>2. n \notin Moved(db)
        BY <1>2, <3>1
      <3>3. db.procedures[n].case \in (DOMAIN db.cases) \ UsedCases(db)
        BY <2>1, <3>2 DEF Moved, ProceduresOf, Inductive, Placed
      <3> QED  BY <1>2, <2>1, <3>3
    <2>2. CASE n \notin DOMAIN db.procedures
      <3>1. PICK q \in Moved(db) : \E new \in NewCases(db, db.procedures[q].case) : n = NewProcedure(db, q, new)
        BY <1>2, <2>2 DEF Recopied
      <3>2. PICK new \in NewCases(db, db.procedures[q].case) : n = NewProcedure(db, q, new)
        BY <3>1
      <3>3. db'.procedures[n].case = new
        BY <1>2, <2>2, <3>2 DEF NewProcedure
      <3>4. db.procedures[q].case \in UsedCases(db)
        BY DEF Moved, ProceduresOf
      <3> QED  BY <1>2, <3>3, <3>4 DEF Recased
    <2> QED  BY <2>1, <2>2
  <1> QED  BY <1>3, <1>4 DEF Placed

\* Every reference leads to the row that its result has become.
LEMMA NewReferences ==
  ASSUME Inductive, First(db), Ready(db, plan), db' = Renumbering(db, plan), UNCHANGED <<given, about>>
  PROVE  Same(db)' /\ Referred(db)' /\ Unopened(db)'
PROOF
  <1> DEFINE new(s) == NewResult(db, plan.name, s)
  <1>1. Formed(db) /\ Same(db) /\ Referred(db) /\ Unopened(db)
    BY DEF Inductive, Types
  <1>2. /\ db'.judged = [j \in DOMAIN db.judged |->
                           [result |-> NewRef(db, plan, db.judged[j].result),
                            procedure |-> NewStep(db, plan, db.judged[j].procedure)]]
        /\ db'.evidence = [e \in DOMAIN db.evidence |-> NewRef(db, plan, db.evidence[e])]
        /\ db'.defects = [x \in DOMAIN db.defects |->
                            IF x \in plan.defects
                              THEN [result |-> NewRef(db, plan, db.defects[x].result),
                                    retest |-> NewRef(db, plan, db.defects[x].retest)]
                              ELSE db.defects[x]]
    BY <1>1, RenumberedFields
  <1>3. /\ DOMAIN db'.results = {new(s) : s \in DOMAIN db.results}
        /\ \A s \in DOMAIN db.results : db'.results[new(s)].was = db.results[s].was
    BY NewRows
  <1>4. Same(db)'
    BY <1>1, <1>3 DEF Same
  <1>5. ASSUME NEW n, NEW s, At(db, n, s)
        PROVE  At(db', NewRef(db, plan, n), s)
    <2>1. n \in DOMAIN db.results /\ db.results[n].was = s /\ n # None
      BY <1>5, FirstFacts DEF At
    <2> QED  BY <1>3, <2>1 DEF At, NewRef
  <1> HIDE DEF new
  <1>6. \A j \in DOMAIN given.judged : At(db', db'.judged[j].result, given.judged[j].result)
    BY <1>1, <1>2, <1>5, FirstFacts DEF Referred
  <1>7. \A e \in DOMAIN given.evidence : At(db', db'.evidence[e], given.evidence[e])
    BY <1>1, <1>2, <1>5 DEF Referred, First
  <1>8. ASSUME NEW x \in DOMAIN db'.defects
        PROVE  /\ Lost(db', x) \/ At(db', db'.defects[x].result, about[x])
               /\ about[x] \in DOMAIN given.results
    <2>1. x \in DOMAIN db.defects /\ about[x] \in DOMAIN given.results
      BY <1>1, <1>2 DEF Referred
    <2>2. db.defects[x].result \in DOMAIN db.results
      BY <1>1, <2>1 DEF Unopened
    <2>3. At(db, db.defects[x].result, about[x])
      BY <1>1, <2>1, <2>2 DEF Referred, Lost
    <2>4. CASE x \in plan.defects
      BY <1>2, <1>5, <2>1, <2>3, <2>4
    <2>5. CASE x \notin plan.defects
      <3>1. x \in Opened /\ db'.defects[x].result = db.defects[x].result
        BY <1>2, <2>1, <2>5 DEF Ready
      <3>2. db.defects[x].result \notin DOMAIN db'.results
        BY <1>3, <2>2, FirstFacts DEF new, NewResult
      <3> QED  BY <2>1, <3>1, <3>2 DEF Lost
    <2> QED  BY <2>1, <2>4, <2>5
  <1>9. ASSUME NEW x \in DOMAIN given.defects
        PROVE  /\ x \in DOMAIN db'.defects
               /\ given.defects[x].retest # None => At(db', db'.defects[x].retest, given.defects[x].retest)
    <2>1. x \in DOMAIN db.defects /\ x \in plan.defects
      BY <1>1 DEF Referred, Ready
    <2>2. given.defects[x].retest # None => At(db, db.defects[x].retest, given.defects[x].retest)
      BY <1>1 DEF Referred
    <2> QED  BY <1>2, <1>5, <2>1, <2>2
  <1>10. Referred(db)'
    BY <1>6, <1>7, <1>8, <1>9 DEF Referred
  <1>11. Unopened(db)'
    <2> SUFFICES ASSUME First(db'), NEW x \in DOMAIN db'.defects
                 PROVE  FALSE
      BY DEF Unopened, First
    <2>1. x \in DOMAIN db.defects
      BY <1>2
    <2>2. db.defects[x].result \in DOMAIN db.results
      BY <1>1, <2>1 DEF Unopened
    <2>3. new(db.defects[x].result) \in DOMAIN db.results
      BY <1>3, <2>2 DEF First
    <2> QED  BY <2>3, FirstFacts DEF new, NewResult
  <1> QED  BY <1>4, <1>10, <1>11

LEMMA TwoMembers ==
  ASSUME NEW S, IsFiniteSet(S), NEW x \in S, NEW y \in S, x # y
  PROVE  Cardinality(S) > 1
PROOF
  <1>1. IsFiniteSet({x, y}) /\ Cardinality({x, y}) = 2
    <2>1. Cardinality({x}) = 1 /\ IsFiniteSet({x})
      BY FS_Singleton
    <2>2. Cardinality({x} \cup {y}) = 2 /\ IsFiniteSet({x} \cup {y})
      BY <2>1, FS_AddElement
    <2>3. {x, y} = {x} \cup {y}
      OBVIOUS
    <2> QED  BY <2>2, <2>3
  <1>2. Cardinality({x, y}) <= Cardinality(S)
    <2>1. {x, y} \subseteq S
      OBVIOUS
    <2> QED  BY <2>1, FS_Subset
  <1>3. Cardinality(S) \in Nat
    BY FS_CardinalityType
  <1> QED  BY <1>1, <1>2, <1>3

\* The loop that moves the judgements: to the first of the copies of their step, which
\* lies in the case of the result, or in another of those that the case has become.
LEMMA NewSteps ==
  ASSUME Inductive, First(db), Ready(db, plan), db' = Renumbering(db, plan), UNCHANGED <<given, about>>
  PROVE  Stepped(db)' /\ StepsKept'
PROOF
  <1> DEFINE new(s) == NewResult(db, plan.name, s)
             of(c) == {t \in DOMAIN given.results : given.results[t].case = c}
  <1>1. Formed(db) /\ given' = given
    BY DEF Inductive, Types
  <1>2. /\ db'.procedures = [n \in Recopied(db) \cup ((DOMAIN db.procedures) \ Moved(db)) |->
                               IF n \in DOMAIN db.procedures THEN db.procedures[n]
                               ELSE [case |-> n[1], sequence |-> n[2]]]
        /\ db'.judged = [j \in DOMAIN db.judged |->
                           [result |-> NewRef(db, plan, db.judged[j].result),
                            procedure |-> NewStep(db, plan, db.judged[j].procedure)]]
    BY <1>1, RenumberedFields
  <1>3. ASSUME NEW j \in DOMAIN given.judged
        PROVE  /\ db.results[db.judged[j].result].case \in UsedCases(db)
               /\ db'.judged[j].procedure \in DOMAIN db'.procedures
               /\ db'.procedures[db'.judged[j].procedure].case
                    = plan.first[db.results[db.judged[j].result].case]
               /\ db'.procedures[db'.judged[j].procedure].sequence
                    = given.procedures[given.judged[j].procedure].sequence
    <2> DEFINE c == db.results[db.judged[j].result].case
               q == db.judged[j].procedure
               n == NewProcedure(db, q, plan.first[c])
    <2>1. /\ j \in DOMAIN db.judged /\ db.judged[j].result \in DOMAIN db.results
          /\ q \in DOMAIN db.procedures /\ db.procedures[q].case = c
          /\ db.procedures[q].sequence = given.procedures[given.judged[j].procedure].sequence
      BY FirstFacts DEF Inductive, Stepped
    <2>2. c \in UsedCases(db)
      BY <2>1 DEF UsedCases
    <2>3. plan.first[c] \in NewCases(db, c)
      BY <2>2 DEF Ready
    <2>4. q \in Moved(db)
      BY <2>1, <2>2 DEF Moved, ProceduresOf
    <2> HIDE DEF c, q
    <2>5. n \in Recopied(db)
      <3>1. n \in {NewProcedure(db, q, case) : case \in NewCases(db, db.procedures[q].case)}
        BY <2>1, <2>3
      <3> HIDE DEF n
      <3> QED  BY <2>4, <3>1 DEF Recopied
    <2>6. n = <<plan.first[c], db.procedures[q].sequence>>
      BY DEF NewProcedure
    <2>7. n \notin DOMAIN db.procedures
      <3>1. Len(n) = 2 /\ \A p \in DOMAIN db.procedures : Len(p) = 1
        BY <2>6, FirstFacts
      <3> QED  BY <3>1
    <2>8. db'.judged[j].procedure = n
      <3>1. db'.judged[j].procedure = NewStep(db, plan, q)
        BY <1>2, <2>1 DEF q
      <3> QED  BY <2>1, <2>2, <3>1 DEF NewStep
    <2> HIDE DEF n
    <2>9. db'.procedures[n] = [case |-> n[1], sequence |-> n[2]] /\ n \in DOMAIN db'.procedures
      BY <1>2, <2>5, <2>7
    <2>10. n[1] = plan.first[c] /\ n[2] = db.procedures[q].sequence
      BY <2>6
    <2>11. /\ db'.procedures[n].case = plan.first[c]
           /\ db'.procedures[n].sequence = given.procedures[given.judged[j].procedure].sequence
      BY <2>1, <2>9, <2>10
    <2> QED  BY <2>2, <2>8, <2>9, <2>11 DEF c
  <1>4. Stepped(db')
    BY <1>1, <1>3 DEF Stepped
  <1>5. ASSUME NEW s \in DOMAIN given.results
        PROVE  Row(s)' = new(s) /\ db'.results[new(s)].case = NewCase(db, s)
    <2>1. s \in DOMAIN db.results /\ db.results[s].was = s
      BY FirstFacts DEF First
    <2>2. At(db', new(s), s) /\ db'.results[new(s)].case = NewCase(db, s)
      BY <2>1, NewRows DEF At
    <2>3. \A m, n \in DOMAIN db'.results : db'.results[m].was = db'.results[n].was => m = n
      BY NewReferences DEF Same
    <2>4. (CHOOSE m \in DOMAIN db'.results : db'.results[m].was = s) = new(s)
      BY <2>2, <2>3, RowIs
    <2> QED  BY <2>2, <2>4 DEF Row
  <1>6. ASSUME NEW c
        PROVE  {db'.results[Row(s)'].case : s \in of(c)} = NewCases(db, c) /\ IsFiniteSet(NewCases(db, c))
    <2>1. {db'.results[Row(s)'].case : s \in of(c)} = {NewCase(db, s) : s \in of(c)}
      BY <1>5
    <2>2. {NewCase(db, s) : s \in of(c)} = NewCases(db, c)
      BY DEF NewCases, First
    <2>3. IsFiniteSet(of(c))
      <3>1. IsFiniteSet(DOMAIN given.results)
        BY FirstFacts DEF Untouched
      <3> QED  BY <3>1, FS_Subset
    <2>4. IsFiniteSet({NewCase(db, s) : s \in of(c)})
      <3> DEFINE f == [s \in of(c) |-> NewCase(db, s)]
                 T == {NewCase(db, s) : s \in of(c)}
      <3>1. f \in Surjection(of(c), T)
        BY DEF Surjection
      <3> HIDE DEF f, T, of
      <3> QED  BY <2>3, <3>1, FS_Surjection DEF T
    <2> QED  BY <2>1, <2>2, <2>4
  <1> HIDE DEF new
  <1>7. ASSUME NEW j \in DOMAIN given.judged
        PROVE  \/ db'.procedures[db'.judged[j].procedure].case = db'.results[db'.judged[j].result].case
               \/ Split(given.results[given.judged[j].result].case)'
    <2> DEFINE s == given.judged[j].result
               c == given.results[s].case
    <2>1. /\ s \in DOMAIN db.results /\ j \in DOMAIN db.judged /\ db.judged[j].result = s
          /\ db.results[s].case = c /\ s # None
      BY FirstFacts DEF First
    <2>2. db'.procedures[db'.judged[j].procedure].case = plan.first[c] /\ c \in UsedCases(db)
      BY <1>3, <2>1
    <2>3. db'.results[db'.judged[j].result].case = NewCase(db, s)
      BY <1>2, <1>5, <2>1 DEF NewRef, new, First
    <2>4. plan.first[c] \in NewCases(db, c) /\ NewCase(db, s) \in NewCases(db, c)
      BY <2>1, <2>2 DEF Ready, NewCases
    <2>5. plan.first[c] # NewCase(db, s) => Cardinality(NewCases(db, c)) > 1
      BY <1>6, <2>4, TwoMembers
    <2>6. Split(c)' <=> Cardinality(NewCases(db, c)) > 1
      BY <1>1, <1>6 DEF Split
    <2> QED  BY <2>2, <2>3, <2>5, <2>6
  <1>8. StepsKept'
    BY <1>1, <1>3, <1>7 DEF StepsKept
  <1> QED  BY <1>1, <1>4, <1>8 DEF Stepped

\* What the apply leaves: identifiers that tell the round of the run, and the rounds as
\* they were.
LEMMA NewShape ==
  ASSUME Inductive, Ready(db, plan), db' = Renumbering(db, plan), UNCHANGED <<given, late>>
  PROVE  Formed(db') /\ Second(db') /\ Told(db)' /\ RoundsKept' /\ Standing(db)' /\ db'.released
PROOF
  <1>1. Formed(db) /\ db.released /\ DOMAIN plan.name = Named(db)
    BY DEF Inductive, Types, Ready
  <1>2. /\ db'.reports = [x \in DOMAIN db.reports |-> [db.reports[x] EXCEPT !.release = Remap[@]]]
        /\ db'.rounds = db.rounds /\ db'.round = db.round /\ db'.released = db.released
        /\ IsRecord(db', Tables)
    BY <1>1, RenumberedFields
  <1>3. IsTable(db'.reports, {"release", "round"})
    <2>1. \A x \in DOMAIN db.reports : db'.reports[x] = [db.reports[x] EXCEPT !.release = Remap[@]]
      BY <1>2
    <2>2. \A x \in DOMAIN db.reports : IsRecord(db.reports[x], {"release", "round"})
      BY <1>1 DEF Formed, IsTable
    <2>3. \A x \in DOMAIN db.reports : IsRecord(db'.reports[x], {"release", "round"})
      BY <2>1, <2>2 DEF IsRecord
    <2>4. DOMAIN db'.reports = DOMAIN db.reports /\ db'.reports = [x \in DOMAIN db'.reports |-> db'.reports[x]]
      BY <1>2
    <2> QED  BY <2>3, <2>4 DEF IsTable
  <1>4. \A x \in DOMAIN db'.reports : db'.reports[x].release \in Release
    <2> SUFFICES ASSUME NEW x \in DOMAIN db.reports
                 PROVE  db'.reports[x].release \in Release
      BY <1>2
    <2>1. db'.reports[x] = [db.reports[x] EXCEPT !.release = Remap[@]]
      BY <1>2
    <2>2. IsRecord(db.reports[x], {"release", "round"}) /\ db.reports[x].release \in Release
      BY <1>1 DEF Formed, IsTable
    <2>3. db'.reports[x].release = Remap[db.reports[x].release]
      BY <2>1, <2>2 DEF IsRecord
    <2> QED  BY <2>2, <2>3, MigrationAssumption
  <1>5. \A n \in DOMAIN db'.runs : \E r \in Named(db) :
          /\ n = plan.name[r] /\ r \in DOMAIN db.runs
          /\ db'.runs[n].release = db.runs[r].release /\ db'.runs[n].key = None
    BY NewRows DEF Named
  <1>6. Formed(db')
    <2>1. \A n \in DOMAIN db'.runs : db'.runs[n].release \in Release
      BY <1>1, <1>5 DEF Formed
    <2>2. db'.round = [r \in Release |-> db'.round[r]]
      BY <1>1, <1>2 DEF Formed
    <2> QED  BY <1>2, <1>3, <1>4, <2>1, <2>2, NewRows DEF Formed, Tables
  <1>7. Second(db')
    <2>1. \A r \in Named(db) : Len(plan.name[r]) = 2
      BY DEF Ready
    <2> QED  BY <1>5, <2>1 DEF Second
  <1>8. Told(db)'
    <2> SUFFICES ASSUME NEW n \in DOMAIN db'.results, db'.results[n].case[1] # None
                 PROVE  db'.results[n].case[1] = RoundOfRun(db', db'.results[n].run)
      BY DEF Told
    <2>1. PICK s \in DOMAIN db.results : n = NewResult(db, plan.name, s)
      BY NewRows
    <2> DEFINE r == db.results[s].run
    <2>2. r \in Named(db) /\ db'.results[n].run = plan.name[r] /\ db'.results[n].case = NewCase(db, s)
      BY <2>1, NewRows
    <2>3. db'.runs[plan.name[r]].release = db.runs[r].release
      BY <2>2, NewRows
    <2>4. db.runs[r].release \in Release
      BY <1>1, <2>2 DEF Formed, Named
    <2>5. db'.results[n].case[1] = db.round[db.runs[r].release]
      BY <2>2 DEF NewCase, ReleaseOf
    <2>6. ResolvedRound(db', db.runs[r].release) = ResolvedRound(db, db.runs[r].release)
      BY <1>2, ResolvedSame
    <2>7. RoundOfRun(db', plan.name[r]) = ResolvedRound(db', db.runs[r].release)
      BY <1>1, <1>2, <2>3 DEF RoundOfRun
    <2>8. ResolvedRound(db, db.runs[r].release) = db.round[db.runs[r].release]
      BY <2>4, <2>5, ResolvedFacts
    <2> QED  BY <2>2, <2>5, <2>6, <2>7, <2>8
  <1>9. RoundsKept' /\ Standing(db)'
    BY <1>1, <1>2 DEF Inductive, RoundsKept, Standing
  <1> QED  BY <1>1, <1>2, <1>6, <1>7, <1>8, <1>9

\* A second apply finds runs without a key: it is refused, unless there is no result.
LEMMA NothingLeft ==
  ASSUME Inductive, Second(db), Ready(db, plan)
  PROVE  /\ DOMAIN db.results = {} /\ DOMAIN given.results = {}
         /\ DOMAIN given.judged = {} /\ DOMAIN given.evidence = {}
         /\ DOMAIN db.defects = {} /\ DOMAIN given.defects = {}
         /\ UsedCases(db) = {} /\ Moved(db) = {} /\ Recased(db) = {} /\ Recopied(db) = {}
PROOF
  <1>1. Named(db) = {}
    BY DEF Second, Ready, Named, KeyOf
  <1>2. DOMAIN db.results = {}
    BY <1>1 DEF Inductive, Placed, Named, RunsOf
  <1>3. DOMAIN given.results = {}
    BY <1>2 DEF Inductive, Same
  <1>4. DOMAIN given.judged = {} /\ DOMAIN given.evidence = {}
    BY <1>2 DEF Inductive, Referred, At
  <1>5. DOMAIN db.defects = {} /\ DOMAIN given.defects = {}
    BY <1>3 DEF Inductive, Referred
  <1>6. UsedCases(db) = {}
    BY <1>2 DEF UsedCases
  <1>7. Moved(db) = {} /\ Recased(db) = {} /\ Recopied(db) = {}
    BY <1>6 DEF Moved, Recased, Recopied
  <1> QED  BY <1>2, <1>3, <1>4, <1>5, <1>6, <1>7

LEMMA AgainStep ==
  ASSUME Inductive, Second(db), Ready(db, plan), db' = Renumbering(db, plan), UNCHANGED <<given, about>>
  PROVE  Placed(db') /\ Same(db)' /\ Referred(db)' /\ Unopened(db)' /\ Stepped(db)' /\ StepsKept'
PROOF
  <1>1. Formed(db) /\ DOMAIN plan.name = Named(db)
    BY DEF Inductive, Types, Ready
  <1>2. DOMAIN db'.results = {}
    BY NothingLeft, NewRows
  <1>3. DOMAIN db'.defects = {}
    BY <1>1, RenumberedFields, NothingLeft
  <1>4. Placed(db')
    <2>1. DOMAIN db'.cases = DOMAIN db.cases
      BY <1>1, RenumberedFields, NothingLeft
    <2>2. /\ DOMAIN db'.procedures = DOMAIN db.procedures
          /\ \A n \in DOMAIN db.procedures : db'.procedures[n] = db.procedures[n]
      BY <1>1, RenumberedFields, NothingLeft
    <2> QED  BY <1>2, <2>1, <2>2 DEF Inductive, Placed
  <1>5. Same(db)'
    BY <1>2, NothingLeft DEF Same
  <1>6. Referred(db)' /\ Unopened(db)'
    BY <1>3, NothingLeft DEF Referred, Unopened
  <1>7. Stepped(db)' /\ StepsKept'
    BY NothingLeft DEF Stepped, StepsKept
  <1> QED  BY <1>4, <1>5, <1>6, <1>7

LEMMA RenumberStep ==
  ASSUME Inductive, Renumber
  PROVE  Inductive'
PROOF
  <1>1. /\ db' = Renumbering(db, plan) /\ at = "planned" /\ at' = "rest"
        /\ UNCHANGED <<given, about, late>>
    BY DEF Renumber
  <1>2. Formed(db) /\ Ready(db, plan)
    BY <1>1 DEF Inductive, Types
  <1>3. /\ Formed(db') /\ Second(db') /\ Told(db)' /\ RoundsKept' /\ Standing(db)' /\ db'.released
    BY <1>1, <1>2, NewShape
  <1>4. /\ Placed(db') /\ Same(db)' /\ Referred(db)' /\ Unopened(db)' /\ Stepped(db)' /\ StepsKept'
    <2>1. CASE First(db)
      BY <1>1, <1>2, <2>1, NewPlaces, NewReferences, NewSteps
    <2>2. CASE Second(db)
      BY <1>1, <1>2, <2>2, AgainStep
    <2> QED  BY <2>1, <2>2 DEF Inductive
  <1>5. Types'
    <2>1. DOMAIN db'.defects = DOMAIN db.defects
      BY <1>1, <1>2, RenumberedFields
    <2> QED  BY <1>1, <1>3, <2>1 DEF Inductive, Types
  <1> QED  BY <1>1, <1>3, <1>4, <1>5 DEF Inductive

-----------------------------------------------------------------------------
LEMMA NextInductive == Inductive /\ [Next]_vars => Inductive'
PROOF
  <1> SUFFICES ASSUME Inductive, [Next]_vars
               PROVE  Inductive'
    OBVIOUS
  <1>1. CASE NormalizeRounds
    BY <1>1, NormalizeStep
  <1>2. CASE PlanRenumbering
    BY <1>2, PlanStep
  <1>3. CASE Renumber
    BY <1>3, RenumberStep
  <1>4. CASE CreateNewTable
    BY <1>4, CreateStep
  <1>5. CASE Rebuild
    BY <1>5, RebuildStep
  <1>6. CASE Break
    BY <1>6, BreakStep
  <1>7. CASE OpenDefect
    BY <1>7, OpenStep
  <1>8. CASE UNCHANGED vars
    BY <1>8, IdleStep DEF vars
  <1> QED  BY <1>1, <1>2, <1>3, <1>4, <1>5, <1>6, <1>7, <1>8 DEF Next

-----------------------------------------------------------------------------
\* In every reachable state rows, references, plans and rounds are as the scripts and
\* the checks before them suppose: whatever scripts were run in whatever order, broken
\* off wherever and run again.
THEOREM MigrationInductive == Spec => []Inductive
PROOF
  <1>1. Init => Inductive
    BY InitInductive
  <1>2. Inductive /\ [Next]_vars => Inductive'
    BY NextInductive
  <1> QED  BY <1>1, <1>2, PTL DEF Spec

\* Results lie in runs and cases that exist, procedures in cases that exist, and after
\* 15-5 every run and report carries one of the seven campaigns.
THEOREM MigrationTypes == Spec => []TypeOK
PROOF
  <1>1. Inductive => TypeOK
    BY DEF Inductive, Types, Placed, Ended, TypeOK
  <1> QED  BY <1>1, MigrationInductive, PTL

\* As many rows as results at the beginning: the row of each is found by its first
\* identifier.
LEMMA AsMany ==
  ASSUME Inductive
  PROVE  Cardinality(DOMAIN db.results) = Cardinality(DOMAIN given.results)
PROOF
  <1> DEFINE f == [s \in DOMAIN given.results |-> Row(s)]
  <1>1. IsFiniteSet(DOMAIN given.results)
    BY MigrationAssumption DEF Inductive, Types, Untouched
  <1>2. ASSUME NEW s \in DOMAIN given.results
        PROVE  Row(s) \in DOMAIN db.results /\ db.results[Row(s)].was = s
    <2>1. \E n \in DOMAIN db.results : db.results[n].was = s
      BY DEF Inductive, Same
    <2> QED  BY <2>1 DEF Row
  <1>3. ASSUME NEW n \in DOMAIN db.results
        PROVE  db.results[n].was \in DOMAIN given.results /\ Row(db.results[n].was) = n
    BY <1>2 DEF Inductive, Same
  <1>4. f \in Bijection(DOMAIN given.results, DOMAIN db.results)
    <2>1. f \in Injection(DOMAIN given.results, DOMAIN db.results)
      BY <1>2 DEF Injection, IsInjective
    <2>2. f \in Surjection(DOMAIN given.results, DOMAIN db.results)
      BY <1>2, <1>3 DEF Surjection
    <2> QED  BY <2>1, <2>2 DEF Bijection
  <1>5. ExistsBijection(DOMAIN given.results, DOMAIN db.results)
    BY <1>4 DEF ExistsBijection
  <1> QED  BY <1>1, <1>5, FS_Bijection

\* A migration loses nothing: each result of the beginning is one row, whatever its
\* identifier is now, and judgements, evidence and defects are about the rows that they
\* were about; only a defect that the server opened during 15-4 may miss its row.
THEOREM MigrationRows == Spec => []NothingLost
PROOF
  <1>1. ASSUME Inductive
        PROVE  NothingLost
    <2>1. \A n, s : At(db, n, s) => n = Row(s)
      <3> SUFFICES ASSUME NEW n, NEW s, At(db, n, s)
                   PROVE  n = Row(s)
        OBVIOUS
      <3>1. \A m, k \in DOMAIN db.results : db.results[m].was = db.results[k].was => m = k
        BY <1>1 DEF Inductive, Same
      <3>2. (CHOOSE m \in DOMAIN db.results : db.results[m].was = s) = n
        BY <3>1, RowIs
      <3> QED  BY <3>2 DEF Row
    <2>2. {db.results[n].was : n \in DOMAIN db.results} = DOMAIN given.results
      BY <1>1 DEF Inductive, Same
    <2>3. \A j \in DOMAIN given.judged : db.judged[j].result = Row(given.judged[j].result)
      BY <1>1, <2>1 DEF Inductive, Referred
    <2>4. \A e \in DOMAIN given.evidence : db.evidence[e] = Row(given.evidence[e])
      BY <1>1, <2>1 DEF Inductive, Referred
    <2>5. \A x \in DOMAIN db.defects : Missed(x) \/ db.defects[x].result = Row(about[x])
      BY <1>1, <2>1 DEF Inductive, Referred, Lost, Missed
    <2>6. \A x \in DOMAIN given.defects :
            given.defects[x].retest # None => db.defects[x].retest = Row(given.defects[x].retest)
      BY <1>1, <2>1 DEF Inductive, Referred
    <2>7. StepsKept
      BY <1>1 DEF Inductive
    <2> QED  BY <1>1, <2>2, <2>3, <2>4, <2>5, <2>6, <2>7, AsMany DEF NothingLost
  <1> QED  BY <1>1, MigrationInductive, PTL

\* The campaign that the identifier of a case tells is that of its run, until 15-1 is
\* run again; and no round that is used has been deleted.
THEOREM MigrationNames == Spec => []NamesAgree
PROOF
  <1>1. Inductive => NamesAgree
    BY DEF Inductive, Told, NamesAgree
  <1> QED  BY <1>1, MigrationInductive, PTL

LEMMA CampaignIs ==
  ASSUME NEW d, \A m, n \in DOMAIN d.results : d.results[m].was = d.results[n].was => m = n,
         NEW n, NEW s, At(d, n, s)
  PROVE  Campaign(d, s) = RoundOfRun(d, d.results[n].run)
PROOF
  <1>1. (CHOOSE m \in DOMAIN d.results : d.results[m].was = s) = n
    BY RowIs
  <1> QED  BY <1>1 DEF Campaign

\* A step that leaves the results in their runs, and the runs in their rounds, leaves
\* every result in its campaign.
LEMMA CampaignStays ==
  ASSUME Inductive, Alike(db, db'), NEW s \in DOMAIN given.results,
         \A r \in DOMAIN db.runs : RoundOfRun(db', r) = RoundOfRun(db, r)
  PROVE  Campaign(db', s) = Campaign(db, s)
PROOF
  <1>1. PICK n \in DOMAIN db.results : db.results[n].was = s
    BY DEF Inductive, Same
  <1>2. \A m, k \in DOMAIN db.results : db.results[m].was = db.results[k].was => m = k
    BY DEF Inductive, Same
  <1>3. Campaign(db, s) = RoundOfRun(db, db.results[n].run)
    BY <1>1, <1>2, CampaignIs DEF At
  <1>4. db'.results = db.results
    BY DEF Alike
  <1>5. Campaign(db', s) = RoundOfRun(db', db.results[n].run)
    BY <1>1, <1>2, <1>4, CampaignIs DEF At
  <1>6. db.results[n].run \in DOMAIN db.runs
    BY <1>1 DEF Inductive, Placed
  <1> QED  BY <1>3, <1>5, <1>6

LEMMA CampaignRenumbered ==
  ASSUME Inductive, Inductive', Renumber, NEW s \in DOMAIN given.results
  PROVE  Campaign(db', s) = Campaign(db, s)
PROOF
  <1>1. db' = Renumbering(db, plan) /\ Formed(db) /\ Ready(db, plan)
    BY DEF Renumber, Inductive, Types
  <1>2. PICK n \in DOMAIN db.results : db.results[n].was = s
    BY DEF Inductive, Same
  <1> DEFINE r == db.results[n].run
             new == NewResult(db, plan.name, n)
  <1>3. Campaign(db, s) = RoundOfRun(db, r)
    BY <1>2, CampaignIs DEF At, Inductive, Same
  <1>4. /\ At(db', new, s) /\ db'.results[new].run = plan.name[r]
        /\ db'.runs[plan.name[r]].release = db.runs[r].release
    BY <1>1, <1>2, NewRows DEF At
  <1>5. \A m, k \in DOMAIN db'.results : db'.results[m].was = db'.results[k].was => m = k
    BY DEF Inductive, Same
  <1> HIDE DEF r, new
  <1>6. Campaign(db', s) = RoundOfRun(db', plan.name[r])
    BY <1>4, <1>5, CampaignIs
  <1>7. db'.round = db.round /\ db.released /\ db'.released
    BY <1>1, RenumberedFields DEF Ready
  <1>8. RoundOfRun(db', plan.name[r]) = RoundOfRun(db, r)
    BY <1>4, <1>7, ResolvedSame DEF RoundOfRun
  <1> QED  BY <1>3, <1>6, <1>8

\* Neither the renumbering nor the end of the releases moves a result to another
\* campaign: only 15-1 does.
THEOREM MigrationCampaigns == Spec => CampaignsKept
PROOF
  <1> DEFINE Kept == \/ db.round # db'.round
                     \/ \A s \in DOMAIN given.results : Campaign(db', s) = Campaign(db, s)
  <1>1. ASSUME Inductive, Inductive', [Next]_vars
        PROVE  Kept
    <2> SUFFICES ASSUME db.round = db'.round, NEW s \in DOMAIN given.results
                 PROVE  Campaign(db', s) = Campaign(db, s)
      OBVIOUS
    <2>0. Formed(db)
      BY <1>1 DEF Inductive, Types
    <2>1. CASE db'.runs = db.runs /\ db'.released = db.released /\ Alike(db, db')
      <3>1. \A r \in DOMAIN db.runs : RoundOfRun(db', r) = RoundOfRun(db, r)
        BY <2>1, ResolvedSame DEF RoundOfRun
      <3> QED  BY <1>1, <2>1, <3>1, CampaignStays
    <2>2. CASE NormalizeRounds
      <3>1. db'.runs = db.runs /\ db'.released = db.released /\ Alike(db, db')
        BY <2>0, <2>2 DEF NormalizeRounds, Alike, Formed, IsRecord
      <3> QED  BY <2>1, <3>1
    <2>3. CASE CreateNewTable
      <3>1. db'.runs = db.runs /\ db'.released = db.released /\ Alike(db, db')
        BY <2>0, <2>3 DEF CreateNewTable, Alike, Formed, IsRecord
      <3> QED  BY <2>1, <3>1
    <2>4. CASE OpenDefect
      <3>1. db'.runs = db.runs /\ db'.released = db.released /\ Alike(db, db')
        BY <2>0, <2>4 DEF OpenDefect, Alike, Formed, IsRecord
      <3> QED  BY <2>1, <3>1
    <2>5. CASE UNCHANGED db
      BY <2>1, <2>5 DEF Alike
    <2>6. CASE Rebuild
      <3>1. /\ Alike(db, db') /\ ~db'.released
            /\ \A r \in DOMAIN db.runs : db'.runs[r].round = ResolvedRound(db, db.runs[r].release)
        BY <2>0, <2>6, RebuiltFields DEF Rebuild
      <3>2. db.released
        BY <1>1, <2>6 DEF Rebuild, Inductive, Resolved
      <3>3. \A r \in DOMAIN db.runs : RoundOfRun(db', r) = RoundOfRun(db, r)
        BY <3>1, <3>2 DEF RoundOfRun
      <3> QED  BY <1>1, <3>1, <3>3, CampaignStays
    <2>7. CASE Renumber
      BY <1>1, <2>7, CampaignRenumbered
    <2> QED  BY <1>1, <2>2, <2>3, <2>4, <2>5, <2>6, <2>7 DEF Next, PlanRenumbering, Break, vars
  <1>2. Inductive /\ Inductive' /\ [Next]_vars => [Kept]_vars
    BY <1>1
  <1>3. [][Kept]_vars <=> CampaignsKept
    BY PTL DEF CampaignsKept
  <1> QED  BY <1>2, <1>3, MigrationInductive, PTL DEF Spec
=============================================================================
