------------------------- MODULE ReleaseTreeProofs -------------------------
(***************************************************************************)
(* Proofs about ReleaseTree, for all results, reports, configurations,     *)
(* devices and rounds: in whatever order and how often the scripts are     *)
(* run, the tree stays a tree and every result keeps its place in it.      *)
(***************************************************************************)
EXTENDS ReleaseTree, FiniteSetTheorems, WellFoundedInduction, TLAPS

\* The rounds there may be: those of the campaign and UNCLASSIFIED
Named == Short \cup {None}

LEMMA Names ==
  /\ Report \cap Named = {} /\ DOMAIN Version \subseteq Named /\ RoundOf \in [Report -> Named]
  /\ \A s \in DOMAIN Version : \A d \in DOMAIN Version[s] : d \in Device /\ Version[s][d] \in Named
BY TreeAssumption DEF Named

\* What the scripts take for the name of a round: a report, a round, or a device of it.
IsBase(b) ==
  \/ b[1] \in Report \cup Named /\ b = <<b[1]>>
  \/ b[1] \in DOMAIN Version /\ b = <<b[1], b[2]>> /\ b[2] \in DOMAIN Version[b[1]]

\* The rows of each kind, and what is above them
Imported(R, i) ==
  /\ i[1] = "import" /\ i = <<"import", i[2]>> /\ i[2] \in Report
  /\ R[i].seq # 0
  /\ R[i].up # Nothing => /\ ~R[i].visible /\ R[i].up \in DOMAIN R
                       /\ R[i].up[1] \in {"row", "stopo"} /\ R[i].up[2] = <<RoundOf[i[2]]>>

IsHandRow(R, i) ==
  /\ i[1] = "row" /\ i = <<"row", i[2], i[3]>>
  /\ i[2][1] \in Named /\ i[2] = <<i[2][1]>>
  /\ R[i].visible /\ R[i].up \in DOMAIN R
  /\ R[i].up[1] \in {"round", "session"} /\ R[i].up[2] = i[2]

IsRound(R, i) ==
  /\ i[1] = "round" /\ i = <<"round", i[2]>> /\ IsBase(i[2]) /\ i[2][1] \in Named
  /\ R[i].visible /\ R[i].up = Multi

\* What stands directly under a round, or under an import that stands for a round
Under(R, i) ==
  /\ R[i].up \in DOMAIN R /\ Base(R[i].up) = i[2]
  /\ R[i].up[1] = "import" => R[R[i].up].up = Nothing

IsTopo(R, i) ==
  /\ i[1] = "topo" /\ i = <<"topo", i[2], i[3]>> /\ IsBase(i[2])
  /\ R[i].visible /\ Under(R, i) /\ R[i].up[1] \in {"round", "import", "session"}

IsSession(R, i) ==
  /\ i[1] = "session" /\ i = <<"session", i[2], i[3]>> /\ IsBase(i[2])
  /\ i[3] \in Nat \ {0} /\ (i[2][1] \in Report => i[3] = 1)
  /\ R[i].visible /\ Under(R, i) /\ R[i].up[1] \in {"round", "import"}

IsSessionTopo(R, i) ==
  /\ i[1] = "stopo" /\ i = <<"stopo", i[2], i[3], i[4]>> /\ IsBase(i[2]) /\ i[2][1] \in Named
  /\ R[i].visible /\ R[i].up \in DOMAIN R /\ R[i].up = <<"session", i[2], i[3]>>

\* A candidate is under its configuration, or under the copy for its session; the first
\* one always stays.
IsRC(R, i) ==
  /\ i[1] = "rc" /\ i = <<"rc", i[2], i[3], i[4]>> /\ IsBase(i[2])
  /\ i[4] \in Nat \ {0} /\ (i[2][1] \in Report => i[4] = 1)
  /\ ~R[i].visible /\ R[i].seq = i[4] /\ R[i].up \in DOMAIN R
  /\ \/ R[i].up = <<"topo", i[2], i[3]>>
     \/ i[4] # 1 /\ R[i].up = <<"stopo", i[2], i[4], i[3]>>

IsRecord(R, i) ==
  /\ R[i] = Row(R[i].up, R[i].visible, R[i].seq, R[i].status, R[i].by)
  /\ R[i].visible \in BOOLEAN /\ R[i].seq \in Nat
  /\ R[i].status \in {"PASSED", "BLOCKED", "TESTING"}
  /\ R[i].by = "import" <=> i[1] = "import"

IsPlaced(R, i) ==
  \/ Imported(R, i) \/ IsHandRow(R, i) \/ IsRound(R, i) \/ IsTopo(R, i)
  \/ IsSession(R, i) \/ IsSessionTopo(R, i) \/ IsRC(R, i)

Whole(R) == \A i \in DOMAIN R : IsRecord(R, i) /\ IsPlaced(R, i)

\* Runs hang on candidates or imports, results on runs, reports on releases or on
\* the import that has been deleted.
Hung ==
  /\ \A u \in DOMAIN run : run[u] \in DOMAIN rel /\ run[u][1] \in {"import", "rc"}
  /\ res = [r \in Result |-> [run |-> res[r].run, status |-> res[r].status]]
  /\ \A r \in Result :
       /\ res[r].run \in DOMAIN run /\ res[r].status \in {"PASSED", "testing", "passed", "blocked"}
       /\ RC(r)[1] = "import" /\ rel[RC(r)].up = Nothing => rel[RC(r)].visible
  /\ \A x \in Report : \/ report[x] = <<"import", x>>
                       \/ report[x] \in DOMAIN rel /\ report[x][1] \in {"row", "round"}

\* The run of a device has taken all results of that device.
Taken ==
  \A u \in DOMAIN run :
    /\ u[1] \in {"import", "service", "run", "device"}
    /\ u[1] = "device" => /\ u[2] \in DOMAIN run \/ u[2][1] = "import"
                          /\ \A r \in Result : ~(res[r].run = u[2] /\ DeviceOf[r] = u[3])

\* Once an import has stood for a round, every result that names its configuration lies
\* in a round that has it, in a run whose results name no other: the restructure is
\* refused from then on.
Restructured == \E i \in DOMAIN rel : i[1] \in {"topo", "session"} /\ i[2][1] \in Report

Sorted ==
  Restructured =>
    \A r \in Result : ComboOf[r] # None =>
      /\ RC(r)[1] = "rc" /\ RC(r)[3] \in {ComboOf[r], None} /\ <<"topo", RC(r)[2], ComboOf[r]>> \in DOMAIN rel
      /\ \A q \in Result : res[q].run = res[r].run => ComboOf[q] \in {ComboOf[r], None}

Inductive ==
  /\ Whole(rel) /\ Hung /\ Taken /\ Sorted /\ OneRC /\ BlockedShown
  /\ last \in {"import", "topology", "sessions", "devices", "normalize", "judge"}

-----------------------------------------------------------------------------
\* Rows and rewritten rows

\* A row that was rewritten without being moved; imports may be hidden.
Still(R, Q, i) ==
  /\ i \in DOMAIN Q
  /\ Q[i].up = R[i].up /\ Q[i].by = R[i].by /\ Q[i].seq = R[i].seq
  /\ \/ Q[i].visible = R[i].visible
     \/ i[1] = "import" /\ ~Q[i].visible

LEMMA StillPlaced ==
  ASSUME NEW R, NEW Q, NEW i, IsPlaced(R, i), Still(R, Q, i),
         R[i].up \in DOMAIN R => /\ R[i].up \in DOMAIN Q
                                 /\ R[i].up[1] = "import" => Q[R[i].up].up = R[R[i].up].up
  PROVE  IsPlaced(Q, i)
PROOF
  <1>1. CASE Imported(R, i)
    BY <1>1 DEF IsPlaced, Imported, Still
  <1>2. CASE IsHandRow(R, i)
    BY <1>2 DEF IsPlaced, IsHandRow, Still
  <1>3. CASE IsRound(R, i)
    BY <1>3 DEF IsPlaced, IsRound, Still
  <1>4. CASE IsTopo(R, i)
    BY <1>4 DEF IsPlaced, IsTopo, Under, Still
  <1>5. CASE IsSession(R, i)
    BY <1>5 DEF IsPlaced, IsSession, Under, Still
  <1>6. CASE IsSessionTopo(R, i)
    BY <1>6 DEF IsPlaced, IsSessionTopo, Still
  <1>7. CASE IsRC(R, i)
    BY <1>7 DEF IsPlaced, IsRC, Still
  <1> QED  BY <1>1, <1>2, <1>3, <1>4, <1>5, <1>6, <1>7 DEF IsPlaced

\* A status is all that Recount and Rollup change.
Settled(R, Q) ==
  /\ DOMAIN Q = DOMAIN R
  /\ \A i \in DOMAIN R : /\ Q[i].up = R[i].up /\ Q[i].by = R[i].by /\ Q[i].seq = R[i].seq
                         /\ Q[i].visible = R[i].visible

LEMMA SettledWhole ==
  ASSUME NEW R, NEW Q, Whole(R), Settled(R, Q), \A i \in DOMAIN R : IsRecord(Q, i)
  PROVE  Whole(Q)
PROOF
  <1>1. ASSUME NEW i \in DOMAIN R  PROVE IsPlaced(Q, i)
    <2>1. IsPlaced(R, i) /\ Still(R, Q, i)
      BY DEF Whole, Settled, Still
    <2> QED  BY <2>1, StillPlaced DEF Settled
  <1> QED  BY <1>1 DEF Whole, Settled

Written(R, Q, I, S) ==
  /\ DOMAIN Q = DOMAIN R /\ I \subseteq DOMAIN R
  /\ \A i \in (DOMAIN R) \ I : Q[i] = R[i]
  /\ \A i \in I : Q[i] = [R[i] EXCEPT !.status = S[i]]
  /\ \A i \in I : S[i] \in {"PASSED", "BLOCKED", "TESTING"}

LEMMA StatusWritten ==
  ASSUME NEW R, NEW Q, NEW I, NEW S, Whole(R), Written(R, Q, I, S)
  PROVE  Whole(Q) /\ Settled(R, Q) /\ \A i \in I : Q[i].status = S[i]
PROOF
  <1>1. ASSUME NEW i \in I
        PROVE  /\ IsRecord(Q, i) /\ Q[i].status = S[i]
               /\ Q[i].up = R[i].up /\ Q[i].by = R[i].by /\ Q[i].seq = R[i].seq /\ Q[i].visible = R[i].visible
    <2>1. /\ R[i] = Row(R[i].up, R[i].visible, R[i].seq, R[i].status, R[i].by)
          /\ R[i].visible \in BOOLEAN /\ R[i].seq \in Nat /\ (R[i].by = "import" <=> i[1] = "import")
      BY DEF Whole, IsRecord, Written
    <2>2. Q[i] = [R[i] EXCEPT !.status = S[i]]
      BY DEF Written
    <2>3. Q[i] = Row(R[i].up, R[i].visible, R[i].seq, S[i], R[i].by)
      BY <2>1, <2>2 DEF Row
    <2>4. /\ Q[i].up = R[i].up /\ Q[i].by = R[i].by /\ Q[i].seq = R[i].seq /\ Q[i].visible = R[i].visible
          /\ Q[i].status = S[i]
      BY <2>3 DEF Row
    <2> QED  BY <2>1, <2>3, <2>4 DEF IsRecord, Written
  <1>2. \A i \in (DOMAIN R) \ I : IsRecord(Q, i)
    BY DEF Whole, IsRecord, Written
  <1>3. Settled(R, Q)
    BY <1>1 DEF Settled, Written
  <1> QED  BY <1>1, <1>2, <1>3, SettledWhole DEF Written

\* The first table, where it has a row, over the second
LEMMA Merge ==
  ASSUME NEW f, NEW g
  PROVE  /\ DOMAIN (f ++ g) = (DOMAIN f) \cup (DOMAIN g)
         /\ \A x \in DOMAIN f : (f ++ g)[x] = f[x]
         /\ \A x \in DOMAIN g : x \notin DOMAIN f => (f ++ g)[x] = g[x]
PROOF BY DEF ++

LEMMA RecountFacts ==
  ASSUME NEW R, NEW U, NEW s, NEW I, Whole(R), I \subseteq DOMAIN R
  PROVE  /\ Whole(Recount(R, U, s, I)) /\ Settled(R, Recount(R, U, s, I))
         /\ \A i \in I : "blocked" \in StatusesIn(U, s, i) => Recount(R, U, s, I)[i].status = "BLOCKED"
PROOF
  <1> DEFINE Q == Recount(R, U, s, I)
             S == [i \in I |-> FromResults(StatusesIn(U, s, i))]
  <1>1. DOMAIN Q = DOMAIN R
    BY DEF Recount, ++
  <1>2. \A i \in (DOMAIN R) \ I : Q[i] = R[i]
    BY DEF Recount, ++
  <1>3. ASSUME NEW i \in I  PROVE  Q[i] = [R[i] EXCEPT !.status = S[i]]
    BY DEF Recount, ++
  <1>4. ASSUME NEW i \in I  PROVE S[i] \in {"PASSED", "BLOCKED", "TESTING"}
    BY DEF FromResults
  <1>5. ASSUME NEW i \in I, "blocked" \in StatusesIn(U, s, i)  PROVE S[i] = "BLOCKED"
    BY <1>5 DEF FromResults
  <1> HIDE DEF Q, S
  <1>6. Written(R, Q, I, S)
    BY <1>1, <1>2, <1>3, <1>4 DEF Written
  <1>7. Whole(Q) /\ Settled(R, Q) /\ \A i \in I : Q[i].status = S[i]
    BY <1>6, StatusWritten
  <1> QED  BY <1>5, <1>7 DEF Q

LEMMA RollupFacts ==
  ASSUME NEW R, NEW I, NEW V, Whole(R), I \subseteq DOMAIN R
  PROVE  /\ Whole(Rollup(R, I, V)) /\ Settled(R, Rollup(R, I, V))
         /\ \A i \in I, j \in DOMAIN R : 
              R[j].up = i /\ R[j].visible \in V /\ R[j].status = "BLOCKED" => Rollup(R, I, V)[i].status = "BLOCKED"
         /\ \A i \in (DOMAIN R) \ I : Rollup(R, I, V)[i] = R[i]
PROOF
  <1> DEFINE Q == Rollup(R, I, V)
             below(i) == {R[j].status : j \in {j \in Children(R, i) : R[j].visible \in V}}
             K == {i \in I : below(i) # {}}
             S == [i \in K |-> FromReleases(below(i))]
  <1>0. Q = [i \in K |-> [R[i] EXCEPT !.status = FromReleases(below(i))]] ++ R
    BY DEF Rollup
  <1>1. DOMAIN Q = DOMAIN R
    BY <1>0 DEF ++
  <1>2. \A i \in (DOMAIN R) \ K : Q[i] = R[i]
    BY <1>0 DEF ++
  <1>3. ASSUME NEW i \in K  PROVE  Q[i] = [R[i] EXCEPT !.status = S[i]]
    BY <1>0 DEF ++
  <1>4. ASSUME NEW i \in K  PROVE S[i] \in {"PASSED", "BLOCKED", "TESTING"}
    BY DEF FromReleases
  <1>5. ASSUME NEW i \in I, NEW j \in DOMAIN R, R[j].up = i, R[j].visible \in V, R[j].status = "BLOCKED"
        PROVE  i \in K /\ S[i] = "BLOCKED"
    <2>1. "BLOCKED" \in below(i)
      BY <1>5 DEF Children
    <2>2. i \in K
      BY <2>1
    <2> QED  BY <2>1, <2>2 DEF FromReleases
  <1>6. K \subseteq I /\ K \subseteq DOMAIN R
    OBVIOUS
  <1> HIDE DEF Q, S, K
  <1>7. Written(R, Q, K, S)
    BY <1>1, <1>2, <1>3, <1>4, <1>6 DEF Written
  <1>8. Whole(Q) /\ Settled(R, Q) /\ \A i \in K : Q[i].status = S[i]
    BY <1>7, StatusWritten
  <1> QED  BY <1>2, <1>5, <1>6, <1>8 DEF Q

-----------------------------------------------------------------------------
\* What the kind of a row tells

LEMMA Kinds ==
  ASSUME NEW R, Whole(R), NEW i \in DOMAIN R
  PROVE  /\ i[1] \in {"import", "row", "round", "topo", "session", "stopo", "rc"}
         /\ (i[1] = "import" => Imported(R, i)) /\ (i[1] = "row" => IsHandRow(R, i))
         /\ (i[1] = "round" => IsRound(R, i)) /\ (i[1] = "topo" => IsTopo(R, i))
         /\ (i[1] = "session" => IsSession(R, i)) /\ (i[1] = "stopo" => IsSessionTopo(R, i))
         /\ (i[1] = "rc" => IsRC(R, i))
PROOF
  <1>1. IsPlaced(R, i)
    BY DEF Whole
  <1>2. CASE Imported(R, i)
    <2>1. i[1] = "import"
      BY <1>2 DEF Imported
    <2> QED  BY <1>2, <2>1
  <1>3. CASE IsHandRow(R, i)
    <2>1. i[1] = "row"
      BY <1>3 DEF IsHandRow
    <2> QED  BY <1>3, <2>1
  <1>4. CASE IsRound(R, i)
    <2>1. i[1] = "round"
      BY <1>4 DEF IsRound
    <2> QED  BY <1>4, <2>1
  <1>5. CASE IsTopo(R, i)
    <2>1. i[1] = "topo"
      BY <1>5 DEF IsTopo
    <2> QED  BY <1>5, <2>1
  <1>6. CASE IsSession(R, i)
    <2>1. i[1] = "session"
      BY <1>6 DEF IsSession
    <2> QED  BY <1>6, <2>1
  <1>7. CASE IsSessionTopo(R, i)
    <2>1. i[1] = "stopo"
      BY <1>7 DEF IsSessionTopo
    <2> QED  BY <1>7, <2>1
  <1>8. CASE IsRC(R, i)
    <2>1. i[1] = "rc"
      BY <1>8 DEF IsRC
    <2> QED  BY <1>8, <2>1
  <1> QED  BY <1>1, <1>2, <1>3, <1>4, <1>5, <1>6, <1>7, <1>8 DEF IsPlaced

\* Nothing hangs on a candidate, and only what stands for a round ends a chain.
LEMMA Ups ==
  ASSUME NEW R, Whole(R), NEW i \in DOMAIN R
  PROVE  /\ Multi \notin DOMAIN R /\ Nothing \notin DOMAIN R /\ Multi # Nothing
         /\ \/ R[i].up = Multi /\ i[1] = "round"
            \/ R[i].up = Nothing /\ i[1] = "import"
            \/ R[i].up \in DOMAIN R /\ i[1] # "round"
         /\ R[i].up[1] # "rc"
         /\ R[i].up[1] = "import" => /\ R[i].up \in DOMAIN R /\ R[R[i].up].up = Nothing
                                     /\ i[1] \in {"topo", "session"} /\ i[2] = Base(R[i].up)
PROOF
  <1>1. Multi \notin DOMAIN R /\ Nothing \notin DOMAIN R /\ Multi # Nothing
    BY Kinds DEF Multi, Nothing
  <1>2. CASE i[1] = "import"
    BY <1>1, <1>2, Kinds DEF Imported, Nothing
  <1>3. CASE i[1] = "row"
    BY <1>1, <1>3, Kinds DEF IsHandRow
  <1>4. CASE i[1] = "round"
    BY <1>1, <1>4, Kinds DEF IsRound, Multi
  <1>5. CASE i[1] = "topo"
    BY <1>1, <1>5, Kinds DEF IsTopo, Under
  <1>6. CASE i[1] = "session"
    BY <1>1, <1>6, Kinds DEF IsSession, Under
  <1>7. CASE i[1] = "stopo"
    BY <1>1, <1>7, Kinds DEF IsSessionTopo
  <1>8. CASE i[1] = "rc"
    BY <1>1, <1>8, Kinds DEF IsRC
  <1> QED  BY <1>2, <1>3, <1>4, <1>5, <1>6, <1>7, <1>8, Kinds

\* Hidden rows are candidates and imports; they are numbered from 1.
LEMMA Hiddens ==
  ASSUME NEW R, Whole(R), NEW i \in DOMAIN R
  PROVE  /\ R[i].visible \in BOOLEAN
         /\ ~R[i].visible => i[1] \in {"rc", "import"} /\ R[i].seq \in Nat \ {0}
         /\ i[1] = "rc" => ~R[i].visible
         /\ R[i].visible /\ i[1] = "import" => R[i].up = Nothing
PROOF
  <1>1. R[i].visible \in BOOLEAN /\ R[i].seq \in Nat
    BY DEF Whole, IsRecord
  <1>2. i[1] \in {"rc", "import"} => R[i].seq # 0
    BY Kinds DEF Imported, IsRC
  <1>3. i[1] \notin {"rc", "import"} => R[i].visible
    BY Kinds DEF IsHandRow, IsRound, IsTopo, IsSession, IsSessionTopo
  <1>4. (i[1] = "rc" => ~R[i].visible) /\ (i[1] = "import" /\ R[i].up # Nothing => ~R[i].visible)
    BY Kinds DEF Imported, IsRC
  <1> QED  BY <1>1, <1>2, <1>3, <1>4

\* What is under a configuration, a row or a release that stands for a round
LEMMA Bases ==
  ASSUME NEW R, Whole(R), NEW i \in DOMAIN R, i[1] \in {"import", "round", "topo", "session", "rc"}
  PROVE  IsBase(Base(i))
PROOF
  <1>1. CASE i[1] = "import"
    BY <1>1, Kinds DEF Imported, IsBase, Base
  <1> QED  BY <1>1, Kinds DEF IsRound, IsTopo, IsSession, IsRC, Base

LEMMA BaseFacts ==
  ASSUME NEW b, IsBase(b)
  PROVE  /\ b[1] \in Report \cup Named
         /\ b[1] \in Report => b = <<b[1]>> /\ b[1] \notin Named /\ RoundOf[b[1]] \in Named
         /\ Len(b) = 2 => b[1] \in DOMAIN Version /\ b[2] \in DOMAIN Version[b[1]] /\ Version[b[1]][b[2]] \in Named
         /\ b[1] \in Named /\ Len(b) # 2 => b = <<b[1]>>
PROOF
  <1>1. CASE b[1] \in Report \cup Named /\ b = <<b[1]>>
    <2>1. Len(b) = 1
      BY <1>1
    <2> QED  BY <1>1, <2>1, Names
  <1>2. CASE b[1] \in DOMAIN Version /\ b = <<b[1], b[2]>> /\ b[2] \in DOMAIN Version[b[1]]
    <2>1. Len(b) = 2
      BY <1>2
    <2>2. b[1] \in Named /\ b[1] \notin Report /\ Version[b[1]][b[2]] \in Named
      BY <1>2, Names
    <2> QED  BY <1>2, <2>1, <2>2
  <1> QED  BY <1>1, <1>2 DEF IsBase

LEMMA RoundNamed ==
  ASSUME NEW i, IsBase(Base(i))
  PROVE  /\ NamedRound(i) \in Named
         /\ Len(Base(i)) # 2 => NamedRound(i) = Campaign(i)
PROOF
  <1> DEFINE b == Base(i)
  <1>1. CASE b[1] \in Report
    <2>0. Len(b) = 1
      BY <1>1, BaseFacts
    <2>1. NamedRound(i) = RoundOf[b[1]]
      BY <1>1, <2>0 DEF NamedRound
    <2> QED  BY <1>1, <2>1, BaseFacts DEF Campaign
  <1>2. CASE b[1] \notin Report /\ Len(b) = 2
    <2>1. NamedRound(i) = Version[b[1]][b[2]]
      BY <1>2 DEF NamedRound
    <2> QED  BY <1>2, <2>1, BaseFacts
  <1>3. CASE b[1] \notin Report /\ Len(b) # 2
    <2>1. NamedRound(i) = b[1]
      BY <1>3 DEF NamedRound
    <2> QED  BY <1>3, <2>1, BaseFacts DEF Campaign
  <1> QED  BY <1>1, <1>2, <1>3

-----------------------------------------------------------------------------
\* The round a chain ends in

\* A release of no release
Apex(i) == i \in DOMAIN rel /\ (i[1] = "round" \/ (i[1] = "import" /\ rel[i].up = Nothing))

\* The top of a candidate is of its base, that of an import of its round, or it is itself.
IsTopOf(t, i) ==
  /\ Apex(t)
  /\ i[1] # "import" => Base(t) = i[2]
  /\ i[1] = "import" => \/ t = i /\ rel[i].up = Nothing
                        \/ t[1] = "round" /\ Base(t) = <<RoundOf[i[2]]>> /\ rel[i].up # Nothing

LEMMA AboveApex ==
  ASSUME Whole(rel), NEW t, Apex(t)
  PROVE  Above(t) = t
BY Ups, Kinds DEF Apex, Above, IsRound

LEMMA AboveSession ==
  ASSUME Whole(rel), NEW i \in DOMAIN rel, i[1] = "session"
  PROVE  Apex(Above(i)) /\ Base(Above(i)) = i[2]
BY Kinds DEF Apex, Above, IsSession, Under

LEMMA AboveRow ==
  ASSUME Whole(rel), NEW i \in DOMAIN rel, i[1] \in {"row", "topo", "stopo"}
  PROVE  /\ Apex(Above(Above(i))) /\ Base(Above(Above(i))) = i[2]
         /\ i[1] # "topo" => Above(Above(i))[1] = "round"
PROOF
  <1> DEFINE a == Above(i)
  <1>1. /\ a \in DOMAIN rel /\ Base(a) = i[2] /\ (a[1] = "session" \/ Apex(a))
        /\ i[1] # "topo" => a[1] # "import" /\ i[2][1] \in Named
    <2>1. CASE i[1] = "row"
      BY <2>1, Kinds DEF Apex, Above, Base, IsHandRow
    <2>2. CASE i[1] = "topo"
      BY <2>2, Kinds DEF Apex, Above, IsTopo, Under
    <2>3. CASE i[1] = "stopo"
      <3>1. rel[i].up \in DOMAIN rel /\ rel[i].up = <<"session", i[2], i[3]>> /\ i[2][1] \in Named
        BY <2>3, Kinds DEF IsSessionTopo
      <3> QED  BY <2>3, <3>1 DEF Above, Base
    <2> QED  BY <2>1, <2>2, <2>3
  <1>2. CASE Apex(a)
    <2>1. Above(a) = a
      BY <1>2, AboveApex
    <2> QED  BY <1>1, <1>2, <2>1 DEF Apex
  <1>3. CASE a[1] = "session"
    <2>1. Apex(Above(a)) /\ Base(Above(a)) = a[2] /\ Base(a) = a[2]
      BY <1>1, <1>3, AboveSession DEF Base
    <2>2. Above(a)[1] = "import" => Base(Above(a)) = <<Above(a)[2]>> /\ Above(a)[2] \in Report
      BY <2>1, Kinds DEF Apex, Imported, Base
    <2>3. i[1] # "topo" => Above(a)[1] # "import"
      BY <1>1, <2>1, <2>2, Names
    <2> QED  BY <1>1, <2>1, <2>3 DEF Apex
  <1> QED  BY <1>1, <1>2, <1>3

LEMMA TopFacts ==
  ASSUME Whole(rel), NEW i \in DOMAIN rel, i[1] \in {"rc", "import"}
  PROVE  IsTopOf(TopOf(i), i)
PROOF
  <1> DEFINE a == Above(i)
             t == Above(Above(a))
  <1>1. CASE Apex(i)
    <2>1. a = i /\ Above(a) = i /\ t = i
      BY <1>1, AboveApex
    <2>2. TopOf(i) = i
      BY <2>1 DEF TopOf, TwoAbove
    <2> QED  BY <1>1, <2>2 DEF IsTopOf, Apex
  <1>2. CASE ~Apex(i)
    <2>1. /\ a \in DOMAIN rel /\ a[1] \in {"row", "topo", "stopo"}
          /\ i[1] = "rc" => a[2] = i[2]
          /\ i[1] = "import" => a[1] # "topo" /\ a[2] = <<RoundOf[i[2]]>> /\ rel[i].up # Nothing
      BY <1>2, Kinds DEF Apex, Above, IsRC, Imported
    <2>2. Apex(t) /\ Base(t) = a[2] /\ (a[1] # "topo" => t[1] = "round")
      BY <2>1, AboveRow
    <2>3. Above(t) = t
      BY <2>2, AboveApex
    <2>4. TopOf(i) = t
      BY <2>3 DEF TopOf, TwoAbove
    <2> QED  BY <2>1, <2>2, <2>4 DEF IsTopOf
  <1> QED  BY <1>1, <1>2

\* What Inductive says of the tree, kept as the run has it
LEMMA InductiveTreeWhole ==
  ASSUME Inductive
  PROVE  TreeWhole /\ TypeOK
PROOF
  <1>1. Whole(rel) /\ Hung /\ OneRC
    BY DEF Inductive
  <1>2. ASSUME NEW r \in Result
        PROVE  RC(r) \in DOMAIN rel /\ rel[TopOf(RC(r))].up \in {Multi, Nothing}
    <2>1. RC(r) \in DOMAIN rel /\ RC(r)[1] \in {"import", "rc"}
      BY <1>1 DEF Hung, RC
    <2>2. Apex(TopOf(RC(r)))
      BY <1>1, <2>1, TopFacts DEF IsTopOf
    <2>3. rel[TopOf(RC(r))].up \in {Multi, Nothing}
      BY <1>1, <2>2, Kinds DEF Apex, IsRound
    <2> QED  BY <2>1, <2>3
  <1>3. TreeWhole
    BY <1>1, <1>2 DEF TreeWhole, Hung
  <1>4. ASSUME NEW i \in DOMAIN rel
        PROVE  /\ rel[i].visible \in BOOLEAN /\ rel[i].seq \in Nat
               /\ rel[i].status \in {"PASSED", "BLOCKED", "TESTING"}
               /\ rel[i].up \in (DOMAIN rel) \cup {Multi, Nothing}
    BY <1>1, Ups DEF Whole, IsRecord
  <1>5. res \in [Result -> [run : DOMAIN run, status : {"PASSED", "testing", "passed", "blocked"}]]
    BY <1>1 DEF Hung
  <1> QED  BY <1>3, <1>4, <1>5 DEF TypeOK, Inductive

-----------------------------------------------------------------------------
\* Numbers

LEMMA LeastNumber ==
  ASSUME NEW N, N \subseteq Nat, N # {}
  PROVE  Min(N) \in N /\ \A n \in N : Min(N) <= n
PROOF
  <1> DEFINE R == {ss \in Nat \X Nat : ss[1] < ss[2]}
  <1>1. IsWellFoundedOn(R, Nat)
    BY NatLessThanWellFounded DEF OpToRel
  <1> HIDE DEF R
  <1>2. \E x \in N : \A y \in N : ~(<<y, x>> \in R)
    BY <1>1, WFMin
  <1>3. PICK x \in N : \A y \in N : ~(<<y, x>> \in R)
    BY <1>2
  <1>4. ASSUME NEW y \in N  PROVE x <= y
    <2>1. x \in Nat /\ y \in Nat /\ ~(y < x)
      BY <1>3 DEF R
    <2> QED  BY <2>1
  <1> QED  BY <1>4 DEF Min

\* The number the restructure gives a candidate is one, and that of a candidate alone in
\* its round is 1.
LEMMA Ranked ==
  ASSUME Inductive, NEW rank \in Rankings, NEW r \in Result
  PROVE  /\ rank[RC(r)] \in Nat \ {0}
         /\ (\A q \in Result : TopOf(RC(q)) = TopOf(RC(r)) => RC(q) = RC(r)) => rank[RC(r)] = 1
PROOF
  <1> DEFINE rcs == {RC(q) : q \in Result}
             top == [i \in rcs |-> TopOf(i)]
             like(i) == {j \in rcs : top[j] = top[i]}
             tied == {i \in rcs : \E j \in like(i) \ {i} : rel[j].seq = rel[i].seq}
             before(i, j, o) == rel[i].seq < rel[j].seq \/ (rel[i].seq = rel[j].seq /\ o[i] < o[j])
  <1>1. IsFiniteSet(rcs)
    <2> DEFINE f == [q \in Result |-> RC(q)]
    <2>1. f \in Surjection(Result, rcs)
      BY DEF Surjection
    <2> HIDE DEF f, rcs
    <2> QED  BY <2>1, FS_Surjection, TreeAssumption
  <1>2. PICK o : rank = [i \in rcs |-> 1 + Cardinality({j \in like(i) \ {i} : before(j, i, o)})]
    BY DEF Rankings
  <1> DEFINE ahead == {j \in like(RC(r)) \ {RC(r)} : before(j, RC(r), o)}
  <1>3. RC(r) \in rcs /\ rank[RC(r)] = 1 + Cardinality(ahead)
    BY <1>2
  <1>4. ahead \subseteq rcs
    OBVIOUS
  <1>5. IsFiniteSet(ahead) /\ Cardinality(ahead) \in Nat
    <2> HIDE DEF ahead, rcs
    <2> QED  BY <1>1, <1>4, FS_Subset, FS_CardinalityType
  <1>6. ASSUME \A q \in Result : TopOf(RC(q)) = TopOf(RC(r)) => RC(q) = RC(r)
        PROVE  ahead = {}
    BY <1>6
  <1> HIDE DEF ahead
  <1> QED  BY <1>3, <1>5, <1>6, FS_EmptySet

-----------------------------------------------------------------------------
\* Rows added and deleted

LEMMA Added ==
  ASSUME NEW R, NEW N, Whole(R),
         \A i \in DOMAIN N : i \notin DOMAIN R => IsRecord(R ++ N, i) /\ IsPlaced(R ++ N, i)
  PROVE  /\ Whole(R ++ N) /\ DOMAIN (R ++ N) = (DOMAIN R) \cup (DOMAIN N)
         /\ \A i \in DOMAIN R : (R ++ N)[i] = R[i]
PROOF
  <1> DEFINE Q == R ++ N
  <1>1. /\ DOMAIN Q = (DOMAIN R) \cup (DOMAIN N)
        /\ \A i \in DOMAIN R : Q[i] = R[i]
    BY Merge
  <1> HIDE DEF Q
  <1>2. ASSUME NEW i \in DOMAIN R  PROVE IsRecord(Q, i) /\ IsPlaced(Q, i)
    <2>1. IsRecord(R, i) /\ IsPlaced(R, i)
      BY DEF Whole
    <2>2. Still(R, Q, i)
      BY <1>1 DEF Still
    <2> QED  BY <1>1, <2>1, <2>2, StillPlaced DEF IsRecord
  <1>3. Whole(Q)
    BY <1>1, <1>2 DEF Whole, Q
  <1> QED  BY <1>1, <1>3 DEF Q

LEMMA Pruned ==
  ASSUME NEW R, NEW K, Whole(R), K \subseteq DOMAIN R,
         \A i \in K : R[i].up \in DOMAIN R => R[i].up \in K
  PROVE  /\ Whole(Restrict(R, K)) /\ DOMAIN Restrict(R, K) = K
         /\ \A i \in K : Restrict(R, K)[i] = R[i]
PROOF
  <1> DEFINE Q == Restrict(R, K)
  <1>1. DOMAIN Q = K /\ \A i \in K : Q[i] = R[i]
    BY DEF Restrict
  <1> HIDE DEF Q
  <1>2. ASSUME NEW i \in K  PROVE IsRecord(Q, i) /\ IsPlaced(Q, i)
    <2>1. IsRecord(R, i) /\ IsPlaced(R, i)
      BY DEF Whole
    <2>2. Still(R, Q, i)
      BY <1>1 DEF Still
    <2> QED  BY <1>1, <2>1, <2>2, StillPlaced DEF IsRecord
  <1>3. Whole(Q)
    BY <1>1, <1>2 DEF Whole
  <1> QED  BY <1>1, <1>3 DEF Q

\* A result's run and status, whatever its row was
LEMMA RunMoved ==
  ASSUME Hung, NEW r \in Result, NEW u
  PROVE  /\ [res[r] EXCEPT !.run = u] = [run |-> u, status |-> res[r].status]
         /\ res[r].status \in {"PASSED", "testing", "passed", "blocked"}
PROOF
  <1>1. res[r] = [run |-> res[r].run, status |-> res[r].status] /\ res[r].status \in {"PASSED", "testing", "passed", "blocked"}
    BY DEF Hung
  <1> QED  BY <1>1

\* A result stays in its round and goes to its own configuration.
Filed ==
  \A r \in Result :
    /\ \/ Campaign(RC(r))' = Campaign(RC(r))
       \/ last' = "normalize" /\ Len(Base(RC(r))) = 2
    /\ RC(r)' # RC(r) => \/ RC(r)'[3] \in {ComboOf[r], TopoOf(r), Place(RC(r))}
                         \/ \E q \in Result : res[q].run = res[r].run /\ ComboOf[q] # ComboOf[r]

LEMMA Standing ==
  ASSUME Inductive, NEW r \in Result
  PROVE  /\ res[r].run \in DOMAIN run /\ RC(r) = run[res[r].run]
         /\ RC(r) \in DOMAIN rel /\ RC(r)[1] \in {"import", "rc"}
         /\ IsTopOf(TopOf(RC(r)), RC(r))
PROOF
  <1>1. /\ res[r].run \in DOMAIN run /\ RC(r) = run[res[r].run]
        /\ RC(r) \in DOMAIN rel /\ RC(r)[1] \in {"import", "rc"} /\ Whole(rel)
    BY DEF Inductive, Hung, RC
  <1> QED  BY <1>1, TopFacts

-----------------------------------------------------------------------------
\* migrate_topology_restructure.py

\* It is refused once an import stands for a round, so that a result whose round is an
\* import is still on that import.
LEMMA NotTwice ==
  ASSUME Inductive, NEW rank \in Rankings, Restructure(rank)
  PROVE  ~Restructured
PROOF
  <1> SUFFICES ASSUME Restructured  PROVE FALSE
    OBVIOUS
  <1>1. PICK r \in Result : ComboOf[r] # None
    BY TreeAssumption
  <1>2. TopoOf(r) = ComboOf[r] /\ r \notin Unplaced
    BY <1>1 DEF TopoOf, Unplaced
  <1>3. <<"topo", Base(TopOf(RC(r))), ComboOf[r]>> \notin DOMAIN rel
    <2>1. <<"topo", Base(TopOf(RC(r))), TopoOf(r)>> \notin DOMAIN rel
      BY <1>2 DEF Restructure
    <2> QED  BY <1>2, <2>1
  <1>4. RC(r)[1] = "rc" /\ <<"topo", RC(r)[2], ComboOf[r]>> \in DOMAIN rel
    BY <1>1 DEF Inductive, Sorted
  <1>5. Base(TopOf(RC(r))) = RC(r)[2]
    BY <1>4, Standing DEF IsTopOf
  <1> QED  BY <1>3, <1>4, <1>5

LEMMA OnImport ==
  ASSUME Inductive, ~Restructured, NEW r \in Result
  PROVE  LET b == Base(TopOf(RC(r))) IN
         /\ IsBase(b)
         /\ b[1] \in Report => /\ RC(r)[1] = "import" /\ TopOf(RC(r)) = RC(r)
                               /\ rel[RC(r)].up = Nothing /\ rel[RC(r)].visible
PROOF
  <1> DEFINE t == TopOf(RC(r))
             b == Base(t)
  <1>1. Whole(rel) /\ Hung
    BY DEF Inductive
  <1>2. RC(r) \in DOMAIN rel /\ RC(r)[1] \in {"import", "rc"} /\ IsTopOf(t, RC(r)) /\ Apex(t)
    BY Standing DEF IsTopOf
  <1>3. IsBase(b)
    BY <1>1, <1>2, Bases DEF Apex
  <1>4. ASSUME b[1] \in Report
        PROVE  RC(r)[1] = "import" /\ t = RC(r) /\ rel[RC(r)].up = Nothing /\ rel[RC(r)].visible
    <2>1. t[1] # "round"
      BY <1>1, <1>2, <1>4, Kinds, Names DEF Apex, IsRound, Base
    <2>2. CASE RC(r)[1] = "rc"
      <3>1. b = RC(r)[2]
        BY <1>2, <2>2 DEF IsTopOf
      <3>2. IsRC(rel, RC(r))
        BY <1>1, <1>2, <2>2, Kinds
      <3>3. rel[RC(r)].up \in DOMAIN rel /\ rel[RC(r)].up[2] = b /\ rel[RC(r)].up[1] \in {"topo", "stopo"}
        BY <3>1, <3>2 DEF IsRC
      <3>4. rel[RC(r)].up[1] # "topo"
        BY <1>4, <3>3 DEF Restructured
      <3>5. b[1] \in Named
        BY <1>1, <3>3, <3>4, Kinds DEF IsSessionTopo
      <3> QED  BY <1>4, <3>5, Names
    <2>3. CASE RC(r)[1] = "import"
      <3>1. t = RC(r) /\ rel[RC(r)].up = Nothing
        BY <1>2, <2>1, <2>3 DEF IsTopOf
      <3> QED  BY <1>1, <2>3, <3>1 DEF Hung
    <2> QED  BY <1>2, <2>2, <2>3
  <1> QED  BY <1>3, <1>4

LEMMA OnImportAlone ==
  ASSUME Inductive, ~Restructured, NEW rank \in Rankings, NEW r \in Result
  PROVE  /\ rank[RC(r)] \in Nat \ {0}
         /\ Base(TopOf(RC(r)))[1] \in Report => rank[RC(r)] = 1
PROOF
  <1>1. ASSUME Base(TopOf(RC(r)))[1] \in Report, NEW q \in Result, TopOf(RC(q)) = TopOf(RC(r))
        PROVE  RC(q) = RC(r)
    BY <1>1, OnImport
  <1> QED  BY <1>1, Ranked

LEMMA TopologyKeeps ==
  ASSUME Inductive, NEW rank \in Rankings, Restructure(rank)
  PROVE  Inductive' /\ Filed
PROOF
  <1> DEFINE placed  == Result \ Unplaced
             b(r)    == Base(TopOf(RC(r)))
             topo(r) == <<"topo", b(r), TopoOf(r)>>
             rc(r)   == <<"rc", b(r), TopoOf(r), rank[RC(r)]>>
             new(r)  == <<"run", b(r), TopoOf(r), rank[RC(r)], res[r].run>>
             topos   == {topo(r) : r \in placed}
             rcs     == {rc(r) : r \in placed}
             rounds  == [i \in topos |-> TopOf(RC(CHOOSE r \in placed : topo(r) = i))]
             newTopos == [i \in topos |-> Row(rounds[i], TRUE, 1, "TESTING", "topology")]
             newRCs   == [i \in rcs |-> Row(<<"topo", i[2], i[3]>>, FALSE, i[4], "TESTING", "topology")]
             rel0 == rel ++ newTopos
             rel1 == rel0 ++ newRCs
             res1 == [r \in placed |-> [res[r] EXCEPT !.run = new(r)]] ++ res
             made == {new(r) : r \in placed}
             runs == [u \in made |-> <<"rc", u[2], u[3], u[4]>>] ++ run
             used == {u \in DOMAIN runs : u[1] = "import" => \E r \in Result : res1[r].run = u}
             run1 == Restrict(runs, used)
             rel2 == Restrict(rel1, (DOMAIN rel1) \ Emptied(rel1, run1))
             kept == Restrict(rel2, (DOMAIN rel2) \ EmptyRows(rel2))
             rel3 == Recount(kept, run1, res1, rcs)
             rel4 == Rollup(rel3, topos, {FALSE})
  <1>1. /\ (topos \cup rcs) \cap DOMAIN rel = {} /\ made \cap DOMAIN run = {}
        /\ rel' = rel4 /\ run' = run1 /\ res' = res1 /\ last' = "topology" /\ report' = report
    BY DEF Restructure
  <1> HIDE DEF placed, topo, rc, new, topos, rcs, rounds, newTopos, newRCs, rel0, rel1, res1, made, runs, used, run1,
               rel2, kept, rel3, rel4
  <1>2. Whole(rel) /\ Hung /\ Taken /\ ~Restructured
    BY NotTwice DEF Inductive
  <1>3. ASSUME NEW r \in Result
        PROVE  /\ IsBase(b(r)) /\ Apex(TopOf(RC(r)))
               /\ b(r)[1] \in Report => /\ RC(r)[1] = "import" /\ TopOf(RC(r)) = RC(r)
                                        /\ rel[RC(r)].up = Nothing /\ rel[RC(r)].visible
               /\ rank[RC(r)] \in Nat \ {0}
               /\ b(r)[1] \in Report => rank[RC(r)] = 1
    BY <1>2, OnImport, OnImportAlone, Standing DEF IsTopOf
  <1>4. ASSUME NEW i \in topos
        PROVE  /\ i = <<"topo", i[2], i[3]>> /\ i[1] = "topo" /\ IsBase(i[2]) /\ Apex(rounds[i]) /\ Base(rounds[i]) = i[2]
               /\ rounds[i][1] = "import" => rel[rounds[i]].visible
    <2>1. PICK r \in placed : r = (CHOOSE q \in placed : topo(q) = i) /\ topo(r) = i
      BY DEF topos
    <2>2. rounds[i] = TopOf(RC(r)) /\ i[2] = b(r) /\ i = <<"topo", i[2], i[3]>> /\ i[1] = "topo"
      BY <2>1 DEF rounds, topo
    <2>3. rounds[i][1] = "import" => Base(rounds[i])[1] \in Report
      <3>1. Apex(rounds[i])
        BY <1>3, <2>1, <2>2 DEF placed
      <3> QED  BY <1>2, <3>1, Kinds DEF Apex, Imported, Base
    <2> QED  BY <1>3, <2>1, <2>2, <2>3 DEF placed
  <1>5. ASSUME NEW i \in rcs
        PROVE  /\ i = <<"rc", i[2], i[3], i[4]>> /\ i[1] = "rc" /\ IsBase(i[2]) /\ i[4] \in Nat \ {0}
               /\ i[2][1] \in Report => i[4] = 1
               /\ <<"topo", i[2], i[3]>> \in topos
    <2>1. PICK r \in placed : i = rc(r)
      BY DEF rcs
    <2>2. i[2] = b(r) /\ i[3] = TopoOf(r) /\ i[4] = rank[RC(r)] /\ i = <<"rc", i[2], i[3], i[4]>> /\ i[1] = "rc"
      BY <2>1 DEF rc
    <2> QED  BY <1>3, <2>1, <2>2 DEF placed, topos, topo
  \* the rows added
  <1>6. /\ DOMAIN newTopos = topos /\ \A i \in topos : newTopos[i] = Row(rounds[i], TRUE, 1, "TESTING", "topology")
        /\ DOMAIN newRCs = rcs
        /\ \A i \in rcs : newRCs[i] = Row(<<"topo", i[2], i[3]>>, FALSE, i[4], "TESTING", "topology")
    BY DEF newTopos, newRCs
  <1>7. /\ DOMAIN rel0 = (DOMAIN rel) \cup topos /\ \A i \in DOMAIN rel : rel0[i] = rel[i]
        /\ \A i \in topos : rel0[i] = newTopos[i] /\ i \notin DOMAIN rel
    <2>1. \A i \in topos : i \notin DOMAIN rel
      BY <1>1
    <2> QED  BY <1>6, <2>1, Merge DEF rel0
  <1>8. ASSUME NEW i \in topos
        PROVE  IsRecord(rel0, i) /\ IsPlaced(rel0, i) /\ rel0[i].up = rounds[i]
    <2>1. i[1] # "import"
      BY <1>4
    <2>2. rel0[i] = Row(rounds[i], TRUE, 1, "TESTING", "topology")
      BY <1>6, <1>7
    <2>5. IsRecord(rel0, i) /\ rel0[i].up = rounds[i] /\ rel0[i].visible
      <3> QED  BY <2>1, <2>2 DEF Row, IsRecord
    <2>3. rounds[i] \in DOMAIN rel0 /\ rel0[rounds[i]] = rel[rounds[i]]
      BY <1>4, <1>7 DEF Apex
    <2>4. IsTopo(rel0, i)
      BY <1>4, <2>5, <2>3 DEF IsTopo, Under, Apex
    <2> QED  BY <2>5, <2>4 DEF IsPlaced
  <1>9. Whole(rel0)
    BY <1>2, <1>6, <1>8, Added DEF rel0
  <1>10. /\ DOMAIN rel1 = (DOMAIN rel0) \cup rcs /\ \A i \in DOMAIN rel0 : rel1[i] = rel0[i]
         /\ \A i \in rcs : i \notin DOMAIN rel0 => rel1[i] = newRCs[i]
    <2>1. DOMAIN newRCs = rcs
      BY <1>6
    <2> QED  BY <2>1, Merge DEF rel1
  <1>11. ASSUME NEW i \in rcs, i \notin DOMAIN rel0
         PROVE  IsRecord(rel1, i) /\ IsPlaced(rel1, i) /\ rel1[i].up = <<"topo", i[2], i[3]>>
    <2>1. i[1] # "import" /\ i[4] \in Nat
      <3>1. i = <<"rc", i[2], i[3], i[4]>> /\ i[4] \in Nat \ {0}
        BY <1>5
      <3> QED  BY <3>1
    <2>5. rel1[i] = Row(<<"topo", i[2], i[3]>>, FALSE, i[4], "TESTING", "topology")
      BY <1>6, <1>10, <1>11
    <2>2. IsRecord(rel1, i) /\ rel1[i].up = <<"topo", i[2], i[3]>> /\ ~rel1[i].visible /\ rel1[i].seq = i[4]
      <3> QED  BY <2>1, <2>5 DEF Row, IsRecord
    <2>3. rel1[i].up \in DOMAIN rel1
      BY <1>5, <1>7, <1>10, <2>2
    <2>4. IsRC(rel1, i)
      BY <1>5, <2>2, <2>3 DEF IsRC
    <2> QED  BY <2>2, <2>4 DEF IsPlaced
  <1>12. Whole(rel1)
    <2>1. DOMAIN newRCs = rcs
      BY <1>6
    <2>2. \A i \in DOMAIN newRCs : i \notin DOMAIN rel0 => IsRecord(rel1, i) /\ IsPlaced(rel1, i)
      BY <1>11, <2>1
    <2> QED  BY <1>9, <2>2, Added DEF rel1
  <1>13. /\ \A i \in DOMAIN rel : i \in DOMAIN rel1 /\ rel1[i] = rel[i]
         /\ \A i \in DOMAIN rel1 : i \in DOMAIN rel \/ i \in topos \/ i \in rcs
         /\ \A i \in topos : i \in DOMAIN rel1 /\ rel1[i].up = rounds[i]
         /\ \A i \in rcs : i \in DOMAIN rel1
    BY <1>7, <1>8, <1>10
  <1>21. (\A i \in topos : i[1] = "topo") /\ \A i \in rcs : i[1] = "rc"
    BY <1>4, <1>5
  \* the rows deleted
  <1> DEFINE K == (DOMAIN rel1) \ Emptied(rel1, run1)
             L == (DOMAIN rel2) \ EmptyRows(rel2)
  <1>14. ASSUME NEW i \in DOMAIN rel1, rel1[i].up \in Emptied(rel1, run1)
         PROVE  FALSE
    <2> DEFINE x == rel1[i].up
    <2>1. x \in DOMAIN rel1 /\ x[1] = "import" /\ ~rel1[x].visible
      BY <1>12, <1>14 DEF Emptied, Whole, IsRecord
    <2>2. rel1[x].up = Nothing /\ i[1] \in {"topo", "session"} /\ i[2] = Base(x) /\ i[2][1] \in Report
      <3>1. rel1[x].up = Nothing /\ i[1] \in {"topo", "session"} /\ i[2] = Base(x)
        BY <1>12, <2>1, Ups
      <3>2. Base(x) = <<x[2]>> /\ x[2] \in Report
        BY <1>12, <2>1, Kinds DEF Base, Imported
      <3> QED  BY <3>1, <3>2
    <2>3. CASE i \in DOMAIN rel
      BY <1>2, <2>2, <2>3 DEF Restructured
    <2>4. CASE i \in topos
      <3>1. x = rounds[i]
        BY <1>13, <2>4
      <3>2. x \in DOMAIN rel /\ rel[x].visible
        BY <1>4, <2>1, <2>4, <3>1 DEF Apex
      <3> QED  BY <1>13, <2>1, <3>2
    <2>5. i \notin rcs
      BY <1>21, <2>2
    <2> QED  BY <1>13, <2>3, <2>4, <2>5
  <1>15. Whole(rel2) /\ DOMAIN rel2 = K /\ \A i \in K : rel2[i] = rel1[i]
    <2>1. \A i \in K : rel1[i].up \in DOMAIN rel1 => rel1[i].up \in K
      BY <1>14
    <2> HIDE DEF K
    <2>2. K \subseteq DOMAIN rel1
      BY DEF K
    <2> QED  BY <1>12, <2>1, <2>2, Pruned DEF rel2, K
  <1>16. Whole(kept) /\ DOMAIN kept = L /\ \A i \in L : kept[i] = rel2[i]
    <2>1. \A i \in L : rel2[i].up \in DOMAIN rel2 => rel2[i].up \in L
      BY DEF EmptyRows, Children
    <2> HIDE DEF L
    <2>2. L \subseteq DOMAIN rel2
      BY DEF L
    <2> QED  BY <1>15, <2>1, <2>2, Pruned DEF kept, L
  <1>17. topos \subseteq DOMAIN kept /\ rcs \subseteq DOMAIN kept
    <2>1. ASSUME NEW i \in topos \cup rcs  PROVE i \in L
      <3>1. i[1] \in {"topo", "rc"} /\ i \in DOMAIN rel1
        BY <1>13, <1>21
      <3>2. rel1[i].by # "import"
        BY <1>12, <3>1 DEF Whole, IsRecord
      <3> QED  BY <1>15, <3>1, <3>2 DEF Emptied, EmptyRows
    <2> QED  BY <1>16, <2>1
  <1> HIDE DEF K, L
  <1>18. Whole(rel3) /\ Settled(kept, rel3)
    BY <1>16, <1>17, RecountFacts DEF rel3
  <1>19. Whole(rel4) /\ Settled(rel3, rel4)
    <2>1. topos \subseteq DOMAIN rel3
      BY <1>17, <1>18 DEF Settled
    <2> QED  BY <1>18, <2>1, RollupFacts DEF rel4
  <1>20. /\ DOMAIN rel4 = L
         /\ \A i \in L : /\ i \in DOMAIN rel1 /\ i \notin Emptied(rel1, run1)
                         /\ rel4[i].up = rel1[i].up /\ rel4[i].visible = rel1[i].visible
         /\ \A i \in DOMAIN rel1 : i \in Emptied(rel1, run1) \/ i \in EmptyRows(rel2) \/ i \in L
    <2>1. DOMAIN rel4 = L /\ \A i \in L : i \in K /\ rel4[i].up = kept[i].up /\ rel4[i].visible = kept[i].visible
      BY <1>15, <1>16, <1>18, <1>19 DEF Settled, L
    <2>2. \A i \in L : kept[i] = rel1[i]
      BY <1>15, <1>16, <2>1
    <2>3. \A i \in DOMAIN rel1 : i \in Emptied(rel1, run1) \/ i \in EmptyRows(rel2) \/ i \in L
      BY <1>15 DEF K, L
    <2> QED  BY <2>1, <2>2, <2>3 DEF K
  \* runs and results
  <1>22. ASSUME NEW r \in Result
         PROVE  /\ r \in placed => res1[r] = [run |-> new(r), status |-> res[r].status]
                /\ r \notin placed => res1[r] = res[r]
                /\ res1[r] = [run |-> res1[r].run, status |-> res[r].status]
    <2>1. [res[r] EXCEPT !.run = new(r)] = [run |-> new(r), status |-> res[r].status]
      BY <1>2, RunMoved
    <2>2. DOMAIN res = Result /\ res[r] = [run |-> res[r].run, status |-> res[r].status]
      BY <1>2 DEF Hung
    <2>3. r \in placed => res1[r] = [res[r] EXCEPT !.run = new(r)]
      BY DEF res1, ++
    <2>4. r \notin placed => res1[r] = res[r]
      BY <2>2 DEF res1, ++
    <2> QED  BY <2>1, <2>2, <2>3, <2>4
  <1>23. DOMAIN res1 = Result
    <2>1. DOMAIN res = Result
      BY <1>2 DEF Hung
    <2> QED  BY <2>1 DEF res1, ++, placed
  <1>24. /\ DOMAIN run1 = used /\ \A u \in used : run1[u] = runs[u]
         /\ \A u \in used : u \in made \/ u \in DOMAIN run
         /\ \A u \in made : runs[u] = <<"rc", u[2], u[3], u[4]>>
         /\ \A u \in DOMAIN run : runs[u] = run[u]
    <2>1. DOMAIN runs = made \cup DOMAIN run
      BY DEF runs, ++
    <2>2. used \subseteq DOMAIN runs
      BY DEF used
    <2>3. DOMAIN run1 = used /\ \A u \in used : run1[u] = runs[u]
      BY <2>2 DEF run1, Restrict
    <2>4. \A u \in made : runs[u] = <<"rc", u[2], u[3], u[4]>>
      BY DEF runs, ++
    <2>5. \A u \in DOMAIN run : runs[u] = run[u]
      BY <1>1 DEF runs, ++
    <2> QED  BY <2>1, <2>2, <2>3, <2>4, <2>5
  <1>25. ASSUME NEW r \in placed
         PROVE  /\ new(r) \in made /\ new(r) \in used /\ new(r)[1] = "run" /\ run1[new(r)] = rc(r)
                /\ rc(r) \in rcs /\ topo(r) \in topos
                /\ rc(r)[1] = "rc" /\ rc(r)[2] = b(r) /\ rc(r)[3] = TopoOf(r)
                /\ <<"topo", rc(r)[2], rc(r)[3]>> = topo(r)
    <2>1. new(r) \in made /\ rc(r) \in rcs /\ topo(r) \in topos
      BY DEF made, rcs, topos
    <2>2. new(r)[1] = "run" /\ new(r)[2] = b(r) /\ new(r)[3] = TopoOf(r) /\ new(r)[4] = rank[RC(r)]
      BY DEF new
    <2>3. new(r) \in used
      BY <2>1, <2>2 DEF used, runs, ++
    <2>4. run1[new(r)] = rc(r)
      BY <1>24, <2>1, <2>2, <2>3 DEF rc
    <2>5. rc(r)[1] = "rc" /\ rc(r)[2] = b(r) /\ rc(r)[3] = TopoOf(r)
      BY DEF rc
    <2>6. <<"topo", rc(r)[2], rc(r)[3]>> = topo(r)
      BY <2>5 DEF topo
    <2> QED  BY <2>1, <2>2, <2>3, <2>4, <2>5, <2>6
  <1>26. ASSUME NEW r \in Result
         PROVE  /\ res1[r].run \in used /\ res1[r].status = res[r].status
                /\ r \in placed => res1[r].run = new(r) /\ run1[res1[r].run] = rc(r)
                /\ r \notin placed => /\ res1[r].run = res[r].run /\ res[r].run \in DOMAIN run
                                      /\ run1[res1[r].run] = RC(r)
    <2>1. CASE r \in placed
      <3>1. res1[r] = [run |-> new(r), status |-> res[r].status]
        BY <1>22, <2>1
      <3>2. res1[r].run = new(r) /\ res1[r].status = res[r].status
        BY <3>1
      <3> QED  BY <1>25, <2>1, <3>2
    <2>2. CASE r \notin placed
      <3>1. res1[r] = res[r] /\ res[r].run \in DOMAIN run /\ RC(r) = run[res[r].run]
        BY <1>22, <2>2, Standing
      <3>2. res[r].run \in used
        BY <3>1 DEF used, runs, ++
      <3> QED  BY <1>24, <2>2, <3>1, <3>2
    <2> QED  BY <2>1, <2>2
  <1>27. \A r \in Result : RC(r)' = run1[res1[r].run]
    BY <1>1 DEF RC
  <1>28. ASSUME NEW u \in used
         PROVE  run1[u] \in L /\ run1[u][1] \in {"import", "rc"}
    <2>1. CASE u \in made
      <3>1. PICK r \in placed : u = new(r)
        BY <2>1 DEF made
      <3>2. run1[u] \in rcs /\ run1[u][1] = "rc"
        BY <1>25, <3>1
      <3> QED  BY <1>16, <1>17, <3>2
    <2>2. CASE u \in DOMAIN run
      <3>1. run1[u] = run[u] /\ run[u] \in DOMAIN rel /\ run[u][1] \in {"import", "rc"}
        BY <1>2, <1>24, <2>2 DEF Hung
      <3>2. run1[u] \notin Emptied(rel1, run1) /\ run1[u] \notin EmptyRows(rel2)
        BY <1>24, <3>1 DEF Emptied, EmptyRows
      <3> QED  BY <1>13, <1>20, <3>1, <3>2
    <2> QED  BY <1>24, <2>1, <2>2
  <1>29. Hung'
    <2>1. \A u \in DOMAIN run1 : run1[u] \in DOMAIN rel4 /\ run1[u][1] \in {"import", "rc"}
      BY <1>20, <1>24, <1>28
    <2>2. res1 = [r \in Result |-> [run |-> res1[r].run, status |-> res1[r].status]]
      <3>1. \A r \in Result : res1[r] = [run |-> res1[r].run, status |-> res1[r].status]
        BY <1>22, <1>26
      <3>2. res1 = [r \in Result |-> res1[r]]
        BY <1>23 DEF res1, ++
      <3> QED  BY <3>1, <3>2
    <2>3. ASSUME NEW r \in Result
          PROVE  /\ res1[r].run \in DOMAIN run1 /\ res1[r].status \in {"PASSED", "testing", "passed", "blocked"}
                 /\ run1[res1[r].run][1] = "import" /\ rel4[run1[res1[r].run]].up = Nothing
                      => rel4[run1[res1[r].run]].visible
      <3>1. res1[r].run \in DOMAIN run1 /\ res1[r].status \in {"PASSED", "testing", "passed", "blocked"}
        BY <1>2, <1>24, <1>26 DEF Hung
      <3>2. CASE r \in placed
        BY <1>25, <1>26, <3>1, <3>2
      <3>3. CASE r \notin placed
        <4>1. run1[res1[r].run] = RC(r) /\ RC(r) \in DOMAIN rel /\ RC(r) \in L
          BY <1>24, <1>26, <1>28, <3>1, <3>3, Standing
        <4>2. rel4[RC(r)].up = rel[RC(r)].up /\ rel4[RC(r)].visible = rel[RC(r)].visible
          BY <1>13, <1>20, <4>1
        <4> QED  BY <1>2, <3>1, <4>1, <4>2 DEF Hung
      <3> QED  BY <3>2, <3>3
    <2>4. ASSUME NEW x \in Report
          PROVE  \/ report[x] = <<"import", x>>
                 \/ report[x] \in DOMAIN rel4 /\ report[x][1] \in {"row", "round"}
      <3>1. ASSUME report[x] \in DOMAIN rel, report[x][1] \in {"row", "round"}
            PROVE  report[x] \in L
        <4>1. rel1[report[x]].by # "import" /\ report[x] \in DOMAIN rel1
          BY <1>12, <1>13, <3>1 DEF Whole, IsRecord
        <4> QED  BY <1>20, <4>1 DEF Emptied, EmptyRows
      <3> QED  BY <1>2, <1>20, <3>1 DEF Hung
    <2> QED  BY <1>1, <1>27, <2>1, <2>2, <2>3, <2>4 DEF Hung, RC
  <1>30. Taken'
    <2>1. ASSUME NEW u \in used
          PROVE  /\ u[1] \in {"import", "service", "run", "device"}
                 /\ u[1] = "device" => /\ u[2] \in used \/ u[2][1] = "import"
                                       /\ \A r \in Result : ~(res1[r].run = u[2] /\ DeviceOf[r] = u[3])
      <3>1. CASE u \in made
        <4>1. u[1] = "run"
          BY <1>25, <3>1 DEF made
        <4> QED  BY <4>1
      <3>2. CASE u \in DOMAIN run
        <4>1. u[1] \in {"import", "service", "run", "device"}
          BY <1>2, <3>2 DEF Taken
        <4>2. ASSUME u[1] = "device"
              PROVE  u[2] \in used \/ u[2][1] = "import"
          BY <1>2, <3>2, <4>2 DEF Taken, used, runs, ++
        <4>3. ASSUME u[1] = "device", NEW r \in Result, res1[r].run = u[2], DeviceOf[r] = u[3]
              PROVE  FALSE
          <5>1. r \in placed
            BY <1>2, <1>26, <3>2, <4>3 DEF Taken
          <5>2. u[2] \in made /\ u[2][1] = "run"
            BY <1>25, <1>26, <4>3, <5>1
          <5> QED  BY <1>1, <1>2, <3>2, <4>3, <5>2 DEF Taken
        <4> QED  BY <4>1, <4>2, <4>3
      <3> QED  BY <1>24, <3>1, <3>2
    <2> QED  BY <1>1, <1>24, <2>1 DEF Taken
  <1>31. Sorted'
    <2>1. ASSUME NEW r \in Result, ComboOf[r] # None
          PROVE  /\ run1[res1[r].run][1] = "rc" /\ run1[res1[r].run][3] = ComboOf[r]
                 /\ <<"topo", run1[res1[r].run][2], ComboOf[r]>> \in DOMAIN rel4
                 /\ \A q \in Result : res1[q].run = res1[r].run => ComboOf[q] \in {ComboOf[r], None}
      <3>1. r \in placed /\ TopoOf(r) = ComboOf[r]
        BY <2>1 DEF placed, Unplaced, TopoOf
      <3>2. /\ run1[res1[r].run][1] = "rc" /\ run1[res1[r].run][3] = ComboOf[r]
            /\ <<"topo", run1[res1[r].run][2], ComboOf[r]>> \in topos
        BY <1>25, <1>26, <3>1
      <3>3. ASSUME NEW q \in Result, res1[q].run = res1[r].run
            PROVE  ComboOf[q] \in {ComboOf[r], None}
        <4>1. res1[r].run = new(r) /\ new(r) \in made /\ new(r) \notin DOMAIN run
          BY <1>1, <1>25, <1>26, <3>1
        <4>2. q \in placed /\ new(q) = new(r)
          BY <1>26, <3>3, <4>1
        <4>3. TopoOf(q) = TopoOf(r)
          BY <4>2 DEF new
        <4> QED  BY <3>1, <4>3 DEF TopoOf
      <3> QED  BY <1>16, <1>17, <1>20, <3>2, <3>3
    <2> QED  BY <1>1, <2>1 DEF Sorted, RC
  <1>32. BlockedShown'
    <2>1. ASSUME NEW r \in placed, res1[r].status = "blocked"
          PROVE  /\ rel4[rc(r)].status = "BLOCKED" /\ rel4[rc(r)].up = topo(r)
                 /\ rel4[topo(r)].status = "BLOCKED"
      <3>1. rc(r) \in rcs /\ topo(r) \in topos /\ r \in Result /\ run1[res1[r].run] = rc(r)
        BY <1>25, <1>26 DEF placed
      <3>2. "blocked" \in StatusesIn(run1, res1, rc(r))
        BY <2>1, <3>1 DEF StatusesIn
      <3>3. rel3[rc(r)].status = "BLOCKED"
        BY <1>16, <1>17, <3>1, <3>2, RecountFacts DEF rel3
      <3>4. rc(r) \notin DOMAIN rel0
        BY <1>1, <1>7, <1>21, <3>1
      <3>5. rel1[rc(r)].up = topo(r)
        BY <1>11, <1>25, <3>1, <3>4
      <3>6. rc(r) \in DOMAIN rel3 /\ topos \subseteq DOMAIN rel3 /\ rc(r) \in DOMAIN rel4 /\ rel4[rc(r)].up = topo(r)
        BY <1>16, <1>17, <1>18, <1>20, <3>1, <3>5 DEF Settled
      <3>7. rel3[rc(r)].up = topo(r)
        BY <1>19, <3>6 DEF Settled
      <3>8. rel3[rc(r)].visible \in {FALSE}
        BY <1>18, <1>25, <3>6, Hiddens
      <3>9. rc(r) \notin topos
        BY <1>21, <1>25
      <3>10. rel4[rc(r)] = rel3[rc(r)]
        BY <1>18, <3>6, <3>9, RollupFacts DEF rel4
      <3>11. rel4[topo(r)].status = "BLOCKED"
        <4> DEFINE V == {FALSE}
        <4>1. rel3[rc(r)].visible \in V /\ rel4 = Rollup(rel3, topos, V)
          BY <3>8 DEF rel4
        <4> HIDE DEF V
        <4>2. \A i \in topos, j \in DOMAIN rel3 :
                rel3[j].up = i /\ rel3[j].visible \in V /\ rel3[j].status = "BLOCKED" => rel4[i].status = "BLOCKED"
          BY <1>18, <3>6, <4>1, RollupFacts
        <4> QED  BY <3>1, <3>3, <3>6, <3>7, <4>1, <4>2
      <3> QED  BY <3>3, <3>6, <3>10, <3>11
    <2>2. ASSUME NEW r \in Result, TopoOf(r) # None
          PROVE  r \in placed /\ run1[res1[r].run] = rc(r)
      BY <1>26, <2>2 DEF placed, Unplaced
    <2> QED  BY <1>1, <2>1, <2>2 DEF BlockedShown, RC
  <1>33. Filed
    <2>1. ASSUME NEW r \in Result
          PROVE  /\ Campaign(run1[res1[r].run]) = Campaign(RC(r))
                 /\ run1[res1[r].run] # RC(r) => run1[res1[r].run][3] = TopoOf(r)
      <3>1. CASE r \notin placed
        BY <1>26, <3>1
      <3>2. CASE r \in placed
        <4>1. run1[res1[r].run] = rc(r) /\ rc(r)[3] = TopoOf(r) /\ Base(rc(r)) = b(r)
          BY <1>25, <1>26, <3>2 DEF Base
        <4>2. CASE RC(r)[1] = "rc"
          <5>1. b(r) = Base(RC(r))
            BY <4>2, Standing DEF IsTopOf, Base
          <5> QED  BY <4>1, <5>1 DEF Campaign
        <4>3. CASE RC(r)[1] = "import"
          <5>1. RC(r)[2] \in Report /\ Base(RC(r)) = <<RC(r)[2]>>
            BY <1>2, <4>3, Standing, Kinds DEF Imported, Base
          <5>2. CASE TopOf(RC(r)) = RC(r)
            BY <4>1, <5>2 DEF Campaign
          <5>3. CASE b(r) = <<RoundOf[RC(r)[2]]>>
            <6>1. b(r)[1] = RoundOf[RC(r)[2]] /\ RoundOf[RC(r)[2]] \notin Report
              BY <5>1, <5>3, Names
            <6>2. Campaign(rc(r)) = RoundOf[RC(r)[2]]
              BY <4>1, <6>1 DEF Campaign
            <6>3. Campaign(RC(r)) = RoundOf[RC(r)[2]]
              BY <5>1 DEF Campaign
            <6> QED  BY <4>1, <6>2, <6>3
          <5> QED  BY <4>3, <5>2, <5>3, Standing DEF IsTopOf
        <4> QED  BY <4>1, <4>2, <4>3, Standing
      <3> QED  BY <3>1, <3>2
    <2>2. \A r \in Result : Campaign(RC(r))' = Campaign(run1[res1[r].run])
      BY <1>27 DEF Campaign, Base
    <2> QED  BY <1>27, <2>1, <2>2 DEF Filed
  <1> QED  BY <1>1, <1>19, <1>29, <1>30, <1>31, <1>32, <1>33 DEF Inductive, OneRC

-----------------------------------------------------------------------------
\* migrate_device_centric_rounds.py

LEMMA InCampaign ==
  ASSUME Inductive, NEW p \in DeviceTopos
  PROVE  /\ p = <<p[1], p[2]>> /\ p[1] \in DOMAIN rel /\ rel[p[1]].up \in DOMAIN rel
         /\ rel[p[1]].up[1] = "round" /\ rel[p[1]].up[2] = <<rel[p[1]].up[2][1]>>
         /\ rel[p[1]].up[2][1] \in DOMAIN Version /\ rel[p[1]].up[2][1] \in Named
         /\ p[2] \in DOMAIN Version[rel[p[1]].up[2][1]] /\ Label(p[1]) # None
PROOF
  <1>1. Whole(rel)
    BY DEF Inductive
  <1>2. PICK i \in Campaigns :
          \E t \in Shown(rel, i) : \E d \in DevicesIn(t) \cap DOMAIN Version[rel[t].up[2][1]] : p = <<t, d>>
    BY DEF DeviceTopos
  <1>8. PICK t \in Shown(rel, i) : \E d \in DevicesIn(t) \cap DOMAIN Version[rel[t].up[2][1]] : p = <<t, d>>
    BY <1>2
  <1>3. PICK d \in DevicesIn(t) \cap DOMAIN Version[rel[t].up[2][1]] : p = <<t, d>>
    BY <1>8
  <1>4. p[1] = t /\ p[2] = d /\ t \in DOMAIN rel /\ rel[t].up = i
    BY <1>3 DEF Shown, Children
  <1>5. i \in DOMAIN rel /\ i[1] = "round" /\ i[2][1] \in DOMAIN Version /\ Len(i[2]) = 1
    BY DEF Campaigns, Topmost
  <1>6. IsBase(i[2]) /\ i[2][1] \in Named
    BY <1>1, <1>5, Kinds DEF IsRound
  <1>7. i[2] = <<i[2][1]>>
    BY <1>5, <1>6, BaseFacts
  <1>9. Label(t) # None
    <2>1. DevicesIn(t) # {}
      BY <1>3
    <2> QED  BY <2>1, TreeAssumption DEF DevicesIn
  <1> QED  BY <1>3, <1>4, <1>5, <1>6, <1>7, <1>9

LEMMA OfCampaign ==
  ASSUME Inductive, NEW p \in DeviceTopos, NEW j \in Hidden(rel, p[1])
  PROVE  /\ j \in DOMAIN rel /\ rel[j].up = p[1] /\ rel[j].seq \in Nat \ {0}
         /\ Campaign(j) = rel[p[1]].up[2][1] /\ Place(j) = Label(p[1]) /\ Label(p[1]) # None
         /\ j[1] = "rc" => j[3] = Label(p[1])
PROOF
  <1> DEFINE t == p[1]
             s == rel[t].up[2][1]
  <1>1. Whole(rel)
    BY DEF Inductive
  <1>2. j \in DOMAIN rel /\ rel[j].up = t /\ ~rel[j].visible
    BY DEF Hidden, Children
  <1>3. j[1] \in {"rc", "import"} /\ rel[j].seq \in Nat \ {0}
    BY <1>1, <1>2, Hiddens
  <1>4. /\ t \in DOMAIN rel /\ rel[t].up \in DOMAIN rel /\ rel[t].up[1] = "round" /\ rel[t].up[2] = <<s>> /\ s \in Named
        /\ Base(rel[t].up) = <<s>> /\ s \notin Report
    BY InCampaign, Names DEF Base
  <1>5. t[1] # "stopo"
    <2>1. t[1] = "stopo" => rel[t].up = <<"session", t[2], t[3]>>
      BY <1>1, <1>4, Kinds DEF IsSessionTopo
    <2> QED  BY <1>4, <2>1
  <1>6. CASE j[1] = "rc"
    <2>1. IsRC(rel, j)
      BY <1>1, <1>2, <1>6, Kinds
    <2>2. t = <<"topo", j[2], j[3]>>
      BY <1>2, <1>5, <2>1 DEF IsRC
    <2>3. t[1] = "topo" /\ t[2] = j[2] /\ Label(t) = j[3]
      BY <2>2 DEF Label
    <2>4. j[2] = <<s>>
      BY <1>1, <1>4, <2>3, Kinds DEF IsTopo, Under
    <2>5. Campaign(j) = s
      BY <1>4, <1>6, <2>4 DEF Campaign, Base
    <2>6. Place(j) = j[3]
      BY <1>6 DEF Place
    <2> QED  BY <1>2, <1>3, <2>3, <2>5, <2>6, InCampaign
  <1>7. CASE j[1] = "import"
    <2>1. rel[j].up # Nothing
      BY <1>1, <1>2, <1>4, Ups
    <2>2. t[1] = "row" /\ t[2] = <<RoundOf[j[2]]>> /\ j[2] \in Report
      BY <1>1, <1>2, <1>5, <1>7, <2>1, Kinds DEF Imported
    <2>3. <<RoundOf[j[2]]>> = <<s>>
      BY <1>1, <1>4, <2>2, Kinds DEF IsHandRow
    <2>4. RoundOf[j[2]] = s
      BY <2>3
    <2>5. Campaign(j) = RoundOf[j[2]]
      BY <1>7, <2>2 DEF Campaign, Base
    <2>6. Place(j) = Label(t)
      BY <1>2, <1>7, <2>1 DEF Place
    <2> QED  BY <1>2, <1>3, <1>7, <2>4, <2>5, <2>6, InCampaign
  <1> QED  BY <1>3, <1>6, <1>7, InCampaign

LEMMA DevicesKeeps ==
  ASSUME Inductive, DeviceCentricRounds
  PROVE  Inductive' /\ Filed
PROOF
  <1> DEFINE pairs   == DeviceTopos
             triples == UNION {{<<p[1], p[2], j>> : j \in Hidden(rel, p[1])} : p \in pairs}
             b(p)    == <<rel[p[1]].up[2][1], p[2]>>
             topo(p) == <<"topo", b(p), Label(p[1])>>
             rc(q)   == <<"rc", b(q), Label(q[1]), rel[q[3]].seq>>
             moves   == {m \in Result \X triples : m[2][3] = RC(m[1]) /\ m[2][2] = DeviceOf[m[1]]}
             new(m)  == <<"device", res[m[1]].run, m[2][2]>>
             made    == {new(m) : m \in moves}
             movers  == {m[1] : m \in moves}
             run1 == run ++ [u \in made |-> rc((CHOOSE m \in moves : new(m) = u)[2])]
             res1 == [r \in movers |-> [res[r] EXCEPT !.run = new(CHOOSE m \in moves : m[1] = r)]] ++ res
             rounds == {<<"round", b(p)>> : p \in pairs}
             topos  == {topo(p) : p \in pairs}
             rcs    == {rc(q) : q \in triples}
             newRounds == [i \in rounds |-> Row(Multi, TRUE, 0, "TESTING", "device")]
             newTopos  == [i \in topos |-> Row(<<"round", i[2]>>, TRUE, 1, "TESTING", "device")]
             newRCs    == [i \in rcs |-> Row(<<"topo", i[2], i[3]>>, FALSE, i[4], "TESTING", "device")]
             relA == rel ++ newRounds
             relB == relA ++ newTopos
             rel1 == relB ++ newRCs
             mine  == {i \in DOMAIN rel1 : rel1[i].by = "device" /\ ~rel1[i].visible}
             above == {rel1[i].up : i \in mine} \cap DOMAIN rel1
             tops  == {rel1[i].up : i \in above} \cap DOMAIN rel1
             rel2 == Recount(rel1, run1, res1, mine)
             rel3 == Rollup(rel2, above, BOOLEAN)
             rel4 == Rollup(rel3, tops, BOOLEAN)
  <1>1. rel' = rel4 /\ run' = run1 /\ res' = res1 /\ last' = "devices" /\ report' = report
    <2>1. DeviceRounds(pairs, triples)
      BY DEF DeviceCentricRounds
    <2> HIDE DEF pairs, triples
    <2> QED  BY <2>1 DEF DeviceRounds
  <1> HIDE DEF pairs, triples, b, topo, rc, new, moves, made, movers, run1, res1, rounds, topos, rcs, newRounds, newTopos,
               newRCs, relA, relB, rel1, mine, above, tops, rel2, rel3, rel4
  <1>2. Whole(rel) /\ Hung /\ Taken /\ Sorted
    BY DEF Inductive
  <1>3. ASSUME NEW p \in pairs
        PROVE  /\ IsBase(b(p)) /\ b(p)[1] \in Named /\ b(p)[1] \notin Report
               /\ b(p)[1] = rel[p[1]].up[2][1]
    <2>1. /\ rel[p[1]].up[2][1] \in DOMAIN Version /\ rel[p[1]].up[2][1] \in Named
          /\ p[2] \in DOMAIN Version[rel[p[1]].up[2][1]]
      BY InCampaign DEF pairs
    <2>2. b(p) = <<b(p)[1], b(p)[2]>> /\ b(p)[1] = rel[p[1]].up[2][1] /\ b(p)[2] = p[2]
      BY DEF b
    <2> QED  BY <2>1, <2>2, Names DEF IsBase
  <1>4. ASSUME NEW q \in triples
        PROVE  /\ <<q[1], q[2]>> \in pairs /\ b(<<q[1], q[2]>>) = b(q)
               /\ q[3] \in DOMAIN rel /\ rel[q[3]].seq \in Nat \ {0}
               /\ Campaign(q[3]) = b(q)[1] /\ Place(q[3]) = Label(q[1]) /\ Label(q[1]) # None
               /\ q[3][1] = "rc" => q[3][3] = Label(q[1])
               /\ rel[q[3]].up = q[1]
    <2>1. PICK p \in pairs : \E j \in Hidden(rel, p[1]) : q = <<p[1], p[2], j>>
      BY DEF triples
    <2>2. PICK j \in Hidden(rel, p[1]) : q = <<p[1], p[2], j>>
      BY <2>1
    <2>3. p = <<q[1], q[2]>> /\ q[1] = p[1] /\ q[2] = p[2] /\ q[3] = j
      BY <2>2, InCampaign DEF pairs
    <2>4. b(<<q[1], q[2]>>) = b(q) /\ b(q)[1] = rel[p[1]].up[2][1]
      BY <2>3 DEF b
    <2> QED  BY <2>3, <2>4, OfCampaign DEF pairs
  <1>5. ASSUME NEW i \in rounds
        PROVE  i = <<"round", i[2]>> /\ i[1] = "round" /\ IsBase(i[2]) /\ i[2][1] \in Named
    <2>1. PICK p \in pairs : i = <<"round", b(p)>>
      BY DEF rounds
    <2>2. i[2] = b(p) /\ i[1] = "round" /\ i = <<"round", i[2]>>
      BY <2>1
    <2> QED  BY <1>3, <2>2
  <1>6. ASSUME NEW i \in topos
        PROVE  i = <<"topo", i[2], i[3]>> /\ i[1] = "topo" /\ IsBase(i[2]) /\ i[2][1] \in Named /\ <<"round", i[2]>> \in rounds
    <2>1. PICK p \in pairs : i = topo(p)
      BY DEF topos
    <2>2. i[2] = b(p) /\ i[1] = "topo" /\ i = <<"topo", i[2], i[3]>>
      BY <2>1 DEF topo
    <2> QED  BY <1>3, <2>2 DEF rounds
  <1>7. ASSUME NEW q \in triples
        PROVE  /\ rc(q) \in rcs /\ rc(q) = <<"rc", rc(q)[2], rc(q)[3], rc(q)[4]>> /\ rc(q)[1] = "rc"
               /\ rc(q)[2] = b(q) /\ rc(q)[3] = Label(q[1]) /\ rc(q)[4] = rel[q[3]].seq
               /\ <<"topo", rc(q)[2], rc(q)[3]>> \in topos
    <2>1. rc(q) \in rcs
      BY DEF rcs
    <2>2. /\ rc(q)[2] = b(q) /\ rc(q)[3] = Label(q[1]) /\ rc(q)[4] = rel[q[3]].seq
          /\ rc(q) = <<"rc", rc(q)[2], rc(q)[3], rc(q)[4]>> /\ rc(q)[1] = "rc"
      BY DEF rc
    <2>3. topo(<<q[1], q[2]>>) = <<"topo", b(q), Label(q[1])>>
      BY <1>4 DEF topo
    <2> QED  BY <1>4, <2>1, <2>2, <2>3 DEF topos
  <1>8. ASSUME NEW i \in rcs
        PROVE  /\ i = <<"rc", i[2], i[3], i[4]>> /\ i[1] = "rc" /\ IsBase(i[2]) /\ i[4] \in Nat \ {0}
               /\ i[2][1] \notin Report /\ <<"topo", i[2], i[3]>> \in topos
    <2>1. PICK q \in triples : i = rc(q)
      BY DEF rcs
    <2>2. IsBase(b(q)) /\ b(q)[1] \notin Report /\ rel[q[3]].seq \in Nat \ {0}
      BY <1>3, <1>4
    <2> QED  BY <1>7, <2>1, <2>2
  <1>9. (\A i \in rounds : i[1] = "round") /\ (\A i \in topos : i[1] = "topo") /\ (\A i \in rcs : i[1] = "rc")
    BY <1>5, <1>6, <1>8
  \* the rows added
  <1>10. /\ DOMAIN newRounds = rounds /\ \A i \in rounds : newRounds[i] = Row(Multi, TRUE, 0, "TESTING", "device")
         /\ DOMAIN newTopos = topos /\ \A i \in topos : newTopos[i] = Row(<<"round", i[2]>>, TRUE, 1, "TESTING", "device")
    BY DEF newRounds, newTopos
  <1>11. DOMAIN newRCs = rcs /\ \A i \in rcs : newRCs[i] = Row(<<"topo", i[2], i[3]>>, FALSE, i[4], "TESTING", "device")
    BY DEF newRCs
  <1>12. /\ DOMAIN relA = (DOMAIN rel) \cup rounds /\ \A i \in DOMAIN rel : relA[i] = rel[i]
         /\ \A i \in rounds : i \notin DOMAIN rel => relA[i] = newRounds[i]
    <2>1. DOMAIN newRounds = rounds
      BY <1>10
    <2> QED  BY <2>1, Merge DEF relA
  <1>13. Whole(relA)
    <2>1. ASSUME NEW i \in rounds, i \notin DOMAIN rel
          PROVE  IsRecord(relA, i) /\ IsPlaced(relA, i)
      <3>1. relA[i] = Row(Multi, TRUE, 0, "TESTING", "device") /\ i[1] # "import"
        BY <1>9, <1>10, <1>12, <2>1
      <3>2. IsRecord(relA, i) /\ relA[i].up = Multi /\ relA[i].visible
        BY <3>1 DEF Row, IsRecord
      <3>3. IsRound(relA, i)
        BY <1>5, <3>2 DEF IsRound
      <3> QED  BY <3>2, <3>3 DEF IsPlaced
    <2>2. \A i \in DOMAIN newRounds : i \notin DOMAIN rel => IsRecord(relA, i) /\ IsPlaced(relA, i)
      BY <1>10, <2>1
    <2> QED  BY <1>2, <2>2, Added DEF relA
  <1>14. /\ DOMAIN relB = (DOMAIN relA) \cup topos /\ \A i \in DOMAIN relA : relB[i] = relA[i]
         /\ \A i \in topos : i \notin DOMAIN relA => relB[i] = newTopos[i]
    <2>1. DOMAIN newTopos = topos
      BY <1>10
    <2> QED  BY <2>1, Merge DEF relB
  <1>15. Whole(relB)
    <2>1. ASSUME NEW i \in topos, i \notin DOMAIN relA
          PROVE  IsRecord(relB, i) /\ IsPlaced(relB, i)
      <3>1. relB[i] = Row(<<"round", i[2]>>, TRUE, 1, "TESTING", "device") /\ i[1] # "import"
        BY <1>9, <1>10, <1>14, <2>1
      <3>2. IsRecord(relB, i) /\ relB[i].up = <<"round", i[2]>> /\ relB[i].visible
        BY <3>1 DEF Row, IsRecord
      <3>3. relB[i].up \in DOMAIN relB /\ relB[i].up[1] = "round" /\ Base(relB[i].up) = i[2]
        BY <1>6, <1>12, <1>14, <3>2 DEF Base
      <3>4. IsTopo(relB, i)
        BY <1>6, <3>2, <3>3 DEF IsTopo, Under
      <3> QED  BY <3>2, <3>4 DEF IsPlaced
    <2>2. \A i \in DOMAIN newTopos : i \notin DOMAIN relA => IsRecord(relB, i) /\ IsPlaced(relB, i)
      BY <1>10, <2>1
    <2> QED  BY <1>13, <2>2, Added DEF relB
  <1>16. /\ DOMAIN rel1 = (DOMAIN relB) \cup rcs /\ \A i \in DOMAIN relB : rel1[i] = relB[i]
         /\ \A i \in rcs : i \notin DOMAIN relB => rel1[i] = newRCs[i]
    <2>1. DOMAIN newRCs = rcs
      BY <1>11
    <2> QED  BY <2>1, Merge DEF rel1
  <1>17. Whole(rel1)
    <2>1. ASSUME NEW i \in rcs, i \notin DOMAIN relB
          PROVE  IsRecord(rel1, i) /\ IsPlaced(rel1, i)
      <3>1. rel1[i] = Row(<<"topo", i[2], i[3]>>, FALSE, i[4], "TESTING", "device")
        BY <1>11, <1>16, <2>1
      <3>2. i[1] # "import" /\ i[4] \in Nat
        <4>1. i[1] = "rc" /\ i[4] \in Nat \ {0}
          BY <1>8
        <4> QED  BY <4>1
      <3>3. IsRecord(rel1, i) /\ rel1[i].up = <<"topo", i[2], i[3]>> /\ ~rel1[i].visible /\ rel1[i].seq = i[4]
        BY <3>1, <3>2 DEF Row, IsRecord
      <3>4. rel1[i].up \in DOMAIN rel1
        BY <1>8, <1>14, <1>16, <3>3
      <3>5. IsRC(rel1, i)
        BY <1>8, <3>3, <3>4 DEF IsRC
      <3> QED  BY <3>3, <3>5 DEF IsPlaced
    <2>2. \A i \in DOMAIN newRCs : i \notin DOMAIN relB => IsRecord(rel1, i) /\ IsPlaced(rel1, i)
      BY <1>11, <2>1
    <2> QED  BY <1>15, <2>2, Added DEF rel1
  <1>18. /\ \A i \in DOMAIN rel : i \in DOMAIN rel1 /\ rel1[i] = rel[i]
         /\ \A i \in DOMAIN rel1 : i \in DOMAIN rel \/ i \in rounds \/ i \in topos \/ i \in rcs
         /\ rounds \cup topos \cup rcs \subseteq DOMAIN rel1
    BY <1>12, <1>14, <1>16
  <1>19. /\ mine \subseteq DOMAIN rel1 /\ \A i \in mine : i[1] = "rc"
         /\ above \subseteq DOMAIN rel1 /\ \A i \in above : i[1] \in {"topo", "stopo"}
         /\ tops \subseteq DOMAIN rel1 /\ \A i \in tops : i[1] \in {"round", "import", "session"}
    <2>1. ASSUME NEW i \in mine  PROVE i \in DOMAIN rel1 /\ i[1] = "rc"
      <3>1. i \in DOMAIN rel1 /\ i[1] # "import" /\ ~rel1[i].visible
        BY <1>17 DEF mine, Whole, IsRecord
      <3> QED  BY <1>17, <3>1, Hiddens
    <2>2. ASSUME NEW i \in above  PROVE i \in DOMAIN rel1 /\ i[1] \in {"topo", "stopo"}
      <3>1. PICK j \in mine : i = rel1[j].up
        BY DEF above
      <3> QED  BY <1>17, <2>1, <3>1, Kinds DEF above, IsRC
    <2>3. ASSUME NEW i \in tops  PROVE i \in DOMAIN rel1 /\ i[1] \in {"round", "import", "session"}
      <3>1. PICK j \in above : i = rel1[j].up
        BY DEF tops
      <3> QED  BY <1>17, <2>2, <3>1, Kinds DEF tops, IsTopo, IsSessionTopo
    <2> QED  BY <2>1, <2>2, <2>3
  <1>20. Whole(rel2) /\ Settled(rel1, rel2)
    BY <1>17, <1>19, RecountFacts DEF rel2
  <1>21. Whole(rel3) /\ Settled(rel2, rel3) /\ above \subseteq DOMAIN rel2
    <2>1. above \subseteq DOMAIN rel2
      BY <1>19, <1>20 DEF Settled
    <2> QED  BY <1>20, <2>1, RollupFacts DEF rel3
  <1>22. Whole(rel4) /\ Settled(rel3, rel4) /\ tops \subseteq DOMAIN rel3
    <2>1. tops \subseteq DOMAIN rel3
      BY <1>19, <1>20, <1>21 DEF Settled
    <2> QED  BY <1>21, <2>1, RollupFacts DEF rel4
  <1>23. /\ DOMAIN rel4 = DOMAIN rel1
         /\ \A i \in DOMAIN rel1 : /\ rel4[i].up = rel1[i].up /\ rel4[i].visible = rel1[i].visible
                                   /\ rel4[i].by = rel1[i].by
    BY <1>20, <1>21, <1>22 DEF Settled
  \* runs and results
  <1>24. ASSUME NEW m \in moves
         PROVE  /\ m[1] \in Result /\ m[2] \in triples /\ m[2][3] = RC(m[1]) /\ m[2][2] = DeviceOf[m[1]]
                /\ new(m) \in made /\ m[1] \in movers
                /\ new(m)[1] = "device" /\ new(m)[2] = res[m[1]].run /\ new(m)[3] = DeviceOf[m[1]]
                /\ new(m) \notin DOMAIN run /\ res[m[1]].run \in DOMAIN run /\ RC(m[1]) = run[res[m[1]].run]
    <2>1. m[1] \in Result /\ m[2] \in triples /\ m[2][3] = RC(m[1]) /\ m[2][2] = DeviceOf[m[1]]
      BY DEF moves
    <2>2. new(m) \in made /\ m[1] \in movers
      BY DEF made, movers
    <2>3. new(m)[1] = "device" /\ new(m)[2] = res[m[1]].run /\ new(m)[3] = DeviceOf[m[1]]
      BY <2>1 DEF new
    <2>4. new(m) \notin DOMAIN run
      BY <1>2, <2>1, <2>3 DEF Taken
    <2> QED  BY <2>1, <2>2, <2>3, <2>4, Standing
  <1>25. /\ DOMAIN run1 = (DOMAIN run) \cup made /\ \A u \in DOMAIN run : run1[u] = run[u] /\ u \notin made
         /\ \A u \in made : \E m \in moves : new(m) = u /\ run1[u] = rc(m[2])
    <2>1. DOMAIN run1 = (DOMAIN run) \cup made /\ \A u \in DOMAIN run : run1[u] = run[u] /\ u \notin made
      BY <1>24 DEF run1, ++, made
    <2>2. ASSUME NEW u \in made  PROVE \E m \in moves : new(m) = u /\ run1[u] = rc(m[2])
      <3>1. u \notin DOMAIN run
        BY <2>1
      <3>2. run1[u] = rc((CHOOSE m \in moves : new(m) = u)[2])
        BY <3>1 DEF run1, ++
      <3>3. \E m \in moves : new(m) = u
        BY DEF made
      <3> QED  BY <3>2, <3>3
    <2> QED  BY <2>1, <2>2
  <1>26. ASSUME NEW r \in Result
         PROVE  /\ res1[r] = [run |-> res1[r].run, status |-> res[r].status]
                /\ res1[r].status = res[r].status
                /\ r \in movers => \E m \in moves : m[1] = r /\ res1[r].run = new(m)
                /\ r \notin movers => res1[r].run = res[r].run
    <2>1. DOMAIN res = Result /\ res[r] = [run |-> res[r].run, status |-> res[r].status]
      BY <1>2 DEF Hung
    <2>2. CASE r \in movers
      <3>1. res1[r] = [res[r] EXCEPT !.run = new(CHOOSE m \in moves : m[1] = r)]
        BY <2>2 DEF res1, ++
      <3>2. PICK m \in moves : m[1] = r /\ m = (CHOOSE n \in moves : n[1] = r)
        BY <2>2 DEF movers
      <3>3. res1[r] = [run |-> new(m), status |-> res[r].status]
        BY <1>2, <3>1, <3>2, RunMoved
      <3>4. res1[r].run = new(m) /\ res1[r].status = res[r].status
        BY <3>3
      <3> QED  BY <2>2, <3>2, <3>3, <3>4
    <2>3. CASE r \notin movers
      <3>1. res1[r] = res[r]
        BY <2>1, <2>3 DEF res1, ++
      <3> QED  BY <2>1, <2>3, <3>1
    <2> QED  BY <2>2, <2>3
  <1>27. DOMAIN res1 = Result /\ movers \subseteq Result
    <2>1. movers \subseteq Result
      BY <1>24 DEF movers
    <2>2. DOMAIN res = Result
      BY <1>2 DEF Hung
    <2> QED  BY <2>1, <2>2 DEF res1, ++
  <1>28. ASSUME NEW r \in movers
         PROVE  /\ res1[r].run \in made /\ res1[r].run \notin DOMAIN run /\ res1[r].run[2] = res[r].run
                /\ res1[r].run[1] = "device"
                /\ \E q \in triples : q[3] = RC(r) /\ run1[res1[r].run] = rc(q)
    <2>1. PICK m \in moves : m[1] = r /\ res1[r].run = new(m)
      BY <1>26, <1>27
    <2>2. PICK n \in moves : new(n) = new(m) /\ run1[new(m)] = rc(n[2])
      BY <1>24, <1>25
    <2>3. res[n[1]].run = res[r].run
      BY <1>24, <2>1, <2>2
    <2>4. RC(n[1]) = RC(r)
      BY <2>3 DEF RC
    <2>5. n[2] \in triples /\ n[2][3] = RC(r)
      BY <1>24, <2>4
    <2>6. /\ new(m) \in made /\ new(m) \notin DOMAIN run /\ new(m)[2] = res[r].run /\ new(m)[1] = "device"
      BY <1>24, <2>1
    <2> QED  BY <2>1, <2>2, <2>5, <2>6
  <1>29. ASSUME NEW r \in Result, r \notin movers
         PROVE  /\ res1[r].run = res[r].run /\ res[r].run \in DOMAIN run /\ run1[res1[r].run] = RC(r)
                /\ ~\E q \in triples : q[3] = RC(r) /\ q[2] = DeviceOf[r]
    <2>1. res1[r].run = res[r].run /\ res[r].run \in DOMAIN run /\ run1[res1[r].run] = RC(r)
      <3>1. res[r].run \in DOMAIN run /\ RC(r) = run[res[r].run]
        BY Standing
      <3>2. res1[r].run = res[r].run
        BY <1>26, <1>29
      <3> QED  BY <1>25, <3>1, <3>2
    <2>2. ASSUME NEW q \in triples, q[3] = RC(r), q[2] = DeviceOf[r]
          PROVE  FALSE
      <3>1. <<r, q>> \in moves
        BY <2>2 DEF moves
      <3>2. <<r, q>>[1] = r
        OBVIOUS
      <3>3. r \in movers
        BY <3>1, <3>2 DEF movers
      <3> QED  BY <1>29, <3>3
    <2> QED  BY <2>1, <2>2
  <1>30. \A r \in Result : RC(r)' = run1[res1[r].run]
    BY <1>1 DEF RC
  <1>31. Hung'
    <2>1. ASSUME NEW u \in DOMAIN run1
          PROVE  run1[u] \in DOMAIN rel4 /\ run1[u][1] \in {"import", "rc"}
      <3>1. CASE u \in made
        <4>1. PICK m \in moves : run1[u] = rc(m[2])
          BY <1>25, <3>1
        <4>2. m[2] \in triples
          BY <1>24
        <4> QED  BY <1>7, <1>18, <1>23, <4>1, <4>2
      <3>2. CASE u \in DOMAIN run
        <4>1. run1[u] = run[u] /\ run[u] \in DOMAIN rel /\ run[u][1] \in {"import", "rc"}
          BY <1>2, <1>25, <3>2 DEF Hung
        <4> QED  BY <1>18, <1>23, <4>1
      <3> QED  BY <1>25, <3>1, <3>2
    <2>2. res1 = [r \in Result |-> [run |-> res1[r].run, status |-> res1[r].status]]
      <3>1. \A r \in Result : res1[r] = [run |-> res1[r].run, status |-> res1[r].status]
        BY <1>26
      <3>2. res1 = [r \in Result |-> res1[r]]
        BY <1>27 DEF res1, ++
      <3> QED  BY <3>1, <3>2
    <2>3. ASSUME NEW r \in Result
          PROVE  /\ res1[r].run \in DOMAIN run1 /\ res1[r].status \in {"PASSED", "testing", "passed", "blocked"}
                 /\ run1[res1[r].run][1] = "import" /\ rel4[run1[res1[r].run]].up = Nothing
                      => rel4[run1[res1[r].run]].visible
      <3>1. res1[r].run \in DOMAIN run1 /\ res1[r].status \in {"PASSED", "testing", "passed", "blocked"}
        BY <1>2, <1>25, <1>26, <1>28, <1>29 DEF Hung
      <3>2. CASE r \in movers
        <4>1. run1[res1[r].run][1] = "rc"
          BY <1>7, <1>28, <3>2
        <4> QED  BY <3>1, <4>1
      <3>3. CASE r \notin movers
        <4>1. run1[res1[r].run] = RC(r) /\ RC(r) \in DOMAIN rel
          BY <1>29, <3>3, Standing
        <4>2. rel4[RC(r)].up = rel[RC(r)].up /\ rel4[RC(r)].visible = rel[RC(r)].visible
          BY <1>18, <1>23, <4>1
        <4> QED  BY <1>2, <3>1, <4>1, <4>2 DEF Hung
      <3> QED  BY <3>2, <3>3
    <2>4. \A x \in Report : \/ report[x] = <<"import", x>>
                            \/ report[x] \in DOMAIN rel4 /\ report[x][1] \in {"row", "round"}
      BY <1>2, <1>18, <1>23 DEF Hung
    <2> QED  BY <1>1, <1>30, <2>1, <2>2, <2>3, <2>4 DEF Hung, RC
  <1>32. Taken'
    <2>1. ASSUME NEW u \in DOMAIN run1
          PROVE  /\ u[1] \in {"import", "service", "run", "device"}
                 /\ u[1] = "device" => /\ u[2] \in DOMAIN run1 \/ u[2][1] = "import"
                                       /\ \A r \in Result : ~(res1[r].run = u[2] /\ DeviceOf[r] = u[3])
      <3>1. CASE u \in made
        <4>1. PICK m \in moves : u = new(m)
          BY <3>1 DEF made
        <4>2. u[1] = "device" /\ u[2] = res[m[1]].run /\ u[3] = DeviceOf[m[1]] /\ u[2] \in DOMAIN run
          BY <1>24, <4>1
        <4>3. ASSUME NEW r \in Result, res1[r].run = u[2], DeviceOf[r] = u[3]
              PROVE  FALSE
          <5>1. r \notin movers
            BY <1>28, <4>2, <4>3
          <5>2. res[r].run = res[m[1]].run
            BY <1>29, <4>2, <4>3, <5>1
          <5>3. RC(r) = RC(m[1]) /\ DeviceOf[r] = DeviceOf[m[1]]
            BY <4>2, <4>3, <5>2 DEF RC
          <5> QED  BY <1>24, <1>29, <5>1, <5>3
        <4> QED  BY <1>25, <4>2, <4>3
      <3>2. CASE u \in DOMAIN run
        <4>1. u[1] \in {"import", "service", "run", "device"}
          BY <1>2, <3>2 DEF Taken
        <4>2. ASSUME u[1] = "device"
              PROVE  u[2] \in DOMAIN run \/ u[2][1] = "import"
          BY <1>2, <3>2, <4>2 DEF Taken
        <4>3. ASSUME u[1] = "device", NEW r \in Result, res1[r].run = u[2], DeviceOf[r] = u[3]
              PROVE  FALSE
          <5>1. r \in movers
            BY <1>2, <1>29, <3>2, <4>3 DEF Taken
          <5>2. u[2] \notin DOMAIN run /\ u[2][1] = "device"
            BY <1>28, <4>3, <5>1
          <5> QED  BY <4>2, <4>3, <5>2
        <4> QED  BY <1>25, <4>1, <4>2, <4>3
      <3> QED  BY <1>25, <3>1, <3>2
    <2> QED  BY <1>1, <2>1 DEF Taken
  <1>33. Sorted'
    <2> SUFFICES ASSUME Restructured'  PROVE Sorted'
      BY DEF Sorted
    <2>1. Restructured
      <3>1. PICK i \in DOMAIN rel1 : i[1] \in {"topo", "session"} /\ i[2][1] \in Report
        BY <1>1, <1>23 DEF Restructured
      <3>2. i \notin rounds /\ i \notin rcs
        BY <1>9, <3>1
      <3>3. i \notin topos
        BY <1>6, <3>1, Names
      <3> QED  BY <1>18, <3>1, <3>2, <3>3 DEF Restructured
    <2>2. ASSUME NEW r \in Result, ComboOf[r] # None
          PROVE  /\ RC(r)[1] = "rc" /\ RC(r)[3] \in {ComboOf[r], None}
                 /\ <<"topo", RC(r)[2], ComboOf[r]>> \in DOMAIN rel
                 /\ \A q \in Result : res[q].run = res[r].run => ComboOf[q] \in {ComboOf[r], None}
      BY <1>2, <2>1, <2>2 DEF Sorted
    <2>3. ASSUME NEW r \in Result, ComboOf[r] # None
          PROVE  /\ run1[res1[r].run][1] = "rc" /\ run1[res1[r].run][3] \in {ComboOf[r], None}
                 /\ <<"topo", run1[res1[r].run][2], ComboOf[r]>> \in DOMAIN rel4
                 /\ \A q \in Result : res1[q].run = res1[r].run => ComboOf[q] \in {ComboOf[r], None}
      <3>1. ASSUME NEW q \in Result, res1[q].run = res1[r].run
            PROVE  ComboOf[q] \in {ComboOf[r], None}
        <4>1. q \in movers <=> r \in movers
          BY <1>28, <1>29, <3>1
        <4>2. res[q].run = res[r].run
          BY <1>28, <1>29, <3>1, <4>1
        <4> QED  BY <2>2, <2>3, <4>2
      <3>2. CASE r \in movers
        <4>1. PICK q \in triples : q[3] = RC(r) /\ run1[res1[r].run] = rc(q)
          BY <1>28, <3>2
        <4>2. RC(r)[3] = Label(q[1]) /\ RC(r)[3] = ComboOf[r]
          BY <1>4, <2>2, <2>3, <4>1
        <4>3. rc(q)[1] = "rc" /\ rc(q)[3] = ComboOf[r] /\ <<"topo", rc(q)[2], ComboOf[r]>> \in topos
          BY <1>7, <2>2, <2>3, <4>2
        <4> QED  BY <1>18, <1>23, <3>1, <4>1, <4>3
      <3>3. CASE r \notin movers
        BY <1>18, <1>23, <1>29, <2>2, <2>3, <3>1, <3>3
      <3> QED  BY <3>2, <3>3
    <2> QED  BY <1>1, <2>3 DEF Sorted, RC
  <1>34. BlockedShown'
    <2>1. ASSUME NEW r \in Result, res1[r].status = "blocked", rel4[run1[res1[r].run]].by = "device"
          PROVE  LET i == run1[res1[r].run]
                     t == rel4[i].up
                 IN /\ rel4[i].status = "BLOCKED" /\ rel4[t].status = "BLOCKED"
                    /\ rel4[t].up[1] = "round" => rel4[rel4[t].up].status = "BLOCKED"
      <3> DEFINE i == run1[res1[r].run]
                 t == rel4[i].up
                 o == rel4[t].up
                 V == BOOLEAN
      <3>1. i \in DOMAIN rel1 /\ i[1] \in {"import", "rc"} /\ rel1[i].by = "device"
        BY <1>1, <1>23, <1>31, <2>1 DEF Hung
      <3>2. i[1] = "rc" /\ ~rel1[i].visible
        BY <1>17, <3>1, Hiddens DEF Whole, IsRecord
      <3>3. i \in mine
        BY <3>1, <3>2 DEF mine
      <3>4. t = rel1[i].up /\ t \in DOMAIN rel1
        BY <1>17, <1>23, <3>1, <3>2, Kinds DEF IsRC
      <3>5. t \in above /\ o = rel1[t].up
        BY <1>23, <3>3, <3>4 DEF above
      <3>6. "blocked" \in StatusesIn(run1, res1, i)
        BY <2>1 DEF StatusesIn
      <3> HIDE DEF i, t, o
      <3>7. rel2[i].status = "BLOCKED"
        BY <1>17, <1>19, <3>3, <3>6, RecountFacts DEF rel2
      <3>8. rel3 = Rollup(rel2, above, V) /\ rel4 = Rollup(rel3, tops, V)
        BY DEF rel3, rel4
      <3>9. rel2[i].visible \in V /\ rel3[t].visible \in V /\ i \in DOMAIN rel2 /\ t \in DOMAIN rel3
        BY <1>20, <1>21, <3>1, <3>4, Hiddens DEF Settled
      <3> HIDE DEF V
      <3>10. rel2[i].up = t /\ rel3[t].up = o
        BY <1>20, <1>21, <3>1, <3>4, <3>5 DEF Settled
      <3>11. rel3[t].status = "BLOCKED"
        BY <1>20, <1>21, <3>5, <3>7, <3>8, <3>9, <3>10, RollupFacts
      <3>12. i \notin above /\ i \notin tops /\ t \notin tops
        BY <1>19, <3>2, <3>5
      <3>13. rel3[i] = rel2[i]
        BY <1>20, <1>21, <3>8, <3>9, <3>12, RollupFacts
      <3>14. i \in DOMAIN rel3
        BY <1>21, <3>9 DEF Settled
      <3>15. rel4[i] = rel3[i] /\ rel4[t] = rel3[t]
        BY <1>21, <1>22, <3>8, <3>9, <3>12, <3>14, RollupFacts
      <3>16. ASSUME o[1] = "round"
             PROVE  rel4[o].status = "BLOCKED"
        <4>1. o \in DOMAIN rel1
          BY <1>17, <3>4, <3>5, <3>16, Ups DEF Multi, Nothing
        <4>2. o \in tops
          BY <3>5, <4>1 DEF tops
        <4> QED  BY <1>21, <1>22, <3>8, <3>9, <3>10, <3>11, <4>2, RollupFacts
      <3> QED  BY <3>7, <3>11, <3>13, <3>15, <3>16 DEF i, t, o
    <2> QED  BY <1>1, <2>1 DEF BlockedShown, RC
  <1>35. Filed
    <2>1. ASSUME NEW r \in Result
          PROVE  /\ Campaign(run1[res1[r].run]) = Campaign(RC(r))
                 /\ run1[res1[r].run] # RC(r) => run1[res1[r].run][3] = Place(RC(r))
      <3>1. CASE r \notin movers
        BY <1>29, <3>1
      <3>2. CASE r \in movers
        <4>1. PICK q \in triples : q[3] = RC(r) /\ run1[res1[r].run] = rc(q)
          BY <1>28, <3>2
        <4>2. b(q)[1] \notin Report /\ Campaign(RC(r)) = b(q)[1] /\ Place(RC(r)) = Label(q[1])
          BY <1>3, <1>4, <4>1
        <4>3. Base(rc(q)) = b(q) /\ rc(q)[3] = Label(q[1])
          BY <1>7 DEF Base
        <4> QED  BY <4>1, <4>2, <4>3 DEF Campaign
      <3> QED  BY <3>1, <3>2
    <2>2. \A r \in Result : Campaign(RC(r))' = Campaign(run1[res1[r].run])
      BY <1>30 DEF Campaign, Base
    <2> QED  BY <1>30, <2>1, <2>2 DEF Filed
  <1> QED  BY <1>1, <1>22, <1>31, <1>32, <1>33, <1>34, <1>35 DEF Inductive, OneRC

-----------------------------------------------------------------------------
\* migrate_excel_rounds_normalize.py

LEMMA LastOfRun ==
  ASSUME NEW final \in LastOfRuns, NEW r \in Result
  PROVE  final \subseteq Result /\ \E q \in final : res[q].run = res[r].run
PROOF
  <1> DEFINE S == {q \in final : res[q].run = res[r].run}
  <1>1. final \subseteq Result /\ Cardinality(S) = 1
    BY DEF LastOfRuns
  <1>2. S # {}
    <2>1. Cardinality({}) = 0
      BY FS_EmptySet
    <2> HIDE DEF S
    <2> QED  BY <1>1, <2>1
  <1> QED  BY <1>1, <1>2

LEMMA NormalizeKeeps ==
  ASSUME Inductive, NEW final \in LastOfRuns, Normalize(final)
  PROVE  Inductive' /\ Filed
PROOF
  <1> DEFINE s(r)    == NamedRound(RC(r))
             topo(r) == <<"topo", <<NamedRound(RC(r))>>, ComboOf[r]>>
             rc(r)   == FirstRC(topo(r))
             topos   == {topo(r) : r \in Result}
             rcs     == {rc(r) : r \in Result}
             rounds  == {<<"round", <<x>>>> : x \in Short}
             others  == {<<"round", <<NamedRound(RC(r))>>>> : r \in Result} \ rounds
             upsert  == [i \in rounds |-> Row(Multi, TRUE, 1,
                           IF i \in DOMAIN rel THEN rel[i].status ELSE "TESTING",
                           IF i \in DOMAIN rel THEN rel[i].by ELSE "rounds")]
             newOthers == [i \in others |-> Row(Multi, TRUE, 99, "TESTING", "rounds")]
             newTopos == [i \in topos |-> Row(<<"round", i[2]>>, TRUE, 1, "TESTING", "rounds")]
             newRCs   == [i \in rcs |-> Row(<<"topo", i[2], i[3]>>, FALSE, 1, "TESTING", "rounds")]
             relU == upsert ++ rel
             relO == relU ++ newOthers
             relA == relO ++ newTopos
             rel1 == relA ++ newRCs
             run1 == [u \in {res[r].run : r \in final} |-> rc(CHOOSE r \in final : res[r].run = u)] ++ run
             gone == Superseded(rel1)
             run2 == [u \in {u \in DOMAIN run : run1[u] \in gone} |-> FirstRC(rel1[run1[u]].up)] ++ run1
             imports == {i \in DOMAIN rel1 : i[1] = "import"}
             hidden  == [i \in imports |-> [rel1[i] EXCEPT !.visible = FALSE]]
             K    == (DOMAIN rel1) \ gone
             left == Restrict(rel1, K)
             rel2 == hidden ++ left
             rel3 == Recount(rel2, run2, res, rcs)
             rel4 == Rollup(rel3, topos, {FALSE})
             rel5 == Rollup(rel4, rounds, {TRUE})
  <1>1. /\ rel' = rel5 /\ run' = run2 /\ res' = res /\ last' = "normalize"
        /\ report' = [x \in Report |-> IF NamedRound(report[x]) = None THEN report[x]
                                             ELSE <<"round", <<NamedRound(report[x])>>>>]
    BY DEF Normalize
  <1> HIDE DEF s, topo, rc, topos, rcs, rounds, others, upsert, newOthers, newTopos, newRCs, relU, relO, relA, rel1, run1, gone, run2, imports,
               hidden, K, left, rel2, rel3, rel4, rel5
  <1>2. Whole(rel) /\ Hung /\ Taken /\ Sorted
    BY DEF Inductive
  <1>3. ASSUME NEW r \in Result
        PROVE  /\ s(r) \in Named /\ s(r) \notin Report
               /\ Len(Base(RC(r))) # 2 => s(r) = Campaign(RC(r))
    <2>1. IsBase(Base(RC(r)))
      BY <1>2, Standing, Bases
    <2> QED  BY <2>1, RoundNamed, Names DEF s
  <1>4. ASSUME NEW r \in Result
        PROVE  /\ topo(r) \in topos /\ rc(r) \in rcs
               /\ topo(r) = <<"topo", <<s(r)>>, ComboOf[r]>> /\ rc(r) = <<"rc", <<s(r)>>, ComboOf[r], 1>>
               /\ <<"round", <<s(r)>>>> \in rounds \cup others
    <2>1. topo(r) = <<"topo", <<s(r)>>, ComboOf[r]>>
      BY DEF topo, s
    <2>2. rc(r) = <<"rc", <<s(r)>>, ComboOf[r], 1>>
      BY <2>1 DEF rc, FirstRC
    <2>3. <<"round", <<s(r)>>>> \in rounds \cup others
      BY DEF s, others
    <2> QED  BY <2>1, <2>2, <2>3 DEF topos, rcs
  <1>5. ASSUME NEW i \in rounds
        PROVE  i = <<"round", i[2]>> /\ i[1] = "round" /\ IsBase(i[2]) /\ i[2][1] \in Named
    <2>1. PICK x \in Named : i = <<"round", <<x>>>>
      BY DEF rounds, Named
    <2>2. i[2] = <<x>> /\ i[1] = "round" /\ i = <<"round", i[2]>> /\ i[2][1] = x
      BY <2>1
    <2> QED  BY <2>2 DEF IsBase
  <1>6. ASSUME NEW i \in topos
        PROVE  /\ i = <<"topo", i[2], i[3]>> /\ i[1] = "topo" /\ IsBase(i[2]) /\ i[2][1] \in Named
               /\ <<"round", i[2]>> \in rounds \cup others
    <2>1. PICK r \in Result : i = topo(r)
      BY DEF topos
    <2>2. i[2] = <<s(r)>> /\ i[1] = "topo" /\ i = <<"topo", i[2], i[3]>> /\ i[2][1] = s(r)
      <3>1. i = <<"topo", <<s(r)>>, ComboOf[r]>>
        BY <1>4, <2>1
      <3> QED  BY <3>1
    <2> QED  BY <1>3, <1>4, <2>2 DEF IsBase
  <1>7. ASSUME NEW i \in rcs
        PROVE  /\ i = <<"rc", i[2], i[3], i[4]>> /\ i[1] = "rc" /\ i[4] = 1 /\ IsBase(i[2])
               /\ <<"topo", i[2], i[3]>> \in topos
    <2>1. PICK r \in Result : i = rc(r)
      BY DEF rcs
    <2>2. i[2] = <<s(r)>> /\ i[1] = "rc" /\ i = <<"rc", i[2], i[3], i[4]>> /\ i[2][1] = s(r) /\ i[4] = 1 /\ i[3] = ComboOf[r]
      <3>1. i = <<"rc", <<s(r)>>, ComboOf[r], 1>>
        BY <1>4, <2>1
      <3> QED  BY <3>1
    <2> QED  BY <1>3, <1>4, <2>2 DEF IsBase
  <1>50. ASSUME NEW i \in others
         PROVE  i = <<"round", i[2]>> /\ i[1] = "round" /\ IsBase(i[2]) /\ i[2][1] \in Named
    <2>1. PICK r \in Result : i = <<"round", <<s(r)>>>>
      BY DEF others, s
    <2>2. i[2] = <<s(r)>> /\ i[1] = "round" /\ i = <<"round", i[2]>> /\ i[2][1] = s(r)
      BY <2>1
    <2> QED  BY <1>3, <2>2 DEF IsBase
  <1>8. /\ (\A i \in rounds \cup others : i[1] = "round") /\ (\A i \in topos : i[1] = "topo")
        /\ \A i \in rcs : i[1] = "rc" /\ i[4] = 1
    BY <1>5, <1>6, <1>7, <1>50
  \* the rows added and written over
  <1>9. /\ DOMAIN relU = rounds \cup DOMAIN rel
        /\ \A i \in DOMAIN rel : i \notin rounds => relU[i] = rel[i]
        /\ \A i \in rounds : relU[i] = Row(Multi, TRUE, 1,
                               IF i \in DOMAIN rel THEN rel[i].status ELSE "TESTING",
                               IF i \in DOMAIN rel THEN rel[i].by ELSE "rounds")
    <2>1. /\ DOMAIN upsert = rounds
          /\ \A i \in rounds : upsert[i] = Row(Multi, TRUE, 1,
                               IF i \in DOMAIN rel THEN rel[i].status ELSE "TESTING",
                               IF i \in DOMAIN rel THEN rel[i].by ELSE "rounds")
      BY DEF upsert
    <2>2. DOMAIN upsert = rounds
      BY <2>1
    <2>3. /\ DOMAIN relU = rounds \cup DOMAIN rel
          /\ \A i \in DOMAIN rel : i \notin rounds => relU[i] = rel[i]
          /\ \A i \in rounds : relU[i] = upsert[i]
      <3>1. relU = upsert ++ rel
        BY DEF relU
      <3> HIDE DEF upsert
      <3>2. DOMAIN relU = rounds \cup DOMAIN rel
        BY <2>2, <3>1, Merge
      <3>3. \A i \in DOMAIN rel : i \notin rounds => relU[i] = rel[i]
        BY <2>2, <3>1 DEF ++
      <3>4. \A i \in rounds : relU[i] = upsert[i]
        BY <2>2, <3>1 DEF ++
      <3> QED  BY <3>2, <3>3, <3>4
    <2> QED  BY <2>1, <2>3
  <1>10. ASSUME NEW i \in rounds
         PROVE  IsRecord(relU, i) /\ IsRound(relU, i)
    <2> DEFINE status == IF i \in DOMAIN rel THEN rel[i].status ELSE "TESTING"
               by == IF i \in DOMAIN rel THEN rel[i].by ELSE "rounds"
    <2>1. status \in {"PASSED", "BLOCKED", "TESTING"} /\ by # "import"
      BY <1>2, <1>8 DEF Whole, IsRecord
    <2>2. relU[i] = Row(Multi, TRUE, 1, status, by)
      BY <1>9
    <2> HIDE DEF status, by
    <2>3. IsRecord(relU, i) /\ relU[i].up = Multi /\ relU[i].visible
      BY <1>8, <2>1, <2>2 DEF Row, IsRecord
    <2> QED  BY <1>5, <2>3 DEF IsRound
  <1>11. \A i \in DOMAIN rel : i \in DOMAIN relU /\ relU[i].up = rel[i].up /\ relU[i].visible = rel[i].visible
    <2>1. ASSUME NEW i \in DOMAIN rel, i \in rounds
          PROVE  relU[i].up = rel[i].up /\ relU[i].visible = rel[i].visible
      <3>1. IsRound(rel, i) /\ rel[i].visible \in BOOLEAN /\ relU[i].visible \in BOOLEAN
        BY <1>2, <1>8, <1>10, <2>1, Kinds DEF Whole, IsRecord
      <3> QED  BY <1>10, <2>1, <3>1 DEF IsRound
    <2> QED  BY <1>9, <2>1
  <1>12. Whole(relU)
    <2>1. ASSUME NEW i \in DOMAIN relU, i \notin rounds
          PROVE  IsRecord(relU, i) /\ IsPlaced(relU, i)
      <3>1. i \in DOMAIN rel /\ relU[i] = rel[i]
        BY <1>9, <2>1
      <3>2. IsRecord(rel, i) /\ IsPlaced(rel, i)
        BY <1>2, <3>1 DEF Whole
      <3>3. Still(rel, relU, i)
        BY <2>1, <3>1 DEF Still
      <3>4. rel[i].up \in DOMAIN rel => rel[i].up \in DOMAIN relU /\ relU[rel[i].up].up = rel[rel[i].up].up
        BY <1>11
      <3> QED  BY <3>1, <3>2, <3>3, <3>4, StillPlaced DEF IsRecord
    <2> QED  BY <1>10, <2>1 DEF Whole, IsPlaced
  <1>51. DOMAIN newOthers = others /\ \A i \in others : newOthers[i] = Row(Multi, TRUE, 99, "TESTING", "rounds")
    BY DEF newOthers
  <1>52. /\ DOMAIN relO = (DOMAIN relU) \cup others /\ \A i \in DOMAIN relU : relO[i] = relU[i]
         /\ \A i \in others : i \notin DOMAIN relU => relO[i] = newOthers[i]
    <2>1. DOMAIN newOthers = others
      BY <1>51
    <2> QED  BY <2>1, Merge DEF relO
  <1>53. Whole(relO)
    <2>1. ASSUME NEW i \in others, i \notin DOMAIN relU
          PROVE  IsRecord(relO, i) /\ IsPlaced(relO, i)
      <3>1. relO[i] = Row(Multi, TRUE, 99, "TESTING", "rounds") /\ i[1] # "import"
        BY <1>8, <1>51, <1>52, <2>1
      <3>2. IsRecord(relO, i) /\ relO[i].up = Multi /\ relO[i].visible
        BY <3>1 DEF Row, IsRecord
      <3> QED  BY <1>50, <3>2 DEF IsRound, IsPlaced
    <2>2. \A i \in DOMAIN newOthers : i \notin DOMAIN relU => IsRecord(relO, i) /\ IsPlaced(relO, i)
      BY <1>51, <2>1
    <2> QED  BY <1>12, <2>2, Added DEF relO
  <1>13. /\ DOMAIN newTopos = topos /\ \A i \in topos : newTopos[i] = Row(<<"round", i[2]>>, TRUE, 1, "TESTING", "rounds")
    BY DEF newTopos
  <1>14. DOMAIN newRCs = rcs /\ \A i \in rcs : newRCs[i] = Row(<<"topo", i[2], i[3]>>, FALSE, 1, "TESTING", "rounds")
    BY DEF newRCs
  <1>15. /\ DOMAIN relA = (DOMAIN relO) \cup topos /\ \A i \in DOMAIN relO : relA[i] = relO[i]
         /\ \A i \in topos : i \notin DOMAIN relO => relA[i] = newTopos[i]
    <2>1. DOMAIN newTopos = topos
      BY <1>13
    <2> QED  BY <2>1, Merge DEF relA
  <1>16. Whole(relA)
    <2>1. ASSUME NEW i \in topos, i \notin DOMAIN relO
          PROVE  IsRecord(relA, i) /\ IsPlaced(relA, i)
      <3>1. relA[i] = Row(<<"round", i[2]>>, TRUE, 1, "TESTING", "rounds") /\ i[1] # "import"
        BY <1>8, <1>13, <1>15, <2>1
      <3>2. IsRecord(relA, i) /\ relA[i].up = <<"round", i[2]>> /\ relA[i].visible
        BY <3>1 DEF Row, IsRecord
      <3>3. relA[i].up \in DOMAIN relA /\ relA[i].up[1] = "round" /\ Base(relA[i].up) = i[2]
        BY <1>6, <1>9, <1>15, <1>52, <3>2 DEF Base
      <3>4. IsTopo(relA, i)
        BY <1>6, <3>2, <3>3 DEF IsTopo, Under
      <3> QED  BY <3>2, <3>4 DEF IsPlaced
    <2>2. \A i \in DOMAIN newTopos : i \notin DOMAIN relO => IsRecord(relA, i) /\ IsPlaced(relA, i)
      BY <1>13, <2>1
    <2> QED  BY <1>53, <2>2, Added DEF relA
  <1>17. /\ DOMAIN rel1 = (DOMAIN relA) \cup rcs /\ \A i \in DOMAIN relA : rel1[i] = relA[i]
         /\ \A i \in rcs : i \notin DOMAIN relA => rel1[i] = newRCs[i]
    <2>1. DOMAIN newRCs = rcs
      BY <1>14
    <2> QED  BY <2>1, Merge DEF rel1
  <1>18. Whole(rel1)
    <2>1. ASSUME NEW i \in rcs, i \notin DOMAIN relA
          PROVE  IsRecord(rel1, i) /\ IsPlaced(rel1, i)
      <3>1. rel1[i] = Row(<<"topo", i[2], i[3]>>, FALSE, 1, "TESTING", "rounds")
        BY <1>14, <1>17, <2>1
      <3>2. i[1] # "import"
        BY <1>8
      <3>3. IsRecord(rel1, i) /\ rel1[i].up = <<"topo", i[2], i[3]>> /\ ~rel1[i].visible /\ rel1[i].seq = 1
        BY <3>1, <3>2 DEF Row, IsRecord
      <3>4. rel1[i].up \in DOMAIN rel1
        BY <1>7, <1>15, <1>17, <3>3
      <3>5. IsRC(rel1, i)
        BY <1>7, <3>3, <3>4 DEF IsRC
      <3> QED  BY <3>3, <3>5 DEF IsPlaced
    <2>2. \A i \in DOMAIN newRCs : i \notin DOMAIN relA => IsRecord(rel1, i) /\ IsPlaced(rel1, i)
      BY <1>14, <2>1
    <2> QED  BY <1>16, <2>2, Added DEF rel1
  <1>19. /\ \A i \in DOMAIN rel : i \in DOMAIN rel1 /\ rel1[i].up = rel[i].up /\ rel1[i].visible = rel[i].visible
         /\ \A i \in DOMAIN rel1 : i \in DOMAIN rel \/ i \in rounds \cup others \/ i \in topos \/ i \in rcs
         /\ rounds \cup others \cup topos \cup rcs \subseteq DOMAIN rel1
    BY <1>9, <1>11, <1>15, <1>17, <1>52
  \* the later candidates deleted, and what is left
  <1>20. ASSUME NEW i \in gone
         PROVE  /\ i \in DOMAIN rel1 /\ i[1] = "rc" /\ i[4] # 1
                /\ FirstRC(rel1[i].up) \in DOMAIN rel1 /\ FirstRC(rel1[i].up) \notin gone
                /\ FirstRC(rel1[i].up)[1] = "rc"
    <2>1. i \in DOMAIN rel1 /\ i[1] = "rc" /\ i[4] # 1 /\ FirstRC(rel1[i].up) \in DOMAIN rel1
      BY DEF gone, Superseded
    <2>2. FirstRC(rel1[i].up) # Nothing
      BY <1>18, <2>1, Ups
    <2>3. FirstRC(rel1[i].up) = <<"rc", rel1[i].up[2], rel1[i].up[3], 1>>
      BY <2>2 DEF FirstRC
    <2>4. FirstRC(rel1[i].up)[1] = "rc" /\ FirstRC(rel1[i].up)[4] = 1
      BY <2>3
    <2> QED  BY <2>1, <2>4 DEF gone, Superseded
  <1>21. /\ K \subseteq DOMAIN rel1 /\ rounds \subseteq K /\ topos \subseteq K /\ rcs \subseteq K /\ imports \subseteq K
         /\ \A i \in imports : i[1] = "import"
         /\ \A i \in K : i[1] = "import" => i \in imports
    BY <1>8, <1>19, <1>20 DEF K, imports
  <1>22. Whole(left) /\ DOMAIN left = K /\ \A i \in K : left[i] = rel1[i]
    <2>1. \A i \in K : rel1[i].up \in DOMAIN rel1 => rel1[i].up \in K
      BY <1>18, <1>20, <1>21, Ups DEF K
    <2> QED  BY <1>18, <1>21, <2>1, Pruned DEF left
  <1>23. /\ DOMAIN hidden = imports
         /\ \A i \in imports : hidden[i] = [rel1[i] EXCEPT !.visible = FALSE]
    BY DEF hidden
  <1>24. /\ DOMAIN rel2 = K
         /\ \A i \in K : i[1] # "import" => rel2[i] = rel1[i]
         /\ \A i \in imports : rel2[i] = [rel1[i] EXCEPT !.visible = FALSE]
    <2>1. rel2 = hidden ++ left
      BY DEF rel2
    <2>2. DOMAIN rel2 = imports \cup K
      BY <1>22, <1>23, <2>1 DEF ++
    <2>3. \A i \in imports : rel2[i] = hidden[i]
      BY <1>22, <1>23, <2>1 DEF ++
    <2>4. \A i \in K : i \notin imports => rel2[i] = left[i]
      BY <1>22, <1>23, <2>1 DEF ++
    <2> QED  BY <1>21, <1>22, <1>23, <2>2, <2>3, <2>4
  <1>25. ASSUME NEW i \in imports
         PROVE  /\ IsRecord(rel2, i) /\ ~rel2[i].visible
                /\ rel2[i].up = rel1[i].up /\ rel2[i].by = rel1[i].by /\ rel2[i].seq = rel1[i].seq
    <2>1. /\ rel1[i] = Row(rel1[i].up, rel1[i].visible, rel1[i].seq, rel1[i].status, rel1[i].by)
          /\ rel1[i].seq \in Nat /\ rel1[i].status \in {"PASSED", "BLOCKED", "TESTING"}
          /\ (rel1[i].by = "import" <=> i[1] = "import")
      BY <1>18, <1>21 DEF Whole, IsRecord
    <2>2. rel2[i] = Row(rel1[i].up, FALSE, rel1[i].seq, rel1[i].status, rel1[i].by)
      BY <1>24, <2>1 DEF Row
    <2>3. /\ rel2[i].up = rel1[i].up /\ ~rel2[i].visible /\ rel2[i].visible = FALSE
          /\ rel2[i].by = rel1[i].by /\ rel2[i].seq = rel1[i].seq /\ rel2[i].status = rel1[i].status
      BY <2>2 DEF Row
    <2> QED  BY <2>1, <2>2, <2>3 DEF IsRecord
  <1>26. \A i \in K : rel2[i].up = rel1[i].up
    BY <1>21, <1>24, <1>25
  <1>27. Whole(rel2)
    <2>1. ASSUME NEW i \in K  PROVE IsRecord(rel2, i) /\ IsPlaced(rel2, i)
      <3>1. IsRecord(left, i) /\ IsPlaced(left, i)
        BY <1>22 DEF Whole
      <3>2. Still(left, rel2, i) /\ IsRecord(rel2, i)
        <4>1. CASE i[1] = "import"
          BY <1>21, <1>22, <1>24, <1>25, <4>1 DEF Still
        <4>2. CASE i[1] # "import"
          BY <1>22, <1>24, <3>1, <4>2 DEF Still, IsRecord
        <4> QED  BY <4>1, <4>2
      <3> QED  BY <1>22, <1>24, <1>26, <3>1, <3>2, StillPlaced
    <2> QED  BY <1>24, <2>1 DEF Whole
  <1>28. /\ Whole(rel3) /\ Settled(rel2, rel3)
         /\ \A i \in rcs : "blocked" \in StatusesIn(run2, res, i) => rel3[i].status = "BLOCKED"
    <2>1. rcs \subseteq DOMAIN rel2
      BY <1>21, <1>24
    <2> QED  BY <1>27, <2>1, RecountFacts DEF rel3
  <1>29. /\ Whole(rel4) /\ Settled(rel3, rel4)
         /\ \A i \in topos, j \in DOMAIN rel3 :
              rel3[j].up = i /\ ~rel3[j].visible /\ rel3[j].status = "BLOCKED" => rel4[i].status = "BLOCKED"
         /\ \A i \in (DOMAIN rel3) \ topos : rel4[i] = rel3[i]
    <2> DEFINE V == {FALSE}
    <2>1. topos \subseteq DOMAIN rel3
      BY <1>21, <1>24, <1>28 DEF Settled
    <2>2. rel4 = Rollup(rel3, topos, V)
      BY DEF rel4
    <2>3. \A j \in DOMAIN rel3 : ~rel3[j].visible => rel3[j].visible \in V
      BY <1>28, Hiddens
    <2> HIDE DEF V
    <2> QED  BY <1>28, <2>1, <2>2, <2>3, RollupFacts
  <1>30. /\ Whole(rel5) /\ Settled(rel4, rel5)
         /\ \A i \in rounds, j \in DOMAIN rel4 :
              rel4[j].up = i /\ rel4[j].visible /\ rel4[j].status = "BLOCKED" => rel5[i].status = "BLOCKED"
         /\ \A i \in (DOMAIN rel4) \ rounds : rel5[i] = rel4[i]
    <2> DEFINE V == {TRUE}
    <2>1. rounds \subseteq DOMAIN rel4
      BY <1>21, <1>24, <1>28, <1>29 DEF Settled
    <2>2. rel5 = Rollup(rel4, rounds, V)
      BY DEF rel5
    <2>3. \A j \in DOMAIN rel4 : rel4[j].visible => rel4[j].visible \in V
      BY <1>29, Hiddens
    <2> HIDE DEF V
    <2> QED  BY <1>29, <2>1, <2>2, <2>3, RollupFacts
  <1>31. /\ DOMAIN rel3 = K /\ DOMAIN rel4 = K /\ DOMAIN rel5 = K
         /\ \A i \in K : /\ rel3[i].up = rel1[i].up /\ rel4[i].up = rel1[i].up /\ rel5[i].up = rel1[i].up
                         /\ rel3[i].visible = rel2[i].visible /\ rel4[i].visible = rel2[i].visible
                         /\ rel5[i].visible = rel2[i].visible
    BY <1>24, <1>26, <1>28, <1>29, <1>30 DEF Settled
  \* the runs
  <1>32. ASSUME NEW r \in Result
         PROVE  \E q \in Result : res[q].run = res[r].run /\ run1[res[r].run] = rc(q)
    <2> DEFINE q == CHOOSE w \in final : res[w].run = res[r].run
    <2>1. q \in final /\ final \subseteq Result /\ res[q].run = res[r].run
      BY LastOfRun
    <2>2. run1[res[r].run] = rc(q)
      BY <2>1 DEF run1, ++
    <2> QED  BY <2>1, <2>2
  <1>33. DOMAIN run1 = DOMAIN run /\ \A u \in DOMAIN run : run1[u] \in rcs \/ run1[u] = run[u]
    <2>1. final \subseteq Result
      BY DEF LastOfRuns
    <2>2. \A r \in Result : res[r].run \in DOMAIN run
      BY Standing
    <2>3. DOMAIN run1 = DOMAIN run
      BY <2>1, <2>2 DEF run1, ++
    <2>4. ASSUME NEW u \in DOMAIN run, u \notin {res[r].run : r \in final}
          PROVE  run1[u] = run[u]
      BY <2>4 DEF run1, ++
    <2>5. ASSUME NEW u \in DOMAIN run, u \in {res[r].run : r \in final}
          PROVE  run1[u] \in rcs
      BY <1>4, <1>32, <2>1, <2>5
    <2> QED  BY <2>3, <2>4, <2>5
  <1>34. /\ DOMAIN run2 = DOMAIN run
         /\ \A u \in DOMAIN run : run2[u] = IF run1[u] \in gone THEN FirstRC(rel1[run1[u]].up) ELSE run1[u]
    BY <1>33 DEF run2, ++
  <1>35. \A u \in DOMAIN run : run2[u] \in K /\ run2[u][1] \in {"import", "rc"}
    <2>1. \A u \in DOMAIN run : run1[u] \in DOMAIN rel1 /\ run1[u][1] \in {"import", "rc"}
      BY <1>2, <1>8, <1>19, <1>33 DEF Hung
    <2> QED  BY <1>20, <1>34, <2>1 DEF K
  <1>36. ASSUME NEW r \in Result
         PROVE  \E q \in Result : /\ res[q].run = res[r].run /\ run2[res[r].run] = rc(q)
                                  /\ s(q) = s(r) /\ RC(r)' = rc(q)
    <2>1. PICK q \in Result : res[q].run = res[r].run /\ run1[res[r].run] = rc(q)
      BY <1>32
    <2>2. rc(q) \notin gone
      BY <1>4, <1>8, <1>20
    <2>3. run2[res[r].run] = rc(q)
      BY <1>34, <2>1, <2>2, Standing
    <2>4. s(q) = s(r)
      BY <2>1 DEF s, RC
    <2> QED  BY <1>1, <2>1, <2>3, <2>4 DEF RC
  <1>37. ASSUME NEW q \in Result
         PROVE  rc(q) \in K /\ rel1[rc(q)].up = topo(q)
    <2>1. rc(q) \in rcs /\ rc(q) \in K /\ rc(q)[1] = "rc" /\ rc(q)[4] = 1
      BY <1>4, <1>8, <1>21
    <2>2. IsRC(rel1, rc(q))
      BY <1>18, <1>21, <2>1, Kinds
    <2>3. rel1[rc(q)].up = <<"topo", rc(q)[2], rc(q)[3]>>
      BY <2>1, <2>2 DEF IsRC
    <2>4. rc(q)[2] = <<s(q)>> /\ rc(q)[3] = ComboOf[q]
      <3>1. rc(q) = <<"rc", <<s(q)>>, ComboOf[q], 1>>
        BY <1>4
      <3> QED  BY <3>1
    <2> QED  BY <1>4, <2>1, <2>3, <2>4
  <1>38. Hung'
    <2>1. ASSUME NEW r \in Result
          PROVE  run2[res[r].run][1] = "rc"
      <3>1. PICK q \in Result : run2[res[r].run] = rc(q)
        BY <1>36
      <3>2. rc(q) \in rcs
        BY <1>4
      <3> QED  BY <1>8, <3>1, <3>2
    <2>2. ASSUME NEW x \in Report
          PROVE  NamedRound(report[x]) \in Named
      <3>1. CASE report[x] = <<"import", x>>
        <4>1. Base(report[x]) = <<x>>
          BY <3>1 DEF Base
        <4>2. IsBase(Base(report[x]))
          BY <4>1 DEF IsBase
        <4> QED  BY <4>2, RoundNamed
      <3>2. CASE report[x] \in DOMAIN rel /\ report[x][1] = "round"
        <4>1. IsBase(Base(report[x]))
          BY <1>2, <3>2, Bases
        <4> QED  BY <4>1, RoundNamed
      <3>3. CASE report[x] \in DOMAIN rel /\ report[x][1] = "row"
        <4>1. IsHandRow(rel, report[x])
          BY <1>2, <3>3, Kinds
        <4>2. IsBase(Base(report[x]))
          BY <3>3, <4>1 DEF IsBase, IsHandRow, Base
        <4> QED  BY <4>2, RoundNamed
      <3> QED  BY <1>2, <3>1, <3>2, <3>3 DEF Hung
    <2>3. ASSUME NEW x \in Report
          PROVE  \/ report'[x] = <<"import", x>>
                 \/ report'[x] \in DOMAIN rel5 /\ report'[x][1] \in {"row", "round"}
      <3>1. CASE NamedRound(report[x]) = None
        <4>1. report'[x] = report[x]
          BY <1>1, <3>1
        <4>2. ASSUME report[x] \in DOMAIN rel, report[x][1] \in {"row", "round"}
              PROVE  report[x] \in DOMAIN rel5
          BY <1>19, <1>20, <1>31, <4>2 DEF K
        <4> QED  BY <1>2, <4>1, <4>2 DEF Hung
      <3>2. CASE NamedRound(report[x]) # None
        <4> DEFINE i == <<"round", <<NamedRound(report[x])>>>>
        <4>1. report'[x] = i
          BY <1>1, <3>2
        <4>2. i \in rounds /\ i[1] = "round"
          BY <2>2, <3>2 DEF rounds, Named
        <4>3. i \in DOMAIN rel5
          BY <1>21, <1>31, <4>2
        <4> QED  BY <4>1, <4>2, <4>3
      <3> QED  BY <3>1, <3>2
    <2>4. \A u \in DOMAIN run2 : run2[u] \in DOMAIN rel5 /\ run2[u][1] \in {"import", "rc"}
      BY <1>31, <1>34, <1>35
    <2> QED  BY <1>1, <1>2, <1>34, <2>1, <2>3, <2>4 DEF Hung, RC
  <1>39. Taken'
    BY <1>1, <1>2, <1>34 DEF Taken
  <1>40. Sorted'
    <2> SUFFICES ASSUME Restructured'  PROVE Sorted'
      BY DEF Sorted
    <2>1. Restructured
      <3>1. PICK i \in K : i[1] \in {"topo", "session"} /\ i[2][1] \in Report
        BY <1>1, <1>31 DEF Restructured
      <3>2. i \notin rounds \cup others /\ i \notin rcs
        BY <1>8, <3>1
      <3>3. i \notin topos
        BY <1>6, <3>1, Names
      <3> QED  BY <1>19, <1>21, <3>1, <3>2, <3>3 DEF Restructured
    <2>2. ASSUME NEW r \in Result, ComboOf[r] # None
          PROVE  /\ RC(r)'[1] = "rc" /\ RC(r)'[3] \in {ComboOf[r], None}
                 /\ <<"topo", RC(r)'[2], ComboOf[r]>> \in DOMAIN rel5
                 /\ \A q \in Result : res[q].run = res[r].run => ComboOf[q] \in {ComboOf[r], None}
      <3>1. \A q \in Result : res[q].run = res[r].run => ComboOf[q] \in {ComboOf[r], None}
        BY <1>2, <2>1, <2>2 DEF Sorted
      <3>2. PICK q \in Result : res[q].run = res[r].run /\ RC(r)' = rc(q) /\ s(q) = s(r)
        BY <1>36
      <3>3. rc(q) = <<"rc", <<s(r)>>, ComboOf[q], 1>> /\ topo(r) = <<"topo", <<s(r)>>, ComboOf[r]>>
        BY <1>4, <3>2
      <3>4. rc(q)[1] = "rc" /\ rc(q)[2] = <<s(r)>> /\ rc(q)[3] = ComboOf[q]
        BY <3>3
      <3>5. topo(r) \in DOMAIN rel5
        BY <1>4, <1>21, <1>31
      <3> QED  BY <3>1, <3>2, <3>3, <3>4, <3>5
    <2> QED  BY <1>1, <2>2 DEF Sorted
  <1>41. OneRC'
    <2>1. ASSUME NEW q \in Result
          PROVE  Hidden(rel5, rel5[rc(q)].up) = {rc(q)}
      <3>1. rel5[rc(q)].up = topo(q) /\ rc(q) \in K /\ rc(q) \in DOMAIN rel5
        BY <1>31, <1>37
      <3>2. rc(q) \in Hidden(rel5, topo(q))
        BY <1>4, <1>8, <1>30, <3>1, Hiddens DEF Hidden, Children
      <3>3. ASSUME NEW j \in Hidden(rel5, topo(q))
            PROVE  j = rc(q)
        <4>1. j \in K /\ rel1[j].up = topo(q) /\ ~rel5[j].visible /\ j \in DOMAIN rel5 /\ j \in DOMAIN rel1
          BY <1>21, <1>31, <3>3 DEF Hidden, Children
        <4>2. topo(q)[1] = "topo" /\ topo(q)[2] = <<s(q)>> /\ topo(q)[3] = ComboOf[q] /\ topo(q) \in DOMAIN rel1
          <5>1. topo(q) = <<"topo", <<s(q)>>, ComboOf[q]>>
            BY <1>4
          <5>2. topo(q)[1] = "topo" /\ topo(q)[2] = <<s(q)>> /\ topo(q)[3] = ComboOf[q]
            BY <5>1
          <5>3. topo(q) \in DOMAIN rel1
            BY <1>4, <1>19
          <5> QED  BY <5>2, <5>3
        <4>3. j[1] # "import"
          <5>1. rel1[j].up # Nothing
            BY <1>18, <4>1, <4>2, Ups
          <5> QED  BY <1>18, <4>1, <4>2, <5>1, Kinds DEF Imported
        <4>4. j[1] = "rc"
          BY <1>30, <4>1, <4>3, Hiddens
        <4>5. IsRC(rel1, j)
          BY <1>18, <4>1, <4>4, Kinds
        <4>6. <<"topo", j[2], j[3]>> = topo(q)
          BY <4>1, <4>2, <4>5 DEF IsRC
        <4>7. j[2] = <<s(q)>> /\ j[3] = ComboOf[q]
          BY <4>2, <4>6
        <4>8. CASE j[4] = 1
          <5>1. j = <<"rc", <<s(q)>>, ComboOf[q], 1>>
            BY <4>5, <4>7, <4>8 DEF IsRC
          <5> QED  BY <1>4, <5>1
        <4>9. CASE j[4] # 1
          <5>1. FirstRC(rel1[j].up) = rc(q)
            BY <4>1 DEF rc
          <5>2. ~rel1[j].visible
            BY <4>5 DEF IsRC
          <5>3. rc(q) \in DOMAIN rel1
            BY <1>21, <3>1
          <5>4. j \in gone
            BY <4>1, <4>4, <4>9, <5>1, <5>2, <5>3 DEF gone, Superseded
          <5> QED  BY <4>1, <5>4 DEF K
        <4> QED  BY <4>8, <4>9
      <3> QED  BY <3>1, <3>2, <3>3
    <2> QED  BY <1>1, <1>36, <2>1 DEF OneRC
  <1>42. BlockedShown'
    <2>1. ASSUME NEW r \in Result, res[r].status = "blocked"
          PROVE  LET i == RC(r)'
                     t == rel5[i].up
                 IN /\ rel5[i].status = "BLOCKED" /\ rel5[t].status = "BLOCKED"
                    /\ rel5[t].up[1] = "round" /\ rel5[t].up # Unclassified => rel5[rel5[t].up].status = "BLOCKED"
      <3>1. PICK q \in Result : run2[res[r].run] = rc(q) /\ RC(r)' = rc(q)
        BY <1>36
      <3> DEFINE i == rc(q)
                 t == topo(q)
                 o == rel1[t].up
      <3>2. /\ i \in K /\ i \in rcs /\ i[1] = "rc" /\ rel1[i].up = t
            /\ t \in topos /\ t[1] = "topo" /\ t[2] = <<s(q)>> /\ t \in K /\ t \in DOMAIN rel1
        <4>1. t[2] = <<s(q)>>
          <5>1. t = <<"topo", <<s(q)>>, ComboOf[q]>>
            BY <1>4
          <5> QED  BY <5>1
        <4> QED  BY <1>4, <1>8, <1>21, <1>37, <4>1
      <3>3. "blocked" \in StatusesIn(run2, res, i)
        BY <2>1, <3>1 DEF StatusesIn
      <3> HIDE DEF i, t, o
      <3>4. rel3[i].status = "BLOCKED"
        BY <1>28, <3>2, <3>3
      <3>5. ~rel3[i].visible /\ rel4[t].visible
        <4>1. ~rel3[i].visible
          BY <1>28, <1>31, <3>2, Hiddens
        <4>2. IsTopo(rel4, t)
          BY <1>29, <1>31, <3>2, Kinds
        <4> QED  BY <4>1, <4>2 DEF IsTopo
      <3>6. rel4[t].status = "BLOCKED"
        BY <1>29, <1>31, <3>2, <3>4, <3>5
      <3>7. i \notin topos /\ i \notin rounds /\ t \notin rounds
        BY <1>8, <3>2
      <3>8. rel4[i] = rel3[i] /\ rel5[i] = rel4[i] /\ rel5[t] = rel4[t]
        BY <1>29, <1>30, <1>31, <3>2, <3>7
      <3>9. rel5[i].up = t /\ rel5[t].up = o
        BY <1>31, <3>2 DEF o
      <3>10. ASSUME o[1] = "round", o # Unclassified
             PROVE  rel5[o].status = "BLOCKED"
        <4>1. Under(rel1, t)
          BY <1>18, <3>2, Kinds DEF IsTopo
        <4>2. o \in DOMAIN rel1 /\ o[2] = <<s(q)>>
          BY <3>2, <3>10, <4>1 DEF o, Under, Base
        <4>3. o = <<"round", <<s(q)>>>>
          BY <1>18, <3>10, <4>2, Kinds DEF IsRound
        <4>5. s(q) \in Short
          BY <1>3, <3>10, <4>3 DEF Named, Unclassified
        <4>4. o \in rounds /\ rel4[t].up = o
          BY <1>31, <3>2, <4>3, <4>5 DEF rounds, o
        <4> QED  BY <1>30, <1>31, <3>2, <3>5, <3>6, <4>4
      <3> QED  BY <3>1, <3>4, <3>6, <3>8, <3>9, <3>10 DEF i
    <2> QED  BY <1>1, <2>1 DEF BlockedShown
  <1>43. Filed
    <2>1. ASSUME NEW r \in Result
          PROVE  /\ Campaign(RC(r))' = s(r)
                 /\ \E q \in Result : res[q].run = res[r].run /\ RC(r)'[3] = ComboOf[q]
      <3>1. PICK q \in Result : res[q].run = res[r].run /\ s(q) = s(r) /\ RC(r)' = rc(q)
        BY <1>36
      <3>2. RC(r)' = <<"rc", <<s(r)>>, ComboOf[q], 1>>
        BY <1>4, <3>1
      <3>3. RC(r)'[1] = "rc" /\ RC(r)'[2] = <<s(r)>> /\ RC(r)'[3] = ComboOf[q]
        BY <3>2
      <3>4. Base(RC(r))' = <<s(r)>>
        BY <3>3 DEF Base
      <3>5. Campaign(RC(r))' = s(r)
        BY <1>3, <3>4 DEF Campaign
      <3> QED  BY <3>1, <3>3, <3>5
    <2> QED  BY <1>1, <1>3, <2>1 DEF Filed
  <1> QED  BY <1>1, <1>30, <1>38, <1>39, <1>40, <1>41, <1>42, <1>43 DEF Inductive

-----------------------------------------------------------------------------
\* migrate_run_session_layer.py

\* What is shown under a round that gets sessions is a configuration or a row of it.
LEMMA UnderRound ==
  ASSUME Whole(rel), NEW i \in SessionRounds
  PROVE  /\ i \in DOMAIN rel /\ i[1] \in {"import", "round", "session"} /\ IsBase(Base(i))
         /\ i[1] = "import" => rel[i].up = Nothing
         /\ i[1] = "session" => i = <<"session", Base(i), 1>> /\ Base(i)[1] \in Report
         /\ \E t \in DOMAIN rel : t \in Shown(rel, i)
         /\ \A t \in Shown(rel, i) : /\ t \in DOMAIN rel /\ rel[t].visible /\ rel[t].up = i
                                     /\ t[1] \in {"row", "topo"} /\ t[2] = Base(i)
                                     /\ t[1] = "row" => Base(i)[1] \in Named
PROOF
  <1>1. i \in DOMAIN rel /\ rel[i].visible /\ ~(rel[i].up \in DOMAIN rel /\ rel[rel[i].up].visible)
    BY DEF SessionRounds, Topmost
  <1>2. Shown(rel, i) # {} /\ \A j \in DOMAIN rel : rel[j].up = i => j[1] # "session"
    BY DEF SessionRounds, Children
  <1>3. \A t \in Shown(rel, i) : t \in DOMAIN rel /\ rel[t].visible /\ rel[t].up = i
    BY DEF Shown, Children
  <1>4. i[1] \notin {"rc", "row", "stopo"}
    <2>1. i[1] # "rc"
      BY <1>1, Hiddens
    <2>2. i[1] # "row"
      <3>1. i[1] = "row" => rel[i].up \in DOMAIN rel /\ rel[i].up[1] \in {"round", "session"}
        BY <1>1, Kinds DEF IsHandRow
      <3> QED  BY <1>1, <3>1, Kinds DEF IsRound, IsSession
    <2>3. i[1] # "stopo"
      <3>1. i[1] = "stopo" => rel[i].up \in DOMAIN rel /\ rel[i].up = <<"session", i[2], i[3]>>
        BY <1>1, Kinds DEF IsSessionTopo
      <3>2. i[1] = "stopo" => rel[i].up[1] = "session"
        BY <3>1
      <3> QED  BY <1>1, <3>1, <3>2, Kinds DEF IsSession
    <2> QED  BY <2>1, <2>2, <2>3
  <1>5. ASSUME NEW t \in Shown(rel, i)
        PROVE  /\ t[1] \in {"row", "topo", "stopo"} /\ i[1] # "topo" /\ t[2] = Base(i)
               /\ t[1] = "row" => i[1] \in {"round", "session"} /\ Base(i)[1] \in Named
               /\ t[1] = "stopo" => i[1] = "session" /\ Base(i)[1] \in Named
    <2>1. t \in DOMAIN rel /\ rel[t].visible /\ rel[t].up = i /\ t[1] # "session" /\ t[1] # "rc"
      BY <1>2, <1>3, Hiddens
    <2>2. t[1] # "round" /\ t[1] # "import"
      BY <1>1, <2>1, Ups, Hiddens
    <2>3. CASE t[1] = "row"
      BY <1>1, <2>1, <2>3, Kinds DEF IsHandRow, Base
    <2>4. CASE t[1] = "topo"
      BY <1>1, <2>1, <2>4, Kinds DEF IsTopo, Under
    <2>5. CASE t[1] = "stopo"
      <3>1. i = <<"session", t[2], t[3]>> /\ t[2][1] \in Named
        BY <2>1, <2>5, Kinds DEF IsSessionTopo
      <3>2. i[1] = "session" /\ i[2] = t[2]
        BY <3>1
      <3> QED  BY <2>5, <3>1, <3>2 DEF Base
    <2> QED  BY <1>1, <2>1, <2>2, <2>3, <2>4, <2>5, Kinds
  <1>6. PICK t \in Shown(rel, i) : TRUE
    BY <1>2
  <1>7. i[1] \in {"import", "round", "session"}
    BY <1>1, <1>4, <1>5, <1>6, Kinds
  <1>8. IsBase(Base(i))
    BY <1>1, <1>7, Bases
  <1>9. i[1] = "import" => rel[i].up = Nothing
    BY <1>1, Hiddens
  <1>10. ASSUME i[1] = "session"
         PROVE  i = <<"session", Base(i), 1>> /\ Base(i)[1] \in Report
    <2>1. IsSession(rel, i)
      BY <1>1, <1>10, Kinds
    <2>2. rel[i].up[1] # "round"
      BY <1>1, <2>1, Kinds DEF IsSession, Under, IsRound
    <2>3. rel[i].up \in DOMAIN rel /\ rel[i].up[1] = "import" /\ Base(rel[i].up) = i[2]
      BY <2>1, <2>2 DEF IsSession, Under
    <2>4. Base(rel[i].up) = <<rel[i].up[2]>> /\ rel[i].up[2] \in Report
      BY <2>3, Kinds DEF Imported, Base
    <2>5. i[2][1] \in Report /\ Base(i) = i[2]
      BY <1>10, <2>3, <2>4 DEF Base
    <2> QED  BY <2>1, <2>5 DEF IsSession
  <1>11. \A w \in Shown(rel, i) : /\ w[1] \in {"row", "topo"} /\ w[2] = Base(i)
                                  /\ w[1] = "row" => Base(i)[1] \in Named
    BY <1>5, <1>10, Names
  <1> QED  BY <1>1, <1>3, <1>6, <1>7, <1>8, <1>9, <1>10, <1>11

\* The numbers below a configuration: an import that stands for a round has the first alone.
LEMMA NumbersBelow ==
  ASSUME Whole(rel), NEW i \in SessionRounds, NEW t \in Shown(rel, i)
  PROVE  /\ NumbersOf(t) \subseteq Nat \ {0}
         /\ Base(i)[1] \in Report => NumbersOf(t) \subseteq {1}
PROOF
  <1>1. ASSUME NEW j \in Hidden(rel, t)
        PROVE  rel[j].seq \in Nat \ {0} /\ (Base(i)[1] \in Report => rel[j].seq = 1)
    <2>1. j \in DOMAIN rel /\ rel[j].up = t /\ ~rel[j].visible
      BY DEF Hidden, Children
    <2>2. j[1] \in {"rc", "import"} /\ rel[j].seq \in Nat \ {0}
      BY <2>1, Hiddens
    <2>3. t[2] = Base(i) /\ t[1] \in {"row", "topo"} /\ t \in DOMAIN rel /\ (t[1] = "row" => Base(i)[1] \in Named)
      BY UnderRound
    <2>4. ASSUME Base(i)[1] \in Report
          PROVE  rel[j].seq = 1
      <3>1. t[1] = "topo"
        BY <2>3, <2>4, Names
      <3>2. j[1] # "import"
        <4>1. rel[j].up # Nothing
          BY <2>1, <2>3, Ups
        <4> QED  BY <2>1, <3>1, <4>1, Kinds DEF Imported
      <3>3. IsRC(rel, j)
        BY <2>1, <2>2, <3>2, Kinds
      <3>4. t = <<"topo", j[2], j[3]>> \/ t = <<"stopo", j[2], j[4], j[3]>>
        BY <2>1, <3>3 DEF IsRC
      <3>5. t[2] = j[2]
        BY <3>4
      <3> QED  BY <2>3, <2>4, <3>3, <3>5 DEF IsRC
    <2> QED  BY <2>2, <2>4
  <1> QED  BY <1>1 DEF NumbersOf

LEMMA SessionsKeeps ==
  ASSUME Inductive, RunSessionLayer
  PROVE  Inductive' /\ Filed
PROOF
  <1> DEFINE rounds == SessionRounds
             numbers(i) == LET all == UNION {NumbersOf(t) : t \in Shown(rel, i)} IN IF all = {} THEN {1} ELSE all
             first(i, t) == Min(IF NumbersOf(t) = {} THEN numbers(i) ELSE NumbersOf(t))
             topos    == UNION {Shown(rel, i) : i \in rounds}
             sessions == UNION {{<<"session", Base(i), n>> : n \in numbers(i)} : i \in rounds}
             copy(t, n) == <<"stopo", Base(rel[t].up), n, Label(t)>>
             later(t) == NumbersOf(t) \ {first(rel[t].up, t)}
             copies   == UNION {{<<t, n>> : n \in later(t)} : t \in topos}
             copied   == {copy(p[1], p[2]) : p \in copies}
             above(i) == CHOOSE j \in rounds : Base(j) = Base(i)
             laters == {j \in DOMAIN rel : ~rel[j].visible /\ rel[j].up \in topos /\ rel[j].seq \in later(rel[j].up)}
             movedTopos == [t \in topos |-> [rel[t] EXCEPT !.up = <<"session", Base(@), first(@, t)>>]]
             movedRCs   == [j \in laters |-> [rel[j] EXCEPT !.up = copy(@, rel[j].seq)]]
             newSessions == [i \in sessions |-> Row(above(i), TRUE, i[3], "TESTING", "session")]
             newCopies == [i \in copied |->
                             [rel[(CHOOSE p \in copies : copy(p[1], p[2]) = i)[1]] EXCEPT
                                !.up = <<"session", i[2], i[3]>>, !.by = "session"]]
             moved == movedTopos ++ movedRCs ++ rel
             relS  == moved ++ newSessions
             rel1  == relS ++ newCopies
  <1>1. rel' = rel1 /\ run' = run /\ res' = res /\ last' = "sessions" /\ report' = report
    BY DEF RunSessionLayer
  <1> HIDE DEF rounds, numbers, first, topos, sessions, copy, later, copies, copied, above, laters, movedTopos, movedRCs,
               newSessions, newCopies, moved, relS, rel1
  <1>2. Whole(rel) /\ Hung /\ Taken /\ Sorted
    BY DEF Inductive
  <1>3. ASSUME NEW i \in rounds
        PROVE  /\ numbers(i) \subseteq Nat \ {0} /\ numbers(i) # {}
               /\ Base(i)[1] \in Report => numbers(i) = {1}
               /\ \A t \in Shown(rel, i) : NumbersOf(t) \subseteq numbers(i)
    <2> DEFINE all == UNION {NumbersOf(t) : t \in Shown(rel, i)}
    <2>1. all \subseteq Nat \ {0} /\ (Base(i)[1] \in Report => all \subseteq {1})
      BY <1>2, NumbersBelow DEF rounds
    <2>2. \A t \in Shown(rel, i) : NumbersOf(t) \subseteq all
      OBVIOUS
    <2>3. numbers(i) = IF all = {} THEN {1} ELSE all
      BY DEF numbers
    <2> HIDE DEF all
    <2>4. numbers(i) \subseteq Nat \ {0} /\ numbers(i) # {}
      BY <2>1, <2>3
    <2>5. Base(i)[1] \in Report => numbers(i) = {1}
      BY <2>1, <2>3
    <2>6. all \subseteq numbers(i)
      BY <2>3
    <2> QED  BY <2>2, <2>4, <2>5, <2>6
  <1>4. ASSUME NEW t \in topos
        PROVE  /\ rel[t].up \in rounds /\ t \in Shown(rel, rel[t].up) /\ t \in DOMAIN rel /\ rel[t].visible
               /\ t[1] \in {"row", "topo"} /\ t[2] = Base(rel[t].up) /\ IsBase(t[2])
               /\ t[1] = "row" => t[2][1] \in Named
    <2>1. PICK i \in rounds : t \in Shown(rel, i)
      BY DEF topos
    <2>2. rel[t].up = i
      BY <2>1 DEF Shown, Children
    <2>3. i \in SessionRounds /\ Whole(rel)
      BY <1>2, <2>1 DEF rounds
    <2>4. /\ IsBase(Base(i)) /\ t \in DOMAIN rel /\ rel[t].visible
          /\ t[1] \in {"row", "topo"} /\ t[2] = Base(i) /\ (t[1] = "row" => Base(i)[1] \in Named)
      BY <2>1, <2>3, UnderRound
    <2> QED  BY <2>1, <2>2, <2>4
  <1>5. ASSUME NEW t \in topos
        PROVE  /\ first(rel[t].up, t) \in numbers(rel[t].up)
               /\ \A n \in later(t) : n \in numbers(rel[t].up) /\ n \in Nat /\ n > 1 /\ t[2][1] \in Named
    <2> DEFINE i == rel[t].up
               N == IF NumbersOf(t) = {} THEN numbers(i) ELSE NumbersOf(t)
    <2>1. N # {} /\ N \subseteq numbers(i) /\ N \subseteq Nat \ {0}
      BY <1>3, <1>4
    <2>2. first(i, t) = Min(N)
      BY DEF first
    <2>3. first(i, t) \in N /\ \A n \in N : first(i, t) <= n
      <3> HIDE DEF N
      <3> QED  BY <2>1, <2>2, LeastNumber
    <2>4. ASSUME NEW n \in later(t)
          PROVE  n \in N /\ n # first(i, t)
      BY <2>4 DEF later
    <2>5. ASSUME NEW n \in later(t)
          PROVE  n \in numbers(i) /\ n \in Nat /\ n > 1 /\ t[2][1] \in Named
      <3>1. n \in N /\ n # first(i, t)
        BY <2>4
      <3>2. n \in numbers(i) /\ n \in Nat \ {0} /\ first(i, t) \in Nat \ {0} /\ first(i, t) <= n
        BY <2>1, <2>3, <3>1
      <3>3. n > 1
        BY <3>1, <3>2
      <3>4. t[2][1] \notin Report
        BY <1>3, <1>4, <3>2, <3>3
      <3> QED  BY <1>4, <3>2, <3>3, <3>4, BaseFacts
    <2> QED  BY <2>1, <2>3, <2>5
  <1>6. ASSUME NEW i \in sessions
        PROVE  /\ i = <<"session", i[2], i[3]>> /\ i[1] = "session" /\ IsBase(i[2]) /\ i[3] \in Nat \ {0}
               /\ i[2][1] \in Report => i[3] = 1
               /\ above(i) \in rounds /\ Base(above(i)) = i[2]
    <2>1. PICK k \in rounds : i \in {<<"session", Base(k), n>> : n \in numbers(k)}
      BY DEF sessions
    <2>2. PICK n \in numbers(k) : i = <<"session", Base(k), n>>
      BY <2>1
    <2>3. i = <<"session", i[2], i[3]>> /\ i[1] = "session" /\ i[2] = Base(k) /\ i[3] = n
      BY <2>2
    <2>4. Base(i) = i[2]
      BY <2>3 DEF Base
    <2>5. above(i) \in rounds /\ Base(above(i)) = Base(i)
      BY <2>3, <2>4 DEF above
    <2>6. n \in Nat \ {0} /\ (Base(k)[1] \in Report => n = 1)
      BY <1>3
    <2> QED  BY <1>2, <2>3, <2>4, <2>5, <2>6, UnderRound DEF rounds
  <1>7. ASSUME NEW i \in rounds, NEW n \in numbers(i)
        PROVE  <<"session", Base(i), n>> \in sessions
    BY DEF sessions
  <1>8. ASSUME NEW t \in topos, NEW n \in later(t)
        PROVE  copy(t, n) \in copied
    <2>1. <<t, n>> \in copies
      BY DEF copies
    <2>2. copy(<<t, n>>[1], <<t, n>>[2]) \in copied
      BY <2>1 DEF copied
    <2> QED  BY <2>2
  <1>9. ASSUME NEW i \in copied
        PROVE  \E t \in topos : \E n \in later(t) :
                 /\ i = copy(t, n)
                 /\ newCopies[i] = [rel[t] EXCEPT !.up = <<"session", i[2], i[3]>>, !.by = "session"]
    <2> DEFINE p == CHOOSE w \in copies : copy(w[1], w[2]) = i
    <2>1. p \in copies /\ copy(p[1], p[2]) = i
      BY DEF copied
    <2>2. newCopies[i] = [rel[p[1]] EXCEPT !.up = <<"session", i[2], i[3]>>, !.by = "session"]
      BY DEF newCopies
    <2> HIDE DEF p
    <2>3. PICK t \in topos : p \in {<<t, n>> : n \in later(t)}
      BY <2>1 DEF copies
    <2>4. PICK n \in later(t) : p = <<t, n>>
      BY <2>3
    <2>5. p[1] = t /\ p[2] = n
      BY <2>4
    <2> QED  BY <2>1, <2>2, <2>4, <2>5
  <1>10. ASSUME NEW t \in topos, NEW n
         PROVE  /\ copy(t, n) = <<"stopo", t[2], n, Label(t)>> /\ copy(t, n)[1] = "stopo" /\ copy(t, n)[2] = t[2]
                /\ copy(t, n)[3] = n
    <2>1. copy(t, n) = <<"stopo", t[2], n, Label(t)>>
      BY <1>4 DEF copy
    <2> QED  BY <2>1
  \* the rows moved
  <1>11. /\ \A t \in topos : t[1] \in {"row", "topo"} /\ t \in DOMAIN rel /\ t \notin laters
         /\ \A j \in laters : j \in DOMAIN rel /\ ~rel[j].visible /\ rel[j].up \in topos /\ rel[j].seq \in later(rel[j].up)
    BY <1>4 DEF laters
  <1>12. /\ DOMAIN moved = DOMAIN rel
         /\ \A t \in topos : moved[t] = [rel[t] EXCEPT !.up = <<"session", Base(rel[t].up), first(rel[t].up, t)>>]
         /\ \A j \in laters : moved[j] = [rel[j] EXCEPT !.up = copy(rel[j].up, rel[j].seq)]
         /\ \A i \in DOMAIN rel : i \notin topos /\ i \notin laters => moved[i] = rel[i]
    <2>1. DOMAIN movedTopos = topos /\ DOMAIN movedRCs = laters
      BY DEF movedTopos, movedRCs
    <2>2. moved = (movedTopos ++ movedRCs) ++ rel
      BY DEF moved
    <2>3. \A t \in topos : movedTopos[t] = [rel[t] EXCEPT !.up = <<"session", Base(rel[t].up), first(rel[t].up, t)>>]
      BY DEF movedTopos
    <2>4. \A j \in laters : movedRCs[j] = [rel[j] EXCEPT !.up = copy(rel[j].up, rel[j].seq)]
      BY DEF movedRCs
    <2>5. /\ DOMAIN (movedTopos ++ movedRCs) = topos \cup laters
          /\ \A t \in topos : (movedTopos ++ movedRCs)[t] = movedTopos[t]
          /\ \A j \in laters : (movedTopos ++ movedRCs)[j] = movedRCs[j]
      BY <1>11, <2>1 DEF ++
    <2>6. /\ DOMAIN moved = DOMAIN rel
          /\ \A i \in topos \cup laters : moved[i] = (movedTopos ++ movedRCs)[i]
          /\ \A i \in DOMAIN rel : i \notin topos \cup laters => moved[i] = rel[i]
      <3> DEFINE both == movedTopos ++ movedRCs
      <3>1. moved = both ++ rel /\ DOMAIN both = topos \cup laters
        BY <2>2, <2>5
      <3> HIDE DEF both
      <3>2. DOMAIN moved = DOMAIN rel
        BY <1>11, <3>1 DEF ++
      <3>3. \A i \in topos \cup laters : moved[i] = both[i]
        BY <3>1 DEF ++
      <3>4. \A i \in DOMAIN rel : i \notin topos \cup laters => moved[i] = rel[i]
        BY <3>1 DEF ++
      <3> QED  BY <3>2, <3>3, <3>4 DEF both
    <2> QED  BY <2>3, <2>4, <2>5, <2>6
  <1>13. ASSUME NEW i \in DOMAIN rel
         PROVE  /\ IsRecord(moved, i)
                /\ moved[i].visible = rel[i].visible /\ moved[i].seq = rel[i].seq /\ moved[i].by = rel[i].by
                /\ i \in topos => moved[i].up = <<"session", i[2], first(rel[i].up, i)>>
                /\ i \in laters => moved[i].up = copy(rel[i].up, rel[i].seq)
    <2>1. IsRecord(rel, i)
      BY <1>2 DEF Whole
    <2>2. ASSUME NEW up, moved[i] = [rel[i] EXCEPT !.up = up]
          PROVE  /\ IsRecord(moved, i) /\ moved[i].up = up
                 /\ moved[i].visible = rel[i].visible /\ moved[i].seq = rel[i].seq /\ moved[i].by = rel[i].by
      <3>1. moved[i] = Row(up, rel[i].visible, rel[i].seq, rel[i].status, rel[i].by)
        BY <2>1, <2>2 DEF IsRecord, Row
      <3>2. /\ moved[i].up = up /\ moved[i].visible = rel[i].visible /\ moved[i].seq = rel[i].seq
            /\ moved[i].by = rel[i].by /\ moved[i].status = rel[i].status
        BY <3>1 DEF Row
      <3> QED  BY <2>1, <3>1, <3>2 DEF IsRecord
    <2>3. CASE i \in topos
      <3>1. moved[i] = [rel[i] EXCEPT !.up = <<"session", i[2], first(rel[i].up, i)>>]
        BY <1>4, <1>12, <2>3
      <3>2. i \notin laters
        BY <1>11, <2>3
      <3> QED  BY <2>2, <3>1, <3>2
    <2>4. CASE i \in laters
      <3>1. i \notin topos
        BY <1>11, <2>4
      <3> QED  BY <1>12, <2>2, <2>4, <3>1
    <2>5. CASE i \notin topos /\ i \notin laters
      BY <1>12, <2>1, <2>5 DEF IsRecord
    <2> QED  BY <2>3, <2>4, <2>5
  \* and those added
  <1>14. /\ DOMAIN rel1 = (DOMAIN rel) \cup sessions \cup copied
         /\ \A i \in DOMAIN rel : rel1[i] = moved[i]
         /\ \A i \in sessions : i \notin DOMAIN rel => rel1[i] = Row(above(i), TRUE, i[3], "TESTING", "session")
         /\ \A i \in copied : i \notin DOMAIN rel /\ i \notin sessions => rel1[i] = newCopies[i]
    <2>1. DOMAIN newSessions = sessions /\ DOMAIN newCopies = copied
      BY DEF newSessions, newCopies
    <2>2. \A i \in sessions : newSessions[i] = Row(above(i), TRUE, i[3], "TESTING", "session")
      BY DEF newSessions
    <2>3. /\ DOMAIN relS = (DOMAIN rel) \cup sessions
          /\ \A i \in DOMAIN rel : relS[i] = moved[i]
          /\ \A i \in sessions : i \notin DOMAIN rel => relS[i] = newSessions[i]
      BY <1>12, <2>1 DEF relS, ++
    <2>4. /\ DOMAIN rel1 = (DOMAIN relS) \cup copied
          /\ \A i \in DOMAIN relS : rel1[i] = relS[i]
          /\ \A i \in copied : i \notin DOMAIN relS => rel1[i] = newCopies[i]
      BY <2>1 DEF rel1, ++
    <2> QED  BY <2>2, <2>3, <2>4
  <1>15. \A i \in DOMAIN rel : (rel1[i].up)[1] = "import" => rel1[i].up = rel[i].up
    <2>1. ASSUME NEW i \in topos  PROVE moved[i].up[1] = "session"
      <3>1. moved[i].up = <<"session", i[2], first(rel[i].up, i)>>
        BY <1>11, <1>13
      <3> QED  BY <3>1
    <2>2. ASSUME NEW i \in laters  PROVE moved[i].up[1] = "stopo"
      BY <1>10, <1>11, <1>13
    <2> QED  BY <1>12, <1>14, <2>1, <2>2
  <1>16. ASSUME NEW i \in DOMAIN rel, i[1] = "import", rel[i].up = Nothing
         PROVE  rel1[i] = rel[i]
    <2>1. i \notin topos
      BY <1>11, <1>16
    <2>2. i \notin laters
      BY <1>2, <1>11, <1>16, Ups
    <2> QED  BY <1>12, <1>14, <2>1, <2>2
  <1>17. ASSUME NEW i \in DOMAIN rel
         PROVE  IsRecord(rel1, i) /\ IsPlaced(rel1, i)
    <2>1. /\ IsRecord(rel1, i) /\ i \in DOMAIN rel1
          /\ rel1[i].visible = rel[i].visible /\ rel1[i].seq = rel[i].seq /\ rel1[i].by = rel[i].by
          /\ i \in topos => rel1[i].up = <<"session", i[2], first(rel[i].up, i)>>
          /\ i \in laters => rel1[i].up = copy(rel[i].up, rel[i].seq)
      BY <1>13, <1>14 DEF IsRecord
    <2>2. CASE i \in topos
      <3> DEFINE k == <<"session", i[2], first(rel[i].up, i)>>
      <3>1. k \in sessions
        BY <1>4, <1>5, <1>7, <2>2
      <3>2. k[1] = "session" /\ k[2] = i[2] /\ Base(k) = i[2] /\ k \in DOMAIN rel1 /\ rel1[i].up = k
        BY <1>14, <2>1, <2>2, <3>1 DEF Base
      <3> HIDE DEF k
      <3>3. CASE i[1] = "row"
        BY <1>2, <2>1, <3>2, <3>3, Kinds DEF IsPlaced, IsHandRow
      <3>4. CASE i[1] = "topo"
        BY <1>2, <2>1, <3>2, <3>4, Kinds DEF IsPlaced, IsTopo, Under
      <3> QED  BY <1>11, <2>2, <3>3, <3>4
    <2>3. CASE i \in laters
      <3> DEFINE t == rel[i].up
                 k == copy(t, rel[i].seq)
      <3>1. /\ t \in topos /\ t[1] \in {"row", "topo"} /\ ~rel[i].visible /\ rel[i].seq \in later(t)
            /\ i[1] \in {"rc", "import"}
        BY <1>2, <1>11, <2>3, Hiddens
      <3>2. k \in DOMAIN rel1 /\ rel1[i].up = k /\ rel[i].seq > 1
        BY <1>5, <1>8, <1>14, <2>1, <2>3, <3>1
      <3>3. k = <<"stopo", t[2], rel[i].seq, Label(t)>> /\ k[1] = "stopo" /\ k[2] = t[2]
        BY <1>10, <3>1
      <3>4. t \in DOMAIN rel /\ t # Nothing
        BY <1>2, <1>11, <3>1, Ups
      <3> HIDE DEF t, k
      <3>5. CASE i[1] = "rc"
        <4>1. IsRC(rel, i)
          BY <1>2, <3>5, Kinds
        <4>2. t = <<"topo", i[2], i[3]>> /\ rel[i].seq = i[4]
          BY <3>1, <4>1 DEF IsRC, t
        <4>3. t[2] = i[2] /\ Label(t) = i[3]
          BY <4>2 DEF Label
        <4>4. k = <<"stopo", i[2], i[4], i[3]>> /\ i[4] # 1
          BY <3>2, <3>3, <4>1, <4>2, <4>3 DEF IsRC
        <4> QED  BY <2>1, <3>2, <4>1, <4>4 DEF IsPlaced, IsRC
      <3>6. CASE i[1] = "import"
        <4>1. Imported(rel, i)
          BY <1>2, <3>6, Kinds
        <4> QED  BY <2>1, <3>1, <3>2, <3>3, <3>4, <4>1 DEF IsPlaced, Imported, t
      <3> QED  BY <3>1, <3>5, <3>6
    <2>4. CASE i \notin topos /\ i \notin laters
      <3>1. rel1[i] = rel[i] /\ IsPlaced(rel, i)
        BY <1>2, <1>12, <1>14, <2>4 DEF Whole
      <3>2. Still(rel, rel1, i)
        BY <2>1, <3>1 DEF Still
      <3>3. rel[i].up[1] = "import" => rel1[rel[i].up].up = rel[rel[i].up].up
        BY <1>2, <1>16, Ups
      <3>4. rel[i].up \in DOMAIN rel =>
              /\ rel[i].up \in DOMAIN rel1
              /\ rel[i].up[1] = "import" => rel1[rel[i].up].up = rel[rel[i].up].up
        BY <1>14, <3>3
      <3>5. IsPlaced(rel1, i)
        BY <3>1, <3>2, <3>4, StillPlaced
      <3> QED  BY <2>1, <3>5
    <2> QED  BY <2>1, <2>2, <2>3, <2>4
  <1>18. ASSUME NEW i \in sessions, i \notin DOMAIN rel
         PROVE  IsRecord(rel1, i) /\ IsPlaced(rel1, i)
    <2> DEFINE a == above(i)
    <2>1. rel1[i] = Row(a, TRUE, i[3], "TESTING", "session")
      BY <1>14, <1>18
    <2>2. /\ i = <<"session", i[2], i[3]>> /\ i[1] = "session" /\ IsBase(i[2]) /\ i[3] \in Nat \ {0}
          /\ i[2][1] \in Report => i[3] = 1
          /\ a \in rounds /\ Base(a) = i[2]
      BY <1>6
    <2>3. IsRecord(rel1, i) /\ rel1[i].up = a /\ rel1[i].visible
      BY <2>1, <2>2 DEF Row, IsRecord
    <2> HIDE DEF a
    <2>4. /\ a \in DOMAIN rel /\ a[1] \in {"import", "round", "session"}
          /\ a[1] = "import" => rel[a].up = Nothing
          /\ a[1] = "session" => a = <<"session", Base(a), 1>> /\ Base(a)[1] \in Report
      BY <1>2, <2>2, UnderRound DEF rounds
    <2>5. a[1] # "session"
      <3>1. a[1] = "session" => a = i
        BY <2>2, <2>4
      <3> QED  BY <1>18, <2>4, <3>1
    <2>6. a \in DOMAIN rel1 /\ (a[1] = "import" => rel1[a].up = Nothing)
      BY <1>14, <1>16, <2>4
    <2>7. IsSession(rel1, i)
      BY <2>2, <2>3, <2>4, <2>5, <2>6 DEF IsSession, Under
    <2> QED  BY <2>3, <2>7 DEF IsPlaced
  <1>19. ASSUME NEW i \in copied, i \notin DOMAIN rel
         PROVE  IsRecord(rel1, i) /\ IsPlaced(rel1, i)
    <2>1. PICK t \in topos : \E n \in later(t) :
            /\ i = copy(t, n)
            /\ newCopies[i] = [rel[t] EXCEPT !.up = <<"session", i[2], i[3]>>, !.by = "session"]
      BY <1>9
    <2>2. PICK n \in later(t) :
            /\ i = copy(t, n)
            /\ newCopies[i] = [rel[t] EXCEPT !.up = <<"session", i[2], i[3]>>, !.by = "session"]
      BY <2>1
    <2>3. i = <<"stopo", t[2], n, Label(t)>> /\ i[1] = "stopo" /\ i[2] = t[2] /\ i[3] = n
      BY <1>10, <2>2
    <2>4. i = <<"stopo", i[2], i[3], i[4]>>
      BY <2>3
    <2>5. i \notin sessions
      BY <1>6, <2>3
    <2>6. IsRecord(rel, t) /\ rel[t].visible
      BY <1>2, <1>4 DEF Whole
    <2>7. rel1[i] = [rel[t] EXCEPT !.up = <<"session", i[2], i[3]>>, !.by = "session"]
      BY <1>14, <1>19, <2>2, <2>5
    <2>8. rel1[i] = Row(<<"session", i[2], i[3]>>, TRUE, rel[t].seq, rel[t].status, "session")
      BY <2>6, <2>7 DEF IsRecord, Row
    <2>9. IsRecord(rel1, i) /\ rel1[i].up = <<"session", i[2], i[3]>> /\ rel1[i].visible
      BY <2>3, <2>6, <2>8 DEF IsRecord, Row
    <2>10. /\ n \in numbers(rel[t].up) /\ t[2][1] \in Named
      BY <1>5
    <2>11. <<"session", i[2], i[3]>> \in DOMAIN rel1
      BY <1>4, <1>7, <1>14, <2>3, <2>10
    <2>12. IsSessionTopo(rel1, i)
      BY <1>4, <2>3, <2>4, <2>9, <2>10, <2>11 DEF IsSessionTopo
    <2> QED  BY <2>9, <2>12 DEF IsPlaced
  <1>20. Whole(rel1)
    BY <1>14, <1>17, <1>18, <1>19 DEF Whole
  <1>21. Hung'
    <2>1. ASSUME NEW r \in Result, RC(r)[1] = "import", rel1[RC(r)].up = Nothing
          PROVE  rel1[RC(r)].visible
      <3>1. RC(r) \in DOMAIN rel
        BY Standing
      <3>2. RC(r) \notin topos
        BY <1>11, <2>1
      <3>3. RC(r) \notin laters
        <4>1. RC(r) \in laters => rel1[RC(r)].up[1] = "stopo"
          BY <1>10, <1>11, <1>13, <1>14
        <4> QED  BY <2>1, <4>1 DEF Nothing
      <3>4. rel1[RC(r)] = rel[RC(r)]
        BY <1>12, <1>14, <3>1, <3>2, <3>3
      <3> QED  BY <1>2, <2>1, <3>4 DEF Hung
    <2>2. DOMAIN rel \subseteq DOMAIN rel1
      BY <1>14
    <2> QED  BY <1>1, <1>2, <2>1, <2>2 DEF Hung, RC
  <1>22. Taken'
    BY <1>1, <1>2 DEF Taken
  <1>23. Sorted'
    <2> SUFFICES ASSUME Restructured'  PROVE Sorted'
      BY DEF Sorted
    <2>1. Restructured
      <3>1. PICK i \in DOMAIN rel1 : i[1] \in {"topo", "session"} /\ i[2][1] \in Report
        BY <1>1 DEF Restructured
      <3>2. i \notin copied
        <4> SUFFICES ASSUME i \in copied  PROVE FALSE
          OBVIOUS
        <4>1. PICK t \in topos : \E n \in later(t) : i = copy(t, n)
          BY <1>9
        <4> QED  BY <1>10, <3>1, <4>1
      <3>3. CASE i \in sessions
        <4>1. above(i) \in SessionRounds /\ Base(above(i)) = i[2]
          BY <1>6, <3>3 DEF rounds
        <4>2. PICK t \in Shown(rel, above(i)) : t \in DOMAIN rel
          BY <1>2, <4>1, UnderRound
        <4>3. t[1] \in {"row", "topo"} /\ t[2] = i[2] /\ (t[1] = "row" => i[2][1] \in Named)
          BY <1>2, <4>1, <4>2, UnderRound
        <4> QED  BY <3>1, <4>2, <4>3, Names DEF Restructured
      <3> QED  BY <1>14, <3>1, <3>2, <3>3 DEF Restructured
    <2>2. DOMAIN rel \subseteq DOMAIN rel1
      BY <1>14
    <2> QED  BY <1>1, <1>2, <2>1, <2>2 DEF Sorted, RC
  <1>24. BlockedShown' /\ OneRC'
    BY <1>1 DEF BlockedShown, OneRC
  <1>25. Filed
    BY <1>1 DEF Filed, RC, Campaign, Base
  <1> QED  BY <1>1, <1>20, <1>21, <1>22, <1>23, <1>24, <1>25 DEF Inductive

-----------------------------------------------------------------------------
\* The judgements, and the database the import leaves

LEMMA JudgeKeeps ==
  ASSUME Inductive, NEW r \in Result, NEW v \in {"passed", "blocked"}, Judge(r, v)
  PROVE  Inductive' /\ Filed
PROOF
  <1>1. /\ rel' = rel /\ run' = run /\ report' = report /\ last' = "judge"
        /\ res' = [res EXCEPT ![r].status = v]
    BY DEF Judge
  <1>2. Whole(rel) /\ Hung /\ Taken /\ Sorted
    BY DEF Inductive
  <1>3. /\ res = [q \in Result |-> [run |-> res[q].run, status |-> res[q].status]]
        /\ \A q \in Result : res[q].status \in {"PASSED", "testing", "passed", "blocked"}
    BY <1>2 DEF Hung
  <1>4. ASSUME NEW q \in Result
        PROVE  /\ res'[q] = [run |-> res[q].run, status |-> IF q = r THEN v ELSE res[q].status]
               /\ res'[q].run = res[q].run /\ res'[q].status \in {"PASSED", "testing", "passed", "blocked"}
    BY <1>1, <1>3
  <1>5. res' = [q \in Result |-> [run |-> res'[q].run, status |-> res'[q].status]]
    BY <1>1, <1>3, <1>4
  <1>6. Hung'
    <2>1. \A q \in Result : /\ RC(q)' = RC(q) /\ res'[q].run \in DOMAIN run
                            /\ RC(q)[1] = "import" /\ rel[RC(q)].up = Nothing => rel[RC(q)].visible
      BY <1>1, <1>2, <1>4 DEF Hung, RC
    <2>2. /\ \A u \in DOMAIN run : run[u] \in DOMAIN rel /\ run[u][1] \in {"import", "rc"}
          /\ \A x \in Report : \/ report[x] = <<"import", x>>
                               \/ report[x] \in DOMAIN rel /\ report[x][1] \in {"row", "round"}
      BY <1>2 DEF Hung
    <2>3. \A q \in Result : RC(q)'[1] = "import" /\ rel[RC(q)'].up = Nothing => rel[RC(q)'].visible
      BY <2>1
    <2> QED  BY <1>1, <1>4, <1>5, <2>1, <2>2, <2>3 DEF Hung
  <1>7. Taken'
    BY <1>1, <1>2, <1>4 DEF Taken
  <1>8. Sorted'
    BY <1>1, <1>2, <1>4 DEF Sorted, Restructured, RC
  <1>9. Filed
    BY <1>1, <1>4 DEF Filed, RC, Campaign, Base
  <1>10. OneRC' /\ BlockedShown'
    BY <1>1 DEF OneRC, BlockedShown
  <1> QED  BY <1>1, <1>2, <1>6, <1>7, <1>8, <1>9, <1>10 DEF Inductive

LEMMA InitHolds ==
  ASSUME Init
  PROVE  Inductive
PROOF
  <1>1. /\ DOMAIN run = {RunId(u) : u \in FirstRun}
        /\ run = [u \in {RunId(u) : u \in FirstRun} |-> <<"import", ReportOf[u[2]]>>]
        /\ res = [r \in Result |-> [run |-> RunId(RunOf[r]),
                                     status |-> IF RunOf[r] \in Served THEN "testing" ELSE "PASSED"]]
        /\ last = "import"
    BY DEF Init
  <1>2. ASSUME NEW r \in Result
        PROVE  /\ res[r] = [run |-> res[r].run, status |-> res[r].status]
               /\ res[r].run \in DOMAIN run /\ res[r].status \in {"PASSED", "testing"}
    BY <1>1, TreeAssumption
  <1>3. res = [r \in Result |-> [run |-> res[r].run, status |-> res[r].status]]
    BY <1>1, <1>2
  <1>4. ASSUME NEW u \in DOMAIN run
        PROVE  u[1] \in {"import", "service"} /\ \E x \in Report : run[u] = <<"import", x>>
    <2>1. PICK w \in FirstRun : u = RunId(w)
      BY <1>1
    <2>2. u[1] \in {"import", "service"} /\ u[2] = w
      BY <2>1 DEF RunId
    <2>3. run[u] = <<"import", ReportOf[w]>>
      BY <1>1, <2>2
    <2> QED  BY <2>2, <2>3, TreeAssumption
  <1>5. /\ Whole(rel)
        /\ \A x \in Report : <<"import", x>> \in DOMAIN rel
        /\ \A i \in DOMAIN rel : i[1] \in {"import", "row", "round"}
        /\ \A i \in DOMAIN rel : i[1] = "import" /\ rel[i].up = Nothing => rel[i].visible
        /\ \A x \in Report : \/ report[x] = <<"import", x>>
                             \/ report[x] \in DOMAIN rel /\ report[x][1] \in {"row", "round"}
    <2> DEFINE imports == {<<"import", x>> : x \in Report}
               told == {<<"import", x>> : x \in Told}
    <2>0. /\ \A i \in imports : i = <<"import", i[2]>> /\ i[1] = "import" /\ i[2] \in Report
          /\ \A x \in Report : <<"import", x>> \in imports
      OBVIOUS
    <2>1. CASE /\ rel = [i \in imports |-> ImportRow(i[2], Nothing, TRUE)]
               /\ report = [x \in Report |-> <<"import", x>>]
      <3>1. DOMAIN rel = imports /\ \A i \in imports : rel[i] = Row(Nothing, TRUE, Number[i[2]], "PASSED", "import")
        BY <2>1 DEF ImportRow
      <3> HIDE DEF imports
      <3>2. ASSUME NEW i \in imports
            PROVE  IsRecord(rel, i) /\ Imported(rel, i) /\ rel[i].visible
        <4>1. Number[i[2]] \in Nat \ {0} /\ i[1] = "import"
          BY <2>0, TreeAssumption
        <4>2. rel[i] = Row(Nothing, TRUE, Number[i[2]], "PASSED", "import")
          BY <3>1
        <4>3. /\ rel[i].up = Nothing /\ rel[i].visible = TRUE /\ rel[i].seq = Number[i[2]]
              /\ rel[i].status = "PASSED" /\ rel[i].by = "import"
          BY <4>2 DEF Row
        <4>4. IsRecord(rel, i)
          BY <4>1, <4>2, <4>3 DEF IsRecord
        <4> QED  BY <2>0, <4>1, <4>3, <4>4 DEF Imported
      <3> QED  BY <2>0, <2>1, <3>1, <3>2 DEF Whole, IsPlaced
    <2>2. ASSUME NEW d \in HandMade,
                 rel = [i \in told |-> ImportRow(i[2], <<"row", <<RoundOf[i[2]]>>, d>>, FALSE)]
                       ++ [i \in imports |-> ImportRow(i[2], Nothing, TRUE)]
                       ++ [i \in {<<"row", <<RoundOf[x]>>, d>> : x \in Told} |-> Row(<<"round", i[2]>>, TRUE, 1, "TESTING", "hand")]
                       ++ [i \in {<<"round", <<RoundOf[x]>>>> : x \in Told} |-> Row(Multi, TRUE, 1, "TESTING", "hand")],
                 \/ report = [x \in Report |-> <<"import", x>>]
                 \/ report = [x \in Report |-> IF x \in Told THEN <<"row", <<RoundOf[x]>>, d>> ELSE <<"import", x>>]
          PROVE  /\ Whole(rel)
                 /\ \A x \in Report : <<"import", x>> \in DOMAIN rel
                 /\ \A i \in DOMAIN rel : i[1] \in {"import", "row", "round"}
                 /\ \A i \in DOMAIN rel : i[1] = "import" /\ rel[i].up = Nothing => rel[i].visible
                 /\ \A x \in Report : \/ report[x] = <<"import", x>>
                                      \/ report[x] \in DOMAIN rel /\ report[x][1] \in {"row", "round"}
      <3> DEFINE rows   == {<<"row", <<RoundOf[x]>>, d>> : x \in Told}
                 rounds == {<<"round", <<RoundOf[x]>>>> : x \in Told}
                 P == [i \in told |-> ImportRow(i[2], <<"row", <<RoundOf[i[2]]>>, d>>, FALSE)]
                 Q == [i \in imports |-> ImportRow(i[2], Nothing, TRUE)]
                 A == P ++ Q
                 B == [i \in rows |-> Row(<<"round", i[2]>>, TRUE, 1, "TESTING", "hand")]
                 C == [i \in rounds |-> Row(Multi, TRUE, 1, "TESTING", "hand")]
                 AB == A ++ B
      <3>1. /\ \A i \in rows : /\ i = <<"row", i[2], i[3]>> /\ i[1] = "row" /\ i[2][1] \in Named /\ i[2] = <<i[2][1]>>
                               /\ <<"round", i[2]>> \in rounds
            /\ \A x \in Told : <<"row", <<RoundOf[x]>>, d>> \in rows
        BY Names DEF Told
      <3>2. \A i \in rounds : i = <<"round", i[2]>> /\ i[1] = "round" /\ i[2][1] \in Named /\ i[2] = <<i[2][1]>>
        BY Names DEF Told
      <3>0. told \subseteq imports /\ \A i \in imports : i \in told <=> i[2] \in Told
        BY <2>0 DEF Told
      <3>3. /\ DOMAIN A = imports /\ DOMAIN B = rows /\ DOMAIN C = rounds /\ rel = AB ++ C
        <4>1. DOMAIN P = told /\ DOMAIN Q = imports
          OBVIOUS
        <4>2. DOMAIN A = told \cup imports
          BY <4>1, Merge
        <4> QED  BY <2>2, <3>0, <4>2
      <3>4. /\ \A i \in told : A[i] = Row(<<"row", <<RoundOf[i[2]]>>, d>>, FALSE, Number[i[2]], "PASSED", "import")
            /\ \A i \in imports \ told : A[i] = Row(Nothing, TRUE, Number[i[2]], "PASSED", "import")
        BY DEF ImportRow, ++
      <3>13. /\ \A i \in rows : B[i] = Row(<<"round", i[2]>>, TRUE, 1, "TESTING", "hand")
            /\ \A i \in rounds : C[i] = Row(Multi, TRUE, 1, "TESTING", "hand")
        OBVIOUS
      <3> HIDE DEF imports, told, rows, rounds, P, Q, A, B, C
      <3>5. /\ DOMAIN AB = imports \cup rows
            /\ \A i \in imports : AB[i] = A[i]
            /\ \A i \in rows : i \notin imports => AB[i] = B[i]
        BY <3>3 DEF ++
      <3> HIDE DEF AB
      <3>6. /\ DOMAIN rel = (imports \cup rows) \cup rounds
            /\ \A i \in imports \cup rows : rel[i] = AB[i]
            /\ \A i \in rounds : i \notin imports \cup rows => rel[i] = C[i]
        BY <3>3, <3>5 DEF ++
      <3>7. ASSUME NEW i \in imports
            PROVE  IsRecord(rel, i) /\ Imported(rel, i) /\ (rel[i].up = Nothing => rel[i].visible)
        <4> DEFINE up == <<"row", <<RoundOf[i[2]]>>, d>>
        <4>1. Number[i[2]] \in Nat \ {0}
          BY <2>0, TreeAssumption
        <4>2. CASE i \in told
          <5>1. up[1] = "row" /\ up[2] = <<RoundOf[i[2]]>> /\ up # Nothing
            BY DEF Nothing
          <5>2. rel[i] = Row(up, FALSE, Number[i[2]], "PASSED", "import")
            BY <3>4, <3>5, <3>6, <4>2
          <5>3. up \in DOMAIN rel
            BY <3>0, <3>1, <3>6, <4>2
          <5> HIDE DEF up
          <5>4. IsRecord(rel, i) /\ rel[i].up = up /\ ~rel[i].visible /\ rel[i].seq # 0
            BY <2>0, <4>1, <5>2 DEF IsRecord, Row
          <5> QED  BY <2>0, <5>1, <5>3, <5>4 DEF Imported
        <4>3. CASE i \notin told
          <5>1. rel[i] = Row(Nothing, TRUE, Number[i[2]], "PASSED", "import")
            BY <3>4, <3>5, <3>6, <4>3
          <5>2. IsRecord(rel, i) /\ rel[i].up = Nothing /\ rel[i].visible /\ rel[i].seq # 0
            BY <2>0, <4>1, <5>1 DEF IsRecord, Row
          <5> QED  BY <2>0, <5>2 DEF Imported
        <4> QED  BY <4>2, <4>3
      <3>8. ASSUME NEW i \in rows
            PROVE  IsRecord(rel, i) /\ IsHandRow(rel, i)
        <4> DEFINE up == <<"round", i[2]>>
        <4>1. up \in DOMAIN rel /\ up[1] = "round" /\ up[2] = i[2] /\ i \notin imports /\ i[1] = "row"
          BY <2>0, <3>1, <3>6
        <4>2. rel[i] = Row(up, TRUE, 1, "TESTING", "hand")
          BY <3>5, <3>6, <3>13, <4>1
        <4> HIDE DEF up
        <4>3. IsRecord(rel, i) /\ rel[i].up = up /\ rel[i].visible
          BY <4>1, <4>2 DEF IsRecord, Row
        <4> QED  BY <3>1, <4>1, <4>3 DEF IsHandRow
      <3>9. ASSUME NEW i \in rounds
            PROVE  IsRecord(rel, i) /\ IsRound(rel, i)
        <4>1. i \notin imports /\ i \notin rows
          BY <2>0, <3>1, <3>2
        <4>2. rel[i] = Row(Multi, TRUE, 1, "TESTING", "hand")
          BY <3>6, <3>13, <4>1
        <4>3. IsRecord(rel, i) /\ rel[i].up = Multi /\ rel[i].visible
          BY <3>2, <4>2 DEF IsRecord, Row
        <4> QED  BY <3>2, <4>3 DEF IsRound, IsBase
      <3>10. Whole(rel)
        BY <3>6, <3>7, <3>8, <3>9 DEF Whole, IsPlaced
      <3>11. \A i \in DOMAIN rel : i[1] \in {"import", "row", "round"} /\ (i[1] = "import" /\ rel[i].up = Nothing => rel[i].visible)
        BY <2>0, <3>1, <3>2, <3>6, <3>7
      <3>12. \A x \in Report : \/ report[x] = <<"import", x>>
                               \/ report[x] \in DOMAIN rel /\ report[x][1] \in {"row", "round"}
        <4>1. CASE report = [x \in Report |-> <<"import", x>>]
          BY <4>1
        <4>2. CASE report = [x \in Report |-> IF x \in Told THEN <<"row", <<RoundOf[x]>>, d>> ELSE <<"import", x>>]
          BY <3>1, <3>6, <4>2
        <4> QED  BY <2>2, <4>1, <4>2
      <3> QED  BY <2>0, <3>6, <3>10, <3>11, <3>12
    <2> QED  BY <2>1, <2>2 DEF Init
  <1>6. Hung
    BY <1>2, <1>3, <1>4, <1>5 DEF Hung, RC
  <1>7. Taken
    BY <1>4 DEF Taken
  <1>8. ~Restructured
    BY <1>5 DEF Restructured
  <1>9. OneRC /\ BlockedShown
    BY <1>1 DEF OneRC, BlockedShown
  <1> QED  BY <1>1, <1>5, <1>6, <1>7, <1>8, <1>9 DEF Inductive, Sorted

-----------------------------------------------------------------------------
\* Every step keeps the tree, and files each result where it belongs.
LEMMA StepKeeps ==
  ASSUME Inductive, [Next]_vars
  PROVE  Inductive' /\ (Filed \/ UNCHANGED vars)
PROOF
  <1>1. CASE TopologyRestructure
    BY <1>1, TopologyKeeps DEF TopologyRestructure
  <1>2. CASE RunSessionLayer
    BY <1>2, SessionsKeeps
  <1>3. CASE DeviceCentricRounds
    BY <1>3, DevicesKeeps
  <1>4. CASE ExcelRoundsNormalize
    BY <1>4, NormalizeKeeps DEF ExcelRoundsNormalize
  <1>5. CASE \E r \in Result, v \in {"passed", "blocked"} : Judge(r, v)
    BY <1>5, JudgeKeeps
  <1>6. CASE UNCHANGED vars
    <2>1. rel' = rel /\ run' = run /\ res' = res /\ report' = report /\ last' = last
      BY <1>6 DEF vars
    <2>2. \A r \in Result : RC(r)' = RC(r)
      BY <2>1 DEF RC
    <2>3. Hung' /\ Taken'
      BY <2>1, <2>2 DEF Inductive, Hung, Taken
    <2>5. Sorted'
      BY <2>1, <2>2 DEF Inductive, Sorted, Restructured
    <2>4. OneRC' /\ BlockedShown'
      BY <2>1, <2>2 DEF Inductive, OneRC, BlockedShown
    <2> QED  BY <1>6, <2>1, <2>3, <2>4, <2>5 DEF Inductive
  <1> QED  BY <1>1, <1>2, <1>3, <1>4, <1>5, <1>6 DEF Next

\* However often and in whatever order the four scripts are run, and whatever is judged in
\* between: every row is of a kind and under a row the scripts expect there, runs hang on
\* candidates and imports, and the run of a device has taken all its results.
THEOREM TreeInductive == Spec => []Inductive
PROOF
  <1>1. Init => Inductive
    BY InitHolds
  <1>2. Inductive /\ [Next]_vars => Inductive'
    BY StepKeeps
  <1> QED  BY <1>1, <1>2, PTL DEF Spec

\* The rows of the releases, the runs and the results are of their types.
THEOREM TreeTypes == Spec => []TypeOK
PROOF
  <1>1. Inductive => TypeOK
    BY InductiveTreeWhole
  <1> QED  BY <1>1, TreeInductive, PTL

\* Whatever scripts are run, in whatever order, each result leads through its run and its
\* RC to a round, and the normalisation leaves one RC.
THEOREM TreeIsWhole == Spec => []TreeWhole
PROOF
  <1>1. Inductive => TreeWhole
    BY InductiveTreeWhole
  <1> QED  BY <1>1, TreeInductive, PTL

\* A blocked result shows as BLOCKED above it, as far up as the last script settles: the
\* round UNCLASSIFIED, of releases without a telling name, it does not settle.
THEOREM TreeBlocked == Spec => []BlockedShown
PROOF
  <1>1. Inductive => BlockedShown
    BY DEF Inductive
  <1> QED  BY <1>1, TreeInductive, PTL

\* A script moves a result only within its round and to its own configuration, but for
\* what the normalisation does with the rounds of devices and the runs of several
\* configurations.
THEOREM TreeFiled == Spec => FiledRight
PROOF
  <1>1. Inductive /\ [Next]_vars => Filed \/ UNCHANGED vars
    BY StepKeeps
  <1>2. Filed <=>
          \A r \in Result :
            /\ \/ Campaign(RC(r))' = Campaign(RC(r))
               \/ last' = "normalize" /\ Len(Base(RC(r))) = 2
            /\ RC(r)' # RC(r) => \/ RC(r)'[3] \in {ComboOf[r], TopoOf(r), Place(RC(r))}
                                 \/ \E q \in Result : res[q].run = res[r].run /\ ComboOf[q] # ComboOf[r]
    BY DEF Filed
  <1> QED  BY <1>1, <1>2, TreeInductive, PTL DEF Spec, FiledRight
=============================================================================
