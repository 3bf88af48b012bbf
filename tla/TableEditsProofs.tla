-------------------------- MODULE TableEditsProofs --------------------------
(***************************************************************************)
(* Proofs about TableEdits, for all tables, requests and connections: what *)
(* renames and cascades leave behind, what the newest transition tells,    *)
(* and that overlapping saves keep the summary of a result.                *)
(***************************************************************************)
EXTENDS TableEdits, FiniteSetTheorems, WellFoundedInduction, TLAPS

Maybe(S) == S \cup {None}

\* Changed columns of a session: a status, or the text of a procedure result.
Judging == Judged \cup Result
Columns == ((Master \cup Run \cup Judging) \X {"status"} \X Word \X Nat) \cup (Judged \X {"text"} \X Text \X {0})
Drafts  == (Evidence \X {"result"} \X Result) \cup (Evidence \X {"judged"} \X Judged)
             \cup (Evidence \X {"defect"} \X Defect)
Calls   == [at : {"idle", "editing", "saving", "inserting", "ended"}, conn : Maybe(Connection),
            edits : Seq(Cells), pend : SUBSET Columns, draft : SUBSET Drafts]

\* Only a request that is about to save has judged, and every judgement that changes a
\* status has a number.
Formed(c) ==
  /\ IsFiniteSet(c.pend)
  /\ c.at # "saving" => \A t \in c.pend : t[1] \notin Judging
  /\ \A t \in c.pend : t[1] \in Judging /\ t[2] = "status" => t[4] # 0
  /\ c.at \notin {"editing", "saving"} => c.pend = {}

Types ==
  /\ db \in Database /\ IsFiniteSet(db.numbers)
  /\ writer \in Maybe(Process)
  /\ IF writer = None THEN work = None ELSE work \in Database /\ IsFiniteSet(work.numbers)
  /\ enforce \in [Connection -> BOOLEAN]
  /\ call \in [Process -> Calls]
  /\ \A p \in Process : Formed(call[p])

\* The transaction of an editor renames and flushes: what depends on results is as it
\* was committed, and a number that it took is the next one.
Held     == Judged \cup Result \cup Evidence \cup Defect
HeldRefs(d) == {r \in d.refs : r[2] \in {"result", "judged", "defect"}}
Alike(d, e) ==
  /\ d.rows \cap Held = e.rows \cap Held /\ HeldRefs(d) = HeldRefs(e)
  /\ \A x \in Judging : d.status[x] = e.status[x]
  /\ d.shrunk = e.shrunk /\ d.renumbered = e.renumbered
Taken(d, n) == \E m \in d.numbers : m[1] = n
InStep ==
  writer # None =>
    /\ Sound(work) /\ Alike(work, db) /\ db.numbers \subseteq work.numbers
    /\ ~db.renumbered /\ work.numbers # db.numbers => Taken(work, NextNumber(db))

\* Evidence that is on its way is about a procedure result of its result.
Aimed(d, c) ==
  /\ \A r, t \in c.draft : r[1] = t[1] /\ r[2] = t[2] => r = t
  /\ \A r \in c.draft : r[2] = "judged" =>
       \E s \in Result : <<r[1], "result", s>> \in c.draft
                         /\ (r[3] \in d.rows => <<r[3], "result", s>> \in d.refs)
Drafted == \A p \in Process : Aimed(db, call[p])

\* A number that a request has chosen is taken or still the next one,
Chosen(d, pend) == \A t \in Moves(pend) : Taken(d, t[4]) \/ t[4] = NextNumber(d)
Numbered == ~db.renumbered => \A p \in Process : Chosen(View(p), call[p].pend)

\* and what can be flushed keeps the summaries.
Fresh(d, pend) ==
  /\ \A t \in pend : t[1] \in Judging => t[1] \in d.rows
  /\ \A t \in Moves(pend) : ~Taken(d, t[4])
Saves(d, pend) == Fresh(d, pend) => Summed(Flushed(d, pend))
Summary ==
  ~db.renumbered =>
    /\ Summed(db)
    /\ \A p \in Process : call[p].at = "saving" => Saves(View(p), call[p].pend)

Inductive == Types /\ Sound(db) /\ InStep /\ Drafted /\ Numbered /\ Summary

-----------------------------------------------------------------------------
\* Numbers

LEMMA MaxExists ==
  ASSUME NEW N \in SUBSET Nat, IsFiniteSet(N), N # {}
  PROVE  Max(N) \in N
PROOF
  <1> DEFINE Above(x) == {y \in N : y > x}
             T == {Above(x) : x \in N}
             R == StrictSubsetOrdering(N)
  <1>1. IsWellFoundedOn(R, SUBSET N)
    BY FS_StrictSubsetOrderingWellFounded, FS_FiniteSubsetsOfFinite
  <1>2. T \subseteq SUBSET N /\ T # {}
    OBVIOUS
  <1>3. PICK A \in T : \A B \in T : ~(<<B, A>> \in R)
    <2> HIDE DEF T, R
    <2> QED  BY <1>1, <1>2, WFMin
  <1>4. PICK x \in N : A = Above(x)
    OBVIOUS
  <1>5. \A y \in N : x >= y
    <2> SUFFICES ASSUME NEW y \in N, y > x  PROVE FALSE
      OBVIOUS
    <2>0. Above(y) \in T
      OBVIOUS
    <2>1. Above(y) \subseteq A /\ y \in A /\ y \notin Above(y)
      <3>1. x \in Int /\ y \in Int /\ \A z \in N : z \in Int
        OBVIOUS
      <3>2. ~(y > y) /\ \A z \in N : z > y => z > x
        BY <3>1
      <3> QED  BY <1>4, <3>2
    <2>2. <<Above(y), A>> \in R
      BY <2>1, <1>4 DEF StrictSubsetOrdering
    <2> QED  BY <2>0, <2>2, <1>3
  <1> QED  BY <1>5 DEF Max

LEMMA ImageFinite ==
  ASSUME NEW S, NEW T, NEW f \in [S -> T], IsFiniteSet(S)
  PROVE  IsFiniteSet({f[x] : x \in S})
PROOF
  <1> DEFINE I == {f[x] : x \in S}
  <1>1. f \in Surjection(S, I)
    BY DEF Surjection
  <1> QED  BY <1>1, FS_Surjection

\* The next number is one.
LEMMA NextNumberType ==
  ASSUME NEW d, d.numbers \in SUBSET (Nat \X Id), IsFiniteSet(d.numbers)
  PROVE  NextNumber(d) \in Nat /\ NextNumber(d) # 0
PROOF
  <1> DEFINE N == {n[1] : n \in d.numbers} \cup {0}
             f == [n \in d.numbers |-> n[1]]
  <1>1. f \in [d.numbers -> Nat]
    OBVIOUS
  <1>2. {f[n] : n \in d.numbers} = {n[1] : n \in d.numbers}
    OBVIOUS
  <1>3. IsFiniteSet({n[1] : n \in d.numbers})
    <2> HIDE DEF f
    <2>1. IsFiniteSet({f[n] : n \in d.numbers})
      BY <1>1, ImageFinite
    <2> QED  BY <2>1, <1>2
  <1>4. IsFiniteSet(N) /\ N \in SUBSET Nat /\ N # {}
    BY <1>3, FS_AddElement
  <1>5. Max(N) \in Nat
    <2> HIDE DEF N
    <2> QED  BY <1>4, MaxExists
  <1> QED  BY <1>5 DEF NextNumber
-----------------------------------------------------------------------------
\* Tables and columns

LEMMA Tables ==
  /\ \A x \in Round : x \notin Target /\ x \notin Config /\ x \notin Case /\ x \notin Procedure /\ x \notin Run /\ x \notin Held
  /\ \A x \in Target : x \notin Config /\ x \notin Case /\ x \notin Procedure /\ x \notin Run /\ x \notin Held
  /\ \A x \in Config : x \notin Case /\ x \notin Procedure /\ x \notin Run /\ x \notin Held
  /\ \A x \in Case : x \notin Procedure /\ x \notin Run /\ x \notin Held
  /\ \A x \in Procedure : x \notin Run /\ x \notin Held
  /\ \A x \in Run : x \notin Held
  /\ \A x \in Result : x \notin Judged /\ x \notin Defect /\ x \notin Evidence
  /\ \A x \in Judged : x \notin Defect /\ x \notin Evidence
  /\ \A x \in Defect : x \notin Evidence
PROOF
  <1>1. /\ \A x \in Round : x \notin Target /\ x \notin Config /\ x \notin Case /\ x \notin Procedure /\ x \notin Run /\ x \notin Held
        /\ \A x \in Target : x \notin Config /\ x \notin Case /\ x \notin Procedure /\ x \notin Run /\ x \notin Held
        /\ \A x \in Config : x \notin Case /\ x \notin Procedure /\ x \notin Run /\ x \notin Held
    BY TableAssumption DEF Held
  <1>2. /\ \A x \in Case : x \notin Procedure /\ x \notin Run /\ x \notin Held
        /\ \A x \in Procedure : x \notin Run /\ x \notin Held
        /\ \A x \in Run : x \notin Held
    BY TableAssumption DEF Held
  <1>3. /\ \A x \in Result : x \notin Judged /\ x \notin Defect /\ x \notin Evidence
        /\ \A x \in Judged : x \notin Defect /\ x \notin Evidence
        /\ \A x \in Defect : x \notin Evidence
    BY TableAssumption
  <1> QED  BY <1>1, <1>2, <1>3

\* What a column refers from and to
LEMMA ReferenceFacts ==
  ASSUME NEW r \in Reference
  PROVE  /\ r = <<r[1], r[2], r[3]>> /\ r[1] \in Id /\ r[3] \in Id
         /\ r[2] \in {"round", "target", "config", "case", "run", "result", "procedure", "judged", "defect"}
         /\ r[2] = "round" => r[1] \in Run /\ r[3] \in Round
         /\ r[2] = "target" => r[1] \in Run /\ r[3] \in Target
         /\ r[2] = "config" => r[1] \in Run /\ r[3] \in Config
         /\ r[2] = "case" => r[1] \in Procedure \cup Result /\ r[3] \in Case
         /\ r[2] = "run" => r[1] \in Result /\ r[3] \in Run
         /\ r[2] = "result" => r[1] \in Judged \cup Defect \cup Evidence /\ r[3] \in Result
         /\ r[2] = "procedure" => r[1] \in Judged /\ r[3] \in Procedure
         /\ r[2] = "judged" => r[1] \in Defect \cup Evidence /\ r[3] \in Judged
         /\ r[2] = "defect" => r[1] \in Evidence /\ r[3] \in Defect
PROOF
  BY DEF Reference, Id, Master

LEMMA ReferenceMade ==
  ASSUME NEW a, NEW b
  PROVE  /\ a \in Run /\ b \in Round => <<a, "round", b>> \in Reference
         /\ a \in Run /\ b \in Target => <<a, "target", b>> \in Reference
         /\ a \in Run /\ b \in Config => <<a, "config", b>> \in Reference
         /\ a \in Procedure \cup Result /\ b \in Case => <<a, "case", b>> \in Reference
         /\ a \in Result /\ b \in Run => <<a, "run", b>> \in Reference
         /\ a \in Judged \cup Defect \cup Evidence /\ b \in Result => <<a, "result", b>> \in Reference
         /\ a \in Judged /\ b \in Procedure => <<a, "procedure", b>> \in Reference
         /\ a \in Defect \cup Evidence /\ b \in Judged => <<a, "judged", b>> \in Reference
         /\ a \in Evidence /\ b \in Defect => <<a, "defect", b>> \in Reference
PROOF
  BY DEF Reference

LEMMA ColumnFacts ==
  ASSUME NEW t \in Columns
  PROVE  /\ t = <<t[1], t[2], t[3], t[4]>> /\ t[1] \in Id /\ t[1] \notin Evidence /\ t[4] \in Nat
         /\ t[2] \in {"status", "text"}
         /\ t[2] = "status" => t[3] \in Word
         /\ t[2] = "text" => t[3] \in Text /\ t[4] = 0
PROOF
  BY Tables DEF Columns, Judging, Id, Master, Held

LEMMA DatabaseFacts ==
  ASSUME NEW d \in Database
  PROVE  /\ d.rows \in SUBSET Id /\ d.refs \in SUBSET Reference
         /\ d.status \in [Id -> Word] /\ d.text \in [Id -> Text] /\ d.log \in [Id -> Word]
         /\ d.numbers \in SUBSET (Nat \X Id)
         /\ d.unlogged \in SUBSET Id /\ d.shrunk \in SUBSET Result /\ d.unchecked \in SUBSET Id
         /\ d.renumbered \in BOOLEAN
PROOF
  BY DEF Database

-----------------------------------------------------------------------------
\* The flush

LEMMA NewValueFacts ==
  ASSUME NEW pend, NEW x, NEW field, NEW old
  PROVE  /\ (\A t \in pend : ~(t[1] = x /\ t[2] = field)) => NewValue(pend, x, field, old) = old
         /\ (\E t \in pend : t[1] = x /\ t[2] = field) =>
              \E t \in pend : t[1] = x /\ t[2] = field /\ NewValue(pend, x, field, old) = t[3]
PROOF
  <1> DEFINE set == {t \in pend : t[1] = x /\ t[2] = field}
  <1>1. NewValue(pend, x, field, old) = IF set = {} THEN old ELSE (CHOOSE t \in set : TRUE)[3]
    BY DEF NewValue
  <1>2. set # {} => (CHOOSE t \in set : TRUE) \in set
    OBVIOUS
  <1> QED  BY <1>1, <1>2

LEMMA NewValueType ==
  ASSUME NEW pend \in SUBSET Columns, NEW x
  PROVE  /\ \A old \in Word : NewValue(pend, x, "status", old) \in Word
         /\ \A old \in Text : NewValue(pend, x, "text", old) \in Text
PROOF
  BY NewValueFacts, ColumnFacts

LEMMA FlushFields ==
  ASSUME NEW d \in Database, NEW pend \in SUBSET Columns
  PROVE  /\ Flushed(d, pend) \in Database
         /\ Flushed(d, pend).rows = d.rows /\ Flushed(d, pend).refs = d.refs
         /\ Flushed(d, pend).shrunk = d.shrunk /\ Flushed(d, pend).unchecked = d.unchecked
         /\ Flushed(d, pend).renumbered = d.renumbered
         /\ Flushed(d, pend).numbers = d.numbers \cup {<<t[4], t[1]>> : t \in Moves(pend)}
         /\ \A x \in Id : Flushed(d, pend).status[x] = NewValue(pend, x, "status", d.status[x])
         /\ \A x \in Id : Flushed(d, pend).log[x] =
                            IF x \in Moved(pend) THEN NewValue(pend, x, "status", d.log[x]) ELSE d.log[x]
         /\ Flushed(d, pend).unlogged =
              (d.unlogged \cup {t[1] : t \in {u \in pend : u[2] = "status"}}) \ Moved(pend)
PROOF
  <1> DEFINE status == [x \in Id |-> NewValue(pend, x, "status", d.status[x])]
             text == [x \in Id |-> NewValue(pend, x, "text", d.text[x])]
             log == [x \in Id |-> IF x \in Moved(pend) THEN NewValue(pend, x, "status", d.log[x]) ELSE d.log[x]]
             numbers == d.numbers \cup {<<t[4], t[1]>> : t \in Moves(pend)}
             unlogged == (d.unlogged \cup {t[1] : t \in {u \in pend : u[2] = "status"}}) \ Moved(pend)
  <1>1. status \in [Id -> Word] /\ text \in [Id -> Text] /\ log \in [Id -> Word]
    <2>1. d.status \in [Id -> Word] /\ d.text \in [Id -> Text] /\ d.log \in [Id -> Word]
      BY DatabaseFacts
    <2> QED  BY <2>1, NewValueType
  <1>2. numbers \in SUBSET (Nat \X Id)
    BY DatabaseFacts, ColumnFacts DEF Moves
  <1>3. unlogged \in SUBSET Id
    BY DatabaseFacts, ColumnFacts
  <1>4. Flushed(d, pend) = [d EXCEPT !.status = status, !.text = text, !.log = log,
                                      !.numbers = numbers, !.unlogged = unlogged]
    BY DEF Flushed, Database
  <1>5. /\ Flushed(d, pend) \in Database
        /\ Flushed(d, pend).rows = d.rows /\ Flushed(d, pend).refs = d.refs
        /\ Flushed(d, pend).shrunk = d.shrunk /\ Flushed(d, pend).unchecked = d.unchecked
        /\ Flushed(d, pend).renumbered = d.renumbered
        /\ Flushed(d, pend).numbers = numbers /\ Flushed(d, pend).unlogged = unlogged
        /\ Flushed(d, pend).status = status /\ Flushed(d, pend).log = log
    <2> HIDE DEF status, text, log, numbers, unlogged
    <2> QED  BY <1>1, <1>2, <1>3, <1>4 DEF Database
  <1> QED  BY <1>5

\* A flush writes statuses only, and the transitions of those that have a number.
LEMMA FlushSound ==
  ASSUME NEW d, Sound(d), NEW pend \in SUBSET Columns, IsFiniteSet(pend)
  PROVE  Sound(Flushed(d, pend))
PROOF
  <1> DEFINE e == Flushed(d, pend)
  <1>0. d \in Database /\ IsFiniteSet(d.numbers)
    BY DEF Sound
  <1>1. /\ e \in Database
        /\ e.rows = d.rows /\ e.refs = d.refs /\ e.unchecked = d.unchecked
        /\ e.numbers = d.numbers \cup {<<t[4], t[1]>> : t \in Moves(pend)}
        /\ e.unlogged = (d.unlogged \cup {t[1] : t \in {u \in pend : u[2] = "status"}}) \ Moved(pend)
        /\ \A x \in Id : e.status[x] = NewValue(pend, x, "status", d.status[x])
        /\ \A x \in Id : e.log[x] =
             IF x \in Moved(pend) THEN NewValue(pend, x, "status", d.log[x]) ELSE d.log[x]
    BY <1>0, FlushFields
  <1> HIDE DEF e
  <1>2. IsFiniteSet(e.numbers)
    <2> DEFINE f == [t \in Moves(pend) |-> <<t[4], t[1]>>]
               T == {<<t[4], t[1]>> : t \in Moves(pend)}
    <2>1. IsFiniteSet(Moves(pend))
      BY FS_Subset DEF Moves
    <2>2. f \in [Moves(pend) -> T] /\ {f[t] : t \in Moves(pend)} = T
      OBVIOUS
    <2>3. IsFiniteSet({f[t] : t \in Moves(pend)})
      <3>1. f \in [Moves(pend) -> T]
        BY <2>2
      <3> HIDE DEF f, T
      <3> QED  BY <2>1, <3>1, ImageFinite
    <2>4. e.numbers = d.numbers \cup T
      BY <1>1
    <2> HIDE DEF f, T
    <2>5. IsFiniteSet(T)
      BY <2>2, <2>3
    <2> QED  BY <1>0, <2>4, <2>5, FS_Union
  <1>3. /\ \A r \in e.refs : r[1] \in e.rows
        /\ e.unchecked \subseteq Evidence
    BY <1>1 DEF Sound
  <1>4. Single(e) /\ Scoped(e) /\ Explained(e)
    BY <1>1 DEF Sound, Single, Scoped, Explained, Dangling
  <1>5. \A x \in Evidence : e.log[x] = Absent
    <2>1. \A x \in Evidence : x \notin Moved(pend) /\ x \in Id
      BY ColumnFacts DEF Moved, Moves, Id
    <2> QED  BY <1>1, <2>1 DEF Sound
  <1>6. Logged(e)
    <2> SUFFICES ASSUME NEW x \in e.rows, e.log[x] # Absent, e.log[x] # e.status[x]
                 PROVE  x \in e.unlogged
      BY DEF Logged
    <2>0. x \in Id /\ x \in d.rows
      BY <1>0, <1>1, DatabaseFacts
    <2>1. x \notin Moved(pend)
      <3> SUFFICES ASSUME x \in Moved(pend)  PROVE FALSE
        OBVIOUS
      <3>1. PICK t \in Moves(pend) : t[1] = x
        BY DEF Moved
      <3>2. t \in pend /\ t[4] # 0 /\ t[2] = "status"
        BY ColumnFacts DEF Moves
      <3>3. \A old : NewValue(pend, x, "status", old) = (CHOOSE u \in {v \in pend : v[1] = x /\ v[2] = "status"} : TRUE)[3]
        BY <3>1, <3>2 DEF NewValue
      <3> QED  BY <1>1, <2>0, <3>3
    <2>2. CASE \E t \in pend : t[1] = x /\ t[2] = "status"
      BY <1>1, <2>1, <2>2
    <2>3. CASE \A t \in pend : ~(t[1] = x /\ t[2] = "status")
      <3>1. e.status[x] = d.status[x] /\ e.log[x] = d.log[x]
        BY <1>1, <2>0, <2>1, <2>3, NewValueFacts
      <3> QED  BY <1>1, <2>0, <2>1, <3>1 DEF Sound, Logged
    <2> QED  BY <2>2, <2>3
  <1> QED
    BY <1>1, <1>2, <1>3, <1>4, <1>5, <1>6 DEF Sound, e

\* The statuses of results stay when no judgement is in the session.
LEMMA FlushAside ==
  ASSUME NEW d \in Database, NEW pend \in SUBSET Columns,
         \A t \in pend : t[1] \in Judging => t[2] # "status"
  PROVE  \A x \in Judging : Flushed(d, pend).status[x] = d.status[x]
PROOF
  BY FlushFields, NewValueFacts DEF Judging, Id

\* A result keeps its summary when its procedure results and their statuses stay.
LEMMA SummedFrom ==
  ASSUME NEW d, NEW e, Summed(d),
         \A s \in e.rows \cap Result :
           \/ s \in e.shrunk
           \/ /\ s \in d.rows /\ s \notin d.shrunk
              /\ JudgedOf(e, s) = JudgedOf(d, s)
              /\ e.status[s] = d.status[s]
              /\ \A q \in JudgedOf(d, s) : e.status[q] = d.status[q]
  PROVE  Summed(e)
PROOF
  <1> SUFFICES ASSUME NEW s \in e.rows \cap Result, s \notin e.shrunk, JudgedOf(e, s) # {}
               PROVE  e.status[s] = Summarize({e.status[q] : q \in JudgedOf(e, s)})
    BY DEF Summed
  <1>1. /\ s \in d.rows /\ s \notin d.shrunk /\ JudgedOf(e, s) = JudgedOf(d, s)
        /\ e.status[s] = d.status[s]
        /\ \A q \in JudgedOf(d, s) : e.status[q] = d.status[q]
    OBVIOUS
  <1>2. d.status[s] = Summarize({d.status[q] : q \in JudgedOf(d, s)})
    BY <1>1 DEF Summed
  <1>3. {e.status[q] : q \in JudgedOf(e, s)} = {d.status[q] : q \in JudgedOf(d, s)}
    BY <1>1
  <1> QED  BY <1>1, <1>2, <1>3

\* The procedure results of a result, by their references
LEMMA JudgedOfFacts ==
  ASSUME NEW d, d.refs \subseteq Reference, NEW s
  PROVE  /\ JudgedOf(d, s) = {q \in Judged : <<q, "result", s>> \in HeldRefs(d)}
         /\ JudgedOf(d, s) = {q \in Judged : <<q, "result", s>> \in d.refs}
PROOF
  <1>1. \A q : q \in JudgedOf(d, s) <=> q \in Judged /\ <<q, "result", s>> \in d.refs
    <2> SUFFICES ASSUME NEW q
                 PROVE  q \in JudgedOf(d, s) <=> q \in Judged /\ <<q, "result", s>> \in d.refs
      OBVIOUS
    <2>1. ASSUME q \in JudgedOf(d, s)  PROVE q \in Judged /\ <<q, "result", s>> \in d.refs
      <3>1. PICK r \in d.refs : r[2] = "result" /\ r[3] \in {s} /\ r[1] = q
        BY <2>1 DEF JudgedOf, Children
      <3>2. r = <<r[1], r[2], r[3]>>
        BY ReferenceFacts
      <3> QED  BY <2>1, <3>1, <3>2 DEF JudgedOf
    <2>2. ASSUME q \in Judged, <<q, "result", s>> \in d.refs  PROVE q \in JudgedOf(d, s)
      <3> DEFINE r == <<q, "result", s>>
      <3>1. r[2] = "result" /\ r[3] \in {s} /\ r[1] = q
        OBVIOUS
      <3>2. r \in {t \in d.refs : t[2] = "result" /\ t[3] \in {s}}
        BY <2>2, <3>1
      <3> QED  BY <2>2, <3>1, <3>2 DEF JudgedOf, Children
    <2> QED  BY <2>1, <2>2
  <1>2. \A q : <<q, "result", s>> \in HeldRefs(d) <=> <<q, "result", s>> \in d.refs
    BY DEF HeldRefs
  <1> QED  BY <1>1, <1>2

\* Copies that are alike have the same summaries.
LEMMA AlikeSummed ==
  ASSUME NEW d \in Database, NEW e \in Database, Alike(e, d), Summed(d)
  PROVE  Summed(e)
PROOF
  <1>0. d.refs \subseteq Reference /\ e.refs \subseteq Reference /\ HeldRefs(e) = HeldRefs(d)
    BY DatabaseFacts DEF Alike
  <1>1. \A s : JudgedOf(e, s) = JudgedOf(d, s)
    <2> SUFFICES ASSUME NEW s  PROVE JudgedOf(e, s) = JudgedOf(d, s)
      OBVIOUS
    <2>1. JudgedOf(e, s) = {q \in Judged : <<q, "result", s>> \in HeldRefs(e)}
      BY <1>0, JudgedOfFacts
    <2>2. JudgedOf(d, s) = {q \in Judged : <<q, "result", s>> \in HeldRefs(d)}
      BY <1>0, JudgedOfFacts
    <2> QED  BY <1>0, <2>1, <2>2
  <1>2. \A s \in e.rows \cap Result : s \in d.rows
    BY DEF Alike, Held
  <1>3. /\ e.shrunk = d.shrunk
        /\ \A x \in Judging : e.status[x] = d.status[x]
        /\ \A s : JudgedOf(d, s) \subseteq Judged
    BY DEF Alike, JudgedOf
  <1>4. \A s \in e.rows \cap Result :
           \/ s \in e.shrunk
           \/ /\ s \in d.rows /\ s \notin d.shrunk
              /\ JudgedOf(e, s) = JudgedOf(d, s)
              /\ e.status[s] = d.status[s]
              /\ \A q \in JudgedOf(d, s) : e.status[q] = d.status[q]
    BY <1>1, <1>2, <1>3 DEF Judging
  <1> QED  BY <1>4, SummedFrom

LEMMA AlikeTwice ==
  ASSUME NEW a, NEW b, NEW c, Alike(a, b), Alike(b, c)
  PROVE  Alike(a, c)
PROOF
  BY DEF Alike

\* A flush of no judgement leaves alone what depends on results,
LEMMA FlushAlike ==
  ASSUME NEW d \in Database, NEW pend \in SUBSET Columns,
         \A t \in pend : t[1] \in Judging => t[2] # "status"
  PROVE  Alike(Flushed(d, pend), d)
PROOF
  BY FlushFields, FlushAside DEF Alike, HeldRefs

\* so the summaries stay.
LEMMA FlushSummed ==
  ASSUME NEW d \in Database, NEW pend \in SUBSET Columns, Summed(d),
         \A t \in pend : t[1] \in Judging => t[2] # "status"
  PROVE  Summed(Flushed(d, pend))
PROOF
  BY FlushFields, FlushAlike, AlikeSummed

\* Alike copies are alike after the same flush.
LEMMA FlushBoth ==
  ASSUME NEW d \in Database, NEW e \in Database, NEW pend \in SUBSET Columns, Alike(e, d)
  PROVE  Alike(Flushed(e, pend), Flushed(d, pend))
PROOF
  <1>1. \A x \in Judging : Flushed(e, pend).status[x] = Flushed(d, pend).status[x]
    BY FlushFields DEF Alike, Judging, Id
  <1>2. HeldRefs(Flushed(e, pend)) = HeldRefs(e) /\ HeldRefs(Flushed(d, pend)) = HeldRefs(d)
    BY FlushFields DEF HeldRefs
  <1>3. /\ Flushed(e, pend).rows = e.rows /\ Flushed(d, pend).rows = d.rows
        /\ Flushed(e, pend).shrunk = e.shrunk /\ Flushed(d, pend).shrunk = d.shrunk
        /\ Flushed(e, pend).renumbered = e.renumbered /\ Flushed(d, pend).renumbered = d.renumbered
    BY FlushFields
  <1> QED  BY <1>1, <1>2, <1>3 DEF Alike

\* A judgement and the summary that it leads to
LEMMA JudgedSummed ==
  ASSUME NEW d \in Database, Single(d), Summed(d), NEW e \in Database,
         e.rows = d.rows, e.refs = d.refs, e.shrunk = d.shrunk,
         NEW q \in Judged, NEW s \in Result, <<q, "result", s>> \in d.refs, NEW to,
         e.status[q] = to,
         e.status[s] = Summarize({IF r = q THEN to ELSE d.status[r] : r \in JudgedOf(d, s)}),
         \A x \in Judging \ {q, s} : e.status[x] = d.status[x]
  PROVE  Summed(e)
PROOF
  <1>1. \A t : JudgedOf(e, t) = JudgedOf(d, t)
    BY DEF JudgedOf, Children
  <1> SUFFICES ASSUME NEW t \in e.rows \cap Result, t \notin e.shrunk, JudgedOf(e, t) # {}
               PROVE  e.status[t] = Summarize({e.status[r] : r \in JudgedOf(e, t)})
    BY DEF Summed
  <1>2. JudgedOf(d, t) \subseteq Judged
    BY DEF JudgedOf
  <1>3. CASE t = s
    <2>1. \A r \in JudgedOf(d, s) : e.status[r] = IF r = q THEN to ELSE d.status[r]
      <3> SUFFICES ASSUME NEW r \in JudgedOf(d, s), r # q  PROVE e.status[r] = d.status[r]
        OBVIOUS
      <3>1. r \in Judging /\ r # s
        BY <1>2, <1>3, Tables DEF Judging
      <3> QED  BY <3>1
    <2>2. {e.status[r] : r \in JudgedOf(d, s)} = {IF r = q THEN to ELSE d.status[r] : r \in JudgedOf(d, s)}
      BY <2>1
    <2> QED  BY <1>1, <1>3, <2>2
  <1>4. CASE t # s
    <2>1. q \notin JudgedOf(d, t)
      <3> SUFFICES ASSUME q \in JudgedOf(d, t)  PROVE FALSE
        OBVIOUS
      <3>1. <<q, "result", t>> \in d.refs
        BY JudgedOfFacts, DatabaseFacts
      <3>2. <<q, "result", t>>[1] = <<q, "result", s>>[1] /\ <<q, "result", t>>[2] = <<q, "result", s>>[2]
        OBVIOUS
      <3>3. <<q, "result", t>> = <<q, "result", s>>
        BY <3>1, <3>2 DEF Single
      <3> QED  BY <3>3, <1>4
    <2>2. t # q /\ t \in Judging /\ s \notin JudgedOf(d, t)
      BY <1>2, Tables DEF Judging
    <2>3. e.status[t] = d.status[t]
      BY <1>4, <2>2
    <2>4. \A r \in JudgedOf(d, t) : e.status[r] = d.status[r]
      BY <1>2, <2>1, <2>2 DEF Judging
    <2>5. {e.status[r] : r \in JudgedOf(d, t)} = {d.status[r] : r \in JudgedOf(d, t)}
      BY <2>4
    <2>6. d.status[t] = Summarize({d.status[r] : r \in JudgedOf(d, t)})
      BY <1>1 DEF Summed
    <2> QED  BY <1>1, <2>3, <2>5, <2>6
  <1> QED  BY <1>3, <1>4

-----------------------------------------------------------------------------
\* The rename

After(x, old, new)  == IF x = old THEN new ELSE x
Turned(r, old, new) == <<After(r[1], old, new), r[2], After(r[3], old, new)>>
OneTable(x, y) == \/ x \in Target /\ y \in Target
                  \/ x \in Case /\ y \in Case
                  \/ x \in Procedure /\ y \in Procedure
                  \/ x \in Run /\ y \in Run

\* A renamed row stays in its table,
LEMMA AfterTables ==
  ASSUME NEW old, NEW new, OneTable(old, new), NEW x
  PROVE  /\ x \in Id => After(x, old, new) \in Id
         /\ x \in Round => After(x, old, new) = x
         /\ x \in Config => After(x, old, new) = x
         /\ x \in Held => After(x, old, new) = x
         /\ x \in Target => After(x, old, new) \in Target
         /\ x \in Case => After(x, old, new) \in Case
         /\ x \in Procedure => After(x, old, new) \in Procedure
         /\ x \in Run => After(x, old, new) \in Run
PROOF
  <1>1. /\ x \in Round => x # old
        /\ x \in Config => x # old
        /\ x \in Held => x # old
    BY Tables DEF OneTable
  <1>2. /\ x \in Target /\ x = old => new \in Target
        /\ x \in Case /\ x = old => new \in Case
        /\ x \in Procedure /\ x = old => new \in Procedure
        /\ x \in Run /\ x = old => new \in Run
        /\ new \in Id
    BY Tables DEF OneTable, Id, Master
  <1> QED  BY <1>1, <1>2 DEF After

\* and its references to theirs.
LEMMA TurnedTyped ==
  ASSUME NEW old, NEW new, OneTable(old, new), NEW r \in Reference
  PROVE  /\ Turned(r, old, new) \in Reference
         /\ Turned(r, old, new)[2] = r[2]
         /\ r[2] \in {"result", "judged", "defect"} => Turned(r, old, new) = r
PROOF
  <1> DEFINE a == After(r[1], old, new)
             b == After(r[3], old, new)
  <1>0. Turned(r, old, new) = <<a, r[2], b>> /\ Turned(r, old, new)[2] = r[2]
    BY DEF Turned
  <1>1. /\ r[1] \in Held => a = r[1]
        /\ r[1] \in Procedure => a \in Procedure
        /\ r[1] \in Run => a \in Run
    BY AfterTables
  <1>2. /\ r[3] \in Held => b = r[3]
        /\ r[3] \in Round => b = r[3]
        /\ r[3] \in Config => b = r[3]
        /\ r[3] \in Target => b \in Target
        /\ r[3] \in Case => b \in Case
        /\ r[3] \in Procedure => b \in Procedure
        /\ r[3] \in Run => b \in Run
    BY AfterTables
  <1> HIDE DEF a, b
  <1>3. CASE r[2] \in {"result", "judged", "defect"}
    <2>1. r[1] \in Held /\ r[3] \in Held /\ r = <<r[1], r[2], r[3]>>
      BY <1>3, ReferenceFacts DEF Held
    <2>2. a = r[1] /\ b = r[3]
      BY <1>1, <1>2, <2>1
    <2>3. Turned(r, old, new) = r
      BY <1>0, <2>1, <2>2
    <2> QED  BY <1>0, <2>3
  <1>4. CASE r[2] \in {"round", "target", "config"}
    <2>1. a \in Run /\ (r[2] = "round" => b \in Round) /\ (r[2] = "target" => b \in Target)
           /\ (r[2] = "config" => b \in Config)
      BY <1>1, <1>2, <1>4, ReferenceFacts
    <2>2. <<a, r[2], b>> \in Reference
      BY <1>4, <2>1, ReferenceMade
    <2> QED  BY <1>0, <1>4, <2>2
  <1>5. CASE r[2] = "case"
    <2>1. a \in Procedure \cup Result /\ b \in Case
      BY <1>1, <1>2, <1>5, ReferenceFacts DEF Held
    <2> QED  BY <1>0, <1>5, <2>1, ReferenceMade
  <1>6. CASE r[2] = "run"
    <2>1. a \in Result /\ b \in Run
      BY <1>1, <1>2, <1>6, ReferenceFacts DEF Held
    <2> QED  BY <1>0, <1>6, <2>1, ReferenceMade
  <1>7. CASE r[2] = "procedure"
    <2>1. a \in Judged /\ b \in Procedure
      BY <1>1, <1>2, <1>7, ReferenceFacts DEF Held
    <2> QED  BY <1>0, <1>7, <2>1, ReferenceMade
  <1> QED  BY <1>3, <1>4, <1>5, <1>6, <1>7, ReferenceFacts

LEMMA TwoWrites ==
  ASSUME NEW S, NEW T, NEW f \in [S -> T], NEW a \in S, NEW b \in S, NEW u \in T, NEW v \in T
  PROVE  /\ [f EXCEPT ![a] = u, ![b] = v] \in [S -> T]
         /\ \A x \in S \ {b, a} : [f EXCEPT ![a] = u, ![b] = v][x] = f[x]
PROOF
  OBVIOUS

\* What the SQL of a rename does to every field
LEMMA RenamedFields ==
  ASSUME NEW d, Sound(d), NEW old, NEW new, OneTable(old, new), ~({old, new} \subseteq d.rows)
  PROVE  LET e == RenamedRow(d, old, new) IN
         /\ e \in Database
         /\ e.refs = {Turned(r, old, new) : r \in d.refs}
         /\ e.rows = {After(x, old, new) : x \in d.rows}
         /\ e.log = d.log /\ e.numbers = d.numbers /\ e.shrunk = d.shrunk
         /\ e.unchecked = d.unchecked /\ e.renumbered = d.renumbered
         /\ \A x \in Id \ {old, new} : e.status[x] = d.status[x]
         /\ \A x \in e.rows :
              \/ x \in e.unlogged
              \/ x \in d.rows /\ e.status[x] = d.status[x] /\ (x \in d.unlogged => x \in e.unlogged)
PROOF
  <1> DEFINE e == RenamedRow(d, old, new)
             refs == {<<r[1], r[2], IF r[2] \in RenamedChildren(old) THEN After(r[3], old, new) ELSE r[3]>> : r \in d.refs}
             all == {Turned(r, old, new) : r \in d.refs}
             rows == {After(x, old, new) : x \in d.rows}
  <1>0. /\ d \in Database /\ d.rows \subseteq Id /\ d.refs \subseteq Reference
        /\ \A r \in d.refs : r[1] \in d.rows
        /\ old \in Id /\ new \in Id
    BY DatabaseFacts DEF Sound, OneTable, Id, Master
  <1>1. \A r \in d.refs :
          (IF r[2] \in RenamedChildren(old) THEN After(r[3], old, new) ELSE r[3]) = After(r[3], old, new)
    <2> SUFFICES ASSUME NEW r \in d.refs, r[3] = old  PROVE r[2] \in RenamedChildren(old)
      BY DEF After
    <2>0. r \in Reference
      BY <1>0
    <2>1. CASE old \in Target
      BY <2>0, <2>1, ReferenceFacts, Tables DEF RenamedChildren, Held
    <2>2. CASE old \in Case
      BY <2>0, <2>2, ReferenceFacts, Tables DEF RenamedChildren, Held
    <2>3. CASE old \in Procedure
      BY <2>0, <2>3, ReferenceFacts, Tables DEF RenamedChildren, Held
    <2>4. CASE old \in Run
      BY <2>0, <2>4, ReferenceFacts, Tables DEF RenamedChildren, Held
    <2> QED  BY <2>1, <2>2, <2>3, <2>4 DEF OneTable
  <1>2. refs = {<<r[1], r[2], After(r[3], old, new)>> : r \in d.refs}
    BY <1>1
  <1>3. all \subseteq Reference /\ rows \subseteq Id
    BY <1>0, TurnedTyped, AfterTables
  <1>4. CASE old \notin d.rows
    <2>1. e = [d EXCEPT !.refs = refs]
      BY <1>4 DEF RenamedRow, After
    <2>2. refs = all
      <3>1. \A r \in d.refs : After(r[1], old, new) = r[1]
        BY <1>0, <1>4 DEF After
      <3> QED  BY <1>2, <3>1 DEF Turned
    <2>3. rows = d.rows
      BY <1>4 DEF After
    <2>4. e = [d EXCEPT !.refs = all]
      BY <2>1, <2>2
    <2> HIDE DEF all, refs, e, rows
    <2>5. /\ e \in Database /\ e.refs = all /\ e.rows = d.rows /\ e.log = d.log /\ e.numbers = d.numbers
          /\ e.shrunk = d.shrunk /\ e.unchecked = d.unchecked /\ e.renumbered = d.renumbered
          /\ e.status = d.status /\ e.unlogged = d.unlogged
      BY <1>0, <1>3, <2>4 DEF Database
    <2> QED  BY <2>3, <2>5 DEF all, e, rows
  <1>5. CASE old \in d.rows
    <2> DEFINE turned == {<<After(r[1], old, new), r[2], r[3]>> : r \in refs}
               status == [d.status EXCEPT ![new] = d.status[old], ![old] = Absent]
               text == [d.text EXCEPT ![new] = d.text[old], ![old] = ""]
               unlogged == (d.unlogged \ {old}) \cup {new}
    <2>1. e = [d EXCEPT !.rows = rows, !.refs = turned, !.status = status, !.text = text, !.unlogged = unlogged]
      BY <1>0, <1>5 DEF RenamedRow, After, Database
    <2>2. turned = all
      <3>1. ASSUME NEW u \in turned  PROVE u \in all
        <4>1. PICK v \in refs : u = <<After(v[1], old, new), v[2], v[3]>>
          OBVIOUS
        <4>2. PICK r \in d.refs : v = <<r[1], r[2], After(r[3], old, new)>>
          BY <1>2, <4>1
        <4> QED  BY <4>1, <4>2 DEF Turned
      <3>2. ASSUME NEW r \in d.refs  PROVE Turned(r, old, new) \in turned
        <4> DEFINE v == <<r[1], r[2], After(r[3], old, new)>>
        <4>1. v \in refs
          BY <1>2
        <4>2. <<After(v[1], old, new), v[2], v[3]>> \in turned
          BY <4>1
        <4> QED  BY <4>2 DEF Turned
      <3> QED  BY <3>1, <3>2
    <2>3. status \in [Id -> Word] /\ text \in [Id -> Text] /\ unlogged \in SUBSET Id
      <3> DEFINE blank == ""
      <3>1. d.status \in [Id -> Word] /\ d.text \in [Id -> Text] /\ d.unlogged \in SUBSET Id
        BY <1>0, DatabaseFacts
      <3>2. Absent \in Word /\ blank \in Text
        BY DEF Word, Status, Text
      <3>0. text = [d.text EXCEPT ![new] = d.text[old], ![old] = blank]
        OBVIOUS
      <3>3. status \in [Id -> Word]
        <4>1. d.status[old] \in Word
          BY <1>0, <3>1
        <4> HIDE DEF blank, text
        <4> QED  BY <1>0, <3>1, <3>2, <4>1, TwoWrites
      <3>4. text \in [Id -> Text]
        <4>1. d.text[old] \in Text
          BY <1>0, <3>1
        <4> HIDE DEF blank, text
        <4> QED  BY <1>0, <3>0, <3>1, <3>2, <4>1, TwoWrites
      <3>5. unlogged \in SUBSET Id
        BY <1>0, <3>1
      <3> HIDE DEF status, text, unlogged
      <3> QED  BY <3>3, <3>4, <3>5
    <2>4. e = [d EXCEPT !.rows = rows, !.refs = all, !.status = status, !.text = text, !.unlogged = unlogged]
      BY <2>1, <2>2
    <2>5. \A x \in Id \ {old, new} : status[x] = d.status[x]
      BY <1>0, DatabaseFacts
    <2>6. /\ new \notin d.rows /\ new \in unlogged
          /\ \A x \in rows : x # new => x \in d.rows /\ x # old /\ x \in Id /\ (x \in d.unlogged => x \in unlogged)
      BY <1>0, <1>5 DEF After
    <2> HIDE DEF all, refs, turned, status, text, unlogged, e, rows
    <2>7. /\ e \in Database /\ e.refs = all /\ e.rows = rows /\ e.log = d.log /\ e.numbers = d.numbers
          /\ e.shrunk = d.shrunk /\ e.unchecked = d.unchecked /\ e.renumbered = d.renumbered
          /\ e.status = status /\ e.unlogged = unlogged
      BY <1>0, <1>3, <2>3, <2>4 DEF Database
    <2>8. \A x \in rows :
              \/ x \in unlogged
              \/ x \in d.rows /\ status[x] = d.status[x] /\ (x \in d.unlogged => x \in unlogged)
      BY <2>5, <2>6
    <2> QED  BY <2>5, <2>7, <2>8 DEF all, e, rows
  <1> QED  BY <1>4, <1>5

\* A rename loses no reference, and touches nothing that depends on results.
LEMMA RenamedSound ==
  ASSUME NEW d, Sound(d), NEW old, NEW new, OneTable(old, new), ~({old, new} \subseteq d.rows)
  PROVE  /\ Sound(RenamedRow(d, old, new)) /\ Alike(RenamedRow(d, old, new), d)
         /\ RenamedRow(d, old, new).numbers = d.numbers
PROOF
  <1> DEFINE e == RenamedRow(d, old, new)
  <1>1. /\ e \in Database
        /\ e.refs = {Turned(r, old, new) : r \in d.refs}
        /\ e.rows = {After(x, old, new) : x \in d.rows}
        /\ e.log = d.log /\ e.numbers = d.numbers /\ e.shrunk = d.shrunk
        /\ e.unchecked = d.unchecked /\ e.renumbered = d.renumbered
        /\ \A x \in Id \ {old, new} : e.status[x] = d.status[x]
        /\ \A x \in e.rows :
             \/ x \in e.unlogged
             \/ x \in d.rows /\ e.status[x] = d.status[x] /\ (x \in d.unlogged => x \in e.unlogged)
    BY RenamedFields
  <1> HIDE DEF e
  <1>2. /\ d \in Database /\ d.refs \subseteq Reference /\ d.rows \subseteq Id /\ IsFiniteSet(d.numbers)
        /\ \A r \in d.refs : r[1] \in d.rows
        /\ Single(d) /\ Scoped(d) /\ Explained(d) /\ Logged(d)
        /\ d.unchecked \subseteq Evidence /\ \A x \in Evidence : d.log[x] = Absent
    BY DatabaseFacts DEF Sound
  <1>3. /\ old \notin Held /\ new \notin Held
        /\ \A x \in Held : After(x, old, new) = x
    BY Tables DEF OneTable, After
  <1>4. \A r \in d.refs : r[2] \in {"result", "judged", "defect"} => Turned(r, old, new) = r
    BY <1>2, TurnedTyped
  <1>5. \A r \in d.refs : Turned(r, old, new)[2] = r[2] /\ Turned(r, old, new)[1] = After(r[1], old, new)
                          /\ Turned(r, old, new)[3] = After(r[3], old, new)
    BY DEF Turned
  <1>6. \A r \in e.refs : r[1] \in e.rows
    BY <1>1, <1>2, <1>5
  <1>7. Single(e)
    <2> SUFFICES ASSUME NEW r \in e.refs, NEW t \in e.refs, r[1] = t[1], r[2] = t[2]
                 PROVE  r = t
      BY DEF Single
    <2>1. PICK u \in d.refs : r = Turned(u, old, new)
      BY <1>1
    <2>2. PICK v \in d.refs : t = Turned(v, old, new)
      BY <1>1
    <2>3. u[2] = v[2] /\ After(u[1], old, new) = After(v[1], old, new)
      BY <1>5, <2>1, <2>2
    <2>4. u[1] = v[1]
      BY <1>2, <2>3 DEF After
    <2>5. u = v
      BY <1>2, <2>3, <2>4 DEF Single
    <2> QED  BY <2>1, <2>2, <2>5
  <1>8. Scoped(e)
    <2> SUFFICES ASSUME NEW r \in e.refs, r[1] \in Evidence \ e.unchecked, r[2] = "judged"
                 PROVE  \E s \in Result : {<<r[1], "result", s>>, <<r[3], "result", s>>} \subseteq e.refs
      BY DEF Scoped
    <2>1. r \in d.refs
      BY <1>1, <1>4, <1>5
    <2>2. PICK s \in Result : {<<r[1], "result", s>>, <<r[3], "result", s>>} \subseteq d.refs
      BY <1>1, <1>2, <2>1 DEF Scoped
    <2>3. \A a : <<a, "result", s>> \in d.refs => <<a, "result", s>> \in e.refs
      <3> SUFFICES ASSUME NEW a, <<a, "result", s>> \in d.refs  PROVE <<a, "result", s>> \in e.refs
        OBVIOUS
      <3>1. Turned(<<a, "result", s>>, old, new) = <<a, "result", s>>
        BY <1>4
      <3> QED  BY <1>1, <3>1
    <2> QED  BY <2>2, <2>3
  <1>9. Explained(e)
    <2> SUFFICES ASSUME NEW r \in e.refs, r[3] \notin e.rows
                 PROVE  r[1] \in Defect \/ r[2] \in {"target", "config"} \/ r[1] \in e.unchecked
      BY DEF Explained, Dangling
    <2>1. PICK t \in d.refs : r = Turned(t, old, new)
      BY <1>1
    <2>2. t[3] \notin d.rows
      BY <1>1, <1>5, <2>1
    <2>3. t[1] \in Defect \/ t[2] \in {"target", "config"} \/ t[1] \in d.unchecked
      BY <1>2, <2>2 DEF Explained, Dangling
    <2>4. t[1] \in Defect \cup d.unchecked => r[1] = t[1]
      BY <1>2, <1>3, <1>5, <2>1 DEF Held
    <2> QED  BY <1>1, <1>5, <2>1, <2>3, <2>4
  <1>10. Logged(e)
    BY <1>1, <1>2 DEF Logged
  <1>11. Sound(e)
    BY <1>1, <1>2, <1>6, <1>7, <1>8, <1>9, <1>10 DEF Sound
  <1>12. e.rows \cap Held = d.rows \cap Held
    BY <1>1, <1>3 DEF After
  <1>13. HeldRefs(e) = HeldRefs(d)
    <2>1. ASSUME NEW r \in HeldRefs(e)  PROVE r \in HeldRefs(d)
      BY <1>1, <1>4, <1>5 DEF HeldRefs
    <2>2. ASSUME NEW r \in HeldRefs(d)  PROVE r \in HeldRefs(e)
      BY <1>1, <1>4 DEF HeldRefs
    <2> QED  BY <2>1, <2>2
  <1>14. \A x \in Judging : e.status[x] = d.status[x]
    BY <1>1, <1>3 DEF Judging, Held, Id
  <1> QED  BY <1>1, <1>11, <1>12, <1>13, <1>14 DEF Alike, e

-----------------------------------------------------------------------------
\* The cascades

\* The table of a parent tells the column.
LEMMA ParentFacts ==
  ASSUME NEW r \in Reference
  PROVE  /\ r[3] \in Round => r[2] = "round"
         /\ r[3] \in Target => r[2] = "target"
         /\ r[3] \in Config => r[2] = "config"
         /\ r[3] \in Case => r[2] = "case"
         /\ r[3] \in Procedure => r[2] = "procedure"
         /\ r[3] \in Run => r[2] = "run"
         /\ r[3] \in Result => r[2] = "result"
         /\ r[3] \in Judged => r[2] = "judged"
         /\ r[3] \in Defect => r[2] = "defect"
         /\ r[3] \notin Evidence
PROOF
  <1>1. /\ r[2] = "round" => r[3] \in Round
        /\ r[2] = "target" => r[3] \in Target
        /\ r[2] = "config" => r[3] \in Config
        /\ r[2] = "case" => r[3] \in Case
        /\ r[2] = "procedure" => r[3] \in Procedure
        /\ r[2] = "run" => r[3] \in Run
        /\ r[2] = "result" => r[3] \in Result
        /\ r[2] = "judged" => r[3] \in Judged
        /\ r[2] = "defect" => r[3] \in Defect
        /\ r[2] \in {"round", "target", "config", "case", "run", "result", "procedure", "judged", "defect"}
    BY ReferenceFacts
  <1> QED  BY <1>1, Tables DEF Held

LEMMA ChildrenFacts ==
  ASSUME NEW d, d.refs \subseteq Reference, NEW S, NEW column
  PROVE  /\ \A r \in d.refs : r[2] = column /\ r[3] \in S => r[1] \in Children(d, S, column)
         /\ \A x \in Children(d, S, column) :
              \E r \in d.refs : r[1] = x /\ r[2] = column /\ r[3] \in S /\ r = <<x, column, r[3]>>
PROOF
  BY ReferenceFacts DEF Children

\* Checked evidence about a procedure result is evidence of its result.
LEMMA ProofOfResults ==
  ASSUME NEW d, Sound(d), NEW results, NEW r \in d.refs, r[2] = "judged",
         r[3] \in Children(d, results, "result"), r[1] \in Evidence \ d.unchecked
  PROVE  r[1] \in Children(d, results, "result")
PROOF
  <1>0. d.refs \subseteq Reference /\ Single(d) /\ Scoped(d)
    BY DatabaseFacts DEF Sound
  <1>1. PICK s \in Result : {<<r[1], "result", s>>, <<r[3], "result", s>>} \subseteq d.refs
    BY <1>0 DEF Scoped
  <1>2. PICK u \in d.refs : u = <<r[3], "result", u[3]>> /\ u[3] \in results
    BY <1>0, ChildrenFacts
  <1>3. u = <<r[3], "result", s>>
    BY <1>0, <1>1, <1>2 DEF Single
  <1>4. s \in results
    BY <1>2, <1>3
  <1>5. <<r[1], "result", s>> \in d.refs /\ <<r[1], "result", s>>[2] = "result" /\ <<r[1], "result", s>>[3] \in results
    BY <1>1, <1>4
  <1>6. <<r[1], "result", s>>[1] \in Children(d, results, "result")
    BY <1>0, <1>5, ChildrenFacts
  <1> QED  BY <1>6

\* No row that stays refers to one that goes, but defects, runs to their target and
\* configuration, and unchecked evidence: cascade of a round or a run,
LEMMA CascadeRun ==
  ASSUME NEW d, Sound(d), NEW S, S # {}, S \subseteq Round \/ S \subseteq Run,
         NEW r \in d.refs, r[3] \in Doomed(d, S), r[1] \notin Doomed(d, S)
  PROVE  r[1] \in Defect \/ r[1] \in d.unchecked
PROOF
  <1> DEFINE runs    == Children(d, S, "round")
             results == Children(d, S \cup runs, "run")
             judged  == Children(d, results, "result") \cap Judged
             proof   == Children(d, results, "result") \cap Evidence
  <1>0. d.refs \subseteq Reference
    BY DatabaseFacts DEF Sound
  <1>1. /\ S \subseteq Round => Doomed(d, S) = S \cup runs \cup results \cup judged \cup proof
        /\ ~(S \subseteq Round) => Doomed(d, S) = S \cup results \cup judged \cup proof
    <2>1. CASE S \subseteq Round
      <3>1. ~(S \subseteq Run) /\ ~(S \subseteq Case) /\ ~(S \subseteq Procedure)
        BY <2>1, Tables
      <3> QED  BY <2>1, <3>1 DEF Doomed
    <2>2. CASE ~(S \subseteq Round)
      <3>1. S \subseteq Run /\ ~(S \subseteq Case) /\ ~(S \subseteq Procedure)
        BY <2>2, Tables
      <3> QED  BY <2>2, <3>1 DEF Doomed
    <2> QED  BY <2>1, <2>2
  <1>2. /\ \A u \in d.refs : u[2] = "round" /\ u[3] \in S => u[1] \in runs
        /\ \A u \in d.refs : u[2] = "run" /\ u[3] \in S \cup runs => u[1] \in results
        /\ \A u \in d.refs : u[2] = "result" /\ u[3] \in results => u[1] \in Children(d, results, "result")
    BY <1>0, ChildrenFacts
  <1>3. runs \subseteq Run
    BY <1>0, ChildrenFacts, ReferenceFacts
  <1>4. results \subseteq Result
    BY <1>0, ChildrenFacts, ReferenceFacts
  <1>5. r \in Reference
    BY <1>0
  <1>6. ASSUME r[1] \in Evidence, r[1] \notin d.unchecked, r[2] = "judged", r[3] \in Children(d, results, "result")
        PROVE  r[1] \in Children(d, results, "result")
    BY <1>6, ProofOfResults
  <1> HIDE DEF runs, results
  <1>7. CASE r[3] \in S
    BY <1>1, <1>2, <1>5, <1>7, ParentFacts
  <1>8. CASE r[3] \in runs
    BY <1>1, <1>2, <1>3, <1>5, <1>8, ParentFacts
  <1>9. CASE r[3] \in results
    <2>1. r[2] = "result" /\ r[1] \in Judged \cup Defect \cup Evidence
      BY <1>4, <1>5, <1>9, ParentFacts, ReferenceFacts
    <2> QED  BY <1>1, <1>2, <1>9, <2>1
  <1>10. CASE r[3] \in judged
    <2>1. r[2] = "judged" /\ r[1] \in Defect \cup Evidence
      BY <1>5, <1>10, ParentFacts, ReferenceFacts
    <2> QED  BY <1>1, <1>6, <1>10, <2>1
  <1>11. CASE r[3] \in proof
    BY <1>5, <1>11, ParentFacts
  <1> QED  BY <1>1, <1>7, <1>8, <1>9, <1>10, <1>11

\* of a case or a procedure.
LEMMA CascadeCase ==
  ASSUME NEW d, Sound(d), NEW S, S # {}, S \subseteq Case \/ S \subseteq Procedure,
         NEW r \in d.refs, r[3] \in Doomed(d, S), r[1] \notin Doomed(d, S)
  PROVE  r[1] \in Defect \/ r[1] \in d.unchecked
PROOF
  <1> DEFINE procedures == Children(d, S, "case") \cap Procedure
             ofCase     == Children(d, S, "case") \cap Result
             done       == Children(d, procedures, "procedure")
             did        == Children(d, S, "procedure")
             about      == Children(d, ofCase, "result")
  <1>0. d.refs \subseteq Reference
    BY DatabaseFacts DEF Sound
  <1>1. ~(S \subseteq Round) /\ ~(S \subseteq Run)
    BY Tables
  <1>2. /\ S \subseteq Case => Doomed(d, S) = S \cup procedures \cup ofCase \cup done
                   \cup (about \cap (Judged \cup Evidence))
                   \cup (Children(d, done, "judged") \cap Evidence)
        /\ ~(S \subseteq Case) => Doomed(d, S) = S \cup did \cup (Children(d, did, "judged") \cap Evidence)
    <2>1. CASE S \subseteq Case
      <3>1. ~(S \subseteq Procedure)
        BY <2>1, Tables
      <3> QED  BY <1>1, <2>1, <3>1 DEF Doomed
    <2>2. CASE ~(S \subseteq Case)
      <3>1. S \subseteq Procedure
        BY <2>2
      <3> QED  BY <1>1, <2>2, <3>1 DEF Doomed
    <2> QED  BY <2>1, <2>2
  <1>3. /\ \A u \in d.refs : u[2] = "case" /\ u[3] \in S => u[1] \in Children(d, S, "case")
        /\ \A u \in d.refs : u[2] = "procedure" /\ u[3] \in procedures => u[1] \in done
        /\ \A u \in d.refs : u[2] = "procedure" /\ u[3] \in S => u[1] \in did
        /\ \A u \in d.refs : u[2] = "result" /\ u[3] \in ofCase => u[1] \in about
        /\ \A u \in d.refs : u[2] = "judged" /\ u[3] \in done => u[1] \in Children(d, done, "judged")
        /\ \A u \in d.refs : u[2] = "judged" /\ u[3] \in did => u[1] \in Children(d, did, "judged")
    BY <1>0, ChildrenFacts
  <1>4. done \subseteq Judged /\ did \subseteq Judged
    BY <1>0, ChildrenFacts, ReferenceFacts
  <1>5. r \in Reference
    BY <1>0
  <1>6. ASSUME r[1] \in Evidence, r[1] \notin d.unchecked, r[2] = "judged", r[3] \in about
        PROVE  r[1] \in about
    BY <1>6, ProofOfResults
  <1> HIDE DEF done, did, about
  <1>7. CASE S \subseteq Case
    <2>1. CASE r[3] \in S
      <3>1. r[2] = "case" /\ r[1] \in Procedure \cup Result
        BY <1>5, <1>7, <2>1, ParentFacts, ReferenceFacts
      <3> QED  BY <1>2, <1>3, <1>7, <2>1, <3>1
    <2>2. CASE r[3] \in procedures
      BY <1>2, <1>3, <1>5, <1>7, <2>2, ParentFacts
    <2>3. CASE r[3] \in ofCase
      <3>1. r[2] = "result" /\ r[1] \in Judged \cup Defect \cup Evidence
        BY <1>5, <2>3, ParentFacts, ReferenceFacts
      <3> QED  BY <1>2, <1>3, <1>7, <2>3, <3>1
    <2>4. CASE r[3] \in done
      <3>1. r[2] = "judged" /\ r[1] \in Defect \cup Evidence
        BY <1>4, <1>5, <2>4, ParentFacts, ReferenceFacts
      <3> QED  BY <1>2, <1>3, <1>7, <2>4, <3>1
    <2>5. CASE r[3] \in about \cap Judged
      <3>1. r[2] = "judged" /\ r[1] \in Defect \cup Evidence
        BY <1>5, <2>5, ParentFacts, ReferenceFacts
      <3> QED  BY <1>2, <1>6, <1>7, <2>5, <3>1
    <2>6. CASE r[3] \in Evidence
      BY <1>5, <2>6, ParentFacts
    <2> QED  BY <1>2, <1>7, <2>1, <2>2, <2>3, <2>4, <2>5, <2>6
  <1>8. CASE ~(S \subseteq Case)
    <2>1. CASE r[3] \in S
      <3>1. r[2] = "procedure"
        BY <1>5, <1>8, <2>1, ParentFacts
      <3> QED  BY <1>2, <1>3, <1>8, <2>1, <3>1
    <2>2. CASE r[3] \in did
      <3>1. r[2] = "judged" /\ r[1] \in Defect \cup Evidence
        BY <1>4, <1>5, <2>2, ParentFacts, ReferenceFacts
      <3> QED  BY <1>2, <1>3, <1>8, <2>2, <3>1
    <2>3. CASE r[3] \in Evidence
      BY <1>5, <2>3, ParentFacts
    <2> QED  BY <1>2, <1>8, <2>1, <2>2, <2>3
  <1> QED  BY <1>7, <1>8

Tableful(S) == \/ S \subseteq Round \/ S \subseteq Target \/ S \subseteq Config \/ S \subseteq Case
               \/ S \subseteq Procedure \/ S \subseteq Run \/ S \subseteq Judged \/ S \subseteq Defect

LEMMA Cascade ==
  ASSUME NEW d, Sound(d), NEW S, S # {}, Tableful(S),
         NEW r \in d.refs, r \notin Cleared(d, S), r[3] \in Doomed(d, S), r[1] \notin Doomed(d, S)
  PROVE  r[1] \in Defect \/ r[2] \in {"target", "config"} \/ r[1] \in d.unchecked
PROOF
  <1>0. r \in Reference
    BY DatabaseFacts DEF Sound
  <1>1. CASE S \subseteq Round \/ S \subseteq Run
    BY <1>1, CascadeRun
  <1>2. CASE S \subseteq Case \/ S \subseteq Procedure
    BY <1>2, CascadeCase
  <1>3. CASE S \subseteq Target \/ S \subseteq Config \/ S \subseteq Judged \/ S \subseteq Defect
    <2>1. ~(S \subseteq Round) /\ ~(S \subseteq Run) /\ ~(S \subseteq Case) /\ ~(S \subseteq Procedure)
      BY <1>3, Tables DEF Held
    <2>2. r[3] \in S
      BY <2>1 DEF Doomed
    <2>3. CASE S \subseteq Target \/ S \subseteq Config
      BY <1>0, <2>2, <2>3, ParentFacts
    <2>4. CASE S \subseteq Judged
      <3>1. r[2] = "judged" /\ r[1] \in Defect \cup Evidence
        BY <1>0, <2>2, <2>4, ParentFacts, ReferenceFacts
      <3> QED  BY <2>2, <2>4, <3>1 DEF Cleared
    <2>5. CASE S \subseteq Defect
      <3>1. r[2] = "defect" /\ r[1] \in Evidence
        BY <1>0, <2>2, <2>5, ParentFacts, ReferenceFacts
      <3> QED  BY <2>2, <2>5, <3>1 DEF Cleared
    <2> QED  BY <1>3, <2>3, <2>4, <2>5
  <1> QED  BY <1>1, <1>2, <1>3 DEF Tableful

Gone(d, S) == Doomed(d, S) \cap d.rows
Emptied(d, S, b) == [Deleted(d, S) EXCEPT !.renumbered = b]

LEMMA DeletedHistory ==
  ASSUME NEW d \in Database, NEW S
  PROVE  Deleted(d, S).renumbered = d.renumbered
PROOF
  <1> DEFINE blank == ""
             gone == Doomed(d, S) \cap d.rows
             f == [d EXCEPT !.rows = @ \ gone,
                     !.refs = {r \in @ \ Cleared(d, S) : r[1] \notin gone},
                     !.status = [x \in Id |-> IF x \in gone THEN Absent ELSE @[x]],
                     !.text = [x \in Id |-> IF x \in gone THEN blank ELSE @[x]],
                     !.log = [x \in Id |-> IF x \in Forgotten(d, S) THEN Absent ELSE @[x]],
                     !.numbers = {n \in @ : n[2] \notin Forgotten(d, S)},
                     !.unlogged = @ \ gone, !.unchecked = @ \ gone,
                     !.shrunk = (@ \cup UNION {Follow(d, {q}, "result") : q \in gone \cap Judged}) \ gone]
  <1>1. Deleted(d, S) = f
    BY DEF Deleted
  <1> HIDE DEF blank
  <1>2. f.renumbered = d.renumbered
    BY DEF Database
  <1> QED  BY <1>1, <1>2

\* What the cascade does to every field
LEMMA DeletedFields ==
  ASSUME NEW d \in Database, NEW S, NEW b \in BOOLEAN
  PROVE  LET e == Emptied(d, S, b) IN
         /\ e \in Database
         /\ e.rows = d.rows \ Gone(d, S)
         /\ e.refs = {r \in d.refs \ Cleared(d, S) : r[1] \notin Gone(d, S)}
         /\ e.numbers = {n \in d.numbers : n[2] \notin Forgotten(d, S)}
         /\ e.unlogged = d.unlogged \ Gone(d, S) /\ e.unchecked = d.unchecked \ Gone(d, S)
         /\ e.shrunk = (d.shrunk \cup UNION {Follow(d, {q}, "result") : q \in Gone(d, S) \cap Judged}) \ Gone(d, S)
         /\ e.renumbered = b
         /\ \A x \in Id : e.status[x] = IF x \in Gone(d, S) THEN Absent ELSE d.status[x]
         /\ \A x \in Id : e.log[x] = IF x \in Forgotten(d, S) THEN Absent ELSE d.log[x]
PROOF
  <1> DEFINE gone == Gone(d, S)
             blank == ""
             rows == d.rows \ gone
             refs == {r \in d.refs \ Cleared(d, S) : r[1] \notin gone}
             status == [x \in Id |-> IF x \in gone THEN Absent ELSE d.status[x]]
             text == [x \in Id |-> IF x \in gone THEN blank ELSE d.text[x]]
             log == [x \in Id |-> IF x \in Forgotten(d, S) THEN Absent ELSE d.log[x]]
             numbers == {n \in d.numbers : n[2] \notin Forgotten(d, S)}
             unlogged == d.unlogged \ gone
             unchecked == d.unchecked \ gone
             shrunk == (d.shrunk \cup UNION {Follow(d, {q}, "result") : q \in gone \cap Judged}) \ gone
             e == Emptied(d, S, b)
  <1>1. Deleted(d, S) = [d EXCEPT !.rows = rows, !.refs = refs, !.status = status, !.text = text, !.log = log,
                         !.numbers = numbers, !.unlogged = unlogged, !.unchecked = unchecked, !.shrunk = shrunk]
    BY DEF Deleted, Database, Gone
  <1>2. Absent \in Word /\ blank \in Text
    BY DEF Word, Status, Text
  <1>3. /\ d.rows \in SUBSET Id /\ d.refs \in SUBSET Reference
        /\ d.status \in [Id -> Word] /\ d.text \in [Id -> Text] /\ d.log \in [Id -> Word]
        /\ d.numbers \in SUBSET (Nat \X Id)
        /\ d.unlogged \in SUBSET Id /\ d.shrunk \in SUBSET Result /\ d.unchecked \in SUBSET Id
    BY DatabaseFacts
  <1>4. shrunk \in SUBSET Result
    <2>1. \A q : Follow(d, {q}, "result") \subseteq Result
      BY <1>3, ReferenceFacts DEF Follow
    <2> QED  BY <1>3, <2>1
  <1> HIDE DEF blank
  <1>5. status \in [Id -> Word] /\ text \in [Id -> Text] /\ log \in [Id -> Word]
    BY <1>2, <1>3
  <1>6. rows \in SUBSET Id /\ refs \in SUBSET Reference /\ numbers \in SUBSET (Nat \X Id)
        /\ unlogged \in SUBSET Id /\ unchecked \in SUBSET Id
    BY <1>3
  <1>7. /\ \A x \in Id : status[x] = IF x \in gone THEN Absent ELSE d.status[x]
        /\ \A x \in Id : log[x] = IF x \in Forgotten(d, S) THEN Absent ELSE d.log[x]
    OBVIOUS
  <1> DEFINE f == [d EXCEPT !.rows = rows, !.refs = refs, !.status = status, !.text = text, !.log = log]
             g == [f EXCEPT !.numbers = numbers, !.unlogged = unlogged, !.unchecked = unchecked, !.shrunk = shrunk]
  <1>8. e = [g EXCEPT !.renumbered = b]
    BY <1>1 DEF Emptied
  <1> HIDE DEF rows, refs, status, text, log, numbers, unlogged, unchecked, shrunk, e
  <1>8a. /\ f \in Database /\ f.rows = rows /\ f.refs = refs /\ f.status = status /\ f.log = log
    BY <1>5, <1>6 DEF Database
  <1> HIDE DEF f
  <1>8b. /\ g \in Database /\ g.rows = rows /\ g.refs = refs /\ g.status = status /\ g.log = log
         /\ g.numbers = numbers /\ g.unlogged = unlogged /\ g.unchecked = unchecked /\ g.shrunk = shrunk
    BY <1>4, <1>6, <1>8a DEF Database
  <1> HIDE DEF g
  <1>9. /\ e \in Database /\ e.rows = rows /\ e.refs = refs /\ e.status = status /\ e.log = log
        /\ e.numbers = numbers /\ e.unlogged = unlogged /\ e.unchecked = unchecked /\ e.shrunk = shrunk
        /\ e.renumbered = b
    BY <1>8, <1>8b DEF Database
  <1> QED  BY <1>7, <1>9 DEF e, rows, refs, numbers, unlogged, unchecked, shrunk

\* A cascade leaves only what DanglingIsExplained allows without a row.
LEMMA DeletedSound ==
  ASSUME NEW d, Sound(d), NEW S, S # {}, Tableful(S), NEW b \in BOOLEAN
  PROVE  /\ Sound(Emptied(d, S, b))
         /\ \A r \in Emptied(d, S, b).refs :
              r[1] \in Evidence \ d.unchecked /\ r[2] = "judged" => r[3] \notin Gone(d, S)
PROOF
  <1> DEFINE e == Emptied(d, S, b)
             gone == Gone(d, S)
  <1>1. /\ e \in Database
        /\ e.rows = d.rows \ gone
        /\ e.refs = {r \in d.refs \ Cleared(d, S) : r[1] \notin gone}
        /\ e.numbers = {n \in d.numbers : n[2] \notin Forgotten(d, S)}
        /\ e.unlogged = d.unlogged \ gone /\ e.unchecked = d.unchecked \ gone
        /\ \A x \in Id : e.status[x] = IF x \in gone THEN Absent ELSE d.status[x]
        /\ \A x \in Id : e.log[x] = IF x \in Forgotten(d, S) THEN Absent ELSE d.log[x]
    BY DeletedFields DEF Sound
  <1> HIDE DEF e
  <1>2. /\ d \in Database /\ d.refs \subseteq Reference /\ d.rows \subseteq Id /\ IsFiniteSet(d.numbers)
        /\ \A r \in d.refs : r[1] \in d.rows
        /\ Single(d) /\ Scoped(d) /\ Explained(d) /\ Logged(d)
        /\ d.unchecked \subseteq Evidence /\ \A x \in Evidence : d.log[x] = Absent
    BY DatabaseFacts DEF Sound
  <1>3. ASSUME NEW r \in e.refs, r[3] \in gone
        PROVE  r[1] \in Defect \/ r[2] \in {"target", "config"} \/ r[1] \in d.unchecked
    <2>1. r \in d.refs /\ r \notin Cleared(d, S) /\ r[3] \in Doomed(d, S) /\ r[1] \notin Doomed(d, S)
      BY <1>1, <1>2, <1>3 DEF Gone
    <2> QED  BY <2>1, Cascade
  <1>4. ASSUME NEW r \in e.refs, r[1] \in Evidence, r[1] \notin d.unchecked, r[2] = "judged"
        PROVE  r[3] \notin gone
    BY <1>3, <1>4, Tables
  <1>5. IsFiniteSet(e.numbers)
    <2>1. e.numbers \in SUBSET d.numbers
      BY <1>1
    <2> QED  BY <1>2, <2>1, FS_Subset
  <1>6. \A r \in e.refs : r[1] \in e.rows
    BY <1>1, <1>2
  <1>7. Single(e)
    BY <1>1, <1>2 DEF Single
  <1>8. Scoped(e)
    <2> SUFFICES ASSUME NEW r \in e.refs, r[1] \in Evidence \ e.unchecked, r[2] = "judged"
                 PROVE  \E s \in Result : {<<r[1], "result", s>>, <<r[3], "result", s>>} \subseteq e.refs
      BY DEF Scoped
    <2>1. r \in d.refs /\ r[1] \in Evidence /\ r[1] \notin d.unchecked
      BY <1>1
    <2>2. r[1] \notin gone /\ r[3] \notin gone
      BY <1>1, <1>4, <2>1
    <2>3. PICK s \in Result : {<<r[1], "result", s>>, <<r[3], "result", s>>} \subseteq d.refs
      BY <1>2, <2>1 DEF Scoped
    <2>4. \A a : <<a, "result", s>> \in d.refs /\ a \notin gone => <<a, "result", s>> \in e.refs
      BY <1>1 DEF Cleared
    <2> QED  BY <2>2, <2>3, <2>4
  <1>9. Explained(e)
    <2> SUFFICES ASSUME NEW r \in e.refs, r[3] \notin e.rows
                 PROVE  r[1] \in Defect \/ r[2] \in {"target", "config"} \/ r[1] \in e.unchecked
      BY DEF Explained, Dangling
    <2>1. r \in d.refs /\ r[1] \notin gone
      BY <1>1
    <2>2. CASE r[3] \in gone
      BY <1>1, <1>3, <2>1, <2>2
    <2>3. CASE r[3] \notin d.rows
      BY <1>1, <1>2, <2>1, <2>3 DEF Explained, Dangling
    <2> QED  BY <1>1, <2>2, <2>3
  <1>10. \A x \in Evidence : e.log[x] = Absent
    BY <1>1, <1>2 DEF Id
  <1>11. Logged(e)
    BY <1>1, <1>2 DEF Logged
  <1>12. e.unchecked \subseteq Evidence
    BY <1>1, <1>2
  <1>13. Sound(e)
    BY <1>1, <1>5, <1>6, <1>7, <1>8, <1>9, <1>10, <1>11, <1>12 DEF Sound
  <1> QED  BY <1>4, <1>13 DEF e

\* A cascade keeps the summary of a result that stays, or notes that it shrank; the
\* flush of the same session before or after it makes no difference.
LEMMA DeletedSummed ==
  ASSUME NEW d, Sound(d), NEW S, NEW b \in BOOLEAN, NEW D \in Database, NEW E \in Database,
         Summed(D), D.rows = d.rows, D.refs = d.refs, D.shrunk = d.shrunk,
         E.rows = Emptied(d, S, b).rows, E.refs = Emptied(d, S, b).refs, E.shrunk = Emptied(d, S, b).shrunk,
         \A x \in Judging \ Gone(d, S) : E.status[x] = D.status[x]
  PROVE  Summed(E)
PROOF
  <1> DEFINE gone == Gone(d, S)
  <1>0. d \in Database /\ d.refs \subseteq Reference /\ \A r \in d.refs : r[1] \in d.rows
    BY DatabaseFacts DEF Sound
  <1>1. /\ E.rows = d.rows \ gone
        /\ E.refs = {r \in d.refs \ Cleared(d, S) : r[1] \notin gone}
        /\ E.shrunk = (d.shrunk \cup UNION {Follow(d, {q}, "result") : q \in gone \cap Judged}) \ gone
    <2> DEFINE e == Emptied(d, S, b)
    <2>0. d \in Database
      BY <1>0
    <2>1. e.rows = d.rows \ Gone(d, S)
      BY <2>0, DeletedFields
    <2>2a. e.refs = {r \in d.refs \ Cleared(d, S) : r[1] \notin Gone(d, S)}
      BY <2>0, DeletedFields
    <2>2b. e.shrunk = (d.shrunk \cup UNION {Follow(d, {q}, "result") : q \in Gone(d, S) \cap Judged}) \ Gone(d, S)
      BY <2>0, DeletedFields, ZenonT(30)
    <2>2. E.rows = e.rows /\ E.refs = e.refs /\ E.shrunk = e.shrunk
      OBVIOUS
    <2> HIDE DEF e
    <2> QED  BY <2>1, <2>2, <2>2a, <2>2b
  <1> SUFFICES ASSUME NEW s \in E.rows \cap Result, s \notin E.shrunk
               PROVE  /\ s \in D.rows /\ s \notin D.shrunk
                      /\ JudgedOf(E, s) = JudgedOf(D, s)
                      /\ E.status[s] = D.status[s]
                      /\ \A q \in JudgedOf(D, s) : E.status[q] = D.status[q]
    BY SummedFrom
  <1>2. s \in d.rows /\ s \notin gone /\ s \notin d.shrunk
    BY <1>1
  <1>3. \A q \in gone \cap Judged : s \notin Follow(d, {q}, "result")
    <2> SUFFICES ASSUME NEW q \in gone \cap Judged, s \in Follow(d, {q}, "result")  PROVE FALSE
      OBVIOUS
    <2>1. Follow(d, {q}, "result") \subseteq UNION {Follow(d, {u}, "result") : u \in gone \cap Judged}
      OBVIOUS
    <2> QED  BY <1>1, <1>2, <2>1
  <1>4. JudgedOf(D, s) = {q \in Judged : <<q, "result", s>> \in d.refs}
    BY <1>0, JudgedOfFacts
  <1>5. JudgedOf(E, s) = {q \in Judged : <<q, "result", s>> \in E.refs}
    BY <1>0, <1>1, JudgedOfFacts
  <1>6. \A q \in Judged : <<q, "result", s>> \in d.refs => q \notin gone
    <2> SUFFICES ASSUME NEW q \in Judged, <<q, "result", s>> \in d.refs, q \in gone  PROVE FALSE
      OBVIOUS
    <2> DEFINE r == <<q, "result", s>>
    <2>1. r \in {t \in d.refs : t[1] \in {q} /\ t[2] = "result"} /\ r[3] = s
      OBVIOUS
    <2>2. s \in Follow(d, {q}, "result")
      BY <1>2, <2>1 DEF Follow
    <2> QED  BY <1>3, <2>2
  <1>7. \A q \in Judged : <<q, "result", s>> \in d.refs <=> <<q, "result", s>> \in E.refs
    BY <1>1, <1>6 DEF Cleared
  <1>8. JudgedOf(E, s) = JudgedOf(D, s)
    BY <1>4, <1>5, <1>7
  <1>9. E.status[s] = D.status[s]
    BY <1>2 DEF Judging
  <1>10. \A q \in JudgedOf(D, s) : E.status[q] = D.status[q]
    BY <1>4, <1>6 DEF Judging
  <1> QED  BY <1>2, <1>8, <1>9, <1>10

-----------------------------------------------------------------------------
\* The insertion

LEMMA DraftFacts ==
  ASSUME NEW r \in Drafts
  PROVE  /\ r \in Reference /\ r[1] \in Evidence /\ r[2] \in {"result", "judged", "defect"}
         /\ r[2] = "judged" => r[3] \in Judged
PROOF
  BY DEF Drafts, Reference

\* Evidence that finds its number free, and its parents or nobody who asks for them
LEMMA InsertedSound ==
  ASSUME NEW d, Sound(d), NEW draft \in SUBSET Drafts, NEW new,
         new = {r[1] : r \in draft}, new \cap d.rows = {},
         \A r, t \in draft : r[1] = t[1] /\ r[2] = t[2] => r = t,
         \A r \in draft : r[2] = "judged" =>
           \E s \in Result : <<r[1], "result", s>> \in draft
                             /\ (r[3] \in d.rows => <<r[3], "result", s>> \in d.refs),
         NEW e \in Database, e.rows = d.rows \cup new, e.refs = d.refs \cup draft,
         e.status = d.status, e.log = d.log, e.numbers = d.numbers, e.unlogged = d.unlogged,
         d.unchecked \subseteq e.unchecked, e.unchecked \subseteq d.unchecked \cup new,
         {r[3] : r \in draft} \subseteq d.rows \/ new \subseteq e.unchecked
  PROVE  Sound(e) /\ new \subseteq Evidence
PROOF
  <1>1. /\ d \in Database /\ d.refs \subseteq Reference /\ d.rows \subseteq Id /\ IsFiniteSet(d.numbers)
        /\ \A r \in d.refs : r[1] \in d.rows
        /\ Single(d) /\ Scoped(d) /\ Explained(d) /\ Logged(d)
        /\ d.unchecked \subseteq Evidence /\ \A x \in Evidence : d.log[x] = Absent
    BY DatabaseFacts DEF Sound
  <1>2. new \subseteq Evidence /\ draft \subseteq Reference /\ Evidence \subseteq Id
    BY DraftFacts DEF Id
  <1>3. e.unchecked \subseteq Evidence
    BY <1>1, <1>2
  <1>8. \A r \in draft : r[1] \in new
    OBVIOUS
  <1>9. \A r \in e.refs : r[1] \in e.rows
    BY <1>1, <1>8
  <1>10. Single(e)
    <2>1. \A r \in d.refs : \A t \in draft : r[1] # t[1]
      BY <1>1, <1>8
    <2> QED  BY <1>1, <2>1 DEF Single
  <1>11. Scoped(e)
    <2> SUFFICES ASSUME NEW r \in e.refs, r[1] \in Evidence \ e.unchecked, r[2] = "judged"
                 PROVE  \E s \in Result : {<<r[1], "result", s>>, <<r[3], "result", s>>} \subseteq e.refs
      BY DEF Scoped
    <2>1. CASE r \in d.refs
      <3>1. PICK s \in Result : {<<r[1], "result", s>>, <<r[3], "result", s>>} \subseteq d.refs
        BY <1>1, <2>1 DEF Scoped
      <3> QED  BY <3>1
    <2>2. CASE r \in draft
      <3>1. ~(new \subseteq e.unchecked)
        BY <1>8, <2>2
      <3>2. r[3] \in d.rows
        BY <2>2, <3>1
      <3>3. PICK s \in Result : <<r[1], "result", s>> \in draft /\ <<r[3], "result", s>> \in d.refs
        BY <2>2, <3>2
      <3> QED  BY <3>3
    <2> QED  BY <2>1, <2>2
  <1>12. Explained(e)
    <2> SUFFICES ASSUME NEW r \in e.refs, r[3] \notin e.rows
                 PROVE  r[1] \in Defect \/ r[2] \in {"target", "config"} \/ r[1] \in e.unchecked
      BY DEF Explained, Dangling
    <2>1. CASE r \in d.refs
      BY <1>1, <2>1 DEF Explained, Dangling
    <2>2. CASE r \in draft
      BY <1>8, <2>2
    <2> QED  BY <2>1, <2>2
  <1>13. Logged(e)
    BY <1>1, <1>2 DEF Logged
  <1>14. Sound(e)
    BY <1>1, <1>3, <1>9, <1>10, <1>11, <1>12, <1>13 DEF Sound
  <1> QED  BY <1>2, <1>14

\* New evidence is no procedure result.
LEMMA InsertedSummed ==
  ASSUME NEW draft \in SUBSET Drafts, NEW new \in SUBSET Evidence, NEW D \in Database, NEW E \in Database,
         Summed(D), E.rows = D.rows \cup new, E.refs = D.refs \cup draft, E.shrunk = D.shrunk,
         \A x \in Judging : E.status[x] = D.status[x]
  PROVE  Summed(E)
PROOF
  <1>0. D.refs \subseteq Reference /\ E.refs \subseteq Reference
    BY DatabaseFacts
  <1> SUFFICES ASSUME NEW s \in E.rows \cap Result, s \notin E.shrunk
               PROVE  /\ s \in D.rows /\ s \notin D.shrunk
                      /\ JudgedOf(E, s) = JudgedOf(D, s)
                      /\ E.status[s] = D.status[s]
                      /\ \A q \in JudgedOf(D, s) : E.status[q] = D.status[q]
    BY SummedFrom
  <1>1. s \in D.rows
    BY Tables
  <1>2. \A q \in Judged : <<q, "result", s>> \notin draft
    <2> SUFFICES ASSUME NEW q \in Judged, <<q, "result", s>> \in draft  PROVE FALSE
      OBVIOUS
    <2>1. <<q, "result", s>>[1] \in Evidence
      BY DraftFacts
    <2> QED  BY <2>1, Tables
  <1>3. JudgedOf(E, s) = {q \in Judged : <<q, "result", s>> \in E.refs}
    BY <1>0, JudgedOfFacts
  <1>4. JudgedOf(D, s) = {q \in Judged : <<q, "result", s>> \in D.refs}
    BY <1>0, JudgedOfFacts
  <1>5. JudgedOf(E, s) = JudgedOf(D, s) /\ JudgedOf(D, s) \subseteq Judged
    BY <1>2, <1>3, <1>4
  <1> QED  BY <1>1, <1>5 DEF Judging

-----------------------------------------------------------------------------
\* What a transaction sees

LEMMA Viewed ==
  ASSUME Types, Sound(db), InStep, Summary, NEW p \in Process
  PROVE  /\ Sound(View(p)) /\ View(p) \in Database /\ IsFiniteSet(View(p).numbers)
         /\ Alike(View(p), db) /\ db.numbers \subseteq View(p).numbers
         /\ View(p).renumbered = db.renumbered
         /\ ~db.renumbered => Summed(View(p))
         /\ ~db.renumbered /\ View(p).numbers # db.numbers => Taken(View(p), NextNumber(db))
         /\ NextNumber(View(p)) \in Nat /\ NextNumber(View(p)) # 0
PROOF
  <1>1. /\ Sound(View(p)) /\ Alike(View(p), db) /\ db.numbers \subseteq View(p).numbers
        /\ ~db.renumbered /\ View(p).numbers # db.numbers => Taken(View(p), NextNumber(db))
    <2>1. CASE writer = p
      <3>1. writer # None
        BY <2>1, TableAssumption
      <3>2. View(p) = work
        BY <2>1 DEF View
      <3> QED  BY <3>1, <3>2 DEF InStep
    <2>2. CASE writer # p
      <3>1. View(p) = db
        BY <2>2 DEF View
      <3>2. Alike(db, db)
        BY DEF Alike
      <3> QED  BY <3>1, <3>2
    <2> QED  BY <2>1, <2>2
  <1>2. View(p) \in Database /\ IsFiniteSet(View(p).numbers) /\ db \in Database
    BY <1>1 DEF Sound
  <1>3. ~db.renumbered => Summed(View(p))
    BY <1>1, <1>2, AlikeSummed DEF Summary
  <1>4. View(p).numbers \in SUBSET (Nat \X Id)
    BY <1>2, DatabaseFacts
  <1>5. NextNumber(View(p)) \in Nat /\ NextNumber(View(p)) # 0
    BY <1>2, <1>4, NextNumberType
  <1> QED  BY <1>1, <1>2, <1>3, <1>5 DEF Alike

\* A step of a session only
LEMMA SessionStep ==
  ASSUME Inductive, NEW p \in Process, NEW c \in Calls, Formed(c), Aimed(db, c),
         call' = [call EXCEPT ![p] = c], UNCHANGED <<db, writer, work, enforce>>,
         ~db.renumbered => Chosen(View(p), c.pend),
         ~db.renumbered /\ c.at = "saving" => Saves(View(p), c.pend)
  PROVE  Inductive'
PROOF
  <1>1. /\ call \in [Process -> Calls]
        /\ call'[p] = c /\ \A q \in Process : q # p => call'[q] = call[q]
        /\ call' \in [Process -> Calls]
    BY DEF Inductive, Types
  <1>2. \A q \in Process : View(q)' = View(q)
    BY DEF View
  <1>3. Types'
    BY <1>1 DEF Inductive, Types
  <1>4. Sound(db)' /\ InStep'
    BY DEF Inductive, InStep
  <1>5. Drafted'
    BY <1>1 DEF Inductive, Drafted
  <1>6. Numbered'
    BY <1>1, <1>2 DEF Inductive, Numbered
  <1>7. Summary'
    BY <1>1, <1>2 DEF Inductive, Summary
  <1> QED  BY <1>3, <1>4, <1>5, <1>6, <1>7 DEF Inductive

\* Nobody but the writer sees its copy.
LEMMA EndedForm ==
  /\ Ended \in Calls /\ Formed(Ended) /\ Ended.pend = {} /\ Ended.draft = {} /\ Ended.at = "ended"
  /\ Idle \in Calls /\ Formed(Idle) /\ Idle.pend = {} /\ Idle.draft = {} /\ Idle.at = "idle"
PROOF
  <1>1. /\ Ended = [at |-> "ended", conn |-> None, edits |-> <<>>, pend |-> {}, draft |-> {}]
        /\ Idle = [at |-> "idle", conn |-> None, edits |-> <<>>, pend |-> {}, draft |-> {}]
    BY DEF Ended, Idle
  <1>2. <<>> \in Seq(Cells) /\ IsFiniteSet({})
    BY FS_EmptySet
  <1> QED  BY <1>1, <1>2 DEF Calls, Formed, Maybe

LEMMA FailStep ==
  ASSUME Inductive, NEW p \in Process,
         call' = [call EXCEPT ![p] = Ended],
         writer' = IF writer = p THEN None ELSE writer,
         work' = IF writer = p THEN None ELSE work,
         UNCHANGED db, enforce' \in [Connection -> BOOLEAN]
  PROVE  Inductive'
PROOF
  <1>1. /\ call \in [Process -> Calls]
        /\ call'[p] = Ended /\ \A q \in Process : q # p => call'[q] = call[q]
        /\ call' \in [Process -> Calls]
    BY EndedForm DEF Inductive, Types
  <1>2. \A q \in Process : q # p => View(q)' = View(q)
    BY TableAssumption DEF View
  <1>3. Types'
    BY <1>1, EndedForm DEF Inductive, Types, Maybe
  <1>4. Sound(db)' /\ InStep'
    BY DEF Inductive, InStep
  <1>5. Drafted'
    BY <1>1, EndedForm DEF Inductive, Drafted, Aimed
  <1>6. Numbered'
    BY <1>1, <1>2, EndedForm DEF Inductive, Numbered, Chosen, Moves
  <1>7. Summary'
    BY <1>1, <1>2, EndedForm DEF Inductive, Summary
  <1> QED  BY <1>3, <1>4, <1>5, <1>6, <1>7 DEF Inductive

-----------------------------------------------------------------------------
\* The commit

\* What is committed has taken the next number, or no transition.
LEMMA FlushTakes ==
  ASSUME Inductive, NEW p \in Process, ~db.renumbered,
         NEW D \in Database, D.numbers = View(p).numbers, Flushable(D, call[p].pend)
  PROVE  \/ D.numbers = db.numbers /\ Moves(call[p].pend) = {}
         \/ Taken(Flushed(D, call[p].pend), NextNumber(db))
PROOF
  <1> DEFINE pend == call[p].pend
             e == Flushed(D, pend)
  <1>0. pend \in SUBSET Columns
    BY DEF Inductive, Types, Calls
  <1>1. e.numbers = D.numbers \cup {<<t[4], t[1]>> : t \in Moves(pend)}
    BY <1>0, FlushFields
  <1> HIDE DEF e
  <1>2. CASE D.numbers # db.numbers
    <2>1. Taken(View(p), NextNumber(db))
      BY <1>2, Viewed DEF Inductive
    <2> QED  BY <1>1, <2>1 DEF Taken, e
  <1>3. CASE D.numbers = db.numbers /\ Moves(pend) # {}
    <2>1. PICK u \in Moves(pend) : TRUE
      BY <1>3
    <2>2. ~Taken(View(p), u[4])
      BY <2>1 DEF Flushable, Taken
    <2>3. u[4] = NextNumber(View(p))
      BY <2>1, <2>2 DEF Inductive, Numbered, Chosen
    <2>4. NextNumber(View(p)) = NextNumber(db)
      BY <1>3 DEF NextNumber
    <2>5. <<u[4], u[1]>> \in e.numbers /\ <<u[4], u[1]>>[1] = u[4]
      BY <1>1, <2>1
    <2> QED  BY <2>3, <2>4, <2>5 DEF Taken, e
  <1> QED  BY <1>2, <1>3

\* A request keeps its number, or finds it taken, when another one commits.
LEMMA ChosenKept ==
  ASSUME NEW d, NEW e, NEW pend, Chosen(d, pend), d.numbers \subseteq e.numbers,
         e.numbers = d.numbers \/ Taken(e, NextNumber(d))
  PROVE  Chosen(e, pend)
PROOF
  <1>1. e.numbers = d.numbers => NextNumber(e) = NextNumber(d)
    BY DEF NextNumber
  <1> QED  BY <1>1 DEF Chosen, Taken

\* Of two saves that overlap only the first can be flushed.
LEMMA SavesKept ==
  ASSUME NEW d, Sound(d), NEW e, Sound(e), NEW pend \in SUBSET Columns,
         \A t \in pend : t[1] \in Judging /\ t[2] = "status" => t[4] # 0,
         Chosen(d, pend), Saves(d, pend), Summed(e), d.numbers \subseteq e.numbers,
         e.rows \cap Held = d.rows \cap Held,
         Alike(e, d) \/ Taken(e, NextNumber(d))
  PROVE  Saves(e, pend)
PROOF
  <1> SUFFICES ASSUME Fresh(e, pend)  PROVE Summed(Flushed(e, pend))
    BY DEF Saves
  <1>0. d \in Database /\ e \in Database
    BY DEF Sound
  <1>1. CASE \A t \in pend : t[1] \in Judging => t[2] # "status"
    BY <1>0, <1>1, FlushSummed
  <1>2. CASE \E t \in pend : t[1] \in Judging /\ t[2] = "status"
    <2>1. PICK t \in Moves(pend) : TRUE
      BY <1>2 DEF Moves
    <2>2. ~Taken(e, t[4])
      BY <2>1 DEF Fresh
    <2>3. t[4] = NextNumber(d)
      BY <2>1, <2>2 DEF Chosen, Taken
    <2>4. Alike(e, d)
      BY <2>2, <2>3
    <2>5. Fresh(d, pend)
      <3>1. \A u \in pend : u[1] \in Judging => u[1] \in d.rows
        BY DEF Fresh, Judging, Held
      <3> QED  BY <3>1 DEF Fresh, Taken
    <2>6. Summed(Flushed(d, pend))
      BY <2>5 DEF Saves
    <2>7. Alike(Flushed(e, pend), Flushed(d, pend))
      BY <1>0, <2>4, FlushBoth
    <2>8. Flushed(e, pend) \in Database /\ Flushed(d, pend) \in Database
      BY <1>0, FlushFields
    <2> QED  BY <2>6, <2>7, <2>8, AlikeSummed
  <1> QED  BY <1>1, <1>2

LEMMA CommitStep ==
  ASSUME Inductive, NEW p \in Process, NEW c \in Calls, Formed(c),
         c.pend = {}, c.draft = {}, c.at # "saving",
         call[p].at \in {"editing", "saving"}, Commits(p, c)
  PROVE  Inductive'
PROOF
  <1> DEFINE d == View(p)
             pend == call[p].pend
  <1>0. /\ Types /\ Sound(db) /\ InStep /\ Drafted /\ Numbered /\ Summary
        /\ db \in Database
    BY DEF Inductive, Sound
  <1>1. /\ db' = Flushed(d, pend) /\ Unlocked(p) /\ Flushable(d, pend)
        /\ call' = [call EXCEPT ![p] = c] /\ writer' = None /\ work' = None /\ UNCHANGED enforce
    BY DEF Commits
  <1>2. /\ call \in [Process -> Calls]
        /\ call'[p] = c /\ \A q \in Process : q # p => call'[q] = call[q]
        /\ call' \in [Process -> Calls]
    BY <1>0, <1>1 DEF Types
  <1>3. \A q \in Process : call[q] \in Calls /\ call[q].pend \in SUBSET Columns /\ call[q].draft \in SUBSET Drafts
                           /\ Formed(call[q])
    BY <1>0 DEF Types, Calls
  <1>4. /\ Sound(d) /\ d \in Database /\ Alike(d, db) /\ db.numbers \subseteq d.numbers
        /\ d.renumbered = db.renumbered
        /\ ~db.renumbered => Summed(d)
    BY <1>0, Viewed
  <1>5. \A q \in Process : q # p => View(q) = db /\ View(q)' = db'
    BY <1>1, TableAssumption DEF View, Unlocked
  <1> HIDE DEF d
  <1>6. Sound(db')
    BY <1>1, <1>3, <1>4, FlushSound DEF Formed
  <1>7. /\ db' \in Database /\ IsFiniteSet(db'.numbers)
        /\ db'.rows = d.rows /\ db'.refs = d.refs /\ db'.renumbered = d.renumbered
        /\ d.numbers \subseteq db'.numbers
        /\ db'.numbers = d.numbers \cup {<<t[4], t[1]>> : t \in Moves(pend)}
    BY <1>1, <1>3, <1>4, <1>6, FlushFields DEF Sound
  <1>8. Types'
    BY <1>0, <1>1, <1>2, <1>7, TableAssumption DEF Types, Maybe
  <1>9. InStep'
    BY <1>1 DEF InStep
  <1>10. Drafted'
    <2> SUFFICES ASSUME NEW q \in Process  PROVE Aimed(db', call'[q])
      BY DEF Drafted, Aimed
    <2>1. CASE q = p
      BY <1>2, <2>1 DEF Aimed
    <2>2. CASE q # p
      <3>1. Aimed(db, call[q]) /\ call'[q] = call[q]
        BY <1>0, <1>2, <2>2 DEF Drafted
      <3>2. ASSUME NEW r \in call[q].draft, r[2] = "judged"
            PROVE  /\ r[3] \in db'.rows => r[3] \in db.rows
                   /\ \A s : <<r[3], "result", s>> \in db.refs => <<r[3], "result", s>> \in db'.refs
        <4>1. r[3] \in Judged
          BY <1>3, <3>2, DraftFacts
        <4>2. r[3] \in db'.rows => r[3] \in db.rows
          BY <1>4, <1>7, <4>1 DEF Alike, Held
        <4>3. \A s : <<r[3], "result", s>> \in db.refs => <<r[3], "result", s>> \in HeldRefs(db)
          BY DEF HeldRefs
        <4>4. \A s : <<r[3], "result", s>> \in HeldRefs(d) => <<r[3], "result", s>> \in d.refs
          BY DEF HeldRefs
        <4> QED  BY <1>4, <1>7, <4>2, <4>3, <4>4 DEF Alike
      <3> QED  BY <3>1, <3>2 DEF Aimed
    <2> QED  BY <2>1, <2>2
  <1>11. ~db.renumbered => \/ db'.numbers = db.numbers /\ Moves(pend) = {}
                           \/ Taken(db', NextNumber(db))
    <2> SUFFICES ASSUME ~db.renumbered
                 PROVE  \/ db'.numbers = db.numbers /\ Moves(pend) = {}
                        \/ Taken(db', NextNumber(db))
      OBVIOUS
    <2>1. \/ d.numbers = db.numbers /\ Moves(pend) = {}
          \/ Taken(Flushed(d, pend), NextNumber(db))
      BY <1>1, <1>4, FlushTakes DEF d
    <2> QED  BY <1>1, <1>7, <2>1
  <1>12. ~db.renumbered => Summed(db')
    <2> SUFFICES ASSUME ~db.renumbered  PROVE Summed(db')
      OBVIOUS
    <2>1. CASE call[p].at = "saving"
      <3>1. Fresh(d, pend)
        BY <1>1 DEF Fresh, Flushable, Taken
      <3>2. Saves(d, pend)
        BY <1>0, <2>1 DEF Summary, d
      <3> QED  BY <1>1, <3>1, <3>2 DEF Saves
    <2>2. CASE call[p].at # "saving"
      BY <1>1, <1>3, <1>4, <2>2, FlushSummed DEF Formed
    <2> QED  BY <2>1, <2>2
  <1>13. ASSUME ~db'.renumbered, NEW q \in Process  PROVE Chosen(View(q)', call'[q].pend)
    <2>1. CASE q = p
      BY <1>2, <2>1 DEF Chosen, Moves
    <2>2. CASE q # p
      <3>1. Chosen(db, call[q].pend)
        BY <1>0, <1>4, <1>5, <1>7, <1>13, <2>2 DEF Numbered
      <3>2. Chosen(db', call[q].pend)
        BY <1>4, <1>7, <1>11, <1>13, <3>1, ChosenKept
      <3> QED  BY <1>2, <1>5, <2>2, <3>2
    <2> QED  BY <2>1, <2>2
  <1>14. Numbered'
    BY <1>13 DEF Numbered, Chosen
  <1>15. ASSUME ~db'.renumbered, NEW q \in Process, call'[q].at = "saving"
         PROVE  Saves(View(q)', call'[q].pend)
    <2>1. q # p
      BY <1>2, <1>15
    <2>2. Chosen(db, call[q].pend) /\ Saves(db, call[q].pend)
      BY <1>0, <1>2, <1>4, <1>5, <1>7, <1>15, <2>1 DEF Numbered, Summary
    <2>3. Alike(db', db) \/ Taken(db', NextNumber(db))
      <3> SUFFICES ASSUME Moves(pend) = {}  PROVE Alike(db', db)
        BY <1>4, <1>7, <1>11, <1>15
      <3>1. \A t \in pend : t[1] \in Judging => t[2] # "status"
        BY <1>3 DEF Formed, Moves
      <3>2. Alike(db', d)
        BY <1>1, <1>3, <1>4, <3>1, FlushAlike
      <3> QED  BY <1>4, <3>2, AlikeTwice
    <2>4. db'.rows \cap Held = db.rows \cap Held
      BY <1>4, <1>7 DEF Alike
    <2>5. \A t \in call[q].pend : t[1] \in Judging /\ t[2] = "status" => t[4] # 0
      BY <1>3 DEF Formed
    <2>6. Summed(db') /\ db.numbers \subseteq db'.numbers
      BY <1>4, <1>7, <1>12, <1>15
    <2>7. Saves(db', call[q].pend)
      BY <1>0, <1>3, <1>6, <2>2, <2>3, <2>4, <2>5, <2>6, SavesKept
    <2> QED  BY <1>2, <1>5, <2>1, <2>7
  <1>16. Summary'
    BY <1>4, <1>7, <1>12, <1>15 DEF Summary, Saves
  <1> QED  BY <1>6, <1>8, <1>9, <1>10, <1>14, <1>16 DEF Inductive

-----------------------------------------------------------------------------
\* The transaction of a rename

LEMMA RenameStep ==
  ASSUME Inductive, NEW p \in Process, NEW old, NEW new, OneTable(old, new),
         ~({old, new} \subseteq View(p).rows), Unlocked(p), call[p].at = "editing",
         Flushable(RenamedRow(View(p), old, new), call[p].pend),
         work' = Flushed(RenamedRow(View(p), old, new), call[p].pend), writer' = p,
         UNCHANGED db, enforce' \in [Connection -> BOOLEAN],
         NEW c \in Calls, call' = [call EXCEPT ![p] = c],
         c.at = "editing", c.pend = {}, Formed(c), Aimed(db, c)
  PROVE  Inductive'
PROOF
  <1> DEFINE d == RenamedRow(View(p), old, new)
             pend == call[p].pend
  <1>0. Types /\ Sound(db) /\ InStep /\ Drafted /\ Numbered /\ Summary
    BY DEF Inductive
  <1>1. /\ call \in [Process -> Calls]
        /\ call'[p] = c /\ \A q \in Process : q # p => call'[q] = call[q]
        /\ call' \in [Process -> Calls]
        /\ pend \in SUBSET Columns /\ IsFiniteSet(pend)
        /\ \A t \in pend : t[1] \notin Judging
    BY <1>0 DEF Types, Calls, Formed
  <1>2. /\ Sound(View(p)) /\ Alike(View(p), db) /\ db.numbers \subseteq View(p).numbers
    BY <1>0, Viewed
  <1>3. Sound(d) /\ Alike(d, View(p)) /\ d.numbers = View(p).numbers
    BY <1>2, RenamedSound
  <1>4. d \in Database
    BY <1>3 DEF Sound
  <1>5. work' = Flushed(d, pend) /\ Flushable(d, pend)
    OBVIOUS
  <1>6. \A q \in Process : q # p => View(q) = db /\ View(q)' = db'
    BY TableAssumption DEF View, Unlocked
  <1> HIDE DEF d
  <1>7. Sound(work') /\ Alike(work', d)
    BY <1>1, <1>3, <1>4, <1>5, FlushSound, FlushAlike
  <1>8. Alike(work', db)
    BY <1>2, <1>3, <1>7, AlikeTwice
  <1>9. work' \in Database /\ IsFiniteSet(work'.numbers) /\ p # None
    BY <1>7, TableAssumption DEF Sound
  <1>10. work'.numbers = d.numbers \cup {<<t[4], t[1]>> : t \in Moves(pend)}
    BY <1>1, <1>4, <1>5, FlushFields
  <1>11. ~db.renumbered /\ work'.numbers # db.numbers => Taken(work', NextNumber(db))
    <2> SUFFICES ASSUME ~db.renumbered, work'.numbers # db.numbers
                 PROVE  Taken(work', NextNumber(db))
      OBVIOUS
    <2>1. \/ d.numbers = db.numbers /\ Moves(pend) = {}
          \/ Taken(Flushed(d, pend), NextNumber(db))
      BY <1>3, <1>4, <1>5, FlushTakes
    <2>2. ~(d.numbers = db.numbers /\ Moves(pend) = {})
      BY <1>10
    <2> QED  BY <1>5, <2>1, <2>2
  <1>12. Types'
    BY <1>0, <1>1, <1>9 DEF Types, Maybe
  <1>13. InStep'
    <2>1. /\ Sound(work') /\ Alike(work', db') /\ db'.numbers \subseteq work'.numbers
          /\ ~db'.renumbered /\ work'.numbers # db'.numbers => Taken(work', NextNumber(db'))
      BY <1>2, <1>3, <1>7, <1>8, <1>10, <1>11
    <2> QED  BY <2>1 DEF InStep, Taken
  <1>14. Drafted'
    BY <1>0, <1>1 DEF Drafted, Aimed
  <1>15. Numbered'
    BY <1>0, <1>1, <1>6 DEF Numbered, Chosen, Moves
  <1>16. Summary'
    BY <1>0, <1>1, <1>6 DEF Summary, Saves
  <1> QED  BY <1>0, <1>12, <1>13, <1>14, <1>15, <1>16 DEF Inductive
-----------------------------------------------------------------------------
\* The deletion

LEMMA DeleteStep ==
  ASSUME Inductive, NEW p \in Process, NEW S, S # {}, Tableful(S), Delete(p, S)
  PROVE  Inductive'
PROOF
  <1> DEFINE b == Deleted(db, S).renumbered \/ Renumbered(S)
             gone == Gone(db, S)
  <1>0. /\ Types /\ Sound(db) /\ InStep /\ Drafted /\ Numbered /\ Summary
        /\ db \in Database
    BY DEF Inductive, Sound
  <1>1. b \in BOOLEAN
    OBVIOUS
  <1>2. /\ db' = Emptied(db, S, b) /\ writer = None /\ writer' = writer /\ work' = work
        /\ call' = [call EXCEPT ![p] = Ended]
    BY DEF Delete, Emptied
  <1>3. enforce' \in [Connection -> BOOLEAN]
    BY <1>0 DEF Delete, Types
  <1>4. /\ call \in [Process -> Calls]
        /\ call'[p] = Ended /\ \A q \in Process : q # p => call'[q] = call[q]
        /\ call' \in [Process -> Calls]
    BY <1>0, <1>2, EndedForm DEF Types
  <1>5. \A q \in Process : call[q] \in Calls /\ call[q].pend \in SUBSET Columns /\ call[q].draft \in SUBSET Drafts
                           /\ Formed(call[q])
    BY <1>0 DEF Types, Calls
  <1>6. \A q \in Process : View(q) = db /\ View(q)' = db'
    BY <1>2, TableAssumption DEF View
  <1>7. Deleted(db, S).renumbered = db.renumbered
    BY <1>0, DeletedHistory
  <1>8. ~b => /\ ~db.renumbered
              /\ \/ \A n \in db.numbers : n[2] \notin Forgotten(db, S)
                 \/ \A q \in Process : Moves(call[q].pend) = {}
    BY <1>7 DEF Renumbered
  <1> HIDE DEF b
  <1>9. /\ Sound(db')
        /\ \A r \in db'.refs : r[1] \in Evidence \ db.unchecked /\ r[2] = "judged" => r[3] \notin gone
    BY <1>0, <1>1, <1>2, DeletedSound
  <1>10. /\ db' \in Database /\ IsFiniteSet(db'.numbers)
         /\ db'.rows = db.rows \ gone
         /\ db'.refs = {r \in db.refs \ Cleared(db, S) : r[1] \notin gone}
         /\ db'.numbers = {n \in db.numbers : n[2] \notin Forgotten(db, S)}
         /\ db'.renumbered = b
         /\ \A x \in Id : db'.status[x] = IF x \in gone THEN Absent ELSE db.status[x]
    BY <1>0, <1>1, <1>2, <1>9, DeletedFields DEF Sound
  <1>11. Types'
    BY <1>0, <1>2, <1>3, <1>4, <1>5, <1>10, EndedForm DEF Types, Maybe
  <1>12. InStep'
    BY <1>2 DEF InStep
  <1>13. Drafted'
    <2> SUFFICES ASSUME NEW q \in Process  PROVE Aimed(db', call'[q])
      BY DEF Drafted, Aimed
    <2>1. CASE q = p
      BY <1>4, <2>1, EndedForm DEF Aimed
    <2>2. CASE q # p
      <3>1. Aimed(db, call[q]) /\ call'[q] = call[q]
        BY <1>0, <1>4, <2>2 DEF Drafted
      <3>2. ASSUME NEW x, x \in db'.rows
            PROVE  /\ x \in db.rows
                   /\ \A s : <<x, "result", s>> \in db.refs => <<x, "result", s>> \in db'.refs
        BY <1>10, <3>2 DEF Cleared
      <3> QED  BY <3>1, <3>2 DEF Aimed
    <2> QED  BY <2>1, <2>2
  <1>14. ~db.renumbered => Summed(db')
    BY <1>0, <1>1, <1>2, <1>10, DeletedSummed DEF Summary, Judging, Id
  <1>15. ASSUME ~b, NEW q \in Process  PROVE Chosen(View(q)', call'[q].pend)
    <2>1. CASE q = p
      BY <1>4, <2>1, EndedForm DEF Chosen, Moves
    <2>2. CASE q # p
      <3>1. CASE Moves(call[q].pend) = {}
        BY <1>4, <2>2, <3>1 DEF Chosen
      <3>2. CASE Moves(call[q].pend) # {}
        <4>1. db'.numbers = db.numbers
          BY <1>8, <1>10, <1>15, <3>2
        <4>2. Chosen(db, call[q].pend)
          BY <1>0, <1>6, <1>8, <1>15 DEF Numbered
        <4>3. Chosen(db', call[q].pend)
          BY <4>1, <4>2, ChosenKept
        <4> QED  BY <1>4, <1>6, <2>2, <4>3
      <3> QED  BY <3>1, <3>2
    <2> QED  BY <2>1, <2>2
  <1>16. Numbered'
    BY <1>10, <1>15 DEF Numbered, Chosen
  <1>17. ASSUME ~b, NEW q \in Process, call'[q].at = "saving"
         PROVE  Saves(View(q)', call'[q].pend)
    <2> DEFINE pend == call[q].pend
    <2>1. q # p /\ call'[q] = call[q] /\ call[q].at = "saving"
      BY <1>4, <1>17, EndedForm
    <2>2. Summed(db') /\ Saves(db, pend)
      BY <1>0, <1>6, <1>8, <1>14, <1>17, <2>1 DEF Summary
    <2> SUFFICES ASSUME Fresh(db', pend)  PROVE Summed(Flushed(db', pend))
      BY <1>6, <2>1 DEF Saves
    <2>3. CASE Moves(pend) = {}
      <3>1. \A t \in pend : t[1] \in Judging => t[2] # "status"
        BY <1>5, <2>3 DEF Formed, Moves
      <3> QED  BY <1>5, <1>10, <2>2, <3>1, FlushSummed
    <2>4. CASE Moves(pend) # {}
      <3>1. db'.numbers = db.numbers
        BY <1>8, <1>10, <1>17, <2>4
      <3>2. Fresh(db, pend)
        BY <1>10, <3>1 DEF Fresh, Taken
      <3>3. Summed(Flushed(db, pend))
        BY <2>2, <3>2 DEF Saves
      <3> DEFINE D == Flushed(db, pend)
                 E == Flushed(db', pend)
      <3>4. /\ D \in Database /\ D.rows = db.rows /\ D.refs = db.refs /\ D.shrunk = db.shrunk
            /\ E \in Database /\ E.rows = db'.rows /\ E.refs = db'.refs /\ E.shrunk = db'.shrunk
            /\ \A x \in Id : D.status[x] = NewValue(pend, x, "status", db.status[x])
            /\ \A x \in Id : E.status[x] = NewValue(pend, x, "status", db'.status[x])
        BY <1>0, <1>5, <1>10, FlushFields
      <3> HIDE DEF D, E
      <3>5. \A x \in Judging \ gone : E.status[x] = D.status[x]
        BY <1>10, <3>4 DEF Judging, Id
      <3>6. Summed(D)
        BY <3>3 DEF D
      <3>7. Summed(E)
        BY <1>0, <1>1, <1>2, <3>4, <3>5, <3>6, DeletedSummed
      <3> QED  BY <3>7 DEF E
    <2> QED  BY <2>3, <2>4
  <1>18. Summary'
    BY <1>8, <1>10, <1>14, <1>17 DEF Summary, Saves
  <1> QED  BY <1>9, <1>11, <1>12, <1>13, <1>16, <1>18 DEF Inductive

-----------------------------------------------------------------------------
\* The evidence

LEMMA InsertStep ==
  ASSUME Inductive, NEW p \in Process, InsertEvidence(p)
  PROVE  Inductive'
PROOF
  <1> DEFINE draft == call[p].draft
             new == {r[1] : r \in draft}
             checked == enforce[call[p].conn]
             legal == {r[3] : r \in draft} \subseteq db.rows
  <1>0. /\ Types /\ Sound(db) /\ InStep /\ Drafted /\ Numbered /\ Summary
        /\ db \in Database
    BY DEF Inductive, Sound
  <1>1. CASE Fails(p)
    <2>1. enforce' \in [Connection -> BOOLEAN]
      BY <1>0, <1>1 DEF Fails, Types
    <2> QED  BY <1>1, <2>1, FailStep DEF Fails
  <1>2. CASE ~Fails(p)
    <2>1. /\ new \cap db.rows = {} /\ (checked => legal) /\ writer = None
          /\ db' = [db EXCEPT !.rows = @ \cup new, !.refs = @ \cup draft,
                              !.unchecked = IF checked THEN @ ELSE @ \cup new]
          /\ call' = [call EXCEPT ![p] = Ended] /\ UNCHANGED <<writer, work, enforce>>
      BY <1>2 DEF InsertEvidence
    <2>2. /\ call \in [Process -> Calls]
          /\ call'[p] = Ended /\ \A q \in Process : q # p => call'[q] = call[q]
          /\ call' \in [Process -> Calls]
      BY <1>0, <2>1, EndedForm DEF Types
    <2>3. \A q \in Process : call[q] \in Calls /\ call[q].pend \in SUBSET Columns /\ call[q].draft \in SUBSET Drafts
                             /\ Formed(call[q])
      BY <1>0 DEF Types, Calls
    <2>4. \A q \in Process : View(q) = db /\ View(q)' = db'
      BY <2>1, TableAssumption DEF View
    <2>5. Aimed(db, call[p])
      BY <1>0 DEF Drafted
    <2>6. \A r, t \in draft : r[1] = t[1] /\ r[2] = t[2] => r = t
      BY <2>5 DEF Aimed
    <2>7. \A r \in draft : r[2] = "judged" =>
           \E s \in Result : <<r[1], "result", s>> \in draft
                             /\ (r[3] \in db.rows => <<r[3], "result", s>> \in db.refs)
      BY <2>5 DEF Aimed
    <2> DEFINE unchecked == IF checked THEN db.unchecked ELSE db.unchecked \cup new
    <2>8. draft \in SUBSET Drafts /\ new = {r[1] : r \in draft}
          /\ db' = [db EXCEPT !.rows = @ \cup new, !.refs = @ \cup draft, !.unchecked = unchecked]
      BY <2>1, <2>3
    <2>8a. /\ db.unchecked \subseteq unchecked /\ unchecked \subseteq db.unchecked \cup new
           /\ {r[3] : r \in draft} \subseteq db.rows \/ new \subseteq unchecked
      BY <2>1
    <2> HIDE DEF draft, new, unchecked
    <2> DEFINE rows == db.rows \cup new
               refs == db.refs \cup draft
    <2>8b. db' = [db EXCEPT !.rows = rows, !.refs = refs, !.unchecked = unchecked]
      BY <2>8
    <2>8c. rows \in SUBSET Id /\ refs \in SUBSET Reference /\ unchecked \in SUBSET Id
      <3>1. new \subseteq Id /\ draft \subseteq Reference
        BY <2>8, DraftFacts DEF Id
      <3> QED  BY <1>0, <2>8a, <3>1, DatabaseFacts
    <2> HIDE DEF rows, refs
    <2>8d. /\ db' \in Database /\ db'.rows = rows /\ db'.refs = refs /\ db'.unchecked = unchecked
           /\ db'.status = db.status /\ db'.log = db.log /\ db'.numbers = db.numbers
           /\ db'.unlogged = db.unlogged /\ db'.shrunk = db.shrunk /\ db'.renumbered = db.renumbered
      BY <1>0, <2>8b, <2>8c DEF Database
    <2>8e. db'.rows = db.rows \cup new /\ db'.refs = db.refs \cup draft
      BY <2>8d DEF rows, refs
    <2>8f. Sound(db') /\ new \subseteq Evidence
      BY <1>0, <2>1, <2>6, <2>7, <2>8, <2>8a, <2>8d, <2>8e, InsertedSound
    <2>9. /\ Sound(db') /\ db'.rows = db.rows \cup new /\ db'.refs = db.refs \cup draft /\ db'.status = db.status
          /\ db'.numbers = db.numbers /\ db'.shrunk = db.shrunk /\ db'.renumbered = db.renumbered
          /\ new \subseteq Evidence
      BY <2>8d, <2>8e, <2>8f
    <2>10. db' \in Database /\ IsFiniteSet(db'.numbers)
      BY <2>9 DEF Sound
    <2>10a. draft \in SUBSET Drafts /\ new \in SUBSET Evidence
      BY <2>8, <2>9
    <2>11. Types'
      BY <1>0, <2>1, <2>2, <2>10, EndedForm DEF Types, Maybe
    <2>12. InStep'
      BY <2>1 DEF InStep
    <2>13. \A x \in Held : x \notin Evidence => (x \in db'.rows <=> x \in db.rows)
      BY <2>9
    <2>14. Drafted'
      <3> SUFFICES ASSUME NEW q \in Process  PROVE Aimed(db', call'[q])
        BY DEF Drafted, Aimed
      <3>1. CASE q = p
        BY <2>2, <3>1, EndedForm DEF Aimed
      <3>2. CASE q # p
        <4>1. Aimed(db, call[q]) /\ call'[q] = call[q]
          BY <1>0, <2>2, <3>2 DEF Drafted
        <4>2. \A r \in call[q].draft : r[2] = "judged" /\ r[3] \in db'.rows => r[3] \in db.rows
          BY <2>3, <2>13, DraftFacts, Tables DEF Held
        <4> QED  BY <2>9, <4>1, <4>2 DEF Aimed
      <3> QED  BY <3>1, <3>2
    <2>15. ASSUME ~db.renumbered, NEW q \in Process  PROVE Chosen(View(q)', call'[q].pend)
      <3>1. CASE q = p
        BY <2>2, <3>1, EndedForm DEF Chosen, Moves
      <3>2. CASE q # p
        <4>1. Chosen(db, call[q].pend)
          BY <1>0, <2>4, <2>15 DEF Numbered
        <4>2. Chosen(db', call[q].pend)
          BY <2>9, <4>1, ChosenKept
        <4> QED  BY <2>2, <2>4, <3>2, <4>2
      <3> QED  BY <3>1, <3>2
    <2>16. Numbered'
      BY <2>9, <2>15 DEF Numbered, Chosen
    <2>17. ~db.renumbered => Summed(db')
      <3> SUFFICES ASSUME ~db.renumbered  PROVE Summed(db')
        OBVIOUS
      <3>1. Summed(db)
        BY <1>0 DEF Summary
      <3>2. \A y \in Judging : db'.status[y] = db.status[y]
        BY <2>9
      <3> QED  BY <1>0, <2>9, <2>10, <2>10a, <3>1, <3>2, InsertedSummed
    <2>18. ASSUME ~db.renumbered, NEW q \in Process, call'[q].at = "saving"
           PROVE  Saves(View(q)', call'[q].pend)
      <3> DEFINE pend == call[q].pend
                 D == Flushed(db, pend)
                 E == Flushed(db', pend)
      <3>1. q # p /\ call'[q] = call[q] /\ call[q].at = "saving"
        BY <2>2, <2>18, EndedForm
      <3>2. Saves(db, pend)
        BY <1>0, <2>4, <2>18, <3>1 DEF Summary
      <3> SUFFICES ASSUME Fresh(db', pend)  PROVE Summed(E)
        BY <2>4, <3>1 DEF Saves
      <3>3. \A x \in Judging : x \in db'.rows => x \in db.rows
        BY <2>13, Tables DEF Held, Judging
      <3>4. Fresh(db, pend)
        BY <2>9, <3>3 DEF Fresh, Taken
      <3>5. Summed(D)
        BY <3>2, <3>4 DEF Saves
      <3>6. /\ D \in Database /\ D.rows = db.rows /\ D.refs = db.refs /\ D.shrunk = db.shrunk
            /\ E \in Database /\ E.rows = db'.rows /\ E.refs = db'.refs /\ E.shrunk = db'.shrunk
            /\ \A x \in Id : D.status[x] = NewValue(pend, x, "status", db.status[x])
            /\ \A x \in Id : E.status[x] = NewValue(pend, x, "status", db'.status[x])
        BY <1>0, <2>3, <2>10, FlushFields
      <3> HIDE DEF D, E
      <3>7. \A x \in Judging : E.status[x] = D.status[x]
        BY <2>9, <3>6 DEF Judging, Id
      <3>8. E.rows = D.rows \cup new /\ E.refs = D.refs \cup draft /\ E.shrunk = D.shrunk
        BY <2>9, <3>6
      <3> QED  BY <2>10a, <3>5, <3>6, <3>7, <3>8, InsertedSummed
    <2>19. Summary'
      BY <2>9, <2>17, <2>18 DEF Summary, Saves
    <2> QED  BY <2>9, <2>11, <2>12, <2>14, <2>16, <2>19 DEF Inductive
  <1> QED  BY <1>1, <1>2

LEMMA CheckStep ==
  ASSUME Inductive, NEW p \in Process, NEW s \in Result, NEW q \in Judged \cup {None}, NEW x \in Defect \cup {None},
         CheckEvidence(p, s, q, x)
  PROVE  Inductive'
PROOF
  <1>1. PICK e \in Evidence \ db.rows, k \in Free :
          call' = [call EXCEPT ![p] =
            [Idle EXCEPT !.at = "inserting", !.conn = k,
                         !.draft = {r \in {<<e, "result", s>>, <<e, "judged", q>>, <<e, "defect", x>>} :
                                      r[3] # None}]]
    BY DEF CheckEvidence
  <1> DEFINE draft == {r \in {<<e, "result", s>>, <<e, "judged", q>>, <<e, "defect", x>>} : r[3] # None}
             c == [Idle EXCEPT !.at = "inserting", !.conn = k, !.draft = draft]
  <1>2. draft \in SUBSET Drafts
    BY DEF Drafts
  <1>3. \A r, t \in draft : r[1] = t[1] /\ r[2] = t[2] => r = t
    OBVIOUS
  <1>4. \A r \in draft : r[2] = "judged" =>
          \E u \in Result : <<r[1], "result", u>> \in draft
                            /\ (r[3] \in db.rows => <<r[3], "result", u>> \in db.refs)
    <2> SUFFICES ASSUME NEW r \in draft, r[2] = "judged"
                 PROVE  <<r[1], "result", s>> \in draft /\ <<r[3], "result", s>> \in db.refs
      OBVIOUS
    <2>1. r = <<e, "judged", q>> /\ q # None
      OBVIOUS
    <2>2. s # None
      BY TableAssumption DEF Id
    <2>3. <<e, "result", s>> \in draft
      BY <2>2
    <2>4. <<q, "result", s>> \in db.refs
      BY <2>1 DEF CheckEvidence
    <2> QED  BY <2>1, <2>3, <2>4
  <1> HIDE DEF draft
  <1>6. c \in Calls /\ Formed(c) /\ c.pend = {} /\ c.draft = draft /\ c.at = "inserting"
    <2>1. Idle \in Calls /\ Idle.pend = {} /\ k \in Connection
      BY EndedForm DEF Free
    <2>2. c \in Calls /\ c.pend = {} /\ c.draft = draft /\ c.at = "inserting"
      BY <1>2, <2>1 DEF Calls, Maybe
    <2> QED  BY <2>2, FS_EmptySet DEF Formed
  <1>7. call' = [call EXCEPT ![p] = c]
    BY <1>1 DEF draft
  <1> HIDE DEF c
  <1>8. Aimed(db, c)
    BY <1>3, <1>4, <1>6 DEF Aimed
  <1>9. UNCHANGED <<db, writer, work, enforce>>
    BY DEF CheckEvidence
  <1>10. Chosen(View(p), c.pend)
    BY <1>6 DEF Chosen, Moves
  <1> QED  BY <1>6, <1>7, <1>8, <1>9, <1>10, SessionStep
-----------------------------------------------------------------------------
\* The cells

\* The cell that is written next
LEMMA NextCell ==
  ASSUME Types, NEW p \in Process, call[p].edits # <<>>
  PROVE  /\ Head(call[p].edits) \in Cells /\ Sendable(Head(call[p].edits))
         /\ Done(p) \in Calls /\ Done(p).at = call[p].at /\ Done(p).pend = call[p].pend
         /\ Done(p).draft = call[p].draft /\ Done(p).edits = Tail(call[p].edits) /\ Done(p).conn = call[p].conn
PROOF
  <1>1. call[p] \in Calls
    BY DEF Types
  <1>2. call[p].edits \in Seq(Cells)
    BY <1>1 DEF Calls
  <1>3. Head(call[p].edits) \in Cells /\ Tail(call[p].edits) \in Seq(Cells)
    BY <1>2
  <1>4. Sendable(Head(call[p].edits))
    BY <1>3, TableAssumption
  <1> QED  BY <1>1, <1>3, <1>4 DEF Done, Calls

LEMMA TextStep ==
  ASSUME Inductive, NEW p \in Process, EditText(p)
  PROVE  Inductive'
PROOF
  <1>0. Types /\ Drafted /\ Numbered
    BY DEF Inductive
  <1>1. call[p].at = "editing" /\ call[p].edits # <<>>
    BY DEF EditText, Editing
  <1>2. Stays(p, Done(p)) \/ Fails(p)
    BY DEF EditText
  <1>3. CASE Fails(p)
    <2>1. enforce' \in [Connection -> BOOLEAN]
      BY <1>0, <1>3 DEF Fails, Types
    <2> QED  BY <1>3, <2>1, FailStep DEF Fails
  <1>4. CASE Stays(p, Done(p))
    <2>1. /\ Done(p) \in Calls /\ Done(p).at = call[p].at /\ Done(p).pend = call[p].pend
          /\ Done(p).draft = call[p].draft
      BY <1>0, <1>1, NextCell
    <2>2. Formed(Done(p)) /\ Aimed(db, Done(p))
      BY <1>0, <2>1 DEF Types, Formed, Drafted, Aimed
    <2>3. ~db.renumbered => Chosen(View(p), Done(p).pend)
      BY <1>0, <2>1 DEF Numbered
    <2>4. Done(p).at # "saving"
      BY <1>1, <2>1
    <2>5. call' = [call EXCEPT ![p] = Done(p)] /\ UNCHANGED <<db, writer, work, enforce>>
      BY <1>4 DEF Stays
    <2> QED  BY <2>1, <2>2, <2>3, <2>4, <2>5, SessionStep
  <1> QED  BY <1>2, <1>3, <1>4

LEMMA FailedStep ==
  ASSUME Inductive, NEW p \in Process, Fails(p)
  PROVE  Inductive'
PROOF
  <1>1. enforce' \in [Connection -> BOOLEAN]
    BY DEF Fails, Inductive, Types
  <1> QED  BY <1>1, FailStep DEF Fails

LEMMA GivenUpStep ==
  ASSUME Inductive, NEW p \in Process, NEW c, ~Unlocked(p), GivesUp(p, c)
  PROVE  Inductive'
PROOF
  <1>1. enforce' \in [Connection -> BOOLEAN]
    BY DEF GivesUp, Inductive, Types
  <1>2. /\ writer' = IF writer = p THEN None ELSE writer
        /\ work' = IF writer = p THEN None ELSE work
    BY DEF GivesUp, Unlocked
  <1> QED  BY <1>1, <1>2, FailStep DEF GivesUp

LEMMA AcceptsFacts ==
  ASSUME NEW x, NEW v, Accepts(x, v)
  PROVE  /\ x \in Target \cup Config => Lowered(v) \in {"active", "inactive", "archived"}
         /\ x \in Case \cup Procedure => Lowered(v) \in {"DRAFT", "ACTIVE", "DEPRECATED"}
         /\ x \in Judged => Lowered(v) \in ResultStatus
PROOF
  <1> DEFINE l == Lowered(v)
  <1>1. Accepts(x, v) = CASE x \in Target \cup Config -> l \in {"active", "inactive", "archived"}
                          [] x \in Case \cup Procedure -> l \in {"DRAFT", "ACTIVE", "DEPRECATED"}
                          [] x \in Judged -> l \in ResultStatus
                          [] OTHER -> TRUE
    BY DEF Accepts
  <1> HIDE DEF l
  <1>2. CASE x \in Target \cup Config
    <2>1. x \notin Case \cup Procedure /\ x \notin Judged
      BY <1>2, Tables DEF Held
    <2> QED  BY <1>1, <1>2, <2>1 DEF l
  <1>3. CASE x \in Case \cup Procedure
    <2>1. x \notin Target \cup Config /\ x \notin Judged
      BY <1>3, Tables DEF Held
    <2> QED  BY <1>1, <1>3, <2>1 DEF l
  <1>4. CASE x \in Judged
    <2>1. x \notin Target \cup Config /\ x \notin Case \cup Procedure
      BY <1>4, Tables DEF Held
    <2> QED  BY <1>1, <1>4, <2>1 DEF l
  <1> QED  BY <1>2, <1>3, <1>4

\* A word that the status cell of a row other than a judgement accepts is in the vocabulary.
LEMMA AcceptedWord ==
  ASSUME NEW e, Sendable(e), e.id \in Master \cup Run, e.field = "status", Admitted(e)
  PROVE  (IF e.id \in Run \cup Round THEN e.value ELSE Lowered(e.value)) \in Word
PROOF
  <1>1. CASE e.id \in Run \cup Round
    BY <1>1 DEF Sendable
  <1>2. CASE e.id \in Target \cup Config
    <2>1. e.id \notin Run \cup Round
      BY <1>2, Tables
    <2>2. Lowered(e.value) \in {"active", "inactive", "archived"}
      <3>1. Accepts(e.id, e.value)
        BY DEF Admitted
      <3> QED  BY <1>2, <3>1, AcceptsFacts
    <2> QED  BY <2>1, <2>2 DEF Word
  <1>3. CASE e.id \in Case \cup Procedure
    <2>1. Lowered(e.value) \in {"DRAFT", "ACTIVE", "DEPRECATED"}
      <3>1. Accepts(e.id, e.value)
        BY DEF Admitted
      <3> QED  BY <1>3, <3>1, AcceptsFacts
    <2> QED  BY <2>1 DEF Sendable
  <1> QED  BY <1>1, <1>2, <1>3 DEF Master

LEMMA StatusStep ==
  ASSUME Inductive, NEW p \in Process, EditStatus(p)
  PROVE  Inductive'
PROOF
  <1> DEFINE e == Head(call[p].edits)
             to == IF e.id \in Run \cup Round THEN e.value ELSE Lowered(e.value)
             n == IF Recorded(View(p), e.id, to) THEN NextNumber(View(p)) ELSE 0
             t == <<e.id, "status", to, n>>
             c == [Done(p) EXCEPT !.pend = @ \cup {t}]
  <1>0. Types /\ Sound(db) /\ InStep /\ Drafted /\ Numbered /\ Summary
    BY DEF Inductive
  <1>1. Fails(p) \/ Stays(p, c)
    BY DEF EditStatus
  <1>2. CASE Fails(p)
    BY <1>2, FailedStep
  <1>3. CASE Stays(p, c)
    <2>1. /\ call[p].at = "editing" /\ call[p].edits # <<>> /\ e.field = "status" /\ e.id \in Master \cup Run
          /\ Admitted(e)
      BY DEF EditStatus, Editing
    <2>2. /\ Sendable(e)
          /\ Done(p) \in Calls /\ Done(p).at = call[p].at /\ Done(p).pend = call[p].pend
          /\ Done(p).draft = call[p].draft
      BY <1>0, <2>1, NextCell
    <2>3. to \in Word
      BY <2>1, <2>2, AcceptedWord
    <2>4. n \in Nat /\ (n # 0 => n = NextNumber(View(p)))
      BY <1>0, Viewed
    <2>5. t \in Columns /\ t[1] \notin Judging /\ t[4] = n
      BY <2>1, <2>3, <2>4, Tables DEF Columns, Judging, Master, Held
    <2> HIDE DEF t, e, n, to
    <2>6. c \in Calls /\ c.at = "editing" /\ c.pend = call[p].pend \cup {t} /\ c.draft = call[p].draft
      BY <2>1, <2>2, <2>5 DEF Calls
    <2>6a. call' = [call EXCEPT ![p] = c] /\ UNCHANGED <<db, writer, work, enforce>>
      BY <1>3 DEF Stays
    <2> HIDE DEF c
    <2>7. Formed(call[p]) /\ Aimed(db, call[p])
      BY <1>0 DEF Types, Drafted
    <2>8. Formed(c)
      <3>1. IsFiniteSet(c.pend)
        BY <2>6, <2>7, FS_AddElement DEF Formed
      <3>2. \A u \in c.pend : u[1] \notin Judging
        BY <2>1, <2>5, <2>6, <2>7 DEF Formed
      <3> QED  BY <2>6, <3>1, <3>2 DEF Formed
    <2>9. Aimed(db, c)
      BY <2>6, <2>7 DEF Aimed
    <2>10. ~db.renumbered => Chosen(View(p), c.pend)
      <3> SUFFICES ASSUME ~db.renumbered  PROVE Chosen(View(p), c.pend)
        OBVIOUS
      <3>1. Chosen(View(p), call[p].pend)
        BY <1>0 DEF Numbered
      <3> QED  BY <2>4, <2>5, <2>6, <3>1 DEF Chosen, Moves
    <2>11. c.at # "saving"
      BY <2>6
    <2> QED  BY <2>6, <2>6a, <2>8, <2>9, <2>10, <2>11, SessionStep
  <1> QED  BY <1>1, <1>2, <1>3

LEMMA BeginStep ==
  ASSUME Inductive, NEW p \in Process, Begin(p)
  PROVE  Inductive'
PROOF
  <1>1. PICK edits \in EditLists, k \in Free :
          call' = [call EXCEPT ![p] = [Idle EXCEPT !.at = "editing", !.edits = edits, !.conn = k]]
    BY DEF Begin
  <1> DEFINE c == [Idle EXCEPT !.at = "editing", !.edits = edits, !.conn = k]
  <1>2. edits \in Seq(Cells) /\ k \in Connection
    BY TableAssumption DEF Free
  <1>3. c \in Calls /\ c.at = "editing" /\ c.pend = {} /\ c.draft = {}
    BY <1>2, EndedForm DEF Calls, Maybe
  <1>4. call' = [call EXCEPT ![p] = c] /\ UNCHANGED <<db, writer, work, enforce>>
    BY <1>1 DEF Begin
  <1> HIDE DEF c
  <1>5. Formed(c) /\ Aimed(db, c) /\ Chosen(View(p), c.pend)
    BY <1>3, FS_EmptySet DEF Formed, Aimed, Chosen, Moves
  <1> QED  BY <1>3, <1>4, <1>5, SessionStep

LEMMA SaveStep ==
  ASSUME Inductive, NEW p \in Process, Save(p)
  PROVE  Inductive'
PROOF
  <1>1. CASE CannotCommit(p)
    BY <1>1, FailedStep DEF CannotCommit
  <1>2. CASE ~CannotCommit(p)
    <2>1. PICK k \in Free \cup {call[p].conn} :
            Commits(p, [Idle EXCEPT !.at = "editing", !.edits = call[p].edits, !.conn = k])
      BY <1>2 DEF Save
    <2> DEFINE c == [Idle EXCEPT !.at = "editing", !.edits = call[p].edits, !.conn = k]
    <2>2. call[p] \in Calls
      BY DEF Inductive, Types
    <2>3. k \in Maybe(Connection) /\ call[p].edits \in Seq(Cells)
      BY <2>2 DEF Calls, Free, Maybe
    <2>4. c \in Calls /\ c.at = "editing" /\ c.pend = {} /\ c.draft = {}
      BY <2>3, EndedForm DEF Calls
    <2>5. Commits(p, c) /\ call[p].at = "saving"
      BY <2>1 DEF Save
    <2> HIDE DEF c
    <2>6. Formed(c)
      BY <2>4, FS_EmptySet DEF Formed
    <2> QED  BY <2>4, <2>5, <2>6, CommitStep
  <1> QED  BY <1>1, <1>2

LEMMA FinishStep ==
  ASSUME Inductive, NEW p \in Process, Finish(p)
  PROVE  Inductive'
PROOF
  <1>1. CASE CannotCommit(p)
    BY <1>1, FailedStep DEF CannotCommit
  <1>2. CASE Commits(p, Ended)
    BY <1>2, CommitStep, EndedForm DEF Finish
  <1> QED  BY <1>1, <1>2 DEF Finish

LEMMA RenamingStep ==
  ASSUME Inductive, NEW p \in Process, Rename(p)
  PROVE  Inductive'
PROOF
  <1> DEFINE e == Head(call[p].edits)
             d == RenamedRow(View(p), e.id, e.value)
             c == [Done(p) EXCEPT !.pend = {}]
             off == [enforce EXCEPT ![call[p].conn] = FALSE]
  <1>0. Types /\ Drafted /\ Numbered
    BY DEF Inductive
  <1>1. off \in [Connection -> BOOLEAN]
    BY <1>0 DEF Types
  <1>2. /\ call[p].at = "editing" /\ call[p].edits # <<>> /\ e.field = "id" /\ e.id \in Id \ Round
        /\ Admitted(e) /\ Unlocked(p)
    BY DEF Rename, Editing
  <1>3. /\ Sendable(e)
        /\ Done(p) \in Calls /\ Done(p).at = call[p].at /\ Done(p).pend = call[p].pend
        /\ Done(p).draft = call[p].draft
    BY <1>0, <1>2, NextCell
  <1>4. Formed(call[p]) /\ Aimed(db, call[p])
    BY <1>0 DEF Types, Drafted
  <1>5. OneTable(e.id, e.value)
    <2>1. e.id \in Target \cup Case \cup Procedure \cup Run
      BY <1>2, Tables DEF Admitted, Editable, Id, Master, Held
    <2> QED  BY <1>2, <1>3, <2>1 DEF Sendable, OneTable
  <1>6. CASE e.id = e.value
    <2>1. Stays(p, Done(p))
      BY <1>6 DEF Rename
    <2>2. Formed(Done(p)) /\ Aimed(db, Done(p))
      BY <1>3, <1>4 DEF Formed, Aimed
    <2>3. ~db.renumbered => Chosen(View(p), Done(p).pend)
      BY <1>0, <1>3 DEF Numbered
    <2>4. Done(p).at # "saving"
      BY <1>2, <1>3
    <2> QED  BY <1>3, <2>1, <2>2, <2>3, <2>4, SessionStep DEF Stays
  <1>7. CASE e.id # e.value /\ ({e.id, e.value} \subseteq View(p).rows \/ ~Flushable(d, call[p].pend))
    <2>1. /\ call' = [call EXCEPT ![p] = Ended] /\ writer' = None /\ work' = None
          /\ enforce' = off /\ UNCHANGED db
      BY <1>7 DEF Rename
    <2>2. writer' = (IF writer = p THEN None ELSE writer) /\ work' = (IF writer = p THEN None ELSE work)
      <3>1. writer = None => work = None
        BY <1>0 DEF Types
      <3> QED  BY <1>2, <2>1, <3>1 DEF Unlocked
    <2> QED  BY <1>1, <2>1, <2>2, FailStep
  <1>8. CASE e.id # e.value /\ ~({e.id, e.value} \subseteq View(p).rows) /\ Flushable(d, call[p].pend)
    <2>1. /\ work' = Flushed(d, call[p].pend) /\ writer' = p /\ enforce' = off
          /\ call' = [call EXCEPT ![p] = c] /\ UNCHANGED db
      BY <1>8 DEF Rename
    <2>2. c \in Calls /\ c.at = "editing" /\ c.pend = {} /\ c.draft = call[p].draft
      BY <1>2, <1>3 DEF Calls
    <2> HIDE DEF c, off
    <2>3. Formed(c) /\ Aimed(db, c)
      BY <1>4, <2>2, FS_EmptySet DEF Formed, Aimed
    <2> QED  BY <1>1, <1>2, <1>5, <1>8, <2>1, <2>2, <2>3, RenameStep
  <1> QED  BY <1>6, <1>7, <1>8

\* A session that sets the status of q to to and that of s to sum, and no other
\* judgement or result
Sets(d, all, q, to, s, sum) ==
  /\ \A t \in all : t[1] \in Judging /\ t[2] = "status" =>
       \/ t[1] = q /\ t[3] = to /\ to # d.status[q]
       \/ t[1] = s /\ t[3] = sum /\ sum # d.status[s]
  /\ q # s
  /\ to # d.status[q] => \E t \in all : t[1] = q /\ t[2] = "status"
  /\ sum # d.status[s] => \E t \in all : t[1] = s /\ t[2] = "status"

\* The statuses that such a session leaves
LEMMA JudgedValues ==
  ASSUME NEW d \in Database, NEW all \in SUBSET Columns, NEW q \in Judging, NEW s \in Judging, NEW to, NEW sum,
         Sets(d, all, q, to, s, sum)
  PROVE  /\ Flushed(d, all).status[q] = to /\ Flushed(d, all).status[s] = sum
         /\ \A x \in Judging \ {q, s} : Flushed(d, all).status[x] = d.status[x]
PROOF
  <1> USE DEF Sets
  <1>1. \A x \in Judging : Flushed(d, all).status[x] = NewValue(all, x, "status", d.status[x])
    BY FlushFields DEF Judging, Id
  <1>2. ASSUME NEW x \in Judging, \A t \in all : ~(t[1] = x /\ t[2] = "status")
        PROVE  Flushed(d, all).status[x] = d.status[x]
    <2>1. NewValue(all, x, "status", d.status[x]) = d.status[x]
      BY <1>2, NewValueFacts
    <2> QED  BY <1>1, <2>1
  <1>3. Flushed(d, all).status[q] = to
    <2>1. CASE to = d.status[q]
      BY <1>2, <2>1
    <2>2. CASE to # d.status[q]
      <3>1. PICK t \in all : t[1] = q /\ t[2] = "status" /\ NewValue(all, q, "status", d.status[q]) = t[3]
        BY <2>2, NewValueFacts
      <3> QED  BY <1>1, <3>1
    <2> QED  BY <2>1, <2>2
  <1>4. Flushed(d, all).status[s] = sum
    <2>1. CASE sum = d.status[s]
      BY <1>2, <2>1
    <2>2. CASE sum # d.status[s]
      <3>1. PICK t \in all : t[1] = s /\ t[2] = "status" /\ NewValue(all, s, "status", d.status[s]) = t[3]
        BY <2>2, NewValueFacts
      <3> QED  BY <1>1, <3>1
    <2> QED  BY <2>1, <2>2
  <1>5. ASSUME NEW x \in Judging \ {q, s}  PROVE Flushed(d, all).status[x] = d.status[x]
    BY <1>2
  <1> QED  BY <1>3, <1>4, <1>5

LEMMA JudgeStep ==
  ASSUME Inductive, NEW p \in Process, JudgeEdit(p)
  PROVE  Inductive'
PROOF
  <1> DEFINE blank == ""
             e == Head(call[p].edits)
             q == e.id
             d == View(p)
             pend == call[p].pend
             n == NextNumber(d)
             to == IF e.field = "status" THEN Lowered(e.value) ELSE d.status[q]
             s == CHOOSE r \in Follow(d, {q}, "result") : TRUE
             sum == Summarize({IF r = q THEN to ELSE d.status[r] : r \in JudgedOf(d, s)})
             moves == (IF to = d.status[q] THEN {} ELSE {<<q, "status", to, n>>})
                        \cup (IF sum = d.status[s] THEN {} ELSE {<<s, "status", sum, n>>})
             text == IF e.field = "text" THEN {<<q, "text", e.value, 0>>} ELSE {}
             reason == to \in NeedsReason => IF e.field = "text" THEN e.value # blank ELSE d.text[q] # blank
             legal == \A t \in moves : <<d.status[t[1]], t[3]>> \in ResultEdges
             allowed == /\ q \in d.rows
                        /\ \E r \in Follow(d, {q}, "result") : ResultFound(d, r)
                        /\ reason
                        /\ legal
             c == [Done(p) EXCEPT !.at = "saving", !.pend = @ \cup moves \cup text]
  <1>0. Types /\ Sound(db) /\ InStep /\ Drafted /\ Numbered /\ Summary
    BY DEF Inductive
  <1>1. /\ Editing(p, "status", Judged) \/ Editing(p, "text", Judged)
        /\ IF allowed THEN Stays(p, c) ELSE Fails(p)
    BY DEF JudgeEdit
  <1> HIDE DEF blank, reason, legal
  <1>2. CASE ~allowed
    BY <1>1, <1>2, FailedStep
  <1>3. CASE allowed
    <2>1. /\ call[p].at = "editing" /\ call[p].edits # <<>> /\ q \in Judged
          /\ e.field = "status" \/ e.field = "text"
          /\ Admitted(e)
      BY <1>1 DEF Editing
    <2>2. /\ Sendable(e)
          /\ Done(p) \in Calls /\ Done(p).at = call[p].at /\ Done(p).pend = pend
          /\ Done(p).draft = call[p].draft
      BY <1>0, <2>1, NextCell
    <2>3. Stays(p, c)
      BY <1>1, <1>3
    <2>4. /\ Sound(d) /\ d \in Database
          /\ ~db.renumbered => Summed(d)
          /\ n \in Nat /\ n # 0
      BY <1>0, Viewed
    <2>5. /\ d.refs \subseteq Reference /\ Single(d) /\ d.rows \subseteq Id /\ d.status \in [Id -> Word]
      BY <2>4, DatabaseFacts DEF Sound
    <2>6. s \in Follow(d, {q}, "result")
      BY <1>3
    <2> HIDE DEF s, d
    <2>7. s \in Result /\ <<q, "result", s>> \in d.refs
      <3>1. PICK r \in d.refs : r[1] = q /\ r[2] = "result" /\ r[3] = s
        BY <2>6 DEF Follow
      <3>2. r = <<r[1], r[2], r[3]>> /\ r[3] \in Result
        BY <2>5, <3>1, ReferenceFacts
      <3> QED  BY <3>1, <3>2
    <2>8. to \in Word
      <3>1. CASE e.field = "status"
        <4>1. Accepts(q, e.value)
          BY <2>1, <3>1 DEF Admitted
        <4>2. Lowered(e.value) \in ResultStatus
          BY <2>1, <4>1, AcceptsFacts
        <4> QED  BY <3>1, <4>2 DEF Word, Status
      <3>2. CASE e.field # "status"
        BY <2>1, <2>5, <3>2 DEF Id
      <3> QED  BY <3>1, <3>2
    <2>9. sum \in Word
      BY DEF Summarize, Word, Status, ResultStatus
    <2>10. e.field = "text" => e.value \in Text
      BY <2>2 DEF Sendable
    <2> HIDE DEF to, sum, e, n, pend
    <2>10a. q \in Judged /\ q \in Judging /\ s \in Judging
      BY <2>1, <2>7 DEF Judging
    <2>11. moves \subseteq Columns /\ text \subseteq Columns
      <3>1. <<q, "status", to, n>> \in Columns /\ <<s, "status", sum, n>> \in Columns
        BY <2>4, <2>8, <2>9, <2>10a DEF Columns
      <3>2. e.field = "text" => <<q, "text", e.value, 0>> \in Columns
        BY <2>10, <2>10a DEF Columns
      <3> QED  BY <3>1, <3>2
    <2>12. \A t \in moves : t[4] = n
      OBVIOUS
    <2>13. \A t \in text : t[2] = "text" /\ t[4] = 0
      OBVIOUS
    <2>14. IsFiniteSet(moves) /\ IsFiniteSet(text)
      <3>1. IsFiniteSet({}) /\ \A x : IsFiniteSet({x})
        BY FS_EmptySet, FS_Singleton
      <3> DEFINE a == IF to = d.status[q] THEN {} ELSE {<<q, "status", to, n>>}
                 b == IF sum = d.status[s] THEN {} ELSE {<<s, "status", sum, n>>}
      <3>2. IsFiniteSet(a)
        BY <3>1
      <3>3. IsFiniteSet(b)
        BY <3>1
      <3>4. moves = a \cup b
        OBVIOUS
      <3>5. IsFiniteSet(text)
        BY <3>1
      <3> HIDE DEF a, b, moves, text
      <3> QED  BY <3>2, <3>3, <3>4, <3>5, FS_Union
    <2>17. pend \in SUBSET Columns /\ IsFiniteSet(pend) /\ Formed(call[p]) /\ Aimed(db, call[p])
           /\ \A t \in pend : t[1] \notin Judging
      BY <1>0, <2>1 DEF Types, Calls, Formed, Drafted, pend
    <2> DEFINE all == pend \cup moves \cup text
    <2>18. all \in SUBSET Columns /\ all = pend \cup moves \cup text
      BY <2>11, <2>17
    <2>19. IsFiniteSet(all)
      BY <2>14, <2>17, FS_Union
    <2>19a. ASSUME NEW t \in moves
            PROVE  \/ t = <<q, "status", to, n>> /\ to # d.status[q]
                   \/ t = <<s, "status", sum, n>> /\ sum # d.status[s]
      BY <2>19a
    <2>19b. /\ to # d.status[q] => <<q, "status", to, n>> \in moves
            /\ sum # d.status[s] => <<s, "status", sum, n>> \in moves
      OBVIOUS
    <2>19c. ASSUME NEW t \in all, t[1] \in Judging, t[2] = "status"  PROVE t \in moves
      BY <2>13, <2>17, <2>19c
    <2>19d. \A t \in moves : t \in all
      OBVIOUS
    <2>20. ASSUME ~db.renumbered  PROVE Summed(Flushed(d, all))
      <3> HIDE DEF all, moves, text
      <3>a. \A t \in all : t[1] \in Judging /\ t[2] = "status" =>
             \/ t[1] = q /\ t[3] = to /\ to # d.status[q]
             \/ t[1] = s /\ t[3] = sum /\ sum # d.status[s]
        <4> SUFFICES ASSUME NEW t \in all, t[1] \in Judging, t[2] = "status"
                     PROVE  \/ t[1] = q /\ t[3] = to /\ to # d.status[q]
                            \/ t[1] = s /\ t[3] = sum /\ sum # d.status[s]
          OBVIOUS
        <4>1. t \in moves
          BY <2>19c
        <4> QED  BY <2>19a, <4>1
      <3>b. to # d.status[q] => \E t \in all : t[1] = q /\ t[2] = "status"
        <4> SUFFICES ASSUME to # d.status[q]  PROVE \E t \in all : t[1] = q /\ t[2] = "status"
          OBVIOUS
        <4> DEFINE t == <<q, "status", to, n>>
        <4>1. t \in all /\ t[1] = q /\ t[2] = "status"
          BY <2>19b, <2>19d
        <4> QED  BY <4>1
      <3>c. sum # d.status[s] => \E t \in all : t[1] = s /\ t[2] = "status"
        <4> SUFFICES ASSUME sum # d.status[s]  PROVE \E t \in all : t[1] = s /\ t[2] = "status"
          OBVIOUS
        <4> DEFINE t == <<s, "status", sum, n>>
        <4>1. t \in all /\ t[1] = s /\ t[2] = "status"
          BY <2>19b, <2>19d
        <4> QED  BY <4>1
      <3>d. q # s
        BY <2>1, <2>7, Tables
      <3>d1. d \in Database /\ all \in SUBSET Columns /\ q \in Judging /\ s \in Judging /\ q # s
        BY <2>4, <2>10a, <2>18, <3>d
      <3>1. /\ Flushed(d, all).status[q] = to /\ Flushed(d, all).status[s] = sum
            /\ \A x \in Judging \ {q, s} : Flushed(d, all).status[x] = d.status[x]
        <4>1. Sets(d, all, q, to, s, sum)
          BY <3>d, <3>a, <3>b, <3>c DEF Sets
        <4> HIDE DEF q
        <4> QED  BY <3>d1, <4>1, JudgedValues
      <3> DEFINE f == Flushed(d, all)
      <3>2. f \in Database /\ f.rows = d.rows /\ f.refs = d.refs /\ f.shrunk = d.shrunk
        BY <2>4, <2>18, FlushFields
      <3>3. f.status[s] = Summarize({IF r = q THEN to ELSE d.status[r] : r \in JudgedOf(d, s)})
        BY <3>1 DEF sum
      <3>4. f.status[q] = to /\ \A x \in Judging \ {q, s} : f.status[x] = d.status[x]
        BY <3>1
      <3> HIDE DEF f
      <3>5. Summed(f)
        BY <2>4, <2>5, <2>7, <2>10a, <2>20, <3>2, <3>3, <3>4, JudgedSummed
      <3> QED  BY <3>5 DEF f
    <2>21. c \in Calls /\ c.at = "saving" /\ c.pend = all /\ c.draft = call[p].draft
      <3> HIDE DEF moves, text
      <3>1. Done(p).pend \cup moves \cup text = all
        BY <2>2
      <3> HIDE DEF all
      <3> QED  BY <2>2, <2>18, <3>1 DEF Calls
    <2>22. call' = [call EXCEPT ![p] = c] /\ UNCHANGED <<db, writer, work, enforce>>
      BY <2>3 DEF Stays
    <2> HIDE DEF c
    <2>23. Formed(c)
      <3>1. \A t \in all : t[1] \in Judging /\ t[2] = "status" => t[4] # 0
        BY <2>4, <2>12, <2>13, <2>17
      <3> QED  BY <2>19, <2>21, <3>1 DEF Formed
    <2>24. Aimed(db, c)
      BY <2>17, <2>21 DEF Aimed
    <2>25. ~db.renumbered => Chosen(d, all)
      <3> SUFFICES ASSUME ~db.renumbered, NEW t \in Moves(all)  PROVE Taken(d, t[4]) \/ t[4] = n
        BY DEF Chosen, n
      <3>1. Chosen(d, pend)
        BY <1>0 DEF Numbered, d, pend
      <3>2. t \in Moves(pend) \/ t \in moves
        BY <2>13 DEF Moves
      <3> QED  BY <2>12, <3>1, <3>2 DEF Chosen, n
    <2>26. ~db.renumbered => Saves(d, all)
      BY <2>20 DEF Saves
    <2> HIDE DEF all
    <2> QED  BY <2>21, <2>22, <2>23, <2>24, <2>25, <2>26, SessionStep DEF d
  <1> QED  BY <1>2, <1>3

LEMMA InitInductive == Init => Inductive
PROOF
  <1> SUFFICES ASSUME Init
               PROVE  Inductive
    OBVIOUS
  <1>1. /\ Sound(db) /\ Summed(db) /\ writer = None /\ work = None
        /\ enforce = [c \in Connection |-> TRUE] /\ call = [p \in Process |-> Idle]
    BY TableAssumption DEF Init
  <1>2. /\ Idle \in Calls /\ Formed(Idle) /\ Idle.pend = {} /\ Idle.draft = {} /\ Idle.at = "idle"
    BY EndedForm
  <1>3. \A p \in Process : call[p] = Idle
    BY <1>1
  <1>4. call \in [Process -> Calls]
    BY <1>1, <1>2
  <1>5. Types
    BY <1>1, <1>2, <1>3, <1>4 DEF Types, Sound, Maybe
  <1>6. InStep
    BY <1>1 DEF InStep
  <1>7. Drafted
    BY <1>2, <1>3 DEF Drafted, Aimed
  <1>8. Numbered
    BY <1>2, <1>3 DEF Numbered, Chosen, Moves
  <1>9. Summary
    BY <1>1, <1>2, <1>3 DEF Summary
  <1> QED  BY <1>1, <1>5, <1>6, <1>7, <1>8, <1>9 DEF Inductive

LEMMA ServeStep ==
  ASSUME Inductive, NEW p \in Process, Serve(p)
  PROVE  Inductive'
PROOF
  <1>1. CASE RefuseEdit(p)
    BY <1>1, FailedStep DEF RefuseEdit
  <1>2. CASE LockTimeout(p)
    BY <1>2, FailedStep DEF LockTimeout
  <1>3. CASE RenameTimeout(p)
    BY <1>3, GivenUpStep DEF RenameTimeout
  <1> QED
    BY <1>1, <1>2, <1>3, TextStep, StatusStep, JudgeStep, SaveStep, RenamingStep, FinishStep, InsertStep DEF Serve

LEMMA IdleStep ==
  ASSUME Inductive, UNCHANGED vars
  PROVE  Inductive'
PROOF
  <1> USE DEF vars
  <1>1. Types' /\ Sound(db)' /\ InStep' /\ Drafted'
    BY DEF Inductive, Types, InStep, Drafted
  <1>2. Numbered' /\ Summary'
    BY DEF Inductive, Numbered, Summary, View
  <1> QED  BY <1>1, <1>2 DEF Inductive

\* Nothing that a request does breaks the invariant: the types, what a copy of the
\* database shares with the committed one, the numbers that requests have chosen
\* and the summaries that they are about to save.
THEOREM TableInductive == Spec => []Inductive
PROOF
  <1>1. Inductive /\ [Next]_vars => Inductive'
    <2> SUFFICES ASSUME Inductive, [Next]_vars
                 PROVE  Inductive'
      OBVIOUS
    <2>1. CASE UNCHANGED vars
      BY <2>1, IdleStep
    <2>2. CASE Next
      <3> PICK p \in Process :
             \/ Begin(p) \/ Serve(p) \/ DeleteTimeout(p)
             \/ \E T \in {Round, Target, Config, Case, Procedure, Run, Judged, Defect} :
                  \E S \in SUBSET T : S # {} /\ Delete(p, S)
             \/ \E s \in Result, q \in Judged \cup {None}, d \in Defect \cup {None} : CheckEvidence(p, s, q, d)
        BY <2>2 DEF Next
      <3>1. CASE Begin(p)
        BY <3>1, BeginStep
      <3>2. CASE Serve(p)
        BY <3>2, ServeStep
      <3>3. CASE \E T \in {Round, Target, Config, Case, Procedure, Run, Judged, Defect} :
                   \E S \in SUBSET T : S # {} /\ Delete(p, S)
        <4> PICK T \in {Round, Target, Config, Case, Procedure, Run, Judged, Defect} :
               \E S \in SUBSET T : S # {} /\ Delete(p, S)
          BY <3>3
        <4> PICK S \in SUBSET T : S # {} /\ Delete(p, S)
          OBVIOUS
        <4>1. Tableful(S)
          BY DEF Tableful
        <4> QED  BY <4>1, DeleteStep
      <3>4. CASE \E s \in Result, q \in Judged \cup {None}, d \in Defect \cup {None} : CheckEvidence(p, s, q, d)
        BY <3>4, CheckStep
      <3>5. CASE DeleteTimeout(p)
        BY <3>5, GivenUpStep DEF DeleteTimeout
      <3> QED  BY <3>1, <3>2, <3>3, <3>4, <3>5
    <2> QED  BY <2>1, <2>2
  <1> QED  BY <1>1, InitInductive, PTL DEF Spec

\* Every variable keeps its type, and a transaction has a copy of the database exactly
\* while it has the write lock.
THEOREM TableTypes == Spec => []TypeOK
PROOF
  <1>1. Inductive => TypeOK
    BY DEF Inductive, Types, TypeOK, Calls, Maybe
  <1> QED  BY <1>1, TableInductive, PTL

\* Renames and cascades leave no other reference without a row than those of defects,
\* those of a run to its target and configuration, and those of evidence that was
\* inserted unchecked (bulk_delete_service.py, field_update_service.py).
THEOREM TableDangling == Spec => []DanglingIsExplained
PROOF
  <1>1. Inductive => DanglingIsExplained
    BY DEF Inductive, Sound, DanglingIsExplained
  <1> QED  BY <1>1, TableInductive, PTL

\* The newest transition of a row tells its status, whatever sessions overlap, unless
\* an editor went past the transition service (field_update_service.py).
THEOREM TableLog == Spec => []LogExplained
PROOF
  <1>1. Inductive => LogExplained
    BY DEF Inductive, Sound, LogExplained
  <1> QED  BY <1>1, TableInductive, PTL

\* Of two saves that overlap one finds its number taken: a result keeps the summary
\* of its procedure results, for every number of requests, until transitions are
\* deleted under way (save_procedure_result and _next_prefixed_id).
THEOREM TableSummary == Spec => []SummaryExplained
PROOF
  <1>1. Inductive => SummaryExplained
    BY DEF Inductive, Summary, SummaryExplained
  <1> QED  BY <1>1, TableInductive, PTL
=============================================================================
