---------------------- MODULE ConcurrentRequestsProofs ----------------------
(***************************************************************************)
(* Proofs about ConcurrentRequests, for every number of requests, every    *)
(* set of titles and every tables found: types, the agreement of the log   *)
(* with the rows, and that a collision has a winner.                       *)
(***************************************************************************)
EXTENDS ConcurrentRequests, SequenceTheorems, TLAPS

AnyStatus == RunStatus \cup DefectStatus

\* What a request has chosen: a status to write, a row that exists or the
\* number after the rows it saw, and the number after the transitions it saw.
Chosen(q) ==
  /\ call[q].at \in {"checked", "identified", "numbered"} => call[q].to \in AnyStatus
  /\ call[q].at = "checked" => Adds(q)
  /\ call[q].at \in {"identified", "numbered"} =>
       IF Adds(q) THEN call[q].row \in 1 .. Len(table[call[q].kind]) + 1
                  ELSE call[q].row \in DOMAIN table[call[q].kind]
  /\ call[q].at = "numbered" => call[q].number \in 1 .. Len(log) + 1

\* A number that was chosen and is in use was taken by a committed request.
Winner(q) ==
  /\ call[q].at = "numbered" /\ call[q].number \in DOMAIN log => NumberTaken(q)
  /\ /\ call[q].at \in {"identified", "numbered"} /\ Adds(q)
     /\ call[q].row \in DOMAIN table[call[q].kind]
     => RowTaken(q)

Inductive ==
  /\ TypeOK
  /\ \A q \in Request : Chosen(q) /\ Winner(q)
  /\ LogAgrees
  /\ CollisionHasWinner

\* No edge leads from or to Absent, and every first status is a status.
LEMMA Statuses ==
  /\ AnyStatus \subseteq Status \ {Absent} /\ Absent \in Status
  /\ \A kind \in Kind : /\ EdgesOf(kind) \subseteq AnyStatus \X AnyStatus
                        /\ FirstOf(kind) \in AnyStatus
  BY DEF AnyStatus, Status, Absent, Kind, EdgesOf, FirstOf, RunEdges, DefectEdges,
         RunStatus, DefectStatus, ResultStatus, FirstRunStatus, FirstDefectStatus

\* What the types say of the two tables and the log, kind by kind.
LEMMA Rows ==
  ASSUME TypeOK, NEW kind \in Kind
  PROVE  /\ table[kind] \in Seq(Row)
         /\ Len(table[kind]) \in Nat
         /\ DOMAIN table[kind] = 1 .. Len(table[kind])
         /\ \A i \in DOMAIN table[kind] : table[kind][i] \in Row
         /\ Len(log) \in Nat /\ DOMAIN log = 1 .. Len(log)
         /\ \A n \in DOMAIN log : log[n] \in LogRow
  BY DEF TypeOK

\* The steps of a request, by what they do to its record.  Reading changes
\* neither the rows nor the log.
Reads(q) == UNCHANGED <<table, log>> /\ \A p \in Request \ {q} : call'[p] = call[p]

\* A step that only reads changes the record of its own request.
LEMMA ReadEffect ==
  ASSUME TypeOK, NEW q \in Request, NEW fields \in Call, Goes(q, fields)
  PROVE  Reads(q) /\ call'[q] = fields /\ call' \in [Request -> Call]
  BY DEF Goes, TypeOK, Reads

\* A write, for a request that has chosen: the row is added or moved.
LEMMA AfterEffect ==
  ASSUME NEW rows \in Seq(Row), NEW c \in Call, c.to \in AnyStatus,
         IF c.from = Absent THEN c.row = Len(rows) + 1 ELSE c.row \in 1 .. Len(rows)
  PROVE  /\ After(rows, c) \in Seq(Row)
         /\ Len(After(rows, c)) = IF c.from = Absent THEN Len(rows) + 1 ELSE Len(rows)
         /\ After(rows, c)[c.row].status = c.to
         /\ \A i \in 1 .. Len(rows) : i # c.row => After(rows, c)[i] = rows[i]
         /\ c.row \in 1 .. Len(After(rows, c))
  <1>1. Len(rows) \in Nat
    OBVIOUS
  <1>2. CASE c.from = Absent
    <2> DEFINE new == [status |-> c.to, title |-> c.title]
    <2>1. new \in Row
      BY DEF Call, Row, AnyStatus
    <2>2. After(rows, c) = Append(rows, new)
      BY <1>2 DEF After
    <2> HIDE DEF new
    <2>3. new.status = c.to
      BY DEF new
    <2> QED BY <1>1, <1>2, <2>1, <2>2, <2>3, AppendProperties
  <1>3. CASE c.from # Absent
    <2> DEFINE moved == [rows[c.row] EXCEPT !.status = c.to]
    <2>1. rows[c.row] \in Row
      BY <1>3
    <2>2. moved \in Row /\ moved.status = c.to
      BY <2>1 DEF Row, AnyStatus
    <2>3. After(rows, c) = [rows EXCEPT ![c.row] = moved]
      BY <1>3 DEF After
    <2> HIDE DEF moved
    <2> QED BY <1>1, <1>3, <2>2, <2>3, ExceptSeq
  <1> QED BY <1>2, <1>3

\* What a write leaves behind: the tables have their types, no row is lost, the
\* written row has the written status and the log ends with the transition.
LEMMA WriteEffect ==
  ASSUME Inductive, NEW q \in Request, call[q].at = "numbered", Write(q)
  PROVE  LET kind == call[q].kind  row == call[q].row IN
         /\ TypeOK'
         /\ kind \in Kind
         /\ \A p \in Request \ {q} : call'[p] = call[p]
         /\ call'[q] = [call[q] EXCEPT !.at = "committed"]
         /\ \A k \in Kind \ {kind} : table'[k] = table[k]
         /\ table'[kind][row].status = call[q].to
         /\ row \in DOMAIN table'[kind]
         /\ \A i \in DOMAIN table[kind] :
              i \in DOMAIN table'[kind] /\ (i # row => table'[kind][i] = table[kind][i])
         /\ Adds(q) => row \notin DOMAIN table[kind]
         /\ \A i \in DOMAIN table'[kind] : i \in DOMAIN table[kind] \/ (Adds(q) /\ i = row)
         /\ Len(table'[kind]) \in Nat /\ Len(table[kind]) <= Len(table'[kind])
         /\ Len(log') = Len(log) + 1
         /\ call[q].number = Len(log) + 1
         /\ \A n \in DOMAIN log : log'[n] = log[n]
         /\ log'[Len(log) + 1] = LogRowOf(q)
  <1> DEFINE kind == call[q].kind
             row  == call[q].row
             rows == table[kind]
  <1>1. /\ call[q] \in Call /\ kind \in Kind /\ call[q].to \in AnyStatus
        /\ call \in [Request -> Call] /\ table \in [Kind -> Seq(Row)] /\ log \in Seq(LogRow)
    BY DEF Inductive, TypeOK, Call, Chosen
  <1>2. rows \in Seq(Row) /\ Len(rows) \in Nat /\ DOMAIN rows = 1 .. Len(rows)
        /\ Len(log) \in Nat /\ DOMAIN log = 1 .. Len(log)
    BY <1>1, Rows DEF Inductive
  <1>3. /\ ~(call[q].number \in DOMAIN log) /\ call[q].number \in 1 .. Len(log) + 1
        /\ Adds(q) => row \notin DOMAIN rows /\ row \in 1 .. Len(rows) + 1
        /\ ~Adds(q) => row \in DOMAIN rows
    BY DEF Write, Collides, Inductive, Chosen
  <1>4. /\ call[q].number = Len(log) + 1
        /\ IF call[q].from = Absent THEN row = Len(rows) + 1 ELSE row \in 1 .. Len(rows)
    BY <1>2, <1>3 DEF Adds
  <1>5. /\ table'[kind] = After(rows, call[q]) /\ \A k \in Kind \ {kind} : table'[k] = table[k]
        /\ DOMAIN table' = Kind
        /\ table' = [table EXCEPT ![kind] = After(rows, call[q])]
    BY <1>1 DEF Write
  <1>6. /\ After(rows, call[q]) \in Seq(Row)
        /\ Len(After(rows, call[q])) = IF Adds(q) THEN Len(rows) + 1 ELSE Len(rows)
        /\ After(rows, call[q])[row].status = call[q].to
        /\ \A i \in 1 .. Len(rows) : i # row => After(rows, call[q])[i] = rows[i]
        /\ row \in 1 .. Len(After(rows, call[q]))
    BY <1>1, <1>2, <1>4, AfterEffect DEF Adds
  <1>7. DOMAIN table'[kind] = 1 .. Len(After(rows, call[q]))
    BY <1>5, <1>6
  <1>8. LogRowOf(q) \in LogRow
    BY <1>1, Statuses DEF LogRowOf, LogRow, Call
  <1>9. /\ log' \in Seq(LogRow) /\ Len(log') = Len(log) + 1
        /\ \A n \in 1 .. Len(log) : log'[n] = log[n]
        /\ log'[Len(log) + 1] = LogRowOf(q)
    BY <1>1, <1>8, AppendProperties DEF Write
  <1>10. /\ call'[q] = [call[q] EXCEPT !.at = "committed"]
         /\ \A p \in Request \ {q} : call'[p] = call[p]
         /\ call' \in [Request -> Call]
    <2>1. [call[q] EXCEPT !.at = "committed"] \in Call
      BY <1>1 DEF Call, Done
    <2> QED BY <1>1, <2>1 DEF Write
  <1>11. table' \in [Kind -> Seq(Row)]
    BY <1>1, <1>5, <1>6
  <1>12. TypeOK'
    BY <1>9, <1>10, <1>11 DEF TypeOK
  <1> HIDE DEF kind, row, rows
  <1>13. /\ \A i \in DOMAIN rows :
              i \in DOMAIN table'[kind] /\ (i # row => table'[kind][i] = rows[i])
         /\ \A i \in DOMAIN table'[kind] : i \in DOMAIN rows \/ (Adds(q) /\ i = row)
         /\ Len(table'[kind]) \in Nat /\ Len(rows) <= Len(table'[kind])
         /\ row \in DOMAIN table'[kind]
         /\ table'[kind][row].status = call[q].to
    BY <1>2, <1>4, <1>5, <1>6, <1>7 DEF Adds
  <1> QED
    BY <1>1, <1>2, <1>3, <1>4, <1>5, <1>9, <1>10, <1>12, <1>13 DEF kind, row, rows
-----------------------------------------------------------------------------
\* A committed request stays one, so what was taken stays taken.
LEMMA TakenStays ==
  ASSUME NEW q \in Request, call[q].at # "committed",
         \A p \in Request \ {q} : call'[p] = call[p],
         NEW p \in Request, call'[p].number = call[p].number, call'[p].row = call[p].row,
         call'[p].kind = call[p].kind
  PROVE  /\ NumberTaken(p) => NumberTaken(p)'
         /\ RowTaken(p) => RowTaken(p)'
  BY DEF NumberTaken, RowTaken, Adds

\* A reading step keeps the invariant if what the request chose is right.
LEMMA ReadStep ==
  ASSUME Inductive, NEW q \in Request, NEW fields \in Call, Goes(q, fields),
         call[q].at # "committed", fields.at # "committed", Chosen(q)', Winner(q)',
         fields.at = "failed" => (NumberTaken(q) \/ (Adds(q) /\ RowTaken(q)))'
  PROVE  Inductive'
  <1>1. Reads(q) /\ call'[q] = fields /\ call' \in [Request -> Call]
    BY ReadEffect DEF Inductive
  <1>2. TypeOK'
    BY <1>1 DEF Inductive, TypeOK, Reads
  <1>3. LogAgrees'
    BY <1>1 DEF Inductive, LogAgrees, About, Reads
  <1>4. ASSUME NEW p \in Request \ {q} PROVE Chosen(p)' /\ Winner(p)'
    <2>1. Chosen(p) /\ Winner(p)
      BY DEF Inductive
    <2>2. /\ NumberTaken(p) => NumberTaken(p)'
          /\ RowTaken(p) => RowTaken(p)'
      BY <1>1, TakenStays DEF Reads
    <2> QED BY <1>1, <2>1, <2>2 DEF Chosen, Winner, Reads, Adds
  <1>5. CollisionHasWinner'
    <2> SUFFICES ASSUME NEW p \in Request \ {q}, call'[p].at = "failed"
                 PROVE  (NumberTaken(p) \/ (Adds(p) /\ RowTaken(p)))'
      BY <1>1 DEF CollisionHasWinner
    <2>1. NumberTaken(p) \/ (Adds(p) /\ RowTaken(p))
      BY <1>1 DEF Inductive, CollisionHasWinner, Reads
    <2>2. /\ NumberTaken(p) => NumberTaken(p)'
          /\ RowTaken(p) => RowTaken(p)'
      BY <1>1, TakenStays DEF Reads
    <2> QED BY <1>1, <2>1, <2>2 DEF Reads, Adds
  <1> QED BY <1>2, <1>3, <1>4, <1>5 DEF Inductive

\* The records the steps of a request build are records of a request.
LEMMA Updates ==
  ASSUME NEW c \in Call, NEW n \in Nat
  PROVE  /\ [c EXCEPT !.at = "identified", !.row = n] \in Call
         /\ [c EXCEPT !.at = "numbered", !.number = n] \in Call
         /\ [c EXCEPT !.at = "failed"] \in Call
  BY DEF Call, Done

\* A request that was not made, or was refused, has chosen nothing.
LEMMA IdleCall == /\ Idle \in Call /\ Idle.at = "idle" /\ Idle.from = Absent
                  /\ [Idle EXCEPT !.at = "refused"] \in Call
                  /\ [Idle EXCEPT !.at = "refused"].at = "refused"
  BY Statuses DEF Idle, Call, Done, Kind

\* _load_entity_row reads a row that is there, and an edge of its machine.
LEMMA LoadStep ==
  ASSUME Inductive, NEW q \in Request, NEW kind \in Kind, NEW to \in AnyStatus,
         NEW row \in DOMAIN table[kind], Load(q, kind, row, to)
  PROVE  Inductive'
  <1> DEFINE from == table[kind][row].status
             fields == [Idle EXCEPT !.at = "identified", !.kind = kind, !.row = row,
                                    !.from = from, !.to = to]
  <1>1. call[q].at = "idle"
    BY IdleCall DEF Load
  <1>2. CASE <<from, to>> \notin EdgesOf(kind)
    <2>1. Goes(q, [Idle EXCEPT !.at = "refused"])
      BY <1>2 DEF Load
    <2>2. call'[q].at = "refused"
      BY <2>1, IdleCall, ReadEffect DEF Inductive
    <2>3. Chosen(q)' /\ Winner(q)'
      BY <2>2 DEF Chosen, Winner
    <2> QED BY <1>1, <2>1, <2>3, IdleCall, ReadStep
  <1>3. CASE <<from, to>> \in EdgesOf(kind)
    <2>1. Goes(q, fields)
      BY <1>3 DEF Load
    <2>2. from \in AnyStatus /\ to \in AnyStatus
      BY <1>3, Statuses
    <2>3. row \in Nat
      BY Rows DEF Inductive
    <2>4. /\ fields \in Call /\ fields.at = "identified" /\ fields.kind = kind
          /\ fields.row = row /\ fields.from = from /\ fields.to = to
      BY <2>2, <2>3, Statuses DEF Idle, Call
    <2> HIDE DEF fields
    <2>5. Reads(q) /\ call'[q] = fields
      BY <2>1, <2>4, ReadEffect DEF Inductive
    <2>6. Chosen(q)' /\ Winner(q)'
      BY <2>2, <2>4, <2>5, Statuses DEF Chosen, Winner, Adds, Reads
    <2> QED BY <1>1, <2>1, <2>4, <2>6, ReadStep
  <1> QED BY <1>2, <1>3

\* The comparison of titles chooses a first status and no number.
LEMMA CompareStep ==
  ASSUME Inductive, NEW q \in Request, NEW kind \in Kind, NEW title \in Title \cup {NoTitle},
         Compare(q, kind, title)
  PROVE  Inductive'
  <1> DEFINE fields == [Idle EXCEPT !.at = "checked", !.kind = kind, !.to = FirstOf(kind),
                                    !.title = title]
  <1>1. call[q].at = "idle"
    BY IdleCall DEF Compare
  <1>2. CASE kind = "defect" /\ SameTitle(kind, title)
    <2>1. Goes(q, [Idle EXCEPT !.at = "refused"])
      BY <1>2 DEF Compare
    <2>2. call'[q].at = "refused"
      BY <2>1, IdleCall, ReadEffect DEF Inductive
    <2>3. Chosen(q)' /\ Winner(q)'
      BY <2>2 DEF Chosen, Winner
    <2> QED BY <1>1, <2>1, <2>3, IdleCall, ReadStep
  <1>3. CASE ~(kind = "defect" /\ SameTitle(kind, title))
    <2>1. Goes(q, fields)
      BY <1>3 DEF Compare
    <2>2. /\ fields \in Call /\ fields.at = "checked" /\ fields.from = Absent
          /\ fields.to \in AnyStatus
      BY Statuses DEF Idle, Call
    <2> HIDE DEF fields
    <2>3. call'[q] = fields
      BY <2>1, <2>2, ReadEffect DEF Inductive
    <2>4. Chosen(q)' /\ Winner(q)'
      BY <2>2, <2>3 DEF Chosen, Winner, Adds
    <2> QED BY <1>1, <2>1, <2>2, <2>4, ReadStep
  <1> QED BY <1>2, <1>3

\* The number after the rows that are there is not in use.
LEMMA IdentifyStep ==
  ASSUME Inductive, NEW q \in Request, Identify(q) PROVE Inductive'
  <1> DEFINE kind == call[q].kind
             fields == [call[q] EXCEPT !.at = "identified", !.row = Len(table[kind]) + 1]
  <1>1. /\ call[q] \in Call /\ kind \in Kind /\ call[q].at = "checked"
        /\ call[q].to \in AnyStatus /\ call[q].from = Absent
    BY DEF Inductive, TypeOK, Call, Identify, Chosen, Adds
  <1>2. Len(table[kind]) \in Nat /\ DOMAIN table[kind] = 1 .. Len(table[kind])
    BY <1>1, Rows DEF Inductive
  <1>3. Goes(q, fields)
    BY DEF Identify
  <1>4. /\ fields \in Call /\ fields.at = "identified" /\ fields.to \in AnyStatus
        /\ fields.from = Absent /\ fields.kind = kind /\ fields.row = Len(table[kind]) + 1
    <2> DEFINE c == call[q]
               n == Len(table[kind]) + 1
    <2>1. c \in Call /\ n \in Nat
      BY <1>1, <1>2
    <2> HIDE DEF c, n
    <2>2. [c EXCEPT !.at = "identified", !.row = n] \in Call
      BY <2>1, Updates
    <2> QED BY <1>1, <2>2 DEF Call, c, n
  <1> HIDE DEF fields
  <1>5. Reads(q) /\ call'[q] = fields
    BY <1>3, <1>4, ReadEffect DEF Inductive
  <1>6. Chosen(q)'
    BY <1>2, <1>4, <1>5 DEF Chosen, Adds, Reads
  <1>7. Winner(q)'
    BY <1>2, <1>4, <1>5 DEF Winner, Reads
  <1> QED BY <1>1, <1>3, <1>4, <1>6, <1>7, ReadStep

\* The number after the transitions that are there is not in use.
LEMMA NumberStep ==
  ASSUME Inductive, NEW q \in Request, Number(q) PROVE Inductive'
  <1> DEFINE fields == [call[q] EXCEPT !.at = "numbered", !.number = Len(log) + 1]
  <1>1. /\ call[q] \in Call /\ call[q].at = "identified" /\ Chosen(q) /\ Winner(q)
        /\ Len(log) \in Nat /\ DOMAIN log = 1 .. Len(log)
    BY DEF Inductive, TypeOK, Number
  <1>2. Goes(q, fields)
    BY DEF Number
  <1>3. /\ fields \in Call /\ fields.at = "numbered" /\ fields.number = Len(log) + 1
        /\ fields.to = call[q].to /\ fields.from = call[q].from
        /\ fields.kind = call[q].kind /\ fields.row = call[q].row
    <2> DEFINE c == call[q]
               n == Len(log) + 1
    <2>1. c \in Call /\ n \in Nat
      BY <1>1
    <2> HIDE DEF c, n
    <2>2. [c EXCEPT !.at = "numbered", !.number = n] \in Call
      BY <2>1, Updates
    <2> QED BY <1>1, <2>2 DEF Call, c, n
  <1> HIDE DEF fields
  <1>4. Reads(q) /\ call'[q] = fields
    BY <1>2, <1>3, ReadEffect DEF Inductive
  <1>5. RowTaken(q) => RowTaken(q)'
    BY <1>1, <1>3, <1>4 DEF RowTaken, Adds, Reads
  <1>6. Chosen(q)'
    BY <1>1, <1>3, <1>4 DEF Chosen, Adds, Reads
  <1>7. Winner(q)'
    BY <1>1, <1>3, <1>4, <1>5 DEF Winner, Adds, Reads
  <1> QED BY <1>1, <1>2, <1>3, <1>6, <1>7, ReadStep

\* A request fails only on a number that another one committed.
LEMMA FailStep ==
  ASSUME Inductive, NEW q \in Request, call[q].at = "numbered", Fail(q) PROVE Inductive'
  <1> DEFINE fields == [call[q] EXCEPT !.at = "failed"]
  <1>1. call[q] \in Call /\ Winner(q) /\ Collides(q) /\ Goes(q, fields)
    BY DEF Inductive, TypeOK, Fail
  <1>2. /\ fields \in Call /\ fields.at = "failed" /\ fields.from = call[q].from
        /\ fields.kind = call[q].kind /\ fields.row = call[q].row
        /\ fields.number = call[q].number
    BY <1>1 DEF Call, Done
  <1> HIDE DEF fields
  <1>3. Reads(q) /\ call'[q] = fields
    BY <1>1, <1>2, ReadEffect DEF Inductive
  <1>4. NumberTaken(q) \/ (Adds(q) /\ RowTaken(q))
    BY <1>1 DEF Collides, Winner
  <1>5. (NumberTaken(q) \/ (Adds(q) /\ RowTaken(q)))'
    BY <1>2, <1>3, <1>4 DEF NumberTaken, RowTaken, Adds, Reads
  <1>6. Chosen(q)' /\ Winner(q)'
    BY <1>2, <1>3 DEF Chosen, Winner
  <1> QED BY <1>1, <1>2, <1>5, <1>6, ReadStep

\* After a write the log and the row agree again, and whoever chose the same
\* numbers has lost to the writer.
LEMMA WriteStep ==
  ASSUME Inductive, NEW q \in Request, call[q].at = "numbered", Write(q) PROVE Inductive'
  <1> DEFINE kind == call[q].kind
             row  == call[q].row
             new  == Len(log) + 1
  <1>1. /\ TypeOK' /\ kind \in Kind
        /\ \A p \in Request \ {q} : call'[p] = call[p]
        /\ call'[q] = [call[q] EXCEPT !.at = "committed"]
        /\ \A k \in Kind \ {kind} : table'[k] = table[k]
        /\ table'[kind][row].status = call[q].to
        /\ row \in DOMAIN table'[kind]
        /\ \A i \in DOMAIN table[kind] :
             i \in DOMAIN table'[kind] /\ (i # row => table'[kind][i] = table[kind][i])
        /\ Adds(q) => row \notin DOMAIN table[kind]
        /\ \A i \in DOMAIN table'[kind] : i \in DOMAIN table[kind] \/ (Adds(q) /\ i = row)
        /\ Len(table'[kind]) \in Nat /\ Len(table[kind]) <= Len(table'[kind])
        /\ Len(log') = new
        /\ call[q].number = new
        /\ \A n \in DOMAIN log : log'[n] = log[n]
        /\ log'[new] = LogRowOf(q)
    BY WriteEffect
  <1>2. /\ Len(log) \in Nat /\ DOMAIN log = 1 .. Len(log)
        /\ \A n \in DOMAIN log : log[n].kind \in Kind
        /\ \A k \in Kind : DOMAIN table[k] = 1 .. Len(table[k]) /\ Len(table[k]) \in Nat
    <2>1. TypeOK
      BY DEF Inductive
    <2>2. \A k \in Kind : /\ DOMAIN table[k] = 1 .. Len(table[k]) /\ Len(table[k]) \in Nat
                          /\ Len(log) \in Nat /\ DOMAIN log = 1 .. Len(log)
                          /\ \A n \in DOMAIN log : log[n] \in LogRow
      BY <2>1, Rows
    <2> QED BY <1>1, <2>2 DEF LogRow
  <1>3. /\ DOMAIN log' = 1 .. new
        /\ \A k \in Kind : DOMAIN table'[k] = 1 .. Len(table'[k]) /\ Len(table'[k]) \in Nat
    BY <1>1, Rows DEF TypeOK
  <1>4. /\ log'[new].kind = kind /\ log'[new].row = row /\ log'[new].to = call[q].to
    BY <1>1 DEF LogRowOf
  <1>5. /\ call[q] \in Call /\ call'[q].at = "committed" /\ call'[q].number = call[q].number
        /\ call'[q].row = row /\ call'[q].kind = kind /\ call'[q].from = call[q].from
    BY <1>1 DEF Inductive, TypeOK, Call
  <1> HIDE DEF kind, row, new
  <1>6. LogAgrees'
    <2>1. ASSUME NEW n \in DOMAIN log' PROVE log'[n].row \in DOMAIN table'[log'[n].kind]
      <3>1. CASE n = new
        BY <3>1, <1>1, <1>4
      <3>2. CASE n \in DOMAIN log
        BY <3>2, <1>1, <1>2 DEF Inductive, LogAgrees
      <3> QED BY <3>1, <3>2, <1>2, <1>3 DEF new
    <2>2. ASSUME NEW k \in Kind, NEW i \in DOMAIN table'[k], NEW n \in DOMAIN log',
                 log'[n].kind = k, log'[n].row = i,
                 \A m \in DOMAIN log' : log'[m].kind = k /\ log'[m].row = i => m <= n
          PROVE  table'[k][i].status = log'[n].to
      <3>1. CASE n = new
        BY <3>1, <2>2, <1>1, <1>4
      <3>2. CASE n # new
        <4>1. n \in DOMAIN log /\ new \in DOMAIN log' /\ ~(new <= n)
          BY <3>2, <1>2, <1>3 DEF new
        <4>2. ~(k = kind /\ i = row)
          BY <2>2, <4>1, <1>4
        <4>3. i \in DOMAIN table[k] /\ table'[k][i] = table[k][i]
          BY <4>2, <1>1
        <4>4. \A m \in DOMAIN log : log[m].kind = k /\ log[m].row = i => m <= n
          BY <2>2, <1>1, <1>2, <1>3 DEF new
        <4>5. table[k][i].status = log[n].to
          BY <2>2, <4>1, <4>3, <4>4, <1>1 DEF Inductive, LogAgrees, About
        <4> QED BY <4>1, <4>3, <4>5, <1>1
      <3> QED BY <3>1, <3>2
    <2> QED BY <2>1, <2>2 DEF LogAgrees, About
  <1>7. ASSUME NEW p \in Request \ {q} PROVE Chosen(p)' /\ Winner(p)'
    <2>1. Chosen(p) /\ Winner(p) /\ call'[p] = call[p]
      BY <1>1 DEF Inductive
    <2>2. /\ NumberTaken(p) => NumberTaken(p)'
          /\ RowTaken(p) => RowTaken(p)'
      BY <1>1, <2>1, TakenStays
    <2>3. call[p].kind \in Kind
      BY DEF Inductive, TypeOK, Call
    <2>4. Chosen(p)'
      <3>1. DOMAIN table[call[p].kind] \subseteq DOMAIN table'[call[p].kind]
        BY <2>3, <1>1
      <3>2. 1 .. Len(table[call[p].kind]) + 1 \subseteq 1 .. Len(table'[call[p].kind]) + 1
        <4>1. Len(table[call[p].kind]) <= Len(table'[call[p].kind])
          BY <2>3, <1>1, <1>2
        <4>2. Len(table[call[p].kind]) \in Nat /\ Len(table'[call[p].kind]) \in Nat
          BY <2>3, <1>2, <1>3
        <4> QED BY <4>1, <4>2
      <3>3. 1 .. Len(log) + 1 \subseteq 1 .. Len(log') + 1
        BY <1>1, <1>2 DEF new
      <3> QED BY <2>1, <3>1, <3>2, <3>3 DEF Chosen, Adds
    <2>5. ASSUME call[p].at = "numbered", call[p].number \in DOMAIN log' PROVE NumberTaken(p)'
      <3>1. CASE call[p].number \in DOMAIN log
        BY <3>1, <2>5, <2>1, <2>2 DEF Winner
      <3>2. CASE call[p].number = new
        BY <3>2, <2>1, <1>1, <1>5 DEF NumberTaken
      <3> QED BY <2>5, <3>1, <3>2, <1>2, <1>3 DEF new
    <2>6. ASSUME call[p].at \in {"identified", "numbered"}, Adds(p),
                 call[p].row \in DOMAIN table'[call[p].kind]
          PROVE  RowTaken(p)'
      <3>1. CASE call[p].row \in DOMAIN table[call[p].kind]
        BY <3>1, <2>6, <2>1, <2>2 DEF Winner
      <3>2. CASE call[p].row \notin DOMAIN table[call[p].kind]
        <4>1. call[p].kind = kind /\ call[p].row = row /\ Adds(q)
          BY <3>2, <2>3, <2>6, <1>1
        <4> QED BY <4>1, <2>1, <1>5 DEF RowTaken, Adds
      <3> QED BY <3>1, <3>2
    <2>7. Winner(p)'
      BY <2>1, <2>5, <2>6 DEF Winner, Adds
    <2> QED BY <2>4, <2>7
  <1>8. Chosen(q)' /\ Winner(q)'
    BY <1>5 DEF Chosen, Winner
  <1>9. CollisionHasWinner'
    <2> SUFFICES ASSUME NEW p \in Request, call'[p].at = "failed"
                 PROVE  (NumberTaken(p) \/ (Adds(p) /\ RowTaken(p)))'
      BY DEF CollisionHasWinner
    <2>1. p # q /\ call'[p] = call[p]
      BY <1>1, <1>5
    <2>2. NumberTaken(p) \/ (Adds(p) /\ RowTaken(p))
      BY <2>1 DEF Inductive, CollisionHasWinner
    <2>3. /\ NumberTaken(p) => NumberTaken(p)'
          /\ RowTaken(p) => RowTaken(p)'
      BY <1>1, <2>1, TakenStays
    <2> QED BY <2>1, <2>2, <2>3 DEF Adds
  <1> QED BY <1>1, <1>6, <1>7, <1>8, <1>9 DEF Inductive

\* Before any request was made nothing was chosen and the log is empty.
LEMMA InitInductive == Init => Inductive
  <1> SUFFICES ASSUME Init PROVE Inductive
    OBVIOUS
  <1>1. TypeOK
    BY TablesOfRows, IdleCall DEF Init, TypeOK
  <1>2. \A q \in Request : call[q].at = "idle"
    BY IdleCall DEF Init
  <1>3. LogAgrees
    BY DEF Init, LogAgrees, About
  <1> QED BY <1>1, <1>2, <1>3 DEF Inductive, Chosen, Winner, CollisionHasWinner

\* Every step of every request keeps the invariant.
LEMMA StepInductive == Inductive /\ [Next]_vars => Inductive'
  <1> SUFFICES ASSUME Inductive, [Next]_vars PROVE Inductive'
    OBVIOUS
  <1>1. ASSUME NEW q \in Request, Start(q) PROVE Inductive'
    BY <1>1, LoadStep, CompareStep DEF Start, AnyStatus
  <1>2. ASSUME NEW q \in Request, Continue(q) PROVE Inductive'
    BY <1>2, IdentifyStep, NumberStep, WriteStep, FailStep DEF Continue, Commit
  <1>3. CASE UNCHANGED vars
    BY <1>3 DEF vars, Inductive, TypeOK, Chosen, Winner, LogAgrees, About, Adds,
                CollisionHasWinner, NumberTaken, RowTaken
  <1> QED BY <1>1, <1>2, <1>3 DEF Next

\* The invariant the three theorems below are read off: what a request has
\* chosen is still a row, or the number after rows and transitions that are there.
THEOREM ConcurrentInductive == Spec => []Inductive
  BY InitInductive, StepInductive, PTL DEF Spec

\* Whatever requests overlap, the variables keep their types.
THEOREM ConcurrentTypes == Spec => []TypeOK
  <1>1. Inductive => TypeOK
    BY DEF Inductive
  <1> QED BY <1>1, ConcurrentInductive, PTL

\* Whatever requests overlap, a row has the status of its newest transition.
THEOREM ConcurrentLog == Spec => []LogAgrees
  <1>1. Inductive => LogAgrees
    BY DEF Inductive
  <1> QED BY <1>1, ConcurrentInductive, PTL

\* Whatever requests overlap, one that fails has lost to one that was committed.
THEOREM ConcurrentProgress == Spec => []CollisionHasWinner
  <1>1. Inductive => CollisionHasWinner
    BY DEF Inductive
  <1> QED BY <1>1, ConcurrentInductive, PTL
=============================================================================
