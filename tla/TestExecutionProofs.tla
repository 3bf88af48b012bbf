------------------------- MODULE TestExecutionProofs -------------------------
(***************************************************************************)
(* Proofs about TestExecution, for any sets of rows, any master data, any  *)
(* imported database and both values of AutoFlush.                         *)
(***************************************************************************)
EXTENDS TestExecution, TLAPS

\* The four kinds of entities do not overlap.
LEMMA Kinds ==
  /\ \A e \in Run : e \in Entity /\ e \notin Result /\ e \notin ProcedureRow /\ e \notin Defect
  /\ \A e \in Result : e \in Entity /\ e \notin Run /\ e \notin ProcedureRow /\ e \notin Defect
  /\ \A e \in ProcedureRow : e \in Entity /\ e \notin Run /\ e \notin Result /\ e \notin Defect
  /\ \A e \in Defect : e \in Entity /\ e \notin Run /\ e \notin Result /\ e \notin ProcedureRow
  /\ \A s \in Result, p \in Procedure : <<s, p>> \in ProcedureRow
  BY DisjointIds DEF Entity, ProcedureRow

\* What Move does to the two functions it assigns.
LEMMA MoveEffect ==
  ASSUME NEW to, Move(to)
  PROVE  /\ \A e \in Entity : e \in DOMAIN to =>
               status'[e] = to[e] /\ newest'[e] = [from |-> status[e], to |-> to[e]]
         /\ \A e \in Entity : e \notin DOMAIN to =>
               status'[e] = status[e] /\ newest'[e] = newest[e]
         /\ failed' = None
  BY DEF Move

\* No status of the import is one of the service.
LEMMA Capitals ==
  ImportedRunStatus \cup ImportedResultStatus \cup ImportedDefectStatus
    \subseteq {"PASSED", "BLOCKED", "IN_PROGRESS", "FAILED", "OPEN"}
  BY DEF ImportedRunStatus, ImportedResultStatus, ImportedDefectStatus

\* An imported row is in a status no machine of the service knows.
LEMMA Inert ==
  ASSUME TypeOK
  PROVE  \A e \in Imported : /\ e \in Entity /\ e \notin ProcedureRow
                            /\ status[e] \in {"PASSED", "BLOCKED", "IN_PROGRESS",
                                             "FAILED", "OPEN"}
  BY ImportedIds, Kinds
  DEF TypeOK, StatusType, ImportedRunStatus, ImportedResultStatus, ImportedDefectStatus

\* A transaction whose new statuses fit the kinds of their rows, none of them
\* imported, keeps the types.
LEMMA MoveType ==
  ASSUME TypeOK, NEW to, Move(to), \A e \in Imported : e \notin DOMAIN to,
         \A e \in Run : e \in DOMAIN to => to[e] \in RunStatus,
         \A e \in Result \cup ProcedureRow : e \in DOMAIN to => to[e] \in ResultStatus,
         \A e \in Defect : e \in DOMAIN to => to[e] \in DefectStatus
  PROVE  /\ StatusType'
         /\ newest' \in [Entity -> [from : AnyStatus, to : AnyStatus] \cup {NoTransition}]
         /\ failed' \in Operations \cup {None}
  <1>1. \A e \in Entity : e \in DOMAIN to => to[e] \in AnyStatus
    BY DEF Entity, Status, AnyStatus
  <1>2. /\ status' \in [Entity -> AnyStatus]
        /\ newest' \in [Entity -> [from : AnyStatus, to : AnyStatus] \cup {NoTransition}]
    BY <1>1 DEF Move, TypeOK, StatusType
  <1>3. \A e \in Entity : status'[e] = IF e \in DOMAIN to THEN to[e] ELSE status[e]
    BY MoveEffect
  <1>4. \A e \in Run : status'[e] \in
          IF e \in Imported THEN ImportedRunStatus ELSE RunStatus \cup {Absent}
    BY <1>3, Kinds DEF TypeOK, StatusType
  <1>5. \A e \in Result : status'[e] \in
          IF e \in Imported THEN ImportedResultStatus ELSE ResultStatus \cup {Absent}
    BY <1>3, Kinds DEF TypeOK, StatusType
  <1>6. \A e \in ProcedureRow : status'[e] \in ResultStatus \cup {Absent}
    BY <1>3, Kinds DEF TypeOK, StatusType
  <1>7. \A e \in Defect : status'[e] \in
          IF e \in Imported THEN ImportedDefectStatus ELSE DefectStatus \cup {Absent}
    BY <1>3, Kinds DEF TypeOK, StatusType
  <1> QED BY <1>2, <1>4, <1>5, <1>6, <1>7, MoveEffect DEF StatusType

\* The same for a transaction that moves one row.
LEMMA MoveOneEffect ==
  ASSUME NEW e \in Entity, NEW to, MoveOne(e, to)
  PROVE  /\ status'[e] = to /\ newest'[e] = [from |-> status[e], to |-> to]
         /\ \A f \in Entity : f # e => status'[f] = status[f] /\ newest'[f] = newest[f]
         /\ failed' = None
  <1> DEFINE one == [x \in {e} |-> to]
  <1>1. Move(one) /\ DOMAIN one = {e} /\ one[e] = to
    BY DEF MoveOne
  <1> HIDE DEF one
  <1> QED BY <1>1, MoveEffect

\* One row moved to a status of its kind keeps the types.
LEMMA MoveOneType ==
  ASSUME TypeOK, NEW e \in Entity, NEW to, MoveOne(e, to), e \notin Imported,
         \/ e \in Run /\ to \in RunStatus
         \/ e \in Defect /\ to \in DefectStatus
  PROVE  /\ StatusType'
         /\ newest' \in [Entity -> [from : AnyStatus, to : AnyStatus] \cup {NoTransition}]
         /\ failed' \in Operations \cup {None}
  <1> DEFINE one == [x \in {e} |-> to]
  <1>1. Move(one) /\ DOMAIN one = {e} /\ one[e] = to
    BY DEF MoveOne
  <1> HIDE DEF one
  <1> QED BY <1>1, MoveType, Kinds
-----------------------------------------------------------------------------
(***************************************************************************)
(* The rules.                                                              *)
(***************************************************************************)
LEMMA Edges ==
  /\ \A a, b : <<a, b>> \in RunEdges =>
       a = "running" /\ b \in {"finished", "cancelled"}
  /\ \A a, b : <<a, b>> \in ResultEdges =>
       /\ a \in {"testing", "blocked", "skipped"} /\ b \in ResultStatus /\ a # b
       /\ a # "testing" => b = "testing"
  /\ \A a, b : <<a, b>> \in DefectEdges =>
       /\ a \in {"opened", "assigned", "fixed", "retested"} /\ b \in DefectStatus
       /\ b # "opened" /\ a # b
       /\ b = "retested" => a = "fixed"
       /\ b = "closed" => a = "retested"
       /\ b = "fixed" => a = "assigned"
  BY DEF RunEdges, ResultEdges, DefectEdges, ResultStatus, DefectStatus

\* A result is failed as soon as one procedure is, passed only if all are, and
\* its summary is a result status, whatever the procedures are.
LEMMA Summary ==
  ASSUME NEW S
  PROVE  /\ Summarize(S) \in ResultStatus
         /\ "failed" \in S <=> Summarize(S) = "failed"
         /\ S = {"passed"} <=> Summarize(S) = "passed"
         /\ S = {"testing"} => Summarize(S) = "testing"
  BY DEF Summarize, ResultStatus
-----------------------------------------------------------------------------
(***************************************************************************)
(* Type correctness.                                                       *)
(***************************************************************************)
LEMMA StartRunType ==
  ASSUME TypeOK, NEW r \in Run, StartRun(r) PROVE TypeOK'
  <1>1. /\ r \in Entity /\ "running" \in RunStatus /\ r \notin Imported
        /\ MoveOne(r, "running") /\ UNCHANGED <<place, reason, defect, evidenced>>
    BY Kinds, Inert DEF RunStatus, StartRun, FirstRunStatus, Exists, Absent
  <1>2. \A e \in Result \cup Defect : status'[e] = status[e]
    BY <1>1, MoveOneEffect, Kinds
  <1>3. ColumnType'
    BY <1>1, <1>2 DEF TypeOK, ColumnType, Exists
  <1> QED BY <1>1, <1>3, MoveOneType DEF TypeOK

\* finish_run and cancel_run keep the types.
LEMMA EndRunType ==
  ASSUME TypeOK, NEW r \in Run, NEW to \in {"finished", "cancelled"}, EndRun(r, to)
  PROVE  TypeOK'
  <1>1. /\ r \in Entity /\ to \in RunStatus /\ r \notin Imported
        /\ MoveOne(r, to) /\ UNCHANGED <<place, reason, defect, evidenced>>
    BY Kinds, Inert, Edges DEF RunStatus, EndRun
  <1>2. \A e \in Result \cup Defect : status'[e] = status[e]
    BY <1>1, MoveOneEffect, Kinds
  <1>3. ColumnType'
    BY <1>1, <1>2 DEF TypeOK, ColumnType, Exists
  <1> QED BY <1>1, <1>3, MoveOneType DEF TypeOK

\* A transaction that is undone keeps the types.
LEMMA RolledBackType ==
  ASSUME TypeOK, NEW operation \in Operations, RolledBack(operation) PROVE TypeOK'
  BY DEF RolledBack, TypeOK, StatusType, ColumnType, Exists

\* The rows a new result brings: its procedure rows start with it.
LEMMA CreateResultEffect ==
  ASSUME NEW s \in Result, NEW r \in Run, NEW c \in Case, NEW operation,
         CreateResult(s, r, c, operation)
  PROVE  \/ /\ \A e \in Entity :
                IF e = s \/ e \in {s} \X ProceduresOf[c]
                  THEN /\ status'[e] = "testing"
                       /\ newest'[e] = [from |-> status[e], to |-> "testing"]
                  ELSE status'[e] = status[e] /\ newest'[e] = newest[e]
            /\ ~Exists(s)
            /\ \E to : /\ Move(to)
                       /\ DOMAIN to \subseteq {s} \cup ProcedureRow
                       /\ \A e \in DOMAIN to : to[e] = "testing"
            /\ place' = [place EXCEPT ![s] = [run |-> r, case |-> c]]
            /\ UNCHANGED <<reason, defect, evidenced>>
         \/ RolledBack(operation)
  <1> DEFINE new == {s} \cup ({s} \X ProceduresOf[c])
             to  == [e \in new |-> FirstResultStatus]
  <1> SUFFICES ASSUME ~RolledBack(operation)
               PROVE  /\ \A e \in Entity :
                           IF e \in new
                             THEN /\ status'[e] = "testing"
                                  /\ newest'[e] = [from |-> status[e], to |-> "testing"]
                             ELSE status'[e] = status[e] /\ newest'[e] = newest[e]
                      /\ ~Exists(s)
                      /\ Move(to)
                      /\ DOMAIN to \subseteq {s} \cup ProcedureRow
                      /\ \A e \in DOMAIN to : to[e] = "testing"
                      /\ place' = [place EXCEPT ![s] = [run |-> r, case |-> c]]
                      /\ UNCHANGED <<reason, defect, evidenced>>
    OBVIOUS
  <1>1. /\ Move(to) /\ ~Exists(s)
        /\ place' = [place EXCEPT ![s] = [run |-> r, case |-> c]]
        /\ UNCHANGED <<reason, defect, evidenced>>
    BY DEF CreateResult
  <1>2. DOMAIN to = new /\ \A e \in new : to[e] = "testing"
    BY DEF FirstResultStatus
  <1>3. new \subseteq {s} \cup ProcedureRow
    BY MasterData DEF ProcedureRow
  <1> HIDE DEF to, new
  <1> QED BY <1>1, <1>2, <1>3, MoveEffect

\* A result and its procedure rows are created with a place and a status.
LEMMA CreateResultType ==
  ASSUME TypeOK, NEW s \in Result, NEW r \in Run, NEW c \in Case,
         NEW operation \in Operations, CreateResult(s, r, c, operation)
  PROVE  TypeOK'
  <1>1. CASE RolledBack(operation)
    BY <1>1, RolledBackType
  <1>2. CASE ~RolledBack(operation)
    <2>1. PICK to : /\ Move(to) /\ ~Exists(s)
                    /\ DOMAIN to \subseteq {s} \cup ProcedureRow
                    /\ \A e \in DOMAIN to : to[e] = "testing"
      BY <1>2, CreateResultEffect
    <2> \A e \in Imported : e \notin DOMAIN to
      BY <2>1, Inert DEF Exists, Absent
    <2>2. /\ StatusType'
          /\ newest' \in [Entity -> [from : AnyStatus, to : AnyStatus] \cup {NoTransition}]
          /\ failed' \in Operations \cup {None}
      <3>1. \A e \in DOMAIN to : e \in Result \cup ProcedureRow /\ to[e] \in ResultStatus
        BY <2>1 DEF ResultStatus
      <3> QED BY <2>1, <3>1, MoveType, Kinds
    <2>3. /\ status'[s] = "testing"
          /\ \A e \in Result \cup Defect : e # s => status'[e] = status[e]
          /\ place' = [place EXCEPT ![s] = [run |-> r, case |-> c]]
          /\ UNCHANGED <<reason, defect, evidenced>>
      <3>1. {s} \X ProceduresOf[c] \subseteq ProcedureRow
        BY MasterData DEF ProcedureRow
      <3> QED BY <1>2, <3>1, CreateResultEffect, Kinds
    <2>4. [run |-> r, case |-> c] \in Places /\ [run |-> r, case |-> c] # None
      BY OutsideIds DEF Places
    <2>5. ColumnType'
      BY <2>3, <2>4, Kinds DEF TypeOK, ColumnType, Exists, Absent
    <2> QED BY <2>2, <2>5 DEF TypeOK
  <1> QED BY <1>1, <1>2

\* A judgement that is committed: the rows and the result have the statuses the
\* request asked for and the summary demands, and nothing else has moved.
LEMMA SaveProcedureResultEffect ==
  ASSUME TypeOK, NEW s \in Result, NEW p \in Procedure, NEW next \in ResultStatus,
         NEW why, SaveProcedureResult(s, p, next, why),
         ~RolledBack("save_procedure_result")
  PROVE  /\ Exists(s) /\ Exists(<<s, p>>)
         /\ next \in NeedsReason => why # None
         /\ \A e \in Entity : e \notin {s, <<s, p>>} => status'[e] = status[e]
         /\ status'[<<s, p>>] = next
         /\ RowsOf(s)' = RowsOf(s)
         /\ status'[s] = Summarize(RowStatuses(s)')
         /\ \E to : /\ Move(to)
                    /\ DOMAIN to \subseteq {s, <<s, p>>}
                    /\ \A e \in DOMAIN to : <<status[e], to[e]>> \in ResultEdges
         /\ reason' = [reason EXCEPT ![<<s, p>>] = why]
         /\ UNCHANGED <<place, defect, evidenced>>
  <1> DEFINE row     == <<s, p>>
             judged  == [q \in RowsOf(s) |-> IF q = row THEN next ELSE status[q]]
             summary == Summarize({judged[q] : q \in RowsOf(s)})
             to      == [e \in {row, s} |-> IF e = s THEN summary ELSE next]
             changed == {e \in {row, s} : to[e] # status[e]}
             moved   == [e \in changed |-> to[e]]
  <1>1. /\ Exists(s) /\ Exists(row)
        /\ next \in NeedsReason => why # None
        /\ \A e \in changed : <<status[e], to[e]>> \in ResultEdges
        /\ Move(moved)
        /\ reason' = [reason EXCEPT ![row] = why]
        /\ UNCHANGED <<place, defect, evidenced>>
    BY DEF SaveProcedureResult, Reasoned
  <1>2. s \in Entity /\ row \in Entity /\ row # s
    BY Kinds
  <1>3. to[s] = summary /\ to[row] = next
    BY <1>2
  <1>4. DOMAIN moved = changed /\ \A e \in changed : moved[e] = to[e]
    OBVIOUS
  <1>5. changed \subseteq {s, row}
    OBVIOUS
  <1>6. \A e \in {s, row} : e \notin changed => status[e] = to[e]
    OBVIOUS
  <1> HIDE DEF moved
  <1>7. \A e \in Entity : status'[e] = IF e \in changed THEN to[e] ELSE status[e]
    BY <1>1, <1>4, MoveEffect
  <1>8. \A e \in {s, row} : status'[e] = to[e]
    BY <1>2, <1>6, <1>7
  <1> HIDE DEF to, changed
  <1>9. \A e \in Entity : e \notin {s, row} => status'[e] = status[e]
    BY <1>5, <1>7
  <1>10. RowsOf(s)' = RowsOf(s)
    <2>1. \A q \in {s} \X Procedure : q \in Entity /\ q # s
      BY Kinds DEF ProcedureRow
    <2>2. \A q \in {s} \X Procedure : status'[q] # Absent <=> status[q] # Absent
      BY <1>1, <1>3, <1>8, <1>9, <2>1 DEF Exists, ResultStatus, Absent
    <2> QED BY <2>2 DEF RowsOf, Exists
  <1>11. {judged[q] : q \in RowsOf(s)} = RowStatuses(s)'
    <2>1. \A q \in RowsOf(s) : judged[q] = status'[q]
      BY <1>3, <1>8, <1>9, Kinds DEF RowsOf
    <2> QED BY <1>10, <2>1 DEF RowStatuses
  <1> QED
    BY <1>1, <1>3, <1>4, <1>5, <1>8, <1>9, <1>10, <1>11

\* A saved judgement keeps the types, committed or undone.
LEMMA SaveProcedureResultType ==
  ASSUME TypeOK, NEW s \in Result, NEW p \in Procedure, NEW next \in ResultStatus,
         NEW why \in Reason \cup {None}, SaveProcedureResult(s, p, next, why)
  PROVE  TypeOK'
  <1>1. CASE RolledBack("save_procedure_result")
    BY <1>1, RolledBackType DEF Operations
  <1>2. CASE ~RolledBack("save_procedure_result")
    <2> DEFINE row == <<s, p>>
    <2>1. /\ Exists(s) /\ row \in ProcedureRow
          /\ status'[s] = Summarize(RowStatuses(s)')
          /\ \A e \in Result \cup Defect : e # s => status'[e] = status[e]
          /\ reason' = [reason EXCEPT ![row] = why]
          /\ UNCHANGED <<place, defect, evidenced>>
      <3>1. /\ Exists(s)
            /\ \A e \in Entity : e \notin {s, row} => status'[e] = status[e]
            /\ status'[s] = Summarize(RowStatuses(s)')
            /\ reason' = [reason EXCEPT ![row] = why]
            /\ UNCHANGED <<place, defect, evidenced>>
        BY <1>2, SaveProcedureResultEffect
      <3>2. row \in ProcedureRow
        BY Kinds
      <3> HIDE DEF row
      <3> QED BY <3>1, <3>2, Kinds
    <2>2. PICK to : /\ Move(to)
                    /\ DOMAIN to \subseteq {s, row}
                    /\ \A e \in DOMAIN to : <<status[e], to[e]>> \in ResultEdges
      BY <1>2, SaveProcedureResultEffect
    <2>3. /\ StatusType'
          /\ newest' \in [Entity -> [from : AnyStatus, to : AnyStatus] \cup {NoTransition}]
          /\ failed' \in Operations \cup {None}
      <3>1. \A e \in DOMAIN to : e \in Result \cup ProcedureRow /\ to[e] \in ResultStatus
        BY <2>1, <2>2, Edges
      <3>2. \A e \in Imported : e \notin DOMAIN to
        BY <2>2, Inert, Edges
      <3> QED BY <2>2, <3>1, <3>2, MoveType, Kinds
    <2>4. status'[s] # Absent
      BY <2>1, Summary DEF ResultStatus, Absent
    <2>5. ColumnType'
      BY <2>1, <2>4 DEF TypeOK, ColumnType, Exists
    <2> QED BY <2>3, <2>5 DEF TypeOK
  <1> QED BY <1>1, <1>2

\* The columns keep their types when one defect gets a status and new columns.
LEMMA DefectColumnType ==
  ASSUME TypeOK, NEW d \in Defect, NEW to \in DefectStatus, MoveOne(d, to),
         d \notin Imported,
         defect' \in [Defect -> Defects \cup {None}], defect'[d] # None,
         \A other \in Defect \ {d} : defect'[other] = defect[other],
         UNCHANGED <<place, reason, evidenced>>
  PROVE  TypeOK'
  <1>1. /\ status'[d] = to /\ to # Absent
        /\ \A e \in Result \cup Defect : e # d => status'[e] = status[e]
    BY MoveOneEffect, Kinds DEF DefectStatus, Absent
  <1>2. ColumnType'
    BY <1>1, Kinds DEF TypeOK, ColumnType, Exists
  <1> QED BY <1>2, MoveOneType, Kinds DEF TypeOK

\* The requests about a defect keep the types.
LEMMA DefectTypes ==
  ASSUME TypeOK, NEW d \in Defect
  PROVE  /\ \A s \in Result, scope \in Procedure \cup {None}, title \in Title,
               serious \in BOOLEAN : SaveDefect(d, s, scope, title, serious) => TypeOK'
         /\ \A scope \in Procedure \cup {None} : SaveEvidence(d, scope) => TypeOK'
         /\ Assign(d) \/ Fix(d) \/ Reject(d) \/ Close(d) => TypeOK'
         /\ \A s \in Result : Retest(d, s) => TypeOK'
  <1>1. ASSUME NEW s \in Result, NEW scope \in Procedure \cup {None},
               NEW title \in Title, NEW serious \in BOOLEAN,
               SaveDefect(d, s, scope, title, serious)
        PROVE  TypeOK'
    <2> DEFINE row == [result |-> s, scope |-> scope, title |-> title,
                       serious |-> serious, retest |-> None]
    <2>1. row \in Defects /\ row # None
      BY OutsideIds DEF Defects
    <2>2. /\ MoveOne(d, "opened") /\ defect' = [defect EXCEPT ![d] = row]
          /\ UNCHANGED <<place, reason, evidenced>>
      BY <1>1 DEF SaveDefect, FirstDefectStatus
    <2> HIDE DEF row
    <2>3. defect \in [Defect -> Defects \cup {None}] /\ "opened" \in DefectStatus
      BY DEF TypeOK, ColumnType, DefectStatus
    <2>4. d \notin Imported
      BY <1>1, Inert DEF SaveDefect, Exists, Absent
    <2> QED BY <2>1, <2>2, <2>3, <2>4, DefectColumnType
  <1>2. ASSUME NEW scope, SaveEvidence(d, scope) PROVE TypeOK'
    BY <1>2 DEF SaveEvidence, TypeOK, StatusType, ColumnType, Exists
  <1>3. ASSUME NEW to \in DefectStatus, Admitted(d, to), MoveDefect(d, to), UNCHANGED defect
        PROVE  TypeOK'
    <2>1. /\ defect[d] # None /\ defect \in [Defect -> Defects \cup {None}]
          /\ d \notin Imported
      BY <1>3, Edges, Inert DEF Admitted, TypeOK, ColumnType, Exists, Absent
    <2> QED BY <1>3, <2>1, DefectColumnType DEF MoveDefect
  <1>4. Assign(d) \/ Fix(d) \/ Reject(d) \/ Close(d) => TypeOK'
    BY <1>3 DEF Assign, Fix, Reject, Close, DefectStatus
  <1>5. ASSUME NEW s \in Result, Retest(d, s) PROVE TypeOK'
    <2>1. /\ defect[d] \in Defects /\ defect \in [Defect -> Defects \cup {None}]
          /\ d \notin Imported
      BY <1>5, Edges, Inert DEF Retest, Admitted, TypeOK, ColumnType, Exists, Absent
    <2>2. /\ MoveOne(d, "retested") /\ defect' = [defect EXCEPT ![d].retest = s]
          /\ UNCHANGED <<place, reason, evidenced>>
      BY <1>5 DEF Retest, MoveDefect
    <2>3. [defect[d] EXCEPT !.retest = s] \in Defects
      BY <2>1 DEF Defects
    <2>4. /\ defect' \in [Defect -> Defects \cup {None}] /\ defect'[d] # None
          /\ \A other \in Defect \ {d} : defect'[other] = defect[other]
      BY <2>1, <2>2, <2>3, OutsideIds
    <2> QED BY <2>1, <2>2, <2>4, DefectColumnType DEF DefectStatus
  <1> QED BY <1>1, <1>2, <1>4, <1>5

\* The statuses of an imported and seeded database.
LEMMA InitStatus ==
  ASSUME Init
  PROVE  /\ status \in [Entity -> AnyStatus]
         /\ \A e \in Run : IF e \in Imported THEN status[e] \in ImportedRunStatus
                            ELSE status[e] = IF e \in Seeded THEN "finished" ELSE Absent
         /\ \A e \in Result : IF e \in Imported THEN status[e] \in ImportedResultStatus
                               ELSE status[e] = IF e \in Seeded THEN "failed" ELSE Absent
         /\ \A e \in ProcedureRow : IF e \in SeedRows(place) THEN status[e] \in {"passed", "failed"}
                                                            ELSE status[e] = Absent
         /\ \A e \in Defect : IF e \in Imported THEN status[e] = "OPEN" ELSE status[e] = Absent
         /\ SeedRows(place) \subseteq ProcedureRow
         /\ \A s \in SeedResults : \E q \in SeedRows(place) : q[1] = s /\ status[q] = "failed"
  <1>1. PICK runs \in [Imported \cap Run -> ImportedRunStatus],
             results \in [Imported \cap Result -> ImportedResultStatus],
             defects \in [Imported \cap Defect -> ImportedDefectStatus],
             rows \in [SeedRows(place) -> {"passed", "failed"}] :
          /\ \A s \in SeedResults : \E q \in DOMAIN rows : q[1] = s /\ rows[q] = "failed"
          /\ status = [e \in Entity |->
               CASE e \in DOMAIN runs         -> runs[e]
                 [] e \in DOMAIN results      -> results[e]
                 [] e \in DOMAIN defects      -> defects[e]
                 [] e \in DOMAIN rows         -> rows[e]
                 [] e \in Seeded \cap Run     -> "finished"
                 [] e \in SeedResults         -> "failed"
                 [] OTHER                     -> Absent]
    BY DEF Init
  <1>2. SeedRows(place) \subseteq ProcedureRow
    BY DEF SeedRows, SeedResults, ProcedureRow
  <1>3. \A e \in Run : status[e] = IF e \in Imported THEN runs[e]
                                  ELSE IF e \in Seeded THEN "finished" ELSE Absent
    BY <1>1, <1>2, ImportedIds, Kinds DEF SeedResults
  <1>4. \A e \in Result :
          status[e] = IF e \in Imported THEN results[e]
                      ELSE IF e \in Seeded THEN "failed" ELSE Absent
    BY <1>1, <1>2, ImportedIds, Kinds DEF SeedResults
  <1>5. \A e \in ProcedureRow :
          status[e] = IF e \in SeedRows(place) THEN rows[e] ELSE Absent
    BY <1>1, <1>2, ImportedIds, Kinds DEF SeedResults
  <1>6. \A e \in Defect : status[e] = IF e \in Imported THEN defects[e] ELSE Absent
    BY <1>1, <1>2, ImportedIds, Kinds DEF SeedResults
  <1>7. \A s \in SeedResults : \E q \in SeedRows(place) : q[1] = s /\ status[q] = "failed"
    <2>1. ASSUME NEW s \in SeedResults
          PROVE  \E q \in SeedRows(place) : q[1] = s /\ status[q] = "failed"
      <3>1. PICK q \in DOMAIN rows : q[1] = s /\ rows[q] = "failed"
        BY <1>1
      <3>2. q \in SeedRows(place) /\ q \in ProcedureRow
        BY <1>2, <3>1
      <3> QED BY <1>5, <3>1, <3>2
    <2> QED BY <2>1
  <1>8. /\ \A e \in Imported \cap Run : runs[e] \in ImportedRunStatus
        /\ \A e \in Imported \cap Result : results[e] \in ImportedResultStatus
        /\ \A e \in Imported \cap Defect : defects[e] \in ImportedDefectStatus
        /\ \A e \in SeedRows(place) : rows[e] \in {"passed", "failed"}
    OBVIOUS
  <1>9. status \in [Entity -> AnyStatus]
    <2>1. ASSUME NEW e \in Entity PROVE status[e] \in AnyStatus
      BY <1>3, <1>4, <1>5, <1>6, <1>8
      DEF Entity, AnyStatus, Status, RunStatus, ResultStatus, DefectStatus
    <2> QED BY <1>1, <2>1
  <1> QED BY <1>2, <1>3, <1>4, <1>5, <1>6, <1>7, <1>8, <1>9 DEF ImportedDefectStatus

\* The databases the service is started on have the types.
LEMMA InitType == Init => TypeOK
  <1> SUFFICES ASSUME Init PROVE TypeOK
    OBVIOUS
  <1>1. StatusType
    BY InitStatus DEF StatusType, RunStatus, ResultStatus, ImportedDefectStatus
  <1>2. newest \in [Entity -> [from : AnyStatus, to : AnyStatus] \cup {NoTransition}]
    <2>1. /\ \A e \in Entity : status[e] \in AnyStatus
          /\ FirstResultStatus \in AnyStatus /\ FirstRunStatus \in AnyStatus
      BY <1>1 DEF StatusType, AnyStatus, Status, RunStatus, ResultStatus,
                  FirstResultStatus, FirstRunStatus
    <2> QED BY <2>1 DEF Init
  <1>3. ColumnType
    <2>1. /\ \A s \in Result : Exists(s) <=> s \in Given
          /\ \A d \in Defect : Exists(d) <=> d \in Imported
      BY InitStatus, Capitals DEF Exists, Given, Absent
    <2>2. \A d \in Defect : d \in Imported <=> defect[d] # None
      BY DEF Init
    <2> QED BY <2>1, <2>2 DEF Init, ColumnType
  <1> QED BY <1>1, <1>2, <1>3 DEF Init, TypeOK

\* The case of a retest is that of the original result, so the types are only
\* inductive together with the references.
LEMMA NextType == TypeOK /\ References /\ [Next]_vars => TypeOK'
  <1> SUFFICES ASSUME TypeOK, References, [Next]_vars PROVE TypeOK'
    OBVIOUS
  <1>1. ASSUME NEW r \in Run, StartRun(r) \/ EndRun(r, "finished") \/ EndRun(r, "cancelled")
        PROVE  TypeOK'
    BY <1>1, StartRunType, EndRunType
  <1>2. ASSUME NEW s \in Result, NEW r \in Run, NEW c \in Case, StartResult(s, r, c)
        PROVE  TypeOK'
    BY <1>2, CreateResultType DEF StartResult, Operations
  <1>3. ASSUME NEW s \in Result, NEW p \in Procedure, NEW next \in ResultStatus,
               NEW why \in Reason \cup {None}, SaveProcedureResult(s, p, next, why)
        PROVE  TypeOK'
    BY <1>3, SaveProcedureResultType
  <1>4. ASSUME NEW d \in Defect, NEW s \in Result, NEW scope \in Procedure \cup {None},
               NEW title \in Title, NEW serious \in BOOLEAN,
               SaveDefect(d, s, scope, title, serious)
        PROVE  TypeOK'
    BY <1>4, DefectTypes
  <1>5. ASSUME NEW d \in Defect, NEW scope \in Procedure \cup {None}, SaveEvidence(d, scope)
        PROVE  TypeOK'
    BY <1>5, DefectTypes
  <1>6. ASSUME NEW d \in Defect, Assign(d) \/ Fix(d) \/ Reject(d) \/ Close(d) PROVE TypeOK'
    BY <1>6, DefectTypes
  <1>7. ASSUME NEW d \in Defect, NEW s \in Result, NEW r \in Run, CreateRetest(d, s, r)
        PROVE  TypeOK'
    <2>1. Exists(d) /\ CreateResult(s, r, place[defect[d].result].case, "create_retest")
      BY <1>7 DEF CreateRetest, Exists, Absent
    <2>2. defect[d].result \in Result /\ place[defect[d].result] \in Places
      BY <2>1 DEF TypeOK, ColumnType, References, Defects
    <2> QED BY <2>1, <2>2, CreateResultType DEF Places, Operations
  <1>8. ASSUME NEW d \in Defect, NEW s \in Result, Retest(d, s) PROVE TypeOK'
    BY <1>8, DefectTypes
  <1>9. CASE UNCHANGED vars
    BY <1>9 DEF vars, TypeOK, StatusType, ColumnType, Exists
  <1> QED BY <1>1, <1>2, <1>3, <1>4, <1>5, <1>6, <1>7, <1>8, <1>9 DEF Next
-----------------------------------------------------------------------------
(***************************************************************************)
(* The inductive invariant.                                                *)
(***************************************************************************)
Rules == /\ References /\ SummaryAgrees /\ JudgementHasReason
         /\ DefectOfFailedResult /\ RetestPassed /\ EvidenceBeforeFix
Inductive == TypeOK /\ Rules

\* The columns of a row that exists are not null.
LEMMA ColumnsOfRows ==
  ASSUME TypeOK
  PROVE  /\ \A s \in Result : Exists(s) =>
              place[s] \in Places /\ place[s].run \in Run /\ place[s].case \in Case
         /\ \A d \in Defect : Exists(d) =>
              /\ defect[d] \in Defects /\ defect[d].result \in Result
              /\ defect[d].scope \in Procedure \cup {None}
              /\ defect[d].retest \in Result \cup {None}
  BY DEF TypeOK, ColumnType, Places, Defects

\* The summary only reads the rows of the result.
LEMMA SameRows ==
  ASSUME NEW s, \A q \in {s} \X Procedure : status'[q] = status[q]
  PROVE  RowsOf(s)' = RowsOf(s) /\ RowStatuses(s)' = RowStatuses(s)
  <1>1. RowsOf(s)' = RowsOf(s)
    BY DEF RowsOf, Exists
  <1>2. \A q \in RowsOf(s) : status'[q] = status[q]
    BY DEF RowsOf
  <1> QED BY <1>1, <1>2 DEF RowStatuses

\* Requests that leave every row that the rules speak of as it is.
LEMMA QuietStep ==
  ASSUME Inductive, UNCHANGED <<status, place, reason, defect>>,
         evidenced \subseteq evidenced'
  PROVE  Rules' /\ Kept
  <1>1. (References /\ JudgementHasReason)'
    BY DEF Inductive, Rules, References, JudgementHasReason, Exists
  <1>2. SummaryAgrees'
    BY SameRows DEF Inductive, Rules, SummaryAgrees
  <1>3. (DefectOfFailedResult /\ RetestPassed /\ EvidenceBeforeFix)'
    BY DEF Inductive, Rules, DefectOfFailedResult, RetestPassed, EvidenceBeforeFix, Exists
  <1>4. Kept
    BY DEF Kept, Exists
  <1> QED BY <1>1, <1>2, <1>3, <1>4 DEF Rules

\* A run that moves disturbs no rule: no rule speaks of the status of a run.
LEMMA RunStep ==
  ASSUME Inductive, NEW r \in Run, NEW to \in RunStatus, MoveOne(r, to),
         UNCHANGED <<place, reason, defect, evidenced>>
  PROVE  Rules' /\ Kept
  <1>1. /\ status'[r] = to /\ to # Absent
        /\ \A e \in Entity : e # r => status'[e] = status[e]
    BY MoveOneEffect, Kinds DEF RunStatus, Absent
  <1>2. /\ \A e \in Result : status'[e] = status[e]
        /\ \A e \in ProcedureRow : status'[e] = status[e]
        /\ \A e \in Defect : status'[e] = status[e]
        /\ \A e \in Entity : Exists(e) => Exists(e)'
    BY <1>1, Kinds DEF Exists
  <1>3. References'
    <2>1. \A s \in Result : Exists(s) => place[s].run \in Entity
      BY ColumnsOfRows, Kinds DEF Inductive
    <2>2. \A d \in Defect : Exists(d) =>
            /\ defect[d].result \in Result
            /\ defect[d].scope # None => <<defect[d].result, defect[d].scope>> \in ProcedureRow
            /\ defect[d].retest # None => defect[d].retest \in Result
      BY ColumnsOfRows, Kinds DEF Inductive
    <2>3. \A q \in ProcedureRow : q[1] \in Result
      BY DEF ProcedureRow
    <2> QED BY <1>2, <2>1, <2>2, <2>3 DEF Inductive, Rules, References, Exists
  <1>4. SummaryAgrees'
    BY <1>2, SameRows DEF Inductive, Rules, SummaryAgrees, ProcedureRow
  <1>5. JudgementHasReason'
    BY <1>2 DEF Inductive, Rules, JudgementHasReason
  <1>6. DefectOfFailedResult'
    BY <1>2, ColumnsOfRows DEF Inductive, Rules, DefectOfFailedResult, Exists
  <1>7. RetestPassed'
    <2>1. \A d \in Defect : status[d] \in {"retested", "closed"} =>
            defect[d].retest \in Result \cup {None}
      BY ColumnsOfRows DEF Inductive, Exists, Absent
    <2> QED BY <1>2, <2>1 DEF Inductive, Rules, RetestPassed
  <1>8. EvidenceBeforeFix'
    BY <1>2 DEF Inductive, Rules, EvidenceBeforeFix
  <1>9. Kept
    BY <1>2 DEF Kept
  <1> QED BY <1>3, <1>4, <1>5, <1>6, <1>7, <1>8, <1>9 DEF Rules

\* The new result is testing and so are all its rows; it had none before.
LEMMA CreateResultStep ==
  ASSUME Inductive, NEW s \in Result, NEW r \in Run, NEW c \in Case,
         NEW operation, status[r] = "running", CreateResult(s, r, c, operation)
  PROVE  Rules' /\ Kept
  <1>1. CASE RolledBack(operation)
    BY <1>1, QuietStep DEF RolledBack
  <1>2. CASE ~RolledBack(operation)
    <2> DEFINE rows == {s} \X ProceduresOf[c]
    <2>1. /\ \A e \in Entity : status'[e] = IF e = s \/ e \in rows THEN "testing" ELSE status[e]
          /\ place' = [place EXCEPT ![s] = [run |-> r, case |-> c]]
          /\ UNCHANGED <<reason, defect, evidenced>>
      BY <1>2, CreateResultEffect
    <2>2. ~Exists(s) /\ ProceduresOf[c] # {} /\ ProceduresOf[c] \subseteq Procedure
      BY MasterData DEF CreateResult
    <2>3. rows \subseteq ProcedureRow
      BY <2>2 DEF ProcedureRow
    <2>4. /\ \A e \in Run : status'[e] = status[e]
          /\ \A e \in Defect : status'[e] = status[e]
          /\ \A e \in Result : e # s => status'[e] = status[e]
          /\ \A e \in ProcedureRow : e \notin rows => status'[e] = status[e]
          /\ status'[s] = "testing" /\ \A e \in rows : status'[e] = "testing"
      BY <2>1, <2>3, Kinds
    <2>5. \A e \in ProcedureRow : e[1] = s => ~Exists(e)
      BY <2>2 DEF Inductive, Rules, References
    <2>6. \A e \in Entity : Exists(e) => Exists(e)'
      BY <2>1 DEF Exists, Absent
    <2>7. /\ \A t \in Result : t # s => place'[t] = place[t]
          /\ place'[s].run = r /\ place'[s].case = c
      BY <2>1 DEF Inductive, TypeOK, ColumnType
    <2>8. References'
      <3>1. ASSUME NEW t \in Result, Exists(t)' PROVE Exists(place[t].run)'
        <4>1. CASE t = s
          BY <4>1, <2>4, <2>7 DEF Exists, Absent
        <4>2. CASE t # s
          <5>1. Exists(t) /\ place'[t] = place[t] /\ place[t].run \in Run
            BY <3>1, <4>2, <2>4, <2>7, ColumnsOfRows DEF Exists, Inductive
          <5> QED BY <5>1, <2>4 DEF Inductive, Rules, References, Exists
        <4> QED BY <4>1, <4>2
      <3>2. ASSUME NEW q \in ProcedureRow, Exists(q)'
            PROVE  Exists(q[1])' /\ q[2] \in ProceduresOf[place'[q[1]].case]
        <4>1. CASE q \in rows
          BY <4>1, <2>4, <2>7 DEF Exists, Absent
        <4>2. CASE q \notin rows
          <5>1. Exists(q) /\ q[1] \in Result /\ q[1] # s
            BY <3>2, <4>2, <2>4, <2>5 DEF Exists, ProcedureRow
          <5> QED BY <5>1, <2>4, <2>7 DEF Inductive, Rules, References, Exists
        <4> QED BY <4>1, <4>2
      <3>3. ASSUME NEW d \in Defect, Exists(d)'
            PROVE  /\ Exists(defect[d].result)'
                   /\ defect'[d].scope # None => Exists(<<defect[d].result, defect[d].scope>>)'
                   /\ defect'[d].retest # None => Exists(defect[d].retest)'
        <4>1. Exists(d) /\ defect' = defect
          BY <3>3, <2>1, <2>4 DEF Exists
        <4>2. /\ defect[d].result \in Entity
              /\ defect[d].scope # None => <<defect[d].result, defect[d].scope>> \in Entity
              /\ defect[d].retest # None => defect[d].retest \in Entity
          BY <4>1, ColumnsOfRows, Kinds DEF Inductive
        <4> QED BY <4>1, <4>2, <2>6 DEF Inductive, Rules, References
      <3> QED BY <3>1, <3>2, <3>3 DEF References
    <2>9. SummaryAgrees'
      <3>1. ASSUME NEW t \in Result, t # s, RowsOf(t)' # {}
            PROVE  status'[t] = Summarize(RowStatuses(t)')
        <4>1. \A q \in {t} \X Procedure : status'[q] = status[q]
          BY <3>1, <2>4 DEF ProcedureRow
        <4> QED BY <4>1, <3>1, <2>4, SameRows DEF Inductive, Rules, SummaryAgrees
      <3>2. RowStatuses(s)' = {"testing"}
        <4>1. RowsOf(s)' = rows
          BY <2>2, <2>3, <2>4, <2>5 DEF RowsOf, Exists, Absent, ProcedureRow
        <4>2. rows # {}
          <5>1. PICK p \in ProceduresOf[c] : TRUE
            BY <2>2
          <5>2. <<s, p>> \in rows
            BY <5>1
          <5> QED BY <5>2
        <4> QED BY <4>1, <4>2, <2>4 DEF RowStatuses
      <3> QED BY <3>1, <3>2, <2>4, Summary DEF SummaryAgrees
    <2>10. JudgementHasReason'
      BY <2>1, <2>4 DEF Inductive, Rules, JudgementHasReason, NeedsReason
    <2>11. DefectOfFailedResult'
      <3>1. \A d \in Defect : Exists(d) => defect[d].result \in Result
        BY ColumnsOfRows DEF Inductive
      <3> QED BY <3>1, <2>1, <2>2, <2>4 DEF Inductive, Rules, DefectOfFailedResult, Exists, Absent
    <2>12. RetestPassed'
      <3>1. ASSUME NEW d \in Defect, status[d] \in {"retested", "closed"}
            PROVE  /\ defect[d].retest \in Result /\ defect[d].retest # s
                   /\ defect[d].result \in Result /\ defect[d].result # s
        <4>1. Exists(d) /\ status[defect[d].retest] = "passed" /\ defect[d].retest # None
          BY <3>1 DEF Inductive, Rules, RetestPassed, Exists, Absent
        <4>2. Exists(defect[d].result)
          BY <4>1 DEF Inductive, Rules, References
        <4> QED BY <4>1, <4>2, <2>2, ColumnsOfRows DEF Inductive, Exists, Absent
      <3> QED BY <3>1, <2>1, <2>4, <2>7 DEF Inductive, Rules, RetestPassed
    <2>13. EvidenceBeforeFix'
      BY <2>1, <2>4 DEF Inductive, Rules, EvidenceBeforeFix
    <2>14. Kept
      BY <2>1, <2>2, <2>4, <2>6, <2>7 DEF Kept, Exists, Absent
    <2> QED BY <2>8, <2>9, <2>10, <2>11, <2>12, <2>13, <2>14 DEF Rules
  <1> QED BY <1>1, <1>2

\* A judgement moves one row and, along its own machine, its result: a failed
\* or passed result stays what it is.
LEMMA SaveProcedureResultStep ==
  ASSUME Inductive, NEW s \in Result, NEW p \in Procedure, NEW next \in ResultStatus,
         NEW why \in Reason \cup {None}, SaveProcedureResult(s, p, next, why)
  PROVE  Rules' /\ Kept
  <1>1. CASE RolledBack("save_procedure_result")
    BY <1>1, QuietStep DEF RolledBack
  <1>2. CASE ~RolledBack("save_procedure_result")
    <2> DEFINE row == <<s, p>>
    <2>1. /\ Exists(s) /\ Exists(row)
          /\ next \in NeedsReason => why # None
          /\ \A e \in Entity : e \notin {s, row} => status'[e] = status[e]
          /\ status'[row] = next
          /\ RowsOf(s)' = RowsOf(s)
          /\ status'[s] = Summarize(RowStatuses(s)')
          /\ \E to : /\ Move(to)
                     /\ DOMAIN to \subseteq {s, row}
                     /\ \A e \in DOMAIN to : <<status[e], to[e]>> \in ResultEdges
          /\ reason' = [reason EXCEPT ![row] = why]
          /\ UNCHANGED <<place, defect, evidenced>>
      BY <1>2, SaveProcedureResultEffect DEF Inductive
    <2>2. row \in ProcedureRow /\ row[1] = s
      BY Kinds
    <2> HIDE DEF row
    <2>3. status'[s] = status[s] \/ <<status[s], status'[s]>> \in ResultEdges
      <3>1. PICK to : /\ Move(to)
                      /\ \A e \in DOMAIN to : <<status[e], to[e]>> \in ResultEdges
        BY <2>1
      <3> QED BY <3>1, MoveEffect, Kinds
    <2>4. /\ status[s] \in {"passed", "failed"} => status'[s] = status[s]
          /\ status'[s] # Absent /\ next # Absent
      BY <2>1, <2>3, Edges, Summary DEF ResultStatus, Absent
    <2>5. /\ \A e \in Run : status'[e] = status[e]
          /\ \A e \in Defect : status'[e] = status[e]
          /\ \A e \in Result : e # s => status'[e] = status[e]
          /\ \A e \in ProcedureRow : e # row => status'[e] = status[e]
      BY <2>1, <2>2, Kinds
    <2>6. \A e \in Entity : Exists(e)' <=> Exists(e)
      BY <2>1, <2>4 DEF Exists
    <2>7. References'
      <3>1. \A t \in Result : Exists(t) => place[t].run \in Entity
        BY ColumnsOfRows, Kinds DEF Inductive
      <3>2. \A d \in Defect : Exists(d) =>
              /\ defect[d].result \in Entity
              /\ defect[d].scope # None => <<defect[d].result, defect[d].scope>> \in Entity
              /\ defect[d].retest # None => defect[d].retest \in Entity
        BY ColumnsOfRows, Kinds DEF Inductive
      <3>3. \A q \in ProcedureRow : q[1] \in Result
        BY DEF ProcedureRow
      <3> QED BY <2>1, <2>6, <3>1, <3>2, <3>3, Kinds DEF Inductive, Rules, References
    <2>8. SummaryAgrees'
      <3>1. ASSUME NEW t \in Result, t # s, RowsOf(t)' # {}
            PROVE  status'[t] = Summarize(RowStatuses(t)')
        <4>1. \A q \in {t} \X Procedure : status'[q] = status[q]
          BY <3>1, <2>2, <2>5 DEF ProcedureRow
        <4> QED BY <4>1, <3>1, <2>5, SameRows DEF Inductive, Rules, SummaryAgrees
      <3> QED BY <3>1, <2>1 DEF SummaryAgrees
    <2>9. JudgementHasReason'
      BY <2>1, <2>2, <2>5 DEF Inductive, Rules, JudgementHasReason, TypeOK, ColumnType
    <2>10. DefectOfFailedResult'
      <3>1. \A d \in Defect : Exists(d) => defect[d].result \in Result
        BY ColumnsOfRows DEF Inductive
      <3> QED BY <3>1, <2>1, <2>4, <2>5 DEF Inductive, Rules, DefectOfFailedResult, Exists
    <2>11. RetestPassed'
      <3>1. ASSUME NEW d \in Defect, status[d] \in {"retested", "closed"}
            PROVE  defect[d].retest \in Result /\ status[defect[d].retest] = "passed"
        <4>1. Exists(d) /\ status[defect[d].retest] = "passed" /\ defect[d].retest # None
          BY <3>1 DEF Inductive, Rules, RetestPassed, Exists, Absent
        <4> QED BY <4>1, ColumnsOfRows DEF Inductive
      <3>2. \A t \in Result : status[t] = "passed" => status'[t] = "passed"
        BY <2>4, <2>5
      <3> QED BY <3>1, <3>2, <2>1, <2>5 DEF Inductive, Rules, RetestPassed
    <2>12. EvidenceBeforeFix'
      BY <2>1, <2>5 DEF Inductive, Rules, EvidenceBeforeFix
    <2>13. Kept
      BY <2>1, <2>4, <2>5, <2>6 DEF Kept
    <2> QED BY <2>7, <2>8, <2>9, <2>10, <2>11, <2>12, <2>13 DEF Rules
  <1> QED BY <1>1, <1>2

\* A step that gives one defect a status and leaves results, rows and the scope
\* and severity of every defect alone: only that defect's own rules are left.
LEMMA DefectStep ==
  ASSUME Inductive, NEW d \in Defect, NEW to \in DefectStatus, MoveOne(d, to),
         UNCHANGED <<place, reason, evidenced>>,
         \A other \in Defect \ {d} : defect'[other] = defect[other],
         defect'[d] \in Defects, Exists(defect'[d].result),
         Exists(d) => /\ defect'[d].result = defect[d].result
                      /\ defect'[d].scope = defect[d].scope
                      /\ defect'[d].title = defect[d].title
                      /\ defect'[d].serious = defect[d].serious,
         defect'[d].scope # None => Exists(<<defect'[d].result, defect'[d].scope>>),
         defect'[d].retest # None => Exists(defect'[d].retest),
         d \notin Imported => status[defect'[d].result] = "failed",
         to \in {"retested", "closed"} =>
           /\ defect'[d].retest \notin {None, defect'[d].result}
           /\ status[defect'[d].retest] = "passed"
           /\ place[defect'[d].retest].case = place[defect'[d].result].case,
         to \notin {"opened", "rejected"} /\ defect'[d].serious => d \in evidenced
  PROVE  Rules' /\ Kept
  <1>1. /\ status'[d] = to /\ to # Absent
        /\ \A e \in Entity : e # d => status'[e] = status[e]
        /\ \A e \in Run : status'[e] = status[e]
        /\ \A e \in Result : status'[e] = status[e]
        /\ \A e \in ProcedureRow : status'[e] = status[e]
        /\ \A e \in Defect : e # d => status'[e] = status[e]
    <2>1. /\ status'[d] = to /\ to # Absent
          /\ \A e \in Entity : e # d => status'[e] = status[e]
      <3>1. d \in Entity /\ to # Absent
        BY Kinds DEF DefectStatus, Absent
      <3> QED BY <3>1, MoveOneEffect
    <2> QED BY <2>1, Kinds
  <1>2. \A e \in Entity : Exists(e) => Exists(e)'
    BY <1>1 DEF Exists
  <1>3. \A e \in Defect : Exists(e) =>
          /\ defect[e].result \in Result
          /\ defect[e].scope # None => <<defect[e].result, defect[e].scope>> \in ProcedureRow
          /\ defect[e].retest \in Result \cup {None}
    BY ColumnsOfRows, Kinds DEF Inductive
  <1>4. /\ defect'[d].result \in Result
        /\ defect'[d].scope # None => <<defect'[d].result, defect'[d].scope>> \in ProcedureRow
        /\ defect'[d].retest \in Result \cup {None}
    BY Kinds DEF Defects
  <1>5. References'
    <2>1. ASSUME NEW s \in Result, Exists(s)' PROVE Exists(place[s].run)'
      BY <2>1, <1>1, ColumnsOfRows DEF Inductive, Rules, References, Exists
    <2>2. ASSUME NEW q \in ProcedureRow, Exists(q)'
          PROVE  Exists(q[1])' /\ q[2] \in ProceduresOf[place[q[1]].case]
      BY <2>2, <1>1 DEF Inductive, Rules, References, Exists, ProcedureRow
    <2>3. ASSUME NEW e \in Defect, Exists(e)'
          PROVE  /\ Exists(defect[e].result)'
                 /\ defect'[e].scope # None => Exists(<<defect[e].result, defect[e].scope>>)'
                 /\ defect'[e].retest # None => Exists(defect[e].retest)'
      <3>1. CASE e = d
        <4>1. Exists(defect[d].result)'
          BY <1>1, <1>4 DEF Exists
        <4>2. defect'[d].scope # None => Exists(<<defect[d].result, defect[d].scope>>)'
          BY <1>1, <1>4 DEF Exists
        <4>3. defect'[d].retest # None => Exists(defect[d].retest)'
          BY <1>1, <1>4 DEF Exists
        <4> QED BY <3>1, <4>1, <4>2, <4>3
      <3>2. CASE e # d
        <4>1. Exists(e) /\ defect'[e] = defect[e]
          BY <2>3, <3>2, <1>1 DEF Exists
        <4>2. /\ Exists(defect[e].result)
              /\ defect[e].scope # None => Exists(<<defect[e].result, defect[e].scope>>)
              /\ defect[e].retest # None => Exists(defect[e].retest)
          BY <4>1 DEF Inductive, Rules, References
        <4>3. Exists(defect[e].result)'
          BY <4>1, <4>2, <1>1, <1>3 DEF Exists
        <4>4. defect'[e].scope # None => Exists(<<defect[e].result, defect[e].scope>>)'
          BY <4>1, <4>2, <1>1, <1>3 DEF Exists
        <4>5. defect'[e].retest # None => Exists(defect[e].retest)'
          BY <4>1, <4>2, <1>1, <1>3 DEF Exists
        <4> QED BY <4>3, <4>4, <4>5
      <3> QED BY <3>1, <3>2
    <2> QED BY <2>1, <2>2, <2>3 DEF References
  <1>6. SummaryAgrees'
    BY <1>1, SameRows DEF Inductive, Rules, SummaryAgrees, ProcedureRow
  <1>7. JudgementHasReason'
    BY <1>1 DEF Inductive, Rules, JudgementHasReason
  <1>8. DefectOfFailedResult'
    BY <1>1, <1>3, <1>4 DEF Inductive, Rules, DefectOfFailedResult, Exists
  <1>9. RetestPassed'
    <2>1. ASSUME NEW e \in Defect, e # d, status[e] \in {"retested", "closed"}
          PROVE  /\ defect'[e] = defect[e] /\ defect[e].retest \in Result
        BY <2>1, <1>3 DEF Inductive, Rules, RetestPassed, Exists, Absent
    <2> QED BY <2>1, <1>1, <1>4 DEF Inductive, Rules, RetestPassed
  <1>10. EvidenceBeforeFix'
    BY <1>1 DEF Inductive, Rules, EvidenceBeforeFix
  <1>11. Kept
    BY <1>1, <1>2 DEF Kept, Exists
  <1> QED BY <1>5, <1>6, <1>7, <1>8, <1>9, <1>10, <1>11 DEF Rules

\* The requests about a defect keep the rules and take nothing back.
LEMMA DefectSteps ==
  ASSUME Inductive, NEW d \in Defect
  PROVE  /\ \A s \in Result, scope \in Procedure \cup {None}, title \in Title,
               serious \in BOOLEAN :
               SaveDefect(d, s, scope, title, serious) => Rules' /\ Kept
         /\ \A scope \in Procedure \cup {None} : SaveEvidence(d, scope) => Rules' /\ Kept
         /\ Assign(d) \/ Fix(d) \/ Reject(d) \/ Close(d) => Rules' /\ Kept
         /\ \A s \in Result : Retest(d, s) => Rules' /\ Kept
  <1>1. ASSUME NEW s \in Result, NEW scope \in Procedure \cup {None},
               NEW title \in Title, NEW serious \in BOOLEAN,
               SaveDefect(d, s, scope, title, serious)
        PROVE  Rules' /\ Kept
    <2> DEFINE row == [result |-> s, scope |-> scope, title |-> title,
                       serious |-> serious, retest |-> None]
    <2>1. row \in Defects
      BY DEF Defects
    <2>2. /\ ~Exists(d) /\ Exists(s)
          /\ scope # None => Exists(<<s, scope>>)
          /\ MoveOne(d, "opened") /\ defect' = [defect EXCEPT ![d] = row]
          /\ UNCHANGED <<place, reason, evidenced>>
      BY <1>1 DEF SaveDefect, FirstDefectStatus
    <2>3. status[s] = "failed"
      <3>1. CASE scope # None /\ status[<<s, scope>>] = "failed"
        <4>1. <<s, scope>> \in RowsOf(s)
          BY <3>1, <2>2 DEF RowsOf
        <4>2. "failed" \in RowStatuses(s)
          BY <3>1, <4>1 DEF RowStatuses
        <4> QED BY <4>1, <4>2, Summary DEF Inductive, Rules, SummaryAgrees
      <3> QED BY <1>1, <3>1 DEF SaveDefect
    <2>4. /\ defect'[d] = row
          /\ \A other \in Defect \ {d} : defect'[other] = defect[other]
      BY <2>2 DEF Inductive, TypeOK, ColumnType
    <2>5. /\ row.result = s /\ row.scope = scope /\ row.retest = None
      OBVIOUS
    <2> HIDE DEF row
    <2> QED BY <2>1, <2>2, <2>3, <2>4, <2>5, DefectStep DEF DefectStatus
  <1>2. ASSUME NEW scope, SaveEvidence(d, scope) PROVE Rules' /\ Kept
    BY <1>2, QuietStep DEF SaveEvidence
  <1>3. ASSUME NEW to \in DefectStatus, Admitted(d, to), MoveDefect(d, to), UNCHANGED defect,
               to \notin {"opened", "retested"},
               to = "closed" => status[d] = "retested"
        PROVE  Rules' /\ Kept
    <2>1. Exists(d)
      BY <1>3, Edges DEF Admitted, Exists, Absent
    <2>2. /\ defect[d] \in Defects
          /\ Exists(defect[d].result)
          /\ defect[d].scope # None => Exists(<<defect[d].result, defect[d].scope>>)
          /\ defect[d].retest # None => Exists(defect[d].retest)
          /\ d \notin Imported => status[defect[d].result] = "failed"
      BY <2>1, ColumnsOfRows DEF Inductive, Rules, References, DefectOfFailedResult
    <2>3. to = "closed" =>
            /\ defect[d].retest \notin {None, defect[d].result}
            /\ status[defect[d].retest] = "passed"
            /\ place[defect[d].retest].case = place[defect[d].result].case
      BY <1>3 DEF Inductive, Rules, RetestPassed
    <2>4. to # "rejected" /\ defect[d].serious => d \in evidenced
      BY <1>3, Edges DEF Admitted, Inductive, Rules, EvidenceBeforeFix, Absent, DefectStatus
    <2> QED BY <1>3, <2>2, <2>3, <2>4, DefectStep DEF MoveDefect
  <1>4. Assign(d) \/ Fix(d) \/ Reject(d) \/ Close(d) => Rules' /\ Kept
    BY <1>3, Edges DEF Assign, Fix, Reject, Close, Admitted, DefectStatus
  <1>5. ASSUME NEW s \in Result, Retest(d, s) PROVE Rules' /\ Kept
    <2>1. /\ Exists(d) /\ status[d] = "fixed" /\ Exists(s)
          /\ s # defect[d].result /\ status[s] = "passed"
          /\ place[s].case = place[defect[d].result].case
          /\ MoveOne(d, "retested") /\ defect' = [defect EXCEPT ![d].retest = s]
          /\ UNCHANGED <<place, reason, evidenced>>
      BY <1>5, Edges DEF Retest, Admitted, MoveDefect, Exists, Absent
    <2>2. /\ defect[d] \in Defects
          /\ Exists(defect[d].result)
          /\ defect[d].scope # None => Exists(<<defect[d].result, defect[d].scope>>)
          /\ d \notin Imported => status[defect[d].result] = "failed"
          /\ defect[d].serious => d \in evidenced
      BY <2>1, ColumnsOfRows
      DEF Inductive, Rules, References, DefectOfFailedResult, EvidenceBeforeFix, Absent
    <2>3. /\ defect'[d] \in Defects
          /\ defect'[d].result = defect[d].result /\ defect'[d].scope = defect[d].scope
          /\ defect'[d].title = defect[d].title /\ defect'[d].serious = defect[d].serious
          /\ defect'[d].retest = s
          /\ \A other \in Defect \ {d} : defect'[other] = defect[other]
      BY <2>1, <2>2 DEF Defects, Inductive, TypeOK, ColumnType
    <2>4. s # None /\ "retested" \in DefectStatus
      BY OutsideIds DEF DefectStatus
    <2> QED BY <2>1, <2>2, <2>3, <2>4, DefectStep
  <1> QED BY <1>1, <1>2, <1>4, <1>5

\* The imported and the seeded rows keep the rules.
LEMMA InitRules == Init => Rules
  <1> SUFFICES ASSUME Init PROVE Rules
    OBVIOUS
  <1>1. TypeOK
    BY InitType
  <1>2. /\ \A s \in Result : Exists(s) <=> s \in Given
        /\ \A s \in Given \cap Result : place[s].run \in Given \cap Run
        /\ \A d \in Defect : Exists(d) <=> d \in Imported
        /\ \A q \in ProcedureRow : Exists(q) <=> q \in SeedRows(place)
        /\ \A r \in Given \cap Run : Exists(r)
    <2>1. \A s \in Result : Exists(s) <=> s \in Given
      BY InitStatus, Capitals DEF Exists, Given, Absent
    <2>2. \A s \in Given \cap Result : place[s].run \in Given \cap Run
      <3>1. \A s \in Result : /\ s \in Imported => place[s].run \in Imported
                              /\ s \in Seeded => place[s].run \in Seeded
        BY DEF Init
      <3>2. ASSUME NEW s \in Given \cap Result PROVE place[s].run \in Given \cap Run
        <4>1. place[s].run \in Run
          BY <1>1, <2>1, ColumnsOfRows
        <4> QED BY <3>1, <4>1 DEF Given
      <3> QED BY <3>2
    <2>3. /\ \A d \in Defect : Exists(d) <=> d \in Imported
          /\ \A q \in ProcedureRow : Exists(q) <=> q \in SeedRows(place)
          /\ \A r \in Given \cap Run : Exists(r)
      BY InitStatus, Capitals DEF Exists, Given, Absent
    <2> QED BY <2>1, <2>2, <2>3
  <1>3. \A q \in SeedRows(place) :
          q \in ProcedureRow /\ q[1] \in SeedResults /\ q[1] \in Result
          /\ q[2] \in ProceduresOf[place[q[1]].case]
    BY DEF SeedRows, SeedResults, ProcedureRow
  <1>4. ASSUME NEW d \in Defect, Exists(d)
        PROVE  /\ defect[d].result \in Imported /\ defect[d].result \in Result
               /\ defect[d].scope = None /\ defect[d].retest = None /\ ~defect[d].serious
               /\ status[d] = "OPEN"
    BY <1>1, <1>2, <1>4, ColumnsOfRows, InitStatus DEF Init
  <1>5. References
    BY <1>2, <1>3, <1>4 DEF References, Given, SeedResults
  <1>6. SummaryAgrees
    <2>1. ASSUME NEW s \in Result, RowsOf(s) # {}
          PROVE  status[s] = Summarize(RowStatuses(s))
      <3>1. PICK q \in RowsOf(s) : TRUE
        BY <2>1
      <3>2. q \in ProcedureRow /\ q[1] = s /\ Exists(q)
        BY <3>1 DEF RowsOf, ProcedureRow
      <3>3. s \in SeedResults
        BY <3>2, <1>2, <1>3
      <3>4. PICK f \in SeedRows(place) : f[1] = s /\ status[f] = "failed"
        BY <3>3, InitStatus
      <3>5. f \in RowsOf(s)
        BY <3>4, <1>2, <1>3 DEF RowsOf, ProcedureRow
      <3>6. "failed" \in RowStatuses(s)
        BY <3>4, <3>5 DEF RowStatuses
      <3>7. status[s] = "failed"
        BY <3>3, InitStatus, ImportedIds DEF SeedResults
      <3> QED BY <3>6, <3>7, Summary
    <2> QED BY <2>1 DEF SummaryAgrees
  <1>7. JudgementHasReason
    BY InitStatus DEF Init, JudgementHasReason, NeedsReason, Absent
  <1>8. DefectOfFailedResult /\ RetestPassed /\ EvidenceBeforeFix
    BY <1>2, <1>4 DEF DefectOfFailedResult, RetestPassed, EvidenceBeforeFix, Exists, Absent
  <1> QED BY <1>5, <1>6, <1>7, <1>8 DEF Rules

\* One step per request.
LEMMA NextRules == Inductive /\ [Next]_vars => Rules' /\ Kept
  <1> SUFFICES ASSUME Inductive, [Next]_vars PROVE Rules' /\ Kept
    OBVIOUS
  <1>1. ASSUME NEW r \in Run, StartRun(r) \/ EndRun(r, "finished") \/ EndRun(r, "cancelled")
        PROVE  Rules' /\ Kept
    BY <1>1, RunStep DEF StartRun, EndRun, FirstRunStatus, RunStatus
  <1>2. ASSUME NEW s \in Result, NEW r \in Run, NEW c \in Case, StartResult(s, r, c)
        PROVE  Rules' /\ Kept
    BY <1>2, CreateResultStep DEF StartResult
  <1>3. ASSUME NEW s \in Result, NEW p \in Procedure, NEW next \in ResultStatus,
               NEW why \in Reason \cup {None}, SaveProcedureResult(s, p, next, why)
        PROVE  Rules' /\ Kept
    BY <1>3, SaveProcedureResultStep
  <1>4. ASSUME NEW d \in Defect, NEW s \in Result, NEW scope \in Procedure \cup {None},
               NEW title \in Title, NEW serious \in BOOLEAN,
               SaveDefect(d, s, scope, title, serious)
        PROVE  Rules' /\ Kept
    BY <1>4, DefectSteps
  <1>5. ASSUME NEW d \in Defect, NEW scope \in Procedure \cup {None}, SaveEvidence(d, scope)
        PROVE  Rules' /\ Kept
    BY <1>5, DefectSteps
  <1>6. ASSUME NEW d \in Defect, Assign(d) \/ Fix(d) \/ Reject(d) \/ Close(d)
        PROVE  Rules' /\ Kept
    BY <1>6, DefectSteps
  <1>7. ASSUME NEW d \in Defect, NEW s \in Result, NEW r \in Run, CreateRetest(d, s, r)
        PROVE  Rules' /\ Kept
    <2>1. /\ Exists(d) /\ status[r] = "running"
          /\ CreateResult(s, r, place[defect[d].result].case, "create_retest")
      BY <1>7 DEF CreateRetest, Exists, Absent
    <2>2. place[defect[d].result].case \in Case
      BY <2>1, ColumnsOfRows DEF Inductive, Rules, References
    <2> QED BY <2>1, <2>2, CreateResultStep
  <1>8. ASSUME NEW d \in Defect, NEW s \in Result, Retest(d, s) PROVE Rules' /\ Kept
    BY <1>8, DefectSteps
  <1>9. CASE UNCHANGED vars
    BY <1>9, QuietStep DEF vars
  <1> QED BY <1>1, <1>2, <1>3, <1>4, <1>5, <1>6, <1>7, <1>8, <1>9 DEF Next

\* Types and rules hold together after any sequence of requests; each needs the
\* others: a retest stays passed because results only move along their edges, and
\* a defect keeps its failed result because the summary of that result stays failed.
THEOREM InductiveInvariant == Spec => []Inductive
  <1>1. Init => Inductive
    BY InitType, InitRules DEF Inductive
  <1>2. Inductive /\ [Next]_vars => Inductive'
    BY NextType, NextRules DEF Inductive, Rules
  <1> QED BY <1>1, <1>2, PTL DEF Spec

\* Every variable keeps its type.
THEOREM TypeCorrect == Spec => []TypeOK
  <1>1. Inductive => TypeOK
    BY DEF Inductive
  <1> QED BY <1>1, InductiveInvariant, PTL

\* The stored status of a result is at all times the summary of its procedures.
THEOREM SummaryCorrect == Spec => []SummaryAgrees
  <1>1. Inductive => SummaryAgrees
    BY DEF Inductive, Rules
  <1> QED BY <1>1, InductiveInvariant, PTL

\* No row points at a row that is not there.
THEOREM ReferencesCorrect == Spec => []References
  <1>1. Inductive => References
    BY DEF Inductive, Rules
  <1> QED BY <1>1, InductiveInvariant, PTL

\* A retested or closed defect names a passed result of the same case.
THEOREM RetestCorrect == Spec => []RetestPassed
  <1>1. Inductive => RetestPassed
    BY DEF Inductive, Rules
  <1> QED BY <1>1, InductiveInvariant, PTL

\* A defect opened through the service is a defect of a failed result.
THEOREM DefectsCorrect == Spec => []DefectOfFailedResult
  <1>1. Inductive => DefectOfFailedResult
    BY DEF Inductive, Rules
  <1> QED BY <1>1, InductiveInvariant, PTL

\* A serious defect is not worked on without evidence of its own.
THEOREM EvidenceCorrect == Spec => []EvidenceBeforeFix
  <1>1. Inductive => EvidenceBeforeFix
    BY DEF Inductive, Rules
  <1> QED BY <1>1, InductiveInvariant, PTL

\* A judgement that needs a reason has one.
THEOREM ReasonsCorrect == Spec => []JudgementHasReason
  <1>1. Inductive => JudgementHasReason
    BY DEF Inductive, Rules
  <1> QED BY <1>1, InductiveInvariant, PTL

\* No request takes back a row, a final judgement or the origin of a defect.
THEOREM PermanentCorrect == Spec => Permanent
  <1>1. Inductive /\ [Next]_vars => Kept
    BY NextRules
  <1> QED BY <1>1, InductiveInvariant, PTL DEF Spec, Permanent
-----------------------------------------------------------------------------
(***************************************************************************)
(* The operations implement the audited status machines.                   *)
(***************************************************************************)
LEMMA AuditMove ==
  ASSUME TypeOK, TypeOK', NEW to, Move(to),
         \A e \in Entity : e \in DOMAIN to =>
           \/ <<status[e], to[e]>> \in EdgesOf(e)
           \/ status[e] = Absent /\ to[e] = FirstOf(e)
  PROVE  Audit!Next
  <1>1. ASSUME NEW e \in Entity PROVE Audit!Rests(e) \/ Audit!Moves(e)
    <2>1. CASE e \in DOMAIN to
      <3>1. status'[e] = to[e] /\ newest'[e] = [from |-> status[e], to |-> to[e]]
        BY <2>1, MoveEffect
      <3>2. \/ <<e, status[e], to[e]>> \in
                 UNION {{<<f, edge[1], edge[2]>> : edge \in EdgesOf(f)} : f \in Entity}
            \/ status[e] = Absent /\ <<e, to[e]>> \in {<<f, FirstOf(f)>> : f \in Entity}
        <4>1. CASE <<status[e], to[e]>> \in EdgesOf(e)
          <5>1. <<e, status[e], to[e]>> \in {<<e, edge[1], edge[2]>> : edge \in EdgesOf(e)}
            BY <4>1
          <5> QED BY <5>1
        <4> QED BY <2>1, <4>1
      <3> QED BY <3>1, <3>2 DEF Audit!Moves
    <2>2. CASE e \notin DOMAIN to
      BY <2>2, MoveEffect DEF Audit!Rests
    <2> QED BY <2>1, <2>2
  <1> QED BY <1>1 DEF Audit!Next, Audit!Transition, TypeOK, StatusType

\* The same for a transaction that moves one row.
LEMMA AuditMoveOne ==
  ASSUME TypeOK, TypeOK', NEW e \in Entity, NEW to, MoveOne(e, to),
         \/ <<status[e], to>> \in EdgesOf(e)
         \/ status[e] = Absent /\ to = FirstOf(e)
  PROVE  Audit!Next
  <1> DEFINE one == [x \in {e} |-> to]
  <1>1. Move(one) /\ DOMAIN one = {e} /\ one[e] = to
    BY DEF MoveOne
  <1> HIDE DEF one
  <1> QED BY <1>1, AuditMove

\* A request that moves no row is a stutter of the audited machines.
LEMMA AuditRest ==
  ASSUME TypeOK', UNCHANGED <<status, newest>> PROVE Audit!Next
  BY DEF Audit!Next, Audit!Rests, Audit!Transition, TypeOK, StatusType

\* The rows of a new result are all born in their first status.
LEMMA AuditCreate ==
  ASSUME TypeOK, References, TypeOK', NEW s \in Result, NEW r \in Run, NEW c \in Case,
         NEW operation, CreateResult(s, r, c, operation)
  PROVE  Audit!Next
  <1> DEFINE new == {s} \cup ({s} \X ProceduresOf[c])
             to  == [e \in new |-> FirstResultStatus]
  <1>1. CASE Commits(new)
    <2>1. Move(to) /\ ~Exists(s)
      BY <1>1 DEF CreateResult
    <2>2. DOMAIN to = new /\ \A e \in new : to[e] = FirstResultStatus
      OBVIOUS
    <2>3. \A e \in new : e \in Result \cup ProcedureRow /\ status[e] = Absent
      BY <2>1, MasterData DEF References, Exists, ProcedureRow
    <2> HIDE DEF to, new
    <2>4. \A e \in Entity : e \in DOMAIN to => status[e] = Absent /\ to[e] = FirstOf(e)
      BY <2>2, <2>3, Kinds DEF FirstOf
    <2> QED BY <2>1, <2>4, AuditMove
  <1>2. CASE ~Commits(new)
    BY <1>2, AuditRest DEF CreateResult, RolledBack
  <1> QED BY <1>1, <1>2

\* A defect that moves along its edges moves as audited.
LEMMA AuditDefect ==
  ASSUME TypeOK, TypeOK', NEW d \in Defect, NEW to, MoveOne(d, to),
         <<status[d], to>> \in DefectEdges \/ (status[d] = Absent /\ to = "opened")
  PROVE  Audit!Next
  <1>1. d \in Entity /\ EdgesOf(d) = DefectEdges /\ FirstOf(d) = "opened"
    BY Kinds DEF EdgesOf, FirstOf, FirstDefectStatus
  <1> QED BY <1>1, AuditMoveOne

\* Every request is a step, or a stutter, of the audited machines.
LEMMA AuditStep == Inductive /\ [Next]_vars => [Audit!Next]_<<status, newest>>
  <1> SUFFICES ASSUME Inductive, [Next]_vars PROVE [Audit!Next]_<<status, newest>>
    OBVIOUS
  <1> TypeOK /\ References /\ TypeOK'
    BY NextType DEF Inductive, Rules
  <1>1. ASSUME NEW r \in Run, StartRun(r) \/ EndRun(r, "finished") \/ EndRun(r, "cancelled")
        PROVE  Audit!Next
    <2>1. r \in Entity /\ EdgesOf(r) = RunEdges /\ FirstOf(r) = FirstRunStatus
      BY Kinds DEF EdgesOf, FirstOf
    <2> QED BY <1>1, <2>1, AuditMoveOne DEF StartRun, EndRun, Exists
  <1>2. ASSUME NEW s \in Result, NEW r \in Run, NEW c \in Case, StartResult(s, r, c)
        PROVE  Audit!Next
    BY <1>2, AuditCreate DEF StartResult
  <1>3. ASSUME NEW s \in Result, NEW p \in Procedure, NEW next \in ResultStatus,
               NEW why \in Reason \cup {None}, SaveProcedureResult(s, p, next, why)
        PROVE  Audit!Next
    <2>1. CASE RolledBack("save_procedure_result")
      BY <2>1, AuditRest DEF RolledBack
    <2>2. CASE ~RolledBack("save_procedure_result")
      <3>1. PICK to : /\ Move(to)
                      /\ DOMAIN to \subseteq {s, <<s, p>>}
                      /\ \A e \in DOMAIN to : <<status[e], to[e]>> \in ResultEdges
        BY <1>3, <2>2, SaveProcedureResultEffect
      <3>2. EdgesOf(s) = ResultEdges /\ EdgesOf(<<s, p>>) = ResultEdges
        BY Kinds DEF EdgesOf
      <3> QED BY <3>1, <3>2, AuditMove
    <2> QED BY <2>1, <2>2
  <1>4. ASSUME NEW d \in Defect, NEW s \in Result, NEW scope, NEW title, NEW serious,
               SaveDefect(d, s, scope, title, serious)
        PROVE  Audit!Next
    BY <1>4, AuditDefect DEF SaveDefect, FirstDefectStatus, Exists
  <1>5. ASSUME NEW d \in Defect, NEW scope, SaveEvidence(d, scope) PROVE Audit!Next
    BY <1>5, AuditRest DEF SaveEvidence
  <1>6. ASSUME NEW d \in Defect, Assign(d) \/ Fix(d) \/ Reject(d) \/ Close(d)
        PROVE  Audit!Next
    <2>1. PICK to \in {"assigned", "fixed", "rejected", "closed"} :
            Admitted(d, to) /\ MoveDefect(d, to)
      BY <1>6 DEF Assign, Fix, Reject, Close
    <2>2. MoveOne(d, to) /\ <<status[d], to>> \in DefectEdges
      BY <2>1 DEF Admitted, MoveDefect
    <2> QED BY <2>2, AuditDefect
  <1>7. ASSUME NEW d \in Defect, NEW s \in Result, Retest(d, s) PROVE Audit!Next
    <2>1. MoveOne(d, "retested") /\ <<status[d], "retested">> \in DefectEdges
      BY <1>7 DEF Retest, Admitted, MoveDefect
    <2> QED BY <2>1, AuditDefect
  <1>8. ASSUME NEW d \in Defect, NEW s \in Result, NEW r \in Run, CreateRetest(d, s, r)
        PROVE  Audit!Next
    <2>1. Exists(d) /\ CreateResult(s, r, place[defect[d].result].case, "create_retest")
      BY <1>8 DEF CreateRetest, Exists, Absent
    <2>2. place[defect[d].result].case \in Case
      BY <2>1, ColumnsOfRows DEF References
    <2> QED BY <2>1, <2>2, AuditCreate
  <1>9. CASE UNCHANGED vars
    BY <1>9 DEF vars
  <1> QED BY <1>1, <1>2, <1>3, <1>4, <1>5, <1>6, <1>7, <1>8, <1>9 DEF Next

\* Every move of a run, a result, a procedure or a defect goes along an edge of
\* its machine and is written to the transition log with its old and its new
\* status, in the same transaction.
THEOREM AuditedCorrect == Spec => Audited
  <1>1. Init => Audit!Init
    <2> SUFFICES ASSUME Init PROVE Audit!Init
      OBVIOUS
    <2>1. TypeOK
      BY InitType
    <2>2. \A e \in Entity : newest[e] # NoTransition => newest[e].to = status[e]
      BY DEF Init
    <2> QED BY <2>1, <2>2 DEF Audit!Init, Audit!Transition, TypeOK, StatusType
  <1>2. Inductive /\ [Next]_vars => [Audit!Next]_<<status, newest>>
    BY AuditStep
  <1> QED BY <1>1, <1>2, InductiveInvariant, PTL DEF Spec, Audited, Audit!Spec
-----------------------------------------------------------------------------
(***************************************************************************)
(* No duplicates.                                                          *)
(***************************************************************************)
LEMMA NothingNew ==
  ASSUME NoDuplicates, Kept, \A e \in Result \cup Defect : Exists(e)' => Exists(e)
  PROVE  NoDuplicates'
  BY DEF NoDuplicates, Kept

\* Every request keeps the results of a place and the defects of a scope apart.
LEMMA NoDuplicatesStep == Inductive /\ NoDuplicates /\ [Next]_vars => NoDuplicates'
  <1> SUFFICES ASSUME Inductive, NoDuplicates, [Next]_vars PROVE NoDuplicates'
    OBVIOUS
  <1> Kept
    BY NextRules
  <1>1. ASSUME NEW s \in Result, NEW r \in Run, NEW c \in Case, NEW operation,
               ~HasResult(r, c), CreateResult(s, r, c, operation)
        PROVE  NoDuplicates'
    <2>1. CASE RolledBack(operation)
      BY <2>1, NothingNew DEF RolledBack, Exists
    <2>2. CASE ~RolledBack(operation)
      <3>1. /\ place' = [place EXCEPT ![s] = [run |-> r, case |-> c]]
            /\ UNCHANGED <<reason, defect, evidenced>>
            /\ \A e \in Result \cup Defect : e # s => status'[e] = status[e]
        <4>1. {s} \X ProceduresOf[c] \subseteq ProcedureRow
          BY MasterData DEF ProcedureRow
        <4> QED BY <1>1, <2>2, <4>1, CreateResultEffect, Kinds
      <3>2. /\ place'[s] = [run |-> r, case |-> c]
            /\ \A t \in Result : t # s => place'[t] = place[t]
        BY <3>1 DEF Inductive, TypeOK, ColumnType
      <3>3. \A t \in Result : t # s /\ Exists(t)' => Exists(t) /\ place'[t] # place'[s]
        BY <1>1, <3>1, <3>2 DEF HasResult, Exists
      <3>4. \A d \in Defect : (Exists(d)' <=> Exists(d)) /\ defect' = defect
        BY <3>1, Kinds DEF Exists
      <3> QED BY <3>2, <3>3, <3>4 DEF NoDuplicates
    <2> QED BY <2>1, <2>2
  <1>2. ASSUME NEW d \in Defect, NEW s \in Result, NEW scope \in Procedure \cup {None},
               NEW title \in Title, NEW serious \in BOOLEAN,
               SaveDefect(d, s, scope, title, serious)
        PROVE  NoDuplicates'
    <2>1. /\ MoveOne(d, "opened") /\ place' = place
          /\ defect' = [defect EXCEPT ![d] = [result |-> s, scope |-> scope, title |-> title,
                                              serious |-> serious, retest |-> None]]
          /\ \A other \in Defect : ~SameDefect(other, s, scope, title)
      BY <1>2 DEF SaveDefect, FirstDefectStatus
    <2>2. \A e \in Result \cup Defect : e # d => status'[e] = status[e]
      BY <2>1, MoveOneEffect, Kinds
    <2>3. /\ defect'[d].result = s /\ defect'[d].scope = scope /\ defect'[d].title = title
          /\ \A e \in Defect : e # d => defect'[e] = defect[e]
      BY <2>1 DEF Inductive, TypeOK, ColumnType
    <2>4. \A t \in Result : Exists(t)' <=> Exists(t)
      BY <2>2, Kinds DEF Exists
    <2>5. \A e \in Defect : e # d /\ Exists(e)' =>
            /\ Exists(e) /\ defect'[e] = defect[e]
            /\ ~(defect'[e].result = s /\ defect'[e].scope = scope /\ defect'[e].title = title)
      BY <2>1, <2>2, <2>3 DEF SameDefect, Exists
    <2> QED BY <2>1, <2>3, <2>4, <2>5 DEF NoDuplicates
  <1>3. ASSUME NEW e \in Run \cup Defect, NEW to, MoveOne(e, to), e \in Defect => Exists(e)
        PROVE  NoDuplicates'
    <2>1. \A f \in Result \cup Defect : f # e => status'[f] = status[f]
      BY <1>3, MoveOneEffect, Kinds
    <2>2. \A f \in Result \cup Defect : Exists(f)' => Exists(f)
      BY <1>3, <2>1, Kinds DEF Exists
    <2> QED BY <2>2, NothingNew
  <1>4. ASSUME NEW r \in Run, StartRun(r) \/ EndRun(r, "finished") \/ EndRun(r, "cancelled")
        PROVE  NoDuplicates'
    BY <1>3, <1>4, Kinds DEF StartRun, EndRun
  <1>5. ASSUME NEW s \in Result, NEW r \in Run, NEW c \in Case, StartResult(s, r, c)
        PROVE  NoDuplicates'
    BY <1>1, <1>5 DEF StartResult
  <1>6. ASSUME NEW s \in Result, NEW p \in Procedure, NEW next \in ResultStatus,
               NEW why \in Reason \cup {None}, SaveProcedureResult(s, p, next, why)
        PROVE  NoDuplicates'
    <2>1. CASE RolledBack("save_procedure_result")
      BY <2>1, NothingNew DEF RolledBack, Exists
    <2>2. CASE ~RolledBack("save_procedure_result")
      <3>1. Exists(s) /\ \A e \in Entity : e \notin {s, <<s, p>>} => status'[e] = status[e]
        BY <1>6, <2>2, SaveProcedureResultEffect DEF Inductive
      <3>2. \A e \in Result \cup Defect : Exists(e)' => Exists(e)
        BY <3>1, Kinds DEF Exists
      <3> QED BY <3>2, NothingNew
    <2> QED BY <2>1, <2>2
  <1>7. ASSUME NEW d \in Defect, NEW scope, SaveEvidence(d, scope) PROVE NoDuplicates'
    BY <1>7, NothingNew DEF SaveEvidence, Exists
  <1>8. ASSUME NEW d \in Defect, NEW to, Admitted(d, to), MoveDefect(d, to) PROVE NoDuplicates'
    BY <1>3, <1>8, Edges DEF Admitted, MoveDefect, Exists, Absent
  <1>9. ASSUME NEW d \in Defect, NEW s \in Result, Retest(d, s) PROVE NoDuplicates'
    BY <1>8, <1>9 DEF Retest
  <1>10. ASSUME NEW d \in Defect, Assign(d) \/ Fix(d) \/ Reject(d) \/ Close(d)
         PROVE  NoDuplicates'
    <2>1. PICK to \in {"assigned", "fixed", "rejected", "closed"} :
            Admitted(d, to) /\ MoveDefect(d, to)
      BY <1>10 DEF Assign, Fix, Reject, Close
    <2> QED BY <2>1, <1>8
  <1>11. ASSUME NEW d \in Defect, NEW s \in Result, NEW r \in Run, CreateRetest(d, s, r)
         PROVE  NoDuplicates'
    <2>1. /\ Exists(d) /\ ~HasResult(r, place[defect[d].result].case)
          /\ CreateResult(s, r, place[defect[d].result].case, "create_retest")
      BY <1>11 DEF CreateRetest, Exists, Absent
    <2>2. place[defect[d].result].case \in Case
      BY <2>1, ColumnsOfRows DEF Inductive, Rules, References
    <2> QED BY <2>1, <2>2, <1>1
  <1>12. CASE UNCHANGED vars
    BY <1>12, NothingNew DEF vars, Exists
  <1> QED
    BY <1>2, <1>4, <1>5, <1>6, <1>7, <1>9, <1>10, <1>11, <1>12 DEF Next

\* The service never adds a second result of a run and case, nor a second
\* defect with the title and scope of another one.
THEOREM NoDuplicatesCorrect == Spec => []NoDuplicates
  <1>1. Init => NoDuplicates
    <2> SUFFICES ASSUME Init PROVE NoDuplicates
      OBVIOUS
    <2>1. /\ \A s \in Result : Exists(s) => s \in Given
          /\ \A d \in Defect : Exists(d) => d \in Imported
      BY InitStatus, Capitals DEF Exists, Given, Absent
    <2> QED BY <2>1 DEF NoDuplicates
  <1>2. Inductive /\ NoDuplicates /\ [Next]_vars => NoDuplicates'
    BY NoDuplicatesStep
  <1> QED BY <1>1, <1>2, InductiveInvariant, PTL DEF Spec
-----------------------------------------------------------------------------
(***************************************************************************)
(* The service as configured.                                              *)
(***************************************************************************)
\* A new result and its first procedure row are two entities.
LEMMA NewResultFails ==
  ASSUME ~AutoFlush, NEW s \in Result, NEW r, NEW c \in Case, NEW operation,
         CreateResult(s, r, c, operation)
  PROVE  RolledBack(operation)
  <1>1. PICK p \in ProceduresOf[c] : TRUE
    BY DEF CreateResult
  <1>2. <<s, p>> \in ProcedureRow /\ s # <<s, p>>
    BY <1>1, MasterData, Kinds DEF ProcedureRow
  <1>3. ~Commits({s} \cup ({s} \X ProceduresOf[c]))
    BY <1>1, <1>2 DEF Commits
  <1> QED BY <1>3 DEF CreateResult

\* No request creates a result whose commit succeeds without a flush.
LEMMA NoNewResultStep == Inductive /\ NoNewResult /\ [Next]_vars => NoNewResult'
  <1> SUFFICES ASSUME Inductive, NoNewResult, [Next]_vars, ~AutoFlush
               PROVE  \A s \in Result : Exists(s)' => Exists(s)
    BY DEF NoNewResult, Exists
  <1>1. ASSUME NEW operation, RolledBack(operation)
        PROVE  \A t \in Result : Exists(t)' => Exists(t)
    BY <1>1 DEF RolledBack, Exists
  <1>2. ASSUME NEW e \in Run \cup Defect, NEW to, MoveOne(e, to)
        PROVE  \A t \in Result : Exists(t)' => Exists(t)
    BY <1>2, MoveOneEffect, Kinds DEF Exists
  <1>3. ASSUME NEW r \in Run, StartRun(r) \/ EndRun(r, "finished") \/ EndRun(r, "cancelled")
        PROVE  \A t \in Result : Exists(t)' => Exists(t)
    BY <1>2, <1>3 DEF StartRun, EndRun
  <1>4. ASSUME NEW s \in Result, NEW r \in Run, NEW c \in Case, StartResult(s, r, c)
        PROVE  \A t \in Result : Exists(t)' => Exists(t)
    BY <1>1, <1>4, NewResultFails DEF StartResult
  <1>5. ASSUME NEW s \in Result, NEW p \in Procedure, NEW next \in ResultStatus,
               NEW why \in Reason \cup {None}, SaveProcedureResult(s, p, next, why)
        PROVE  \A t \in Result : Exists(t)' => Exists(t)
    <2>1. CASE RolledBack("save_procedure_result")
      BY <2>1, <1>1
    <2>2. CASE ~RolledBack("save_procedure_result")
      <3>1. Exists(s) /\ \A e \in Entity : e \notin {s, <<s, p>>} => status'[e] = status[e]
        BY <1>5, <2>2, SaveProcedureResultEffect DEF Inductive
      <3> QED BY <3>1, Kinds DEF Exists
    <2> QED BY <2>1, <2>2
  <1>6. ASSUME NEW d \in Defect, NEW s \in Result, NEW scope \in Procedure \cup {None},
               NEW title \in Title, NEW serious \in BOOLEAN,
               SaveDefect(d, s, scope, title, serious)
        PROVE  \A t \in Result : Exists(t)' => Exists(t)
    BY <1>2, <1>6 DEF SaveDefect
  <1>7. ASSUME NEW d \in Defect, NEW scope, SaveEvidence(d, scope)
        PROVE  \A t \in Result : Exists(t)' => Exists(t)
    BY <1>7 DEF SaveEvidence, Exists
  <1>8. ASSUME NEW d \in Defect, Assign(d) \/ Fix(d) \/ Reject(d) \/ Close(d)
        PROVE  \A t \in Result : Exists(t)' => Exists(t)
    BY <1>2, <1>8 DEF Assign, Fix, Reject, Close, MoveDefect
  <1>9. ASSUME NEW d \in Defect, NEW s \in Result, Retest(d, s)
        PROVE  \A t \in Result : Exists(t)' => Exists(t)
    BY <1>2, <1>9 DEF Retest, MoveDefect
  <1>10. ASSUME NEW d \in Defect, NEW s \in Result, NEW r \in Run, CreateRetest(d, s, r)
         PROVE  \A t \in Result : Exists(t)' => Exists(t)
    <2>1. Exists(d) /\ CreateResult(s, r, place[defect[d].result].case, "create_retest")
      BY <1>10 DEF CreateRetest, Exists, Absent
    <2>2. place[defect[d].result].case \in Case
      BY <2>1, ColumnsOfRows DEF Inductive, Rules, References
    <2> QED BY <2>1, <2>2, <1>1, NewResultFails
  <1>11. CASE UNCHANGED vars
    BY <1>11 DEF vars, Exists
  <1> QED
    BY <1>3, <1>4, <1>5, <1>6, <1>7, <1>8, <1>9, <1>10, <1>11 DEF Next

\* With identifiers that are read without a flush the service never creates a
\* result, whatever the requests: every result was imported or seeded.
THEOREM NoNewResultCorrect == Spec => []NoNewResult
  <1>1. Init => NoNewResult
    <2> SUFFICES ASSUME Init PROVE NoNewResult
      OBVIOUS
    <2> QED BY InitStatus, Capitals DEF NoNewResult, Exists, Given, Absent
  <1>2. Inductive /\ NoNewResult /\ [Next]_vars => NoNewResult'
    BY NoNewResultStep
  <1> QED BY <1>1, <1>2, InductiveInvariant, PTL DEF Spec
=============================================================================
