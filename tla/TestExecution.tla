---------------------------- MODULE TestExecution ----------------------------
(***************************************************************************)
(* The operations testers and developers use to execute tests and to work  *)
(* on defects: start, finish and cancel a run; start a result, judge its   *)
(* procedures, attach evidence; open a defect and take it through fix,     *)
(* retest, close or reject.  Every operation is one request, run in one    *)
(* transaction of one session; here the requests are served one after the  *)
(* other.  A request the code refuses (ValueError, LookupError) changes    *)
(* nothing and is an action that is not enabled.                           *)
(*                                                                         *)
(* The identifier of a new row is one more than the largest number the     *)
(* database holds (_next_prefixed_id).  Sessions are opened with           *)
(* autoflush=False, so a row added earlier in the same transaction is not  *)
(* counted: two new rows of one table get the same identifier and the      *)
(* commit fails.  AutoFlush says whether pending rows are flushed before   *)
(* the identifier is read; FALSE is what app/db.py configures.             *)
(***************************************************************************)
EXTENDS StatusRules

CONSTANTS Run, Result, Case, Procedure, Defect,  \* identifiers of rows
          Title,          \* normalised defect titles
          Reason,         \* judgement reasons (non-empty texts)
          ProceduresOf,   \* the procedures of each test case
          Imported,       \* runs, results and defects the Excel import wrote
          Seeded,         \* runs and results the sample seed wrote
          AutoFlush,
          NoTransition, None

ProcedureRow == Result \X Procedure   \* a result has one row per procedure
\* The import writes its rows in statuses of its own, in capitals.  No machine
\* of the service has them, so no request moves such a row.
ImportedRunStatus    == {"PASSED", "BLOCKED", "IN_PROGRESS"}
ImportedResultStatus == {"PASSED", "BLOCKED", "IN_PROGRESS", "FAILED"}
ImportedDefectStatus == {"OPEN"}
AnyStatus == Status \cup ImportedRunStatus \cup ImportedResultStatus
               \cup ImportedDefectStatus

Entity == Run \cup Result \cup ProcedureRow \cup Defect
Places == [run : Run, case : Case]
Defects == [result : Result, scope : Procedure \cup {None}, title : Title,
            serious : BOOLEAN, retest : Result \cup {None}]

ASSUME DisjointIds ==
  /\ Run \cap Result = {} /\ Run \cap Defect = {} /\ Result \cap Defect = {}
  /\ (Run \cup Result \cup Defect) \cap ProcedureRow = {}
ASSUME OutsideIds ==
  /\ None \notin Run \cup Result \cup Procedure \cup Reason \cup Places \cup Defects
  /\ NoTransition \notin [from : AnyStatus, to : AnyStatus]
ASSUME MasterData == ProceduresOf \in [Case -> SUBSET Procedure]
ASSUME ImportedIds ==
  /\ Imported \subseteq Run \cup Result \cup Defect
  /\ Seeded \subseteq (Run \cup Result) \ Imported
ASSUME AutoFlushBoolean == AutoFlush \in BOOLEAN

VARIABLES
  status,    \* the status column of every row, Absent when there is no row
  newest,    \* the newest transition row of every entity
  place,     \* the run and the case of a result
  reason,    \* the judgement_reason of a procedure row
  defect,    \* the other columns of a defect
  evidenced, \* the defects some evidence row of their result points to
  failed     \* the operation whose commit was the last to fail, or None

vars == <<status, newest, place, reason, defect, evidenced, failed>>

Operations == {"start_result", "save_procedure_result", "create_retest"}

Exists(e) == status[e] # Absent
RowsOf(s) == {q \in {s} \X Procedure : Exists(q)}
RowStatuses(s) == {status[q] : q \in RowsOf(s)}

(***************************************************************************)
(* One transaction.                                                        *)
(***************************************************************************)
\* The transition rows of one transaction are all added to one table.
Commits(E) == AutoFlush \/ \A x, y \in E : x = y

\* Mutant of Move: from_status is read after the new status was assigned.
MoveLateFrom(to) ==
  /\ status' = [e \in Entity |-> IF e \in DOMAIN to THEN to[e] ELSE status[e]]
  /\ newest' = [e \in Entity |-> IF e \in DOMAIN to
                                   THEN [from |-> to[e], to |-> to[e]]
                                   ELSE newest[e]]
  /\ failed' = None

\* ensure_product_test_status_transition_recorded for every entity of the
\* domain of "to": the new status and the transition row that says so.
Move(to) ==
  /\ status' = [e \in Entity |-> IF e \in DOMAIN to THEN to[e] ELSE status[e]]
  /\ newest' = [e \in Entity |-> IF e \in DOMAIN to
                                   THEN [from |-> status[e], to |-> to[e]]
                                   ELSE newest[e]]
  /\ failed' = None

MoveOne(e, to) == Move([x \in {e} |-> to])

\* _commit_or_rollback: the duplicate identifier is refused at the commit and
\* the whole transaction is undone.
RolledBack(operation) ==
  /\ failed' = operation
  /\ UNCHANGED <<status, newest, place, reason, defect, evidenced>>
-----------------------------------------------------------------------------
(***************************************************************************)
(* Runs and results.                                                       *)
(***************************************************************************)
StartRun(r) ==
  /\ ~Exists(r)
  /\ MoveOne(r, FirstRunStatus)
  /\ UNCHANGED <<place, reason, defect, evidenced>>

\* Mutant of EndRun: only a finished run is refused.
EndRunAgain(r, to) ==
  /\ status[r] \notin {Absent, "finished"}
  /\ MoveOne(r, to)
  /\ UNCHANGED <<place, reason, defect, evidenced>>

\* finish_run and cancel_run
EndRun(r, to) ==
  /\ <<status[r], to>> \in RunEdges
  /\ MoveOne(r, to)
  /\ UNCHANGED <<place, reason, defect, evidenced>>

HasResult(r, c) == \E s \in Result : Exists(s) /\ place[s] = [run |-> r, case |-> c]

\* Mutants of CreateResult: the identifier may be one in use; the check that
\* the case has procedures is gone; the result is stored without run and case.
CreateResultTaken(s, r, c, operation) ==
  LET new == {s} \cup ({s} \X ProceduresOf[c]) IN
  /\ Move([e \in new |-> FirstResultStatus])
  /\ place' = [place EXCEPT ![s] = [run |-> r, case |-> c]]
  /\ UNCHANGED <<reason, defect, evidenced>>

CreateResultEmpty(s, r, c, operation) ==
  /\ ~Exists(s) /\ ProceduresOf[c] = {}
  /\ MoveOne(s, FirstResultStatus)
  /\ place' = [place EXCEPT ![s] = [run |-> r, case |-> c]]
  /\ UNCHANGED <<reason, defect, evidenced>>

CreateResultPlaceless(s, r, c, operation) ==
  /\ ~Exists(s)
  /\ Move([e \in {s} \cup ({s} \X ProceduresOf[c]) |-> FirstResultStatus])
  /\ UNCHANGED <<place, reason, defect, evidenced>>

\* The part of start_product_test_result that follows the search for a result
\* of the same run and case: the result and one row per procedure.
CreateResult(s, r, c, operation) ==
  LET new == {s} \cup ({s} \X ProceduresOf[c]) IN
  /\ ~Exists(s)
  /\ ProceduresOf[c] # {}
  /\ IF Commits(new)
       THEN /\ Move([e \in new |-> FirstResultStatus])
            /\ place' = [place EXCEPT ![s] = [run |-> r, case |-> c]]
            /\ UNCHANGED <<reason, defect, evidenced>>
       ELSE RolledBack(operation)

\* Mutant of StartResult: the run is not looked up.
StartResultAnyRun(s, r, c) ==
  /\ ~HasResult(r, c)
  /\ CreateResult(s, r, c, "start_result")

\* A result of the run and case is returned unchanged when there is one.
StartResult(s, r, c) ==
  /\ status[r] = "running"
  /\ ~HasResult(r, c)
  /\ CreateResult(s, r, c, "start_result")

\* Mutant of SaveProcedureResult: the result is not summarised again.
SaveProcedureResultAlone(s, p, next, why) ==
  /\ Exists(s) /\ Exists(<<s, p>>)
  /\ next \in NeedsReason => why # None
  /\ <<status[<<s, p>>], next>> \in ResultEdges
  /\ MoveOne(<<s, p>>, next)
  /\ reason' = [reason EXCEPT ![<<s, p>>] = why]
  /\ UNCHANGED <<place, defect, evidenced>>

\* Mutant of Reasoned: asked for only when the status of the row changes.
ReasonedChange(row, next, why) ==
  status[row] # next /\ next \in NeedsReason => why # None

\* The judgement_reason of the request, which replaces the stored one.
Reasoned(row, next, why) == next \in NeedsReason => why # None

\* save_procedure_result: the row, then the summary of all rows of the result.
SaveProcedureResult(s, p, next, why) ==
  LET row     == <<s, p>>
      judged  == [q \in RowsOf(s) |-> IF q = row THEN next ELSE status[q]]
      summary == Summarize({judged[q] : q \in RowsOf(s)})
      to      == [e \in {row, s} |-> IF e = s THEN summary ELSE next]
      changed == {e \in {row, s} : to[e] # status[e]}
  IN
  /\ Exists(s) /\ Exists(row)
  /\ Reasoned(row, next, why)
  /\ \A e \in changed : <<status[e], to[e]>> \in ResultEdges
  /\ IF Commits(changed)
       THEN /\ Move([e \in changed |-> to[e]])
            /\ reason' = [reason EXCEPT ![row] = why]
            /\ UNCHANGED <<place, defect, evidenced>>
       ELSE RolledBack("save_procedure_result")
-----------------------------------------------------------------------------
(***************************************************************************)
(* Defects.                                                                *)
(***************************************************************************)
\* Mutant of SameDefect: the scope is compared in SQL, where no scope (NULL) is
\* not equal to no scope.
SameDefectNull(d, s, scope, title) ==
  /\ Exists(d) /\ scope # None
  /\ defect[d].result = s /\ defect[d].scope = scope /\ defect[d].title = title

SameDefect(d, s, scope, title) ==
  /\ Exists(d)
  /\ defect[d].result = s /\ defect[d].scope = scope /\ defect[d].title = title

SaveDefect(d, s, scope, title, serious) ==
  /\ ~Exists(d) /\ Exists(s)
  /\ scope # None => Exists(<<s, scope>>)
  /\ \/ status[s] = "failed"
     \/ scope # None /\ status[<<s, scope>>] = "failed"
  /\ \A other \in Defect : ~SameDefect(other, s, scope, title)
  /\ MoveOne(d, FirstDefectStatus)
  /\ defect' = [defect EXCEPT ![d] = [result |-> s, scope |-> scope, title |-> title,
                                      serious |-> serious, retest |-> None]]
  /\ UNCHANGED <<place, reason, evidenced>>

\* save_evidence with a defect.  Evidence of a result alone only changes the
\* wording of a warning in the remark of a later defect.
SaveEvidence(d, scope) ==
  /\ Exists(d)
  /\ scope # None => /\ Exists(<<defect[d].result, scope>>)
                     /\ defect[d].scope \in {None, scope}
  /\ evidenced' = evidenced \cup {d}
  /\ failed' = None
  /\ UNCHANGED <<status, newest, place, reason, defect>>

\* Mutant of Admitted: evidence is demanded for fixed and not for assigned.
AdmittedFirst(d, to) ==
  /\ <<status[d], to>> \in DefectEdges
  /\ to = "fixed" /\ defect[d].serious => d \in evidenced

\* What every transition of a defect checks, and what it changes.
Admitted(d, to) ==
  /\ <<status[d], to>> \in DefectEdges
  /\ to \in {"assigned", "fixed"} /\ defect[d].serious => d \in evidenced

MoveDefect(d, to) == MoveOne(d, to) /\ UNCHANGED <<place, reason, evidenced>>

\* ..._to_assigned, ..._to_fixed and ..._to_rejected
Assign(d) == Admitted(d, "assigned") /\ MoveDefect(d, "assigned") /\ UNCHANGED defect
Fix(d)    == Admitted(d, "fixed")    /\ MoveDefect(d, "fixed")    /\ UNCHANGED defect
Reject(d) == Admitted(d, "rejected") /\ MoveDefect(d, "rejected") /\ UNCHANGED defect

\* create_retest_product_test_result_from_defect
CreateRetest(d, s, r) ==
  LET c == place[defect[d].result].case IN
  /\ status[d] = "fixed"
  /\ status[r] = "running"
  /\ ~HasResult(r, c)
  /\ CreateResult(s, r, c, "create_retest")

\* ..._to_retested
Retest(d, s) ==
  /\ Admitted(d, "retested")
  /\ Exists(s)
  /\ s # defect[d].result
  /\ place[s].case = place[defect[d].result].case
  /\ status[s] = "passed"
  /\ MoveDefect(d, "retested")
  /\ defect' = [defect EXCEPT ![d].retest = s]

\* ..._to_closed
Close(d) ==
  /\ Admitted(d, "closed")
  /\ defect[d].retest # None
  /\ status[defect[d].retest] = "passed"
  /\ MoveDefect(d, "closed")
  /\ UNCHANGED defect
-----------------------------------------------------------------------------
(***************************************************************************)
(* The databases the service is started on.  The import writes runs,       *)
(* results without procedure rows and defects without a retest, all in its *)
(* own statuses, with other severities and no transition row; the seed     *)
(* writes a failed result of a finished run, all its procedures judged,    *)
(* with its history.  The two opened defects of the seed are left out:     *)
(* save_defect leaves a defect of that result exactly so.                  *)
(***************************************************************************)
Given == Imported \cup Seeded
SeedResults == Seeded \cap Result
SeedRows(of) == {q \in SeedResults \X Procedure : q[2] \in ProceduresOf[of[q[1]].case]}

Init ==
  /\ place \in [Result -> Places \cup {None}]
  /\ \A s \in Result : place[s] # None <=> s \in Given
  /\ \A s \in Result : /\ s \in Imported => place[s].run \in Imported
                       /\ s \in Seeded => place[s].run \in Seeded
  /\ \E runs    \in [Imported \cap Run -> ImportedRunStatus],
        results \in [Imported \cap Result -> ImportedResultStatus],
        defects \in [Imported \cap Defect -> ImportedDefectStatus],
        rows    \in [SeedRows(place) -> {"passed", "failed"}] :
       /\ \A s \in SeedResults : \E q \in DOMAIN rows : q[1] = s /\ rows[q] = "failed"
       /\ status = [e \in Entity |->
            CASE e \in DOMAIN runs         -> runs[e]
              [] e \in DOMAIN results      -> results[e]
              [] e \in DOMAIN defects      -> defects[e]
              [] e \in DOMAIN rows         -> rows[e]
              [] e \in Seeded \cap Run     -> "finished"
              [] e \in SeedResults         -> "failed"
              [] OTHER                     -> Absent]
  /\ newest = [e \in Entity |->
       CASE e \in SeedResults \cup SeedRows(place) ->
              [from |-> FirstResultStatus, to |-> status[e]]
         [] e \in Seeded \cap Run -> [from |-> FirstRunStatus, to |-> status[e]]
         [] OTHER -> NoTransition]
  /\ reason \in [ProcedureRow -> Reason \cup {None}]
  /\ \A q \in ProcedureRow : reason[q] # None <=> status[q] = "failed"
  /\ defect \in [Defect -> Defects \cup {None}]
  /\ \A d \in Defect :
       IF d \in Imported
         THEN /\ defect[d] # None
              /\ defect[d].result \in Imported /\ defect[d].scope = None
              /\ ~defect[d].serious /\ defect[d].retest = None
         ELSE defect[d] = None
  /\ evidenced = {}
  /\ failed = None

Next ==
  \/ \E r \in Run : StartRun(r) \/ EndRun(r, "finished") \/ EndRun(r, "cancelled")
  \/ \E s \in Result, r \in Run, c \in Case : StartResult(s, r, c)
  \/ \E s \in Result, p \in Procedure, next \in ResultStatus, why \in Reason \cup {None} :
       SaveProcedureResult(s, p, next, why)
  \/ \E d \in Defect, s \in Result, scope \in Procedure \cup {None},
        title \in Title, serious \in BOOLEAN : SaveDefect(d, s, scope, title, serious)
  \/ \E d \in Defect, scope \in Procedure \cup {None} : SaveEvidence(d, scope)
  \/ \E d \in Defect : Assign(d) \/ Fix(d) \/ Reject(d) \/ Close(d)
  \/ \E d \in Defect, s \in Result, r \in Run : CreateRetest(d, s, r)
  \/ \E d \in Defect, s \in Result : Retest(d, s)

Spec == Init /\ [][Next]_vars
-----------------------------------------------------------------------------
(***************************************************************************)
(* Properties.                                                             *)
(***************************************************************************)
\* Every variable has its type; a row keeps to the statuses of its kind and,
\* when the import wrote it, to those of the import; a result has a place, and
\* a defect its columns, exactly when the row exists (models.py: NOT NULL).
StatusType ==
  /\ status \in [Entity -> AnyStatus]
  /\ \A r \in Run : status[r] \in
       IF r \in Imported THEN ImportedRunStatus ELSE RunStatus \cup {Absent}
  /\ \A s \in Result : status[s] \in
       IF s \in Imported THEN ImportedResultStatus ELSE ResultStatus \cup {Absent}
  /\ \A q \in ProcedureRow : status[q] \in ResultStatus \cup {Absent}
  /\ \A d \in Defect : status[d] \in
       IF d \in Imported THEN ImportedDefectStatus ELSE DefectStatus \cup {Absent}

ColumnType ==
  /\ place \in [Result -> Places \cup {None}]
  /\ \A s \in Result : Exists(s) <=> place[s] # None
  /\ reason \in [ProcedureRow -> Reason \cup {None}]
  /\ defect \in [Defect -> Defects \cup {None}]
  /\ \A d \in Defect : Exists(d) <=> defect[d] # None
  /\ evidenced \subseteq Defect

TypeOK ==
  /\ StatusType
  /\ newest \in [Entity -> [from : AnyStatus, to : AnyStatus] \cup {NoTransition}]
  /\ ColumnType
  /\ failed \in Operations \cup {None}

\* No row points at a row that is not there: a result has its run, a procedure
\* row its result, a defect its result, its scope and its retest result.  The
\* deletes of the table editor switch the foreign keys that guard this off.
References ==
  /\ \A s \in Result : Exists(s) => Exists(place[s].run)
  /\ \A q \in ProcedureRow : Exists(q) =>
       Exists(q[1]) /\ q[2] \in ProceduresOf[place[q[1]].case]
  /\ \A d \in Defect : Exists(d) =>
       /\ Exists(defect[d].result)
       /\ defect[d].scope # None => Exists(<<defect[d].result, defect[d].scope>>)
       /\ defect[d].retest # None => Exists(defect[d].retest)

\* A result that has procedure rows always has the status their summary
\* demands: the status is stored, not computed, so an operation that judges a
\* procedure and does not, or only partly, carry the summary breaks it.
SummaryAgrees ==
  \A s \in Result : RowsOf(s) # {} =>
    status[s] = Summarize(RowStatuses(s))

\* A procedure that is judged failed, blocked or skipped has a reason
\* (product_test_operation_guide.md section 6), however its row was last saved.
JudgementHasReason ==
  \A q \in ProcedureRow : status[q] \in NeedsReason => reason[q] # None

\* A defect opened through the service belongs to a result that is failed, and
\* stays failed while the defect lives.  save_defect also accepts a failed
\* procedure of a result with another status; the summary makes that
\* impossible.
DefectOfFailedResult ==
  \A d \in Defect \ Imported : Exists(d) => status[defect[d].result] = "failed"

\* A retested or closed defect names another result of the same test case,
\* and that result is passed: not only when the retest was recorded but as
\* long as the defect stays retested or closed.
RetestPassed ==
  \A d \in Defect : status[d] \in {"retested", "closed"} =>
    LET retest == defect[d].retest IN
    /\ retest \notin {None, defect[d].result}
    /\ status[retest] = "passed"
    /\ place[retest].case = place[defect[d].result].case

\* A critical or major defect beyond opened (and not rejected) has evidence:
\* no path through reject, retest and reassignment avoids the check.
EvidenceBeforeFix ==
  \A d \in Defect :
    status[d] \notin {Absent, "opened", "rejected"} /\ defect[d].serious => d \in evidenced

\* What no later request may take back: rows stay, a result that is passed or
\* failed keeps that status, a result keeps its run and case, a defect the scope
\* it was found in and its severity, and evidence stays attached.
Kept ==
  /\ \A e \in Entity : Exists(e) => Exists(e)'
  /\ \A s \in Result :
       /\ status[s] \in {"passed", "failed"} => status'[s] = status[s]
       /\ Exists(s) => place'[s] = place[s]
  /\ \A d \in Defect : Exists(d) =>
       /\ defect'[d].result = defect[d].result /\ defect'[d].scope = defect[d].scope
       /\ defect'[d].title = defect[d].title /\ defect'[d].serious = defect[d].serious
  /\ evidenced \subseteq evidenced'
Permanent == [][Kept]_vars

\* The same run and case have one result, and the same scope and title one
\* defect, unless the import brought both.
NoDuplicates ==
  /\ \A s, t \in Result : Exists(s) /\ Exists(t) /\ place[s] = place[t] =>
       s = t \/ {s, t} \subseteq Given
  /\ \A d, e \in Defect :
       /\ Exists(d) /\ Exists(e)
       /\ defect[d].result = defect[e].result
       /\ defect[d].scope = defect[e].scope /\ defect[d].title = defect[e].title
       => d = e \/ {d, e} \subseteq Imported

\* As long as identifiers are read without a flush no result is ever created:
\* start_product_test_result and the retest creation that calls it always add
\* a result and at least one procedure row, hence two transition rows.
NoNewResult == AutoFlush \/ \A s \in Result : Exists(s) => s \in Given

\* The operations implement the audited status machines: every move of every
\* row goes along an edge and is recorded with the statuses it had before and
\* after, also when one transaction moves a procedure and its result.
EdgesOf(e) == IF e \in Run THEN RunEdges
              ELSE IF e \in Defect THEN DefectEdges ELSE ResultEdges
FirstOf(e) == IF e \in Run THEN FirstRunStatus
              ELSE IF e \in Defect THEN FirstDefectStatus ELSE FirstResultStatus

Audit == INSTANCE AuditedLifecycle WITH
  Statuses <- AnyStatus, NoRow <- Absent,
  Allowed <- UNION {{<<e, edge[1], edge[2]>> : edge \in EdgesOf(e)} : e \in Entity},
  Births <- {<<e, FirstOf(e)>> : e \in Entity}

Audited == Audit!Spec
=============================================================================
