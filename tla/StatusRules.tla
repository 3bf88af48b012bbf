----------------------------- MODULE StatusRules -----------------------------
(***************************************************************************)
(* The status vocabulary of test execution and the rules that relate its   *)
(* values: the ENTITY_TRANSITIONS table of _common.py, the set of          *)
(* judgements that need a reason, and the rule that condenses the statuses *)
(* of the procedures of a result into the status of the result.            *)
(* A status machine is a set of edges <<from, to>>; a status without an    *)
(* outgoing edge is terminal.                                              *)
(***************************************************************************)
EXTENDS FiniteSets

Absent == "absent"  \* there is no row; also the NULL from_status of a creation

RunStatus    == {"running", "finished", "cancelled"}
ResultStatus == {"testing", "passed", "failed", "blocked", "skipped"}
DefectStatus == {"opened", "assigned", "fixed", "retested", "closed", "rejected"}
Status       == {Absent} \cup RunStatus \cup ResultStatus \cup DefectStatus

RunEdges == {"running"} \X {"finished", "cancelled"}

\* Mutant of ResultEdges: a passed result may be reopened, like a blocked one.
ResultEdgesReopened == ({"testing"} \X {"passed", "failed", "blocked", "skipped"})
                         \cup ({"passed", "blocked", "skipped"} \X {"testing"})

\* Results and procedure results have the same machine.
ResultEdges == ({"testing"} \X {"passed", "failed", "blocked", "skipped"})
                 \cup ({"blocked", "skipped"} \X {"testing"})

DefectEdges == ({"opened"}   \X {"assigned", "rejected"})
          \cup ({"assigned"} \X {"fixed", "rejected"})
          \cup ({"fixed"}    \X {"retested"})
          \cup ({"retested"} \X {"closed", "assigned"})

\* The statuses a row may be created with.
FirstRunStatus    == "running"
FirstResultStatus == "testing"
FirstDefectStatus == "opened"

NeedsReason == {"failed", "blocked", "skipped"}

\* Mutant of Summarize: blocked is looked for before failed.
SummarizeBlockedFirst(S) ==
  IF "blocked" \in S THEN "blocked"
  ELSE IF "failed" \in S THEN "failed"
  ELSE IF S = {"passed"} THEN "passed"
  ELSE IF S = {"skipped"} THEN "skipped"
  ELSE "testing"

\* _summarize_result_status: the status of a result whose procedures have
\* exactly the statuses of the set S.
Summarize(S) ==
  IF "failed" \in S THEN "failed"
  ELSE IF S = {"passed"} THEN "passed"
  ELSE IF "blocked" \in S THEN "blocked"
  ELSE IF S = {"skipped"} THEN "skipped"
  ELSE "testing"
=============================================================================
