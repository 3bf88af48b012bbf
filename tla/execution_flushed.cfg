\* The rules of execution, with identifiers that are read after a flush: the
\* seeded failed result, a fresh result of the same case with two procedures,
\* and one defect.
CONSTANTS
  c1 = c1
  NoTransition = NoTransition
  None = None
  ProceduresOf <- CaseProcedures
  Run = {r1, r2}
  Result = {s1, s2}
  Case = {c1}
  Procedure = {p1, p2}
  Defect = {d1}
  Title = {t1}
  Reason = {why}
  Imported = {}
  Seeded = {r1, s1}
  AutoFlush = TRUE
SPECIFICATION Spec
SYMMETRY Symmetry
CHECK_DEADLOCK FALSE
INVARIANTS TypeOK References SummaryAgrees JudgementHasReason
           DefectOfFailedResult RetestPassed EvidenceBeforeFix
PROPERTIES Permanent Audited
