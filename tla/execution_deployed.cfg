\* The configuration of app/db.py: identifiers are read without a flush.  The
\* seeded result, an imported result of either case with an imported defect, a
\* result that nothing has created yet, and two new defects.
CONSTANTS
  c1 = c1
  NoTransition = NoTransition
  None = None
  ProceduresOf <- CaseProcedures
  Run = {r1, r2, r3}
  Result = {s1, s2, s3}
  Case = {c1, c2}
  Procedure = {p1}
  Defect = {d1, d2, d3}
  Title = {t1}
  Reason = {why}
  Imported = {r1, s2, d1}
  Seeded = {r3, s1}
  AutoFlush = FALSE
SPECIFICATION Spec
SYMMETRY DefectSymmetry
CHECK_DEADLOCK FALSE
INVARIANTS NoDuplicates NoNewResult
