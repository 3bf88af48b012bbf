\* The guide: a retest creates a new result.  The service as configured.
CONSTANTS
  c1 = c1
  NoTransition = NoTransition
  None = None
  ProceduresOf <- CaseProcedures
  Run = {r1, r2}
  Result = {s1, s2}
  Case = {c1}
  Procedure = {p1}
  Defect = {d1}
  Title = {t1}
  Reason = {why}
  Imported = {}
  Seeded = {r1, s1}
  AutoFlush = FALSE
SPECIFICATION Spec
CHECK_DEADLOCK FALSE
INVARIANT RetestIsCreated
