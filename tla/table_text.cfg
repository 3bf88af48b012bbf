\* One request is enough.
CONSTANTS
  Round = {"g1"}
  Target = {"t1"}
  Config = {"f1"}
  Case = {"c1", "c2"}
  Procedure = {"p1", "p2"}
  Run = {"r1", "r2", "r3"}
  Result = {"s1"}
  Judged = {"q1", "q2"}
  Defect = {"d1"}
  Evidence = {"e1"}
  Databases <- SmallDatabases
  EditLists <- SmallEditLists
  Process = {1, 2}
  Connection = {k1, k2}
  None = None
SPECIFICATION Spec
CHECK_DEADLOCK FALSE
PROPERTY AcceptedTextIsStored
