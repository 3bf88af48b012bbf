SPECIFICATION FairSpec
CONSTANTS
  Process = {p1, p2, p3}
  Restarter = {t1}
  Main = main
  Columns = 1
  MaxVersion = 1
  MaxDay = 1
  None = None
INVARIANTS TypeOK RestartedRight SchemaWhole BackupWhole
PROPERTY Available
CHECK_DEADLOCK FALSE
