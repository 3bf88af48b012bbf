SPECIFICATION Spec
CONSTANTS
  Editions <- Workbooks
  None = None
  Normal <- NormalOf
  Legacy <- LegacyCombos
  Unclassified = "UNCLASSIFIED"
  Length <- LengthOf
  Device <- DeviceOf
  Scenario <- Scenarios
  RoundOf <- Mapping
  TestRounds = {"R1", "R2", "R3"}
  Remap <- Diagnosed
  Wanted <- WantedTargets
  New <- NewTarget
  MaxScripts = 3
INVARIANTS TypeOK Resumed
PROPERTY RowsKept
CHECK_DEADLOCK FALSE
