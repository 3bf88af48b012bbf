SPECIFICATION Spec
CONSTANTS
  s1 = s1 s2 = s2 s3 = s3
  x1 = x1 x2 = x2
  Browser = {b1, b2}
  Key = {k}
  Date = {d}
  Sheet = {s1, s2, s3}
  Cell = {c1, c2}
  Value = {v1, v2}
  Existing <- MCExisting
  Entity <- MCEntity
  Sample <- MCSample
  MaxEdits = 3
  LegacyReport = {3}
  None = None
INVARIANTS TypeOK RowsSaved SheetsSaved NewTabFits PageAgrees
SYMMETRY Alike
CHECK_DEADLOCK FALSE
