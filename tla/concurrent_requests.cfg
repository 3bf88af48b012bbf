\* Three requests about the same run, the same defect and the same titles.
CONSTANTS
  Request = {q1, q2, q3}
  Title = {t1, t2}
  NoTitle = NoTitle
  Tables <- SmallTables
SPECIFICATION Spec
CHECK_DEADLOCK FALSE
INVARIANTS TypeOK LogAgrees CollisionHasWinner
PROPERTY Ends
