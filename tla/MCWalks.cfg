SPECIFICATION FairSpec
CONSTANTS
  Ids = {q1, q2, q3}
  None = None
INVARIANTS
  TypeOK
  ReportsExactly
  VerdictRight
PROPERTY
  EveryWalkEnds
CHECK_DEADLOCK FALSE
