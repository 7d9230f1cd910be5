\* Two points on the way to approval, good and weak tests, single and batched.
SPECIFICATION Spec
CONSTANTS
  Points = {p1, p2}
  Labels = {a, b}
  Hall = Hall
  None = None
  Headers <- OneHeader
  AddValues <- JustLight
  ReviseValues = {}
  Patches <- NoPatch
  Measurements <- GoodOrWeak
  ClockSteps = {1}
  Decisions = {"approve"}
  MaxBatch = 2
  MaxVersion = 8
  MaxTests = 3
  MaxTasks = 1
SYMMETRY Symmetry
INVARIANTS
  TypeOK
PROPERTIES
  KeepsPromise
\* An approved plan with its credentials accepts no further command.
CHECK_DEADLOCK FALSE
