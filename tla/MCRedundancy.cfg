\* Two points registered, revised, referenced and removed, up to the approval.
SPECIFICATION Spec
CONSTANTS
  Points = {p1, p2}
  Labels = {a, b}
  Hall = Hall
  None = None
  Headers <- OneHeader
  AddValues <- JustLight
  ReviseValues <- JustLight
  Patches <- NoPatch
  Measurements <- JustGood
  ClockSteps = {1}
  Decisions = {"approve"}
  MaxBatch = 2
  MaxVersion = 9
  MaxTests = 3
  MaxTasks = 1
SYMMETRY Symmetry
INVARIANTS
  NoHiddenRisk
  ApprovedIsClear
  IndependentRedundancy
  ProjectionAccepted
PROPERTIES
  KeepsPromise
CHECK_DEADLOCK FALSE
