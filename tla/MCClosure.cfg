\* One point whose configuration is revised back and forth while risks are
\* remediated and retested, with a clock that may stand still.
SPECIFICATION Spec
CONSTANTS
  Points = {p1}
  Labels = {a}
  Hall = Hall
  None = None
  Headers <- TwoHeaders
  AddValues <- JustLight
  ReviseValues <- LightOrOver
  Patches <- AllPatch
  Measurements <- GoodOrWeak
  ClockSteps = {0, 1}
  Decisions = {"approve", "return"}
  MaxBatch = 1
  MaxVersion = 6
  MaxTests = 3
  MaxTasks = 2
INVARIANTS
  RevisionIdentifiesConfig
  OnePendingTaskPerRisk
  ClosedTaskHasRetest
  ClosedRiskWasRetested
  LatestEvidenceGoverns
PROPERTIES
  HistoryOnlyGrows
\* The bounds on versions, tests and tasks stop the plan.
CHECK_DEADLOCK FALSE
