\* Clients that retry, under fairness.
SPECIFICATION FairSpec
CONSTANTS
  c1 = c1
  c2 = c2
  c3 = c3
  p = p
  k1 = k1
  k2 = k2
  x = x
  y = y
  None = None
  Clients = {c1, c2}
  Request <- Clearing
  Frozen = {}
  Faults = {"kill", "shutdown", "issue", "commit", "snapshot", "append"}
  MaxFaults = 2
  MaxHandlers = 1
PROPERTY EveryoneAnswered
CHECK_DEADLOCK FALSE
