\* An approval, and two credentials that wait for it under one key.
SPECIFICATION Spec
CONSTANTS
  c1 = c1
  c2 = c2
  c3 = c3
  p = p
  k1 = k1
  k2 = k2
  x = x
  y = y
  None = None
  Clients = {c1, c2, c3}
  Request <- Clearing
  Frozen = {}
  Faults = {"kill", "shutdown", "issue", "commit", "snapshot", "append"}
  MaxFaults = 2
  MaxHandlers = 1
INVARIANTS
  TypeOK
  StillCurrent
  CredentialsVouched
  NoFalseAlarm
  AuditFollowsLog
  GapsAreFaults
PROPERTY KeepsBook
CHECK_DEADLOCK FALSE
