\* A remediation is stored, and the server restarted.
SPECIFICATION Spec
CONSTANTS
  Plans = {p1, p2}
  Keys = {k1, k2, k3}
  Actions = {"plan.created", "test.recorded", "issue.remediated"}
  Faults = {}
  MaxFrames = 3
  Torn = Torn
  None = None
SYMMETRY Symmetry
INVARIANTS
  RefusesOnlyDamaged
CHECK_DEADLOCK FALSE
