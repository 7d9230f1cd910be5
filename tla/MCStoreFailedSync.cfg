\* A failing fsync, and no crash.
SPECIFICATION Spec
CONSTANTS
  Plans = {p1, p2}
  Keys = {k1, k2, k3}
  Actions = {"plan.created", "test.recorded"}
  Faults = {"sync"}
  MaxFrames = 4
  Torn = Torn
  None = None
SYMMETRY Symmetry
INVARIANTS
  KeyOnce
CHECK_DEADLOCK FALSE
