\* Everything may fail.
SPECIFICATION Spec
CONSTANTS
  Plans = {p1, p2}
  Keys = {k1, k2, k3}
  Actions = {"plan.created", "test.recorded"}
  Faults = {"kill", "power", "write", "sync", "snapshot"}
  MaxFrames = 4
  Torn = Torn
  None = None
SYMMETRY Symmetry
INVARIANTS
  SnapshotNotAhead
  AckedOnDisk
CHECK_DEADLOCK FALSE
