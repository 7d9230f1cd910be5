\* Everything may fail.
SPECIFICATION Spec
CONSTANTS
  Plans = {p1, p2}
  Actions = {"test.recorded"}
  Faults = {"kill", "power", "write", "sync"}
  MaxFrames = 3
  Torn = Torn
  None = None
SYMMETRY Symmetry
INVARIANTS
  MemoryLinked
  SealHasCredential
  ReturnedOnDisk
CHECK_DEADLOCK FALSE
