\* Kills and power cuts, no failing I/O.
SPECIFICATION Spec
CONSTANTS
  Plans = {p1, p2}
  Actions = {"test.recorded"}
  Faults = {"kill", "power"}
  MaxFrames = 3
  Torn = Torn
  None = None
SYMMETRY Symmetry
INVARIANTS
  TypeOK
  RefusesOnlyDamaged
  MemoryIsFile
PROPERTY KeepsTrail
CHECK_DEADLOCK FALSE
