\* Kills, power cuts and failing snapshots, no failing log writes.
SPECIFICATION Spec
CONSTANTS
  Plans = {p1, p2}
  Keys = {k1, k2, k3}
  Actions = {"plan.created", "test.recorded"}
  Faults = {"kill", "power", "snapshot"}
  MaxFrames = 4
  Torn = Torn
  None = None
INVARIANTS
  TypeOK
  RefusesOnlyDamaged
  MemoryIsReplay
  KeyOnce
PROPERTY KeepsJournal
CHECK_DEADLOCK FALSE
