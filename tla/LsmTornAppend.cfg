SPECIFICATION Spec
CONSTANTS
  Keys = {k1, k2}
  Values = {v1}
  Tombstone = Tombstone
  Missing = Missing
  Torn = Torn
  Writes = {v1, Tombstone}
  Trigger = 2
  MemtableMax = 2
  KeyBytes = 1
  ValueBytes = 1
  CrashAt <- AllButDrop
  KillAt = {}
  FailAt = {}
  TornWrites = TRUE
  MaxId = 7
  MaxOps = 3
  MaxCrashes = 2
  MaxFails = 0
  MaxFaults = 2
INVARIANTS Durability
CHECK_DEADLOCK FALSE
