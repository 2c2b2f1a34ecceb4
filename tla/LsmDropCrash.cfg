SPECIFICATION Spec
CONSTANTS
  Keys = {k1, k2}
  Values = {v1}
  Tombstone = Tombstone
  Missing = Missing
  Torn = Torn
  Writes = {v1, Tombstone}
  Trigger = 2
  MemtableMax = 2
  KeyBytes = 1
  ValueBytes = 1
  CrashAt <- Steps
  KillAt = {}
  FailAt = {}
  TornWrites = FALSE
  MaxId = 7
  MaxOps = 5
  MaxCrashes = 1
  MaxFails = 0
  MaxFaults = 1
INVARIANTS Durability
CHECK_DEADLOCK FALSE
