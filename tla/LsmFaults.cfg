SPECIFICATION Spec
CONSTANTS
  Keys = {k1}
  Values = {v1, v2}
  Tombstone = Tombstone
  Missing = Missing
  Torn = Torn
  Writes = {v1, v2}
  Trigger = 2
  MemtableMax = 2
  KeyBytes = 1
  ValueBytes = 1
  CrashAt <- AllButDrop
  KillAt = {}
  FailAt <- StrayFails
  TornWrites = TRUE
  MaxId = 9
  MaxOps = 5
  MaxCrashes = 1
  MaxFails = 2
  MaxFaults = 3
INVARIANTS Durability L0Bounded
PROPERTIES EveryCallReturns
CHECK_DEADLOCK FALSE
