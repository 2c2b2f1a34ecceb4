SPECIFICATION Spec
CONSTANTS
  Keys = {k1, k2}
  Values = {v1}
  Tombstone = Tombstone
  Missing = Missing
  Torn = Torn
  Writes = {v1, Tombstone}
  Trigger = 2
  MemtableMax = 2
  KeyBytes = 1
  ValueBytes = 1
  CrashAt <- AllButDrop
  KillAt = {}
  FailAt <- WriteFails
  TornWrites = FALSE
  MaxId = 7
  MaxOps = 5
  MaxCrashes = 2
  MaxFails = 1
  MaxFaults = 2
INVARIANTS TypeOK ReadsLatest Durability LevelOrder RegisteredDurable
PROPERTIES ImplementsDurableMap
CHECK_DEADLOCK FALSE
SYMMETRY KeySymmetry
