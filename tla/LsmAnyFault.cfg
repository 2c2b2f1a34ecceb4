SPECIFICATION Spec
CONSTANTS
  Keys = {k1}
  Values = {v1}
  Tombstone = Tombstone
  Missing = Missing
  Torn = Torn
  Writes = {v1, Tombstone}
  Trigger = 2
  MemtableMax = 2
  KeyBytes = 1
  ValueBytes = 1
  CrashAt <- Steps
  KillAt <- Steps
  FailAt <- AllFails
  TornWrites = TRUE
  MaxId = 7
  MaxOps = 4
  MaxCrashes = 2
  MaxFails = 2
  MaxFaults = 4
INVARIANTS ReadsLatest LevelOrder RegisteredOnDisk RefusalTakesTwoFaults
CHECK_DEADLOCK FALSE
