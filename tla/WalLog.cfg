SPECIFICATION Spec
CONSTANTS
  MAX_KEY_LEN = 1
  MAX_VALUE_LEN = 4
  KeyLens <- KeyLengths
  ValueLens <- ValueLengths
  ZeroFill = TRUE
  MaxOps = 3
  MaxCrashes = 2
  MaxFails = 1
INVARIANTS TypeOK ReplayExact RefusedOnlyIfDamaged AckedReplayed
CHECK_DEADLOCK FALSE
