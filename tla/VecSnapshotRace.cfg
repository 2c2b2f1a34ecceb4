SPECIFICATION Spec
CONSTANTS
  a = a
  b = b
  c = c
  t1 = t1
  t2 = t2
  k1 = k1
  k2 = k2
  Threads = {t1, t2}
  Keys = {k1, k2}
  Vectors = {a, b}
  Plain = Plain
  Tombstone = Tombstone
  Missing = Missing
  Dim <- OneDim
  Rejected = {}
  Uses <- Owned
  Calls = {"put_indexed", "delete", "flush", "close"}
  MemtableMax = 2
  Trigger = 9
  MaxId = 6
  MaxOps = 4
  MaxCrashes = 1
  FailAt = {}
  MaxFails = 0
INVARIANTS IndexComplete
CHECK_DEADLOCK FALSE
