SPECIFICATION Spec
CONSTANTS
  short = short
  long = long
  Keys = {1, 2, 3}
  Values = {short, long}
  NoValue = NoValue
  KeyLen <- KeyBytes
  ValueLen <- ValueBytes
  DATA_BLOCK_TARGET_SIZE = 23
  bloom_bits_per_key = 3
  Hash <- Hashes
  HashSpace = 256
  Writes <- SomeWrites
  memtable_max_size_bytes = 31
  l0_compaction_trigger = 2
  MaxOps = 5
  MaxDamage = 1
INVARIANTS SizeExact GetExact TablesWellFormed NeverRefused MergeExact
PROPERTIES MergeProgress
CHECK_DEADLOCK FALSE
