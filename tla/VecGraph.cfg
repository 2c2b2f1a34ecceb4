SPECIFICATION Spec
CONSTANTS
  Keys = {k1, k2, k3, k4}
  NoKey = NoKey
  Vectors = {1, 2, 3, 4, 5}
  Rejected = {5}
  Dist <- Plane
  MaxLevel = 1
  M = 2
  MMax0 = 2
  EfConstruction = 2
  EfSearch = 1
  FilterFactor = 1
  Queries = {4}
  Ks = {2}
INVARIANTS EdgesWithinLayers DegreeBounded EntryHighest KeysMatchLive SnapshotReadable NearestSound BeamExhaustive FilteredExhaustsSearch
CHECK_DEADLOCK FALSE
SYMMETRY KeySymmetry
