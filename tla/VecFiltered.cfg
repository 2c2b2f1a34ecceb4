SPECIFICATION Spec
CONSTANTS
  Keys = {k1, k2, k3}
  NoKey = NoKey
  Vectors = {1, 2, 3, 4, 5}
  Rejected = {5}
  Dist <- Plane
  MaxLevel = 1
  M = 2
  MMax0 = 4
  EfConstruction = 4
  EfSearch = 4
  FilterFactor = 10
  Queries = {4}
  Ks = {3}
INVARIANTS FilteredComplete
CHECK_DEADLOCK FALSE
SYMMETRY KeySymmetry
