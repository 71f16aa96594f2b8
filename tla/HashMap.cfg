SPECIFICATION MapSpec
CONSTANTS
  HASH_N = 4
  Empty = Empty
  Keys = {k1, k2, k3, k4, k5}
  Values = {v1, v2}
  NoValue = NoValue
SYMMETRY Symmetry
INVARIANT ElementsReachable
PROPERTY ImplementsMap
