SPECIFICATION Spec
CONSTANTS
  Keys = {k1, k2, k3, k4}
  NULL = NULL
  Values <- MCValues
  Hashes <- MCHashes
  INITIAL_CAPACITY = 2
  MaxCapacity = 8
SYMMETRY KeySymmetry
INVARIANTS
  TypeOK
  ProbesEnd
  IterationComplete
PROPERTIES
  DictSpec
