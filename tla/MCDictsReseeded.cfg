CONSTANTS
  N1 = N1
  Values = {N1}
  None = None
  k1 = k1
  k2 = k2
  DictKeys = {k1, k2}
  Seeds = {1, 2}
  InitialSeed = 1
  hash_string <- MCHash
  InitialCapacity = 2
  MaxCapacity = 4
  Reseeds = TRUE
SPECIFICATION DictSpec
INVARIANT KeysAreFound
CHECK_DEADLOCK FALSE
