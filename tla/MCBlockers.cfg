SPECIFICATION FairSpec
CONSTANTS
  k1 = k1
  k2 = k2
  Keys = {k1, k2}
  Ids = {1, 2, 3, 4, 5, 6}
  Shim <- MCShim
  Workers = {1, 2}
  Does <- MCDoes
  MaxCalls = 2
  MaxCrashes = 1
INVARIANTS TypeOK ClearedIsListedOnlyIfRaced
PROPERTIES RestatedStays  
CHECK_DEADLOCK FALSE
