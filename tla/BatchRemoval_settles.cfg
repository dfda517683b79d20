SPECIFICATION FairSpec
CONSTANTS
  Targets = {t1}
  Canary = t1
  Workers = {w1, w2}
  OwnerKeys = {k1}
  MaxAttempts = 2
  MaxReads = 1
  MaxRemovals = 1
  NextBatches = {}
  NoKey = NoKey
  NoTask = NoTask
CHECK_DEADLOCK FALSE
INVARIANTS GoneWhenRemoved
PROPERTIES RemovalSettles
