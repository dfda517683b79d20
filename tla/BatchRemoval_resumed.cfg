SPECIFICATION Spec
CONSTANTS
  Targets = {t1}
  Canary = t1
  Workers = {w1, w2}
  OwnerKeys = {k1}
  MaxAttempts = 3
  MaxReads = 2
  MaxRemovals = 2
  NextBatches = {}
  NoKey = NoKey
  NoTask = NoTask
CHECK_DEADLOCK FALSE
PROPERTIES FactsFirst
