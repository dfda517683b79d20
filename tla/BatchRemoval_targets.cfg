SPECIFICATION Spec
CONSTANTS
  Targets = {t1, t2, t3}
  Canary = t1
  Workers = {w1, w2}
  OwnerKeys = {}
  MaxAttempts = 3
  MaxReads = 1
  MaxRemovals = 2
  NextBatches = {b1}
  NoKey = NoKey
  NoTask = NoTask
CHECK_DEADLOCK FALSE
CONSTRAINT OneRetry
SYMMETRY Symmetry
INVARIANTS OneRemover CanaryFirst
PROPERTIES FactsFirst RemovalStands DeletesBounded
