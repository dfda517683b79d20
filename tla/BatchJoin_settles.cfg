SPECIFICATION FairSpec
CONSTANTS
  Targets = {t1}
  Workers = {w1, w2}
  OwnerKeys = {k1}
  MaxAttempts = 2
  NoTask = NoTask
PROPERTIES JoinSettles
CHECK_DEADLOCK FALSE
