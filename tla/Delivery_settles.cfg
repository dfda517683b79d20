\* Two workers, two attempts of each task; a scheduled probe, the reclaim it queues.
SPECIFICATION FairSpec

CONSTANTS
  Workers = {w1, w2}
  Rounds = {r1}
  Checks = {}
  Requests = {}
  Grants = {}
  MaxAttempts = 2
  MaxGeneration = 2
  NoTask = NoTask

PROPERTY
  DeliverySettles

\* The service may be over.
CHECK_DEADLOCK FALSE
