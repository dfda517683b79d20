\* Two workers; a probe, a reclaim and, after it failed, an Owner reclaim.
SPECIFICATION Spec

CONSTANTS
  Workers = {w1, w2}
  Rounds = {}
  Checks = {c1}
  Requests = {k1}
  Grants = {g1}
  MaxAttempts = 1
  MaxGeneration = 3
  NoTask = NoTask

SYMMETRY Symmetry

INVARIANTS
  OrderFollowsAsset
  RevokedIsClosed

PROPERTY DownloadIsCurrent

\* The service may be over.
CHECK_DEADLOCK FALSE
