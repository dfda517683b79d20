SPECIFICATION Spec
CONSTANTS
  Targets = {t1, t2}
  Workers = {w1, w2}
  OwnerKeys = {}
  MaxAttempts = 2
  NoTask = NoTask
CONSTRAINT RetriesAlone
SYMMETRY Symmetry
INVARIANTS FailedNeverJoins UncertainIsReconciled OneMutator ServingIsJoined
PROPERTIES SettledStays PostsOnce
CHECK_DEADLOCK FALSE
