SPECIFICATION Spec
CONSTANTS
  Targets = {t1}
  Keys = {k1}
  Confirms = {c1, c2}
  Refreshes = {f1, f2}
  Workers = {w1, w2}
  NoRefresh = NoRefresh
  NoTarget = NoTarget
  NoKey = NoKey
  MaxVersion = 3
  MaxAttempts = 2
  MaxProbes = 2
SYMMETRY Symmetry
CONSTRAINTS OneKind OneRace
INVARIANTS SessionIsCurrent LastAttemptDecides AcceptedAsPreviewed
PROPERTY VerdictIsCurrent
CHECK_DEADLOCK FALSE
