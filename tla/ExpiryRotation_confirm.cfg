SPECIFICATION Spec
CONSTANTS
  Members = {m1}
  Candidates = {c1}
  Previews = {p1, p2}
  Keys = {k1, k2}
  None = None
  Requests = {r1, r2}
  MaxChanges = 1
SYMMETRY Symmetry
INVARIANTS TypeOK AnswersStand EpochsCoverFacts
PROPERTIES AuthorizedAsConfirmed
CHECK_DEADLOCK FALSE
