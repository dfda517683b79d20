SPECIFICATION Spec
CONSTANTS
  s1 = s1  s2 = s2
  p1 = p1  p2 = p2
  a = a  b = b
  w1 = w1  w2 = w2
  Slots = {s1, s2}
  Previews = {p1, p2}
  Members = {a}
  Workers = {w1, w2}
  PreviewOf <- TwoPreviewSlots
  MemberOf <- SameMember
  Churners = {}
  NoWorker = NoWorker
  NoSlot = NoSlot
  MaxEpoch = 1
  MaxLease = 2
  MaxRejoins = 0
SYMMETRY WorkerSymmetry
INVARIANT OneObligationPerMember
CHECK_DEADLOCK FALSE
