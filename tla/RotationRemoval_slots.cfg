\* Two slots of one removal and two requests, with takeovers and a drift on one of
\* them, through a stop and the observations after it.
SPECIFICATION Spec

CONSTANTS
  s1 = s1  s2 = s2
  p1 = p1  p2 = p2
  a = a  b = b
  w1 = w1  w2 = w2
  Slots = {s1, s2}
  Previews = {p1}
  Members = {a, b}
  Workers = {w1, w2}
  PreviewOf <- OnePreviewSlots
  MemberOf <- TwoMembers
  Churners = {a}
  NoWorker = NoWorker
  NoSlot = NoSlot
  MaxEpoch = 2
  MaxLease = 3
  MaxRejoins = 1

SYMMETRY WorkerSymmetry
CONSTRAINT SecondSlotOnce

INVARIANTS StopFences ReleasedIsVacant DispatchGuarded
PROPERTY TriggerNeverRaises DeletesOnce

\* The Owner may do nothing more.
CHECK_DEADLOCK FALSE
