SPECIFICATION Spec
CONSTANTS
  Requests = {r1, r2}
  NoRequest = NoRequest
  MaxEpoch = 2
  MaxGeneration = 2
CONSTRAINT UnderWay
SYMMETRY Symmetry
INVARIANTS PublicationComplete
PROPERTIES EffectsOnce EffectsUnderAuthority
CHECK_DEADLOCK FALSE
