\* One worker, no probe but the one of a round.
SPECIFICATION Spec

CONSTANTS
  Workers = {w1}
  Rounds = {r1}
  Checks = {}
  Requests = {}
  Grants = {}
  MaxAttempts = 1
  MaxGeneration = 2
  NoTask = NoTask

INVARIANT LaterRoundsProbe

CHECK_DEADLOCK FALSE
