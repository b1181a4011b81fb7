SPECIFICATION Spec
CONSTANTS
  a = a
  b = b
  Request <- Single
  RoundOf <- SingleRound
  MaxRounds = 1
  MaxAttempts = 2
  FirstKinds = {"initial"}
  Worker = {w1, w2}
  Switchable = {}
  None = None
  MaxLive = 1
  Scripts <- MissedOrDone
  MaxCrashes = 1
SYMMETRY Processes
INVARIANTS
  AtMostOnePost
  DispatchHistory
CHECK_DEADLOCK FALSE
