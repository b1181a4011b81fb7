SPECIFICATION Spec
CONSTANTS
  a = a
  b = b
  Request <- Pair
  RoundOf <- PairRound
  MaxRounds = 1
  MaxAttempts = 1
  FirstKinds = {"initial"}
  Worker = {w1, w2}
  Switchable <- Pair
  None = None
  MaxLive = 1
  Scripts <- AlwaysBusy
  MaxCrashes = 0
SYMMETRY Twins
INVARIANTS
  LineLimit
CHECK_DEADLOCK FALSE
