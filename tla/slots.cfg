SPECIFICATION FairSpec
CONSTANTS
  a = a
  b = b
  Request <- Pair
  RoundOf <- TwoRounds
  MaxRounds = 2
  MaxAttempts = 1
  FirstKinds = {"initial"}
  Worker = {w1}
  Switchable = {}
  None = None
  MaxLive = 1
  Scripts <- AlwaysBusy
  MaxCrashes = 0
PROPERTIES
  QueuedJobServed
CHECK_DEADLOCK FALSE
