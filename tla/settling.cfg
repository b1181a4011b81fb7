SPECIFICATION FairSpec
CONSTANTS
  a = a
  b = b
  Request <- Single
  RoundOf <- SingleRound
  MaxRounds = 1
  MaxAttempts = 2
  FirstKinds = {"replacement"}
  Worker = {w1}
  Switchable <- Single
  None = None
  MaxLive = 1
  Scripts <- MissedOrDone
  MaxCrashes = 1
PROPERTIES
  ReplacementSettles
  DispatchResolved
CHECK_DEADLOCK FALSE
