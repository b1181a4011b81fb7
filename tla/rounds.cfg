SPECIFICATION Spec
CONSTANTS
  a = a
  b = b
  Request <- Pair
  RoundOf <- TwoRounds
  MaxRounds = 2
  MaxAttempts = 1
  FirstKinds = {"initial"}
  Worker = {w1}
  Switchable <- Single
  None = None
  MaxLive = 1
  Scripts <- DoneOrBusy
  MaxCrashes = 0
INVARIANTS
  ActiveRoundInScope
  ClosedRoundIsQuiet
  BookingHasWinner
PROPERTIES
  ClosedRoundIsFinal
CHECK_DEADLOCK FALSE
