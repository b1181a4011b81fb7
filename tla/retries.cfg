SPECIFICATION Spec
CONSTANTS
  a = a
  b = b
  Request <- Single
  RoundOf <- SingleRound
  MaxRounds = 1
  MaxAttempts = 3
  FirstKinds = {"initial"}
  Worker = {w1}
  Switchable = {}
  None = None
  MaxLive = 2
  Scripts <- MixedScripts
  MaxCrashes = 0
INVARIANTS
  TypeOK
  RetryOnlyAfterNoAnswer
PROPERTIES
  KeepsPromise
  EvidenceIsMonotone
CHECK_DEADLOCK FALSE
