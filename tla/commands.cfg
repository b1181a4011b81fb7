SPECIFICATION SideBySide
SYMMETRY Alike
CONSTANTS
  x1 = x1
  x2 = x2
  y1 = y1
  y2 = y2
  Providers = {x1, x2}
  Workers = {u1}
  Price = {2, 3}
  Cap = 2
  Window = 1
  Pause = 1
  Pickup = 3
  MaxRounds = 1
  MaxTime = 3
  MaxRevision = 1
  MaxQuotes = 2
  MaxFaults = 1
  MaxSwitches = 1
  c1 = c1
  b1 = b1
  Carrier = Carrier
  OtherCarrier = OtherCarrier
  None = None
  d1 = d1
  notes = notes
  v1 = v1
  e1 = e1
  e2 = e2
  t1 = t1
INVARIANTS TypesOK OneAwardPerRound ConsentIsCurrent ChangesAreSafe QuotesAreSafe ExceptionIsEarned ConsoleIsTrue
PROPERTIES AwardIsFair CancelledIsFinal
CHECK_DEADLOCK FALSE
