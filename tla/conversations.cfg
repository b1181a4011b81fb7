SPECIFICATION SideBySide
CONSTANTS
  Contacts = {c1}
  Providers = {p1}
  Leg = {r1}
  p1 = p1
  r1 = r1
  r2 = r2
  t1 = t1
  t2 = t2
  Nobody = Nobody
  Several = Several
  NoLeg = NoLeg
  Lines = 2
  Outbound = FALSE
  MaxDeliveries = 2
  MaxEdits = 2
  MaxFaults = 0
INVARIANTS TypesOK ScopeIsTheRow AcceptedIsRecorded NoStaleTools TransferIsSafe
PROPERTIES BoundOnce TransferStaysProtected
CHECK_DEADLOCK FALSE
