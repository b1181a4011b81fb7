SPECIFICATION SideBySide
CONSTANTS
  o1 = o1
  o2 = o2
  p1 = p1
  p2 = p2
  c1 = c1
  c2 = c2
  r1 = r1
  r2 = r2
  None = None
  Scope = "operation"
  Ops = {o1}
  Watched = o1
  MaxTx = 2
  MaxDrops = 1
  MaxFaults = 1
PROPERTIES ChangesAreShown WorkIsDone
CHECK_DEADLOCK FALSE
