SPECIFICATION Spec
CONSTANTS
  Price = {2}
  Cap = 1
  Limit = 3
  MaxTurns = 1
  MaxCalls = 2
  MaxTouches = 0
  MaxRepeats = 1
  MaxNotes = 0
  MaxLost = 1
INVARIANTS ReplaysDoNotDuplicate
CHECK_DEADLOCK FALSE
