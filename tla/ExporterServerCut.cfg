CONSTANTS
  Size = 1
  MaxTicks = 0
  MaxGets = 1
  Requests = {r1}
  MaxSignals = 1
SPECIFICATION ServerSpec
INVARIANTS
  ExitsClean
CHECK_DEADLOCK FALSE
