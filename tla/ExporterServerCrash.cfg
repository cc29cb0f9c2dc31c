CONSTANTS
  Size = 1
  MaxTicks = 0
  MaxGets = 1
  Requests = {r1}
  MaxSignals = 2
SPECIFICATION ServerSpec
INVARIANTS
  NeverCrashes
CHECK_DEADLOCK FALSE
