CONSTANTS
  SmartScrapes = {c1, c2}
  NDevices = 2
  Interval = 1
  Free = Free
SPECIFICATION SmartSpec
INVARIANTS
  ScsiIsScraped
CHECK_DEADLOCK FALSE
