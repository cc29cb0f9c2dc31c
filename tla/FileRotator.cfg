CONSTANTS
  Keep = 4
  MaxSize = 1
  MaxMessages = 9
  MaxFaults = 1
  MaxRestarts = 1
SPECIFICATION Spec
INVARIANTS
  Chronological
  OnlyOldestLost
  FilesBounded
  Retention
PROPERTIES
  WedgedForGood
  IsRotatedLog
CHECK_DEADLOCK FALSE
