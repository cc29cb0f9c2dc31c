CONSTANTS
  RequestTypes = {lock, share}
  MaxCalls = 2
  IOErrors = FALSE
  Finalizers = FALSE
  NoType = NoType
  NoJob = NoJob
SPECIFICATION FairSpec
INVARIANTS
  OneAtATime
  LossNeedsTimeout
  PublishedForAReason
PROPERTIES
  WedgeIsPermanent
  EveryCallReturns
CHECK_DEADLOCK FALSE
