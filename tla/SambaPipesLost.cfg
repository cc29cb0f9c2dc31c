CONSTANTS
  RequestTypes = {lock, share}
  MaxCalls = 2
  IOErrors = FALSE
  Finalizers = FALSE
  NoType = NoType
  NoJob = NoJob
SYMMETRY Symmetry
SPECIFICATION Spec
INVARIANTS
  NoRequestLost
CHECK_DEADLOCK FALSE
