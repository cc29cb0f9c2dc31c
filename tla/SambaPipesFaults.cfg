CONSTANTS
  RequestTypes = {lock}
  MaxCalls = 3
  IOErrors = TRUE
  Finalizers = TRUE
  NoType = NoType
  NoJob = NoJob
SYMMETRY Symmetry
SPECIFICATION Spec
INVARIANTS
  OwnAnswer
  QueueCoversHandlers
CHECK_DEADLOCK FALSE
