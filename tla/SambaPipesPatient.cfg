CONSTANTS
  RequestTypes = {lock, process, share}
  MaxCalls = 2
  IOErrors = FALSE
  Finalizers = FALSE
  NoType = NoType
  NoJob = NoJob
SPECIFICATION PatientSpec
INVARIANTS
  FrontsLeftBehind
PROPERTIES
  EveryWorkerServed
CHECK_DEADLOCK FALSE
