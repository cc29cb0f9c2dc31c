CONSTANTS
  RequestTypes = {lock, share}
  MaxCalls = 1
  IOErrors = FALSE
  Finalizers = FALSE
  NoType = NoType
  NoJob = NoJob
SYMMETRY Symmetry
SPECIFICATION Spec
INVARIANTS
  NilErrorMeansAllTables
CHECK_DEADLOCK FALSE
