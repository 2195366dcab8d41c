\* Two requests: the second waits for the slot of the first or overtakes it.
SPECIFICATION Spec
CONSTANTS
  Request = {r1, r2}
  OpId = {i1, i2}
  FreshIds = TRUE
  concurrent_tasks_limit = 1
  MaxLog = 2
  None = None
SYMMETRY Symmetry
INVARIANTS
  TypeOK
  CountIsExact
  FinishedIsOwnResult
  CancelIsKept
  EndIsReported
  LogIsComplete
PROPERTIES
  ImplementsLifecycle
