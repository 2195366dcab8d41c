\* The documented meaning of the -c option.
SPECIFICATION Spec
CONSTANTS
  Request = {r1, r2}
  OpId = {i1, i2}
  FreshIds = TRUE
  concurrent_tasks_limit = 1
  MaxLog = 0
  None = None
INVARIANT LimitHolds
