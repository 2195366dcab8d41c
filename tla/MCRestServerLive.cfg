\* Two requests that log nothing, under the fairness of threads and time.
SPECIFICATION FairSpec
CONSTANTS
  Request = {r1, r2}
  OpId = {i1, i2}
  FreshIds = TRUE
  concurrent_tasks_limit = 1
  MaxLog = 0
  None = None
PROPERTIES
  StopsWhenAbandoned
  EntriesLeave
