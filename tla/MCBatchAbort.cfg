SPECIFICATION Spec
CONSTANTS
  Seeds = {0, 1, 2, 3, 4, 5}
  Count = 3
  MAX_RETRY = 3
  MaxRuns = 1
INVARIANT
  BatchRunsThrough
