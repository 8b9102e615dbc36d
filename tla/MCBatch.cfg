SPECIFICATION Spec
CONSTANTS
  Seeds = {0, 1, 2, 3, 4, 5, 6}
  Count = 3
  MAX_RETRY = 3
  MaxRuns = 3
INVARIANTS
  FilesSound
  SummaryTrue
PROPERTY
  SavedIsKept
