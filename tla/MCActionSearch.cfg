SPECIFICATION Spec
CONSTANTS
  Cols = 3
  Rows = 3
INVARIANTS
  SearchSound
  SearchExact
