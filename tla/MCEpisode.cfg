SPECIFICATION Spec
CONSTANTS
  Agents = {a1, a2}
  Stranger = Stranger
  Cols = 3
  Rows = 3
  Blocked <- GridBlocked
  Start <- GridStart
  Goal <- GridGoal
  MaxSteps = 3
  MaxEpisodes = 2
SYMMETRY Symmetry
INVARIANTS
  TypeOK
  ChainNeverRefuses
  ReceiptIsAssignment
  MaskedMovesNeverBlocked
  TerminationSound
  TerminalReportedOnce
  WithinReach
PROPERTY
  ImplementsFrameLoop
