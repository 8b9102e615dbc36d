SPECIFICATION Spec
CONSTANTS
  MaxRuns = 2
  MaxSignals = 2
  MaxPolls = 2
INVARIANTS
  ReceiptSound
  ExitSound
PROPERTIES
  SignalEndsIt
  ReceiptWithdrawn
