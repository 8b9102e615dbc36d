\* Calls fail, replies are lost, and abandoned attempts may still reach the
\* server, late and repeatedly.
SPECIFICATION LiveSpec
CONSTANTS
  MaxEpisodes = 2
  MaxFrames = 2
  AbortWaits = 2
  MaxLate = 2
INVARIANTS
  TypeOK
  PhaseAgreement
  CleanExit
  EpisodeReported
PROPERTIES
  ImplementsLedger
  ImplementsFrameLoop
  FailureKept
  KeptWithoutLate
  StopEndsSession
  CleanupEnds
