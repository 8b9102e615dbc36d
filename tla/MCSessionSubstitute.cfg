\* A late attempt is applied after its command was replaced.
SPECIFICATION Spec
CONSTANTS
  MaxEpisodes = 1
  MaxFrames = 1
  AbortWaits = 1
  MaxLate = 1
INVARIANT
  NoSubstitute
