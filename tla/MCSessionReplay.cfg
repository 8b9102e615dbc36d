\* A Close is answered with the stored reply of a late Begin.
SPECIFICATION Spec
CONSTANTS
  MaxEpisodes = 1
  MaxFrames = 1
  AbortWaits = 1
  MaxLate = 1
INVARIANT
  AlreadyAppliedIsApplied
