SPECIFICATION FairSpec
CONSTANTS
  Configs <- AllConfigs
  MaxPillars = 0
  MAX_RETRY = 2
INVARIANTS
  MapSound
  AcceptedByClient
PROPERTIES
  RoomyMapsReachable
  GenerationEnds
