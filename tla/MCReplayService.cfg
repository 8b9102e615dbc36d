\* Managers may die and SIGKILL may be slow. Operations run out.
SPECIFICATION FairSpec
CONSTANTS
  c1 = c1
  c2 = c2
  Managers = {m1, m2}
  Pids = {p1, p2, p3}
  Configs = {c1, c2}
  PortOf <- TwoPorts
  Nobody = Nobody
  MaxOps = 2
  MaxForeign = 1
  MaxDeaths = 1
  MaxFaults = 1
CHECK_DEADLOCK FALSE
INVARIANTS
  ServiceSound
  OldForeignSafe
PROPERTIES
  StateOutlivesServer
  StartedIsReady
  OperationsEnd
  StopEndsServer
