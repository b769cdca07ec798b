SPECIFICATION FairSpec
CONSTANTS
  Ids = {1, 2, 3}
  Calls = {"x", "y"}
  Lim <- FewLimits
  Reserve = 1
  Scenarios <- ManagerScenarios
CHECK_DEADLOCK FALSE
INVARIANTS
  OneSessionPerBootstrap
  
  ShutdownIsComplete
PROPERTY
  SessionsEnd
