\* Two links of one DC with one shared request of capacity: isolation of a
\* loss, and liveness of requests, local closes and shutdown.
SPECIFICATION FairSpec
CONSTANTS
  NumSlots = 2
  DCs = {"dc1"}
  SlotDC <- TwoSlots
  NumBindings = 2
  CtlSize = 1
  Scenarios <- PoolScenarios
CHECK_DEADLOCK FALSE
PROPERTIES
  FailureIsIsolated
  CloseCompletes
  WaiterIsServed
  CloseTerminates
