SPECIFICATION FairSpec
CONSTANTS
  Limits <- FewLimits
  Overhead = 1
  PongWire = 1
  Scenarios <- LinkScenarios
  Budget = 2
  PayloadBudget = 2
  Resume = 3
CHECK_DEADLOCK FALSE
INVARIANTS
  OutboundFits
PROPERTIES
  ImplementsClientLink
  AcceptedIsWritten
  CloseEndsTheLink
