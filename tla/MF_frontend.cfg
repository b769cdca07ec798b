SPECIFICATION FairSpec
CONSTANTS
  Clients = {1, 2}
  MaxEncoded = 2
  MaxWrite = 3
  MaxInput = 1
  InputTotal = 2
  OutputTotal = 3
  Scenarios <- FrontendScenarios
CHECK_DEADLOCK FALSE
INVARIANTS
  
  CommitIsIrreversible

  
