\* Clients of the public proxy: admission, the direct relay and the splice.
SPECIFICATION FairSpec
CONSTANTS
  Conns = {1, 2, 3}
  IPs = {0, 1, 2}
  MaxConnections = 2
  MaxPerIP = 2
  MaxIPs = 1
  Hard = 2
  Soft = 1
  Resume = 0
  Batch = 2
  Scenarios <- ClientScenarios
CHECK_DEADLOCK FALSE
INVARIANTS
  LimitsBalanced
  RelayIsFaithful
PROPERTIES
  RelayMoves
  
