SPECIFICATION FairSpec
CONSTANTS
  MaxItems = 2
  MaxBytes = 4
  MaxOwned = 2
  MaxOut = 2
  CtlInput = 3
  Pipeline = 1
  Scenarios <- ConnScenarios
CHECK_DEADLOCK FALSE
INVARIANTS
  ClaimsHaveOwners
  NoLostWake
PROPERTY
  SilentPeerIsDropped
