\* A closed binding stays resident, so a quiesced manager never drains.
SPECIFICATION FairSpec
CONSTANTS
  NumSlots = 1
  DCs = {"dc1"}
  SlotDC <- OneSlot
  NumBindings = 1
  CtlSize = 1
  Scenarios <- DrainScenarios
CHECK_DEADLOCK FALSE
PROPERTIES
  QuiesceDrains
