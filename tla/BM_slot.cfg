\* One link: requests, responses, probes, refusals, quiesce and close.
SPECIFICATION Spec
CONSTANTS
  NumSlots = 1
  DCs = {"dc1"}
  SlotDC <- OneSlot
  NumBindings = 3
  CtlSize = 1
  Scenarios <- SlotScenarios
CHECK_DEADLOCK FALSE
INVARIANTS
  Accounting
  NoLostReadiness
  SubmittedOnceInOrder
  DrainedIsFinal
PROPERTIES
  Sticky
