\* The coordinator drives the supervisor: rotations, faults of every stage
\* and the ordered shutdown.
SPECIFICATION ServiceSpec
CONSTANTS
  Gens = {1, 2, 3}
  Factories = {f1, f2}
  FirstSnapshot = f1
  Bindings = {}
  SlotRepair = {FALSE}
  Faults = {"prepare", "link"}
  MaxEvents = 2
  None = None
CHECK_DEADLOCK FALSE
INVARIANTS
  AtMostTwoLive
  EveryManagerIsOwned
  RepairFactoryIsCurrent
  AppliedIsCurrent
PROPERTIES
  ShutdownCompletes
  OutageEnds
  PendingIsApplied
