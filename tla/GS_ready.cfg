\* One client bound to generations that are rotated, lost, repaired, drained
\* and closed, by any caller in any order.
SPECIFICATION Spec
CONSTANTS
  Gens = {1, 2, 3}
  Factories = {f1}
  Bindings = {b1}
  SlotRepair = {TRUE, FALSE}
  Faults = {"link", "exhaust"}
  MaxEvents = 2
  None = None
CHECK_DEADLOCK FALSE
INVARIANTS
  QueuedTokenIsSignalled
