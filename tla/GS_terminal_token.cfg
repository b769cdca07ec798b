\* A client on a generation that a rotation retires.
SPECIFICATION Spec
CONSTANTS
  Gens = {1, 2, 3}
  Factories = {f1}
  Bindings = {b1}
  SlotRepair = {FALSE}
  Faults = {}
  MaxEvents = 2
  None = None
CHECK_DEADLOCK FALSE
INVARIANTS
  TerminalTokenIsRegistered
