SPECIFICATION Spec
CONSTANTS
  Streams = {1, 2}
  MaxLanes = 4
  Ups = {"u1", "u2"}
  Polls = {"p1", "p2"}
  Lim <- Small
  Window = 2
  Chunk = 2
  FrameMax = 2
  ItemCost = 1
  Header = 1
  Delta = 1
  CtlPerStream = 3
  CtlExtra = 0
  Scenarios <- AllScenarios
CHECK_DEADLOCK FALSE
INVARIANTS
  PendingIsRetained
  CreditConserved
  NoSleeper
PROPERTIES
  ImplementsByteStreams
  HonestPeerIsServed
