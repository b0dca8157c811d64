\* Two entries, each of which loses its connection at most twice.
CONSTANTS
  c1 = c1
  c2 = c2
  None = None
  Clients = {c1, c2}
  MaxGeneration = 3
  MaxTries = 2
SPECIFICATION Spec
CHECK_DEADLOCK FALSE
INVARIANTS
  ClientTypeOK
  ClosedLeavesNothing
  ConnectedIsTrue
PROPERTIES
  ReconnectsEnd
