\* Two turns and one delegation of the provider.
CONSTANTS
  MaxTurn = 2
  MaxDelegation = 1
  Texts = {hello}
  NoText = NoText
  None = None
  MaxDeferred = 1
  MaxTombstones = 1
  WritesOverlap = FALSE
SPECIFICATION Spec
CHECK_DEADLOCK FALSE
INVARIANTS
  QuicksilverTypeOK
  PendingBlocksSwitch
  AnswerIsHeard
  TurnsDoNotShareRequests
PROPERTIES
  ImplementsLedger
  AnswerGetsOut
  CloseReleasesConnection
