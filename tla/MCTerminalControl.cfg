\* Two providers, of which one does not acknowledge pauses.
CONSTANTS
  cascade = cascade
  gemini = gemini
  ready1 = ready1
  ready2 = ready2
  Pump = Pump
  Tasks <- MCTasks
  Providers = {cascade, gemini}
  Pausable = {cascade}
  MaxIncoming = 1
  MaxOutgoing = 1
SPECIFICATION Spec
CHECK_DEADLOCK FALSE
INVARIANTS
  ControlTypeOK
  WishIsApplied
PROPERTIES
  CloseEndsRun
  RequestGetsItsTurn
