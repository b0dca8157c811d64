\* Two chunks in a recording, and two presses that wait for the event loop.
CONSTANTS
  MaxChunks = 2
  MaxPending = 2
SPECIFICATION Spec
CHECK_DEADLOCK FALSE
INVARIANTS
  DictationTypeOK
  DeliveredIsComplete
  ClipboardPreserved
  RecordingReleased
PROPERTIES
  StopsWhenAsked
