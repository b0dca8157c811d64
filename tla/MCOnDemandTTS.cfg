\* Four requests for two messages, and a cache with room for one of them.
CONSTANTS
  r1 = r1
  r2 = r2
  r3 = r3
  r4 = r4
  hello = hello
  bye = bye
  None = None
  Requests <- MCRequests
  Keys <- MCKeys
  MaxEntries = 1
SPECIFICATION Spec
CHECK_DEADLOCK FALSE
INVARIANTS
  TTSTypeOK
  LocksAreTransient
PROPERTIES
  EveryRequestEnds
