\* Four requests for two messages: is one message ever made twice at once?
CONSTANTS
  r1 = r1
  r2 = r2
  r3 = r3
  r4 = r4
  hello = hello
  bye = bye
  None = None
  Requests <- MCRequests
  Keys <- MCKeys
  MaxEntries = 1
SPECIFICATION Spec
CHECK_DEADLOCK FALSE
INVARIANTS
  OneSynthesisPerKey
