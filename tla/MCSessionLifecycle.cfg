CONSTANTS
  w1 = w1
  w2 = w2
  t1 = t1
  s1 = s1
  s2 = s2
  gpt = gpt
  None = None
  Webrtc = {w1, w2}
  Terminal = {t1}
  BrowserIds = {s1, s2}
  SessionIds <- MCSessionIds
  ProviderIds = {gpt}
  ShutsDown = FALSE
  MaxGeneration = 3
  MaxProviderGeneration = 1
SPECIFICATION Spec
SYMMETRY Symmetry
CHECK_DEADLOCK FALSE
INVARIANTS
  LifecycleTypeOK
  NoOverlappingRuns
  StartFindsLeaseFree
  QuiescentIsClean
