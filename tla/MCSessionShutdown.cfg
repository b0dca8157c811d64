CONSTANTS
  w1 = w1
  w2 = w2
  t1 = t1
  s1 = s1
  s2 = s2
  gpt = gpt
  None = None
  Webrtc = {w1, w2}
  Terminal = {}
  BrowserIds = {s1, s2}
  SessionIds <- MCSessionIds
  ProviderIds = {gpt}
  ShutsDown = TRUE
  MaxGeneration = 3
  MaxProviderGeneration = 1
SPECIFICATION Spec
CHECK_DEADLOCK FALSE
PROPERTIES
  EveryConnectionIsServed
  OnlyOwnersEndASession
