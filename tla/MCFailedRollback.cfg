\* One session, two providers, two switches that may each be rolled back.
CONSTANTS
  sid = sid
  gpt = gpt
  gemini = gemini
  None = None
  SessionIds <- MCSessionIds
  ProviderIds <- MCProviderIds
  MaxGeneration = 1
  MaxProviderGeneration = 5
  CloseMayRaise = {"rollback"}
SPECIFICATION Spec
CHECK_DEADLOCK FALSE
PROPERTIES
  FailedRollbackFailsSession
