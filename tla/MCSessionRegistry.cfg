\* Two sessions, three incarnations between them, two switch steps each.
CONSTANTS
  a = a
  b = b
  gpt = gpt
  gemini = gemini
  None = None
  SessionIds <- MCSessionIds
  ProviderIds <- MCProviderIds
  MaxGeneration = 3
  MaxProviderGeneration = 2
SPECIFICATION RegistrySpec
SYMMETRY Symmetry
INVARIANTS
  RegistryTypeOK
  LeaseHeldByLiveSession
PROPERTIES
  TerminalIsFinal
  SwitchIsFenced
  ImplementsAudioLease
