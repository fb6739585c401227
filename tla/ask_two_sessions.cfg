CONSTANTS
  s1 = s1
  s2 = s2
  m1 = m1
  m2 = m2
  h1 = h1
  None = None
  Session <- TwoSessions
  Monitor <- NoMonitor
  Host <- OneHost
  Key <- EveryKey
  Mortal <- NoneMortal
  Quota <- OneEach
  Dials <- SessionsDial
  Capacity = 1
SPECIFICATION Spec
INVARIANTS AllowedOnlyByAnswer
CHECK_DEADLOCK FALSE
