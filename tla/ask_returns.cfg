CONSTANTS
  s1 = s1
  s2 = s2
  m1 = m1
  m2 = m2
  h1 = h1
  None = None
  Session <- OneSession
  Monitor <- OneMonitor
  Host <- OneHost
  Key <- NoKey
  Mortal <- MonitorMortal
  Quota <- TwoAlone
  Dials <- DialOnceEach
  Capacity = 1
SPECIFICATION Spec
INVARIANTS TypeOK
PROPERTIES AskReturns GoneMonitorsLeave
CHECK_DEADLOCK FALSE
