CONSTANTS
  s1 = s1
  s2 = s2
  m1 = m1
  m2 = m2
  h1 = h1
  None = None
  Session <- OneSession
  Monitor <- TwoMonitors
  Host <- OneHost
  Key <- EveryKey
  Mortal <- MonitorMortal
  Quota <- OneAlone
  Dials <- RedialBoth
  Capacity = 1
SPECIFICATION Spec
INVARIANTS OneCloser DecidedByAnswer
CHECK_DEADLOCK FALSE
