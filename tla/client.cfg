CONSTANTS
  Tabs = {t1, t2}
  Timeout = 2
  NoValue = NoValue
  MaxClock = 2
  MaxCalls = 4
SPECIFICATION Spec
CHECK_DEADLOCK FALSE
INVARIANTS
  BrowserTypeOK
PROPERTIES
  SessionsFollowActivity
  VisitorKept
