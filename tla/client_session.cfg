CONSTANTS
  Tabs = {t1}
  Timeout = 2
  NoValue = NoValue
  MaxClock = 2
  MaxCalls = 3
SPECIFICATION Spec
CHECK_DEADLOCK FALSE
PROPERTIES
  SessionStableWhileActive
