CONSTANTS
  Tabs = {t1, t2}
  COOKIE_AGE = 6
  TIMEOUT_BUFFER = 3
  NOTIFY_UNDER = 1
  Lag = 1
  None = None
SPECIFICATION Spec
 
PROPERTY IdleTabsClose
