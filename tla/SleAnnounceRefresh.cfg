CONSTANTS
  SleTask = "sle"
  Publishers <- MCSleOnly
  PmTasks = {}
  MaxRefreshes = 1
  MaxConnects = 0
SPECIFICATION Spec
CHECK_DEADLOCK FALSE
PROPERTIES AlwaysOnAirAgain
