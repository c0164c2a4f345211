CONSTANTS
  SleTask = "sle"
  Publishers <- MCSleAndMain
  PmTasks <- MCPm
  MaxRefreshes = 2
  MaxConnects = 1
SPECIFICATION Spec
CHECK_DEADLOCK FALSE
INVARIANTS StartedIsOnAir AirHasPayload
PROPERTIES FirstAnnouncement
