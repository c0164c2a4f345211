CONSTANTS
  Servers <- MCServers
  Named <- MCNamed
  MaxCon = 2
  QueueLen = 1
  MaxLeaves = 1
  MaxFails = 1
SPECIFICATION Spec
CHECK_DEADLOCK FALSE
INVARIANTS IdsAreLinks PairedIsLinked
PROPERTIES ServerReturns ClientCollectsAll
