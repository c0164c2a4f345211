CONSTANTS
  ConnIds <- MCConnIds
  MAX_CONNECTIONS = 3
SPECIFICATION TableSpec
INVARIANTS TableTypeOK CountIsExact TableIsLinks BroadcastReachesAll
