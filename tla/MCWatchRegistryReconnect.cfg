SPECIFICATION Spec
CONSTANTS
  Conns = {c1, c2}
  Keys <- OneKey
  Types <- WatchOnly
  Paths <- MCPaths
  MapKey <- OneMapKey
  ApiFaults = FALSE
  MaxMsgs = 2
INVARIANTS ReplayedWatchesRegistered
CHECK_DEADLOCK FALSE
