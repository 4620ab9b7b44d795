SPECIFICATION Spec
CONSTANTS
  Conns = {c1, c2}
  Keys <- MCKeys
  Types <- AllTypes
  Paths <- MCPaths
  MapKey <- MCMapKey
  ApiFaults = TRUE
  MaxMsgs = 3
INVARIANTS TypeOK CRNeverEmpty OrphanOnlyOvertaken
PROPERTIES EventuallyCollected
CHECK_DEADLOCK FALSE
