SPECIFICATION Spec
CONSTANTS
  c1 = c1
  c2 = c2
  Clients = {c1, c2}
  Channel <- MCChannel
  LowerCase <- MCLowerCase
  VolumeMounts <- MCVolumeMounts
  HostPath <- MCHostPath
  Keys <- MCKeys
  Files <- MCFiles
  FieldLen = 8
  MaxCalls = 2
  MaxReports = 2
  MaxBreaks = 1
  MaxFaults = 1
  MaxInputs = 4
INVARIANTS TypeOK RightFile ResourceMatchesList
PROPERTIES FeedRefinement WatchTakesEffect EventArrives
CHECK_DEADLOCK FALSE
