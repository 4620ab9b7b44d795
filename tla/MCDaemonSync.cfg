SPECIFICATION Spec
CONSTANTS
  Crs = {r1, r2}
  Paths = {p1, p2}
  MaxChanges = 1
  MaxFaults = 2
INVARIANTS TypeOK NoMissedChange
PROPERTIES CatchesUp
CHECK_DEADLOCK FALSE
