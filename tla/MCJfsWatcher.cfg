SPECIFICATION Spec
CONSTANTS
  Callers = {u1}
  Paths = {p1}
  SendCap = 1
  ReconnectCap = 1
  MaxConns = 2
  MaxCalls = 2
INVARIANTS TypeOK ListedWatchesReplayed
PROPERTIES BrokenLinkReplaced CallsReturn CloseEndsSenders
CHECK_DEADLOCK FALSE
