SPECIFICATION Spec
CONSTANTS
  Callers = {u1}
  Paths = {p1}
  SendCap = 1
  ReconnectCap = 10
  MaxConns = 1
  MaxCalls = 1
INVARIANTS SurvivesReconnect
CHECK_DEADLOCK FALSE
