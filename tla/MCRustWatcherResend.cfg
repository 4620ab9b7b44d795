SPECIFICATION Spec
CONSTANTS
  Paths = {p1}
  Callers = {u1, u2}
  SendCap = 2
  Workers = 3
  MaxRetries = 1
  MaxConns = 1
  MaxCalls = 1
PROPERTIES ReplayCompletes
CHECK_DEADLOCK FALSE
