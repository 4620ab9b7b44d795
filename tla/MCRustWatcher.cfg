\* Two paths with overlapping calls and two connections; the channel fills with
\* two messages.
SPECIFICATION Spec
CONSTANTS
  Paths = {p1, p2}
  Callers = {u1, u2}
  SendCap = 2
  Workers = 3
  MaxRetries = 1
  MaxConns = 2
  MaxCalls = 3
INVARIANTS TypeOK ServerMatchesList
PROPERTIES  CallsReturn
CHECK_DEADLOCK FALSE
