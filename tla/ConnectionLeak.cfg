CONSTANTS
  Closers = {c1}
  Callers = {}
  Subs = {}
  MaxGen = 2
  MaxAttempts = 0
  Heartbeat = TRUE
SPECIFICATION Spec
CHECK_DEADLOCK FALSE
INVARIANT ClosedStaysClosed
