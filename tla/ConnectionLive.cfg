CONSTANTS
  Closers = {c1, c2}
  Callers = {u1}
  Subs = {}
  MaxGen = 2
  MaxAttempts = 0
  Heartbeat = TRUE
SPECIFICATION Spec
CHECK_DEADLOCK FALSE
PROPERTIES Recovers CloseReturns
