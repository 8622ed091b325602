CONSTANTS
  Closers = {c1}
  Callers = {u1}
  Subs = {s1}
  MaxGen = 3
  MaxAttempts = 2
  Heartbeat = TRUE
SPECIFICATION Spec
CHECK_DEADLOCK FALSE
INVARIANTS TypeOK CallbackOrder NoSendOnClosedChannel
PROPERTIES OneLiveConnection KeepsPromise
