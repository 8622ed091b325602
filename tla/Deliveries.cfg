CONSTANTS
  m1 = m1
  m2 = m2
  Msgs = {m1, m2}
  Concurrency = 1
  MaxRetries = 1
  RequeueOnError = FALSE
  Graceful = TRUE
  Deadline = TRUE
  MaxRuns = 2
  MaxChan = 2
SPECIFICATION Spec
CHECK_DEADLOCK FALSE
INVARIANTS TypeOK HeldOnce SuccessIsFinal RequeueHonoured
PROPERTY Settled
