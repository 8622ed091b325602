CONSTANTS
  Self = s
  Subs = {s}
  Apps = {a1}
  Concurrency = 1
  Graceful = TRUE
  Deadline = FALSE
  FixedTag = FALSE
  Heartbeat = TRUE
  Interrupted = FALSE
  MaxGen = 1
  MaxChan = 2
  MaxRun = 1
SPECIFICATION Spec
CHECK_DEADLOCK FALSE
PROPERTIES CloseReturns Resumes
