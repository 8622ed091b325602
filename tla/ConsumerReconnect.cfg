CONSTANTS
  Self = s
  Subs = {s}
  Apps = {a1}
  Concurrency = 1
  Graceful = TRUE
  Deadline = FALSE
  FixedTag = TRUE
  Heartbeat = TRUE
  Interrupted = TRUE
  MaxGen = 2
  MaxChan = 2
  MaxRun = 1
SPECIFICATION Spec
CHECK_DEADLOCK FALSE
INVARIANTS TypeOK OneCallPerChannel NoLeakedChannel Drained
