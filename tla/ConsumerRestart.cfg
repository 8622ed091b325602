CONSTANTS
  Self = s
  Subs = {s}
  Apps = {a1, a2}
  Concurrency = 1
  Graceful = FALSE
  Deadline = TRUE
  FixedTag = TRUE
  Heartbeat = TRUE
  Interrupted = TRUE
  MaxGen = 1
  MaxChan = 2
  MaxRun = 2
SPECIFICATION Spec
SYMMETRY Users
CHECK_DEADLOCK FALSE
INVARIANTS NoTagReuse NothingLeftRegistered
PROPERTY SilentOnceStopped
