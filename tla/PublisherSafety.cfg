CONSTANTS
  Self = p
  Subs = {p}
  Callers = {u1}
  MaxGen = 2
  MaxChan = 2
  SetupCalls = 1
SPECIFICATION Spec
CHECK_DEADLOCK FALSE
INVARIANTS TypeOK OneCallPerChannel NoLeakedChannel WakeUpPending StaleReportHarmless
PROPERTY Heals
