SPECIFICATION Spec
CONSTANTS
  h1 = h1
  h2 = h2
  Handlers = {h1, h2}
  MaxRetries = 2
  Bases <- MCBases
  Headers <- MCHeaders
  ConfirmMode = TRUE
  RequeueOnError = FALSE
  MaxCopies = 8
  MaxFaults = 1
  MaxJoined = 1
CHECK_DEADLOCK FALSE
INVARIANTS TypeOK AtLeastOnce DoublesOnlyByFault RunsBounded HeldLongEnough
PROPERTY Settles
