SPECIFICATION Spec
CONSTANTS
  g1 = g1
  g2 = g2
  Goroutines = {g1, g2}
  Arrays = {1, 2, 3, 4}
  MaxMsgs = 3
  MaxFailures = 2
SYMMETRY Symmetry
CHECK_DEADLOCK FALSE
INVARIANTS TypeOK HandsUntouched
PROPERTY KeepsPromise
