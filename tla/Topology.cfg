CONSTANTS
  Configs <- Usual
  MaxGen = 2
  MaxNames = 3
  MaxMeddling = 1
SPECIFICATION Spec
CHECK_DEADLOCK FALSE
INVARIANTS TypeOK NoStrayQueue NothingLeftOpen RestoredInTwoRounds
