SPECIFICATION Spec
CONSTANTS
  Spawners = {main}
  Cancellers = {main, telegram}
  NoOne = NoOne
  MaxGen = 2
  Restarts = FALSE
INVARIANTS RunningRowHasSession
CHECK_DEADLOCK FALSE
