SPECIFICATION Spec
CONSTANTS
  Machines = {1, 2}
  Items = {"mcp"}
  Calls <- MCCalls
  MaxTime = 2
INVARIANTS LastWriteWins
CHECK_DEADLOCK FALSE
