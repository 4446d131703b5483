SPECIFICATION Spec
CONSTANTS
  Sessions = {"s"}
  Contents = {"lesson", "memory"}
  Window = 1
  TTL = 1
  Fails = FALSE
  MaxRow = 2
  MaxProposals = 1
  MaxTime = 0
INVARIANTS LockStep
