SPECIFICATION FairSpec
CONSTANTS
  Killers = {k1, k2, k3}
  NoOne = NoOne
  Created = FALSE
  Slow = {k1, k2, k3}
INVARIANTS KilledIsClean
PROPERTIES ImplementsAtomicKill KillCompletes
CHECK_DEADLOCK FALSE
