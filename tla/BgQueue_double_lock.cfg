SPECIFICATION Spec
CONSTANTS
    Jobs = {j1, j2}
    Tasks = {t1, t2}
    Permits = 2
    Limit = 2
    OneConnection = TRUE
    MaxRestarts = 0
    None = none
INVARIANT
    NoDoubleLock
