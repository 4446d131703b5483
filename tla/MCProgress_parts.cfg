SPECIFICATION MCSpec
CONSTANTS
  Spawners = {"main", "other"}
  Cancellers = {}
  NoOne = "none"
  MaxGen = 3
  Restarts = FALSE
  Reused = FALSE
  Telegram = TRUE
  Tmux = FALSE
  Crashes = TRUE
  Polled = {"j1", "j2"}
  Tasks = {"t1", "t2"}
  Permits = 2
  Limit = 2
  OneConnection = FALSE
  MaxRestarts = 1
  None = none
  Events = {e1, e2}
  Channels = {"mobile", "telegram"}
  MaxAttempts = 2
  MaxInterrupts = 1
  Panes = {"a", "b"}
  MaxDetached = 2
  Settles = {"s1", "s2"}
  DbFails = TRUE
  Relaunches = TRUE
  Watched = {"a"}
  Debounce = 3
  Routing = {"x", "y"}
  FailLimit = 2
  CooldownTicks = 3
  ProbeTimeout = 1
  MaxDelay = 1
  NoThread = "none"
  MaxJobs = 4
  Cap = 2
  MaxUploads = 2
  RestAfter = 2
INVARIANTS
  DispatchedIsComplete CallsAreCounted NothingIsLost QueueIsAccounted RunningRowHasSession
PROPERTIES
  EventIsSettled CanceledLaunchIsCleaned PendingIsTaken WindowsAreKept PromptsAreHandled
  SnoozeEnds RunEndsOnRecord BreakerIsKept TracesAreSettled
CHECK_DEADLOCK FALSE
