SPECIFICATION Spec
CONSTANTS
  Reused = TRUE
  Remote = FALSE
  Tmux = FALSE
  Crashes = FALSE
INVARIANTS NoAgentOfCanceledTask
CHECK_DEADLOCK FALSE
