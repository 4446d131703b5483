SPECIFICATION MCSpec
CONSTANTS
  Spawners = {main, other}
  Cancellers = {main, telegram}
  NoOne = NoOne
  MaxGen = 4
  Restarts = TRUE
  Commands = {"open", "wipe"}
  Default <- Levels2
  Eligible = {"wipe"}
  Args = {"n"}
  NoArgs = "n"
  RuleIds = {1, 2}
  Levels = {1, 255}
  Matched = {"any"}
  Views = {"w1", "w2"}
  MaxRows = 2
  Approved = 1
  CardIds = {"c"}
  CardKeys = {"k"}
  Closing = {"approved"}
  Frames = {"f1", "f2", "f3"}
  Skew = 1
  CacheSize = 2
  SnoozeTicks = 1
  Sources = {"s1", "s2", "s3"}
  Hash <- HashOf
  Signed = {"s1"}
  Keep = 0
  Rounds = {"app", "web"}
  Quick = {"app"}
  Voices = {"a", "b"}
  PlanOf <- PlanOfRound
  Pinned = {"b"}
  Cred <- SharedCred
  ServedAs <- SameModel
  Threshold = 2
  Internal = 1
INVARIANTS
  NoLeakedProcess FinishedMeansDead CanceledStaysDead GateIsKept DecisionsAreKept InstalledIsWhole
PROPERTIES CouncilIsKept
CHECK_DEADLOCK FALSE
