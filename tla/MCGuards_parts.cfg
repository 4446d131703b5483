SPECIFICATION MCSpec
CONSTANTS
  Tasks = {"a", "b", "c"}
  BlockEdges <- ChainBlock
  ContinueEdges <- ChainContinue
  TopoIndex <- ChainTopo
  Main = "main"
  Remote = {"remote"}
  Callers = {t1, t2, t3}
  Mounts = {"a", "b"}
  MaxVersion = 2
  Holders = {"t1", "t2"}
  Keys = {"k1", "k2"}
  TTLs = {1, 2}
  MaxTime = 3
  Sessions = {"s1", "s2"}
  Contents = {"x"}
  Window = 0
  TTL = 0
  Fails = TRUE
  MaxRow = 1
  MaxProposals = 2
  MaxHour = 1
  Tokens = {"p", "q", "r"}
  Devices = {"d1", "d2"}
  Short <- SameShort
  MaxSessions = 2
  Life = 2
  ResendGrace = 1
  InflightGrace = 1
  DoneGrace = 0
  MaxSecret = 2
  Windows = {"w1", "w2"}
  Variants = {"a", "b"}
  Hunks = {"a1", "b1"}
  Of <- HunkOf
  Overlaps <- SameLines
  MayFall = {"b"}
  Bases = {"commit"}
  MaxRev = 3
  MaxHead = 1
  Events = {"n1", "r1"}
  Urgent = {"n1"}
  QueueCap = 1
  MaxVoices = 2
  Senders = {"main", "bridge"}
  PhoneFirst = {"bridge"}
  Items = {"approval", "layout"}
  Tells <- TellsOf
  Viewers = {"w1"}
  RingCap = 2
  MaxSeq = 3
  MaxResets = 1
  Auditors = {"c1", "c2"}
  Ids = {1, 2, 3}
  MaxAgeDays = 1
  MaxEvents = 1
  MaxFiles = 2
  MaxDay = 3
  Machines = {1, 2}
  Prefs = {"mcp"}
  Calls <- TwoAndOne
  MaxSecond = 2
INVARIANTS
  OneInside SoundIsAccounted QuietViewersAreCurrent GrantIsExclusive ManifestIsEvidence
  FreshMatchesRelay PairingIsKept AppliedIsReviewed ProposalsAreKept LaunchGate
PROPERTIES
  LeaseIsItsMounts LiveWorkUntouched
CHECK_DEADLOCK FALSE
