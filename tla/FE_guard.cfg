SPECIFICATION FairSpec
CONSTANTS
  a = a
  b = b
  qa = qa
  ra = ra
  qb = qb
  NoPkg = NoPkg
  NoProc = NoProc
  NoTimer = NoTimer
  NoThread = NoThread
  Pkgs = {a, b}
  Procs = {qa, qb}
  PkgOf <- OneEach
  Cached = {}
  Whitelist = {}
  BounceLimit = 2
  SuspectThreshold = 1
  DeepSleepOn = FALSE
  HasMap = TRUE
  Emits = {"died"}
  Env = {"reenable", "exit"}
  TimerIds = {1, 2}
  MaxBackoffs = 1
  RingSize = 1
INVARIANTS
  TimerOwned
PROPERTIES
  FreezerKeptOff
  HandlersEnd
