SPECIFICATION FairSpec
CONSTANTS
  a = a
  b = b
  qa = qa
  ra = ra
  qb = qb
  NoPkg = NoPkg
  NoProc = NoProc
  NoTimer = NoTimer
  NoThread = NoThread
  Pkgs = {a}
  Procs = {qa}
  PkgOf <- JustA
  Cached = {}
  Whitelist = {}
  BounceLimit = 2
  SuspectThreshold = 2
  DeepSleepOn = FALSE
  HasMap = TRUE
  Emits = {"off", "unfreeze"}
  Env = {"thaw"}
  TimerIds = {1, 2, 3, 4}
  MaxBackoffs = 1
  RingSize = 1
PROPERTIES
  BackoffEnds
