SPECIFICATION Spec
CONSTANTS
  a = a
  b = b
  qa = qa
  ra = ra
  qb = qb
  NoPkg = NoPkg
  NoProc = NoProc
  NoTimer = NoTimer
  NoThread = NoThread
  Pkgs = {a}
  Procs = {qa}
  PkgOf <- JustA
  Cached = {}
  Whitelist = {}
  BounceLimit = 2
  SuspectThreshold = 1
  DeepSleepOn = TRUE
  HasMap = TRUE
  Emits = {"off", "on", "tdied"}
  Env = {"restart", "edit", "start", "thread"}
  TimerIds = {1, 2}
  MaxBackoffs = 1
  RingSize = 1
INVARIANTS
  DeepOnlyScreenOff
