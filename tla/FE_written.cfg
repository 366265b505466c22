SPECIFICATION Spec
CONSTANTS
  a = a
  b = b
  qa = qa
  ra = ra
  qb = qb
  NoPkg = NoPkg
  NoProc = NoProc
  NoTimer = NoTimer
  NoThread = NoThread
  Pkgs = {a}
  Procs = {qa, ra}
  PkgOf <- BothOfA
  Cached = {}
  Whitelist = {}
  BounceLimit = 2
  SuspectThreshold = 1
  DeepSleepOn = FALSE
  HasMap = TRUE
  Emits = {"fg", "bg", "unfreeze"}
  Env = {"thaw", "migrate"}
  TimerIds = {1, 2, 3}
  MaxBackoffs = 1
  RingSize = 1
INVARIANTS
  BounceOnlyFrozen

  
