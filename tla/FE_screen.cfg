SPECIFICATION Spec
CONSTANTS
  a = a
  b = b
  qa = qa
  ra = ra
  qb = qb
  NoPkg = NoPkg
  NoProc = NoProc
  NoTimer = NoTimer
  NoThread = NoThread
  Pkgs = {a, b}
  Procs = {qa, qb}
  PkgOf <- OneEach
  Cached = {}
  Whitelist = {b}
  BounceLimit = 2
  SuspectThreshold = 1
  DeepSleepOn = FALSE
  HasMap = TRUE
  Emits = {"off", "on"}
  Env = {}
  TimerIds = {1, 2, 3, 4}
  MaxBackoffs = 1
  RingSize = 1
INVARIANTS
  
  ScreenOnDisarms
  
  
PROPERTIES
  ImplementsLifecycle
  HandlersShorten
  DelaysEndInFreeze
