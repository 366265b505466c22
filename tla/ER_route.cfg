SPECIFICATION Spec
CONSTANTS
  pid1 = pid1  pid2 = pid2  a = a  b = b
  u1 = u1  u2 = u2  u3 = u3  sys = sys
  NoUid = NoUid  NoPid = NoPid  NoPkg = NoPkg
  Pids = {pid1}
  Pkgs = {a, b}
  AppUids = {u1, u2, u3}
  SysUid = sys
  SharedPkgs = {b}
  SharedUid = sys
  PrefixOf <- Digits
  Emits = {"fg", "bg", "died", "sys", "screen"}
  Sources = {"list"}
  ChangesAtStart = FALSE
  RingSize = 2
INVARIANTS IndexesAgree CachedIsLive  
SYMMETRY Alike
