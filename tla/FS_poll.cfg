SPECIFICATION FairSpec
CONSTANTS
  a = a  b = b  known = known  apps = apps  i1 = i1  i2 = i2
  NoPkg = NoPkg  NoDir = NoDir  NoId = NoId
  Pkgs = {a, b}
  StaleAfter = 3
  Dirs = {known, apps}
  Known <- JustKnown
  Near = {known, apps}
  Ids = {i1, i2}
INVARIANTS FallbackAgrees
PROPERTIES  PollSuffices TopAppFollowed
