SPECIFICATION Spec
CONSTANTS
  w1 = w1  w2 = w2  p1 = p1  p2 = p2
  delay = delay  switch = switch  limit = limit
  NoOne = NoOne  NoEdit = NoEdit
  Workers = {w1, w2}
  Savers = {w1}
  Pkgs = {p1, p2}
  Keys = {delay, limit}
  Posted = {delay}
  Seconds = {delay}
  Values <- Whole
  Defaults <- AllThousand
  Faults = {"open", "flush", "crash"}
  ByHand <- WhenDown
  
PROPERTY ImplementsKeptLists
