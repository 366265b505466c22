SPECIFICATION FairSpec
CONSTANTS
  w1 = w1  w2 = w2  w3 = w3
  c1 = c1  c2 = c2  c3 = c3  c4 = c4
  NoClient = NoClient
  Workers = {w1, w2, w3}
  Clients = {c1, c2, c3, c4}
  Stalled = {}
CHECK_DEADLOCK FALSE
INVARIANTS NoneSleepsOnWork
PROPERTIES ImplementsClientQueue QueuedIsServed StopEnds
