CONSTANTS
  w1 = w1
  w2 = w2
  c1 = c1
  c2 = c2
  s1 = s1
  Workers = {w1, w2}
  Clients = {c1, c2, s1}
  Streams = {s1}
  Zones = {1, 2}
  Keys = {"a", "b"}
  Requests <- MCRequests
  Limit <- MCLimit
  Memory = {1}
  MaxFaults = 1
SPECIFICATION MCSpec
SYMMETRY Alike
INVARIANTS SlabSound PinsExact RateKept CountsSound
CHECK_DEADLOCK FALSE
