\* The default ratio: request timeout 200 ms, election timeout from 500 ms on.
CONSTANTS
  f = f
  g1 = g1
  g2 = g2
  Follower = {f, g1, g2}
  Reachable = {f}
  RequestTimeout = 2
  ElectionTimeout = 5
  FullCycle = 5
SPECIFICATION Spec
INVARIANTS
  HeardInTime
