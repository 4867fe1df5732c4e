\* An election timeout just above five request timeouts and one tick.
CONSTANTS
  f = f
  g1 = g1
  g2 = g2
  Follower = {f, g1, g2}
  Reachable = {f}
  RequestTimeout = 2
  ElectionTimeout = 12
  FullCycle = 5
SPECIFICATION Spec
INVARIANTS
  HeardInTime
  LeaderUndisturbed
  HeartbeatInv
