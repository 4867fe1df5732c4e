\* Two leaders commit a schedule each.
CONSTANTS
  a = a
  b = b
  c = c
  Vehicle = {a, b, c}
  Ahead <- MCAhead
  Member = {a, c}
  Heard <- AllHeard
  Fallible <- NoneFails
  Logs <- TwoSchedules
SPECIFICATION Spec
CHECK_DEADLOCK FALSE
INVARIANT TakeTurns
