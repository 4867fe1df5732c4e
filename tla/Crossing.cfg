\* c has never heard of b, which stands behind a; one schedule is committed.
CONSTANTS
  a = a
  b = b
  c = c
  Vehicle = {a, b, c}
  Ahead <- MCAhead
  Member = {a, c}
  Heard <- OneUnheard
  Fallible <- OneFails
  Logs <- OneSchedule
SPECIFICATION FairSpec
CHECK_DEADLOCK FALSE
INVARIANTS
  TakeTurns
  CountedLeft
  CrossingInv
PROPERTY EveryonePasses
CONSTRAINT Steady
