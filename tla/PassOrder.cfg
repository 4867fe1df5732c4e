\* Four vehicles on up to three approaches, two of them opposite ones.
CONSTANTS
  Vehicle = {1, 2, 3, 4}
  LeftTurner = 4
  Lanes = {0, 1, 2}
  Kinds <- MCKinds
  Proposals <- MCProposals
  MaxBatches = 3
  MaxPerBatch = 2
SPECIFICATION Spec
CHECK_DEADLOCK FALSE
INVARIANTS
  ScheduledOnce
  ScheduleInv
  PathsClear
  BlockersGoFirst
  PriorityFirst
  FrontsLead
  NobodyForgotten
PROPERTY Terminates
