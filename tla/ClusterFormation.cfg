\* Three vehicles on two lanes, both modes.
CONSTANTS
  Vehicle = {1, 2, 3}
  Lane = {1, 2}
  LaneOf <- MCLaneOf
  Ahead <- MCAhead
  Modes = {"cluster", "allVehicles"}
SPECIFICATION FairSpec
CHECK_DEADLOCK FALSE
INVARIANTS
  TypeOK
  OwnCluster
  SameMembers
PROPERTY QuorumForms
CONSTRAINT OnApproach
