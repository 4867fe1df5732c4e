\* "allVehicles" mode: vehicle a has the lowest id and leads term 1 as soon
\* as it forms the cluster, while another vehicle may be elected in term 1.
CONSTANTS
  a = a
  b = b
  c = c
  Server = {a, b, c}
  None = None
  Designated = a
  MayLeave = {}
  MaxTerm = 2
  MaxLog = 1
  MaxCampaigns = 2
SPECIFICATION Spec
CONSTRAINT FewCampaigns
VIEW LiveView
SYMMETRY Symmetry
CHECK_DEADLOCK FALSE
INVARIANTS
  CommittedAgree
