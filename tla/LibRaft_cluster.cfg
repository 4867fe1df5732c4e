\* Three vehicles, one of which may be taken to have left while raft runs.
CONSTANTS
  a = a
  b = b
  c = c
  Server = {a, b, c}
  None = None
  Designated = None
  MayLeave = {c}
  MaxTerm = 2
  MaxLog = 1
  MaxCampaigns = 2
SPECIFICATION Spec
CONSTRAINTS FewCampaigns StayersCampaign
VIEW VotesView
SYMMETRY Symmetry
CHECK_DEADLOCK FALSE
INVARIANTS
  TypeOK
  ElectionSafety
  VoteOnce
  ElectionInv
  CommittedAgree
PROPERTY ImplementsAgreedLog
