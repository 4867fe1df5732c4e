\* Two vehicles, three terms: leadership may be lost and won again.
CONSTANTS
  a = a
  b = b
  Server = {a, b}
  None = None
  Designated = None
  MayLeave = {}
  MaxTerm = 3
  MaxLog = 2
  MaxCampaigns = 3
SPECIFICATION RoundSpec
CONSTRAINTS FewCampaigns RoundOpen
VIEW RoundView
SYMMETRY Symmetry
CHECK_DEADLOCK FALSE
INVARIANT LeaderReplicates
