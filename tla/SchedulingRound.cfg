\* Two vehicles, three terms: leadership may be lost and won again, and a may
\* be the only voter left.
CONSTANTS
  a = a
  b = b
  Server = {a, b}
  None = None
  Designated = None
  MayLeave = {b}
  MaxTerm = 3
  MaxLog = 2
  MaxCampaigns = 3
SPECIFICATION RoundSpec
CONSTRAINTS FewCampaigns RoundOpen EarlyDeparture
VIEW RoundView
CHECK_DEADLOCK FALSE
INVARIANTS
  RoundTypeOK
  OneProposalEach
  WillPropose
  ProposalSubmitted
