\* Two rivals, four terms (Figure 8 of the Raft paper)
CONSTANTS
  a = a
  b = b
  c = c
  Server = {a, b, c}
  None = None
  Designated = None
  MayLeave = {}
  MaxTerm = 4
  MaxLog = 2
  MaxCampaigns = 4
  OddRival = a
  EvenRival = b
SPECIFICATION Spec
CONSTRAINTS ByTurns OutOfRange FewProposals
VIEW LiveView
CHECK_DEADLOCK FALSE
INVARIANTS
  LogMatching
  CommittedAgree
  NoCommittedConflict
  LeaderCompleteness
  IndicesWithinLog
PROPERTY CommittedStable
