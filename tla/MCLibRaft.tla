----------------------------- MODULE MCLibRaft -----------------------------
(* Instances of LibRaft for TLC. *)
EXTENDS LibRaft, TLC

CONSTANT MaxCampaigns   \* bound: elections started, by all vehicles together

Symmetry == Permutations(Server \ (MayLeave \cup {Designated}))
              \cup Permutations(MayLeave \ {Designated})

Campaigns == Cardinality({<<m.from, m.term>> : m \in Of("RV")})
FewCampaigns == Campaigns <= MaxCampaigns

(* The vehicles that leave are followers: the others elect.                *)
StayersCampaign == \A m \in Of("RV") : m.from \notin MayLeave

(* Messages that change nothing any more, in any future.  Terms only grow; *)
(* a refusal of its own term tells a candidate nothing; match_idx only     *)
(* grows while a term's leader leads.                                      *)
RefusedVote(m) == m.type = "RVR" /\ ~m.granted /\ m.term <= currentTerm[m.to]
SpentVote(m) ==
  /\ m.type = "RVR" /\ m.granted
  /\ \/ m.term < currentTerm[m.to]
     \/ m.term = currentTerm[m.to] /\ state[m.to] # "Candidate"
OldReply(m) ==
  /\ m.type = "AER"
  /\ \/ m.term < currentTerm[m.to]
     \/ /\ m.term = currentTerm[m.to] /\ state[m.to] = "Leader"
        /\ \/ m.curIdx < matchIdx[m.to][m.from]
           \/ m.success /\ m.curIdx = matchIdx[m.to][m.from]

(* A vote of a term that both sides have left.                             *)
PastVote(m) ==
  /\ m.type = "RVR" /\ m.granted
  /\ m.term < currentTerm[m.to] /\ m.term < currentTerm[m.from]

(* A request that will be refused, of a sender that the refusal tells      *)
(* nothing: it is in the last of the terms and, if the request was an      *)
(* AppendEntries, which a leader of that term would answer, will not lead. *)
PastRequest(m) ==
  /\ currentTerm[m.from] = MaxTerm
  /\ \/ /\ m.type = "RV"
        /\ \/ m.term < currentTerm[m.to]
           \/ m.term = currentTerm[m.to] /\ votedFor[m.to] # None
     \/ /\ m.type = "AE"
        /\ m.term < currentTerm[m.to] /\ state[m.from] = "Follower"
        /\ active[m.from] \ (MayLeave \cup {m.from}) # {}

(* FewCampaigns counts the hidden requests too.                            *)
StateView(hidden) ==
  <<memberVars, electionVars, logVars, peerVars, Campaigns, msgs \ hidden>>

(* States that differ only in such messages have the same futures, and     *)
(* agree on every property that reads none of them.  VoteOnce and          *)
(* ElectionInv read the votes that were granted: they need VotesView.      *)
LiveView ==
  StateView({m \in msgs : \/ RefusedVote(m) \/ SpentVote(m)
                          \/ OldReply(m) \/ PastRequest(m)})
VotesView ==
  StateView({m \in msgs : \/ RefusedVote(m) \/ PastVote(m)
                          \/ OldReply(m) \/ PastRequest(m)})
=============================================================================
