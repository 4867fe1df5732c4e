-------------------------- MODULE SchedulingRound --------------------------
(***************************************************************************)
(* One round of src/raft/RaftCore.cc on top of LibRaft, in "cluster" mode: *)
(* on its raft tick a vehicle notices that it has become leader, asks the  *)
(* other members for what they know of the vehicles around, and proposes a *)
(* pass schedule when all have answered or after a deadline.  The round    *)
(* ends for a vehicle that has a schedule, from its own log or from a      *)
(* vehicle that has one.  It then watches the others drive away and takes  *)
(* them out of its raft node list, while the rest go on with the round.    *)
(*                                                                         *)
(* The library is LibRaft's, message by message, so that leadership may be *)
(* lost and won again at any moment; what the vehicle knows of it is a     *)
(* flag from the last tick.  A schedule is again just its owner.           *)
(***************************************************************************)
EXTENDS LibRaft

ASSUME RoundAssumption ==
  Designated = None /\ Cardinality(Server) > 1

VARIABLES
  isLeader,   \* the vehicles with isLeader_
  waiting,    \* those with waitingForStatus_
  responses,  \* statusResponseCount_
  deadlines,  \* how many 800 ms timers of status requests are still to fire
  proposed,   \* the vehicles with passOrderProposed_
  ordered,    \* those with hasCommittedOrder_
  frames      \* every status request and answer sent so far

statusVars == <<waiting, responses, deadlines, frames>>
appVars == <<isLeader, statusVars, proposed, ordered>>
roundVars == <<vars, appVars>>

StatusRequest(i) == [type |-> "COORD_STATUS_REQUEST", from |-> i]
StatusResponse(j, i) == [type |-> "COORD_STATUS_RESPONSE", from |-> j, to |-> i]
Frame == [type : {"COORD_STATUS_REQUEST"}, from : Server]
           \cup [type : {"COORD_STATUS_RESPONSE"}, from : Server, to : Server]

-----------------------------------------------------------------------------
(* Proposing *)

(* proposePassOrder: at most once a round, and the flag is set before raft *)
(* is asked, which refuses when the vehicle is no leader any more.         *)
(* Its early returns are not met in a first round: the collected DBs hold  *)
(* the leader itself, whom no earlier round has scheduled, so there is     *)
(* somebody to schedule and a batch at least.                              *)
\* Faulty: no passOrderProposed_.
MayProposeAgain(i) == i \in isLeader \ ordered
MayPropose(i) == i \in isLeader \ (ordered \cup proposed)
ProposePassOrder(i) ==
  IF MayPropose(i)
  THEN /\ proposed' = proposed \cup {i}
       /\ RecvEntry(i) \/ (state[i] # "Leader" /\ UNCHANGED vars)
  ELSE UNCHANGED <<proposed, vars>>

-----------------------------------------------------------------------------
(* The raft tick *)

(* sendStatusRequest, and the timer of onBecameLeader.                     *)
\* Faulty: relies on the answers.
NoDeadline(i) == deadlines
WithDeadline(i) == [deadlines EXCEPT ![i] = @ + 1]
SendStatusRequest(i) ==
  /\ waiting' = waiting \cup {i}
  /\ responses' = [responses EXCEPT ![i] = 0]
  /\ frames' = frames \cup {StatusRequest(i)}
  /\ deadlines' = WithDeadline(i)

(* onBecameLeader and onLostLeadership, after raft_periodic.               *)
BecameLeader(i) ==
  /\ i \notin isLeader
  /\ isLeader' = isLeader \cup {i}
  /\ IF i \in ordered' THEN UNCHANGED statusVars ELSE SendStatusRequest(i)

\* Faulty: goes on waiting for answers.
LostWhileWaiting(i) ==
  /\ i \in isLeader
  /\ isLeader' = isLeader \ {i}
  /\ UNCHANGED <<waiting, responses, deadlines, frames>>
LostLeadership(i) ==
  /\ i \in isLeader
  /\ isLeader' = isLeader \ {i}
  /\ waiting' = waiting \ {i}
  /\ UNCHANGED <<responses, deadlines, frames>>

(* raft_is_leader                                                          *)
\* Faulty: a candidate, too.
LeadsOrHopesTo(s) == s # "Follower"
Leads(s) == s = "Leader"
CheckLeadershipChange(i) ==
  \/ Leads(state'[i]) /\ BecameLeader(i)
  \/ ~Leads(state'[i]) /\ LostLeadership(i)
  \/ (Leads(state'[i]) <=> i \in isLeader) /\ UNCHANGED <<isLeader, statusVars>>

(* doApplyLog, for what raft_periodic applied.                             *)
Apply(i) ==
  ordered' = IF lastApplied[i] < lastApplied'[i] THEN ordered \cup {i} ELSE ordered

(* A tick on which raft_periodic has nothing to do.                        *)
PeriodicNothing(i) ==
  /\ i \in formed
  /\ lastApplied[i] = commitIdx[i]
  /\ UNCHANGED vars

ProcessRaftPeriodic(i) ==
  /\ Periodic(i) \/ PeriodicNothing(i)
  /\ Apply(i)
  /\ CheckLeadershipChange(i)
  /\ UNCHANGED proposed

-----------------------------------------------------------------------------
(* Status frames and the deadline *)

(* handleStatusRequest, of a member of the cluster.                        *)
HandleStatusRequest(j, i) ==
  /\ i # j /\ StatusRequest(i) \in frames
  /\ j \in formed
  /\ frames' = frames \cup {StatusResponse(j, i)}
  /\ UNCHANGED <<vars, isLeader, waiting, responses, deadlines, proposed, ordered>>

(* handleDbResponse: every answer counts, whichever request it answers.    *)
ExpectedResponses == Upper(1, Cardinality(Server) - 1)
HandleDbResponse(i, j) ==
  /\ StatusResponse(j, i) \in frames
  /\ i \in isLeader \cap waiting
  /\ responses' = [responses EXCEPT ![i] = @ + 1]
  /\ IF responses'[i] >= ExpectedResponses
     THEN waiting' = waiting \ {i} /\ ProposePassOrder(i)
     ELSE UNCHANGED <<waiting, proposed, vars>>
  /\ UNCHANGED <<isLeader, deadlines, ordered, frames>>

(* The timer, and collectStatusAndDecide.                                  *)
StatusDeadline(i) ==
  /\ deadlines[i] > 0
  /\ deadlines' = [deadlines EXCEPT ![i] = @ - 1]
  /\ IF i \in isLeader \ ordered
     THEN waiting' = waiting \ {i} /\ ProposePassOrder(i)
     ELSE UNCHANGED <<waiting, proposed, vars>>
  /\ UNCHANGED <<isLeader, responses, ordered, frames>>

(* handlePassOrderBroadcast, of a frame that some vehicle with an order    *)
(* sent or relayed.                                                        *)
HandlePassOrderBroadcast(i) ==
  /\ i \notin ordered /\ ordered # {}
  /\ ordered' = ordered \cup {i}
  /\ UNCHANGED <<vars, isLeader, statusVars, proposed>>

(* pollBatchExit, of a vehicle that has an order and sees another gone.    *)
(* The clusterVehicles_ it also shortens count only for ExpectedResponses, *)
(* and a vehicle with an order proposes nothing when those are met.        *)
MarkLeft(i) ==
  /\ i \in ordered
  /\ \E j \in Server : MarkInactive(i, j)
  /\ UNCHANGED appVars

(* Raft's own frames, and formCluster: the flags wait for the next tick.   *)
RaftFrame(i) ==
  /\ \/ FormCluster(i)
     \/ \E m \in msgs : \/ RecvRequestVote(i, m)
                        \/ RecvRequestVoteResponse(i, m)
                        \/ RecvAppendEntries(i, m)
                        \/ RecvAppendEntriesResponse(i, m)
  /\ UNCHANGED appVars

-----------------------------------------------------------------------------
RoundInit ==
  /\ Init
  /\ isLeader = {} /\ waiting = {}
  /\ responses = [i \in Server |-> 0]
  /\ deadlines = [i \in Server |-> 0]
  /\ proposed = {} /\ ordered = {} /\ frames = {}

RoundNext ==
  \E i \in Server :
    \/ ProcessRaftPeriodic(i)
    \/ RaftFrame(i)
    \/ \E j \in Server : HandleStatusRequest(i, j) \/ HandleDbResponse(i, j)
    \/ StatusDeadline(i)
    \/ HandlePassOrderBroadcast(i)
    \/ MarkLeft(i)

RoundSpec == RoundInit /\ [][RoundNext]_roundVars

-----------------------------------------------------------------------------
(* Correctness *)

RoundTypeOK ==
  /\ isLeader \in SUBSET Server /\ waiting \in SUBSET isLeader
  /\ responses \in [Server -> 0..ExpectedResponses]
  /\ deadlines \in [Server -> Nat]
  /\ proposed \in SUBSET Server /\ ordered \in SUBSET Server
  /\ frames \in SUBSET Frame

(* A vehicle has one schedule a round: wherever a log still holds one of   *)
(* its own, with whatever term, it is the same one, also when the vehicle  *)
(* lost its leadership and won it again.                                   *)
OwnEntries(i) ==
  UNION {{<<k, log[j][k]>> : k \in {h \in DOMAIN log[j] : log[j][h].owner = i}} :
           j \in Server}
OneProposalEach == \A i \in Server : \A e, f \in OwnEntries(i) : e = f

(* A leader without a schedule will propose one, whatever frames are lost  *)
(* and however often leadership changed: one of its timers is to fire yet. *)
WillPropose ==
  \A i \in isLeader \ (ordered \cup proposed) : deadlines[i] > 0

(* A vehicle that leads for the first time and is done proposing has an    *)
(* entry of this term in its log: one that raft may commit.                *)
LedBefore(i) == \E m \in Of("AE") : m.from = i /\ m.term < currentTerm[i]
ProposalIn(l, i, t) == [term |-> t, owner |-> i] \in {l[k] : k \in DOMAIN l}
ProposalSubmitted ==
  \A i \in isLeader \cap proposed :
    state[i] = "Leader" /\ ~LedBefore(i) => ProposalIn(log[i], i, currentTerm[i])

(* "leader collects vehicle proposals, computes crossing schedule,         *)
(* replicates via RAFT log": any leader that is done proposing and has no  *)
(* order yet has a schedule in its log that raft may commit in its term.   *)
LeaderReplicates ==
  \A i \in (isLeader \cap proposed) \ ordered :
    state[i] = "Leader" => ProposalIn(log[i], i, currentTerm[i])
=============================================================================
