-------------------------- MODULE ClusterFormation --------------------------
(***************************************************************************)
(* How the vehicles at the junction come to be one raft cluster:           *)
(* src/raft/RaftDiscovery.cc, from the first invite to formCluster.  In    *)
(* "cluster" mode the vehicle at the front of each lane invites the other  *)
(* fronts, in "allVehicles" mode everybody invites everybody.  Whoever has *)
(* heard enough of them fixes the member set, forms the cluster and sends  *)
(* the set to the others, again and again until it knows a leader.         *)
(*                                                                         *)
(* Frames are broadcast and may be lost, late or repeated: invites and     *)
(* forms hold all that were ever sent, and a step may hear any of them or  *)
(* none.  The raft cluster itself is LibRaft's subject; here it counts     *)
(* only that there is no leader without a majority of the members.         *)
(***************************************************************************)
EXTENDS Naturals, FiniteSets

CONSTANTS
  Vehicle,    \* the vehicle ids, numbers
  Lane,       \* the approach edges
  LaneOf,     \* LaneOf[v]: the approach v comes from
  Ahead,      \* Ahead[v]: the vehicles in front of v on its lane
  Modes       \* the values of clusterMode to be considered

ASSUME FormationAssumption ==
  /\ Vehicle \subseteq Nat /\ IsFiniteSet(Vehicle) /\ IsFiniteSet(Lane)
  /\ LaneOf \in [Vehicle -> Lane]
  /\ Ahead \in [Vehicle -> SUBSET Vehicle]
  /\ Modes \subseteq {"cluster", "allVehicles"}

\* The vehicles of a lane stand one behind the other.
ASSUME QueueAssumption ==
  \A u, v \in Vehicle :
    /\ u \in Ahead[v] => LaneOf[u] = LaneOf[v] /\ v \notin Ahead[u]
    /\ u # v /\ LaneOf[u] = LaneOf[v] => u \in Ahead[v] \/ v \in Ahead[u]

VARIABLES
  mode,        \* clusterMode_, the same for all
  stopped,     \* the vehicles with hasStoppedAtIntersection_
  resumed,     \* those set in motion: timeLeftIntersection_ > 0
  passed,      \* those with hasPassedIntersection_
  leaders,     \* those with isLaneLeader_, which is as old as their last tick
  looping,     \* those whose formation loop (200 ms) is running
  collected,   \* collectedLaneLeaders_, or collectedAllVehicles_ (see mode)
  members,     \* clusterVehicles_ of those that have formed, else {}
  retrying,    \* those that repeat the form broadcast
  invites,     \* the senders of CLUSTER_JOIN_INVITE frames
  forms,       \* the member sets sent in CLUSTER_FORM_BROADCAST frames
  misled       \* history: those ever taken for the front with somebody ahead

placeVars == <<mode, stopped, resumed, passed>>
flagVars == <<leaders, misled>>
formVars == <<members, retrying, forms>>
vars == <<placeVars, flagVars, looping, collected, formVars, invites>>

-----------------------------------------------------------------------------
Started(v) == members[v] # {}
Idle(v) == ~Started(v) /\ v \notin passed

(* Whoever stood in front of v has been set in motion, or is gone.         *)
Gone == resumed \cup passed
InFront(v) == Ahead[v] \subseteq Gone

(* isLaneLeaderByTraci, and the flag set to its answer.  SUMO looks 200 m  *)
(* ahead along the route, and without TraCI or after an exception the      *)
(* answer is yes: a vehicle further behind, or one that TraCI fails, is    *)
(* taken for the front with others before it.  No is answered to a front   *)
(* only when it sees one that moves off beyond the stop line.              *)
SetLaneLeader(v, front) ==
  /\ front \/ ~InFront(v) \/ Gone # {}
  /\ leaders' = IF front THEN leaders \cup {v} ELSE leaders \ {v}
  /\ misled' = IF front /\ ~InFront(v) THEN misled \cup {v} ELSE misled

(* Only those with the flag invite in cluster mode.                        *)
\* Faulty: whoever is stopped invites.
AnyoneInvites(v, flagged) == TRUE
MayInvite(v, flagged) == mode = "allVehicles" \/ v \in flagged

(* Storing an invite: the last one of each lane counts in cluster mode.    *)
\* Faulty: keeps the earlier ones of the lane.
StoreBeside(known, u) == known \cup {u}
Store(known, u) ==
  IF mode = "allVehicles" THEN known \cup {u}
  ELSE {x \in known : LaneOf[x] # LaneOf[u]} \cup {u}

(* All lanes are represented, or all vehicles have announced.              *)
Enough(known) ==
  IF mode = "allVehicles" THEN Cardinality(known) >= Cardinality(Vehicle)
  ELSE Cardinality(known) >= Cardinality(Lane)

(* tryFormClusterFromCollected, with formCluster and the first broadcast.  *)
TryForm(v, known) ==
  IF Enough(known)
  THEN /\ members' = [members EXCEPT ![v] = known]
       /\ forms' = forms \cup {known}
       /\ retrying' = retrying \cup {v}
  ELSE UNCHANGED formVars

-----------------------------------------------------------------------------
(* sendClusterBeacon: registers the vehicle itself, invites the others and *)
(* tries to form.                                                          *)
SendClusterBeacon(v, flagged) ==
  IF Idle(v) /\ MayInvite(v, flagged)
  THEN LET known == Store(collected[v], v)
       IN  /\ collected' = [collected EXCEPT ![v] = known]
           /\ invites' = invites \cup {v}
           /\ TryForm(v, known)
  ELSE UNCHANGED <<collected, invites, formVars>>

(* updateLaneLeaderFlag, on every tick of the check timer.                 *)
UpdateLaneLeaderFlag(v) ==
  /\ v \notin passed
  /\ \E front \in BOOLEAN : SetLaneLeader(v, front)
  /\ UNCHANGED <<placeVars, looping, collected, formVars, invites>>

(* onFirstStoppedAtIntersection, on the tick on which v comes to a stop,   *)
(* which is no longer looked for once it was set in motion.  A vehicle that *)
(* is queued then never starts the loop, also when it comes to the front   *)
(* later.                                                                  *)
FirstStop(v) ==
  /\ v \notin stopped \cup Gone
  /\ stopped' = stopped \cup {v}
  /\ \E front \in BOOLEAN : SetLaneLeader(v, front)
  /\ IF MayInvite(v, leaders')
     THEN looping' = looping \cup {v} /\ SendClusterBeacon(v, leaders')
     ELSE UNCHANGED <<looping, collected, invites, formVars>>
  /\ UNCHANGED <<mode, resumed, passed>>

(* The loop, and in allVehicles mode the peer beacon, which carries an     *)
(* invite as long as raft has not started.                                 *)
Beacon(v) ==
  /\ Idle(v)
  /\ v \in looping \/ mode = "allVehicles"
  /\ SendClusterBeacon(v, leaders)
  /\ UNCHANGED <<placeVars, flagVars, looping>>

(* handleClusterJoinInvite.  In cluster mode a lane leader makes sure that *)
(* it stands for its lane itself: an earlier leader of the lane may have   *)
(* been stored in its place.                                               *)
\* Faulty: keeps whoever it last heard of on its own lane.
ForgetsItself(v, known) == known
WithItself(v, known) ==
  IF mode = "cluster" /\ v \in leaders THEN Store(known, v) ELSE known
HearInvite(v, u) ==
  /\ u \in invites \ {v} /\ Idle(v)
  /\ LET known == WithItself(v, Store(collected[v], u))
     IN  /\ collected' = [collected EXCEPT ![v] = known]
         /\ IF MayInvite(v, leaders) THEN TryForm(v, known) ELSE UNCHANGED formVars
  /\ UNCHANGED <<placeVars, flagVars, looping, invites>>

(* handleClusterFormBroadcast                                              *)
HearForm(v, S) ==
  /\ S \in forms /\ v \in S /\ Idle(v)
  /\ members' = [members EXCEPT ![v] = S]
  /\ UNCHANGED <<placeVars, flagVars, looping, collected, retrying, invites, forms>>

-----------------------------------------------------------------------------
(* The raft cluster, seen from outside *)

Lowest(S) == CHOOSE v \in S : \A u \in S : v <= u

FormedBy(S) == {v \in S : members[v] = S}
Majority(Q, S) == 2 * Cardinality(Q) > Cardinality(S)
QuorumFormed == \E S \in forms : Majority(FormedBy(S), S)

(* raft elects nobody without a majority of the members; in allVehicles    *)
(* mode the member with the lowest id leads as soon as it has formed.      *)
MayLead(l) ==
  /\ Started(l)
  /\ \/ Majority({v \in members[l] : Started(v)}, members[l])
     \/ mode = "allVehicles" /\ l = Lowest(members[l])

(* scheduleClusterFormBroadcastRetry: no further broadcast, a leader is    *)
(* known.                                                                  *)
\* Faulty: gives up after a while.
GivesUp(v) == TRUE
KnowsLeader(v) == \E l \in members[v] : MayLead(l) /\ v \in members[l]
StopRetry(v) ==
  /\ v \in retrying /\ KnowsLeader(v)
  /\ retrying' = retrying \ {v}
  /\ UNCHANGED <<placeVars, flagVars, looping, collected, members, invites, forms>>

(* resumeMovement: by the pass order, also of a vehicle that has yet to    *)
(* stop, or by the fallback timer that its first stop has set.             *)
Resume(v) ==
  /\ v \notin Gone
  /\ v \in stopped \/ \E l \in Vehicle : MayLead(l)
  /\ resumed' = resumed \cup {v}
  /\ UNCHANGED <<mode, stopped, passed, flagVars, looping, collected, formVars, invites>>

(* checkIfLeftIntersection, looked at once v has stopped or been set in    *)
(* motion.  Nobody overtakes on the lane.                                  *)
Pass(v) ==
  /\ v \in (stopped \cup resumed) \ passed /\ InFront(v)
  /\ passed' = passed \cup {v}
  /\ retrying' = retrying \ {v}
  /\ looping' = looping \ {v}
  /\ UNCHANGED <<mode, stopped, resumed, flagVars, collected, members, invites, forms>>

-----------------------------------------------------------------------------
Init ==
  /\ mode \in Modes
  /\ stopped = {} /\ resumed = {} /\ passed = {} /\ looping = {}
  /\ leaders \in SUBSET Vehicle    \* guessed from the vehicle ids
  /\ misled = {v \in leaders : ~InFront(v)}
  /\ collected = [v \in Vehicle |-> {}]
  /\ members = [v \in Vehicle |-> {}]
  /\ retrying = {} /\ invites = {} /\ forms = {}

Next ==
  \E v \in Vehicle :
    \/ UpdateLaneLeaderFlag(v)
    \/ FirstStop(v)
    \/ Beacon(v)
    \/ \E u \in Vehicle : HearInvite(v, u)
    \/ \E S \in forms : HearForm(v, S)
    \/ StopRetry(v)
    \/ Resume(v)
    \/ Pass(v)

Spec == Init /\ [][Next]_vars

(* Every vehicle comes to a stop at the junction, OMNeT++ fires the loop's *)
(* timers, and a frame that is sent again and again is heard in the end.   *)
HearRepeatedInvite(v, u) == u \in looping /\ Idle(u) /\ HearInvite(v, u)
HearRepeatedForm(v, u) == u \in retrying /\ HearForm(v, members[u])

FairSpec ==
  /\ Spec
  /\ \A v \in Vehicle : WF_vars(FirstStop(v)) /\ WF_vars(Beacon(v))
  /\ \A u, v \in Vehicle : /\ WF_vars(HearRepeatedInvite(v, u))
                           /\ WF_vars(HearRepeatedForm(v, u))

-----------------------------------------------------------------------------
(* Correctness *)

OnePerLane(S) == \A x, y \in S : LaneOf[x] = LaneOf[y] => x = y

TypeOK ==
  /\ mode \in Modes
  /\ stopped \in SUBSET Vehicle /\ resumed \in SUBSET Vehicle
  /\ passed \in SUBSET Vehicle /\ looping \in SUBSET Vehicle
  /\ leaders \in SUBSET Vehicle /\ misled \in SUBSET Vehicle
  /\ collected \in [Vehicle -> SUBSET Vehicle]
  /\ mode = "cluster" => \A v \in Vehicle : OnePerLane(collected[v])
  /\ members \in [Vehicle -> SUBSET Vehicle]
  /\ retrying \in SUBSET Vehicle
  /\ invites \in SUBSET Vehicle
  /\ forms \in SUBSET SUBSET Vehicle

(* A vehicle that runs raft is a member of its own cluster (raft would     *)
(* have no node for it otherwise), although the vehicles of a lane take    *)
(* each other's place in what it collected.                                *)
OwnCluster == \A v \in Vehicle : Started(v) => v \in members[v]

(* Two vehicles form different clusters only over a lane that had two      *)
(* fronts: of the two vehicles they have of it one stood behind the other, *)
(* and that one has been set in motion, or the one behind was told that    *)
(* there was nobody.  Nothing else makes the sets differ: not the order of *)
(* the invites, nor the loss of frames, nor a flag that is out of date.    *)
Displaces(y, x) == x \in Ahead[y] /\ (x \in Gone \/ y \in misled)
SameMembers ==
  \A u, v \in Vehicle :
    Started(u) /\ Started(v) =>
      \A x \in members[u] \ members[v] : \E y \in members[v] :
        LaneOf[x] = LaneOf[y] /\ (Displaces(y, x) \/ Displaces(x, y))

(* With a vehicle on every lane, a majority of one member set has formed   *)
(* in the end, whatever frames are lost on the way: invites are repeated   *)
(* until a vehicle has formed, the form broadcast until it knows a leader. *)
(* Or somebody went without, or two took themselves for the front of one   *)
(* lane: then the sets may differ and none of them need have a majority.   *)
AllLanesUsed == \A l \in Lane : \E v \in Vehicle : LaneOf[v] = l
QuorumForms ==
  mode = "cluster" /\ AllLanesUsed => <>(QuorumFormed \/ Gone \cup misled # {})
=============================================================================
