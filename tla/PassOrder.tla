----------------------------- MODULE PassOrder -----------------------------
(***************************************************************************)
(* computePassOrder (src/raft/RaftDecision.cc): the leader's schedule, the *)
(* batches of vehicles that cross the intersection together.  One action   *)
(* per loop iteration that places a vehicle or opens or closes a batch.    *)
(*                                                                         *)
(* The fairness order of two proposals depends on waiting times that are   *)
(* compared with a tolerance, which is no strict weak ordering: std::sort  *)
(* promises nothing then.  The insertion sort it uses for the up to 16     *)
(* vehicles of a pool leaves no neighbours in the wrong order, and any     *)
(* order like that may come out here.                                      *)
(***************************************************************************)
EXTENDS Integers, FiniteSets, SequencesExt

CONSTANTS
  Vehicle,       \* the vehicles with a merged proposal
  Proposals,     \* what the vehicles may propose together
  MaxBatches,    \* 16: PassScheduleEntry::batches
  MaxPerBatch    \* 8: PassBatch::vehicleIds

ASSUME VehicleAssumption == IsFiniteSet(Vehicle)

(* The fields of VehicleProposal the decision reads.                       *)
Proposal == [lane : 0..3, turn : 0..2, front : BOOLEAN, waiting : Nat,
             distance : Nat, priority : BOOLEAN]
ASSUME ProposalAssumption == Proposals \subseteq [Vehicle -> Proposal]
ASSUME SizeAssumption == MaxBatches \in Nat \ {0} /\ MaxPerBatch \in Nat \ {0}

VARIABLES
  proposal,    \* proposals
  closed,      \* batches[0], ..., batches[numBatches - 1]
  open,        \* batches[numBatches]
  priority,    \* activePriorityLanes
  turn,        \* the lanes of prioLaneOrder still to be served in this round
  queue,       \* laneVehicles: who is left in each priority lane
  pool,        \* normalPool in steps 1 and 2, pool in step 3
  at,          \* the position of the loop over the pool
  phase        \* the loop the function is in

vars == <<proposal, closed, open, priority, turn, queue, pool, at, phase>>

-----------------------------------------------------------------------------
(* movementsConflict, conflictsWithBatch *)

Opposing(laneA, laneB) == laneA + laneB \in {2, 4}

\* Faulty: opposing movements never cross.
IgnoresTurns(p, q) == p.lane = q.lane \/ ~Opposing(p.lane, q.lane)
MovementsConflict(p, q) ==
  \/ p.lane = q.lane
  \/ ~Opposing(p.lane, q.lane)
  \/ <<p.turn, q.turn>> \notin {<<0, 0>>, <<1, 1>>}

ConflictsWithBatch(v, batch) ==
  \E w \in batch : MovementsConflict(proposal[w], proposal[v])

Fits(v, batch) ==
  ~ConflictsWithBatch(v, batch) /\ Cardinality(batch) < MaxPerBatch

-----------------------------------------------------------------------------
(* The orders of the pools *)

(* The comparator of the normal pools: vehicles at the front of their lane *)
(* first, then those that waited more than 500 ms longer, then by lane,    *)
(* then by distance.                                                       *)
\* Faulty: the flag of the other vehicle.
QueuedFirst(p, q) == ~p.front /\ q.front
FrontFirst(p, q) == p.front /\ ~q.front
Fairer(p, q) ==
  \/ FrontFirst(p, q)
  \/ /\ p.front = q.front
     /\ \/ p.waiting - q.waiting > 500
        \/ /\ p.waiting - q.waiting \in -500..500
           /\ \/ p.lane < q.lane
              \/ p.lane = q.lane /\ p.distance < q.distance

FairOrders(S) ==
  {s \in SetToSeqs(S) :
     \A k \in 1..(Len(s) - 1) : ~Fairer(proposal[s[k + 1]], proposal[s[k]])}

(* The order within a priority lane: the closest to the junction first.    *)
\* Faulty: the furthest first.
FurthestFirst(p, q) == p.distance > q.distance
Closer(p, q) == p.distance < q.distance
QueueOrders(S) ==
  {s \in SetToSeqs(S) :
     \A k \in 1..(Len(s) - 1) : ~Closer(proposal[s[k + 1]], proposal[s[k]])}

PriorityLanes == {proposal[v].lane : v \in {w \in Vehicle : proposal[w].priority}}
InLane(lane) == {v \in Vehicle : proposal[v].lane = lane}
Normal == {v \in Vehicle : proposal[v].lane \notin PriorityLanes}

-----------------------------------------------------------------------------
(* Step 2: priority lanes *)

(* addVehicleToBatch: v joins the open batch or opens the next one.  When  *)
(* the last batch is closed v is left out.                                 *)
AddVehicleToBatch(v) ==
  IF Len(closed) = MaxBatches \/ Fits(v, open)
  THEN /\ open' = IF Len(closed) = MaxBatches THEN open ELSE open \cup {v}
       /\ UNCHANGED closed
  ELSE /\ closed' = Append(closed, open)
       /\ open' = IF Len(closed') = MaxBatches THEN {} ELSE {v}

(* A lane is released once its priority vehicle is placed, or when nobody  *)
(* is left in it.                                                          *)
\* Faulty: released after one vehicle, whichever it was.
ReleasesAtOnce(v, left) == TRUE
Releases(v, left) == proposal[v].priority \/ left = <<>>

(* The lanes take turns, one vehicle at a time.  A lane that is not        *)
(* released has somebody in it.                                            *)
PlacePriority ==
  LET lanes == IF turn \cap priority = {} THEN priority ELSE turn \cap priority
      lane  == CHOOSE l \in lanes : \A k \in lanes : l <= k
      v     == Head(queue[lane])
      left  == Tail(queue[lane])
  IN  /\ phase = "place"
      /\ AddVehicleToBatch(v)
      /\ queue' = [queue EXCEPT ![lane] = left]
      /\ turn' = lanes \ {lane}
      /\ priority' = IF Releases(v, left) THEN priority \ {lane} ELSE priority
      /\ at' = 1
      /\ phase' = "topUp"
      /\ UNCHANGED <<proposal, pool>>

(* fillBatchWithNormals, and the same loop of step 3.                      *)
\* Faulty: the vehicle stays in the pool.
StaysInPool(s, k) == s
TakenFrom(s, k) == RemoveAt(s, k)

\* Faulty: the loop does not move on.
SameAgain(k) == k
After(k) == k + 1

InBounds == Len(closed) < MaxBatches
TopUp ==
  /\ phase \in {"topUp", "fill"}
  /\ InBounds /\ at \in DOMAIN pool /\ Cardinality(open) < MaxPerBatch
  /\ IF ConflictsWithBatch(pool[at], open)
     THEN at' = After(at) /\ UNCHANGED <<open, pool>>
     ELSE /\ open' = open \cup {pool[at]}
          /\ pool' = TakenFrom(pool, at)
          /\ UNCHANGED at
  /\ UNCHANGED <<proposal, closed, priority, turn, queue, phase>>

(* The loop ends.  Past the last batch it runs on memory behind the array; *)
(* whatever it does there, nothing gets into the schedule.                 *)
ToppedUp == ~InBounds \/ at \notin DOMAIN pool \/ Cardinality(open) >= MaxPerBatch

TopUpDone ==
  /\ phase = "topUp" /\ ToppedUp
  /\ phase' = IF priority = {} THEN "commit" ELSE "place"
  /\ UNCHANGED <<proposal, closed, open, priority, turn, queue, pool, at>>

-----------------------------------------------------------------------------
(* Step 3: everybody else *)

Close == closed' = Append(closed, open) /\ open' = {}
Placed == open \cup UNION {closed[k] : k \in DOMAIN closed}

(* The batch of step 2 is closed, and the pool is rebuilt from all that    *)
(* have no place yet.                                                      *)
\* Faulty: the vehicles of the normal pool only.
LeftInPool == {v \in Vehicle : v \in {pool[k] : k \in DOMAIN pool}}
LeftOver == Vehicle \ Placed

Commit ==
  /\ phase = "commit"
  /\ IF InBounds /\ open # {} THEN Close ELSE UNCHANGED <<closed, open>>
  /\ pool' \in FairOrders(LeftOver)
  /\ phase' = "open"
  /\ UNCHANGED <<proposal, priority, turn, queue, at>>

OpenBatch ==
  /\ phase = "open"
  /\ IF pool # <<>> /\ InBounds
     THEN /\ open' = {Head(pool)}
          /\ pool' = Tail(pool)
          /\ at' = 1
          /\ phase' = "fill"
     ELSE phase' = "done" /\ UNCHANGED <<open, pool, at>>
  /\ UNCHANGED <<proposal, closed, priority, turn, queue>>

CloseBatch ==
  /\ phase = "fill" /\ ToppedUp
  /\ Close
  /\ phase' = "open"
  /\ UNCHANGED <<proposal, priority, turn, queue, pool, at>>

-----------------------------------------------------------------------------
Init ==
  /\ proposal \in Proposals
  /\ closed = <<>>
  /\ open = {}
  /\ priority = PriorityLanes
  /\ turn = {}
  /\ queue \in [PriorityLanes -> UNION {QueueOrders(InLane(l)) : l \in PriorityLanes}]
  /\ \A l \in PriorityLanes : queue[l] \in QueueOrders(InLane(l))
  /\ pool \in FairOrders(Normal)
  /\ at = 1
  /\ phase = IF PriorityLanes = {} THEN "commit" ELSE "place"

Next ==
  \/ PlacePriority
  \/ TopUp
  \/ TopUpDone
  \/ Commit
  \/ OpenBatch
  \/ CloseBatch

Spec == Init /\ [][Next]_vars /\ WF_vars(Next)

-----------------------------------------------------------------------------
(* Correctness *)

TypeOK ==
  /\ proposal \in [Vehicle -> Proposal]
  /\ closed \in Seq(SUBSET Vehicle)
  /\ open \in SUBSET Vehicle
  /\ priority \subseteq PriorityLanes
  /\ turn \subseteq PriorityLanes
  /\ queue \in [PriorityLanes -> Seq(Vehicle)]
  /\ pool \in Seq(Vehicle)
  /\ at \in Nat \ {0}
  /\ phase \in {"place", "topUp", "commit", "open", "fill", "done"}

(* No vehicle is scheduled twice, not even one that is pulled forward into *)
(* the batch of a priority vehicle and still stands in a pool.             *)
ScheduledOnce ==
  /\ \A j, k \in DOMAIN closed : j # k => closed[j] \cap closed[k] = {}
  /\ \A k \in DOMAIN closed : closed[k] \cap open = {}

(* Why that is so: who still stands in the pool or in a lane's queue has   *)
(* no place yet, the pool of step 2 has nobody of a priority lane, and a   *)
(* lane that is not released has somebody to place.                        *)
Choosing == phase \in {"place", "topUp"}
PoolInv ==
  /\ IsInjective(pool) /\ Range(pool) \cap Placed = {}
  /\ Choosing => Range(pool) \subseteq Normal
QueueInv ==
  /\ phase = "place" => priority # {}
  /\ Choosing => \A l \in PriorityLanes :
       /\ IsInjective(queue[l]) /\ Range(queue[l]) \subseteq InLane(l) \ Placed
       /\ l \in priority => queue[l] # <<>>

(* What the lanes mean on the road: the quarters of the junction that a    *)
(* vehicle going straight takes, driving on the right.  0=W, 1=S, 2=E, 3=N.*)
Quarters(lane) ==
  CASE lane = 0 -> {"SW", "SE"}
    [] lane = 1 -> {"SE", "NE"}
    [] lane = 2 -> {"NE", "NW"}
    [] lane = 3 -> {"NW", "SW"}
Across(laneA, laneB) == {laneA, laneB} \in {{0, 2}, {1, 3}}
MayShare(p, q) ==
  IF p.turn = 0 /\ q.turn = 0 THEN Quarters(p.lane) \cap Quarters(q.lane) = {}
  ELSE p.turn = 1 /\ q.turn = 1 /\ Across(p.lane, q.lane)

(* The vehicles of a batch cross together: no two of them take the same    *)
(* part of the junction, and one that turns shares it only with one from   *)
(* the opposite side that turns left as well.                              *)
PathsClear ==
  \A batch \in {closed[k] : k \in DOMAIN closed} \cup {open} :
    \A v, w \in batch : v # w => MayShare(proposal[v], proposal[w])

ScheduleInv == TypeOK /\ ScheduledOnce /\ PoolInv /\ QueueInv /\ PathsClear

(* The priority vehicles that are the closest of their lane, those queued  *)
(* before them, and those as close as they are.  A vehicle that cannot ask *)
(* TraCI reports 999999 m (getDistanceToJunction), so two may be.          *)
Ahead(v) ==
  {w \in InLane(proposal[v].lane) : proposal[w].distance < proposal[v].distance}
FirstPriority ==
  {v \in Vehicle : proposal[v].priority /\ \A w \in Ahead(v) : ~proposal[w].priority}
Urgent ==
  {w \in Vehicle : \E v \in FirstPriority :
     w \in InLane(proposal[v].lane) /\ proposal[w].distance <= proposal[v].distance}
Sole == {v \in FirstPriority : FirstPriority \cap InLane(proposal[v].lane) = {v}}

(* "Within each priority lane, vehicles go in queue order (blocker before  *)
(* blocked)": whoever stands before a priority vehicle goes in an earlier  *)
(* batch.                                                                  *)
BlockersGoFirst ==
  \A v \in FirstPriority : \A k \in DOMAIN closed :
    v \in closed[k] => \A w \in Ahead(v) : \E j \in 1..(k - 1) : w \in closed[j]

(* Vehicles of other lanes only top up: a priority vehicle never waits for *)
(* a batch in which nobody goes on its behalf, or another one's.  (Of two  *)
(* that are equally close one is enough to release their lane.)            *)
PriorityFirst ==
  \A v \in Sole : \A k \in DOMAIN closed :
    v \in closed[k] => \A j \in 1..k : closed[j] \cap Urgent # {}

(* Without priority vehicles, the front vehicles of the lanes lead the     *)
(* batches before any batch of queued vehicles only.                       *)
HasFront(batch) == \E v \in batch : proposal[v].front
FrontsLead ==
  PriorityLanes = {} =>
    \A j, k \in DOMAIN closed : j < k /\ HasFront(closed[k]) => HasFront(closed[j])

(* Nobody is left out of the schedule while it has room for a batch.       *)
NobodyForgotten ==
  phase = "done" /\ InBounds => UNION {closed[k] : k \in DOMAIN closed} = Vehicle

(* The loops end.                                                          *)
Terminates == <>(phase = "done")
=============================================================================
