------------------------------ MODULE Crossing ------------------------------
(***************************************************************************)
(* How the vehicles drive by a committed pass schedule: RaftCoordination,  *)
(* the stop and movement code of RaftDiscovery and RaftUtilities, and      *)
(* doApplyLog.  Every vehicle keeps its own count of the batches that are  *)
(* through; nobody announces anything.  A vehicle looks up where the       *)
(* others are (TraCI) and drives when it sees that the batch before its    *)
(* own has left the intersection.                                          *)
(*                                                                         *)
(* log is the committed part of the raft log, which LibRaft delivers: a    *)
(* sequence of schedules, a schedule being a sequence of batches.  Batches *)
(* are numbered from 1 here, from 0 in the code.  Time is left out: a      *)
(* pending timer may expire at any moment, or wait.  A pass order frame    *)
(* may be heard at any time after it is sent, or never.                    *)
(*                                                                         *)
(* This is one round (allowMultipleRounds = false).  A vehicle that starts *)
(* a new round forgets the schedule; what the new round decides is not     *)
(* modelled.                                                               *)
(***************************************************************************)
EXTENDS Integers, Sequences, FiniteSets

CONSTANTS
  Vehicle,
  Ahead,      \* Ahead[v]: the vehicles in front of v on its approach
  Member,     \* the vehicles with a raft server, which apply the log
  Heard,      \* Heard[v]: the keys of sumoIdMap_ of v
  Fallible,   \* Fallible[v]: those whose road TraCI may fail to tell v
  Logs        \* the committed logs to consider

ASSUME VehicleAssumption ==
  /\ IsFiniteSet(Vehicle)
  /\ Ahead \in [Vehicle -> SUBSET Vehicle]
  /\ Member \subseteq Vehicle
  /\ Heard \in [Vehicle -> SUBSET Vehicle]
  /\ Fallible \in [Vehicle -> SUBSET Vehicle]
  /\ \A v \in Vehicle : v \notin Ahead[v] /\ v \in Heard[v] /\ Fallible[v] \subseteq Heard[v]

(* No schedule has a vehicle in two batches: ScheduledOnce of PassOrder.   *)
ASSUME LogAssumption ==
  \A l \in Logs :
    /\ l \in Seq(Seq(SUBSET Vehicle))
    /\ \A n \in DOMAIN l : \A j, k \in DOMAIN l[n] : j # k => l[n][j] \cap l[n][k] = {}

VARIABLES
  log,          \* the schedules committed by raft
  announced,    \* those broadcast so far (COORD_PASS_ORDER_BROADCAST)
  loc,          \* where each vehicle is; hasPassedIntersection_ on an exit road
  motion,       \* what drives it: SUMO, stopVehicle or resumeMovement
  stopped,      \* hasStoppedAtIntersection_
  leading,      \* isLaneLeader_
  server,       \* raftServer_ is there
  applied,      \* lastAppliedIndex_
  order,        \* the index of committedSchedule_ in log, 0 for none
  current,      \* currentBatch_
  left,         \* vehiclesLeftInBatch_
  polling,      \* a pollBatchExit timer is pending
  timers,       \* the pending fallback timers; "round": seekingNewCluster_
  fallback,     \* isFallbackMode_
  lost          \* history: those whose road TraCI failed to tell

roadVars == <<loc, motion, stopped>>
orderVars == <<announced, server, applied, order, current, left, polling, lost>>
vars == <<log, roadVars, leading, orderVars, timers, fallback>>

-----------------------------------------------------------------------------
(* Schedules *)

Scheduled(s) == UNION {s[k] : k \in DOMAIN s}
Schedule(v) == IF order[v] = 0 THEN <<>> ELSE log[order[v]]

(* myBatch_ of v: whether it is the given batch, or one before it.         *)
InBatch(v, s, k) == k \in DOMAIN s /\ v \in s[k]
MyTurn(v) == \E k \in DOMAIN Schedule(v) : v \in Schedule(v)[k] /\ k <= current[v]
\* Faulty: does not wait for the order, only for the turn.
WaitsForTurn(v) == v \in Scheduled(Schedule(v)) /\ ~MyTurn(v)
MustWait(v) ==
  \/ order[v] = 0
  \/ v \in Scheduled(Schedule(v)) /\ ~MyTurn(v)

OnApproach(v) == loc[v] \in {"approach", "line"}
Passed(v) == loc[v] = "exit"

(* Nobody is before v on the road; leading is what TraCI told v of it.     *)
Front(v) == \A u \in Ahead[v] : ~OnApproach(u)

-----------------------------------------------------------------------------
(* Movement: what SUMO does, and the check timer that watches it *)

Resume(v) == motion' = [motion EXCEPT ![v] = "go"]
Hold(v) == motion' = [motion EXCEPT ![v] = "held"]
StartTimer(v, t) == timers' = [timers EXCEPT ![v] = @ \cup {t}]

(* handleQueuedStop: nearly standing still behind another vehicle.  SUMO   *)
(* keeps the distance, the vehicle is not held.                            *)
Queue(v) ==
  /\ loc[v] = "approach" /\ motion[v] = "follow" /\ ~stopped[v] /\ ~Front(v)
  /\ stopped' = [stopped EXCEPT ![v] = TRUE]
  /\ StartTimer(v, "parked")
  /\ UNCHANGED <<log, loc, motion, leading, orderVars, fallback>>

(* The vehicle comes within the stop distance, where the check timer finds *)
(* it long before it is through: handleFrontStop.  A vehicle that was told *)
(* to go is not checked any more.                                          *)
ReachLine(v) ==
  /\ loc[v] = "approach" /\ \A u \in Ahead[v] : loc[u] # "approach"
  /\ loc' = [loc EXCEPT ![v] = "line"]
  /\ \/ /\ motion[v] = "go"
        /\ UNCHANGED <<motion, stopped, timers>>
     \/ /\ motion[v] = "follow" /\ ~stopped[v]
        /\ stopped' = [stopped EXCEPT ![v] = TRUE]
        /\ StartTimer(v, "parked")
        /\ IF MyTurn(v) THEN Resume(v) ELSE Hold(v)
     \/ /\ motion[v] = "follow" /\ stopped[v]
        /\ IF MustWait(v) THEN Hold(v) ELSE UNCHANGED motion
        /\ UNCHANGED <<stopped, timers>>
  /\ UNCHANGED <<log, leading, orderVars, fallback>>

(* A later check at the stop line: "re-apply hard stop if still waiting".  *)
Recheck(v) ==
  /\ loc[v] = "line" /\ motion[v] = "follow" /\ MustWait(v)
  /\ Hold(v)
  /\ UNCHANGED <<log, loc, stopped, leading, orderVars, timers, fallback>>

(* Nobody overtakes on the approach.  SUMO lets a vehicle it drives itself *)
(* go by right of way; one that was told to go ignores it.                 *)
EnterJunction(v) ==
  /\ loc[v] = "line" /\ Front(v)
  /\ \/ motion[v] = "go"
     \/ /\ motion[v] = "follow" /\ ~MustWait(v)
        /\ \A u \in Vehicle : loc[u] # "junction"
  /\ loc' = [loc EXCEPT ![v] = "junction"]
  /\ UNCHANGED <<log, motion, stopped, leading, orderVars, timers, fallback>>

(* checkIfLeftIntersection finds the vehicle on its exit road at the next  *)
(* check.  From here on it takes no message, and the timers that are still *)
(* pending expire to no effect.                                            *)
ExitJunction(v) ==
  /\ loc[v] = "junction"
  /\ loc' = [loc EXCEPT ![v] = "exit"]
  /\ polling' = [polling EXCEPT ![v] = FALSE]
  /\ timers' = [timers EXCEPT ![v] = {}]
  /\ UNCHANGED <<log, motion, stopped, leading, announced, server, applied, order,
                 current, left, fallback, lost>>

-----------------------------------------------------------------------------
(* The pass order *)

(* applyCommittedPassOrder of schedule k.  The count of the batches that   *)
(* are through is not reset.                                               *)
ApplyOrder(v, k) ==
  /\ order' = [order EXCEPT ![v] = k]
  /\ IF v \in Scheduled(log[k])
     THEN /\ IF InBatch(v, log[k], 1) THEN Resume(v) ELSE UNCHANGED motion
          /\ polling' = [polling EXCEPT ![v] = TRUE]
          /\ UNCHANGED timers
     ELSE /\ StartTimer(v, "missing")
          /\ UNCHANGED <<motion, polling>>

(* doApplyLog, for the next entry of the log.                              *)
ApplyLog(v) ==
  LET k == applied[v] + 1
  IN  /\ server[v] /\ ~Passed(v) /\ ~fallback[v]
      /\ k \in DOMAIN log
      /\ applied' = [applied EXCEPT ![v] = k]
      /\ announced' = announced \cup {k}
      /\ ApplyOrder(v, k)
      /\ UNCHANGED <<log, loc, stopped, leading, server, current, left, fallback, lost>>

(* handlePassOrderBroadcast: the first order heard counts, also for a raft *)
(* member, which will apply it a second time from its own log.             *)
HearPassOrder(v) ==
  /\ ~Passed(v) /\ order[v] = 0
  /\ \E k \in announced : ApplyOrder(v, k)
  /\ UNCHANGED <<log, announced, loc, stopped, leading, server, applied,
                 current, left, fallback, lost>>

(* What v takes for having left: a vehicle whose road is past the          *)
(* intersection, or one whose beacon v never heard.                        *)
\* Faulty: the junction's own roads count as past the intersection.
PastTheLine(v, u) == u \notin Heard[v] \/ ~OnApproach(u)
HasLeft(v, u) == u \notin Heard[v] \/ loc[u] = "exit"

\* Faulty: goes on when one vehicle of the batch has left.
SomeLeft(batch, gone) == batch \cap gone # {}
AllLeft(batch, gone) == batch \subseteq gone

(* pollBatchExit.  A vehicle whose road cannot be looked up counts as gone *)
(* as well.  The vehicles that left are also marked inactive in raft       *)
(* (MarkInactive of LibRaft).                                              *)
CountBatch(v, s, failed) ==
  LET batch == s[current[v]]
      gone  == left[v] \cup failed \cup {u \in batch : HasLeft(v, u)}
  IN  /\ lost' = [lost EXCEPT ![v] = @ \cup failed]
      /\ IF AllLeft(batch, gone)
         THEN /\ current' = [current EXCEPT ![v] = @ + 1]
              /\ left' = [left EXCEPT ![v] = {}]
              /\ IF InBatch(v, s, current'[v]) THEN Resume(v) ELSE UNCHANGED motion
              /\ polling' = [polling EXCEPT ![v] = current'[v] \in DOMAIN s]
         ELSE /\ left' = [left EXCEPT ![v] = gone]
              /\ UNCHANGED <<current, motion, polling>>

PollBatchExit(v) ==
  LET s == Schedule(v)
  IN  /\ polling[v]
      /\ IF current[v] \notin DOMAIN s
         THEN /\ polling' = [polling EXCEPT ![v] = FALSE]
              /\ UNCHANGED <<left, current, motion, lost>>
         ELSE \E failed \in SUBSET ((s[current[v]] \cap Fallible[v]) \ left[v]) :
                CountBatch(v, s, failed)
      /\ UNCHANGED <<log, announced, loc, stopped, leading, server, applied,
                     order, timers, fallback>>

-----------------------------------------------------------------------------
(* Fallbacks, and a new round *)

Expire(v, t) == t \in timers[v] /\ ~Passed(v)

(* The timer of a vehicle that is not in the schedule.                     *)
MissingTimeout(v) ==
  /\ Expire(v, "missing")
  /\ timers' = [timers EXCEPT ![v] = @ \ {"missing"}]
  /\ fallback' = [fallback EXCEPT ![v] = TRUE]
  /\ Resume(v)
  /\ UNCHANGED <<log, loc, stopped, leading, orderVars>>

(* The timer set at the first stop: handleFallback, if the vehicle is      *)
(* still parked, whether or not it has an order.  Behind a vehicle that is *)
(* a raft member it waits a little longer.                                 *)
\* Faulty: only a vehicle without an order gives up.
ParkedWithoutOrder(v) == Expire(v, "parked") /\ order[v] = 0
StillParked(v) == Expire(v, "parked")
ParkedTimeout(v) ==
  /\ StillParked(v)
  /\ fallback' = [fallback EXCEPT ![v] = TRUE]
  /\ \/ /\ Resume(v)
        /\ timers' = [timers EXCEPT ![v] = @ \ {"parked"}]
     \/ /\ ~leading[v]
        /\ timers' = [timers EXCEPT ![v] = (@ \ {"parked"}) \cup {"queued"}]
        /\ UNCHANGED motion
  /\ UNCHANGED <<log, loc, stopped, leading, orderVars>>

QueuedTimeout(v) ==
  /\ Expire(v, "queued")
  /\ timers' = [timers EXCEPT ![v] = @ \ {"queued"}]
  /\ Resume(v)
  /\ UNCHANGED <<log, loc, stopped, leading, orderVars, fallback>>

(* updateLaneLeaderFlag.  TraCI may say of anybody that nobody is ahead    *)
(* (SetLaneLeader of ClusterFormation), and of the front that somebody is, *)
(* who moves off beyond the stop line.  A vehicle that comes to the front, *)
(* as it takes it, that stands here with an order and knows of a vehicle   *)
(* the order leaves out starts a new round: startNewRound frees its raft   *)
(* server and forgets the order, the batch count included.                 *)
LoseLead(v) ==
  /\ leading[v] /\ ~Passed(v)
  /\ ~Front(v) \/ \E u \in Vehicle \ {v} : ~OnApproach(u)
  /\ leading' = [leading EXCEPT ![v] = FALSE]
  /\ UNCHANGED <<log, roadVars, orderVars, timers, fallback>>

PromotedToFront(v) ==
  /\ ~leading[v] /\ ~Passed(v)
  /\ leading' = [leading EXCEPT ![v] = TRUE]
  /\ IF /\ stopped[v] /\ order[v] # 0 /\ ~fallback[v] /\ "round" \notin timers[v]
        /\ ~(Heard[v] \subseteq Scheduled(Schedule(v)))
     THEN /\ server' = [server EXCEPT ![v] = FALSE]
          /\ applied' = [applied EXCEPT ![v] = 0]
          /\ order' = [order EXCEPT ![v] = 0]
          /\ current' = [current EXCEPT ![v] = 1]
          /\ left' = [left EXCEPT ![v] = {}]
          /\ StartTimer(v, "round")
     ELSE UNCHANGED <<server, applied, order, current, left, timers>>
  /\ UNCHANGED <<log, roadVars, announced, polling, fallback, lost>>

(* The 500 ms of seekingNewCluster_ are over.                              *)
RoundTimeout(v) ==
  /\ Expire(v, "round")
  /\ timers' = [timers EXCEPT ![v] = @ \ {"round"}]
  /\ UNCHANGED <<log, roadVars, leading, orderVars, fallback>>

-----------------------------------------------------------------------------
Init ==
  /\ log \in Logs
  /\ announced = {}
  /\ loc = [v \in Vehicle |-> "approach"]
  /\ motion = [v \in Vehicle |-> "follow"]
  /\ stopped = [v \in Vehicle |-> FALSE]
  /\ leading = [v \in Vehicle |-> Ahead[v] = {}]
  /\ server = [v \in Vehicle |-> v \in Member]
  /\ applied = [v \in Vehicle |-> 0]
  /\ order = [v \in Vehicle |-> 0]
  /\ current = [v \in Vehicle |-> 1]
  /\ left = [v \in Vehicle |-> {}]
  /\ polling = [v \in Vehicle |-> FALSE]
  /\ timers = [v \in Vehicle |-> {}]
  /\ fallback = [v \in Vehicle |-> FALSE]
  /\ lost = [v \in Vehicle |-> {}]

Drive(v) == ReachLine(v) \/ Recheck(v) \/ EnterJunction(v) \/ ExitJunction(v)
GiveUp(v) == ParkedTimeout(v) \/ QueuedTimeout(v) \/ MissingTimeout(v)

Next ==
  \E v \in Vehicle :
    \/ Queue(v) \/ ReachLine(v) \/ Recheck(v)
    \/ EnterJunction(v) \/ ExitJunction(v)
    \/ ApplyLog(v) \/ HearPassOrder(v) \/ PollBatchExit(v)
    \/ ParkedTimeout(v) \/ QueuedTimeout(v) \/ MissingTimeout(v)
    \/ LoseLead(v) \/ PromotedToFront(v) \/ RoundTimeout(v)

Spec == Init /\ [][Next]_vars

(* SUMO moves a vehicle that may move, and OMNeT++ lets every timer of the *)
(* vehicle expire.  No frame has to arrive and no entry to be applied.     *)
Fairness == \A v \in Vehicle : WF_vars(Drive(v)) /\ WF_vars(GiveUp(v))
FairSpec == Spec /\ Fairness

-----------------------------------------------------------------------------
(* Correctness *)

TypeOK ==
  /\ log \in Logs
  /\ announced \subseteq DOMAIN log
  /\ loc \in [Vehicle -> {"approach", "line", "junction", "exit"}]
  /\ motion \in [Vehicle -> {"follow", "held", "go"}]
  /\ stopped \in [Vehicle -> BOOLEAN]
  /\ leading \in [Vehicle -> BOOLEAN]
  /\ server \in [Vehicle -> BOOLEAN]
  /\ applied \in [Vehicle -> 0..Len(log)]
  /\ order \in [Vehicle -> 0..Len(log)]
  /\ current \in [Vehicle -> Nat \ {0}]
  /\ left \in [Vehicle -> SUBSET Vehicle]
  /\ polling \in [Vehicle -> BOOLEAN]
  /\ timers \in [Vehicle -> SUBSET {"missing", "parked", "queued", "round"}]
  /\ fallback \in [Vehicle -> BOOLEAN]
  /\ lost \in [Vehicle -> SUBSET Vehicle]

(* "Vehicles move in batches", "next batch advances when current batch     *)
(* clears": one committed schedule explains who is in the junction.        *)
(* Whoever meets a vehicle of an earlier batch there has given up on the   *)
(* schedule, has never heard of that vehicle, or asked for its road in     *)
(* vain.                                                                   *)
Inside == {v \in Vehicle : loc[v] = "junction"}
Before(s, u, v) == \E j, k \in DOMAIN s : j < k /\ u \in s[j] /\ v \in s[k]
TakeTurns ==
  Inside # {} => \E n \in DOMAIN log :
    \A u, v \in Inside :
      Before(log[n], u, v) => fallback[v] \/ u \notin Heard[v] \/ u \in lost[v]

(* What a vehicle has counted is so: the batches before its current one,   *)
(* and the vehicles it has marked inactive in raft, are past the junction, *)
(* or it never heard of them or could not look them up, however late it    *)
(* looked and whatever it has forgotten in between.                        *)
GoneFor(v, u) == Passed(u) \/ u \notin Heard[v] \/ u \in lost[v]
CountedLeft ==
  \A v \in Vehicle :
    /\ \A u \in left[v] : GoneFor(v, u)
    /\ \A k \in DOMAIN Schedule(v) :
         k < current[v] => \A u \in Schedule(v)[k] : GoneFor(v, u)

(* Why TakeTurns holds with one schedule: whoever was told to go, or is in *)
(* the junction, without having given up, has all that it heard of in      *)
(* earlier batches behind it.  A vehicle without an order counts afresh.   *)
CountsAfresh ==
  \A v \in Vehicle : order[v] = 0 => current[v] = 1 /\ left[v] = {}
WayIsClear ==
  \A v \in Vehicle :
    ~fallback[v] /\ (motion[v] = "go" \/ loc[v] = "junction") =>
      \A n \in DOMAIN log : \A u \in Vehicle : Before(log[n], u, v) => GoneFor(v, u)
GaveUp == \A v \in Vehicle : "queued" \in timers[v] => fallback[v]
CrossingInv == TypeOK /\ CountedLeft /\ CountsAfresh /\ WayIsClear /\ GaveUp

(* Every vehicle gets through, be it that its order never reached it, that *)
(* it is left out of the schedule, that it forgot its turn in a new round  *)
(* or that the schedule puts it before the vehicle that blocks its way.    *)
EveryonePasses == \A v \in Vehicle : <>Passed(v)
=============================================================================
