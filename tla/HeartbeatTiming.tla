-------------------------- MODULE HeartbeatTiming --------------------------
(***************************************************************************)
(* The timers of raft_periodic during one leadership: the heartbeats the   *)
(* leader sends or skips, and the election timeouts of its followers.      *)
(* Time is counted in ticks of raft_periodic, which every vehicle runs at  *)
(* its own point of each tick.                                             *)
(*                                                                         *)
(* The leader's link to the Reachable followers is perfect: a message and  *)
(* its answer arrive within the tick in which they are sent, before or     *)
(* after the ticks of the two vehicles.  Messages to the other followers,  *)
(* and their answers, may be late or lost; those followers' own timers are *)
(* left out, so that the leadership lasts as long as the Reachable ones    *)
(* let it.  The leader proposes one entry, its pass schedule.              *)
(***************************************************************************)
EXTENDS Integers, FiniteSets

CONSTANTS
  Follower,         \* the other members of the leader's cluster
  Reachable,        \* the followers with a perfect link to the leader
  RequestTimeout,   \* request_timeout, in ticks
  ElectionTimeout,  \* election_timeout, in ticks
  FullCycle         \* 5: every fifth cycle of appendentries_cycle is full

ASSUME FollowerAssumption ==
  IsFiniteSet(Follower) /\ Reachable \subseteq Follower /\ "leader" \notin Follower
ASSUME TimeAssumption ==
  /\ RequestTimeout \in Nat \ {0}
  /\ ElectionTimeout \in Nat \ {0}
  /\ FullCycle \in Nat \ {0}

VARIABLES
  leaderElapsed,   \* timeout_elapsed of the leader
  cycle,           \* appendentries_cycle, modulo FullCycle
  entry,           \* the leader's proposal: "none", "pending" or "committed"
  acked,           \* the followers whose match_idx covers the proposal
  inFlight,        \* AppendEntries under way, with the proposal or without
  elapsed,         \* timeout_elapsed of the Reachable followers
  timeout,         \* election_timeout_rand of the Reachable followers
  candidates,      \* the Reachable followers that have timed out
  ticked           \* the vehicles whose raft_periodic has run in this tick

leaderVars == <<leaderElapsed, cycle, entry, acked>>
followerVars == <<elapsed, timeout, candidates>>
vars == <<leaderVars, followerVars, inFlight, ticked>>

Leader == "leader"
Message == [to : Follower, entry : BOOLEAN]

Send(followers, withEntry) ==
  inFlight' = inFlight \cup [to : followers, entry : {withEntry}]

-----------------------------------------------------------------------------
(* The tick of the leader *)

(* raft_send_appendentries_all: while the proposal is not committed, the   *)
(* followers that have acknowledged it are skipped, except on every fifth  *)
(* cycle.                                                                  *)
\* Faulty: without the exception.
SkipsAlways(c) == entry = "pending"
Skips(c) == entry = "pending" /\ c % FullCycle # 0

\* Faulty: the timer is not started over.
KeepsCounting == leaderElapsed + 1
StartsOver == 0

LeaderPeriodic ==
  /\ Leader \notin ticked
  /\ ticked' = ticked \cup {Leader}
  /\ IF RequestTimeout <= leaderElapsed + 1
     THEN /\ cycle' = (cycle + 1) % FullCycle
          /\ leaderElapsed' = StartsOver
          /\ Send(Follower \ (IF Skips(cycle') THEN acked ELSE {}), entry # "none")
     ELSE /\ leaderElapsed' = leaderElapsed + 1
          /\ UNCHANGED <<cycle, inFlight>>
  /\ UNCHANGED <<entry, acked, followerVars>>

(* raft_recv_entry: all followers are up to date, and are sent the entry.  *)
RecvEntry ==
  /\ entry = "none"
  /\ entry' = "pending"
  /\ Send(Follower, TRUE)
  /\ UNCHANGED <<leaderElapsed, cycle, acked, followerVars, ticked>>

-----------------------------------------------------------------------------
(* The followers *)

(* raft_recv_appendentries at a follower and, unless the answer is lost,   *)
(* raft_recv_appendentries_response at the leader, with the commit.        *)
Acknowledge(j) ==
  /\ acked' = acked \cup {j}
  /\ entry' = IF (Cardinality(Follower) + 1) \div 2 < Cardinality(acked') + 1
              THEN "committed" ELSE entry

Deliver(m) ==
  /\ inFlight' = inFlight \ {m}
  /\ elapsed' = [j \in Reachable |-> IF j = m.to THEN 0 ELSE elapsed[j]]
  /\ \/ m.entry /\ Acknowledge(m.to)
     \/ ~m.entry /\ UNCHANGED <<entry, acked>>
     \/ m.to \notin Reachable /\ UNCHANGED <<entry, acked>>
  /\ UNCHANGED <<leaderElapsed, cycle, timeout, candidates, ticked>>

Lose(m) ==
  /\ m.to \notin Reachable
  /\ inFlight' = inFlight \ {m}
  /\ UNCHANGED <<leaderVars, followerVars, ticked>>

(* raft_periodic at a follower: an election starts once the timer reaches  *)
(* election_timeout_rand.                                                  *)
FollowerPeriodic(j) ==
  /\ j \notin ticked
  /\ ticked' = ticked \cup {j}
  /\ elapsed' = [elapsed EXCEPT ![j] = @ + 1]
  /\ candidates' = IF timeout[j] <= elapsed[j] + 1 THEN candidates \cup {j}
                                                   ELSE candidates
  /\ UNCHANGED <<leaderVars, timeout, inFlight>>

-----------------------------------------------------------------------------
(* A tick passes, and with it the time a message to a Reachable follower   *)
(* takes.  A candidate ends the leadership.                                *)
NextTick ==
  /\ candidates = {}
  /\ ticked = Reachable \cup {Leader}
  /\ \A m \in inFlight : m.to \notin Reachable
  /\ ticked' = {}
  /\ UNCHANGED <<leaderVars, followerVars, inFlight>>

(* raft_become_leader has just reached the Reachable followers.  The cycle *)
(* counter goes on from earlier leaderships.  election_timeout_rand is     *)
(* drawn from [election_timeout, 2 * election_timeout).                    *)
Init ==
  /\ leaderElapsed = 0
  /\ cycle \in 0..(FullCycle - 1)
  /\ entry = "none"
  /\ acked = {}
  /\ inFlight = [to : Follower \ Reachable, entry : {FALSE}]
  /\ elapsed = [j \in Reachable |-> 0]
  /\ timeout \in [Reachable -> ElectionTimeout..(2 * ElectionTimeout - 1)]
  /\ candidates = {}
  /\ ticked = {}

Next ==
  \/ LeaderPeriodic
  \/ RecvEntry
  \/ \E m \in inFlight : Deliver(m) \/ Lose(m)
  \/ \E j \in Reachable : FollowerPeriodic(j)
  \/ NextTick

Spec == Init /\ [][Next]_vars

-----------------------------------------------------------------------------
TypeOK ==
  /\ leaderElapsed \in Nat
  /\ cycle \in 0..(FullCycle - 1)
  /\ entry \in {"none", "pending", "committed"}
  /\ acked \subseteq Follower
  /\ inFlight \subseteq Message
  /\ elapsed \in [Reachable -> Nat]
  /\ timeout \in [Reachable -> ElectionTimeout..(2 * ElectionTimeout - 1)]
  /\ candidates \subseteq Reachable
  /\ ticked \subseteq Reachable \cup {Leader}

(* "Heartbeat to prevent election timeout": no follower that hears all the *)
(* leader sends starts an election against it.                             *)
HeardInTime == candidates = {}

(* A leader's own timer never gets as far as the election timeout, so that *)
(* raft_recv_requestvote always has the leader refuse other candidates.    *)
LeaderUndisturbed == leaderElapsed < ElectionTimeout

(* Why HeardInTime holds when the election timeout is long enough.  The    *)
(* next full heartbeat is due in ToFullHeartbeat ticks of the leader; a    *)
(* follower's timer runs at most one tick ahead of the leader's, and so    *)
(* reaches no more than FullCycle * RequestTimeout + 1 before it arrives.  *)
ToFullHeartbeat ==
  (FullCycle - cycle - 1) * RequestTimeout + RequestTimeout - leaderElapsed
Rest(v) == IF v \in ticked THEN 0 ELSE 1
LongestSilence == FullCycle * RequestTimeout + 1
HeartbeatDue(j) ==
  /\ elapsed[j] + Rest(j) <= LongestSilence
  /\ \/ \E m \in inFlight : m.to = j
     \/ elapsed[j] + Rest(j) + ToFullHeartbeat - Rest(Leader) <= LongestSilence
HeartbeatInv ==
  /\ TypeOK
  /\ leaderElapsed < RequestTimeout
  /\ \A j \in Reachable : HeartbeatDue(j)
=============================================================================
