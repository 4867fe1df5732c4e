------------------------ MODULE HeartbeatTimingProof ------------------------
(***************************************************************************)
(* How long the election timeout has to be for a leader's heartbeats to    *)
(* keep its followers from electing another one, for every cluster, every  *)
(* request timeout and every length of the heartbeat cycle.                *)
(***************************************************************************)
EXTENDS HeartbeatTiming, TLAPS

(* The full heartbeat comes every FullCycle request timeouts; an election  *)
(* timeout has to be longer than that and one tick.                        *)
TimeoutIsLong == LongestSilence < ElectionTimeout

Bound == FullCycle * RequestTimeout

-----------------------------------------------------------------------------
(* The product of two constants is out of the reach of linear arithmetic:  *)
(* what is needed of it.                                                   *)
LEMMA CycleLength ==
  ASSUME NEW c \in 0..(FullCycle - 1)
  PROVE  /\ Bound \in Nat
         /\ (FullCycle - c - 1) * RequestTimeout \in Nat
         /\ (FullCycle - c - 1) * RequestTimeout + RequestTimeout <= Bound
         /\ c + 1 < FullCycle =>
              (FullCycle - (c + 1) - 1) * RequestTimeout + RequestTimeout
                = (FullCycle - c - 1) * RequestTimeout
         /\ RequestTimeout <= Bound
PROOF
  <1> DEFINE F == FullCycle
             R == RequestTimeout
  <1>1. F \in Nat \ {0} /\ R \in Nat \ {0}
    BY TimeAssumption
  <1>2. \A k \in Nat : k * R \in Nat /\ (k + 1) * R = k * R + R
    BY <1>1, SMT
  <1>3. F * R = c * R + (F - c - 1) * R + R
    BY <1>1, SMT
  <1>4. c * R \in Nat /\ (F - c - 1) * R \in Nat /\ F * R \in Nat
    BY <1>1, <1>2
  <1>5. (F - c - 1) * R + R <= F * R /\ R <= F * R
    <2> HIDE DEF F, R
    <2> QED BY <1>1, <1>3, <1>4
  <1>6. ASSUME c + 1 < F
        PROVE  (F - (c + 1) - 1) * R + R = (F - c - 1) * R
    BY <1>1, <1>6, SMT
  <1>7. QED
    BY <1>4, <1>5, <1>6 DEF Bound

-----------------------------------------------------------------------------
LEMMA InitInv == Init => HeartbeatInv
PROOF
  <1> SUFFICES ASSUME Init PROVE HeartbeatInv
    OBVIOUS
  <1>1. TypeOK
    BY FollowerAssumption, TimeAssumption DEF Init, TypeOK, Message
  <1>2. leaderElapsed < RequestTimeout
    BY TimeAssumption DEF Init
  <1>3. ASSUME NEW j \in Reachable PROVE HeartbeatDue(j)
    <2>1. elapsed[j] = 0 /\ Rest(j) = 1 /\ Rest(Leader) = 1 /\ leaderElapsed = 0
      BY DEF Init, Rest
    <2> DEFINE P == (FullCycle - cycle - 1) * RequestTimeout
    <2>2. Bound \in Nat /\ P \in Nat /\ P + RequestTimeout <= Bound
      BY CycleLength DEF Init
    <2>3. ToFullHeartbeat = P + RequestTimeout
      BY <2>1, <2>2, TimeAssumption DEF ToFullHeartbeat
    <2> HIDE DEF P
    <2>4. QED
      BY <2>1, <2>2, <2>3, TimeAssumption DEF HeartbeatDue, LongestSilence, Bound
  <1>4. QED
    BY <1>1, <1>2, <1>3 DEF HeartbeatInv

(* The time to the next full heartbeat is a natural number of ticks, from  *)
(* one to the whole cycle.                                                 *)
LEMMA TimeLeft ==
  ASSUME HeartbeatInv
  PROVE  ToFullHeartbeat \in 1..Bound
PROOF
  <1>1. cycle \in 0..(FullCycle - 1) /\ leaderElapsed \in Nat
        /\ leaderElapsed < RequestTimeout
    BY DEF HeartbeatInv, TypeOK
  <1> DEFINE P == (FullCycle - cycle - 1) * RequestTimeout
  <1>2. P \in Nat /\ P + RequestTimeout <= Bound /\ Bound \in Nat
    BY <1>1, CycleLength
  <1>3. ToFullHeartbeat = P + RequestTimeout - leaderElapsed
    BY DEF ToFullHeartbeat
  <1> HIDE DEF P
  <1>4. QED
    BY <1>1, <1>2, <1>3, TimeAssumption

(* What a tick of the leader does to that time: a full heartbeat is sent,  *)
(* or it is one tick nearer.                                               *)
LEMMA LeaderTick ==
  ASSUME HeartbeatInv, LeaderPeriodic
  PROVE  /\ leaderElapsed' \in Nat /\ leaderElapsed' < RequestTimeout
         /\ cycle' \in 0..(FullCycle - 1)
         /\ \/ ToFullHeartbeat' = ToFullHeartbeat - 1
            \/ \A j \in Reachable : \E m \in inFlight' : m.to = j
PROOF
  <1>1. /\ cycle \in 0..(FullCycle - 1)
        /\ leaderElapsed \in Nat /\ leaderElapsed < RequestTimeout
        /\ RequestTimeout \in Nat \ {0} /\ FullCycle \in Nat \ {0}
    BY TimeAssumption DEF HeartbeatInv, TypeOK
  <1>2. CASE ~(RequestTimeout <= leaderElapsed + 1)
    <2>1. leaderElapsed' = leaderElapsed + 1 /\ cycle' = cycle
      BY <1>2 DEF LeaderPeriodic
    <2> DEFINE P == (FullCycle - cycle - 1) * RequestTimeout
    <2>2. P \in Nat
      BY <1>1, CycleLength
    <2>3. /\ ToFullHeartbeat = P + RequestTimeout - leaderElapsed
          /\ ToFullHeartbeat' = P + RequestTimeout - leaderElapsed'
      BY <2>1 DEF ToFullHeartbeat
    <2> HIDE DEF P
    <2>4. QED
      BY <1>1, <1>2, <2>1, <2>2, <2>3
  <1>3. CASE RequestTimeout <= leaderElapsed + 1
    <2>1. /\ leaderElapsed' = 0 /\ cycle' = (cycle + 1) % FullCycle
          /\ Send(Follower \ (IF Skips(cycle') THEN acked ELSE {}), entry # "none")
      BY <1>3 DEF LeaderPeriodic, StartsOver
    <2>2. CASE cycle + 1 < FullCycle
      <3>1. cycle' = cycle + 1
        BY <1>1, <2>1, <2>2
      <3> DEFINE P(c) == (FullCycle - c - 1) * RequestTimeout
      <3>2. P(cycle) \in Nat /\ P(cycle + 1) + RequestTimeout = P(cycle)
        BY <1>1, <2>2, CycleLength
      <3>3. /\ ToFullHeartbeat = P(cycle) + RequestTimeout - leaderElapsed
            /\ ToFullHeartbeat' = P(cycle + 1) + RequestTimeout - leaderElapsed'
        BY <3>1 DEF ToFullHeartbeat
      <3>4. P(cycle + 1) \in Int
        BY <1>1, <3>1
      <3> HIDE DEF P
      <3>5. QED
        BY <1>1, <1>3, <2>1, <2>2, <3>1, <3>2, <3>3, <3>4
    <2>3. CASE cycle + 1 >= FullCycle
      <3>1. cycle' = 0 /\ ~Skips(cycle')
        BY <1>1, <2>1, <2>3 DEF Skips
      <3>2. inFlight' = inFlight \cup [to : Follower, entry : {entry # "none"}]
        BY <2>1, <3>1 DEF Send
      <3>3. \A j \in Reachable : [to |-> j, entry |-> entry # "none"] \in inFlight'
        BY <3>2, FollowerAssumption
      <3>4. \A j \in Reachable : \E m \in inFlight' : m.to = j
        BY <3>3
      <3>5. QED
        BY <1>1, <2>1, <3>1, <3>4
    <2>4. QED
      BY <1>1, <2>2, <2>3
  <1>4. QED
    BY <1>2, <1>3

-----------------------------------------------------------------------------
LEMMA SentAreMessages ==
  ASSUME NEW S \in SUBSET Follower, NEW e \in BOOLEAN,
         inFlight \subseteq Message, Send(S, e)
  PROVE  inFlight' \subseteq Message
PROOF
  BY DEF Send, Message

LEMMA TypesStep == TypeOK /\ [Next]_vars => TypeOK'
PROOF
  <1> SUFFICES ASSUME TypeOK, [Next]_vars PROVE TypeOK'
    OBVIOUS
  <1> USE FollowerAssumption, TimeAssumption
  <1>1. CASE LeaderPeriodic
    <2>1. leaderElapsed' \in Nat
      BY <1>1 DEF LeaderPeriodic, StartsOver, TypeOK
    <2>2. cycle' \in 0..(FullCycle - 1)
      BY <1>1 DEF LeaderPeriodic, TypeOK
    <2>3. inFlight' \subseteq Message
      <3>1. CASE UNCHANGED inFlight
        BY <3>1 DEF TypeOK
      <3>2. CASE Send(Follower \ (IF Skips(cycle') THEN acked ELSE {}), entry # "none")
        BY <3>2, SentAreMessages DEF TypeOK
      <3>3. QED
        BY <1>1, <3>1, <3>2 DEF LeaderPeriodic
    <2>4. QED
      BY <1>1, <2>1, <2>2, <2>3 DEF LeaderPeriodic, followerVars, TypeOK
  <1>2. CASE RecvEntry
    BY <1>2 DEF RecvEntry, Send, followerVars, TypeOK, Message
  <1>3. ASSUME NEW m \in inFlight, Deliver(m) PROVE TypeOK'
    <2>1. m.to \in Follower /\ inFlight' \subseteq Message
      BY <1>3 DEF Deliver, TypeOK, Message
    <2>2. elapsed' \in [Reachable -> Nat]
      BY <1>3 DEF Deliver, TypeOK
    <2>3. acked' \subseteq Follower /\ entry' \in {"none", "pending", "committed"}
      BY <1>3, <2>1 DEF Deliver, Acknowledge, TypeOK
    <2>4. QED
      BY <1>3, <2>1, <2>2, <2>3 DEF Deliver, TypeOK
  <1>4. ASSUME NEW m \in inFlight, Lose(m) PROVE TypeOK'
    BY <1>4 DEF Lose, leaderVars, followerVars, TypeOK
  <1>5. ASSUME NEW j \in Reachable, FollowerPeriodic(j) PROVE TypeOK'
    BY <1>5 DEF FollowerPeriodic, leaderVars, TypeOK
  <1>6. CASE NextTick
    BY <1>6 DEF NextTick, leaderVars, followerVars, TypeOK
  <1>7. CASE UNCHANGED vars
    BY <1>7 DEF vars, leaderVars, followerVars, TypeOK
  <1>8. QED
    BY <1>1, <1>2, <1>3, <1>4, <1>5, <1>6, <1>7 DEF Next

(* Steps that leave the leader's timer and the follower's alone, and take  *)
(* no message to the follower off the air.                                 *)
LEMMA QuietDue ==
  ASSUME HeartbeatInv, NEW j \in Reachable,
         UNCHANGED <<leaderElapsed, cycle, ticked>>, elapsed'[j] = elapsed[j],
         \A m \in inFlight : m.to = j => m \in inFlight'
  PROVE  HeartbeatDue(j)'
PROOF
  <1>1. HeartbeatDue(j) /\ ToFullHeartbeat' = ToFullHeartbeat
        /\ Rest(j)' = Rest(j) /\ Rest(Leader)' = Rest(Leader)
    BY DEF HeartbeatInv, ToFullHeartbeat, Rest
  <1>2. QED
    BY <1>1 DEF HeartbeatDue, LongestSilence

(* A follower that has just heard the leader.                              *)
LEMMA HeardDue ==
  ASSUME HeartbeatInv, NEW m \in inFlight, Deliver(m), NEW j \in Reachable, m.to = j
  PROVE  HeartbeatDue(j)'
PROOF
  <1>1. elapsed'[j] = 0 /\ ToFullHeartbeat' = ToFullHeartbeat
    BY DEF Deliver, ToFullHeartbeat
  <1>2. ToFullHeartbeat \in 1..Bound /\ Bound \in Nat
    BY TimeLeft, CycleLength, TimeAssumption
  <1>3. Rest(j)' \in 0..1 /\ Rest(Leader)' \in 0..1
    BY DEF Rest
  <1>4. elapsed'[j] + Rest(j)' <= Bound + 1
    BY <1>1, <1>2, <1>3
  <1>5. elapsed'[j] + Rest(j)' + ToFullHeartbeat' - Rest(Leader)' <= Bound + 1
    BY <1>1, <1>2, <1>3
  <1>6. QED
    BY <1>4, <1>5 DEF HeartbeatDue, LongestSilence, Bound

LEMMA DueStep ==
  ASSUME HeartbeatInv, [Next]_vars, NEW j \in Reachable
  PROVE  HeartbeatDue(j)'
PROOF
  <1> USE FollowerAssumption, TimeAssumption
  <1>1. /\ elapsed \in [Reachable -> Nat] /\ HeartbeatDue(j)
        /\ ToFullHeartbeat \in Int /\ Bound \in Nat /\ LongestSilence = Bound + 1
    BY TimeLeft, CycleLength DEF HeartbeatInv, TypeOK, LongestSilence, Bound
  <1>2. j # Leader
    BY DEF Leader
  <1>3. CASE LeaderPeriodic
    <2>1. /\ elapsed'[j] = elapsed[j] /\ Rest(j)' = Rest(j)
          /\ Rest(Leader) = 1 /\ Rest(Leader)' = 0
          /\ \A m \in inFlight : m \in inFlight'
      BY <1>2, <1>3 DEF LeaderPeriodic, followerVars, Rest, Send
    <2>2. \/ ToFullHeartbeat' = ToFullHeartbeat - 1
          \/ \E m \in inFlight' : m.to = j
      BY <1>3, LeaderTick
    <2>3. Rest(j) \in Int /\ elapsed[j] \in Nat
      BY <1>1 DEF Rest
    <2>4. LongestSilence' = LongestSilence
      BY DEF LongestSilence
    <2>5. elapsed'[j] + Rest(j)' <= LongestSilence
      BY <1>1, <2>1 DEF HeartbeatDue
    <2>6. CASE \E m \in inFlight' : m.to = j
      BY <2>4, <2>5, <2>6 DEF HeartbeatDue
    <2>7. CASE ~ \E m \in inFlight' : m.to = j
      <3>1. elapsed[j] + Rest(j) + ToFullHeartbeat - Rest(Leader) <= LongestSilence
        BY <1>1, <2>1, <2>7 DEF HeartbeatDue
      <3>2. elapsed'[j] + Rest(j)' + ToFullHeartbeat' - Rest(Leader)' <= LongestSilence
        BY <1>1, <2>1, <2>2, <2>3, <2>7, <3>1
      <3>3. QED
        BY <2>4, <2>5, <3>2 DEF HeartbeatDue
    <2>8. QED
      BY <2>6, <2>7
  <1>4. CASE RecvEntry
    <2>1. /\ UNCHANGED <<leaderElapsed, cycle, ticked, elapsed>>
          /\ \A m \in inFlight : m \in inFlight'
      BY <1>4 DEF RecvEntry, Send, followerVars
    <2>2. QED
      BY <2>1, QuietDue
  <1>5. ASSUME NEW m \in inFlight, Deliver(m) PROVE HeartbeatDue(j)'
    <2>1. CASE m.to = j
      BY <1>5, <2>1, HeardDue
    <2>2. CASE m.to # j
      <3>1. /\ UNCHANGED <<leaderElapsed, cycle, ticked>> /\ elapsed'[j] = elapsed[j]
            /\ \A n \in inFlight : n.to = j => n \in inFlight'
        BY <1>5, <2>2 DEF Deliver
      <3>2. QED
        BY <3>1, QuietDue
    <2>3. QED
      BY <2>1, <2>2
  <1>6. ASSUME NEW m \in inFlight, Lose(m) PROVE HeartbeatDue(j)'
    <2>1. /\ UNCHANGED <<leaderElapsed, cycle, ticked, elapsed>>
          /\ \A n \in inFlight : n.to = j => n \in inFlight'
      BY <1>6 DEF Lose, leaderVars, followerVars
    <2>2. QED
      BY <2>1, QuietDue
  <1>7. ASSUME NEW k \in Reachable, FollowerPeriodic(k) PROVE HeartbeatDue(j)'
    <2>1. /\ ToFullHeartbeat' = ToFullHeartbeat /\ LongestSilence' = LongestSilence
          /\ Rest(Leader)' = Rest(Leader) /\ inFlight' = inFlight
      BY <1>7 DEF FollowerPeriodic, leaderVars, ToFullHeartbeat, LongestSilence, Rest, Leader
    <2>2. elapsed'[j] + Rest(j)' = elapsed[j] + Rest(j)
      <3>1. CASE j = k
        BY <1>1, <1>7, <3>1 DEF FollowerPeriodic, Rest
      <3>2. CASE j # k
        BY <1>1, <1>7, <3>2 DEF FollowerPeriodic, Rest
      <3>3. QED
        BY <3>1, <3>2
    <2>3. QED
      BY <1>1, <2>1, <2>2 DEF HeartbeatDue
  <1>8. CASE NextTick
    <2>1. /\ elapsed'[j] = elapsed[j] /\ ToFullHeartbeat' = ToFullHeartbeat
          /\ LongestSilence' = LongestSilence
      BY <1>8 DEF NextTick, leaderVars, followerVars, ToFullHeartbeat, LongestSilence
    <2>2. Rest(j) = 0 /\ Rest(Leader) = 0 /\ Rest(j)' = 1 /\ Rest(Leader)' = 1
      BY <1>8 DEF NextTick, Rest
    <2>3. ~ \E m \in inFlight : m.to = j
      BY <1>8 DEF NextTick
    <2>4. elapsed[j] + ToFullHeartbeat <= LongestSilence
      BY <1>1, <2>2, <2>3 DEF HeartbeatDue
    <2>5. ToFullHeartbeat >= 1
      BY TimeLeft, <1>1
    <2>6. elapsed'[j] + Rest(j)' <= LongestSilence
      BY <1>1, <2>1, <2>2, <2>4, <2>5
    <2>7. elapsed'[j] + Rest(j)' + ToFullHeartbeat' - Rest(Leader)' <= LongestSilence
      BY <1>1, <2>1, <2>2, <2>4
    <2>8. QED
      BY <2>1, <2>6, <2>7 DEF HeartbeatDue
  <1>9. CASE UNCHANGED vars
    <2>1. /\ UNCHANGED <<leaderElapsed, cycle, ticked, elapsed>>
          /\ \A n \in inFlight : n.to = j => n \in inFlight'
      BY <1>9 DEF vars, leaderVars, followerVars
    <2>2. QED
      BY <2>1, QuietDue
  <1>10. QED
    BY <1>3, <1>4, <1>5, <1>6, <1>7, <1>8, <1>9 DEF Next

-----------------------------------------------------------------------------
LEMMA StepInv == HeartbeatInv /\ [Next]_vars => HeartbeatInv'
PROOF
  <1> SUFFICES ASSUME HeartbeatInv, [Next]_vars PROVE HeartbeatInv'
    OBVIOUS
  <1>1. TypeOK'
    BY TypesStep DEF HeartbeatInv
  <1>2. leaderElapsed' < RequestTimeout
    <2>1. leaderElapsed < RequestTimeout
      BY DEF HeartbeatInv
    <2>2. CASE LeaderPeriodic
      BY <2>2, LeaderTick
    <2>3. CASE UNCHANGED leaderElapsed
      BY <2>1, <2>3
    <2>4. QED
      BY <2>2, <2>3
         DEF Next, vars, leaderVars, RecvEntry, Deliver, Lose, FollowerPeriodic, NextTick
  <1>3. \A j \in Reachable : HeartbeatDue(j)'
    BY DueStep
  <1>4. QED
    BY <1>1, <1>2, <1>3 DEF HeartbeatInv

(* The timers keep to the schedule of the heartbeats, whatever the         *)
(* election timeout.                                                       *)
THEOREM HeartbeatInvariant == Spec => []HeartbeatInv
PROOF
  <1>1. QED
    BY InitInv, StepInv, PTL DEF Spec

(* A long enough election timeout: no follower that hears all the leader   *)
(* sends starts an election against it, however long the proposal stays    *)
(* uncommitted and the follower is skipped (raft_send_appendentries_all).  *)
THEOREM HeardInTimeHolds == TimeoutIsLong => (Spec => []HeardInTime)
PROOF
  <1> SUFFICES ASSUME TimeoutIsLong PROVE Spec => []HeardInTime
    OBVIOUS
  <1>1. Init => HeardInTime
    BY DEF Init, HeardInTime
  <1>2. HeartbeatInv /\ HeardInTime /\ [Next]_vars => HeardInTime'
    <2> SUFFICES ASSUME HeartbeatInv, HeardInTime, [Next]_vars PROVE HeardInTime'
      OBVIOUS
    <2>1. ASSUME NEW j \in Reachable, FollowerPeriodic(j) PROVE HeardInTime'
      <3>1. Rest(j) = 1 /\ elapsed[j] + Rest(j) <= LongestSilence
        BY <2>1 DEF FollowerPeriodic, Rest, HeartbeatInv, HeartbeatDue
      <3>2. timeout[j] \in ElectionTimeout..(2 * ElectionTimeout - 1) /\ elapsed[j] \in Nat
        BY DEF HeartbeatInv, TypeOK
      <3>3. LongestSilence \in Int /\ ElectionTimeout \in Int
        BY CycleLength, TimeAssumption DEF LongestSilence
      <3>4. ~(timeout[j] <= elapsed[j] + 1)
        BY <3>1, <3>2, <3>3 DEF TimeoutIsLong
      <3>5. QED
        BY <2>1, <3>4 DEF FollowerPeriodic, HeardInTime
    <2>2. CASE UNCHANGED candidates
      BY <2>2 DEF HeardInTime
    <2>3. QED
      BY <2>1, <2>2
         DEF Next, vars, followerVars, LeaderPeriodic, RecvEntry, Deliver, Lose, NextTick
  <1>3. QED
    BY <1>1, <1>2, HeartbeatInvariant, PTL DEF Spec

(* The leader's own timer starts over long before an election timeout      *)
(* (raft_recv_requestvote).                                                *)
THEOREM LeaderUndisturbedHolds ==
  RequestTimeout <= ElectionTimeout => (Spec => []LeaderUndisturbed)
PROOF
  <1> SUFFICES ASSUME RequestTimeout <= ElectionTimeout PROVE Spec => []LeaderUndisturbed
    OBVIOUS
  <1>1. HeartbeatInv => LeaderUndisturbed
    BY TimeAssumption DEF HeartbeatInv, TypeOK, LeaderUndisturbed
  <1>2. QED
    BY <1>1, HeartbeatInvariant, PTL
=============================================================================
