---------------------------- MODULE CrossingProof ----------------------------
(* Why vehicles of different batches do not meet, for any number of vehicles*)
(* on any approaches and any committed schedule: when raft commits one      *)
(* schedule (OneOrder), a vehicle that has not given up has behind it all   *)
(* vehicles of earlier batches that it ever heard of.                       *)
EXTENDS Crossing, TLAPS

OneOrder == \A l \in Logs : Len(l) = 1

-----------------------------------------------------------------------------
(* The one schedule, with every vehicle in at most one of its batches.      *)
LEMMA TheSchedule ==
  ASSUME OneOrder, TypeOK
  PROVE  /\ Len(log) = 1 /\ DOMAIN log = {1}
         /\ log[1] \in Seq(SUBSET Vehicle)
         /\ \A j, k \in DOMAIN log[1] : j # k => log[1][j] \cap log[1][k] = {}
  <1>0. log \in Logs
    BY DEF TypeOK
  <1>1. log \in Seq(Seq(SUBSET Vehicle)) /\ Len(log) = 1
    BY <1>0, LogAssumption DEF OneOrder
  <1>2. DOMAIN log = {1}
    BY <1>1
  <1>3. log[1] \in Seq(SUBSET Vehicle)
    BY <1>1, <1>2
  <1>4. \A j, k \in DOMAIN log[1] : j # k => log[1][j] \cap log[1][k] = {}
    BY <1>0, <1>2, LogAssumption
  <1>. QED
    BY <1>1, <1>2, <1>3, <1>4

LEMMA ScheduleOfVehicle ==
  ASSUME OneOrder, TypeOK, NEW v \in Vehicle
  PROVE  Schedule(v) = IF order[v] = 0 THEN <<>> ELSE log[1]
  <1>1. order[v] \in 0..1
    BY TheSchedule DEF TypeOK
  <1>. QED
    BY <1>1 DEF Schedule

-----------------------------------------------------------------------------
(* Initially nobody has an order and nobody moves by one.                   *)
LEMMA CrossingInit == Init => CrossingInv
  <1>. SUFFICES ASSUME Init PROVE CrossingInv
    OBVIOUS
  <1>1. TypeOK
    BY DEF Init, TypeOK
  <1>2. CountedLeft
    BY DEF Init, CountedLeft, Schedule
  <1>3. CountsAfresh /\ WayIsClear /\ GaveUp
    BY DEF Init, CountsAfresh, WayIsClear, GaveUp
  <1>. QED
    BY <1>1, <1>2, <1>3 DEF CrossingInv

-----------------------------------------------------------------------------
(* Every step keeps the types, and a vehicle that has passed stays away.    *)
LEMMA Changed ==
  ASSUME NEW S, NEW T, NEW f \in [S -> T], NEW x \in S, NEW y \in T
  PROVE  [f EXCEPT ![x] = y] \in [S -> T]
  OBVIOUS

LEMMA LostStep ==
  ASSUME TypeOK, [Next]_vars
  PROVE  lost' \in [Vehicle -> SUBSET Vehicle] /\ \A w \in Vehicle : lost[w] \subseteq lost'[w]
  <1>1. CASE lost' = lost
    BY <1>1 DEF TypeOK
  <1>2. ASSUME NEW v \in Vehicle, PollBatchExit(v), lost' # lost
        PROVE  \E failed \in SUBSET Vehicle : lost' = [lost EXCEPT ![v] = @ \cup failed]
    <2>1. Fallible[v] \subseteq Vehicle
      BY VehicleAssumption
    <2>. QED
      BY <1>2, <2>1 DEF PollBatchExit, CountBatch
  <1>3. CASE lost' # lost
    <2>1. PICK v \in Vehicle : PollBatchExit(v)
      BY <1>3 DEF Next, vars, roadVars, orderVars, Queue, ReachLine, Recheck, EnterJunction,
             ExitJunction, ApplyLog, HearPassOrder, ParkedTimeout, QueuedTimeout,
             MissingTimeout, LoseLead, PromotedToFront, RoundTimeout
    <2>2. PICK failed \in SUBSET Vehicle : lost' = [lost EXCEPT ![v] = @ \cup failed]
      BY <1>2, <1>3, <2>1
    <2>3. lost[v] \cup failed \in SUBSET Vehicle
      BY DEF TypeOK
    <2>. QED
      BY <2>2, <2>3 DEF TypeOK
  <1>. QED
    BY <1>1, <1>3

LEMMA TypeStep ==
  ASSUME OneOrder, TypeOK, [Next]_vars
  PROVE  TypeOK' /\ \A u \in Vehicle : Passed(u) => Passed(u)'
  <1>. DEFINE Kept == TypeOK' /\ \A u \in Vehicle : Passed(u) => Passed(u)'
  <1>. SUFFICES Kept
    OBVIOUS
  <1>. USE DEF Passed, orderVars, roadVars
  <1>t. \A v \in Vehicle, t \in {"missing", "parked", "queued", "round"} :
          StartTimer(v, t) => timers' \in [Vehicle -> SUBSET {"missing", "parked", "queued", "round"}]
    <2>. SUFFICES ASSUME NEW v \in Vehicle, NEW t \in {"missing", "parked", "queued", "round"},
                         StartTimer(v, t)
                  PROVE  timers' \in [Vehicle -> SUBSET {"missing", "parked", "queued", "round"}]
      OBVIOUS
    <2>1. timers[v] \cup {t} \in SUBSET {"missing", "parked", "queued", "round"}
      BY DEF TypeOK
    <2>. QED
      BY <2>1, Changed DEF StartTimer, TypeOK
  <1>m. \A v \in Vehicle :
          Resume(v) \/ Hold(v) => motion' \in [Vehicle -> {"follow", "held", "go"}]
    BY DEF Resume, Hold, TypeOK
  <1>1. CASE UNCHANGED vars
    BY <1>1 DEF vars, TypeOK
  <1>2. ASSUME NEW v \in Vehicle, Queue(v) PROVE Kept
    BY <1>2, <1>t DEF Queue, TypeOK
  <1>3. ASSUME NEW v \in Vehicle, ReachLine(v) PROVE Kept
    <2>1. loc' \in [Vehicle -> {"approach", "line", "junction", "exit"}]
      BY <1>3 DEF ReachLine, TypeOK
    <2>2. stopped' \in [Vehicle -> BOOLEAN]
      BY <1>3 DEF ReachLine, TypeOK
    <2>3. timers' \in [Vehicle -> SUBSET {"missing", "parked", "queued", "round"}]
      BY <1>3, <1>t DEF ReachLine, TypeOK
    <2>4. motion' \in [Vehicle -> {"follow", "held", "go"}]
      BY <1>3, <1>m DEF ReachLine, TypeOK
    <2>5. \A u \in Vehicle : Passed(u) => Passed(u)'
      BY <1>3 DEF ReachLine, TypeOK
    <2>. QED
      BY <1>3, <2>1, <2>2, <2>3, <2>4, <2>5 DEF ReachLine, TypeOK
  <1>4. ASSUME NEW v \in Vehicle, Recheck(v) PROVE Kept
    BY <1>4, <1>m DEF Recheck, TypeOK
  <1>5. ASSUME NEW v \in Vehicle, EnterJunction(v) PROVE Kept
    BY <1>5 DEF EnterJunction, TypeOK
  <1>6. ASSUME NEW v \in Vehicle, ExitJunction(v) PROVE Kept
    BY <1>6 DEF ExitJunction, TypeOK
  <1>o. ASSUME NEW v \in Vehicle, NEW k \in DOMAIN log, ApplyOrder(v, k)
        PROVE  /\ order' \in [Vehicle -> 0..Len(log)]
               /\ motion' \in [Vehicle -> {"follow", "held", "go"}]
               /\ polling' \in [Vehicle -> BOOLEAN]
               /\ timers' \in [Vehicle -> SUBSET {"missing", "parked", "queued", "round"}]
    <2>1. order' \in [Vehicle -> 0..Len(log)]
      <3>1. k \in 0..Len(log)
        BY TheSchedule
      <3>. QED
        BY <1>o, <3>1 DEF ApplyOrder, TypeOK
    <2>2. CASE v \in Scheduled(log[k])
      BY <1>o, <2>1, <2>2, <1>m DEF ApplyOrder, TypeOK
    <2>3. CASE v \notin Scheduled(log[k])
      BY <1>o, <2>1, <2>3, <1>t DEF ApplyOrder, TypeOK
    <2>. QED
      BY <2>2, <2>3
  <1>7. ASSUME NEW v \in Vehicle, ApplyLog(v) PROVE Kept
    <2>1. applied[v] + 1 \in DOMAIN log /\ ApplyOrder(v, applied[v] + 1)
      BY <1>7 DEF ApplyLog
    <2>2. applied' \in [Vehicle -> 0..Len(log)]
      <3>1. applied[v] + 1 \in 0..Len(log)
        BY <2>1, TheSchedule, SMTT(20)
      <3>. QED
        BY <1>7, <3>1 DEF ApplyLog, TypeOK
    <2>3. announced' \subseteq DOMAIN log
      BY <1>7, <2>1 DEF ApplyLog, TypeOK
    <2>. QED
      BY <1>7, <2>1, <2>2, <2>3, <1>o DEF ApplyLog, TypeOK
  <1>8. ASSUME NEW v \in Vehicle, HearPassOrder(v) PROVE Kept
    <2>1. PICK k \in DOMAIN log : ApplyOrder(v, k)
      BY <1>8 DEF HearPassOrder, TypeOK
    <2>. QED
      BY <1>8, <2>1, <1>o DEF HearPassOrder, TypeOK
  <1>9. ASSUME NEW v \in Vehicle, PollBatchExit(v) PROVE Kept
    <2>. DEFINE s == Schedule(v)
                now == s[current[v]]
    <2>a. \E failed \in SUBSET (IF current[v] \in DOMAIN s THEN now ELSE {}) :
            \/ /\ polling' = [polling EXCEPT ![v] = FALSE]
               /\ left' = left /\ current' = current
            \/ /\ current' = [current EXCEPT ![v] = @ + 1]
               /\ left' = [left EXCEPT ![v] = {}]
               /\ polling' = [polling EXCEPT ![v] = current'[v] \in DOMAIN s]
            \/ /\ current[v] \in DOMAIN s
               /\ left' = [left EXCEPT ![v] = left[v] \cup failed \cup {u \in now : HasLeft(v, u)}]
               /\ current' = current /\ polling' = polling
      <3>1. CASE current[v] \notin DOMAIN s
        BY <1>9, <3>1 DEF PollBatchExit
      <3>2. CASE current[v] \in DOMAIN s
        <4>1. PICK failed \in SUBSET ((now \cap Fallible[v]) \ left[v]) : CountBatch(v, s, failed)
          BY <1>9, <3>2 DEF PollBatchExit
        <4>. QED
          BY <3>2, <4>1 DEF CountBatch
      <3>. QED
        BY <3>1, <3>2
    <2>. HIDE DEF now
    <2>b. PICK failed \in SUBSET (IF current[v] \in DOMAIN s THEN now ELSE {}) :
            \/ /\ polling' = [polling EXCEPT ![v] = FALSE]
               /\ left' = left /\ current' = current
            \/ /\ current' = [current EXCEPT ![v] = @ + 1]
               /\ left' = [left EXCEPT ![v] = {}]
               /\ polling' = [polling EXCEPT ![v] = current'[v] \in DOMAIN s]
            \/ /\ current[v] \in DOMAIN s
               /\ left' = [left EXCEPT ![v] = left[v] \cup failed \cup {u \in now : HasLeft(v, u)}]
               /\ current' = current /\ polling' = polling
      BY <2>a
    <2>. DEFINE gone == left[v] \cup failed \cup {u \in now : HasLeft(v, u)}
    <2>0. \/ /\ polling' = [polling EXCEPT ![v] = FALSE]
             /\ left' = left /\ current' = current
          \/ /\ current' = [current EXCEPT ![v] = @ + 1]
             /\ left' = [left EXCEPT ![v] = {}]
             /\ polling' = [polling EXCEPT ![v] = current'[v] \in DOMAIN s]
          \/ /\ current[v] \in DOMAIN s
             /\ left' = [left EXCEPT ![v] = gone]
             /\ current' = current /\ polling' = polling
      BY <2>b
    <2>2. current[v] \in DOMAIN s => gone \in SUBSET Vehicle
      <3>1. s = <<>> \/ s \in Seq(SUBSET Vehicle)
        BY ScheduleOfVehicle, TheSchedule
      <3>. QED
        BY <3>1 DEF TypeOK, now
    <2>. HIDE DEF s, gone
    <2>1. current' \in [Vehicle -> Nat \ {0}]
      <3>1. /\ current[v] + 1 \in Nat \ {0}
            /\ current \in [Vehicle -> Nat \ {0}]
        BY DEF TypeOK
      <3>2. current' = current \/ current' = [current EXCEPT ![v] = current[v] + 1]
        BY <2>0
      <3>. QED
        BY <3>1, <3>2
    <2>3. left' \in [Vehicle -> SUBSET Vehicle]
      <3>1. {} \in SUBSET Vehicle
        OBVIOUS
      <3>2. \/ left' = left
            \/ left' = [left EXCEPT ![v] = {}]
            \/ current[v] \in DOMAIN s /\ left' = [left EXCEPT ![v] = gone]
        BY <2>0
      <3>3. left \in [Vehicle -> SUBSET Vehicle]
        BY DEF TypeOK
      <3>4. ASSUME current[v] \in DOMAIN s
            PROVE  [left EXCEPT ![v] = gone] \in [Vehicle -> SUBSET Vehicle]
        BY <2>2, <3>3, <3>4, Changed
      <3>5. [left EXCEPT ![v] = {}] \in [Vehicle -> SUBSET Vehicle]
        BY <3>1, <3>3, Changed
      <3>. QED
        BY <3>2, <3>3, <3>4, <3>5
    <2>4. polling' \in [Vehicle -> BOOLEAN]
      <3>1. (current'[v] \in DOMAIN s) \in BOOLEAN
        OBVIOUS
      <3>. QED
        BY <2>0, <3>1, Changed, ZenonT(40) DEF TypeOK
    <2>5. motion' \in [Vehicle -> {"follow", "held", "go"}]
      BY <1>9, <1>m DEF PollBatchExit, CountBatch, TypeOK
    <2>6. lost' \in [Vehicle -> SUBSET Vehicle]
      BY LostStep
    <2>. QED
      BY <1>9, <2>1, <2>3, <2>4, <2>5, <2>6 DEF PollBatchExit, TypeOK
  <1>10. ASSUME NEW v \in Vehicle, GiveUp(v) PROVE Kept
    <2>1. motion' \in [Vehicle -> {"follow", "held", "go"}]
      BY <1>10, <1>m
      DEF GiveUp, ParkedTimeout, QueuedTimeout, MissingTimeout, TypeOK
    <2>2. timers' \in [Vehicle -> SUBSET {"missing", "parked", "queued", "round"}]
      <3>1. \E ts \in SUBSET {"missing", "parked", "queued", "round"} :
              timers' = [timers EXCEPT ![v] = ts]
        <4>1. \A t \in {"missing", "parked", "queued", "round"} :
                timers[v] \ {t} \in SUBSET {"missing", "parked", "queued", "round"}
          BY DEF TypeOK
        <4>2. (timers[v] \ {"parked"}) \cup {"queued"} \in SUBSET {"missing", "parked", "queued", "round"}
          BY DEF TypeOK
        <4>. QED
          BY <1>10, <4>1, <4>2 DEF GiveUp, ParkedTimeout, QueuedTimeout, MissingTimeout
      <3>. QED
        BY <3>1, Changed DEF TypeOK
    <2>3. fallback' \in [Vehicle -> BOOLEAN]
      BY <1>10 DEF GiveUp, ParkedTimeout, QueuedTimeout, MissingTimeout, TypeOK
    <2>. QED
      BY <1>10, <2>1, <2>2, <2>3
      DEF GiveUp, ParkedTimeout, QueuedTimeout, MissingTimeout, TypeOK
  <1>11. ASSUME NEW v \in Vehicle, PromotedToFront(v) PROVE Kept
    <2>1. order' = order \/ order' = [order EXCEPT ![v] = 0]
      BY <1>11 DEF PromotedToFront
    <2>2. applied' = applied \/ applied' = [applied EXCEPT ![v] = 0]
      BY <1>11 DEF PromotedToFront
    <2>3. left' = left \/ left' = [left EXCEPT ![v] = {}]
      BY <1>11 DEF PromotedToFront
    <2>4. current' = current \/ current' = [current EXCEPT ![v] = 1]
      BY <1>11 DEF PromotedToFront
    <2>5. server' = server \/ server' = [server EXCEPT ![v] = FALSE]
      BY <1>11 DEF PromotedToFront
    <2>6. /\ order' \in [Vehicle -> 0..Len(log)] /\ applied' \in [Vehicle -> 0..Len(log)]
          /\ left' \in [Vehicle -> SUBSET Vehicle] /\ current' \in [Vehicle -> Nat \ {0}]
          /\ server' \in [Vehicle -> BOOLEAN]
      <3>1. 0 \in 0..Len(log) /\ {} \in SUBSET Vehicle
        BY TheSchedule
      <3>2. order' \in [Vehicle -> 0..Len(log)] /\ applied' \in [Vehicle -> 0..Len(log)]
        <4>1. order \in [Vehicle -> 0..Len(log)] /\ applied \in [Vehicle -> 0..Len(log)]
          BY DEF TypeOK
        <4>2. /\ [order EXCEPT ![v] = 0] \in [Vehicle -> 0..Len(log)]
              /\ [applied EXCEPT ![v] = 0] \in [Vehicle -> 0..Len(log)]
          BY <3>1, <4>1, Changed
        <4>. QED
          BY <2>1, <2>2, <4>1, <4>2
      <3>3. left' \in [Vehicle -> SUBSET Vehicle]
        BY <3>1, <2>3, Changed DEF TypeOK
      <3>4. current' \in [Vehicle -> Nat \ {0}] /\ server' \in [Vehicle -> BOOLEAN]
        <4>1. current \in [Vehicle -> Nat \ {0}] /\ server \in [Vehicle -> BOOLEAN]
          BY DEF TypeOK
        <4>2. /\ [current EXCEPT ![v] = 1] \in [Vehicle -> Nat \ {0}]
              /\ [server EXCEPT ![v] = FALSE] \in [Vehicle -> BOOLEAN]
          BY <4>1, Changed
        <4>. QED
          BY <2>4, <2>5, <4>1, <4>2
      <3>. QED
        BY <3>2, <3>3, <3>4
    <2>7. timers' \in [Vehicle -> SUBSET {"missing", "parked", "queued", "round"}]
      BY <1>11, <1>t DEF PromotedToFront, TypeOK
    <2>. QED
      BY <1>11, <2>6, <2>7 DEF PromotedToFront, TypeOK
  <1>12. ASSUME NEW v \in Vehicle, LoseLead(v) PROVE Kept
    BY <1>12 DEF LoseLead, TypeOK
  <1>13. ASSUME NEW v \in Vehicle, RoundTimeout(v) PROVE Kept
    <2>1. timers[v] \ {"round"} \in SUBSET {"missing", "parked", "queued", "round"}
      BY DEF TypeOK
    <2>2. timers' \in [Vehicle -> SUBSET {"missing", "parked", "queued", "round"}]
      BY <1>13, <2>1, Changed DEF RoundTimeout, TypeOK
    <2>. QED
      BY <1>13, <2>2 DEF RoundTimeout, TypeOK
  <1>. QED
    BY <1>1, <1>2, <1>3, <1>4, <1>5, <1>6, <1>7, <1>8, <1>9, <1>10, <1>11, <1>12, <1>13
    DEF Next, GiveUp

-----------------------------------------------------------------------------
(* CountedLeft and CountsAfresh, vehicle by vehicle and in terms of the one *)
(* schedule.                                                                *)
CountsRight(v) ==
  /\ order[v] = 0 => current[v] = 1 /\ left[v] = {}
  /\ \A u \in left[v] : GoneFor(v, u)
  /\ \A k \in DOMAIN log[1] : k < current[v] => \A u \in log[1][k] : GoneFor(v, u)

LEMMA CountedOnOne ==
  OneOrder /\ TypeOK =>
    (CountedLeft /\ CountsAfresh <=> \A v \in Vehicle : CountsRight(v))
  <1>. SUFFICES ASSUME OneOrder, TypeOK
                PROVE  CountedLeft /\ CountsAfresh <=> \A v \in Vehicle : CountsRight(v)
    OBVIOUS
  <1>1. ASSUME CountedLeft, CountsAfresh, NEW v \in Vehicle PROVE CountsRight(v)
    <2>1. CASE order[v] = 0
      BY <1>1, <2>1, TheSchedule DEF CountedLeft, CountsAfresh, CountsRight
    <2>2. CASE order[v] # 0
      BY <1>1, <2>2, ScheduleOfVehicle DEF CountedLeft, CountsAfresh, CountsRight
    <2>. QED
      BY <2>1, <2>2
  <1>2. ASSUME \A v \in Vehicle : CountsRight(v) PROVE CountedLeft /\ CountsAfresh
    <2>1. ASSUME NEW v \in Vehicle, NEW k \in DOMAIN Schedule(v), k < current[v]
          PROVE  \A u \in Schedule(v)[k] : GoneFor(v, u)
      <3>1. Schedule(v) = log[1] \/ Schedule(v) = <<>>
        BY ScheduleOfVehicle
      <3>. QED
        BY <1>2, <2>1, <3>1 DEF CountsRight
    <2>. QED
      BY <1>2, <2>1 DEF CountedLeft, CountsAfresh, CountsRight
  <1>. QED
    BY <1>1, <1>2

LEMMA CountStep ==
  ASSUME OneOrder, TypeOK, [Next]_vars, \A w \in Vehicle : CountsRight(w)
  PROVE  \A w \in Vehicle : CountsRight(w)'
  <1>1. \A w, u \in Vehicle : GoneFor(w, u) => GoneFor(w, u)'
    BY TypeStep, LostStep DEF GoneFor
  <1>2. log' = log
    BY DEF Next, vars, roadVars, orderVars, Queue, ReachLine, Recheck, EnterJunction,
           ExitJunction, ApplyLog, HearPassOrder, PollBatchExit, ParkedTimeout,
           QueuedTimeout, MissingTimeout, LoseLead, PromotedToFront, RoundTimeout
  <1>3. \A k \in DOMAIN log[1] : log[1][k] \subseteq Vehicle
    BY TheSchedule
  <1>4. \A w \in Vehicle : left[w] \subseteq Vehicle
    BY DEF TypeOK
  <1>k. ASSUME NEW w \in Vehicle, order'[w] = 0 => order[w] = 0,
               current'[w] = current[w], left'[w] = left[w]
        PROVE  CountsRight(w)'
    BY <1>1, <1>2, <1>3, <1>4, <1>k DEF CountsRight
  <1>5. ASSUME UNCHANGED <<order, current, left>>
        PROVE  \A w \in Vehicle : CountsRight(w)'
    BY <1>5, <1>k
  <1>6. ASSUME NEW v \in Vehicle, NEW k \in DOMAIN log, ApplyOrder(v, k),
               UNCHANGED <<current, left>>
        PROVE  \A w \in Vehicle : CountsRight(w)'
    <2>1. k # 0
      BY TheSchedule
    <2>2. \A w \in Vehicle : order'[w] = 0 => order[w] = 0
      BY <1>6, <2>1 DEF ApplyOrder, TypeOK
    <2>. QED
      BY <1>6, <1>k, <2>2
  <1>7. ASSUME NEW v \in Vehicle, PollBatchExit(v)
        PROVE  \A w \in Vehicle : CountsRight(w)'
    <2>. SUFFICES ASSUME NEW w \in Vehicle PROVE CountsRight(w)'
      OBVIOUS
    <2>. DEFINE batch == Schedule(v)[current[v]]
    <2>1. order' = order
      BY <1>7 DEF PollBatchExit
    <2>2. CASE w # v
      <3>1. /\ current' = current \/ current' = [current EXCEPT ![v] = @ + 1]
            /\ left' = left \/ \E S : left' = [left EXCEPT ![v] = S]
        BY <1>7 DEF PollBatchExit, CountBatch
      <3>2. current'[w] = current[w] /\ left'[w] = left[w]
        BY <2>2, <3>1 DEF TypeOK
      <3>. QED
        BY <1>k, <2>1, <3>2
    <2>3. CASE w = v /\ UNCHANGED <<left, current>>
      BY <1>k, <2>1, <2>3
    <2>4. ASSUME w = v, ~UNCHANGED <<left, current>> PROVE CountsRight(w)'
      <3>a. PICK failed \in SUBSET ((batch \cap Fallible[v]) \ left[v]) :
              CountBatch(v, Schedule(v), failed)
        BY <1>7, <2>4 DEF PollBatchExit
      <3>. DEFINE gone == left[v] \cup failed \cup {u \in batch : HasLeft(v, u)}
      <3>1. /\ current[v] \in DOMAIN Schedule(v)
            /\ \/ /\ batch \subseteq gone
                  /\ current' = [current EXCEPT ![v] = @ + 1]
                  /\ left' = [left EXCEPT ![v] = {}]
               \/ /\ left' = [left EXCEPT ![v] = gone]
                  /\ current' = current
            /\ lost' = [lost EXCEPT ![v] = @ \cup failed]
        BY <1>7, <2>4, <3>a DEF PollBatchExit, CountBatch, AllLeft
      <3>2. Schedule(v) = log[1] /\ order[v] # 0
        BY <3>1, ScheduleOfVehicle
      <3>3. \A u \in gone : u \in Vehicle /\ GoneFor(v, u)'
        <4>1. \A u \in batch : u \in Vehicle
          BY <1>3, <3>1, <3>2
        <4>2. \A u \in batch : HasLeft(v, u) => GoneFor(v, u)
          BY <4>1 DEF HasLeft, GoneFor, Passed
        <4>3. \A u \in failed : u \in batch /\ GoneFor(v, u)'
          BY <3>a, <3>1 DEF GoneFor, TypeOK
        <4>. QED
          BY <1>1, <1>4, <4>1, <4>2, <4>3 DEF CountsRight
      <3>. HIDE DEF gone
      <3>4. order'[w] # 0
        BY <2>1, <2>4, <3>2
      <3>5. \A u \in left'[w] : GoneFor(v, u)'
        BY <2>4, <3>1, <3>3 DEF TypeOK
      <3>6. \A k \in DOMAIN log[1] : k < current'[w] => \A u \in log[1][k] : GoneFor(v, u)'
        <4>1. \A k \in DOMAIN log[1] : k < current[v] => \A u \in log[1][k] : GoneFor(v, u)'
          BY <1>1, <1>3 DEF CountsRight
        <4>2. CASE current' = current
          BY <2>4, <4>1, <4>2
        <4>3. CASE current' # current
          <5>1. current'[v] = current[v] + 1 /\ current[v] \in Nat
            BY <3>1, <4>3 DEF TypeOK
          <5>2. \A u \in log[1][current[v]] : GoneFor(v, u)'
            BY <3>1, <3>2, <3>3, <4>3
          <5>3. \A k \in DOMAIN log[1] : k < current'[v] => k < current[v] \/ k = current[v]
            BY <5>1, TheSchedule
          <5>. QED
            BY <2>4, <4>1, <5>2, <5>3
        <4>. QED
          BY <4>2, <4>3
      <3>. QED
        BY <1>2, <2>4, <3>4, <3>5, <3>6 DEF CountsRight, GoneFor
    <2>. QED
      BY <2>2, <2>3, <2>4
  <1>8. ASSUME NEW v \in Vehicle, PromotedToFront(v)
        PROVE  \A w \in Vehicle : CountsRight(w)'
    <2>1. CASE UNCHANGED <<order, current, left>>
      BY <1>5, <2>1
    <2>2. CASE ~UNCHANGED <<order, current, left>>
      <3>1. /\ order' = [order EXCEPT ![v] = 0]
            /\ current' = [current EXCEPT ![v] = 1]
            /\ left' = [left EXCEPT ![v] = {}]
        BY <1>8, <2>2 DEF PromotedToFront
      <3>2. ASSUME NEW w \in Vehicle, w # v PROVE CountsRight(w)'
        BY <1>k, <3>1, <3>2 DEF TypeOK
      <3>3. CountsRight(v)'
        <4>1. current'[v] = 1 /\ left'[v] = {}
          BY <3>1 DEF TypeOK
        <4>2. \A k \in DOMAIN log[1] : ~(k < 1)
          BY TheSchedule
        <4>. QED
          BY <1>2, <4>1, <4>2 DEF CountsRight
      <3>. QED
        BY <3>2, <3>3
    <2>. QED
      BY <2>1, <2>2
  <1>9. ASSUME NEW v \in Vehicle, ApplyLog(v) PROVE \A w \in Vehicle : CountsRight(w)'
    BY <1>9, <1>6 DEF ApplyLog
  <1>10. ASSUME NEW v \in Vehicle, HearPassOrder(v) PROVE \A w \in Vehicle : CountsRight(w)'
    BY <1>10, <1>6 DEF HearPassOrder, TypeOK
  <1>. QED
    BY <1>5, <1>7, <1>8, <1>9, <1>10
    DEF Next, vars, orderVars, Queue, ReachLine, Recheck, EnterJunction, ExitJunction,
        ParkedTimeout, QueuedTimeout, MissingTimeout, LoseLead, RoundTimeout

-----------------------------------------------------------------------------
(* A vehicle of batch k comes after the batches before k only.              *)
LEMMA TurnComesAfter ==
  ASSUME OneOrder, TypeOK, NEW v, NEW k \in DOMAIN log[1], v \in log[1][k], NEW Gone,
         \A j \in DOMAIN log[1] : j < k => log[1][j] \subseteq Gone
  PROVE  \A u \in Vehicle : Before(log[1], u, v) => u \in Gone
  <1>. SUFFICES ASSUME NEW u \in Vehicle, NEW j \in DOMAIN log[1], NEW h \in DOMAIN log[1],
                       j < h, u \in log[1][j], v \in log[1][h]
                PROVE  u \in Gone
    BY DEF Before
  <1>1. h = k
    BY TheSchedule
  <1>. QED
    BY <1>1

(* A vehicle whose turn has come, by its own count, has the earlier batches *)
(* behind it.                                                               *)
LEMMA MyTurnIsClear ==
  ASSUME OneOrder, TypeOK, NEW v \in Vehicle, CountsRight(v), MyTurn(v)
  PROVE  \A u \in Vehicle : Before(log[1], u, v) => GoneFor(v, u)
  <1>. DEFINE Gone == {u \in Vehicle : GoneFor(v, u)}
  <1>1. PICK k \in DOMAIN Schedule(v) : v \in Schedule(v)[k] /\ k <= current[v]
    BY DEF MyTurn
  <1>2. Schedule(v) = log[1]
    BY <1>1, ScheduleOfVehicle
  <1>3. \A j \in DOMAIN log[1] : j < k => log[1][j] \subseteq Gone
    <2>. SUFFICES ASSUME NEW j \in DOMAIN log[1], j < k PROVE log[1][j] \subseteq Gone
      OBVIOUS
    <2>1. j < current[v]
      BY <1>1, <1>2, TheSchedule DEF TypeOK
    <2>2. log[1][j] \subseteq Vehicle
      BY TheSchedule
    <2>. QED
      BY <2>1, <2>2 DEF CountsRight
  <1>. HIDE DEF Gone
  <1>4. \A u \in Vehicle : Before(log[1], u, v) => u \in Gone
    BY <1>1, <1>2, <1>3, TurnComesAfter
  <1>. QED
    BY <1>4 DEF Gone

(* WayIsClear, vehicle by vehicle and in terms of the one schedule.         *)
Clear(v) == \A u \in Vehicle : Before(log[1], u, v) => GoneFor(v, u)
MovesClear(v) == ~fallback[v] /\ (motion[v] = "go" \/ loc[v] = "junction") => Clear(v)

LEMMA WayStep ==
  ASSUME OneOrder, TypeOK, [Next]_vars, GaveUp,
         \A w \in Vehicle : CountsRight(w), \A w \in Vehicle : MovesClear(w)
  PROVE  \A w \in Vehicle : MovesClear(w)'
  <1>1. \A w, u \in Vehicle : GoneFor(w, u) => GoneFor(w, u)'
    BY TypeStep, LostStep DEF GoneFor
  <1>2. log' = log
    BY DEF Next, vars, roadVars, orderVars, Queue, ReachLine, Recheck, EnterJunction,
           ExitJunction, ApplyLog, HearPassOrder, PollBatchExit, ParkedTimeout,
           QueuedTimeout, MissingTimeout, LoseLead, PromotedToFront, RoundTimeout
  <1>3. \A w \in Vehicle : Clear(w) => Clear(w)'
    BY <1>1, <1>2 DEF Clear
  <1>4. \A w \in Vehicle : CountsRight(w)'
    BY CountStep
  (* A vehicle that was moving keeps its clear way.                         *)
  <1>k. ASSUME NEW w \in Vehicle, fallback'[w] = fallback[w],
               motion'[w] = "go" => motion[w] = "go" \/ Clear(w)',
               loc'[w] = "junction" => loc[w] = "junction" \/ motion[w] = "go" \/ Clear(w)'
        PROVE  MovesClear(w)'
    BY <1>3, <1>k DEF MovesClear
  <1>5. ASSUME UNCHANGED <<motion, loc, fallback>> PROVE \A w \in Vehicle : MovesClear(w)'
    BY <1>5, <1>k
  <1>7. ASSUME NEW v \in Vehicle, ReachLine(v) PROVE \A w \in Vehicle : MovesClear(w)'
    <2>1. loc' = [loc EXCEPT ![v] = "line"] /\ fallback' = fallback
      BY <1>7 DEF ReachLine
    <2>2. \/ motion' = motion
          \/ motion' = [motion EXCEPT ![v] = "held"]
          \/ motion' = [motion EXCEPT ![v] = "go"] /\ MyTurn(v)
      BY <1>7 DEF ReachLine, Resume, Hold
    <2>3. motion'[v] = "go" => motion[v] = "go" \/ Clear(v)'
      BY <2>2, <1>3, MyTurnIsClear DEF TypeOK, Clear
    <2>4. \A w \in Vehicle \ {v} : motion'[w] = motion[w]
      BY <2>2 DEF TypeOK
    <2>. QED
      BY <2>1, <2>3, <2>4, <1>k DEF TypeOK
  <1>8. ASSUME NEW v \in Vehicle, Recheck(v) PROVE \A w \in Vehicle : MovesClear(w)'
    <2>1. loc' = loc /\ fallback' = fallback /\ motion' = [motion EXCEPT ![v] = "held"]
      BY <1>8 DEF Recheck, Hold
    <2>. QED
      BY <2>1, <1>k DEF TypeOK
  <1>9. ASSUME NEW v \in Vehicle, EnterJunction(v) PROVE \A w \in Vehicle : MovesClear(w)'
    <2>1. /\ loc' = [loc EXCEPT ![v] = "junction"]
          /\ motion' = motion /\ fallback' = fallback
      BY <1>9 DEF EnterJunction
    <2>2. motion[v] = "go" \/ Clear(v)
      <3>1. CASE motion[v] # "go"
        <4>1. ~MustWait(v)
          BY <1>9, <3>1 DEF EnterJunction
        <4>2. CASE MyTurn(v)
          BY <4>2, MyTurnIsClear DEF Clear
        <4>3. CASE v \notin Scheduled(Schedule(v))
          <5>1. Schedule(v) = log[1]
            BY <4>1, ScheduleOfVehicle DEF MustWait
          <5>. QED
            BY <4>3, <5>1 DEF Clear, Before, Scheduled
        <4>. QED
          BY <4>1, <4>2, <4>3 DEF MustWait
      <3>. QED
        BY <3>1
    <2>. QED
      BY <2>1, <2>2, <1>3, <1>k DEF TypeOK
  <1>10. ASSUME NEW v \in Vehicle, ExitJunction(v) PROVE \A w \in Vehicle : MovesClear(w)'
    <2>1. loc' = [loc EXCEPT ![v] = "exit"] /\ motion' = motion /\ fallback' = fallback
      BY <1>10 DEF ExitJunction
    <2>. QED
      BY <2>1, <1>k DEF TypeOK
  (* Batch 1 has nothing before it.                                         *)
  <1>11. ASSUME NEW v \in Vehicle, NEW k \in DOMAIN log, ApplyOrder(v, k),
                UNCHANGED <<loc, fallback>>
         PROVE  \A w \in Vehicle : MovesClear(w)'
    <2>1. k = 1
      BY TheSchedule
    <2>2. CASE motion' = motion
      BY <1>5, <1>11, <2>2
    <2>3. CASE motion' # motion
      <3>1. InBatch(v, log[1], 1) /\ motion' = [motion EXCEPT ![v] = "go"]
        BY <1>11, <2>1, <2>3 DEF ApplyOrder, Resume
      <3>2. Clear(v)
        <4>1. \A j \in DOMAIN log[1] : ~(j < 1)
          BY TheSchedule
        <4>2. 1 \in DOMAIN log[1] /\ v \in log[1][1]
          BY <3>1 DEF InBatch
        <4>. DEFINE Gone == {}
        <4>3. \A j \in DOMAIN log[1] : j < 1 => log[1][j] \subseteq Gone
          BY <4>1
        <4>. HIDE DEF Gone
        <4>4. \A u \in Vehicle : Before(log[1], u, v) => u \in Gone
          BY <4>2, <4>3, TurnComesAfter
        <4>. QED
          BY <4>4 DEF Clear, Gone
      <3>. QED
        BY <1>3, <1>11, <1>k, <3>1, <3>2 DEF TypeOK
    <2>. QED
      BY <2>2, <2>3
  <1>12. ASSUME NEW v \in Vehicle, ApplyLog(v) PROVE \A w \in Vehicle : MovesClear(w)'
    BY <1>11, <1>12 DEF ApplyLog
  <1>13. ASSUME NEW v \in Vehicle, HearPassOrder(v) PROVE \A w \in Vehicle : MovesClear(w)'
    BY <1>11, <1>13 DEF HearPassOrder, TypeOK
  (* The batch counted up to is the vehicle's own.                          *)
  <1>14. ASSUME NEW v \in Vehicle, PollBatchExit(v) PROVE \A w \in Vehicle : MovesClear(w)'
    <2>1. loc' = loc /\ fallback' = fallback
      BY <1>14 DEF PollBatchExit
    <2>2. CASE motion' = motion
      BY <1>5, <2>1, <2>2
    <2>3. CASE motion' # motion
      <3>1. /\ InBatch(v, Schedule(v), current'[v])
            /\ motion' = [motion EXCEPT ![v] = "go"]
        BY <1>14, <2>3 DEF PollBatchExit, CountBatch, Resume
      <3>2. Schedule(v) = log[1]
        BY <3>1, ScheduleOfVehicle DEF InBatch
      <3>. DEFINE Gone == {u \in Vehicle : GoneFor(v, u)'}
      <3>3. \A j \in DOMAIN log[1] : j < current'[v] => log[1][j] \subseteq Gone
        BY <1>2, <1>4, TheSchedule DEF CountsRight
      <3>4. Clear(v)'
        <4>. HIDE DEF Gone
        <4>1. \A u \in Vehicle : Before(log[1], u, v) => u \in Gone
          BY <3>1, <3>2, <3>3, TurnComesAfter DEF InBatch
        <4>. QED
          BY <1>2, <4>1 DEF Clear, Gone
      <3>. QED
        BY <1>k, <2>1, <3>1, <3>4 DEF TypeOK
    <2>. QED
      BY <2>2, <2>3
  (* Whoever gives up is marked so.                                         *)
  <1>15. ASSUME NEW v \in Vehicle, GiveUp(v) PROVE \A w \in Vehicle : MovesClear(w)'
    <2>1. loc' = loc /\ fallback'[v]
      BY <1>15 DEF GiveUp, ParkedTimeout, QueuedTimeout, MissingTimeout, Expire, GaveUp, TypeOK
    <2>2. \A w \in Vehicle \ {v} : motion'[w] = motion[w] /\ fallback'[w] = fallback[w]
      BY <1>15 DEF GiveUp, ParkedTimeout, QueuedTimeout, MissingTimeout, Resume, TypeOK
    <2>3. ASSUME NEW w \in Vehicle, w # v PROVE MovesClear(w)'
      BY <1>k, <2>1, <2>2, <2>3
    <2>. QED
      BY <2>1, <2>3 DEF MovesClear
  <1>. QED
    BY <1>5, <1>7, <1>8, <1>9, <1>10, <1>12, <1>13, <1>14, <1>15
    DEF Next, vars, roadVars, GiveUp, Queue, LoseLead, PromotedToFront, RoundTimeout

LEMMA GaveUpStep ==
  ASSUME TypeOK, [Next]_vars, GaveUp
  PROVE  GaveUp'
  <1>1. ASSUME NEW v \in Vehicle, NEW t, t # "queued", StartTimer(v, t), fallback' = fallback
        PROVE  GaveUp'
    BY <1>1 DEF StartTimer, GaveUp, TypeOK
  <1>2. ASSUME UNCHANGED <<timers, fallback>> PROVE GaveUp'
    BY <1>2 DEF GaveUp
  <1>3. ASSUME NEW v \in Vehicle, NEW k, ApplyOrder(v, k), fallback' = fallback PROVE GaveUp'
    BY <1>1, <1>2, <1>3 DEF ApplyOrder
  <1>4. ASSUME NEW v \in Vehicle, GiveUp(v) PROVE GaveUp'
    <2>1. ASSUME ParkedTimeout(v) PROVE GaveUp'
      BY <2>1 DEF ParkedTimeout, Expire, GaveUp, TypeOK
    <2>2. ASSUME QueuedTimeout(v) PROVE GaveUp'
      BY <2>2 DEF QueuedTimeout, Expire, GaveUp, TypeOK
    <2>3. ASSUME MissingTimeout(v) PROVE GaveUp'
      BY <2>3 DEF MissingTimeout, Expire, GaveUp, TypeOK
    <2>. QED
      BY <1>4, <2>1, <2>2, <2>3 DEF GiveUp
  <1>5. ASSUME NEW v \in Vehicle, ExitJunction(v) PROVE GaveUp'
    BY <1>5 DEF ExitJunction, GaveUp, TypeOK
  <1>6. ASSUME NEW v \in Vehicle, ReachLine(v) PROVE GaveUp'
    BY <1>1, <1>2, <1>6 DEF ReachLine
  <1>7. ASSUME NEW v \in Vehicle, RoundTimeout(v) PROVE GaveUp'
    BY <1>7 DEF RoundTimeout, GaveUp, TypeOK
  <1>. QED
    BY <1>1, <1>2, <1>3, <1>4, <1>5, <1>6, <1>7
    DEF Next, vars, GiveUp, Queue, Recheck, EnterJunction, ApplyLog, HearPassOrder,
        PollBatchExit, LoseLead, PromotedToFront

-----------------------------------------------------------------------------
(* The inductive invariant, and what it shows.                              *)
LEMMA WayOnOne ==
  OneOrder /\ TypeOK => (WayIsClear <=> \A v \in Vehicle : MovesClear(v))
  BY TheSchedule DEF WayIsClear, MovesClear, Clear

LEMMA InvOnOne ==
  ASSUME OneOrder
  PROVE  CrossingInv <=> /\ TypeOK /\ GaveUp
                         /\ \A v \in Vehicle : CountsRight(v) /\ MovesClear(v)
  BY CountedOnOne, WayOnOne DEF CrossingInv

(* With one schedule committed, CrossingInv holds of the code's crossing at *)
(* all times.                                                               *)
THEOREM CrossingInvariant ==
  ASSUME OneOrder
  PROVE  Spec => []CrossingInv
  <1>. DEFINE IInv == /\ TypeOK /\ GaveUp
                      /\ \A v \in Vehicle : CountsRight(v) /\ MovesClear(v)
  <1>1. Init => IInv
    BY CrossingInit, InvOnOne
  <1>2. IInv /\ [Next]_vars => IInv'
    <2>. SUFFICES ASSUME IInv, [Next]_vars PROVE IInv'
      OBVIOUS
    <2>1. TypeOK' /\ GaveUp'
      BY TypeStep, GaveUpStep
    <2>2. \A v \in Vehicle : CountsRight(v)' /\ MovesClear(v)'
      BY CountStep, WayStep
    <2>. QED
      BY <2>1, <2>2
  <1>3. IInv => CrossingInv
    BY InvOnOne
  <1>. QED
    BY <1>1, <1>2, <1>3, PTL DEF Spec

(* Vehicles take turns: whoever meets a vehicle of an earlier batch in the  *)
(* junction has given up on the schedule, never heard of it, or could not   *)
(* look it up.                                                              *)
THEOREM TurnsAreTaken ==
  ASSUME OneOrder
  PROVE  Spec => []TakeTurns
  <1>1. CrossingInv => TakeTurns
    <2>. SUFFICES ASSUME CrossingInv PROVE TakeTurns
      OBVIOUS
    <2>1. 1 \in DOMAIN log
      BY TheSchedule DEF CrossingInv
    <2>2. ASSUME NEW u \in Inside, NEW v \in Inside, Before(log[1], u, v), ~fallback[v],
                 u \in Heard[v], u \notin lost[v]
          PROVE  FALSE
      <3>1. Passed(u)
        BY <2>1, <2>2 DEF CrossingInv, WayIsClear, GoneFor, Inside
      <3>. QED
        BY <2>2, <3>1 DEF Inside, Passed
    <2>. QED
      BY <2>1, <2>2 DEF TakeTurns, CrossingInv, TypeOK
  <1>. QED
    BY <1>1, CrossingInvariant, PTL

(* What the vehicles count as having left, and mark inactive in raft, has   *)
(* left, was never heard of, or could not be looked up.                     *)
THEOREM CountsAreRight ==
  ASSUME OneOrder
  PROVE  Spec => []CountedLeft
  <1>1. CrossingInv => CountedLeft
    BY DEF CrossingInv
  <1>. QED
    BY <1>1, CrossingInvariant, PTL
=============================================================================
