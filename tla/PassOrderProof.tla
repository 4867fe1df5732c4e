--------------------------- MODULE PassOrderProof ---------------------------
(***************************************************************************)
(* The schedule is sound for every set of vehicles, whatever they propose: *)
(* nobody is in two batches or forgotten, the vehicles of a batch keep     *)
(* clear of each other, whoever stands before a priority vehicle goes      *)
(* before it, a priority vehicle waits for priority vehicles only, and     *)
(* without any, fronts go first.                                           *)
(***************************************************************************)
EXTENDS PassOrder, SequenceTheorems, FiniteSetTheorems, TLAPS

-----------------------------------------------------------------------------
(* Sequences without repetition *)

LEMMA TailOfInjective ==
  ASSUME NEW S, NEW s \in Seq(S), s # <<>>, IsInjective(s)
  PROVE  /\ Tail(s) \in Seq(S) /\ IsInjective(Tail(s))
         /\ Head(s) \in Range(s) /\ Range(Tail(s)) = Range(s) \ {Head(s)}
PROOF
  <1>1. /\ Tail(s) \in Seq(S) /\ Len(Tail(s)) = Len(s) - 1 /\ Len(s) \in Nat \ {0}
        /\ \A k \in 1..Len(Tail(s)) : Tail(s)[k] = s[k + 1]
        /\ Head(s) = s[1]
    OBVIOUS
  <1>2. IsInjective(Tail(s)) /\ Head(s) \in Range(s)
        /\ Range(Tail(s)) \subseteq Range(s) \ {Head(s)}
    BY <1>1 DEF IsInjective, Range
  <1>3. ASSUME NEW x \in Range(s), x # Head(s) PROVE x \in Range(Tail(s))
    <2>1. PICK k \in DOMAIN s : x = s[k]
      BY <1>3 DEF Range
    <2>2. k - 1 \in 1..Len(Tail(s)) /\ Tail(s)[k - 1] = s[(k - 1) + 1]
      BY <1>1, <1>3, <2>1
    <2>3. Tail(s)[k - 1] = x
      BY <1>1, <2>1, <2>2
    <2>4. QED
      BY <1>1, <2>2, <2>3 DEF Range
  <1>4. QED
    BY <1>1, <1>2, <1>3

LEMMA RemoveAtElements ==
  ASSUME NEW S, NEW s \in Seq(S), NEW i \in DOMAIN s
  PROVE  /\ Len(RemoveAt(s, i)) = Len(s) - 1
         /\ \A k \in 1..(Len(s) - 1) : RemoveAt(s, i)[k] = IF k < i THEN s[k] ELSE s[k + 1]
PROOF
  <1> DEFINE r == RemoveAt(s, i)
             a == SubSeq(s, 1, i - 1)
             b == SubSeq(s, i + 1, Len(s))
  <1>1. i \in 1..Len(s) /\ Len(s) \in Nat
    OBVIOUS
  <1>2. a \in Seq(S) /\ Len(a) = i - 1 /\ \A k \in 1..(i - 1) : a[k] = s[k]
    BY <1>1
  <1>3. /\ b \in Seq(S) /\ Len(b) = Len(s) - i
        /\ \A k \in 1..(Len(s) - i) : b[k] = s[k + i]
    BY <1>1
  <1>4. r = a \o b
    BY DEF RemoveAt
  <1> HIDE DEF r, a, b
  <1>5. Len(r) = Len(s) - 1
    BY <1>1, <1>2, <1>3, <1>4
  <1>6. ASSUME NEW k \in 1..(Len(s) - 1) PROVE r[k] = IF k < i THEN s[k] ELSE s[k + 1]
    <2>1. CASE k < i
      BY <1>1, <1>2, <1>3, <1>4, <1>6, <2>1
    <2>2. CASE ~(k < i)
      <3>1. r[k] = b[k - (i - 1)]
        <4>1. k \in 1..(Len(a) + Len(b)) /\ ~(k <= Len(a))
          BY <1>1, <1>2, <1>3, <2>2
        <4>2. (a \o b)[k] = b[k - Len(a)]
          BY <1>2, <1>3, <4>1, ConcatProperties, Zenon
        <4>3. QED
          BY <1>2, <1>4, <4>2
      <3>2. b[k - (i - 1)] = s[(k - (i - 1)) + i]
        BY <1>1, <1>3, <1>6, <2>2
      <3>3. (k - (i - 1)) + i = k + 1
        BY <1>1
      <3>4. QED
        BY <2>2, <3>1, <3>2, <3>3
    <2>3. QED
      BY <2>1, <2>2
  <1>7. QED
    BY <1>5, <1>6 DEF r

LEMMA RemoveAtOfInjective ==
  ASSUME NEW S, NEW s \in Seq(S), NEW i \in DOMAIN s, IsInjective(s)
  PROVE  /\ RemoveAt(s, i) \in Seq(S) /\ IsInjective(RemoveAt(s, i))
         /\ s[i] \in Range(s) /\ Range(RemoveAt(s, i)) = Range(s) \ {s[i]}
PROOF
  <1> DEFINE r == RemoveAt(s, i)
             From(k) == IF k < i THEN k ELSE k + 1
  <1>1. r \in Seq(S) /\ Len(r) = Len(s) - 1
    BY DEF RemoveAt
  <1>2. \A k \in DOMAIN r : From(k) \in DOMAIN s /\ From(k) # i /\ r[k] = s[From(k)]
    <2>1. DOMAIN r = 1..(Len(s) - 1) /\ i \in 1..Len(s) /\ Len(s) \in Nat
      BY <1>1
    <2>2. \A k \in DOMAIN r : r[k] = s[From(k)]
      BY <2>1, RemoveAtElements
    <2>3. QED
      BY <2>1, <2>2
  <1>3. \A j, k \in DOMAIN r : From(j) = From(k) => j = k
    BY <1>1
  <1> HIDE DEF r, From
  <1>4. IsInjective(r)
    BY <1>2, <1>3 DEF IsInjective
  <1>5. s[i] \in Range(s) /\ Range(r) \subseteq Range(s) \ {s[i]}
    BY <1>2 DEF IsInjective, Range
  <1>6. ASSUME NEW x \in Range(s), x # s[i] PROVE x \in Range(r)
    <2>1. PICK k \in 1..Len(s) : x = s[k] /\ k # i
      BY <1>6 DEF Range
    <2>2. PICK j \in DOMAIN r : From(j) = k
      <3>1. i \in 1..Len(s) /\ DOMAIN r = 1..(Len(s) - 1) /\ Len(s) \in Nat
        BY <1>1
      <3>2. CASE k < i
        <4>1. k \in DOMAIN r /\ From(k) = k
          BY <2>1, <3>1, <3>2 DEF From
        <4>2. QED
          BY <4>1
      <3>3. CASE ~(k < i)
        <4>1. k - 1 \in DOMAIN r /\ From(k - 1) = k
          BY <2>1, <3>1, <3>3 DEF From
        <4>2. QED
          BY <4>1
      <3>4. QED
        BY <3>2, <3>3
    <2>3. QED
      BY <1>2, <2>1, <2>2 DEF Range
  <1>7. QED
    BY <1>1, <1>4, <1>5, <1>6 DEF r

(* The orders the pools may come out of std::sort in.                      *)
LEMMA OrdersAreInjective ==
  ASSUME NEW S \in SUBSET Vehicle, NEW s \in SetToSeqs(S)
  PROVE  s \in Seq(S) /\ IsInjective(s) /\ Range(s) = S
PROOF
  <1>1. IsFiniteSet(S) /\ Cardinality(S) \in Nat
    BY VehicleAssumption, FS_Subset, FS_CardinalityType
  <1>2. s \in [1..Cardinality(S) -> S]
        /\ \A i, j \in 1..Cardinality(S) : i # j => s[i] # s[j]
    BY DEF SetToSeqs
  <1>3. s \in Seq(S)
    BY <1>1, <1>2
  <1>4. IsInjective(s) /\ Range(s) \subseteq S
    BY <1>2 DEF IsInjective, Range
  <1>5. s \in Injection(1..Cardinality(S), S)
    BY <1>2 DEF Injection, IsInjective
  <1>6. IsFiniteSet(1..Cardinality(S)) /\ Cardinality(1..Cardinality(S)) = Cardinality(S)
    BY <1>1, FS_Interval
  <1>7. s \in Surjection(1..Cardinality(S), S)
    BY <1>1, <1>5, <1>6, FS_Injection
  <1>8. S \subseteq Range(s)
    BY <1>2, <1>7 DEF Surjection, Range
  <1>9. QED
    BY <1>3, <1>4, <1>8

-----------------------------------------------------------------------------
(* Movements *)

(* Movements that do not conflict in the code keep clear of each other on  *)
(* the road.                                                               *)
LEMMA ClearMovements ==
  ASSUME NEW p \in Proposal, NEW q \in Proposal, ~MovementsConflict(p, q)
  PROVE  MayShare(p, q) /\ MayShare(q, p)
PROOF
  <1>1. p.lane \in 0..3 /\ q.lane \in 0..3
    BY DEF Proposal
  <1>2. /\ p.lane # q.lane /\ p.lane + q.lane \in {2, 4}
        /\ (p.turn = 0 /\ q.turn = 0) \/ (p.turn = 1 /\ q.turn = 1)
    BY DEF MovementsConflict, Opposing
  <1>3. \/ p.lane = 0 /\ q.lane = 2
        \/ p.lane = 2 /\ q.lane = 0
        \/ p.lane = 1 /\ q.lane = 3
        \/ p.lane = 3 /\ q.lane = 1
    BY <1>1, <1>2
  <1>4. Across(p.lane, q.lane) /\ Across(q.lane, p.lane)
    BY <1>3 DEF Across
  <1>5. /\ Quarters(0) = {"SW", "SE"} /\ Quarters(1) = {"SE", "NE"}
        /\ Quarters(2) = {"NE", "NW"} /\ Quarters(3) = {"NW", "SW"}
    BY DEF Quarters
  <1>6. Quarters(p.lane) \cap Quarters(q.lane) = {}
        /\ Quarters(q.lane) \cap Quarters(p.lane) = {}
    BY <1>3, <1>5
  <1>7. QED
    BY <1>2, <1>4, <1>6 DEF MayShare

BatchClear(batch) == \A v, w \in batch : v # w => MayShare(proposal[v], proposal[w])

LEMMA ClearBatch ==
  ASSUME proposal \in [Vehicle -> Proposal], NEW batch \in SUBSET Vehicle,
         NEW v \in Vehicle, BatchClear(batch), ~ConflictsWithBatch(v, batch)
  PROVE  BatchClear(batch \cup {v})
PROOF
  <1>1. \A w \in batch : MayShare(proposal[w], proposal[v]) /\ MayShare(proposal[v], proposal[w])
    BY ClearMovements DEF ConflictsWithBatch
  <1>2. QED
    BY <1>1 DEF BatchClear

LEMMA PathsClearByBatch ==
  PathsClear <=> BatchClear(open) /\ \A k \in DOMAIN closed : BatchClear(closed[k])
PROOF
  BY DEF PathsClear, BatchClear

-----------------------------------------------------------------------------
(* What a step may do to the batches: close the open one, and put somebody *)
(* who has no place yet into the open one.                                 *)
Kept == ScheduledOnce' /\ PathsClear' /\ closed' \in Seq(SUBSET Vehicle) /\ open' \in SUBSET Vehicle

LEMMA JoinOpen ==
  ASSUME ScheduleInv, NEW v \in Vehicle \ Placed, ~ConflictsWithBatch(v, open),
         closed' = closed, open' = open \cup {v}, UNCHANGED proposal
  PROVE  Kept /\ Placed' = Placed \cup {v}
PROOF
  <1>1. /\ proposal \in [Vehicle -> Proposal] /\ closed \in Seq(SUBSET Vehicle)
        /\ open \in SUBSET Vehicle /\ ScheduledOnce /\ PathsClear
    BY DEF ScheduleInv, TypeOK
  <1>2. ScheduledOnce' /\ Placed' = Placed \cup {v}
    BY <1>1 DEF ScheduledOnce, Placed
  <1>3. BatchClear(open)' /\ \A k \in DOMAIN closed' : BatchClear(closed[k])'
    <2>1. BatchClear(open) /\ \A k \in DOMAIN closed : BatchClear(closed[k])
      BY <1>1, PathsClearByBatch
    <2>2. BatchClear(open \cup {v})
      BY <1>1, <2>1, ClearBatch
    <2>3. QED
      BY <2>1, <2>2 DEF BatchClear
  <1>4. PathsClear'
    BY <1>3 DEF PathsClear, BatchClear
  <1>5. QED
    BY <1>1, <1>2, <1>4 DEF Kept

LEMMA CloseOpen ==
  ASSUME ScheduleInv, closed' = Append(closed, open), UNCHANGED proposal,
         NEW S \in SUBSET (Vehicle \ Placed), open' = S, S = {} \/ \E v : S = {v}
  PROVE  Kept /\ Placed' = Placed \cup S
PROOF
  <1>1. /\ proposal \in [Vehicle -> Proposal] /\ closed \in Seq(SUBSET Vehicle)
        /\ open \in SUBSET Vehicle /\ ScheduledOnce /\ PathsClear
    BY DEF ScheduleInv, TypeOK
  <1>2. /\ closed' \in Seq(SUBSET Vehicle) /\ Len(closed') = Len(closed) + 1
        /\ Len(closed) \in Nat
        /\ \A k \in DOMAIN closed' : closed'[k] = IF k \in DOMAIN closed THEN closed[k] ELSE open
        /\ DOMAIN closed' = DOMAIN closed \cup {Len(closed) + 1}
        /\ Len(closed) + 1 \notin DOMAIN closed
    BY <1>1
  <1>3. UNION {closed'[k] : k \in DOMAIN closed'} = Placed
    BY <1>2 DEF Placed
  <1>4. Placed' = Placed \cup S
    BY <1>3 DEF Placed
  <1>5. ScheduledOnce'
    <2>1. \A j, k \in DOMAIN closed' : j # k => closed'[j] \cap closed'[k] = {}
      BY <1>1, <1>2 DEF ScheduledOnce
    <2>2. \A k \in DOMAIN closed' : closed'[k] \cap open' = {}
      BY <1>3
    <2>3. QED
      BY <2>1, <2>2 DEF ScheduledOnce
  <1>6. PathsClear'
    <2>1. BatchClear(open) /\ \A k \in DOMAIN closed : BatchClear(closed[k])
      BY <1>1, PathsClearByBatch
    <2>2. \A k \in DOMAIN closed' : BatchClear(closed'[k])
      BY <1>2, <2>1
    <2>3. BatchClear(S)
      BY DEF BatchClear
    <2>4. QED
      BY <2>2, <2>3 DEF PathsClear, BatchClear
  <1>7. QED
    BY <1>1, <1>2, <1>4, <1>5, <1>6 DEF Kept

-----------------------------------------------------------------------------
LEMMA OrdersInjective ==
  ASSUME NEW S \in SUBSET Vehicle
  PROVE  \A s \in FairOrders(S) \cup QueueOrders(S) :
           s \in Seq(S) /\ IsInjective(s) /\ Range(s) = S
PROOF
  BY OrdersAreInjective DEF FairOrders, QueueOrders

LEMMA ScheduleInit == Init => ScheduleInv
PROOF
  <1> SUFFICES ASSUME Init PROVE ScheduleInv
    OBVIOUS
  <1>1. /\ proposal \in [Vehicle -> Proposal] /\ closed = <<>> /\ open = {}
        /\ Placed = {} /\ DOMAIN closed = {}
    BY ProposalAssumption DEF Init, Placed
  <1>2. /\ pool \in Seq(Vehicle) /\ IsInjective(pool) /\ Range(pool) \subseteq Normal
    <2>1. Normal \in SUBSET Vehicle /\ pool \in FairOrders(Normal)
      BY DEF Init, Normal
    <2>2. QED
      BY <2>1, OrdersInjective
  <1>3. \A l \in PriorityLanes :
          /\ queue[l] \in Seq(Vehicle) /\ IsInjective(queue[l])
          /\ Range(queue[l]) \subseteq InLane(l) /\ queue[l] # <<>>
    <2> SUFFICES ASSUME NEW l \in PriorityLanes
                 PROVE  /\ queue[l] \in Seq(Vehicle) /\ IsInjective(queue[l])
                        /\ Range(queue[l]) \subseteq InLane(l) /\ queue[l] # <<>>
      OBVIOUS
    <2>1. InLane(l) \in SUBSET Vehicle /\ InLane(l) # {}
      BY DEF InLane, PriorityLanes
    <2>2. queue[l] \in QueueOrders(InLane(l))
      BY DEF Init
    <2>3. queue[l] \in Seq(Vehicle) /\ IsInjective(queue[l]) /\ Range(queue[l]) = InLane(l)
      BY <2>1, <2>2, OrdersInjective
    <2>4. QED
      BY <2>1, <2>3 DEF Range
  <1>4. queue \in [PriorityLanes -> Seq(Vehicle)]
    BY <1>3 DEF Init
  <1>5. TypeOK
    BY <1>1, <1>2, <1>4 DEF Init, TypeOK
  <1>6. ScheduledOnce /\ PathsClear
    BY <1>1 DEF ScheduledOnce, PathsClear
  <1>7. PoolInv
    BY <1>1, <1>2 DEF PoolInv
  <1>8. QueueInv
    BY <1>1, <1>3 DEF QueueInv, Init, Choosing
  <1>9. QED
    BY <1>5, <1>6, <1>7, <1>8 DEF ScheduleInv

(* The least of some lanes.                                                *)
LEMMA LeastLane ==
  ASSUME NEW S \in SUBSET (0..3), S # {}
  PROVE  \E l \in S : \A k \in S : l <= k
PROOF
  <1>1. CASE 0 \in S
    BY <1>1
  <1>2. CASE 0 \notin S /\ 1 \in S
    BY <1>2
  <1>3. CASE 0 \notin S /\ 1 \notin S /\ 2 \in S
    BY <1>3
  <1>4. CASE 0 \notin S /\ 1 \notin S /\ 2 \notin S
    <2>1. PICK m \in S : TRUE
      OBVIOUS
    <2>2. \A l \in S : l = 3
      BY <1>4
    <2>3. \A k \in S : m <= k
      BY <2>1, <2>2
    <2>4. QED
      BY <2>3
  <1>5. QED
    BY <1>1, <1>2, <1>3, <1>4

(* addVehicleToBatch puts a vehicle that has no place yet in at most one.  *)
LEMMA AddKeeps ==
  ASSUME ScheduleInv, UNCHANGED proposal, NEW v \in Vehicle \ Placed, AddVehicleToBatch(v)
  PROVE  Kept /\ Placed' \subseteq Placed \cup {v}
PROOF
  <1>1. CASE Len(closed) = MaxBatches
    BY <1>1 DEF AddVehicleToBatch, ScheduleInv, TypeOK, Kept, ScheduledOnce, PathsClear, Placed
  <1>2. CASE Len(closed) # MaxBatches /\ Fits(v, open)
    <2>1. ~ConflictsWithBatch(v, open) /\ closed' = closed /\ open' = open \cup {v}
      BY <1>2 DEF AddVehicleToBatch, Fits
    <2>2. QED
      BY <2>1, JoinOpen
  <1>3. CASE Len(closed) # MaxBatches /\ ~Fits(v, open)
    <2>1. closed' = Append(closed, open) /\ (open' = {} \/ open' = {v})
      BY <1>3 DEF AddVehicleToBatch
    <2>2. CASE open' = {}
      BY <2>1, <2>2, CloseOpen
    <2>3. CASE open' = {v}
      BY <2>1, <2>3, CloseOpen
    <2>4. QED
      BY <2>1, <2>2, <2>3
  <1>4. QED
    BY <1>1, <1>2, <1>3

LEMMA PlacePriorityKeeps == ScheduleInv /\ PlacePriority => ScheduleInv'
PROOF
  <1> SUFFICES ASSUME ScheduleInv, PlacePriority PROVE ScheduleInv'
    OBVIOUS
  <1> DEFINE lanes == IF turn \cap priority = {} THEN priority ELSE turn \cap priority
             lane  == CHOOSE l \in lanes : \A k \in lanes : l <= k
             v     == Head(queue[lane])
             left  == Tail(queue[lane])
  <1>1. /\ TypeOK /\ PoolInv /\ QueueInv /\ phase = "place" /\ Choosing /\ priority # {}
        /\ UNCHANGED <<proposal, pool>>
    BY DEF PlacePriority, ScheduleInv, QueueInv, Choosing
  <1>2. PriorityLanes \in SUBSET (0..3) /\ PriorityLanes' = PriorityLanes /\ Normal' = Normal
        /\ \A l : InLane(l)' = InLane(l)
    BY <1>1 DEF TypeOK, PriorityLanes, Proposal, Normal, InLane
  <1>3. lanes \in SUBSET priority /\ lanes # {} /\ lanes \in SUBSET (0..3)
    BY <1>1, <1>2 DEF TypeOK
  <1>4. lane \in lanes
    <2>1. \E l \in lanes : \A k \in lanes : l <= k
      BY <1>3, LeastLane
    <2> HIDE DEF lanes
    <2>2. QED
      BY <2>1
  <1>5. lane \in priority /\ lane \in PriorityLanes
    BY <1>1, <1>3, <1>4 DEF TypeOK
  <1>6. /\ AddVehicleToBatch(v)
        /\ queue' = [queue EXCEPT ![lane] = left]
        /\ turn' = lanes \ {lane}
        /\ priority' = IF Releases(v, left) THEN priority \ {lane} ELSE priority
        /\ at' = 1 /\ phase' = "topUp"
    BY DEF PlacePriority
  <1>7. left # <<>> \/ Releases(v, left)
    BY DEF Releases
  <1> HIDE DEF lanes, lane
  <1>8. /\ queue[lane] \in Seq(Vehicle) /\ queue[lane] # <<>> /\ IsInjective(queue[lane])
        /\ Range(queue[lane]) \subseteq InLane(lane) \ Placed
    BY <1>1, <1>5 DEF TypeOK, QueueInv
  <1>9. /\ left \in Seq(Vehicle) /\ IsInjective(left) /\ v \in InLane(lane) \ Placed
        /\ Range(left) \subseteq (InLane(lane) \ Placed) \ {v}
    BY <1>8, TailOfInjective
  <1> HIDE DEF v, left
  <1>10. v \in Vehicle \ Placed /\ proposal[v].lane = lane
    BY <1>9 DEF InLane
  <1>11. Kept /\ Placed' \subseteq Placed \cup {v}
    BY <1>1, <1>6, <1>10, AddKeeps
  <1>12. TypeOK'
    <2>1. queue' \in [PriorityLanes -> Seq(Vehicle)]
      BY <1>1, <1>5, <1>6, <1>9 DEF TypeOK
    <2>2. priority' \subseteq PriorityLanes /\ turn' \subseteq PriorityLanes
      BY <1>1, <1>3, <1>6 DEF TypeOK
    <2>3. proposal' \in [Vehicle -> Proposal] /\ pool' \in Seq(Vehicle)
      BY <1>1 DEF TypeOK
    <2>4. QED
      BY <1>2, <1>6, <1>11, <2>1, <2>2, <2>3 DEF TypeOK, Kept
  <1>13. PoolInv'
    <2>1. v \notin Normal
      BY <1>5, <1>10 DEF Normal
    <2>2. QED
      BY <1>1, <1>2, <1>11, <2>1 DEF PoolInv, Choosing
  <1>14. QueueInv'
    <2>1. phase' # "place"
      BY <1>6
    <2>2. ASSUME NEW l \in PriorityLanes
          PROVE  /\ IsInjective(queue'[l]) /\ Range(queue'[l]) \subseteq InLane(l) \ Placed'
                 /\ l \in priority' => queue'[l] # <<>>
      <3>1. CASE l = lane
        <4>1. queue'[l] = left
          BY <1>1, <1>5, <1>6, <3>1 DEF TypeOK
        <4>2. QED
          BY <1>6, <1>7, <1>9, <1>11, <3>1, <4>1
      <3>2. CASE l # lane
        <4>1. queue'[l] = queue[l] /\ (l \in priority' => l \in priority)
          BY <1>1, <1>6, <3>2 DEF TypeOK
        <4>2. v \notin InLane(l)
          BY <1>10, <3>2 DEF InLane
        <4>3. QED
          BY <1>1, <1>11, <4>1, <4>2 DEF QueueInv
      <3>3. QED
        BY <3>1, <3>2
    <2>3. QED
      BY <1>2, <2>1, <2>2 DEF QueueInv
  <1>15. QED
    BY <1>11, <1>12, <1>13, <1>14 DEF ScheduleInv, Kept

LEMMA TopUpKeeps == ScheduleInv /\ TopUp => ScheduleInv'
PROOF
  <1> SUFFICES ASSUME ScheduleInv, TopUp PROVE ScheduleInv'
    OBVIOUS
  <1>1. /\ TypeOK /\ PoolInv /\ QueueInv /\ at \in DOMAIN pool /\ pool \in Seq(Vehicle)
        /\ UNCHANGED <<proposal, closed, priority, turn, queue, phase>>
    BY DEF TopUp, ScheduleInv, TypeOK
  <1>2. PriorityLanes' = PriorityLanes /\ Normal' = Normal /\ Choosing' = Choosing
        /\ \A l : InLane(l)' = InLane(l)
    BY <1>1 DEF PriorityLanes, Normal, InLane, Choosing
  <1>3. CASE ConflictsWithBatch(pool[at], open)
    <2>1. at' = at + 1 /\ UNCHANGED <<open, pool>>
      BY <1>3 DEF TopUp, After
    <2>2. Placed' = Placed
      BY <1>1, <2>1 DEF Placed
    <2>3. at' \in Nat \ {0}
      BY <1>1, <2>1 DEF TypeOK
    <2>4. QED
      BY <1>1, <1>2, <2>1, <2>2, <2>3
         DEF ScheduleInv, TypeOK, ScheduledOnce, PoolInv, QueueInv, PathsClear
  <1>4. CASE ~ConflictsWithBatch(pool[at], open)
    <2>1. open' = open \cup {pool[at]} /\ pool' = RemoveAt(pool, at) /\ at' = at
      BY <1>4 DEF TopUp, TakenFrom
    <2>2. /\ pool' \in Seq(Vehicle) /\ IsInjective(pool') /\ pool[at] \in Range(pool)
          /\ Range(pool') \subseteq Range(pool) \ {pool[at]}
      BY <1>1, <2>1, RemoveAtOfInjective DEF PoolInv
    <2>3. pool[at] \in Vehicle \ Placed
      BY <1>1, <2>2 DEF PoolInv
    <2>4. Kept /\ Placed' = Placed \cup {pool[at]}
      BY <1>1, <1>4, <2>1, <2>3, JoinOpen
    <2>5. TypeOK'
      BY <1>1, <1>2, <2>1, <2>2, <2>4 DEF TypeOK, Kept
    <2>6. PoolInv'
      BY <1>1, <1>2, <2>2, <2>4 DEF PoolInv
    <2>7. QueueInv'
      <3>1. CASE Choosing
        <4>1. \A l \in PriorityLanes : pool[at] \notin InLane(l)
          BY <1>1, <2>2, <3>1 DEF PoolInv, Normal, InLane
        <4>2. QED
          BY <1>1, <1>2, <2>4, <4>1 DEF QueueInv
      <3>2. CASE ~Choosing
        BY <1>1, <1>2, <3>2 DEF QueueInv, Choosing
      <3>3. QED
        BY <3>1, <3>2
    <2>8. QED
      BY <2>4, <2>5, <2>6, <2>7 DEF ScheduleInv, Kept
  <1>5. QED
    BY <1>3, <1>4

LEMMA CommitKeeps == ScheduleInv /\ Commit => ScheduleInv'
PROOF
  <1> SUFFICES ASSUME ScheduleInv, Commit PROVE ScheduleInv'
    OBVIOUS
  <1>1. /\ TypeOK /\ phase' = "open" /\ pool' \in FairOrders(LeftOver)
        /\ UNCHANGED <<proposal, priority, turn, queue, at>>
    BY DEF Commit, ScheduleInv
  <1>2. Kept /\ Placed' = Placed
    <2>1. CASE Close
      <3>1. closed' = Append(closed, open) /\ open' = {} /\ UNCHANGED proposal
        BY <1>1, <2>1 DEF Close
      <3>2. Kept /\ Placed' = Placed \cup {}
        BY <3>1, CloseOpen
      <3>3. QED
        BY <3>2
    <2>2. CASE UNCHANGED <<closed, open>>
      BY <1>1, <2>2
         DEF ScheduleInv, TypeOK, Kept, ScheduledOnce, PathsClear, Placed
    <2>3. QED
      BY <2>1, <2>2 DEF Commit
  <1>3. pool' \in Seq(Vehicle) /\ IsInjective(pool') /\ Range(pool') \cap Placed = {}
    <2>1. LeftOver \in SUBSET Vehicle /\ LeftOver \cap Placed = {}
      BY DEF LeftOver
    <2>2. pool' \in Seq(LeftOver) /\ IsInjective(pool') /\ Range(pool') \subseteq LeftOver
      BY <1>1, <2>1, OrdersInjective
    <2>3. pool' \in Seq(Vehicle)
      BY <2>1, <2>2
    <2>4. QED
      BY <2>1, <2>2, <2>3
  <1>4. TypeOK'
    BY <1>1, <1>2, <1>3 DEF TypeOK, Kept, PriorityLanes
  <1>5. PoolInv' /\ QueueInv'
    BY <1>1, <1>2, <1>3 DEF PoolInv, QueueInv, Choosing
  <1>6. QED
    BY <1>2, <1>4, <1>5 DEF ScheduleInv, Kept

LEMMA OpenBatchKeeps == ScheduleInv /\ OpenBatch => ScheduleInv'
PROOF
  <1> SUFFICES ASSUME ScheduleInv, OpenBatch PROVE ScheduleInv'
    OBVIOUS
  <1>1. /\ TypeOK /\ PoolInv /\ ScheduledOnce /\ PathsClear /\ pool \in Seq(Vehicle)
        /\ UNCHANGED <<proposal, closed, priority, turn, queue>>
    BY DEF OpenBatch, ScheduleInv, TypeOK
  <1>2. PriorityLanes' = PriorityLanes
    BY <1>1 DEF PriorityLanes
  <1>3. CASE pool # <<>> /\ InBounds
    <2>1. open' = {Head(pool)} /\ pool' = Tail(pool) /\ at' = 1 /\ phase' = "fill"
      BY <1>3 DEF OpenBatch
    <2>2. /\ pool' \in Seq(Vehicle) /\ IsInjective(pool') /\ Head(pool) \in Range(pool)
          /\ Range(pool') \subseteq Range(pool) \ {Head(pool)}
      BY <1>1, <1>3, <2>1, TailOfInjective DEF PoolInv
    <2>3. Head(pool) \in Vehicle \ Placed
      <3>1. Head(pool) \in Vehicle
        BY <1>1, <1>3
      <3>2. QED
        BY <1>1, <2>2, <3>1 DEF PoolInv
    <2>4. Placed' \subseteq Placed \cup {Head(pool)}
      BY <1>1, <2>1 DEF Placed
    <2>5. ScheduledOnce'
      BY <1>1, <2>1, <2>3 DEF ScheduledOnce, Placed
    <2>6. PathsClear'
      BY <1>1, <2>1 DEF PathsClear
    <2>7. TypeOK'
      BY <1>1, <1>2, <2>1, <2>2, <2>3 DEF TypeOK
    <2>8. PoolInv' /\ QueueInv'
      BY <1>1, <2>1, <2>2, <2>4 DEF PoolInv, QueueInv, Choosing
    <2>9. QED
      BY <2>5, <2>6, <2>7, <2>8 DEF ScheduleInv
  <1>4. CASE ~(pool # <<>> /\ InBounds)
    <2>1. phase' = "done" /\ UNCHANGED <<open, pool, at>>
      BY <1>4 DEF OpenBatch
    <2>2. Placed' = Placed
      BY <1>1, <2>1 DEF Placed
    <2>3. TypeOK' /\ ScheduledOnce' /\ PathsClear'
      BY <1>1, <1>2, <2>1 DEF TypeOK, ScheduledOnce, PathsClear
    <2>4. PoolInv' /\ QueueInv'
      BY <1>1, <2>1, <2>2 DEF PoolInv, QueueInv, Choosing
    <2>5. QED
      BY <2>3, <2>4 DEF ScheduleInv
  <1>5. QED
    BY <1>3, <1>4

LEMMA CloseBatchKeeps == ScheduleInv /\ CloseBatch => ScheduleInv'
PROOF
  <1> SUFFICES ASSUME ScheduleInv, CloseBatch PROVE ScheduleInv'
    OBVIOUS
  <1>1. /\ TypeOK /\ PoolInv /\ phase' = "open"
        /\ closed' = Append(closed, open) /\ open' = {}
        /\ UNCHANGED <<proposal, priority, turn, queue, pool, at>>
    BY DEF CloseBatch, Close, ScheduleInv
  <1>2. Kept /\ Placed' = Placed \cup {}
    BY <1>1, CloseOpen
  <1>3. TypeOK'
    BY <1>1, <1>2 DEF TypeOK, Kept, PriorityLanes
  <1>4. PoolInv' /\ QueueInv'
    BY <1>1, <1>2 DEF PoolInv, QueueInv, Choosing
  <1>5. QED
    BY <1>2, <1>3, <1>4 DEF ScheduleInv, Kept

(* A step that moves on to the next priority vehicle, or past the last.    *)
LEMMA TopUpDoneKeeps == ScheduleInv /\ TopUpDone => ScheduleInv'
PROOF
  <1> SUFFICES ASSUME ScheduleInv, TopUpDone PROVE ScheduleInv'
    OBVIOUS
  <1>1. /\ TypeOK /\ PoolInv /\ QueueInv /\ Choosing
        /\ UNCHANGED <<proposal, closed, open, priority, turn, queue, pool, at>>
        /\ phase' = IF priority = {} THEN "commit" ELSE "place"
    BY DEF TopUpDone, ScheduleInv, Choosing
  <1>2. PriorityLanes' = PriorityLanes /\ Normal' = Normal /\ Placed' = Placed
        /\ \A l : InLane(l)' = InLane(l)
    BY <1>1 DEF PriorityLanes, Normal, Placed, InLane
  <1>3. TypeOK' /\ ScheduledOnce' /\ PathsClear'
    BY <1>1, <1>2 DEF ScheduleInv, TypeOK, ScheduledOnce, PathsClear
  <1>4. PoolInv'
    BY <1>1, <1>2 DEF PoolInv, Choosing
  <1>5. QueueInv'
    BY <1>1, <1>2 DEF QueueInv, Choosing
  <1>6. QED
    BY <1>3, <1>4, <1>5 DEF ScheduleInv

LEMMA StutterKeeps == ScheduleInv /\ UNCHANGED vars => ScheduleInv'
PROOF
  <1> SUFFICES ASSUME ScheduleInv, UNCHANGED vars PROVE ScheduleInv'
    OBVIOUS
  <1>1. PriorityLanes' = PriorityLanes /\ Normal' = Normal /\ Placed' = Placed
        /\ (\A l : InLane(l)' = InLane(l)) /\ Choosing' = Choosing
    BY DEF vars, PriorityLanes, Normal, Placed, InLane, Choosing
  <1>2. QED
    BY <1>1 DEF vars, ScheduleInv, TypeOK, ScheduledOnce, PathsClear, PoolInv, QueueInv

-----------------------------------------------------------------------------
(* What computePassOrder keeps true of its batches and of its pools.       *)
THEOREM ScheduleInvariant == Spec => []ScheduleInv
PROOF
  <1>1. ScheduleInv /\ [Next]_vars => ScheduleInv'
    BY PlacePriorityKeeps, TopUpKeeps, TopUpDoneKeeps, CommitKeeps, OpenBatchKeeps,
       CloseBatchKeeps, StutterKeeps DEF Next
  <1>2. QED
    BY ScheduleInit, <1>1, PTL DEF Spec

(* No vehicle is in two batches of the schedule.                           *)
THEOREM EachScheduledOnce == Spec => []ScheduledOnce
PROOF
  <1>1. ScheduleInv => ScheduledOnce
    BY DEF ScheduleInv
  <1>2. QED
    BY <1>1, ScheduleInvariant, PTL

(* The vehicles of a batch take different parts of the junction.           *)
THEOREM BatchesAreClear == Spec => []PathsClear
PROOF
  <1>1. ScheduleInv => PathsClear
    BY DEF ScheduleInv
  <1>2. QED
    BY <1>1, ScheduleInvariant, PTL
-----------------------------------------------------------------------------
(* Nobody is forgotten: in step 3 whoever has no place yet stands in the   *)
(* pool, so that the loop ends with an empty pool or a full schedule.      *)
Everybody ==
  /\ phase \in {"open", "fill", "done"} => Vehicle \ Placed \subseteq Range(pool)
  /\ phase \in {"open", "done"} /\ InBounds => open = {}
  /\ phase = "fill" => InBounds
  /\ phase = "done" /\ InBounds => pool = <<>>

LEMMA EverybodyInit == Init => Everybody
PROOF
  BY DEF Init, Everybody

(* The vehicle a step of the inner loop looks at.                          *)
LEMMA TopUpVehicle ==
  ASSUME ScheduleInv, TopUp
  PROVE  /\ InBounds /\ UNCHANGED <<proposal, closed, priority, turn, queue, phase>>
         /\ pool[at] \in Vehicle \ Placed /\ pool[at] \in Range(pool)
         /\ \/ open' = open /\ pool' = pool /\ Placed' = Placed
            \/ /\ open' = open \cup {pool[at]} /\ Placed' = Placed \cup {pool[at]}
               /\ ~ConflictsWithBatch(pool[at], open)
               /\ at \in DOMAIN pool /\ pool' = RemoveAt(pool, at)
               /\ Range(pool') = Range(pool) \ {pool[at]}
PROOF
  <1>1. /\ PoolInv /\ at \in DOMAIN pool /\ pool \in Seq(Vehicle) /\ InBounds
        /\ UNCHANGED <<proposal, closed, priority, turn, queue, phase>>
    BY DEF TopUp, ScheduleInv, TypeOK
  <1>2. pool[at] \in Range(pool) /\ Range(RemoveAt(pool, at)) = Range(pool) \ {pool[at]}
    BY <1>1, RemoveAtOfInjective DEF PoolInv
  <1>3. pool[at] \in Vehicle \ Placed
    BY <1>1, <1>2 DEF PoolInv
  <1>4. CASE ConflictsWithBatch(pool[at], open)
    <2>1. UNCHANGED <<open, pool>>
      BY <1>4 DEF TopUp
    <2>2. Placed' = Placed
      BY <1>1, <2>1 DEF Placed
    <2>3. QED
      BY <1>1, <1>2, <1>3, <2>1, <2>2
  <1>5. CASE ~ConflictsWithBatch(pool[at], open)
    <2>1. open' = open \cup {pool[at]} /\ pool' = RemoveAt(pool, at)
      BY <1>5 DEF TopUp, TakenFrom
    <2>2. Placed' = Placed \cup {pool[at]}
      BY <1>1, <1>3, <1>5, <2>1, JoinOpen
    <2>3. QED
      BY <1>1, <1>2, <1>3, <1>5, <2>1, <2>2
  <1>6. QED
    BY <1>4, <1>5

(* The vehicle that opens a batch.                                         *)
LEMMA OpenBatchVehicle ==
  ASSUME ScheduleInv, Everybody, OpenBatch, phase' = "fill"
  PROVE  /\ InBounds /\ pool # <<>> /\ open = {} /\ phase = "open"
         /\ UNCHANGED <<proposal, closed, priority, turn, queue>>
         /\ Head(pool) \in Vehicle \ Placed /\ Head(pool) \in Range(pool)
         /\ open' = {Head(pool)} /\ Placed' = Placed \cup {Head(pool)}
         /\ pool' = Tail(pool) /\ Range(pool') = Range(pool) \ {Head(pool)}
PROOF
  <1>1. /\ PoolInv /\ pool \in Seq(Vehicle) /\ phase = "open"
        /\ UNCHANGED <<proposal, closed, priority, turn, queue>>
    BY DEF OpenBatch, ScheduleInv, TypeOK
  <1>2. pool # <<>> /\ InBounds /\ open' = {Head(pool)} /\ pool' = Tail(pool)
    BY DEF OpenBatch
  <1>3. open = {}
    BY <1>1, <1>2 DEF Everybody
  <1>4. Head(pool) \in Range(pool) /\ Range(Tail(pool)) = Range(pool) \ {Head(pool)}
    BY <1>1, <1>2, TailOfInjective DEF PoolInv
  <1>5. Head(pool) \in Vehicle
    BY <1>1, <1>2
  <1>6. Head(pool) \in Vehicle \ Placed
    BY <1>1, <1>4, <1>5 DEF PoolInv
  <1>7. Placed' = Placed \cup {Head(pool)}
    BY <1>1, <1>2, <1>3 DEF Placed
  <1>8. QED
    BY <1>1, <1>2, <1>3, <1>4, <1>6, <1>7

(* A batch is closed with all its vehicles.                                *)
LEMMA CloseBatchMoves ==
  ASSUME ScheduleInv, CloseBatch
  PROVE  /\ phase = "fill" /\ phase' = "open" /\ closed' = Append(closed, open) /\ open' = {}
         /\ UNCHANGED <<proposal, priority, turn, queue, pool, at>> /\ Placed' = Placed
PROOF
  <1>1. /\ phase = "fill" /\ phase' = "open" /\ closed' = Append(closed, open) /\ open' = {}
        /\ UNCHANGED <<proposal, priority, turn, queue, pool, at>>
    BY DEF CloseBatch, Close
  <1>2. Placed' = Placed \cup {}
    BY <1>1, CloseOpen
  <1>3. QED
    BY <1>1, <1>2

(* Step 2 ends with a closed batch, unless the schedule is full or empty.  *)
LEMMA CommitMoves ==
  ASSUME ScheduleInv, Commit
  PROVE  /\ phase = "commit" /\ phase' = "open" /\ UNCHANGED <<proposal, priority, turn, queue>>
         /\ pool' \in FairOrders(LeftOver) /\ Range(pool') = Vehicle \ Placed /\ Placed' = Placed
         /\ \/ InBounds /\ open # {} /\ closed' = Append(closed, open) /\ open' = {}
            \/ (InBounds => open = {}) /\ UNCHANGED <<closed, open>>
PROOF
  <1>1. /\ phase = "commit" /\ phase' = "open" /\ UNCHANGED <<proposal, priority, turn, queue>>
        /\ pool' \in FairOrders(LeftOver) /\ LeftOver = Vehicle \ Placed
    BY DEF Commit, LeftOver
  <1>2. Range(pool') = Vehicle \ Placed
    BY <1>1, OrdersInjective
  <1>3. CASE InBounds /\ open # {}
    <2>1. closed' = Append(closed, open) /\ open' = {}
      BY <1>3 DEF Commit, Close
    <2>2. Placed' = Placed \cup {}
      BY <1>1, <2>1, CloseOpen
    <2>3. QED
      BY <1>1, <1>2, <1>3, <2>1, <2>2
  <1>4. CASE ~(InBounds /\ open # {})
    <2>1. UNCHANGED <<closed, open>>
      BY <1>4 DEF Commit
    <2>2. Placed' = Placed
      BY <2>1 DEF Placed
    <2>3. QED
      BY <1>1, <1>2, <1>4, <2>1, <2>2
  <1>5. QED
    BY <1>3, <1>4

LEMMA EverybodyNext == ScheduleInv /\ Everybody /\ [Next]_vars => Everybody'
PROOF
  <1> SUFFICES ASSUME ScheduleInv, Everybody, [Next]_vars PROVE Everybody'
    OBVIOUS
  <1>1. CASE PlacePriority
    BY <1>1 DEF PlacePriority, Everybody
  <1>2. CASE TopUp
    <2>1. InBounds' = InBounds /\ phase' = phase /\ phase \in {"topUp", "fill"}
      BY <1>2, TopUpVehicle DEF InBounds, TopUp
    <2>2. Vehicle \ Placed \subseteq Range(pool) => Vehicle \ Placed' \subseteq Range(pool')
      BY <1>2, TopUpVehicle
    <2>3. QED
      BY <2>1, <2>2 DEF Everybody
  <1>3. CASE TopUpDone
    BY <1>3 DEF TopUpDone, Everybody
  <1>4. CASE Commit
    <2>1. InBounds' => open' = {}
      BY <1>4, CommitMoves DEF InBounds
    <2>2. QED
      BY <1>4, <2>1, CommitMoves DEF Everybody
  <1>5. CASE OpenBatch
    <2>1. CASE phase' = "fill"
      <3>1. InBounds' /\ Vehicle \ Placed' \subseteq Range(pool')
        BY <1>5, <2>1, OpenBatchVehicle DEF InBounds, Everybody
      <3>2. QED
        BY <2>1, <3>1 DEF Everybody
    <2>2. CASE phase' # "fill"
      <3>1. /\ phase = "open" /\ phase' = "done" /\ UNCHANGED <<open, closed, pool>>
            /\ ~(pool # <<>> /\ InBounds)
        BY <1>5, <2>2 DEF OpenBatch
      <3>2. Placed' = Placed /\ InBounds' = InBounds
        BY <3>1 DEF Placed, InBounds
      <3>3. QED
        BY <3>1, <3>2 DEF Everybody
    <2>3. QED
      BY <2>1, <2>2
  <1>6. CASE CloseBatch
    BY <1>6, CloseBatchMoves DEF Everybody
  <1>7. CASE UNCHANGED vars
    <2>1. Placed' = Placed /\ InBounds' = InBounds
      BY <1>7 DEF vars, Placed, InBounds
    <2>2. QED
      BY <1>7, <2>1 DEF vars, Everybody
  <1>8. QED
    BY <1>1, <1>2, <1>3, <1>4, <1>5, <1>6, <1>7 DEF Next

LEMMA EverybodyInvariant == Spec => [](ScheduleInv /\ Everybody)
PROOF
  <1>1. ScheduleInv /\ Everybody /\ [Next]_vars => Everybody'
    BY EverybodyNext
  <1>2. QED
    BY EverybodyInit, <1>1, ScheduleInvariant, PTL DEF Spec

(* Whoever made a proposal has a place in the schedule, or the schedule is *)
(* full.                                                                   *)
THEOREM EverybodyGoes == Spec => []NobodyForgotten
PROOF
  <1>1. ScheduleInv /\ Everybody => NobodyForgotten
    <2> SUFFICES ASSUME ScheduleInv, Everybody, phase = "done", InBounds
                 PROVE  UNION {closed[k] : k \in DOMAIN closed} = Vehicle
      BY DEF NobodyForgotten
    <2>1. Vehicle \ Placed \subseteq Range(pool) /\ pool = <<>> /\ open = {}
      BY DEF Everybody
    <2>2. Range(pool) = {}
      BY <2>1 DEF Range
    <2>3. Placed = UNION {closed[k] : k \in DOMAIN closed}
      BY <2>1 DEF Placed
    <2>4. closed \in Seq(SUBSET Vehicle)
      BY DEF ScheduleInv, TypeOK
    <2>5. QED
      BY <2>1, <2>2, <2>3, <2>4
  <1>2. QED
    BY <1>1, EverybodyInvariant, PTL

-----------------------------------------------------------------------------
(* What holds of neighbours in a sequence holds from its head on: else     *)
(* there were a first place where it did not.                              *)

LEMMA LeastNatural ==
  ASSUME NEW S \in SUBSET Nat, S # {}
  PROVE  \E n \in S : \A m \in S : n <= m
PROOF
  <1> DEFINE R == {ss \in Nat \X Nat : ss[1] < ss[2]}
  <1>1. IsWellFoundedOn(R, Nat)
    BY NatLessThanWellFounded DEF OpToRel
  <1> HIDE DEF R
  <1>2. PICK x \in S : \A y \in S : ~(<<y, x>> \in R)
    BY <1>1, WFMin
  <1>3. ASSUME NEW m \in S PROVE x <= m
    <2>1. x \in Nat /\ m \in Nat
      OBVIOUS
    <2>2. ~(<<m, x>> \in R)
      BY <1>2
    <2>3. ~(m < x)
      BY <2>1, <2>2 DEF R
    <2>4. QED
      BY <2>1, <2>3
  <1>4. QED
    BY <1>3

(* A set that takes the neighbour before has the head, if it has anybody.  *)
LEMMA HeadIsIn ==
  ASSUME NEW S, NEW s \in Seq(S), NEW F,
         \A k \in 1..(Len(s) - 1) : s[k + 1] \in F => s[k] \in F,
         Range(s) \cap F # {}
  PROVE  s # <<>> /\ Head(s) \in F
PROOF
  <1> DEFINE I == {k \in 1..Len(s) : s[k] \in F}
  <1>1. I \in SUBSET Nat /\ I # {}
    BY DEF Range
  <1>2. PICK n \in I : \A m \in I : n <= m
    BY <1>1, LeastNatural
  <1>3. n \in 1..Len(s) /\ s[n] \in F /\ Len(s) \in Nat
    BY <1>2
  <1>4. n = 1
    <2>1. SUFFICES ASSUME n # 1 PROVE FALSE
      OBVIOUS
    <2>2. n - 1 \in 1..(Len(s) - 1) /\ (n - 1) + 1 = n
      BY <1>3, <2>1
    <2>3. s[n - 1] \in F
      BY <1>3, <2>2
    <2>4. n - 1 \in I
      BY <1>3, <2>2, <2>3
    <2>5. QED
      BY <1>2, <1>3, <2>4
  <1>5. QED
    BY <1>3, <1>4

(* The head of a sequence with ascending neighbours is its least.          *)
LEMMA HeadIsLeast ==
  ASSUME NEW S, NEW s \in Seq(S), NEW d \in [S -> Nat], s # <<>>,
         \A k \in 1..(Len(s) - 1) : d[s[k]] <= d[s[k + 1]]
  PROVE  \A x \in Range(s) : d[Head(s)] <= d[x]
PROOF
  <1> DEFINE F == {x \in S : d[x] < d[Head(s)]}
  <1>1. Head(s) \in S /\ Range(s) \subseteq S
    BY DEF Range
  <1>2. \A k \in 1..(Len(s) - 1) : s[k + 1] \in F => s[k] \in F
    <2> SUFFICES ASSUME NEW k \in 1..(Len(s) - 1), s[k + 1] \in F PROVE s[k] \in F
      OBVIOUS
    <2>1. s[k] \in S /\ s[k + 1] \in S /\ d[s[k]] <= d[s[k + 1]]
      OBVIOUS
    <2>2. d[s[k]] \in Nat /\ d[s[k + 1]] \in Nat /\ d[Head(s)] \in Nat
      BY <1>1, <2>1
    <2>3. QED
      BY <2>1, <2>2
  <1>3. Head(s) \notin F
    BY <1>1
  <1> HIDE DEF F
  <1>4. Range(s) \cap F = {}
    BY <1>2, <1>3, HeadIsIn
  <1>5. ASSUME NEW x \in Range(s) PROVE d[Head(s)] <= d[x]
    <2>1. x \in S /\ ~(d[x] < d[Head(s)])
      BY <1>1, <1>4 DEF F
    <2>2. d[x] \in Nat /\ d[Head(s)] \in Nat
      BY <1>1, <2>1
    <2>3. QED
      BY <2>1, <2>2
  <1>6. QED
    BY <1>5

-----------------------------------------------------------------------------
(* Without priority vehicles, a batch with a vehicle of the front of its   *)
(* lane is never behind one without: the fairness order puts them first,   *)
(* and a vehicle leaves the pool only for the batch that is open.          *)
Fronts == {v \in Vehicle : proposal[v].front}
InFrontOrder(s) == \A k \in 1..(Len(s) - 1) : s[k + 1] \in Fronts => s[k] \in Fronts
FrontsInv ==
  /\ InFrontOrder(pool)
  /\ PriorityLanes = {} =>
       /\ ~Choosing
       /\ phase = "commit" => closed = <<>> /\ open = {}
       /\ phase = "fill" /\ Range(pool) \cap Fronts # {} => open \cap Fronts # {}
       /\ /\ phase \in {"open", "fill"}
          /\ (open \cup Range(pool)) \cap Fronts # {}
          => \A k \in DOMAIN closed : closed[k] \cap Fronts # {}
       /\ FrontsLead

LEMMA FairInFrontOrder ==
  ASSUME proposal \in [Vehicle -> Proposal], NEW S \in SUBSET Vehicle, NEW s \in FairOrders(S)
  PROVE  InFrontOrder(s)
PROOF
  <1>1. s \in Seq(S)
    BY OrdersInjective
  <1>2. \A k \in 1..(Len(s) - 1) : ~Fairer(proposal[s[k + 1]], proposal[s[k]])
    BY DEF FairOrders
  <1>3. \A k \in 1..(Len(s) - 1) : s[k] \in Vehicle /\ s[k + 1] \in Vehicle
    BY <1>1
  <1>4. QED
    BY <1>2, <1>3 DEF Fairer, FrontFirst, InFrontOrder, Fronts

LEMMA TailInFrontOrder ==
  ASSUME NEW s \in Seq(Vehicle), s # <<>>, InFrontOrder(s)
  PROVE  InFrontOrder(Tail(s))
PROOF
  <1>1. /\ Len(Tail(s)) = Len(s) - 1 /\ Len(s) \in Nat \ {0}
        /\ \A k \in 1..Len(Tail(s)) : Tail(s)[k] = s[k + 1]
    OBVIOUS
  <1>2. \A k \in 1..(Len(Tail(s)) - 1) :
          /\ k + 1 \in 1..(Len(s) - 1)
          /\ Tail(s)[k] = s[k + 1] /\ Tail(s)[k + 1] = s[(k + 1) + 1]
    BY <1>1
  <1>3. QED
    BY <1>2 DEF InFrontOrder

LEMMA RemoveAtInFrontOrder ==
  ASSUME NEW s \in Seq(Vehicle), NEW i \in DOMAIN s, InFrontOrder(s)
  PROVE  InFrontOrder(RemoveAt(s, i))
PROOF
  <1>1. Len(s) \in Nat \ {0} /\ i \in 1..Len(s)
    OBVIOUS
  <1>2. SUFFICES ASSUME NEW k \in 1..(Len(s) - 2), RemoveAt(s, i)[k + 1] \in Fronts
                 PROVE  RemoveAt(s, i)[k] \in Fronts
    BY <1>1, RemoveAtElements DEF InFrontOrder
  <1>3. k \in 1..(Len(s) - 1) /\ k + 1 \in 1..(Len(s) - 1)
    BY <1>1
  <1>4. /\ RemoveAt(s, i)[k] = IF k < i THEN s[k] ELSE s[k + 1]
        /\ RemoveAt(s, i)[k + 1] = IF k + 1 < i THEN s[k + 1] ELSE s[(k + 1) + 1]
    BY <1>3, RemoveAtElements
  <1>5. /\ s[k + 1] \in Fronts => s[k] \in Fronts
        /\ s[(k + 1) + 1] \in Fronts => s[k + 1] \in Fronts
    BY <1>3 DEF InFrontOrder
  <1>6. k < i \/ ~(k + 1 < i)
    BY <1>1
  <1>7. QED
    BY <1>2, <1>4, <1>5, <1>6
LEMMA FrontsInit == Init => FrontsInv
PROOF
  <1> SUFFICES ASSUME Init PROVE FrontsInv
    OBVIOUS
  <1>1. proposal \in [Vehicle -> Proposal] /\ Normal \in SUBSET Vehicle
    BY ProposalAssumption DEF Init, Normal
  <1>2. InFrontOrder(pool)
    BY <1>1, FairInFrontOrder DEF Init
  <1>3. closed = <<>> /\ open = {} /\ DOMAIN closed = {}
    BY DEF Init
  <1>4. FrontsLead
    BY <1>3 DEF FrontsLead
  <1>5. PriorityLanes = {} => phase = "commit"
    BY DEF Init
  <1>6. QED
    BY <1>2, <1>3, <1>4, <1>5 DEF FrontsInv, Choosing

LEMMA FrontsTopUp ==
  ASSUME ScheduleInv, FrontsInv, TopUp
  PROVE  FrontsInv'
PROOF
  <1>1. /\ UNCHANGED <<proposal, closed, phase>> /\ pool \in Seq(Vehicle)
        /\ phase \in {"topUp", "fill"}
    BY DEF TopUp, ScheduleInv, TypeOK
  <1>2. Fronts' = Fronts /\ PriorityLanes' = PriorityLanes /\ Choosing' = Choosing
        /\ FrontsLead' = FrontsLead
    BY <1>1 DEF Fronts, PriorityLanes, Choosing, FrontsLead, HasFront
  <1>3. InFrontOrder(pool)'
    <2>1. CASE pool' = pool
      BY <1>2, <2>1 DEF FrontsInv, InFrontOrder
    <2>2. CASE at \in DOMAIN pool /\ pool' = RemoveAt(pool, at)
      <3>1. InFrontOrder(RemoveAt(pool, at))
        BY <1>1, <2>2, RemoveAtInFrontOrder DEF FrontsInv
      <3>2. QED
        BY <1>2, <2>2, <3>1 DEF InFrontOrder
    <2>3. QED
      BY <2>1, <2>2, TopUpVehicle
  <1>4. /\ Range(pool') \subseteq Range(pool) /\ open \subseteq open'
        /\ open' \cup Range(pool') \subseteq open \cup Range(pool)
    BY TopUpVehicle
  <1>5. QED
    BY <1>1, <1>2, <1>3, <1>4 DEF FrontsInv

LEMMA FrontsCommit ==
  ASSUME ScheduleInv, FrontsInv, Commit
  PROVE  FrontsInv'
PROOF
  <1>1. /\ UNCHANGED proposal /\ phase = "commit" /\ phase' = "open"
        /\ pool' \in FairOrders(LeftOver) /\ LeftOver \in SUBSET Vehicle
        /\ proposal \in [Vehicle -> Proposal]
    BY CommitMoves DEF LeftOver, ScheduleInv, TypeOK
  <1>2. Fronts' = Fronts /\ PriorityLanes' = PriorityLanes
    BY <1>1 DEF Fronts, PriorityLanes
  <1>3. InFrontOrder(pool)'
    <2>1. InFrontOrder(pool')
      BY <1>1, FairInFrontOrder
    <2>2. QED
      BY <1>2, <2>1 DEF InFrontOrder
  <1>4. ASSUME PriorityLanes = {} PROVE DOMAIN closed' = {}
    <2>1. closed = <<>> /\ open = {}
      BY <1>1, <1>4 DEF FrontsInv
    <2>2. QED
      BY <2>1, CommitMoves
  <1>5. PriorityLanes = {} => FrontsLead'
    BY <1>4 DEF FrontsLead
  <1>6. QED
    BY <1>1, <1>2, <1>3, <1>4, <1>5 DEF FrontsInv, Choosing

LEMMA FrontsOpenBatch ==
  ASSUME ScheduleInv, Everybody, FrontsInv, OpenBatch
  PROVE  FrontsInv'
PROOF
  <1>1. /\ UNCHANGED <<proposal, closed>> /\ pool \in Seq(Vehicle) /\ phase = "open"
    BY DEF OpenBatch, ScheduleInv, TypeOK
  <1>2. Fronts' = Fronts /\ PriorityLanes' = PriorityLanes /\ FrontsLead' = FrontsLead
    BY <1>1 DEF Fronts, PriorityLanes, FrontsLead, HasFront
  <1>3. CASE phase' = "fill"
    <2>1. /\ pool # <<>> /\ open' = {Head(pool)} /\ pool' = Tail(pool)
          /\ Head(pool) \in Range(pool) /\ Range(pool') \subseteq Range(pool)
      BY <1>3, OpenBatchVehicle
    <2>2. InFrontOrder(pool)'
      <3>1. InFrontOrder(Tail(pool))
        BY <1>1, <2>1, TailInFrontOrder DEF FrontsInv
      <3>2. QED
        BY <1>2, <2>1, <3>1 DEF InFrontOrder
    <2>3. Range(pool) \cap Fronts # {} => Head(pool) \in Fronts
      BY <1>1, HeadIsIn DEF FrontsInv, InFrontOrder
    <2>4. QED
      BY <1>1, <1>2, <1>3, <2>1, <2>2, <2>3 DEF FrontsInv, Choosing
  <1>4. CASE phase' # "fill"
    <2>1. phase' = "done" /\ UNCHANGED <<open, pool>>
      BY <1>4 DEF OpenBatch
    <2>2. QED
      BY <1>1, <1>2, <2>1 DEF FrontsInv, InFrontOrder, Choosing
  <1>5. QED
    BY <1>3, <1>4

LEMMA FrontsCloseBatch ==
  ASSUME ScheduleInv, FrontsInv, CloseBatch
  PROVE  FrontsInv'
PROOF
  <1>1. /\ UNCHANGED <<proposal, pool>> /\ phase = "fill" /\ phase' = "open"
        /\ closed' = Append(closed, open) /\ open' = {}
        /\ closed \in Seq(SUBSET Vehicle) /\ open \in SUBSET Vehicle
    BY CloseBatchMoves DEF ScheduleInv, TypeOK
  <1>2. Fronts' = Fronts /\ PriorityLanes' = PriorityLanes
    BY <1>1 DEF Fronts, PriorityLanes
  <1>3. InFrontOrder(pool)'
    BY <1>1, <1>2 DEF FrontsInv, InFrontOrder
  <1>4. /\ Len(closed) \in Nat /\ DOMAIN closed' = 1..(Len(closed) + 1)
        /\ \A k \in 1..Len(closed) : closed'[k] = closed[k] /\ closed[k] \in SUBSET Vehicle
        /\ closed'[Len(closed) + 1] = open
    BY <1>1
  <1>5. ASSUME PriorityLanes = {} PROVE FrontsLead'
    <2>1. SUFFICES ASSUME NEW j \in DOMAIN closed', NEW k \in DOMAIN closed',
                          j < k, \E v \in closed'[k] : proposal'[v].front
                   PROVE  \E v \in closed'[j] : proposal'[v].front
      BY DEF FrontsLead, HasFront
    <2>2. \E v \in closed'[k] : proposal[v].front
      BY <1>1, <2>1
    <2>3. j \in 1..Len(closed) /\ closed'[j] = closed[j]
      BY <1>4, <2>1
    <2>4. \E v \in closed[j] : proposal[v].front
      <3>1. CASE k = Len(closed) + 1
        <4>1. open \cap Fronts # {}
          BY <1>1, <1>4, <2>2, <3>1 DEF Fronts
        <4>2. closed[j] \cap Fronts # {}
          BY <1>1, <1>5, <2>3, <4>1 DEF FrontsInv
        <4>3. QED
          BY <4>2 DEF Fronts
      <3>2. CASE k # Len(closed) + 1
        <4>1. k \in 1..Len(closed)
          BY <1>4, <3>2
        <4>2. HasFront(closed[k])
          BY <1>4, <2>2, <4>1 DEF HasFront
        <4>3. QED
          BY <1>5, <2>1, <2>3, <4>1, <4>2 DEF FrontsInv, FrontsLead, HasFront
      <3>3. QED
        BY <3>1, <3>2
    <2>5. QED
      BY <1>1, <2>3, <2>4
  <1>6. ASSUME PriorityLanes = {}, Range(pool) \cap Fronts # {}
        PROVE  \A k \in DOMAIN closed' : closed'[k] \cap Fronts # {}
    <2>1. open \cap Fronts # {} /\ \A k \in DOMAIN closed : closed[k] \cap Fronts # {}
      BY <1>1, <1>6 DEF FrontsInv
    <2>2. QED
      BY <1>4, <2>1
  <1>7. QED
    BY <1>1, <1>2, <1>3, <1>5, <1>6 DEF FrontsInv, Choosing

LEMMA FrontsNext == ScheduleInv /\ Everybody /\ FrontsInv /\ [Next]_vars => FrontsInv'
PROOF
  <1> SUFFICES ASSUME ScheduleInv, Everybody, FrontsInv, [Next]_vars PROVE FrontsInv'
    OBVIOUS
  <1>1. CASE PlacePriority \/ TopUpDone
    <2>1. UNCHANGED <<proposal, pool>> /\ Choosing
      BY <1>1 DEF PlacePriority, TopUpDone, Choosing
    <2>2. PriorityLanes # {} /\ PriorityLanes' = PriorityLanes /\ Fronts' = Fronts
      BY <2>1 DEF FrontsInv, PriorityLanes, Fronts
    <2>3. QED
      BY <2>1, <2>2 DEF FrontsInv, InFrontOrder
  <1>2. CASE UNCHANGED vars
    BY <1>2 DEF vars, FrontsInv, InFrontOrder, Fronts, PriorityLanes, Choosing, FrontsLead, HasFront
  <1>3. QED
    BY <1>1, <1>2, FrontsTopUp, FrontsCommit, FrontsOpenBatch, FrontsCloseBatch DEF Next

(* Without priority vehicles no batch of queued vehicles goes before one   *)
(* with a vehicle from the front of its lane.                              *)
THEOREM FrontsGoFirst == Spec => []FrontsLead
PROOF
  <1>1. FrontsInv => FrontsLead
    BY DEF FrontsInv, FrontsLead
  <1>2. QED
    BY <1>1, FrontsInit, FrontsNext, EverybodyInvariant, PTL DEF Spec
-----------------------------------------------------------------------------
(* The queues of the priority lanes: in the order of distance, with        *)
(* everybody of a lane that is not released in its queue or placed.  A     *)
(* lane is released when nobody in it is needed any more by the first      *)
(* priority vehicle.                                                       *)
Dist == [v \in Vehicle |-> proposal[v].distance]
Ascending(s) == \A k \in 1..(Len(s) - 1) : Dist[s[k]] <= Dist[s[k + 1]]
Released(v) == proposal[v].lane \notin priority

QueuesInv ==
  /\ ~Choosing => priority = {}
  /\ Choosing => \A l \in PriorityLanes : Ascending(queue[l])
  /\ Choosing => \A l \in priority : \A v \in InLane(l) :
       /\ InBounds => v \in Placed \cup Range(queue[l])
       /\ proposal[v].priority => v \in Range(queue[l])
  /\ InBounds => /\ \A v \in FirstPriority : Released(v) => Ahead(v) \subseteq Placed
                 /\ \A v \in Sole : Released(v) => v \in Placed

LEMMA FirstPriorityFacts ==
  /\ \A v \in FirstPriority : v \in Vehicle /\ proposal[v].priority
                              /\ proposal[v].lane \in PriorityLanes
  /\ Sole \subseteq FirstPriority
  /\ \A v : Ahead(v) \subseteq InLane(proposal[v].lane)
PROOF
  BY DEF FirstPriority, Sole, PriorityLanes, Ahead

(* They depend on the proposals only.                                      *)
LEMMA SameProposals ==
  ASSUME UNCHANGED proposal
  PROVE  /\ PriorityLanes' = PriorityLanes /\ FirstPriority' = FirstPriority /\ Sole' = Sole
         /\ Urgent' = Urgent /\ Dist' = Dist
         /\ (\A l : InLane(l)' = InLane(l)) /\ (\A v : Ahead(v)' = Ahead(v))
PROOF
  <1>1. PriorityLanes' = PriorityLanes /\ (\A l : InLane(l)' = InLane(l)) /\ Dist' = Dist
    BY DEF PriorityLanes, InLane, Dist
  <1>2. \A v : Ahead(v)' = Ahead(v)
    BY DEF Ahead, InLane
  <1>3. FirstPriority' = FirstPriority
    BY DEF FirstPriority, Ahead, InLane
  <1>4. Sole' = Sole /\ Urgent' = Urgent
    BY <1>1, <1>3 DEF Sole, Urgent, InLane
  <1>5. QED
    BY <1>1, <1>2, <1>3, <1>4

LEMMA AddPlaces ==
  ASSUME ScheduleInv, UNCHANGED proposal, NEW v \in Vehicle \ Placed, AddVehicleToBatch(v),
         InBounds'
  PROVE  InBounds /\ Placed' = Placed \cup {v}
PROOF
  <1>1. closed \in Seq(SUBSET Vehicle) /\ Len(closed) \in Nat /\ MaxBatches \in Nat
    BY SizeAssumption DEF ScheduleInv, TypeOK
  <1>2. Len(closed) # MaxBatches
    BY <1>1 DEF AddVehicleToBatch, InBounds
  <1>3. CASE Fits(v, open)
    <2>1. ~ConflictsWithBatch(v, open) /\ closed' = closed /\ open' = open \cup {v}
      BY <1>2, <1>3 DEF AddVehicleToBatch, Fits
    <2>2. QED
      BY <2>1, JoinOpen DEF InBounds
  <1>4. CASE ~Fits(v, open)
    <2>1. closed' = Append(closed, open)
      BY <1>2, <1>4 DEF AddVehicleToBatch
    <2>2. Len(closed') = Len(closed) + 1
      BY <1>1, <2>1
    <2>3. InBounds /\ Len(closed') # MaxBatches
      BY <1>1, <2>2 DEF InBounds
    <2>4. open' = {v}
      BY <1>2, <1>4, <2>3 DEF AddVehicleToBatch
    <2>5. QED
      BY <2>1, <2>3, <2>4, CloseOpen
  <1>5. QED
    BY <1>3, <1>4

(* The vehicle of step 2: the closest of a lane that is not released.      *)
Chosen(lane, v) ==
  /\ lane \in priority /\ lane \in PriorityLanes /\ v \in InLane(lane) \ Placed /\ v \in Vehicle
  /\ v \in Range(queue[lane]) /\ \A x \in Range(queue[lane]) : Dist[v] <= Dist[x]
  /\ AddVehicleToBatch(v)
  /\ \A l \in PriorityLanes : Ascending(queue'[l])
  /\ \A l \in PriorityLanes : l # lane => queue'[l] = queue[l]
  /\ Range(queue'[lane]) = Range(queue[lane]) \ {v}
  /\ priority' \in {priority, priority \ {lane}}
  /\ lane \in priority' => ~proposal[v].priority
  /\ lane \notin priority' => proposal[v].priority \/ Range(queue[lane]) = {v}

LEMMA PlacePriorityVehicle ==
  ASSUME ScheduleInv, QueuesInv, PlacePriority
  PROVE  /\ Choosing /\ Choosing' /\ phase = "place" /\ phase' = "topUp"
         /\ UNCHANGED <<proposal, pool>>
         /\ \E lane, v : Chosen(lane, v)
PROOF
  <1> DEFINE lanes == IF turn \cap priority = {} THEN priority ELSE turn \cap priority
             lane  == CHOOSE l \in lanes : \A k \in lanes : l <= k
             v     == Head(queue[lane])
             left  == Tail(queue[lane])
  <1>1. /\ TypeOK /\ QueueInv /\ phase = "place" /\ phase' = "topUp" /\ priority # {}
        /\ Choosing /\ Choosing' /\ UNCHANGED <<proposal, pool>>
    BY DEF PlacePriority, ScheduleInv, QueueInv, Choosing
  <1>2. PriorityLanes \in SUBSET (0..3)
    BY <1>1 DEF TypeOK, PriorityLanes, Proposal
  <1>3. lanes \in SUBSET priority /\ lanes # {} /\ lanes \in SUBSET (0..3)
    BY <1>1, <1>2 DEF TypeOK
  <1>4. lane \in lanes
    <2>1. \E l \in lanes : \A k \in lanes : l <= k
      BY <1>3, LeastLane
    <2> HIDE DEF lanes
    <2>2. QED
      BY <2>1
  <1>5. lane \in priority /\ lane \in PriorityLanes
    BY <1>1, <1>3, <1>4 DEF TypeOK
  <1>6. /\ AddVehicleToBatch(v)
        /\ queue' = [queue EXCEPT ![lane] = left]
        /\ priority' = IF Releases(v, left) THEN priority \ {lane} ELSE priority
    BY DEF PlacePriority
  <1> HIDE DEF lanes, lane
  <1>7. /\ queue[lane] \in Seq(Vehicle) /\ queue[lane] # <<>> /\ IsInjective(queue[lane])
        /\ Range(queue[lane]) \subseteq InLane(lane) \ Placed
    BY <1>1, <1>5 DEF TypeOK, QueueInv
  <1>8. /\ left \in Seq(Vehicle) /\ v \in Range(queue[lane])
        /\ Range(left) = Range(queue[lane]) \ {v}
    BY <1>7, TailOfInjective
  <1>9. v \in InLane(lane) \ Placed /\ v \in Vehicle
    BY <1>7, <1>8 DEF InLane
  <1>10. Ascending(queue[lane])
    BY <1>1, <1>5 DEF QueuesInv
  <1>11. \A x \in Range(queue[lane]) : Dist[v] <= Dist[x]
    <2>1. Dist \in [Vehicle -> Nat]
      BY <1>1 DEF TypeOK, Proposal, Dist
    <2>2. QED
      BY <1>7, <1>10, <2>1, HeadIsLeast DEF Ascending
  <1>12. Ascending(left)
    <2>1. /\ Len(left) = Len(queue[lane]) - 1 /\ Len(queue[lane]) \in Nat \ {0}
          /\ \A k \in 1..Len(left) : left[k] = queue[lane][k + 1]
      BY <1>7
    <2>2. \A k \in 1..(Len(left) - 1) :
            /\ k + 1 \in 1..(Len(queue[lane]) - 1)
            /\ left[k] = queue[lane][k + 1] /\ left[k + 1] = queue[lane][(k + 1) + 1]
      BY <2>1
    <2>3. QED
      BY <1>10, <2>2 DEF Ascending
  <1>13. \A x : Releases(x, left) <=> proposal[x].priority \/ left = <<>>
    BY DEF Releases
  <1>14. left = <<>> => Range(queue[lane]) = {v}
    <2>1. left = <<>> => Range(left) = {}
      BY DEF Range
    <2>2. QED
      BY <1>8, <2>1
  <1> HIDE DEF v, left
  <1>15. /\ queue'[lane] = left
         /\ \A l \in PriorityLanes : l # lane => queue'[l] = queue[l]
    BY <1>1, <1>5, <1>6 DEF TypeOK
  <1>16. \A l \in PriorityLanes : Ascending(queue'[l])
    <2> SUFFICES ASSUME NEW l \in PriorityLanes PROVE Ascending(queue'[l])
      OBVIOUS
    <2>1. CASE l = lane
      BY <1>12, <1>15, <2>1
    <2>2. CASE l # lane
      <3>1. Ascending(queue[l]) /\ queue'[l] = queue[l]
        BY <1>1, <1>15, <2>2 DEF QueuesInv
      <3>2. QED
        BY <3>1
    <2>3. QED
      BY <2>1, <2>2
  <1>17. /\ priority' \in {priority, priority \ {lane}}
         /\ lane \in priority' => ~proposal[v].priority
         /\ lane \notin priority' => proposal[v].priority \/ Range(queue[lane]) = {v}
    BY <1>5, <1>6, <1>13, <1>14
  <1>18. Chosen(lane, v)
    BY <1>5, <1>6, <1>8, <1>9, <1>11, <1>15, <1>16, <1>17 DEF Chosen
  <1>19. QED
    BY <1>1, <1>18

LEMMA QueuesInit == Init => QueuesInv
PROOF
  <1> SUFFICES ASSUME Init PROVE QueuesInv
    OBVIOUS
  <1>1. /\ proposal \in [Vehicle -> Proposal] /\ priority = PriorityLanes
        /\ phase = IF PriorityLanes = {} THEN "commit" ELSE "place"
    BY ProposalAssumption DEF Init
  <1>2. ASSUME NEW l \in PriorityLanes
        PROVE  Ascending(queue[l]) /\ Range(queue[l]) = InLane(l)
    <2>1. queue[l] \in QueueOrders(InLane(l)) /\ InLane(l) \in SUBSET Vehicle
      BY DEF Init, InLane
    <2>2. queue[l] \in Seq(InLane(l)) /\ Range(queue[l]) = InLane(l)
      BY <2>1, OrdersInjective
    <2>3. \A k \in 1..(Len(queue[l]) - 1) :
            ~Closer(proposal[queue[l][k + 1]], proposal[queue[l][k]])
      BY <2>1 DEF QueueOrders
    <2>4. \A k \in 1..(Len(queue[l]) - 1) :
            queue[l][k] \in Vehicle /\ queue[l][k + 1] \in Vehicle
      BY <2>1, <2>2
    <2>5. \A k \in 1..(Len(queue[l]) - 1) :
            /\ proposal[queue[l][k]].distance \in Nat
            /\ proposal[queue[l][k + 1]].distance \in Nat
      BY <1>1, <2>4 DEF Proposal
    <2>6. Ascending(queue[l])
      BY <2>3, <2>4, <2>5 DEF Ascending, Closer, Dist
    <2>7. QED
      BY <2>2, <2>6
  <1>3. \A v \in FirstPriority : ~Released(v)
    BY <1>1, FirstPriorityFacts DEF Released
  <1>4. QED
    BY <1>1, <1>2, <1>3, FirstPriorityFacts DEF QueuesInv, Choosing
(* Two vehicles of a lane are told apart by their distance only.           *)
LEMMA AheadByDist ==
  ASSUME NEW v \in Vehicle, NEW w \in Vehicle
  PROVE  w \in Ahead(v) <=> w \in InLane(proposal[v].lane) /\ Dist[w] < Dist[v]
PROOF
  BY DEF Ahead, Dist, InLane

LEMMA QueuesPlace == ScheduleInv /\ QueuesInv /\ PlacePriority => QueuesInv'
PROOF
  <1> SUFFICES ASSUME ScheduleInv, QueuesInv, PlacePriority PROVE QueuesInv'
    OBVIOUS
  <1>1. PICK lane, h : Chosen(lane, h)
    BY PlacePriorityVehicle
  <1>2. /\ lane \in priority /\ lane \in PriorityLanes /\ h \in InLane(lane) \ Placed
        /\ h \in Vehicle /\ h \in Range(queue[lane])
        /\ \A x \in Range(queue[lane]) : Dist[h] <= Dist[x]
        /\ AddVehicleToBatch(h)
        /\ \A l \in PriorityLanes : Ascending(queue'[l])
        /\ \A l \in PriorityLanes : l # lane => queue'[l] = queue[l]
        /\ Range(queue'[lane]) = Range(queue[lane]) \ {h}
        /\ priority' \in {priority, priority \ {lane}}
        /\ lane \in priority' => ~proposal[h].priority
        /\ lane \notin priority' => proposal[h].priority \/ Range(queue[lane]) = {h}
    BY <1>1 DEF Chosen
  <1>3. /\ Choosing /\ Choosing' /\ UNCHANGED proposal /\ TypeOK /\ QueueInv
        /\ priority \subseteq PriorityLanes
    BY PlacePriorityVehicle DEF ScheduleInv, TypeOK
  <1>4. InBounds' => InBounds /\ Placed' = Placed \cup {h}
    BY <1>2, <1>3, AddPlaces
  <1>5. /\ PriorityLanes' = PriorityLanes /\ FirstPriority' = FirstPriority /\ Sole' = Sole
        /\ Dist' = Dist /\ (\A l : InLane(l)' = InLane(l)) /\ (\A v : Ahead(v)' = Ahead(v))
    BY <1>3, SameProposals
  <1>6. Range(queue[lane]) \subseteq Vehicle /\ Dist \in [Vehicle -> Nat]
    BY <1>2, <1>3 DEF TypeOK, QueueInv, InLane, Proposal, Dist
  <1>7. \A l \in PriorityLanes : Ascending(queue[l])'
    BY <1>2, <1>5 DEF Ascending
  <1>8. ASSUME NEW l \in priority', NEW v \in InLane(l)
        PROVE  /\ InBounds' => v \in Placed' \cup Range(queue'[l])
               /\ proposal[v].priority => v \in Range(queue'[l])
    <2>1. /\ l \in priority /\ (InBounds => v \in Placed \cup Range(queue[l]))
          /\ (proposal[v].priority => v \in Range(queue[l]))
      BY <1>2, <1>3 DEF QueuesInv
    <2>2. CASE l = lane
      BY <1>2, <1>4, <2>1, <2>2
    <2>3. CASE l # lane
      BY <1>2, <1>3, <1>4, <2>1, <2>3
    <2>4. QED
      BY <2>2, <2>3
  <1>9. ASSUME InBounds', NEW v \in FirstPriority, proposal[v].lane \notin priority'
        PROVE  Ahead(v) \subseteq Placed'
    <2>1. CASE proposal[v].lane \notin priority
      BY <1>4, <1>9, <2>1 DEF QueuesInv, Released
    <2>2. CASE proposal[v].lane \in priority
      <3>1. proposal[v].lane = lane /\ lane \notin priority' /\ v \in Vehicle
        BY <1>2, <1>9, <2>2, FirstPriorityFacts
      <3>2. SUFFICES ASSUME NEW w \in Ahead(v), w \notin Placed' PROVE FALSE
        OBVIOUS
      <3>3. w \in InLane(lane) /\ w \in Vehicle /\ Dist[w] < Dist[v]
        BY <3>1, AheadByDist DEF Ahead, InLane
      <3>4. w \in Range(queue[lane]) /\ w # h
        BY <1>2, <1>3, <1>4, <1>9, <3>2, <3>3 DEF QueuesInv
      <3>5. proposal[h].priority
        BY <1>2, <3>1, <3>4
      <3>6. Dist[h] < Dist[v]
        <4>1. Dist[h] \in Nat /\ Dist[w] \in Nat /\ Dist[v] \in Nat /\ Dist[h] <= Dist[w]
          BY <1>2, <1>6, <3>1, <3>3, <3>4
        <4>2. QED
          BY <3>3, <4>1
      <3>7. h \in Ahead(v)
        BY <1>2, <3>1, <3>6, AheadByDist
      <3>8. QED
        BY <3>5, <3>7 DEF FirstPriority
    <2>3. QED
      BY <2>1, <2>2
  <1>10. ASSUME InBounds', NEW v \in Sole, proposal[v].lane \notin priority'
         PROVE  v \in Placed'
    <2>1. CASE proposal[v].lane \notin priority
      BY <1>4, <1>10, <2>1 DEF QueuesInv, Released
    <2>2. CASE proposal[v].lane \in priority
      <3>1. /\ proposal[v].lane = lane /\ lane \notin priority' /\ v \in InLane(lane)
            /\ proposal[v].priority /\ FirstPriority \cap InLane(lane) = {v}
        BY <1>2, <1>10, <2>2, FirstPriorityFacts DEF Sole, InLane
      <3>2. v \in Range(queue[lane])
        BY <1>2, <1>3, <3>1 DEF QueuesInv
      <3>3. CASE Range(queue[lane]) = {h}
        BY <1>4, <1>10, <3>2, <3>3
      <3>4. CASE proposal[h].priority
        <4>1. ASSUME NEW w \in Ahead(h), proposal[w].priority PROVE FALSE
          <5>1. w \in InLane(lane) /\ w \in Vehicle /\ Dist[w] < Dist[h]
            BY <1>2, AheadByDist DEF Ahead, InLane
          <5>2. w \in Range(queue[lane])
            BY <1>2, <1>3, <4>1, <5>1 DEF QueuesInv
          <5>3. Dist[h] <= Dist[w] /\ Dist[h] \in Nat /\ Dist[w] \in Nat
            BY <1>2, <1>6, <5>1, <5>2
          <5>4. QED
            BY <5>1, <5>3
        <4>2. h \in FirstPriority
          BY <1>2, <3>4, <4>1 DEF FirstPriority
        <4>3. h = v
          BY <1>2, <3>1, <4>2
        <4>4. QED
          BY <1>4, <1>10, <4>3
      <3>5. QED
        BY <1>2, <3>1, <3>3, <3>4
    <2>3. QED
      BY <2>1, <2>2
  <1>11. QED
    BY <1>3, <1>5, <1>7, <1>8, <1>9, <1>10 DEF QueuesInv, Released

(* A step that leaves the queues alone.                                    *)
LEMMA QueuesStay ==
  ASSUME QueuesInv, UNCHANGED <<proposal, priority, queue>>, Choosing' => Choosing,
         ~Choosing' => priority = {}, InBounds' => InBounds, Placed \subseteq Placed'
  PROVE  QueuesInv'
PROOF
  <1>1. /\ PriorityLanes' = PriorityLanes /\ FirstPriority' = FirstPriority /\ Sole' = Sole
        /\ Dist' = Dist /\ (\A l : InLane(l)' = InLane(l)) /\ (\A v : Ahead(v)' = Ahead(v))
    BY SameProposals
  <1>2. \A l : Ascending(queue[l])' <=> Ascending(queue[l])
    BY <1>1 DEF Ascending
  <1>3. Choosing' => \A l \in PriorityLanes' : Ascending(queue[l])'
    BY <1>1, <1>2 DEF QueuesInv
  <1>4. Choosing' => \A l \in priority' : \A v \in InLane(l)' :
          /\ InBounds' => v \in Placed' \cup Range(queue'[l])
          /\ proposal'[v].priority => v \in Range(queue'[l])
    BY <1>1 DEF QueuesInv
  <1>5. InBounds' => /\ \A v \in FirstPriority' : Released(v)' => Ahead(v)' \subseteq Placed'
                    /\ \A v \in Sole' : Released(v)' => v \in Placed'
    BY <1>1 DEF QueuesInv, Released
  <1>6. QED
    BY <1>3, <1>4, <1>5 DEF QueuesInv

LEMMA BoundsShrink ==
  ASSUME ScheduleInv, closed' = closed \/ closed' = Append(closed, open), InBounds'
  PROVE  InBounds
PROOF
  <1>1. Len(closed) \in Nat /\ (closed' = Append(closed, open) => Len(closed') = Len(closed) + 1)
        /\ MaxBatches \in Nat
    BY SizeAssumption DEF ScheduleInv, TypeOK
  <1>2. QED
    BY <1>1 DEF InBounds

LEMMA QueuesNext == ScheduleInv /\ Everybody /\ QueuesInv /\ [Next]_vars => QueuesInv'
PROOF
  <1> SUFFICES ASSUME ScheduleInv, Everybody, QueuesInv, [Next]_vars PROVE QueuesInv'
    OBVIOUS
  <1>1. CASE TopUp
    <2>1. UNCHANGED <<proposal, priority, queue, closed, phase>> /\ Placed \subseteq Placed'
      BY <1>1, TopUpVehicle
    <2>2. Choosing' = Choosing /\ InBounds' = InBounds /\ (~Choosing => priority = {})
      BY <2>1 DEF Choosing, InBounds, QueuesInv
    <2>3. QED
      BY <2>1, <2>2, QueuesStay
  <1>2. CASE TopUpDone
    <2>1. UNCHANGED <<proposal, priority, queue, closed, open>> /\ Choosing
          /\ phase' = IF priority = {} THEN "commit" ELSE "place"
      BY <1>2 DEF TopUpDone, Choosing
    <2>2. Placed' = Placed /\ InBounds' = InBounds /\ (~Choosing' => priority = {})
      BY <2>1 DEF Placed, InBounds, Choosing
    <2>3. QED
      BY <2>1, <2>2, QueuesStay
  <1>3. CASE Commit
    <2>1. /\ UNCHANGED <<proposal, priority, queue>> /\ Placed' = Placed
          /\ (closed' = closed \/ closed' = Append(closed, open)) /\ ~Choosing /\ ~Choosing'
      BY <1>3, CommitMoves DEF Choosing
    <2>2. (InBounds' => InBounds) /\ priority = {}
      BY <2>1, BoundsShrink DEF QueuesInv
    <2>3. QED
      BY <2>1, <2>2, QueuesStay
  <1>4. CASE OpenBatch
    <2>1. UNCHANGED <<proposal, priority, queue, closed>> /\ ~Choosing /\ ~Choosing'
      BY <1>4 DEF OpenBatch, Choosing
    <2>2. Placed \subseteq Placed'
      <3>1. CASE phase' = "fill"
        BY <1>4, <3>1, OpenBatchVehicle
      <3>2. CASE phase' # "fill"
        BY <1>4, <2>1, <3>2 DEF OpenBatch, Placed
      <3>3. QED
        BY <3>1, <3>2
    <2>3. InBounds' = InBounds /\ priority = {}
      BY <2>1 DEF InBounds, QueuesInv
    <2>4. QED
      BY <2>1, <2>2, <2>3, QueuesStay
  <1>5. CASE CloseBatch
    <2>1. /\ UNCHANGED <<proposal, priority, queue>> /\ Placed' = Placed
          /\ closed' = Append(closed, open) /\ ~Choosing /\ ~Choosing'
      BY <1>5, CloseBatchMoves DEF Choosing
    <2>2. (InBounds' => InBounds) /\ priority = {}
      BY <2>1, BoundsShrink DEF QueuesInv
    <2>3. QED
      BY <2>1, <2>2, QueuesStay
  <1>6. CASE UNCHANGED vars
    <2>1. UNCHANGED <<proposal, priority, queue, closed, open, phase>>
      BY <1>6 DEF vars
    <2>2. /\ Placed' = Placed /\ InBounds' = InBounds /\ Choosing' = Choosing
          /\ (~Choosing => priority = {})
      BY <2>1 DEF Placed, InBounds, Choosing, QueuesInv
    <2>3. QED
      BY <2>1, <2>2, QueuesStay
  <1>7. QED
    BY <1>1, <1>2, <1>3, <1>4, <1>5, <1>6, QueuesPlace DEF Next
-----------------------------------------------------------------------------
(* Who blocks a priority vehicle goes before it: two of a lane never share *)
(* a batch, and the first priority vehicle of a lane joins a batch only    *)
(* when all before it have their place.                                    *)
ClosedVehicles == UNION {closed[k] : k \in DOMAIN closed}
BehindInv ==
  /\ Len(closed) <= MaxBatches
  /\ BlockersGoFirst
  /\ \A v \in FirstPriority \cap open : Ahead(v) \subseteq ClosedVehicles
MayGo(v) == v \in FirstPriority => Ahead(v) \subseteq Placed

LEMMA JoinBehind ==
  ASSUME ScheduleInv, BehindInv, UNCHANGED <<proposal, closed>>, NEW x \in Vehicle,
         open' = open \cup {x}, ~ConflictsWithBatch(x, open), MayGo(x)
  PROVE  BehindInv'
PROOF
  <1>1. FirstPriority' = FirstPriority /\ (\A v : Ahead(v)' = Ahead(v))
    BY SameProposals
  <1>2. Len(closed')<= MaxBatches /\ BlockersGoFirst' /\ ClosedVehicles' = ClosedVehicles
    BY <1>1 DEF BehindInv, BlockersGoFirst, ClosedVehicles
  <1>3. x \in FirstPriority => Ahead(x) \subseteq ClosedVehicles
    <2>1. \A w \in open : proposal[w].lane # proposal[x].lane
      BY DEF ConflictsWithBatch, MovementsConflict
    <2>2. Ahead(x) \cap open = {}
      BY <2>1 DEF Ahead, InLane
    <2>3. Placed = open \cup ClosedVehicles
      BY DEF Placed, ClosedVehicles
    <2>4. QED
      BY <2>2, <2>3 DEF MayGo
  <1>4. \A v \in FirstPriority' \cap open' : Ahead(v)' \subseteq ClosedVehicles'
    BY <1>1, <1>2, <1>3 DEF BehindInv
  <1>5. QED
    BY <1>2, <1>4 DEF BehindInv

LEMMA CloseBehind ==
  ASSUME ScheduleInv, BehindInv, UNCHANGED proposal, InBounds, closed' = Append(closed, open),
         \A v \in open' : MayGo(v)
  PROVE  BehindInv'
PROOF
  <1>1. FirstPriority' = FirstPriority /\ (\A v : Ahead(v)' = Ahead(v))
    BY SameProposals
  <1>2. /\ Len(closed) \in Nat /\ Len(closed') = Len(closed) + 1
        /\ DOMAIN closed = 1..Len(closed) /\ DOMAIN closed' = 1..(Len(closed) + 1)
        /\ \A k \in 1..Len(closed) : closed'[k] = closed[k]
        /\ closed'[Len(closed) + 1] = open
    BY DEF ScheduleInv, TypeOK
  <1>3. Len(closed') <= MaxBatches
    BY <1>2, SizeAssumption DEF InBounds
  <1>4. ClosedVehicles' = Placed
    <2>1. ClosedVehicles' = UNION {closed'[k] : k \in 1..(Len(closed) + 1)}
      BY <1>2 DEF ClosedVehicles
    <2>2. QED
      BY <1>2, <2>1 DEF Placed
  <1>5. \A v \in FirstPriority' \cap open' : Ahead(v)' \subseteq ClosedVehicles'
    BY <1>1, <1>4 DEF MayGo
  <1>6. BlockersGoFirst'
    <2>1. SUFFICES ASSUME NEW v \in FirstPriority, NEW k \in DOMAIN closed', v \in closed'[k],
                          NEW w \in Ahead(v)
                   PROVE  \E j \in 1..(k - 1) : w \in closed'[j]
      BY <1>1 DEF BlockersGoFirst
    <2>2. CASE k = Len(closed) + 1
      <3>1. w \in ClosedVehicles
        BY <1>2, <2>1, <2>2 DEF BehindInv
      <3>2. PICK j \in DOMAIN closed : w \in closed[j]
        BY <3>1 DEF ClosedVehicles
      <3>3. j \in 1..(k - 1) /\ w \in closed'[j]
        BY <1>2, <2>2, <3>2
      <3>4. QED
        BY <3>3
    <2>3. CASE k # Len(closed) + 1
      <3>1. k \in 1..Len(closed) /\ v \in closed[k]
        BY <1>2, <2>1, <2>3
      <3>2. PICK j \in 1..(k - 1) : w \in closed[j]
        BY <1>2, <3>1 DEF BehindInv, BlockersGoFirst
      <3>3. j \in 1..Len(closed)
        BY <1>2, <3>1
      <3>4. QED
        BY <1>2, <3>2, <3>3
    <2>4. QED
      BY <2>2, <2>3
  <1>7. QED
    BY <1>3, <1>5, <1>6 DEF BehindInv

(* What addVehicleToBatch may do.                                          *)
LEMMA AddCases ==
  ASSUME ScheduleInv, Len(closed) <= MaxBatches, NEW v, AddVehicleToBatch(v)
  PROVE  \/ ~InBounds /\ UNCHANGED <<closed, open>>
         \/ /\ InBounds /\ ~ConflictsWithBatch(v, open)
            /\ closed' = closed /\ open' = open \cup {v}
         \/ /\ InBounds /\ open # {} /\ closed' = Append(closed, open)
            /\ open' = {v} \/ (open' = {} /\ ~InBounds')
PROOF
  <1>1. Len(closed) \in Nat /\ MaxBatches \in Nat /\ MaxPerBatch \in Nat \ {0}
    BY SizeAssumption DEF ScheduleInv, TypeOK
  <1>2. InBounds <=> Len(closed) # MaxBatches
    BY <1>1 DEF InBounds
  <1>3. CASE Len(closed) = MaxBatches
    BY <1>2, <1>3 DEF AddVehicleToBatch
  <1>4. CASE Len(closed) # MaxBatches /\ Fits(v, open)
    BY <1>2, <1>4 DEF AddVehicleToBatch, Fits
  <1>5. CASE Len(closed) # MaxBatches /\ ~Fits(v, open)
    <2>1. closed' = Append(closed, open)
          /\ open' = IF Len(closed') = MaxBatches THEN {} ELSE {v}
      BY <1>5 DEF AddVehicleToBatch
    <2>2. open # {}
      <3>1. Cardinality({}) = 0
        BY FS_EmptySet
      <3>2. Fits(v, {})
        BY <1>1, <3>1 DEF Fits, ConflictsWithBatch
      <3>3. QED
        BY <1>5, <3>2
    <2>3. Len(closed') = MaxBatches => ~InBounds'
      BY <1>1 DEF InBounds
    <2>4. QED
      BY <1>2, <1>5, <2>1, <2>2, <2>3
  <1>6. QED
    BY <1>3, <1>4, <1>5

(* The vehicle step 2 places has all before it placed.                     *)
LEMMA ChosenMayGo ==
  ASSUME ScheduleInv, QueuesInv, Choosing, InBounds, NEW lane, NEW h, Chosen(lane, h)
  PROVE  MayGo(h)
PROOF
  <1>1. /\ lane \in priority /\ h \in InLane(lane) /\ h \in Vehicle /\ h \in Range(queue[lane])
        /\ \A x \in Range(queue[lane]) : Dist[h] <= Dist[x]
    BY DEF Chosen
  <1>2. SUFFICES ASSUME NEW w \in Ahead(h), w \notin Placed PROVE FALSE
    BY DEF MayGo
  <1>3. w \in InLane(lane) /\ w \in Vehicle /\ Dist[w] < Dist[h]
    BY <1>1, AheadByDist DEF Ahead, InLane
  <1>4. w \in Range(queue[lane])
    BY <1>1, <1>2, <1>3 DEF QueuesInv
  <1>5. Dist \in [Vehicle -> Nat]
    BY DEF ScheduleInv, TypeOK, Proposal, Dist
  <1>6. Dist[h] <= Dist[w] /\ Dist[h] \in Nat /\ Dist[w] \in Nat
    BY <1>1, <1>3, <1>4, <1>5
  <1>7. QED
    BY <1>3, <1>6

LEMMA BehindPlace == ScheduleInv /\ QueuesInv /\ BehindInv /\ PlacePriority => BehindInv'
PROOF
  <1> SUFFICES ASSUME ScheduleInv, QueuesInv, BehindInv, PlacePriority PROVE BehindInv'
    OBVIOUS
  <1>1. PICK lane, h : Chosen(lane, h)
    BY PlacePriorityVehicle
  <1>2. Choosing /\ UNCHANGED proposal /\ h \in Vehicle /\ AddVehicleToBatch(h)
    BY <1>1, PlacePriorityVehicle DEF Chosen
  <1>3. InBounds => MayGo(h)
    BY <1>1, <1>2, ChosenMayGo
  <1>4. CASE UNCHANGED <<closed, open>>
    <2>1. FirstPriority' = FirstPriority /\ (\A v : Ahead(v)' = Ahead(v))
      BY <1>2, SameProposals
    <2>2. QED
      BY <1>4, <2>1 DEF BehindInv, BlockersGoFirst, ClosedVehicles
  <1>5. CASE InBounds /\ ~ConflictsWithBatch(h, open) /\ closed' = closed /\ open' = open \cup {h}
    BY <1>2, <1>3, <1>5, JoinBehind
  <1>6. CASE InBounds /\ closed' = Append(closed, open) /\ (open' = {h} \/ open' = {})
    <2>1. \A v \in open' : MayGo(v)
      BY <1>3, <1>6
    <2>2. QED
      BY <1>2, <1>6, <2>1, CloseBehind
  <1>7. QED
    BY <1>2, <1>4, <1>5, <1>6, AddCases DEF BehindInv

LEMMA BehindNext ==
  ScheduleInv /\ Everybody /\ QueuesInv /\ BehindInv /\ [Next]_vars => BehindInv'
PROOF
  <1> SUFFICES ASSUME ScheduleInv, Everybody, QueuesInv, BehindInv, [Next]_vars PROVE BehindInv'
    OBVIOUS
  <1>1. ASSUME UNCHANGED <<proposal, closed, open>> PROVE BehindInv'
    <2>1. FirstPriority' = FirstPriority /\ (\A v : Ahead(v)' = Ahead(v))
      BY <1>1, SameProposals
    <2>2. QED
      BY <1>1, <2>1 DEF BehindInv, BlockersGoFirst, ClosedVehicles
  <1>2. ASSUME ~Choosing, InBounds, NEW v PROVE MayGo(v)
    BY <1>2 DEF QueuesInv, Released, MayGo
  <1>3. CASE TopUp
    <2>1. UNCHANGED <<proposal, closed>> /\ pool[at] \in Vehicle /\ InBounds
          /\ pool[at] \in Range(pool)
      BY <1>3, TopUpVehicle
    <2>2. MayGo(pool[at])
      <3>1. CASE Choosing
        <4>1. pool[at] \in Normal
          BY <2>1, <3>1 DEF ScheduleInv, PoolInv
        <4>2. pool[at] \notin FirstPriority
          BY <4>1, FirstPriorityFacts DEF Normal
        <4>3. QED
          BY <4>2 DEF MayGo
      <3>2. CASE ~Choosing
        BY <1>2, <2>1, <3>2
      <3>3. QED
        BY <3>1, <3>2
    <2>3. CASE open' = open
      BY <1>1, <2>1, <2>3
    <2>4. CASE open' = open \cup {pool[at]} /\ ~ConflictsWithBatch(pool[at], open)
      BY <2>1, <2>2, <2>4, JoinBehind
    <2>5. QED
      BY <1>3, <2>3, <2>4, TopUpVehicle
  <1>4. CASE Commit
    BY <1>1, <1>4, CommitMoves, CloseBehind
  <1>5. CASE OpenBatch
    <2>1. CASE phase' = "fill"
      <3>1. /\ UNCHANGED <<proposal, closed>> /\ Head(pool) \in Vehicle /\ InBounds
            /\ ~Choosing /\ open' = open \cup {Head(pool)} /\ open = {}
        BY <1>5, <2>1, OpenBatchVehicle DEF Choosing
      <3>2. ~ConflictsWithBatch(Head(pool), open)
        BY <3>1 DEF ConflictsWithBatch
      <3>3. QED
        BY <1>2, <3>1, <3>2, JoinBehind
    <2>2. CASE phase' # "fill"
      BY <1>1, <1>5, <2>2 DEF OpenBatch
    <2>3. QED
      BY <2>1, <2>2
  <1>6. CASE CloseBatch
    <2>1. UNCHANGED proposal /\ closed' = Append(closed, open) /\ open' = {} /\ InBounds
      BY <1>6, CloseBatchMoves DEF Everybody
    <2>2. QED
      BY <2>1, CloseBehind
  <1>7. CASE TopUpDone
    BY <1>1, <1>7 DEF TopUpDone
  <1>8. CASE UNCHANGED vars
    BY <1>1, <1>8 DEF vars
  <1>9. QED
    BY <1>3, <1>4, <1>5, <1>6, <1>7, <1>8, BehindPlace DEF Next

LEMMA BehindInit == Init => BehindInv
PROOF
  <1> SUFFICES ASSUME Init PROVE BehindInv
    OBVIOUS
  <1>1. closed = <<>> /\ open = {} /\ DOMAIN closed = {} /\ Len(closed) = 0
    BY DEF Init
  <1>2. QED
    BY <1>1, SizeAssumption DEF BehindInv, BlockersGoFirst

LEMMA BehindInvariant == Spec => [](ScheduleInv /\ Everybody /\ QueuesInv /\ BehindInv)
PROOF
  BY EverybodyInvariant, QueuesInit, QueuesNext, BehindInit, BehindNext, PTL DEF Spec

(* "Within each priority lane, vehicles go in queue order (blocker before  *)
(* blocked)": whoever stands before the first priority vehicle of a lane   *)
(* is in an earlier batch.                                                 *)
THEOREM BlockersGo == Spec => []BlockersGoFirst
PROOF
  <1>1. BehindInv => BlockersGoFirst
    BY DEF BehindInv
  <1>2. QED
    BY <1>1, BehindInvariant, PTL
-----------------------------------------------------------------------------
(* Step 2 opens batches for urgent vehicles only, and a priority vehicle   *)
(* that is the only closest one of its lane has its place when step 2 is   *)
(* over, or the schedule is full.                                          *)
StepTwo == Choosing \/ phase = "commit"
UrgentInv ==
  /\ StepTwo => \A k \in DOMAIN closed : closed[k] \cap Urgent # {}
  /\ StepTwo /\ InBounds /\ open # {} => open \cap Urgent # {}
  /\ phase = "topUp" /\ InBounds => open # {}
  /\ phase = "fill" => open \cap Sole = {}
  /\ PriorityFirst

(* A lane with a priority vehicle has a closest one.                       *)
LEMMA ClosestPriority ==
  ASSUME proposal \in [Vehicle -> Proposal], NEW lane \in PriorityLanes
  PROVE  \E u \in FirstPriority : u \in InLane(lane)
PROOF
  <1> DEFINE D == {Dist[x] : x \in {y \in InLane(lane) : proposal[y].priority}}
  <1>1. Dist \in [Vehicle -> Nat]
    BY DEF Proposal, Dist
  <1>2. D \in SUBSET Nat
    BY <1>1 DEF InLane
  <1>3. D # {}
    BY DEF PriorityLanes, InLane
  <1>4. PICK d \in D : \A e \in D : d <= e
    BY <1>2, <1>3, LeastNatural
  <1>5. PICK u \in InLane(lane) : proposal[u].priority /\ d = Dist[u]
    BY <1>4
  <1>6. u \in Vehicle /\ proposal[u].lane = lane
    BY <1>5 DEF InLane
  <1>7. ASSUME NEW w \in Ahead(u), proposal[w].priority PROVE FALSE
    <2>1. w \in InLane(lane) /\ w \in Vehicle /\ Dist[w] < Dist[u]
      BY <1>6, AheadByDist DEF Ahead, InLane
    <2>2. Dist[w] \in D
      BY <1>7, <2>1
    <2>3. d <= Dist[w] /\ Dist[w] \in Nat /\ Dist[u] \in Nat
      BY <1>1, <1>4, <1>6, <2>1, <2>2
    <2>4. QED
      BY <1>5, <2>1, <2>3
  <1>8. u \in FirstPriority
    BY <1>5, <1>6, <1>7 DEF FirstPriority
  <1>9. QED
    BY <1>5, <1>8

LEMMA ChosenIsUrgent ==
  ASSUME ScheduleInv, QueuesInv, Choosing, NEW lane, NEW h, Chosen(lane, h)
  PROVE  h \in Urgent
PROOF
  <1>1. /\ lane \in priority /\ lane \in PriorityLanes /\ h \in InLane(lane) /\ h \in Vehicle
        /\ \A x \in Range(queue[lane]) : Dist[h] <= Dist[x]
    BY DEF Chosen
  <1>2. PICK u \in FirstPriority : u \in InLane(lane)
    BY <1>1, ClosestPriority DEF ScheduleInv, TypeOK
  <1>3. u \in Vehicle /\ proposal[u].lane = lane /\ proposal[u].priority
    BY <1>2, FirstPriorityFacts DEF InLane
  <1>4. u \in Range(queue[lane])
    BY <1>1, <1>2, <1>3 DEF QueuesInv
  <1>5. proposal[h].distance <= proposal[u].distance
    BY <1>1, <1>3, <1>4 DEF Dist
  <1>6. QED
    BY <1>1, <1>2, <1>3, <1>5 DEF Urgent

LEMMA UrgentPlace ==
  ScheduleInv /\ QueuesInv /\ BehindInv /\ UrgentInv /\ PlacePriority => UrgentInv'
PROOF
  <1> SUFFICES ASSUME ScheduleInv, QueuesInv, BehindInv, UrgentInv, PlacePriority
               PROVE  UrgentInv'
    OBVIOUS
  <1>1. PICK lane, h : Chosen(lane, h)
    BY PlacePriorityVehicle
  <1>2. /\ Choosing /\ StepTwo /\ UNCHANGED proposal /\ phase' = "topUp" /\ AddVehicleToBatch(h)
        /\ h \in Vehicle \ Placed
    BY <1>1, PlacePriorityVehicle DEF Chosen, StepTwo
  <1>3. Urgent' = Urgent /\ Sole' = Sole /\ h \in Urgent
    BY <1>1, <1>2, SameProposals, ChosenIsUrgent
  <1>4. closed \in Seq(SUBSET Vehicle) /\ open \in SUBSET Vehicle
    BY DEF ScheduleInv, TypeOK
  <1>5. \A k \in DOMAIN closed' : closed'[k] \cap Urgent # {}
    <2>1. CASE closed' = closed
      BY <1>2, <2>1 DEF UrgentInv
    <2>2. CASE InBounds /\ open # {} /\ closed' = Append(closed, open)
      <3>1. open \cap Urgent # {} /\ \A k \in DOMAIN closed : closed[k] \cap Urgent # {}
        BY <1>2, <2>2 DEF UrgentInv
      <3>2. \A k \in DOMAIN closed' : closed'[k] = open \/ (k \in DOMAIN closed /\ closed'[k] = closed[k])
        BY <1>4, <2>2
      <3>3. QED
        BY <3>1, <3>2
    <2>3. QED
      BY <1>2, <2>1, <2>2, AddCases DEF BehindInv
  <1>6. InBounds' => h \in open'
    <2>1. UNCHANGED closed => InBounds' = InBounds
      BY DEF InBounds
    <2>2. QED
      BY <1>2, <2>1, AddCases DEF BehindInv
  <1>7. PriorityFirst'
    <2>1. \A k \in DOMAIN closed' : \A j \in 1..k : j \in DOMAIN closed'
      <3>1. closed' \in Seq(SUBSET Vehicle)
        BY <1>2, AddKeeps DEF Kept
      <3>2. QED
        BY <3>1
    <2>2. QED
      BY <1>3, <1>5, <2>1 DEF PriorityFirst
  <1>8. QED
    BY <1>2, <1>3, <1>5, <1>6, <1>7 DEF UrgentInv

LEMMA UrgentTopUp == ScheduleInv /\ QueuesInv /\ UrgentInv /\ TopUp => UrgentInv'
PROOF
  <1> SUFFICES ASSUME ScheduleInv, QueuesInv, UrgentInv, TopUp PROVE UrgentInv'
    OBVIOUS
  <1>1. /\ UNCHANGED <<proposal, closed, phase>> /\ InBounds /\ pool[at] \in Vehicle \ Placed
        /\ open' \in {open, open \cup {pool[at]}} /\ phase \in {"topUp", "fill"}
    BY TopUpVehicle DEF TopUp
  <1>2. Urgent' = Urgent /\ Sole' = Sole /\ InBounds' = InBounds /\ StepTwo' = StepTwo
    BY <1>1, SameProposals DEF InBounds, StepTwo, Choosing
  <1>3. PriorityFirst'
    BY <1>1, <1>2 DEF UrgentInv, PriorityFirst
  <1>4. phase = "fill" => open' \cap Sole = {}
    <2>1. SUFFICES ASSUME phase = "fill" PROVE open' \cap Sole = {}
      OBVIOUS
    <2>2. \A v \in Sole : v \in Placed
      BY <1>1, <2>1 DEF QueuesInv, Choosing, Released
    <2>3. open \cap Sole = {}
      BY <2>1 DEF UrgentInv
    <2>4. QED
      BY <1>1, <2>2, <2>3
  <1>5. CASE phase = "topUp"
    <2>1. open # {} /\ open \cap Urgent # {}
      BY <1>1, <1>5 DEF UrgentInv, StepTwo, Choosing
    <2>2. open' # {} /\ open' \cap Urgent # {}
      BY <1>1, <2>1
    <2>3. QED
      BY <1>1, <1>2, <1>3, <1>5, <2>2 DEF UrgentInv
  <1>6. CASE phase = "fill"
    BY <1>1, <1>2, <1>3, <1>4, <1>6 DEF UrgentInv, StepTwo, Choosing
  <1>7. QED
    BY <1>1, <1>5, <1>6

LEMMA UrgentCommit == ScheduleInv /\ UrgentInv /\ Commit => UrgentInv'
PROOF
  <1> SUFFICES ASSUME ScheduleInv, UrgentInv, Commit PROVE UrgentInv'
    OBVIOUS
  <1>1. StepTwo /\ phase' = "open" /\ UNCHANGED proposal
    BY CommitMoves DEF StepTwo
  <1>2. Urgent' = Urgent /\ Sole' = Sole
    BY <1>1, SameProposals
  <1>3. PriorityFirst'
    <2>1. CASE UNCHANGED closed
      BY <1>2, <2>1 DEF UrgentInv, PriorityFirst
    <2>2. CASE InBounds /\ open # {} /\ closed' = Append(closed, open)
      <3>1. open \cap Urgent # {} /\ \A k \in DOMAIN closed : closed[k] \cap Urgent # {}
        BY <1>1, <2>2 DEF UrgentInv
      <3>2. closed \in Seq(SUBSET Vehicle) /\ open \in SUBSET Vehicle
        BY DEF ScheduleInv, TypeOK
      <3>3. /\ \A k \in DOMAIN closed' : \A j \in 1..k : j \in DOMAIN closed'
            /\ \A k \in DOMAIN closed' : closed'[k] = open \/ (k \in DOMAIN closed /\ closed'[k] = closed[k])
        BY <2>2, <3>2
      <3>4. QED
        BY <1>2, <3>1, <3>3 DEF PriorityFirst
    <2>3. QED
      BY <2>1, <2>2, CommitMoves
  <1>4. QED
    BY <1>1, <1>3 DEF UrgentInv, StepTwo, Choosing

LEMMA UrgentOpenBatch ==
  ScheduleInv /\ Everybody /\ QueuesInv /\ UrgentInv /\ OpenBatch => UrgentInv'
PROOF
  <1> SUFFICES ASSUME ScheduleInv, Everybody, QueuesInv, UrgentInv, OpenBatch PROVE UrgentInv'
    OBVIOUS
  <1>1. UNCHANGED <<proposal, closed>> /\ phase = "open" /\ phase' \in {"fill", "done"}
    BY DEF OpenBatch
  <1>2. Urgent' = Urgent /\ Sole' = Sole
    BY <1>1, SameProposals
  <1>3. PriorityFirst'
    BY <1>1, <1>2 DEF UrgentInv, PriorityFirst
  <1>4. phase' = "fill" => open' \cap Sole = {}
    <2>1. SUFFICES ASSUME phase' = "fill" PROVE open' \cap Sole = {}
      OBVIOUS
    <2>2. open' = {Head(pool)} /\ Head(pool) \notin Placed /\ InBounds
      BY <2>1, OpenBatchVehicle
    <2>3. \A v \in Sole : v \in Placed
      BY <1>1, <2>2 DEF QueuesInv, Choosing, Released
    <2>4. QED
      BY <2>2, <2>3
  <1>5. QED
    BY <1>1, <1>2, <1>3, <1>4 DEF UrgentInv, StepTwo, Choosing

LEMMA UrgentCloseBatch == ScheduleInv /\ UrgentInv /\ CloseBatch => UrgentInv'
PROOF
  <1> SUFFICES ASSUME ScheduleInv, UrgentInv, CloseBatch PROVE UrgentInv'
    OBVIOUS
  <1>1. /\ UNCHANGED proposal /\ phase = "fill" /\ phase' = "open"
        /\ closed' = Append(closed, open)
        /\ closed \in Seq(SUBSET Vehicle) /\ open \in SUBSET Vehicle
    BY CloseBatchMoves DEF ScheduleInv, TypeOK
  <1>2. Urgent' = Urgent /\ Sole' = Sole /\ open \cap Sole = {}
    BY <1>1, SameProposals DEF UrgentInv
  <1>3. PriorityFirst'
    <2>1. SUFFICES ASSUME NEW v \in Sole, NEW k \in DOMAIN closed', v \in closed'[k],
                          NEW j \in 1..k
                   PROVE  closed'[j] \cap Urgent # {}
      BY <1>2 DEF PriorityFirst
    <2>2. /\ Len(closed) \in Nat /\ DOMAIN closed' = 1..(Len(closed) + 1)
          /\ \A i \in 1..Len(closed) : closed'[i] = closed[i]
          /\ closed'[Len(closed) + 1] = open
      BY <1>1
    <2>3. k \in 1..Len(closed) /\ v \in closed[k]
      BY <1>2, <2>1, <2>2
    <2>4. closed[j] \cap Urgent # {} /\ j \in 1..Len(closed)
      BY <1>1, <2>1, <2>2, <2>3 DEF UrgentInv, PriorityFirst
    <2>5. QED
      BY <2>2, <2>4
  <1>4. QED
    BY <1>1, <1>3 DEF UrgentInv, StepTwo, Choosing

LEMMA UrgentNext ==
  ScheduleInv /\ Everybody /\ QueuesInv /\ BehindInv /\ UrgentInv /\ [Next]_vars => UrgentInv'
PROOF
  <1> SUFFICES ASSUME ScheduleInv, Everybody, QueuesInv, BehindInv, UrgentInv, [Next]_vars
               PROVE  UrgentInv'
    OBVIOUS
  <1>1. ASSUME UNCHANGED <<proposal, closed, open>>, StepTwo' => StepTwo,
               phase' # phase => phase' \notin {"topUp", "fill"}
        PROVE  UrgentInv'
    <2>1. Urgent' = Urgent /\ Sole' = Sole /\ InBounds' = InBounds
      BY <1>1, SameProposals DEF InBounds
    <2>2. QED
      BY <1>1, <2>1 DEF UrgentInv, PriorityFirst
  <1>2. CASE TopUpDone
    BY <1>1, <1>2 DEF TopUpDone, StepTwo, Choosing
  <1>3. CASE UNCHANGED vars
    BY <1>1, <1>3 DEF vars, StepTwo, Choosing
  <1>4. QED
    BY <1>2, <1>3, UrgentPlace, UrgentTopUp, UrgentCommit, UrgentOpenBatch, UrgentCloseBatch
       DEF Next

LEMMA UrgentInit == Init => UrgentInv
PROOF
  <1> SUFFICES ASSUME Init PROVE UrgentInv
    OBVIOUS
  <1>1. open = {} /\ DOMAIN closed = {} /\ phase \in {"commit", "place"}
    BY DEF Init
  <1>2. QED
    BY <1>1 DEF UrgentInv, PriorityFirst

(* No batch in which nobody goes on behalf of a priority vehicle is before *)
(* one with a priority vehicle that is the first of its lane.              *)
THEOREM PriorityGoesFirst == Spec => []PriorityFirst
PROOF
  <1>1. UrgentInv => PriorityFirst
    BY DEF UrgentInv
  <1>2. QED
    BY <1>1, BehindInvariant, UrgentInit, UrgentNext, PTL DEF Spec
=============================================================================
