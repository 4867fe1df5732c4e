----------------------- MODULE ClusterFormationProof -----------------------
(***************************************************************************)
(* Proofs about ClusterFormation, for any number of vehicles and lanes and *)
(* in both modes: whoever runs raft is a member of its own cluster, and    *)
(* two member sets differ only over a lane that had two fronts.            *)
(***************************************************************************)
EXTENDS ClusterFormation, FiniteSetTheorems, TLAPS

-----------------------------------------------------------------------------
(* The inductive invariant *)

(* In cluster mode only vehicles that stand at the front, stood there or   *)
(* were told that they do invite others and are collected.                 *)
AsFront(x) == InFront(x) \/ x \in misled
FrontsOnly ==
  mode = "cluster" =>
    /\ \A x \in leaders \cup invites : AsFront(x)
    /\ \A v \in Vehicle : \A x \in collected[v] : AsFront(x)

(* A member set has exactly one vehicle of each lane, or everybody.        *)
Complete(S) ==
  /\ S \subseteq Vehicle
  /\ mode = "allVehicles" => S = Vehicle
  /\ mode = "cluster" =>
       /\ OnePerLane(S)
       /\ \A x \in S : AsFront(x)
       /\ \A l \in Lane : \E y \in S : LaneOf[y] = l

MembersFormed ==
  /\ \A S \in forms : Complete(S)
  /\ \A v \in Vehicle : Started(v) => members[v] \in forms /\ v \in members[v]

FormationInv == TypeOK /\ FrontsOnly /\ MembersFormed

-----------------------------------------------------------------------------
(* Helpers *)

(* The last vehicle of a lane takes the place of the one before.           *)
LEMMA StoreKeeps ==
  ASSUME NEW known \in SUBSET Vehicle, NEW u \in Vehicle, mode \in Modes,
         mode = "cluster" => OnePerLane(known)
  PROVE  /\ Store(known, u) \subseteq known \cup {u}
         /\ Store(known, u) \in SUBSET Vehicle
         /\ u \in Store(known, u)
         /\ mode = "cluster" => OnePerLane(Store(known, u))
         /\ mode = "allVehicles" => known \subseteq Store(known, u)
  BY FormationAssumption DEF Store, OnePerLane

(* As many vehicles as lanes, no two of one lane: every lane has one.      *)
LEMMA LanesCovered ==
  ASSUME NEW S \in SUBSET Vehicle, OnePerLane(S),
         Cardinality(S) >= Cardinality(Lane), NEW l \in Lane
  PROVE  \E y \in S : LaneOf[y] = l
<1>1. IsFiniteSet(S) /\ IsFiniteSet(Lane)
  BY FS_Subset, FormationAssumption
<1> SUFFICES ASSUME \A y \in S : LaneOf[y] # l PROVE FALSE
  OBVIOUS
<1> DEFINE T == Lane \ {l}
           f == [y \in S |-> LaneOf[y]]
<1>2. IsFiniteSet(T) /\ Cardinality(T) = Cardinality(Lane) - 1
  BY <1>1, FS_RemoveElement
<1>3. f \in [S -> T]
  BY FormationAssumption
<1>4. Cardinality(T) < Cardinality(S)
  BY <1>1, <1>2, FS_CardinalityType
<1>5. \E x, y \in S : x # y /\ f[x] = f[y]
  <2> HIDE DEF T, f
  <2> QED BY <1>1, <1>2, <1>3, <1>4, FS_PigeonHole
<1> QED BY <1>5 DEF OnePerLane

LEMMA EnoughCovers ==
  ASSUME NEW S \in SUBSET Vehicle, Enough(S), mode \in Modes,
         mode = "cluster" => OnePerLane(S)
  PROVE  /\ mode = "allVehicles" => S = Vehicle
         /\ mode = "cluster" => \A l \in Lane : \E y \in S : LaneOf[y] = l
<1>1. CASE mode = "cluster"
  BY <1>1, LanesCovered DEF Enough
<1>2. CASE mode = "allVehicles"
  <2>1. /\ Cardinality(S) <= Cardinality(Vehicle)
        /\ Cardinality(S) = Cardinality(Vehicle) => S = Vehicle
        /\ Cardinality(S) \in Nat /\ Cardinality(Vehicle) \in Nat
    BY FS_Subset, FS_CardinalityType, FormationAssumption
  <2>2. S = Vehicle
    BY <1>2, <2>1 DEF Enough
  <2> QED BY <1>2, <2>2
<1> QED BY <1>1, <1>2, FormationAssumption

(* Whoever came to the front, or was told so, remains one that did.        *)
Onward == mode' = mode /\ Gone \subseteq Gone' /\ misled \subseteq misled'

LEMMA StaysFront ==
  ASSUME Onward
  PROVE  \A x : AsFront(x) => AsFront(x)'
  BY DEF Onward, AsFront, InFront

LEMMA StaysComplete ==
  ASSUME NEW S \in SUBSET Vehicle, Complete(S), Onward
  PROVE  Complete(S)'
  BY StaysFront DEF Complete, Onward, OnePerLane

(* Forming: v fixes the set it knows, with itself in it.                   *)
LEMMA TryFormKeeps ==
  ASSUME FormationInv, NEW v \in Vehicle, NEW known \in SUBSET Vehicle,
         TryForm(v, known), Onward,
         v \in known \/ mode = "allVehicles",
         mode = "cluster" => OnePerLane(known) /\ \A x \in known : AsFront(x)'
  PROVE  /\ MembersFormed'
         /\ members' \in [Vehicle -> SUBSET Vehicle]
         /\ retrying' \in SUBSET Vehicle
         /\ forms' \in SUBSET SUBSET Vehicle
<1>1. /\ members \in [Vehicle -> SUBSET Vehicle] /\ retrying \in SUBSET Vehicle
      /\ forms \in SUBSET SUBSET Vehicle /\ mode \in Modes
  BY DEF FormationInv, TypeOK
<1>2. /\ \A S \in forms : Complete(S)
      /\ \A u \in Vehicle : members[u] # {} => members[u] \in forms /\ u \in members[u]
  BY DEF FormationInv, MembersFormed, Started
<1>3. \A S \in forms : Complete(S)'
  BY <1>1, <1>2, StaysComplete
<1>4. CASE Enough(known)
  <2>1. /\ members' = [members EXCEPT ![v] = known]
        /\ forms' = forms \cup {known} /\ retrying' = retrying \cup {v}
    BY <1>4 DEF TryForm
  <2>2. /\ mode = "allVehicles" => known = Vehicle
        /\ mode = "cluster" => \A l \in Lane : \E y \in known : LaneOf[y] = l
    BY <1>1, <1>4, EnoughCovers
  <2>3. Complete(known)'
    BY <2>2 DEF Complete, Onward, OnePerLane
  <2>4. v \in known
    BY <2>2
  <2>5. MembersFormed'
    <3>1. \A S \in forms' : Complete(S)'
      BY <1>3, <2>1, <2>3
    <3>2. \A u \in Vehicle : members'[u] # {} => members'[u] \in forms' /\ u \in members'[u]
      BY <1>1, <1>2, <2>1, <2>4
    <3> QED BY <3>1, <3>2 DEF MembersFormed, Started
  <2> QED BY <1>1, <2>1, <2>5
<1>5. CASE ~Enough(known)
  <2>1. members' = members /\ forms' = forms /\ retrying' = retrying
    BY <1>5 DEF TryForm, formVars
  <2>2. MembersFormed'
    BY <1>2, <1>3, <2>1 DEF MembersFormed, Started
  <2> QED BY <1>1, <2>1, <2>2
<1> QED BY <1>4, <1>5

(* What the variables about the collecting and forming satisfy.            *)
Collecting ==
  /\ collected \in [Vehicle -> SUBSET Vehicle]
  /\ mode = "cluster" => \A v \in Vehicle : OnePerLane(collected[v])
  /\ members \in [Vehicle -> SUBSET Vehicle]
  /\ retrying \in SUBSET Vehicle
  /\ invites \in SUBSET Vehicle
  /\ forms \in SUBSET SUBSET Vehicle
  /\ mode = "cluster" => /\ \A x \in invites : AsFront(x)
                         /\ \A v \in Vehicle : \A x \in collected[v] : AsFront(x)
  /\ MembersFormed

LEMMA BeaconKeeps ==
  ASSUME FormationInv, NEW v \in Vehicle, NEW flagged \in SUBSET Vehicle,
         SendClusterBeacon(v, flagged), Onward,
         mode = "cluster" => \A x \in flagged : AsFront(x)'
  PROVE  Collecting'
<1> DEFINE known == Store(collected[v], v)
<1>1. /\ collected \in [Vehicle -> SUBSET Vehicle] /\ mode \in Modes
      /\ mode = "cluster" => \A u \in Vehicle : OnePerLane(collected[u])
      /\ members \in [Vehicle -> SUBSET Vehicle] /\ retrying \in SUBSET Vehicle
      /\ invites \in SUBSET Vehicle /\ forms \in SUBSET SUBSET Vehicle
      /\ mode = "cluster" => /\ \A x \in invites : AsFront(x)
                             /\ \A u \in Vehicle : \A x \in collected[u] : AsFront(x)
  BY DEF FormationInv, TypeOK, FrontsOnly
<1>2. mode' = mode /\ \A x : AsFront(x) => AsFront(x)'
  BY StaysFront DEF Onward
<1>3. CASE Idle(v) /\ MayInvite(v, flagged)
  <2>1. /\ collected' = [collected EXCEPT ![v] = known]
        /\ invites' = invites \cup {v} /\ TryForm(v, known)
    BY <1>3 DEF SendClusterBeacon
  <2>2. mode = "cluster" => AsFront(v)'
    BY <1>3 DEF MayInvite
  <2>3. /\ known \subseteq collected[v] \cup {v} /\ known \in SUBSET Vehicle
        /\ v \in known
        /\ mode = "cluster" => OnePerLane(known)
    <3>1. collected[v] \in SUBSET Vehicle /\ (mode = "cluster" => OnePerLane(collected[v]))
      BY <1>1
    <3> QED BY <1>1, <3>1, StoreKeeps
  <2> HIDE DEF known
  <2>4. mode = "cluster" => \A x \in known : AsFront(x)'
    BY <1>1, <1>2, <2>2, <2>3
  <2>5. /\ MembersFormed' /\ members' \in [Vehicle -> SUBSET Vehicle]
        /\ retrying' \in SUBSET Vehicle /\ forms' \in SUBSET SUBSET Vehicle
    BY <2>1, <2>3, <2>4, TryFormKeeps
  <2>6. /\ collected' \in [Vehicle -> SUBSET Vehicle] /\ invites' \in SUBSET Vehicle
        /\ \A u \in Vehicle : collected'[u] = IF u = v THEN known ELSE collected[u]
    BY <1>1, <2>1, <2>3
  <2>7. mode' = "cluster" => \A u \in Vehicle : OnePerLane(collected[u])'
    BY <1>1, <1>2, <2>3, <2>6 DEF OnePerLane
  <2>8. mode' = "cluster" => /\ \A x \in invites' : AsFront(x)'
                            /\ \A u \in Vehicle : \A x \in collected'[u] : AsFront(x)'
    BY <1>1, <1>2, <2>1, <2>2, <2>3, <2>4, <2>6
  <2> QED BY <2>5, <2>6, <2>7, <2>8 DEF Collecting
<1>4. CASE ~(Idle(v) /\ MayInvite(v, flagged))
  <2>1. UNCHANGED <<collected, invites, members, retrying, forms>>
    BY <1>4 DEF SendClusterBeacon, formVars
  <2>2. MembersFormed
    BY DEF FormationInv
  <2>3. MembersFormed'
    BY <1>1, <2>1, <2>2, StaysComplete DEF MembersFormed, Started
  <2> QED BY <1>1, <1>2, <2>1, <2>3 DEF Collecting, OnePerLane
<1> QED BY <1>3, <1>4

LEMMA HearInviteKeeps ==
  ASSUME FormationInv, NEW v \in Vehicle, NEW u \in Vehicle, HearInvite(v, u)
  PROVE  Collecting'
<1> DEFINE stored == Store(collected[v], u)
           known == WithItself(v, stored)
<1>1. /\ collected \in [Vehicle -> SUBSET Vehicle] /\ mode \in Modes
      /\ mode = "cluster" => \A w \in Vehicle : OnePerLane(collected[w])
      /\ members \in [Vehicle -> SUBSET Vehicle] /\ retrying \in SUBSET Vehicle
      /\ invites \in SUBSET Vehicle /\ forms \in SUBSET SUBSET Vehicle
      /\ mode = "cluster" => /\ \A x \in leaders \cup invites : AsFront(x)
                             /\ \A w \in Vehicle : \A x \in collected[w] : AsFront(x)
  BY DEF FormationInv, TypeOK, FrontsOnly
<1>2. /\ collected' = [collected EXCEPT ![v] = known] /\ invites' = invites
      /\ u \in invites /\ Onward /\ mode' = mode
      /\ IF MayInvite(v, leaders) THEN TryForm(v, known)
         ELSE members' = members /\ retrying' = retrying /\ forms' = forms
  BY DEF HearInvite, placeVars, flagVars, formVars, Onward, Gone
<1>3. \A x : AsFront(x) => AsFront(x)'
  BY <1>2, StaysFront
<1>4. /\ stored \subseteq collected[v] \cup {u} /\ stored \in SUBSET Vehicle
      /\ mode = "cluster" => OnePerLane(stored)
  BY <1>1, StoreKeeps, ZenonT(40)
<1>5. /\ known \subseteq stored \cup {v} /\ known \in SUBSET Vehicle
      /\ mode = "cluster" => OnePerLane(known)
      /\ mode = "cluster" /\ v \in leaders => v \in known
      /\ v \in known => v \in stored \/ v \in leaders
  <2> HIDE DEF stored
  <2>1. CASE mode = "cluster" /\ v \in leaders
    BY <1>1, <1>4, <2>1, StoreKeeps DEF WithItself
  <2>2. CASE ~(mode = "cluster" /\ v \in leaders)
    BY <1>4, <2>2 DEF WithItself
  <2> QED BY <2>1, <2>2
<1> HIDE DEF stored, known
<1>6. mode = "cluster" => \A x \in known : AsFront(x)'
  BY <1>1, <1>2, <1>3, <1>4, <1>5
<1>7. /\ MembersFormed' /\ members' \in [Vehicle -> SUBSET Vehicle]
      /\ retrying' \in SUBSET Vehicle /\ forms' \in SUBSET SUBSET Vehicle
  <2>1. CASE MayInvite(v, leaders)
    <3>1. v \in known \/ mode = "allVehicles"
      BY <1>5, <2>1, <1>1, FormationAssumption DEF MayInvite
    <3> QED BY <1>2, <1>5, <1>6, <2>1, <3>1, TryFormKeeps
  <2>2. CASE ~MayInvite(v, leaders)
    BY <1>1, <1>2, <2>2, StaysComplete DEF FormationInv, MembersFormed, Started
  <2> QED BY <2>1, <2>2
<1>8. /\ collected' \in [Vehicle -> SUBSET Vehicle]
      /\ \A w \in Vehicle : collected'[w] = IF w = v THEN known ELSE collected[w]
  BY <1>1, <1>2, <1>5
<1>9. mode' = "cluster" => \A w \in Vehicle : OnePerLane(collected[w])'
  BY <1>1, <1>2, <1>5, <1>8 DEF OnePerLane
<1>10. mode' = "cluster" => /\ \A x \in invites' : AsFront(x)'
                           /\ \A w \in Vehicle : \A x \in collected'[w] : AsFront(x)'
  BY <1>1, <1>2, <1>3, <1>5, <1>6, <1>8
<1> QED BY <1>1, <1>2, <1>7, <1>8, <1>9, <1>10 DEF Collecting

-----------------------------------------------------------------------------
(* Every step keeps the invariant. *)

(* What the rest of TypeOK and FrontsOnly speak of.                        *)
Places ==
  /\ mode \in Modes
  /\ stopped \in SUBSET Vehicle /\ resumed \in SUBSET Vehicle
  /\ passed \in SUBSET Vehicle /\ looping \in SUBSET Vehicle
  /\ leaders \in SUBSET Vehicle /\ misled \in SUBSET Vehicle
  /\ mode = "cluster" => \A x \in leaders : AsFront(x)

LEMMA InvParts == FormationInv <=> Places /\ Collecting
  BY DEF FormationInv, TypeOK, FrontsOnly, Places, Collecting

LEMMA FlagIsSet ==
  ASSUME Places, NEW v \in Vehicle, NEW front \in BOOLEAN, SetLaneLeader(v, front),
         UNCHANGED <<mode, resumed, passed>>
  PROVE  /\ leaders' \in SUBSET Vehicle /\ misled' \in SUBSET Vehicle
         /\ mode = "cluster" => \A x \in leaders' : AsFront(x)'
         /\ Onward
<1>1. misled \subseteq misled' /\ misled' \in SUBSET Vehicle /\ leaders' \in SUBSET Vehicle
  BY DEF SetLaneLeader, Places
<1>2. Onward
  BY <1>1 DEF Onward, Gone
<1>3. \A x \in leaders' : x \in leaders \/ (x = v /\ AsFront(v)')
  BY DEF SetLaneLeader, AsFront, InFront, Gone
<1> QED BY <1>1, <1>2, <1>3, StaysFront DEF Places

(* The steps that leave the collecting alone, whoever leaves.              *)
LEMMA CollectingStays ==
  ASSUME Collecting, Onward,
         UNCHANGED <<collected, members, invites, forms>>,
         retrying' \in SUBSET Vehicle
  PROVE  Collecting'
<1>1. mode' = mode /\ \A x : AsFront(x) => AsFront(x)'
  BY StaysFront DEF Onward
<1>2. \A S \in forms' : Complete(S)'
  BY StaysComplete DEF Collecting, MembersFormed
<1>3. MembersFormed'
  BY <1>2 DEF Collecting, MembersFormed, Started
<1> QED BY <1>1, <1>3 DEF Collecting, OnePerLane

LEMMA FormationInit == Init => FormationInv
<1> SUFFICES ASSUME Init PROVE FormationInv
  OBVIOUS
<1>1. TypeOK
  BY DEF Init, TypeOK, OnePerLane
<1>2. FrontsOnly
  BY DEF Init, FrontsOnly, AsFront
<1>3. MembersFormed
  BY DEF Init, MembersFormed, Started
<1> QED BY <1>1, <1>2, <1>3 DEF FormationInv

LEMMA FormationNext ==
  ASSUME FormationInv, [Next]_vars
  PROVE  FormationInv'
<1>1. Places /\ Collecting
  BY InvParts
<1>f. ASSUME UNCHANGED <<mode, leaders, misled>>, resumed \subseteq resumed', passed \subseteq passed',
             resumed' \in SUBSET Vehicle, passed' \in SUBSET Vehicle,
             stopped' \in SUBSET Vehicle, looping' \in SUBSET Vehicle
      PROVE  Onward /\ Places'
  <2>1. Onward
    BY <1>f DEF Onward, Gone
  <2> QED BY <1>1, <1>f, <2>1, StaysFront DEF Places
<1>p. /\ stopped \in SUBSET Vehicle /\ resumed \in SUBSET Vehicle
      /\ passed \in SUBSET Vehicle /\ looping \in SUBSET Vehicle
      /\ retrying \in SUBSET Vehicle
  BY <1>1 DEF Places, Collecting
<1>2. ASSUME NEW v \in Vehicle, UpdateLaneLeaderFlag(v) PROVE Places' /\ Collecting'
  <2>1. PICK front \in BOOLEAN : SetLaneLeader(v, front)
    BY <1>2 DEF UpdateLaneLeaderFlag
  <2>2. UNCHANGED <<mode, stopped, resumed, passed, looping,
                    collected, members, invites, forms, retrying>>
    BY <1>2 DEF UpdateLaneLeaderFlag, placeVars, formVars
  <2>3. /\ leaders' \in SUBSET Vehicle /\ misled' \in SUBSET Vehicle
        /\ mode = "cluster" => \A x \in leaders' : AsFront(x)'
        /\ Onward
    BY <1>1, <2>1, <2>2, FlagIsSet
  <2>4. Places'
    BY <1>1, <2>2, <2>3 DEF Places
  <2>5. Collecting'
    BY <1>1, <1>p, <2>2, <2>3, CollectingStays
  <2> QED BY <2>4, <2>5
<1>3. ASSUME NEW v \in Vehicle, FirstStop(v) PROVE Places' /\ Collecting'
  <2>1. PICK front \in BOOLEAN : SetLaneLeader(v, front)
    BY <1>3 DEF FirstStop
  <2>2. /\ stopped' = stopped \cup {v}
        /\ UNCHANGED <<mode, resumed, passed>>
        /\ \/ looping' = looping \cup {v} /\ SendClusterBeacon(v, leaders')
           \/ UNCHANGED <<looping, collected, invites, members, retrying, forms>>
    BY <1>3 DEF FirstStop, formVars
  <2>3. /\ leaders' \in SUBSET Vehicle /\ misled' \in SUBSET Vehicle
        /\ mode = "cluster" => \A x \in leaders' : AsFront(x)'
        /\ Onward
    BY <1>1, <2>1, <2>2, FlagIsSet
  <2>4. Places'
    BY <1>1, <2>2, <2>3 DEF Places
  <2>5. Collecting'
    <3>1. CASE SendClusterBeacon(v, leaders')
      BY <2>3, <3>1, BeaconKeeps
    <3>2. CASE UNCHANGED <<looping, collected, invites, members, retrying, forms>>
      BY <1>1, <1>p, <2>3, <3>2, CollectingStays
    <3> QED BY <2>2, <3>1, <3>2
  <2> QED BY <2>4, <2>5
<1>4. ASSUME NEW v \in Vehicle, Beacon(v) PROVE Places' /\ Collecting'
  <2>1. /\ UNCHANGED <<mode, stopped, resumed, passed, leaders, misled, looping>>
        /\ SendClusterBeacon(v, leaders)
    BY <1>4 DEF Beacon, placeVars, flagVars
  <2>2. Onward /\ Places'
    BY <1>f, <1>p, <2>1
  <2>3. /\ leaders \in SUBSET Vehicle
        /\ mode = "cluster" => \A x \in leaders : AsFront(x)'
    BY <1>1, <2>2, StaysFront DEF Places
  <2>4. Collecting'
    BY <2>1, <2>2, <2>3, BeaconKeeps
  <2> QED BY <2>2, <2>4
<1>5. ASSUME NEW v \in Vehicle, NEW u \in Vehicle, HearInvite(v, u)
      PROVE  Places' /\ Collecting'
  <2>1. UNCHANGED <<mode, stopped, resumed, passed, leaders, misled, looping>>
    BY <1>5 DEF HearInvite, placeVars, flagVars
  <2>2. Places'
    BY <1>f, <1>p, <2>1
  <2> QED BY <1>5, <2>2, HearInviteKeeps
<1>6. ASSUME NEW v \in Vehicle, NEW S \in forms, HearForm(v, S)
      PROVE  Places' /\ Collecting'
  <2>1. /\ UNCHANGED <<mode, stopped, resumed, passed, leaders, misled, looping,
                       collected, retrying, invites, forms>>
        /\ members' = [members EXCEPT ![v] = S] /\ v \in S
    BY <1>6 DEF HearForm, placeVars, flagVars
  <2>2. Onward /\ Places'
    BY <1>f, <1>p, <2>1
  <2>3. /\ members' \in [Vehicle -> SUBSET Vehicle]
        /\ \A u \in Vehicle : members'[u] = IF u = v THEN S ELSE members[u]
    BY <1>1, <2>1 DEF Collecting
  <2>4. \A T \in forms' : Complete(T)'
    BY <1>1, <2>1, <2>2, StaysComplete DEF Collecting, MembersFormed
  <2>5. MembersFormed'
    BY <1>1, <2>1, <2>3, <2>4 DEF Collecting, MembersFormed, Started
  <2>6. Collecting'
    BY <1>1, <2>1, <2>2, <2>3, <2>5, StaysFront DEF Collecting, OnePerLane
  <2> QED BY <2>2, <2>6
<1>7. ASSUME NEW v \in Vehicle, StopRetry(v) PROVE Places' /\ Collecting'
  <2>1. /\ UNCHANGED <<mode, stopped, resumed, passed, leaders, misled, looping,
                       collected, members, invites, forms>>
        /\ retrying' = retrying \ {v}
    BY <1>7 DEF StopRetry, placeVars, flagVars
  <2>2. Onward /\ Places'
    BY <1>f, <1>p, <2>1
  <2> QED BY <1>1, <1>p, <2>1, <2>2, CollectingStays
<1>8. ASSUME NEW v \in Vehicle, Resume(v) PROVE Places' /\ Collecting'
  <2>1. /\ resumed' = resumed \cup {v}
        /\ UNCHANGED <<mode, stopped, passed, leaders, misled, looping,
                       collected, members, retrying, invites, forms>>
    BY <1>8 DEF Resume, flagVars, formVars
  <2>2. Onward /\ Places'
    BY <1>f, <1>p, <2>1
  <2> QED BY <1>1, <1>p, <2>1, <2>2, CollectingStays
<1>a. ASSUME NEW v \in Vehicle, Pass(v) PROVE Places' /\ Collecting'
  <2>1. /\ passed' = passed \cup {v}
        /\ looping' = looping \ {v} /\ retrying' = retrying \ {v}
        /\ UNCHANGED <<mode, stopped, resumed, leaders, misled,
                       collected, members, invites, forms>>
    BY <1>a DEF Pass, flagVars
  <2>2. Onward /\ Places'
    BY <1>f, <1>p, <2>1
  <2> QED BY <1>1, <1>p, <2>1, <2>2, CollectingStays
<1>9. ASSUME UNCHANGED vars PROVE Places' /\ Collecting'
  <2>1. UNCHANGED <<mode, stopped, resumed, passed, leaders, misled, looping,
                    collected, members, retrying, invites, forms>>
    BY <1>9 DEF vars, placeVars, flagVars, formVars
  <2>2. Onward /\ Places'
    BY <1>f, <1>p, <2>1
  <2> QED BY <1>1, <1>p, <2>1, <2>2, CollectingStays
<1>10. Places' /\ Collecting'
  BY <1>2, <1>3, <1>4, <1>5, <1>6, <1>7, <1>8, <1>a, <1>9 DEF Next
<1> QED BY <1>10 DEF FormationInv, TypeOK, FrontsOnly, Places, Collecting

-----------------------------------------------------------------------------
(* The variables keep their types, and what a vehicle collected in cluster  *)
(* mode has no two vehicles of one lane.                                   *)
THEOREM FormationTypes == Spec => []TypeOK
<1>1. FormationInv => TypeOK
  BY DEF FormationInv
<1> QED BY <1>1, FormationInit, FormationNext, PTL DEF Spec

(* Whoever has formed a cluster, or joined one it heard of, is a member of *)
(* it, whatever invites arrived in what order.                             *)
THEOREM OwnClusterHolds == Spec => []OwnCluster
<1>1. FormationInv => OwnCluster
  BY DEF FormationInv, MembersFormed, OwnCluster
<1> QED BY <1>1, FormationInit, FormationNext, PTL DEF Spec

(* Two sets with a vehicle each on the lane of x: both vehicles came to    *)
(* the front of it or were told so, and one stands behind the other.       *)
LEMMA SetsDifferByFronts ==
  ASSUME NEW S, NEW T, Complete(S), Complete(T), mode \in Modes, NEW x \in S \ T
  PROVE  \E y \in T : LaneOf[x] = LaneOf[y] /\ (Displaces(y, x) \/ Displaces(x, y))
<1>1. mode = "cluster"
  BY FormationAssumption DEF Complete
<1>2. x \in Vehicle /\ LaneOf[x] \in Lane /\ AsFront(x)
  BY <1>1, FormationAssumption DEF Complete
<1>3. PICK y \in T : LaneOf[y] = LaneOf[x]
  BY <1>1, <1>2 DEF Complete
<1>4. y \in Vehicle /\ AsFront(y) /\ x # y
  BY <1>1, <1>3 DEF Complete
<1>5. x \in Ahead[y] \/ y \in Ahead[x]
  BY <1>2, <1>3, <1>4, QueueAssumption
<1> QED BY <1>2, <1>3, <1>4, <1>5 DEF AsFront, InFront, Displaces

(* Member sets differ only over lanes that had two fronts: the front was   *)
(* set in motion, or TraCI told one behind it that there was nobody.       *)
THEOREM SameMembersHolds == Spec => []SameMembers
<1>1. FormationInv => SameMembers
  <2> SUFFICES ASSUME FormationInv, NEW u \in Vehicle, NEW v \in Vehicle,
                      Started(u), Started(v), NEW x \in members[u] \ members[v]
               PROVE  \E y \in members[v] :
                        LaneOf[x] = LaneOf[y] /\ (Displaces(y, x) \/ Displaces(x, y))
    BY DEF SameMembers
  <2>1. Complete(members[u]) /\ Complete(members[v]) /\ mode \in Modes
    BY DEF FormationInv, MembersFormed, TypeOK
  <2> QED BY <2>1, SetsDifferByFronts
<1> QED BY <1>1, FormationInit, FormationNext, PTL DEF Spec
=============================================================================
