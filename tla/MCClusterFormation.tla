------------------------ MODULE MCClusterFormation ------------------------
(* An instance of ClusterFormation for TLC: two lanes, and on one of them a *)
(* second vehicle behind the first.                                        *)
EXTENDS ClusterFormation

MCLaneOf == [v \in Vehicle |-> IF v = 3 THEN 1 ELSE v]
MCAhead == [v \in Vehicle |-> IF v = 3 THEN {1} ELSE {}]

(* In allVehicles mode the clusters form while all are still approaching,  *)
(* and nobody asks who is the front.                                       *)
OnApproach == mode = "allVehicles" => stopped \cup Gone \cup leaders = {}
=============================================================================
