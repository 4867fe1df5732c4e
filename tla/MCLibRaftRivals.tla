-------------------------- MODULE MCLibRaftRivals --------------------------
(* Two vehicles out of each other's radio range campaign, and a third one, *)
(* that hears both, lets one win the odd terms and the other the even ones *)
(* so that runs of four terms stay small: long enough for a leader to hold *)
(* an entry of an earlier term that a later leader replaces.               *)
EXTENDS MCLibRaft

CONSTANTS OddRival, EvenRival

ByTurns ==
  /\ \A m \in Of("RV") : m.from \in {OddRival, EvenRival}
  /\ \A m \in Of("RVR") :
       m.granted => m.to = IF m.term % 2 = 1 THEN OddRival ELSE EvenRival

(* Neither rival ever answers the other.                                   *)
OutOfRange == \A m \in Of("RVR") \cup Of("AER") :
                {m.from, m.to} # {OddRival, EvenRival}

(* Terms 3 and 4 propose nothing new, and only term 2 a second schedule.   *)
FewProposals == \A i \in Server : \A k \in DOMAIN log[i] :
                  log[i][k].term <= 2 /\ (k > 1 => log[i][k].term = 2)
=============================================================================
