------------------------- MODULE MCSchedulingRound -------------------------
(* Instances of SchedulingRound for TLC. *)
EXTENDS SchedulingRound, MCLibRaft

(* LiveView hides no AppendEntries of a leader, nor of a vehicle that may   *)
(* come to lead: ProposalSubmitted reads those.                             *)
RoundView == <<LiveView, appVars>>

(* The round is over when all have a schedule.                              *)
RoundOpen == ordered # Server

(* A vehicle that was taken to have left, was so before the last term.      *)
Departed == \E i \in Server : active[i] # Server
EarlyDeparture == Departed => \A i \in Server : currentTerm[i] <= 2
=============================================================================
