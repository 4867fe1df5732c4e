----------------------------- MODULE MCCrossing -----------------------------
(* An instance of Crossing for TLC: a and b come from one approach, a in    *)
(* front, c from another.  a and c are lane leaders and run raft, b has to  *)
(* hear the pass order.                                                     *)
EXTENDS Crossing

CONSTANTS a, b, c

MCAhead == [v \in Vehicle |-> IF v = b THEN {a} ELSE {}]

AllHeard == [v \in Vehicle |-> Vehicle]
OneUnheard == [AllHeard EXCEPT ![c] = {a, c}]

\* b may be unable to look up c.
OneFails == [v \in Vehicle |-> IF v = b THEN {c} ELSE {}]
NoneFails == [v \in Vehicle |-> {}]

\* In the order of the lanes; b left out; b before a, which blocks its way.
OneSchedule ==
  {<< <<{a}, {c}, {b}>> >>, << <<{a, b}, {c}>> >>, << <<{a}, {c}>> >>, << <<{c}, {b}, {a}>> >>}

\* a and c stand at the front, and TraCI never says otherwise; it may tell b
\* anything.
Steady == leading[a] /\ leading[c]

\* The schedules of two leaders, one after the other.
TwoSchedules == {<< <<{a}, {c}>>, <<{c}, {a}>> >>}
=============================================================================
