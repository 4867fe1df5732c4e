---------------------------- MODULE MCPassOrder ----------------------------
(* An instance of PassOrder for TLC.  Vehicles are numbered in the order of *)
(* their distance to the junction, in which the last two are equally close; *)
(* one of them turns left.                                                  *)
EXTENDS PassOrder

CONSTANTS
  Kinds,         \* the combinations of front, waiting and priority
  Lanes,
  LeftTurner

MCProposals ==
  {[v \in Vehicle |->
      [lane |-> d[v].lane, turn |-> IF v = LeftTurner THEN 1 ELSE 0,
       front |-> d[v].kind[1], waiting |-> d[v].kind[2],
       distance |-> IF v + 1 \in Vehicle THEN v ELSE v - 1,
       priority |-> d[v].kind[3]]] : d \in [Vehicle -> [lane : Lanes, kind : Kinds]]}

\* At the front, queued, at the front with priority, queued with priority.
MCKinds == {<<TRUE, 0, FALSE>>, <<FALSE, 0, FALSE>>, <<FALSE, 800, FALSE>>,
            <<TRUE, 400, TRUE>>, <<FALSE, 0, TRUE>>}
=============================================================================
