----------------------------- MODULE AgreedLog -----------------------------
(***************************************************************************)
(* What the vehicles are promised by raft: one sequence of pass schedules  *)
(* is agreed on and only ever grows; each vehicle applies a prefix of it,  *)
(* in order, and never takes an applied schedule back.                     *)
(***************************************************************************)
EXTENDS Naturals, Sequences

CONSTANTS Server, Entry

VARIABLES
  agreed,    \* the schedules agreed on, oldest first
  applied    \* applied[i]: the schedules vehicle i has applied

Extends(s, t) == Len(t) <= Len(s) /\ SubSeq(s, 1, Len(t)) = t

Init ==
  /\ agreed = <<>>
  /\ applied = [i \in Server |-> <<>>]

Agree ==
  /\ agreed' \in Seq(Entry) /\ Extends(agreed', agreed)
  /\ UNCHANGED applied

Apply(i) ==
  /\ Extends(agreed, applied'[i]) /\ Extends(applied'[i], applied[i])
  /\ applied' = [applied EXCEPT ![i] = applied'[i]]
  /\ UNCHANGED agreed

Next == Agree \/ \E i \in Server : Apply(i)

Spec == Init /\ [][Next]_<<agreed, applied>>
=============================================================================
