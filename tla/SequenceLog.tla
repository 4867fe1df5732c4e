---------------------------- MODULE SequenceLog ----------------------------
(***************************************************************************)
(* What the raft server takes its log to be: a sequence of entries, the    *)
(* first of which has the index base + 1.  Entries are appended at the     *)
(* end, deleted from an index on, and taken from the front when they are   *)
(* compacted.  LibRaft has such a log, with a base of 0.                   *)
(***************************************************************************)
EXTENDS Naturals, Sequences

CONSTANTS Value

VARIABLES base, seq

Init == base = 0 /\ seq = <<>>

Append1 == \E v \in Value : seq' = Append(seq, v) /\ UNCHANGED base

(* The entries before an index stay, all others go.                        *)
Truncate ==
  /\ \E k \in 0..Len(seq) : seq' = SubSeq(seq, 1, k)
  /\ UNCHANGED base

Compact == seq # <<>> /\ seq' = Tail(seq) /\ base' = base + 1

Reload == seq' = <<>> /\ base' \in Nat

Next == Append1 \/ Truncate \/ Compact \/ Reload

Spec == Init /\ [][Next]_<<base, seq>>
=============================================================================
