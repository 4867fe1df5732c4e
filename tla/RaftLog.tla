------------------------------ MODULE RaftLog ------------------------------
(***************************************************************************)
(* lib/raft/raft_log.c: the log of a raft server as a circular array that  *)
(* doubles when it is full.  The raft server appends at the back, deletes  *)
(* from the back, and, when it compacts the log, polls from the front.     *)
(* Readers get a pointer into the array and the number of entries that     *)
(* stand there in a row.  One server, one thread: every call is a step.    *)
(***************************************************************************)
EXTENDS Integers, Sequences

CONSTANTS
  Value,         \* the entries that are appended
  Refused,       \* those that the log_offer callback rejects (no payload)
  Blank,         \* what calloc leaves in a slot
  InitialSize,   \* the capacity of a new log (10 in the code)
  MaxSize,       \* bound: the array does not grow beyond this
  MaxIdx         \* bound: no index grows beyond this

ASSUME RaftLogAssumption ==
  /\ Refused \subseteq Value /\ Blank \notin Value
  /\ InitialSize \in Nat \ {0} /\ MaxSize \in Nat /\ MaxIdx \in Nat

VARIABLES
  size,      \* slots of the array
  count,     \* entries in it
  front,     \* the slot of the oldest entry
  back,      \* the slot behind the newest one
  base,      \* the index of the last entry compacted away
  entries    \* entries[i]: what slot i holds, from 0 on

vars == <<size, count, front, back, base, entries>>

-----------------------------------------------------------------------------
(* The h-th slot behind the front.                                         *)
Slot(h) == (front + h) % size

(* The log that the array stands for.                                      *)
Contents == [k \in 1..count |-> entries[Slot(k - 1)]]

LastIdx == base + count

-----------------------------------------------------------------------------
(* Readers *)

(* log_get_at_idx                                                          *)
At(idx) == IF base < idx /\ idx <= LastIdx THEN entries[Slot(idx - 1 - base)]
                                           ELSE Blank

(* log_get_from_idx: the entries from idx on, up to the end of the array   *)
(* or, when idx is behind the wrap, up to the newest.                      *)
\* Faulty: takes the newest entry for the end of the array.
RunOfCount(i) == IF i <= back THEN back - i ELSE size - i
RunFrom(i) == IF i < back THEN back - i ELSE size - i
From(idx) ==
  LET i == Slot(idx - 1 - base)
  IN  IF base < idx /\ idx <= LastIdx
      THEN [k \in 1..RunFrom(i) |-> entries[i + k - 1]]
      ELSE <<>>

(* log_peektail                                                            *)
\* Faulty: does not look behind the wrap.
SlotBefore(i) == IF i = 0 THEN 0 ELSE i - 1
Before(i) == IF i = 0 THEN size - 1 ELSE i - 1
PeekTail == IF count = 0 THEN Blank ELSE entries[Before(back)]

-----------------------------------------------------------------------------
(* Writers *)

(* __ensurecapacity: a full array is copied into one of twice the size,    *)
(* the oldest entry first.                                                 *)
\* Faulty: copies the slots as they stand.
CopiedAsIs ==
  [i \in 0..2 * size - 1 |-> IF i < count THEN entries[i] ELSE Blank]
Realigned ==
  [i \in 0..2 * size - 1 |-> IF i < count THEN entries[Slot(i)] ELSE Blank]

\* Faulty: one entry too late.
OverFull == count > size
Full == count = size

(* log_append_entry: an entry that is refused has been written to its slot *)
(* but does not count.  Without memory for the new array nothing happens.  *)
AppendEntry(v) ==
  LET newSize == IF Full THEN 2 * size ELSE size
      newBack == IF Full THEN count ELSE back
      array   == IF Full THEN Realigned ELSE entries
  IN  /\ newSize <= MaxSize /\ LastIdx < MaxIdx
      /\ size' = newSize
      /\ front' = IF Full THEN 0 ELSE front
      /\ entries' = [array EXCEPT ![newBack] = v]
      /\ IF v \in Refused
         THEN count' = count /\ back' = newBack
         ELSE count' = count + 1 /\ back' = (newBack + 1) % newSize
      /\ UNCHANGED base

(* log_delete: pops the entries from the back, down to idx.                *)
Kept(idx) == IF idx <= base THEN 0 ELSE idx - 1 - base
Delete(idx) ==
  /\ idx > 0 /\ idx <= LastIdx
  /\ count' = Kept(idx)
  /\ back' = (back - (count - Kept(idx))) % size
  /\ UNCHANGED <<size, front, base, entries>>

(* log_poll                                                                *)
Poll ==
  /\ count > 0
  /\ front' = (front + 1) % size
  /\ count' = count - 1
  /\ base' = base + 1
  /\ UNCHANGED <<size, back, entries>>

(* log_load_from_snapshot                                                  *)
LoadFromSnapshot(idx) ==
  /\ count' = 0 /\ front' = 0 /\ back' = 0
  /\ base' = idx
  /\ UNCHANGED <<size, entries>>

-----------------------------------------------------------------------------
(* log_new                                                                 *)
Init ==
  /\ size = InitialSize
  /\ count = 0 /\ front = 0 /\ back = 0 /\ base = 0
  /\ entries = [i \in 0..InitialSize - 1 |-> Blank]

Next ==
  \/ \E v \in Value : AppendEntry(v)
  \/ \E idx \in 0..MaxIdx : Delete(idx) \/ LoadFromSnapshot(idx)
  \/ Poll

Spec == Init /\ [][Next]_vars

-----------------------------------------------------------------------------
(* Correctness *)

(* The slots in use are the count ones from the front on, with no blank    *)
(* among them.                                                             *)
ArrayInv ==
  /\ size \in Nat \ {0} /\ count \in 0..size /\ base \in Nat
  /\ front \in 0..size - 1 /\ back \in 0..size - 1
  /\ entries \in [0..size - 1 -> Value \cup {Blank}]
  /\ back = Slot(count)
  /\ \A h \in 0..count - 1 : entries[Slot(h)] \in Value \ Refused

(* However often the array wrapped, grew, or was polled and cut, it stands *)
(* for the sequence the raft server takes it for.                          *)
Sequence == INSTANCE SequenceLog WITH Value <- Value \ Refused, seq <- Contents
ImplementsSequence == Sequence!Spec

(* What a reader is handed is what the log holds from that index on, at    *)
(* least one entry, none beyond the array; the rest it has to ask for.     *)
ReadsARun ==
  \A idx \in base + 1..LastIdx :
    LET run == From(idx)
    IN  /\ Len(run) > 0
        /\ run = SubSeq(Contents, idx - base, idx - base + Len(run) - 1)
        /\ At(idx) = Contents[idx - base]

(* As long as nothing was compacted, and the vehicles compact nothing,     *)
(* raft_send_appendentries is handed all that follows next_idx at once, as *)
(* LibRaft has it, and the tail is the last entry.                         *)
WholeSuffix ==
  base = 0 => \A idx \in 1..count : From(idx) = SubSeq(Contents, idx, count)
TailIsLast == count > 0 => PeekTail = Contents[count]
=============================================================================
