---------------------------- MODULE RaftLogProof ----------------------------
(***************************************************************************)
(* Proofs about RaftLog, for arrays of any capacity: the slots in use are   *)
(* the count ones behind the front, readers are handed what the log holds, *)
(* and the array implements a sequence.                                    *)
(***************************************************************************)
EXTENDS RaftLog, SequenceTheorems, TLAPS

-----------------------------------------------------------------------------
(* % for a number at most one turn away. *)

LEMMA ModSame ==
  ASSUME NEW n \in Nat \ {0}, NEW x \in Nat, x < n
  PROVE  x % n = x
  OBVIOUS

LEMMA ModAbove ==
  ASSUME NEW n \in Nat \ {0}, NEW x \in Nat, n <= x, x < 2 * n
  PROVE  x % n = x - n
  OBVIOUS

LEMMA ModRange ==
  ASSUME NEW n \in Nat \ {0}, NEW x \in Int
  PROVE  x % n \in 0..n - 1
  OBVIOUS

LEMMA ModBelow ==
  ASSUME NEW n \in Nat \ {0}, NEW x \in Int, -n <= x, x < 0
  PROVE  x % n = x + n
  OBVIOUS

(* Sequences entry by entry.                                               *)

LEMMA AppendValue ==
  ASSUME NEW S, NEW s \in Seq(S), NEW v \in S
  PROVE  Append(s, v) = [k \in 1..Len(s) + 1 |-> IF k = Len(s) + 1 THEN v ELSE s[k]]
<1> DEFINE t == [k \in 1..Len(s) + 1 |-> IF k = Len(s) + 1 THEN v ELSE s[k]]
<1>1. t \in Seq(S) /\ Len(t) = Len(s) + 1
  OBVIOUS
<1>2. Append(s, v) \in Seq(S) /\ Len(Append(s, v)) = Len(s) + 1
  OBVIOUS
<1>3. \A k \in 1..Len(s) + 1 : Append(s, v)[k] = t[k]
  OBVIOUS
<1> HIDE DEF t
<1>4. Append(s, v) = t
  BY <1>1, <1>2, <1>3, SeqEqual
<1> QED BY <1>4 DEF t

LEMMA TailValue ==
  ASSUME NEW S, NEW s \in Seq(S), s # <<>>
  PROVE  Tail(s) = [k \in 1..Len(s) - 1 |-> s[k + 1]]
<1> DEFINE t == [k \in 1..Len(s) - 1 |-> s[k + 1]]
<1>1. t \in Seq(S) /\ Len(t) = Len(s) - 1
  BY EmptySeq
<1>2. /\ Tail(s) \in Seq(S) /\ Len(Tail(s)) = Len(s) - 1
      /\ \A k \in 1..Len(s) - 1 : Tail(s)[k] = t[k]
  BY HeadTailProperties
<1> HIDE DEF t
<1>3. Tail(s) = t
  BY <1>1, <1>2, SeqEqual
<1> QED BY <1>3 DEF t

LEMMA SubSeqValue ==
  ASSUME NEW S, NEW s \in Seq(S), NEW m \in 1..Len(s) + 1, NEW n \in 0..Len(s)
  PROVE  SubSeq(s, m, n) = [k \in 1..n + 1 - m |-> s[m + k - 1]]
  OBVIOUS

-----------------------------------------------------------------------------
(* Slots *)

(* A slot is found by going to the end of the array and on from its        *)
(* beginning.                                                              *)
LEMMA SlotValue ==
  ASSUME ArrayInv, NEW h \in 0..size
  PROVE  /\ front + h < size => Slot(h) = front + h
         /\ front + h >= size => Slot(h) = front + h - size
         /\ Slot(h) \in 0..size - 1
<1> DEFINE x == front + h
<1>1. size \in Nat \ {0} /\ front \in Nat /\ h \in Nat /\ x \in Nat /\ x < 2 * size
  BY DEF ArrayInv
<1>2. CASE front + h < size
  <2>1. (front + h) % size = front + h
    BY <1>1, <1>2, ModSame
  <2> QED BY <1>1, <1>2, <2>1 DEF Slot
<1>3. CASE size <= x
  <2>1. x % size = x - size
    <3> HIDE DEF x
    <3> QED BY <1>1, <1>3, ModAbove
  <2> QED BY <1>1, <1>3, <2>1 DEF Slot
<1> QED BY <1>1, <1>2, <1>3

(* No two of them are the same.                                            *)
LEMMA SlotsDiffer ==
  ASSUME ArrayInv, NEW g \in 0..size - 1, NEW h \in 0..size - 1, g # h
  PROVE  Slot(g) # Slot(h)
<1>1. g \in 0..size /\ h \in 0..size /\ front \in 0..size - 1 /\ size \in Nat
  BY DEF ArrayInv
<1> QED BY <1>1, SlotValue

LEMMA ContentsSeq ==
  ASSUME ArrayInv
  PROVE  /\ Contents \in Seq(Value \ Refused)
         /\ Len(Contents) = count
         /\ DOMAIN Contents = 1..count
         /\ \A k \in 1..count : Contents[k] = entries[Slot(k - 1)]
<1>1. count \in Nat
  BY DEF ArrayInv
<1>2. \A k \in 1..count : entries[Slot(k - 1)] \in Value \ Refused
  BY DEF ArrayInv
<1>3. Contents \in [1..count -> Value \ Refused]
  BY <1>2 DEF Contents
<1> QED BY <1>1, <1>3 DEF Contents

-----------------------------------------------------------------------------
(* Each operation keeps the array in order, and does to the contents what  *)
(* the abstract log does.                                                  *)

LEMMA InitStep ==
  Init => ArrayInv /\ base = 0 /\ Contents = <<>>
<1> SUFFICES ASSUME Init PROVE ArrayInv /\ base = 0 /\ Contents = <<>>
  OBVIOUS
<1>1. InitialSize \in Nat \ {0}
  BY RaftLogAssumption
<1>2. Slot(count) = 0
  BY <1>1, ModSame DEF Init, Slot
<1>3. ArrayInv
  BY <1>1, <1>2 DEF Init, ArrayInv
<1>4. Contents = <<>>
  BY <1>3, ContentsSeq DEF Init
<1> QED BY <1>3, <1>4 DEF Init

(* Growing: the copy starts at slot 0 and leaves room behind the last.     *)
LEMMA AppendFullStep ==
  ASSUME ArrayInv, NEW v \in Value, AppendEntry(v), Full
  PROVE  /\ ArrayInv'
         /\ Contents' = IF v \in Refused THEN Contents ELSE Append(Contents, v)
<1>1. /\ size \in Nat \ {0} /\ count = size /\ size' = 2 * size
      /\ front' = 0 /\ base' = base /\ base \in Nat
      /\ entries' = [Realigned EXCEPT ![count] = v]
      /\ count' = IF v \in Refused THEN count ELSE count + 1
      /\ back' = IF v \in Refused THEN count ELSE (count + 1) % size'
  BY DEF AppendEntry, Full, ArrayInv
<1>2. \A h \in 0..count - 1 : entries[Slot(h)] \in Value \ Refused
  BY DEF ArrayInv
<1>3. Realigned \in [0..size' - 1 -> Value \cup {Blank}]
  BY <1>1, <1>2 DEF Realigned
<1>4. /\ entries' \in [0..size' - 1 -> Value \cup {Blank}]
      /\ entries'[count] = v
      /\ \A h \in 0..count - 1 : entries'[h] = entries[Slot(h)]
  BY <1>1, <1>3 DEF Realigned
<1>5. \A h \in 0..size' - 1 : Slot(h)' = h
  BY <1>1, ModSame DEF Slot
<1>12. /\ count' \in 0..size' /\ count \in 0..size' - 1 /\ size' \in Nat \ {0}
       /\ count \in Nat /\ count < size'
  BY <1>1
<1>6. back' = Slot(count)' /\ back' \in 0..size' - 1
  <2>1. CASE v \in Refused
    <3>1. count % size' = count
      BY <1>12, ModSame
    <3> QED BY <1>1, <1>12, <2>1, <3>1 DEF Slot
  <2>2. CASE v \notin Refused
    <3> DEFINE c == count + 1
    <3>1. c \in Int
      BY <1>12
    <3>2. c % size' \in 0..size' - 1
      <4> HIDE DEF c
      <4> QED BY <1>12, <3>1, ModRange
    <3> QED BY <1>1, <2>2, <3>2 DEF Slot
  <2> QED BY <2>1, <2>2
<1>7. \A h \in 0..count' - 1 : entries'[Slot(h)'] \in Value \ Refused
  <2> SUFFICES ASSUME NEW h \in 0..count' - 1
               PROVE  entries'[Slot(h)'] \in Value \ Refused
    OBVIOUS
  <2>1. Slot(h)' = h
    BY <1>1, <1>5
  <2>2. CASE h < count
    BY <1>1, <1>2, <1>4, <2>1, <2>2
  <2>3. CASE h = count /\ v \notin Refused
    BY <1>4, <2>1, <2>3
  <2> QED BY <1>1, <2>2, <2>3
<1>8. ArrayInv'
  BY <1>1, <1>12, <1>4, <1>6, <1>7 DEF ArrayInv
<1>9. \A k \in 1..count : entries'[Slot(k - 1)'] = entries[Slot(k - 1)]
  BY <1>1, <1>4, <1>5
<1>10. CASE v \in Refused
  BY <1>1, <1>8, <1>9, <1>10 DEF Contents
<1>11. CASE v \notin Refused
  <2>1. \A k \in {count + 1} : entries'[Slot(k - 1)'] = v
    BY <1>1, <1>12, <1>4, <1>5
  <2>2. Contents' = [k \in 1..count + 1 |-> IF k = count + 1 THEN v ELSE Contents[k]]
    BY <1>1, <1>9, <1>11, <2>1 DEF Contents
  <2>3. v \in Value \ Refused /\ Contents \in Seq(Value \ Refused) /\ Len(Contents) = count
    BY <1>11, ContentsSeq
  <2>4. Append(Contents, v) = Contents'
    BY <2>2, <2>3, AppendValue
  <2> QED BY <1>8, <1>11, <2>4
<1> QED BY <1>8, <1>10, <1>11

(* The slot behind a slot.                                                 *)
LEMMA NextSlot ==
  ASSUME ArrayInv, NEW h \in 0..size - 1
  PROVE  (Slot(h) + 1) % size = Slot(h + 1)
<1> DEFINE x == Slot(h) + 1
<1>1. /\ size \in Nat \ {0} /\ front \in 0..size - 1
      /\ h \in 0..size /\ h + 1 \in 0..size
  BY DEF ArrayInv
<1>2. /\ front + h < size => Slot(h) = front + h
      /\ front + h >= size => Slot(h) = front + h - size
      /\ Slot(h) \in 0..size - 1
  BY <1>1, SlotValue
<1>3. /\ front + h + 1 < size => Slot(h + 1) = front + h + 1
      /\ front + h + 1 >= size => Slot(h + 1) = front + h + 1 - size
  <2> HIDE DEF ArrayInv
  <2>1. h + 1 \in 0..size
    BY <1>1
  <2> QED BY <1>1, <2>1, SlotValue
<1>4. CASE x < size
  <2>1. x \in Nat
    BY <1>2
  <2>2. x % size = x
    <3> HIDE DEF x
    <3> QED BY <1>1, <1>4, <2>1, ModSame
  <2> QED BY <1>1, <1>2, <1>3, <1>4, <2>2
<1>5. CASE x = size
  <2>1. size % size = 0
    BY <1>1, ModAbove
  <2> QED BY <1>1, <1>2, <1>3, <1>5, <2>1
<1> QED BY <1>1, <1>2, <1>4, <1>5

(* With room left, the entry goes to a slot that is not in use.            *)
LEMMA AppendRoomStep ==
  ASSUME ArrayInv, NEW v \in Value, AppendEntry(v), ~Full
  PROVE  /\ ArrayInv'
         /\ Contents' = IF v \in Refused THEN Contents ELSE Append(Contents, v)
<1>1. /\ size \in Nat \ {0} /\ count \in 0..size - 1
      /\ front \in 0..size - 1 /\ back \in 0..size - 1 /\ back = Slot(count)
      /\ base \in Nat /\ entries \in [0..size - 1 -> Value \cup {Blank}]
      /\ \A h \in 0..count - 1 : entries[Slot(h)] \in Value \ Refused
  BY DEF Full, ArrayInv
<1>2. /\ size' = size /\ front' = front /\ base' = base
      /\ entries' = [entries EXCEPT ![back] = v]
      /\ count' = IF v \in Refused THEN count ELSE count + 1
      /\ back' = IF v \in Refused THEN back ELSE (back + 1) % size
  BY DEF AppendEntry
<1>3. \A h \in 0..size : Slot(h)' = Slot(h)
  BY <1>2 DEF Slot
<1>4. \A h \in 0..count - 1 : entries'[Slot(h)] = entries[Slot(h)]
  <2> SUFFICES ASSUME NEW h \in 0..count - 1
               PROVE  entries'[Slot(h)] = entries[Slot(h)]
    OBVIOUS
  <2>1. h \in 0..size - 1 /\ h # count
    BY <1>1
  <2>2. Slot(h) # back
    BY <1>1, <2>1, SlotsDiffer
  <2>3. h \in 0..size
    BY <1>1
  <2>4. Slot(h) \in 0..size - 1
    BY <2>3, SlotValue
  <2> QED BY <1>1, <1>2, <2>2, <2>4
<1>5. entries'[back] = v /\ entries' \in [0..size - 1 -> Value \cup {Blank}]
  BY <1>1, <1>2
<1>6. back' = Slot(count)' /\ back' \in 0..size - 1
  <2>1. CASE v \in Refused
    BY <1>1, <1>2, <2>1 DEF Slot
  <2>2. CASE v \notin Refused
    <3>1. (back + 1) % size = Slot(count + 1)
      BY <1>1, NextSlot
    <3>2. count + 1 \in 0..size
      BY <1>1
    <3>3. Slot(count + 1) \in 0..size - 1
      BY <3>2, SlotValue
    <3>4. Slot(count)' = Slot(count + 1)
      BY <1>2, <2>2 DEF Slot
    <3> QED BY <1>2, <2>2, <3>1, <3>3, <3>4
  <2> QED BY <2>1, <2>2
<1>7. \A h \in 0..count' - 1 : entries'[Slot(h)'] \in Value \ Refused
  <2> SUFFICES ASSUME NEW h \in 0..count' - 1
               PROVE  entries'[Slot(h)'] \in Value \ Refused
    OBVIOUS
  <2>1. Slot(h)' = Slot(h)
    BY <1>1, <1>2, <1>3
  <2>2. CASE h < count
    BY <1>1, <1>4, <2>1, <2>2
  <2>3. CASE h = count /\ v \notin Refused
    BY <1>1, <1>5, <2>1, <2>3
  <2> QED BY <1>1, <1>2, <2>2, <2>3
<1>8. ArrayInv'
  BY <1>1, <1>2, <1>5, <1>6, <1>7 DEF ArrayInv
<1>9. \A k \in 1..count : entries'[Slot(k - 1)'] = entries[Slot(k - 1)]
  BY <1>1, <1>3, <1>4
<1>10. CASE v \in Refused
  BY <1>2, <1>8, <1>9, <1>10 DEF Contents
<1>11. CASE v \notin Refused
  <2>1. \A k \in {count + 1} : entries'[Slot(k - 1)'] = v
    BY <1>1, <1>3, <1>5
  <2>2. Contents' = [k \in 1..count + 1 |-> IF k = count + 1 THEN v ELSE Contents[k]]
    <3>1. count' = count + 1
      BY <1>2, <1>11
    <3>2. Contents' = [k \in 1..count + 1 |-> entries'[Slot(k - 1)']]
      BY <3>1 DEF Contents
    <3>3. \A k \in 1..count : entries'[Slot(k - 1)'] = Contents[k]
      BY <1>9 DEF Contents
    <3> QED BY <1>1, <2>1, <3>2, <3>3
  <2>3. v \in Value \ Refused /\ Contents \in Seq(Value \ Refused) /\ Len(Contents) = count
    BY <1>11, ContentsSeq
  <2>4. Append(Contents, v) = Contents'
    BY <2>2, <2>3, AppendValue
  <2> QED BY <1>8, <1>11, <2>4
<1> QED BY <1>8, <1>10, <1>11

(* Deleting moves only the back.                                           *)
LEMMA DeleteStep ==
  ASSUME ArrayInv, NEW idx \in Nat, Delete(idx)
  PROVE  /\ ArrayInv' /\ Kept(idx) \in 0..count
         /\ Contents' = SubSeq(Contents, 1, Kept(idx))
<1> DEFINE k == Kept(idx)
           x == back - (count - k)
<1>1. /\ size \in Nat \ {0} /\ count \in 0..size
      /\ front \in 0..size - 1 /\ back \in 0..size - 1 /\ back = Slot(count)
      /\ base \in Nat /\ entries \in [0..size - 1 -> Value \cup {Blank}]
      /\ \A h \in 0..count - 1 : entries[Slot(h)] \in Value \ Refused
  BY DEF ArrayInv
<1>2. /\ size' = size /\ front' = front /\ base' = base /\ entries' = entries
      /\ count' = k /\ back' = x % size
  BY DEF Delete
<1>3. k \in 0..count
  BY <1>1 DEF Delete, Kept, LastIdx
<1>4. \A h \in 0..size : Slot(h)' = Slot(h)
  BY <1>2 DEF Slot
<1>5. x % size = Slot(k)
  <2> HIDE DEF k
  <2>1. /\ front + count < size => back = front + count
        /\ front + count >= size => back = front + count - size
    BY <1>1, SlotValue
  <2>2. k \in 0..size
    BY <1>1, <1>3
  <2>3. /\ front + k < size => Slot(k) = front + k
        /\ front + k >= size => Slot(k) = front + k - size
    BY <2>2, SlotValue
  <2>4. CASE x >= 0
    <3>1. x \in Nat /\ x < size
      BY <1>1, <1>3, <2>4
    <3>2. x % size = x
      <4> HIDE DEF x
      <4> QED BY <1>1, <3>1, ModSame
    <3>3. x = Slot(k)
      BY <1>1, <1>3, <2>1, <2>3, <2>4
    <3> HIDE DEF x
    <3> QED BY <3>2, <3>3
  <2>5. CASE x < 0
    <3>1. x \in Int /\ -size <= x
      BY <1>1, <1>3
    <3>2. x % size = x + size
      <4> HIDE DEF x
      <4> QED BY <1>1, <2>5, <3>1, ModBelow
    <3>3. x + size = Slot(k)
      BY <1>1, <1>3, <2>1, <2>3, <2>5
    <3> HIDE DEF x
    <3> QED BY <3>2, <3>3
  <2>6. x \in Int
    BY <1>1, <1>3
  <2> HIDE DEF x
  <2> QED BY <2>4, <2>5, <2>6
<1>6. back' = Slot(count)' /\ back' \in 0..size - 1
  <2> HIDE DEF k, x
  <2>1. k \in 0..size
    BY <1>1, <1>3
  <2>2. Slot(k) \in 0..size - 1
    BY <2>1, SlotValue
  <2> QED BY <1>2, <1>5, <2>2 DEF Slot
<1>7. ArrayInv'
  <2> HIDE DEF k, x
  <2>1. \A h \in 0..count' - 1 : entries'[Slot(h)'] \in Value \ Refused
    BY <1>1, <1>2, <1>3, <1>4
  <2> QED BY <1>1, <1>2, <1>3, <1>6, <2>1 DEF ArrayInv
<1>8. Contents' = SubSeq(Contents, 1, k)
  <2> HIDE DEF k, x
  <2>1. Contents \in Seq(Value \ Refused) /\ Len(Contents) = count
        /\ \A h \in 1..count : Contents[h] = entries[Slot(h - 1)]
    BY ContentsSeq
  <2>2. SubSeq(Contents, 1, k) = [h \in 1..k + 1 - 1 |-> Contents[1 + h - 1]]
    BY <1>1, <1>3, <2>1, SubSeqValue
  <2>3. Contents' = [h \in 1..k |-> entries'[Slot(h - 1)']]
    BY <1>2 DEF Contents
  <2>4. \A h \in 1..k : entries'[Slot(h - 1)'] = Contents[h]
    BY <1>1, <1>2, <1>3, <1>4, <2>1
  <2> QED BY <1>1, <1>3, <2>2, <2>3, <2>4
<1> QED BY <1>3, <1>7, <1>8

(* Polling moves only the front.                                           *)
LEMMA PollStep ==
  ASSUME ArrayInv, Poll
  PROVE  ArrayInv' /\ Contents # <<>> /\ Contents' = Tail(Contents)
<1>1. /\ size \in Nat \ {0} /\ count \in 1..size
      /\ front \in 0..size - 1 /\ back \in 0..size - 1 /\ back = Slot(count)
      /\ base \in Nat /\ entries \in [0..size - 1 -> Value \cup {Blank}]
      /\ \A h \in 0..count - 1 : entries[Slot(h)] \in Value \ Refused
  BY DEF ArrayInv, Poll
<1>2. /\ size' = size /\ front' = (front + 1) % size /\ base' = base + 1
      /\ entries' = entries /\ count' = count - 1 /\ back' = back
  BY DEF Poll
<1>3. Slot(0) = front
  <2>1. 0 \in 0..size
    BY <1>1
  <2> QED BY <1>1, <2>1, SlotValue
<1>4. front' = Slot(1) /\ front' \in 0..size - 1
  <2>1. 0 \in 0..size - 1
    BY <1>1
  <2>2. (Slot(0) + 1) % size = Slot(0 + 1)
    BY <2>1, NextSlot
  <2>3. 1 \in 0..size
    BY <1>1
  <2>4. Slot(1) \in 0..size - 1
    BY <2>3, SlotValue
  <2> QED BY <1>2, <1>3, <2>2, <2>4
<1>5. \A h \in 0..size - 1 : Slot(h)' = Slot(h + 1)
  <2> SUFFICES ASSUME NEW h \in 0..size - 1
               PROVE  Slot(h)' = Slot(h + 1)
    OBVIOUS
  <2> DEFINE x == front' + h
  <2>1. 1 \in 0..size /\ h + 1 \in 0..size
    BY <1>1
  <2>2. /\ front + 1 < size => Slot(1) = front + 1
        /\ front + 1 >= size => Slot(1) = front + 1 - size
    BY <2>1, SlotValue
  <2>3. /\ front + (h + 1) < size => Slot(h + 1) = front + (h + 1)
        /\ front + (h + 1) >= size => Slot(h + 1) = front + (h + 1) - size
    BY <2>1, SlotValue
  <2>4. x \in Nat /\ x < 2 * size
    BY <1>1, <1>4
  <2>5. Slot(h)' = x % size
    BY <1>2 DEF Slot
  <2>6. CASE x < size
    <3>1. x % size = x
      <4> HIDE DEF x
      <4> QED BY <1>1, <2>4, <2>6, ModSame
    <3>2. x = Slot(h + 1)
      BY <1>1, <1>4, <2>2, <2>3, <2>6
    <3> HIDE DEF x
    <3> QED BY <2>5, <3>1, <3>2
  <2>7. CASE size <= x
    <3>1. x % size = x - size
      <4> HIDE DEF x
      <4> QED BY <1>1, <2>4, <2>7, ModAbove
    <3>2. x - size = Slot(h + 1)
      BY <1>1, <1>4, <2>2, <2>3, <2>7
    <3> HIDE DEF x
    <3> QED BY <2>5, <3>1, <3>2
  <2> HIDE DEF x
  <2> QED BY <1>1, <2>4, <2>6, <2>7
<1>6. ArrayInv'
  <2>1. \A h \in 0..count' - 1 : entries'[Slot(h)'] \in Value \ Refused
    <3> SUFFICES ASSUME NEW h \in 0..count' - 1
                 PROVE  entries'[Slot(h)'] \in Value \ Refused
      OBVIOUS
    <3>1. h \in 0..size - 1 /\ h + 1 \in 0..count - 1
      BY <1>1, <1>2
    <3> QED BY <1>1, <1>2, <1>5, <3>1
  <2>2. back' = Slot(count)'
    <3>1. \A h \in {count - 1} : Slot(h)' = Slot(h + 1)
      BY <1>1, <1>5
    <3>2. Slot(count)' = (front' + (count - 1)) % size'
      BY <1>2 DEF Slot
    <3>3. (front' + (count - 1)) % size' = Slot(count - 1 + 1)
      BY <3>1 DEF Slot
    <3>4. count - 1 + 1 = count
      BY <1>1
    <3> QED BY <1>1, <1>2, <3>2, <3>3, <3>4
  <2> QED BY <1>1, <1>2, <1>4, <2>1, <2>2 DEF ArrayInv
<1>7. /\ Contents \in Seq(Value \ Refused) /\ Len(Contents) = count
      /\ \A k \in 1..count : Contents[k] = entries[Slot(k - 1)]
  BY ContentsSeq
<1>8. Contents # <<>>
  BY <1>1, <1>7
<1>9. Contents' = Tail(Contents)
  <2>1. Tail(Contents) = [k \in 1..count - 1 |-> Contents[k + 1]]
    BY <1>7, <1>8, TailValue
  <2>2. Contents' = [k \in 1..count - 1 |-> entries'[Slot(k - 1)']]
    BY <1>2 DEF Contents
  <2>3. \A k \in 1..count - 1 : entries'[Slot(k - 1)'] = Contents[k + 1]
    <3> SUFFICES ASSUME NEW k \in 1..count - 1
                 PROVE  entries'[Slot(k - 1)'] = Contents[k + 1]
      OBVIOUS
    <3>1. k - 1 \in 0..size - 1 /\ k + 1 \in 1..count /\ k - 1 + 1 = k + 1 - 1
      BY <1>1
    <3>2. Slot(k - 1)' = Slot(k - 1 + 1)
      BY <1>5, <3>1
    <3>3. Contents[k + 1] = entries[Slot(k + 1 - 1)]
      BY <1>7, <3>1
    <3> QED BY <1>2, <3>1, <3>2, <3>3
  <2> QED BY <2>1, <2>2, <2>3
<1> QED BY <1>6, <1>8, <1>9

LEMMA LoadStep ==
  ASSUME ArrayInv, NEW idx \in Nat, LoadFromSnapshot(idx)
  PROVE  ArrayInv' /\ Contents' = <<>>
<1>1. /\ size \in Nat \ {0} /\ size' = size /\ base' = idx /\ count' = 0
      /\ front' = 0 /\ back' = 0 /\ entries' = entries
      /\ entries \in [0..size - 1 -> Value \cup {Blank}]
  BY DEF ArrayInv, LoadFromSnapshot
<1>2. Slot(count)' = 0
  BY <1>1, ModSame DEF Slot
<1>3. ArrayInv'
  BY <1>1, <1>2 DEF ArrayInv
<1>4. Contents' = <<>>
  BY <1>1 DEF Contents
<1> QED BY <1>3, <1>4

LEMMA StutterStep ==
  ASSUME ArrayInv, UNCHANGED vars
  PROVE  ArrayInv' /\ Contents' = Contents
  BY DEF ArrayInv, Contents, Slot, vars

-----------------------------------------------------------------------------
(* The slots in use are the count ones behind the front, in every array    *)
(* that raft_log.c can come to have.                                       *)
THEOREM ArrayInOrder == Spec => []ArrayInv
<1>1. Init => ArrayInv
  BY InitStep
<1>2. ArrayInv /\ [Next]_vars => ArrayInv'
  <2> SUFFICES ASSUME ArrayInv, [Next]_vars PROVE ArrayInv'
    OBVIOUS
  <2>0. \A idx \in 0..MaxIdx : idx \in Nat
    BY RaftLogAssumption
  <2>1. CASE \E v \in Value : AppendEntry(v)
    BY <2>1, AppendFullStep, AppendRoomStep
  <2>2. CASE \E idx \in 0..MaxIdx : Delete(idx)
    BY <2>0, <2>2, DeleteStep
  <2>3. CASE \E idx \in 0..MaxIdx : LoadFromSnapshot(idx)
    BY <2>0, <2>3, LoadStep
  <2>4. CASE Poll
    BY <2>4, PollStep
  <2>5. CASE UNCHANGED vars
    BY <2>5, StutterStep
  <2> QED BY <2>1, <2>2, <2>3, <2>4, <2>5 DEF Next
<1> QED BY <1>1, <1>2, PTL DEF Spec

(* To the raft server, the array is a sequence: each call changes the      *)
(* contents the way SequenceLog says, or not at all.                       *)
THEOREM ArrayIsSequence == Spec => ImplementsSequence
<1>1. Init => Sequence!Init
  BY InitStep DEF Sequence!Init
<1>2. ArrayInv /\ [Next]_vars => [Sequence!Next]_<<base, Contents>>
  <2> SUFFICES ASSUME ArrayInv, [Next]_vars
               PROVE  [Sequence!Next]_<<base, Contents>>
    OBVIOUS
  <2>1. ASSUME NEW v \in Value, AppendEntry(v)
        PROVE  [Sequence!Next]_<<base, Contents>>
    <3>1. Contents' = IF v \in Refused THEN Contents ELSE Append(Contents, v)
      BY <2>1, AppendFullStep, AppendRoomStep
    <3>2. base' = base
      BY <2>1 DEF AppendEntry
    <3> QED BY <3>1, <3>2 DEF Sequence!Next, Sequence!Append1
  <2>2. ASSUME NEW idx \in 0..MaxIdx, Delete(idx)
        PROVE  Sequence!Next
    <3>1. idx \in Nat
      BY <2>2, RaftLogAssumption
    <3>2. Kept(idx) \in 0..count /\ Contents' = SubSeq(Contents, 1, Kept(idx))
      BY <2>2, <3>1, DeleteStep
    <3>3. base' = base /\ Len(Contents) = count
      BY <2>2, ContentsSeq DEF Delete
    <3> QED BY <3>2, <3>3 DEF Sequence!Next, Sequence!Truncate
  <2>3. ASSUME NEW idx \in 0..MaxIdx, LoadFromSnapshot(idx)
        PROVE  Sequence!Next
    <3>1. idx \in Nat
      BY <2>3, RaftLogAssumption
    <3>2. base' = idx /\ Contents' = <<>>
      BY <2>3, <3>1, LoadStep DEF LoadFromSnapshot
    <3> QED BY <3>1, <3>2 DEF Sequence!Next, Sequence!Reload
  <2>4. ASSUME Poll PROVE Sequence!Next
    <3>1. base' = base + 1 /\ Contents # <<>> /\ Contents' = Tail(Contents)
      BY <2>4, PollStep DEF Poll
    <3> QED BY <3>1 DEF Sequence!Next, Sequence!Compact
  <2>5. CASE UNCHANGED vars
    <3>1. base' = base /\ Contents' = Contents
      BY <2>5, StutterStep DEF vars
    <3> QED BY <3>1
  <2> QED BY <2>1, <2>2, <2>3, <2>4, <2>5 DEF Next
<1>3. Spec => []ArrayInv
  BY ArrayInOrder
<1> QED BY <1>1, <1>2, <1>3, PTL DEF Spec, ImplementsSequence, Sequence!Spec

-----------------------------------------------------------------------------
(* Readers *)

(* The run that log_get_from_idx finds at the j-th entry lies in the array  *)
(* in a row, and ends with the newest entry or before.                     *)
LEMMA RunInARow ==
  ASSUME ArrayInv, NEW j \in 0..count - 1
  PROVE  /\ RunFrom(Slot(j)) \in 1..count - j
         /\ \A k \in 1..RunFrom(Slot(j)) : Slot(j + k - 1) = Slot(j) + k - 1
<1>1. /\ size \in Nat \ {0} /\ count \in 0..size /\ front \in 0..size - 1
      /\ back = Slot(count) /\ j \in 0..size /\ j < count
  BY DEF ArrayInv
<1>2. /\ front + count < size => back = front + count
      /\ front + count >= size => back = front + count - size
  BY <1>1, SlotValue
<1>3. /\ front + j < size => Slot(j) = front + j
      /\ front + j >= size => Slot(j) = front + j - size
  BY <1>1, SlotValue
<1>4. RunFrom(Slot(j)) \in 1..count - j
  BY <1>1, <1>2, <1>3 DEF RunFrom
<1>5. ASSUME NEW k \in 1..RunFrom(Slot(j))
      PROVE  Slot(j + k - 1) = Slot(j) + k - 1
  <2> DEFINE h == j + k - 1
  <2>1. h \in 0..size /\ k \in Nat
    BY <1>1, <1>4
  <2>2. /\ front + h < size => Slot(h) = front + h
        /\ front + h >= size => Slot(h) = front + h - size
    <3> HIDE DEF h
    <3> QED BY <2>1, SlotValue
  <2>3. front + j < size => front + h < size
    BY <1>1, <1>2, <1>3, <2>1 DEF RunFrom
  <2>4. Slot(h) = Slot(j) + k - 1
    BY <1>1, <1>3, <2>1, <2>2, <2>3
  <2> QED BY <2>4
<1> QED BY <1>4, <1>5

LEMMA ContentsAt ==
  ASSUME ArrayInv, NEW h \in 0..count - 1
  PROVE  Contents[h + 1] = entries[Slot(h)]
<1>1. h + 1 \in 1..count /\ h + 1 - 1 = h
  BY DEF ArrayInv
<1>2. Contents[h + 1] = entries[(front + (h + 1 - 1)) % size]
  BY <1>1 DEF Contents, Slot
<1> QED BY <1>1, <1>2 DEF Slot

LEMMA ReadersReadARun == ArrayInv => ReadsARun
<1> SUFFICES ASSUME ArrayInv, NEW idx \in base + 1..LastIdx
             PROVE  LET run == From(idx)
                    IN  /\ Len(run) > 0
                        /\ run = SubSeq(Contents, idx - base, idx - base + Len(run) - 1)
                        /\ At(idx) = Contents[idx - base]
  BY DEF ReadsARun
<1> DEFINE j == idx - 1 - base
           n == RunFrom(Slot(j))
<1>1. /\ base \in Nat /\ count \in Nat /\ idx \in Int /\ base < idx
      /\ idx <= LastIdx /\ j \in 0..count - 1 /\ idx - base = j + 1
  BY DEF ArrayInv, LastIdx
<1>2. n \in 1..count - j /\ \A k \in 1..n : Slot(j + k - 1) = Slot(j) + k - 1
  <2> HIDE DEF j
  <2> QED BY <1>1, RunInARow
<1>3. From(idx) = [k \in 1..n |-> entries[Slot(j) + k - 1]]
  BY <1>1 DEF From
<1>4. At(idx) = entries[Slot(j)]
  BY <1>1 DEF At
<1>5. /\ Contents \in Seq(Value \ Refused) /\ Len(Contents) = count
      /\ \A k \in 1..count : Contents[k] = entries[Slot(k - 1)]
  BY ContentsSeq
<1> HIDE DEF j, n
<1>6. Len(From(idx)) = n
  BY <1>1, <1>2, <1>3
<1>7. From(idx) = SubSeq(Contents, j + 1, j + n)
  <2>1. SubSeq(Contents, j + 1, j + n)
          = [k \in 1..j + n + 1 - (j + 1) |-> Contents[j + 1 + k - 1]]
    <3>1. j + 1 \in 1..Len(Contents) + 1 /\ j + n \in 0..Len(Contents)
      BY <1>1, <1>2, <1>5
    <3> QED BY <1>5, <3>1, SubSeqValue
  <2>2. \A k \in 1..n : Contents[j + 1 + k - 1] = entries[Slot(j) + k - 1]
    <3> SUFFICES ASSUME NEW k \in 1..n
                 PROVE  Contents[j + 1 + k - 1] = entries[Slot(j) + k - 1]
      OBVIOUS
    <3> DEFINE h == j + k - 1
    <3>1. h \in 0..count - 1 /\ j + 1 + k - 1 = h + 1
      BY <1>1, <1>2
    <3>2. Contents[h + 1] = entries[Slot(h)]
      <4> HIDE DEF h
      <4> QED BY <3>1, ContentsAt
    <3> QED BY <1>2, <3>1, <3>2
  <2>3. j + n + 1 - (j + 1) = n
    BY <1>1, <1>2
  <2> QED BY <1>3, <2>1, <2>2, <2>3
<1>8. idx - base + n - 1 = j + n
  BY <1>1, <1>2
<1>9. Contents[j + 1] = entries[Slot(j)]
  BY <1>1, ContentsAt
<1>10. Len(From(idx)) > 0 /\ idx - base + Len(From(idx)) - 1 = j + n
  BY <1>2, <1>6, <1>8
<1> QED BY <1>1, <1>4, <1>7, <1>9, <1>10

LEMMA TailReader == ArrayInv => TailIsLast
<1> SUFFICES ASSUME ArrayInv, count > 0 PROVE PeekTail = Contents[count]
  BY DEF TailIsLast
<1>1. /\ size \in Nat \ {0} /\ count \in 1..size /\ front \in 0..size - 1
      /\ back = Slot(count) /\ count \in 0..size /\ count - 1 \in 0..size
  BY DEF ArrayInv
<1>2. /\ front + count < size => Slot(count) = front + count
      /\ front + count >= size => Slot(count) = front + count - size
  BY <1>1, SlotValue
<1>3. /\ front + (count - 1) < size => Slot(count - 1) = front + (count - 1)
      /\ front + (count - 1) >= size => Slot(count - 1) = front + (count - 1) - size
  BY <1>1, SlotValue
<1>4. Before(back) = Slot(count - 1)
  BY <1>1, <1>2, <1>3 DEF Before
<1>5. Contents[count] = entries[Slot(count - 1)]
  BY <1>1, ContentsSeq
<1> QED BY <1>1, <1>4, <1>5 DEF PeekTail

(* As long as nothing was compacted, the front has not moved.              *)
FrontStays == base = 0 => front = 0

LEMMA SuffixReader == ArrayInv /\ FrontStays => WholeSuffix
<1> SUFFICES ASSUME ArrayInv, FrontStays, base = 0, NEW idx \in 1..count
             PROVE  From(idx) = SubSeq(Contents, idx, count)
  BY DEF WholeSuffix
<1>1. /\ size \in Nat \ {0} /\ count \in 0..size /\ front = 0
      /\ back = Slot(count) /\ count \in Nat /\ idx \in Nat
      /\ idx - 1 \in 0..size /\ idx - 1 - base = idx - 1
      /\ idx - 1 \in 0..count - 1 /\ count \in 0..size
  BY DEF ArrayInv, FrontStays
<1>2. Slot(idx - 1) = idx - 1
  <2>1. front + (idx - 1) < size
    BY <1>1
  <2>2. Slot(idx - 1) = front + (idx - 1)
    BY <1>1, <2>1, SlotValue
  <2> QED BY <1>1, <2>2
<1>3. back = IF count < size THEN count ELSE 0
  <2>1. /\ front + count < size => Slot(count) = front + count
        /\ front + count >= size => Slot(count) = front + count - size
    BY <1>1, SlotValue
  <2> QED BY <1>1, <2>1
<1>4. RunFrom(idx - 1) = count - (idx - 1)
  BY <1>1, <1>3 DEF RunFrom
<1>5. base < idx /\ idx <= LastIdx
  BY <1>1 DEF LastIdx
<1>6. From(idx) = [k \in 1..count - (idx - 1) |-> entries[idx - 1 + k - 1]]
  BY <1>1, <1>2, <1>4, <1>5 DEF From
<1>7. Len(From(idx)) = count - (idx - 1)
  BY <1>1, <1>6
<1>8. From(idx) = SubSeq(Contents, idx - base, idx - base + Len(From(idx)) - 1)
  <2>1. idx \in base + 1..LastIdx
    BY <1>1 DEF LastIdx
  <2> QED BY <2>1, ReadersReadARun DEF ReadsARun
<1>9. idx - base = idx /\ idx - base + Len(From(idx)) - 1 = count
  BY <1>1, <1>7
<1> QED BY <1>8, <1>9

LEMMA FrontStaysNext == ArrayInv /\ FrontStays /\ [Next]_vars => FrontStays'
<1> SUFFICES ASSUME ArrayInv, FrontStays, [Next]_vars PROVE FrontStays'
  OBVIOUS
<1>1. base \in Nat
  BY DEF ArrayInv
<1>2. CASE \E v \in Value : AppendEntry(v)
  BY <1>2 DEF AppendEntry, FrontStays
<1>3. CASE \E idx \in 0..MaxIdx : Delete(idx)
  BY <1>3 DEF Delete, FrontStays
<1>4. CASE \E idx \in 0..MaxIdx : LoadFromSnapshot(idx)
  BY <1>4 DEF LoadFromSnapshot, FrontStays
<1>5. CASE Poll
  BY <1>1, <1>5 DEF Poll, FrontStays
<1>6. CASE UNCHANGED vars
  BY <1>6 DEF FrontStays, vars
<1> QED BY <1>2, <1>3, <1>4, <1>5, <1>6 DEF Next

(* Whatever index raft_send_appendentries asks for, log_get_from_idx hands *)
(* it entries of the log in their order, beginning with that one: also     *)
(* where the entries wrap around the end of the array.                     *)
THEOREM ReadersAreRight == Spec => []ReadsARun
  BY ArrayInOrder, ReadersReadARun, PTL

(* As long as nothing was compacted, log_get_from_idx leaves nothing out:  *)
(* an AppendEntries carries all the log from next_idx on.                  *)
THEOREM ReadersMissNothing == Spec => []WholeSuffix
<1>1. Init => FrontStays
  BY DEF Init, FrontStays
<1> QED BY <1>1, FrontStaysNext, ArrayInOrder, SuffixReader, PTL DEF Spec

(* log_peektail, which looks one slot behind back, finds the entry that    *)
(* was appended last, also when back has wrapped to the first slot.        *)
THEOREM TailIsNewest == Spec => []TailIsLast
  BY ArrayInOrder, TailReader, PTL
=============================================================================
