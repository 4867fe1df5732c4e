--------------------------- MODULE LibRaftCommit ---------------------------
(* What is committed is committed for good, for any number of vehicles and *)
(* any bounds, where nobody is marked inactive while raft runs: a vehicle  *)
(* that is elected later holds it (leader completeness), no two vehicles   *)
(* commit different schedules, no AppendEntries contradicts what its       *)
(* receiver has committed, and LibRaft implements AgreedLog.               *)
EXTENDS LibRaftProof

-----------------------------------------------------------------------------
(* Logs and runs around one entry: the entry of term t at index k *)

(* The terms of a run do not decrease; none is beyond t.                   *)
InOrder(r) ==
  \A p, q \in Nat : p <= q /\ InRun(r, p) /\ InRun(r, q) => TermIn(r, p) <= TermIn(r, q)
Within(r, t) == \A p \in Nat : InRun(r, p) => TermIn(r, p) <= t

(* By its terms the log is as recent as one that ends with the entry: what *)
(* __should_grant_vote compares.                                           *)
Recent(l, t, k) == \E p \in DOMAIN l : l[p].term > t \/ (l[p].term = t /\ k <= p)

(* The run can only follow the entry: up to k it has the terms of the log  *)
(* l, which holds the entry, and from there on none before t.              *)
Follows(r, l, t, k) ==
  \A h \in Nat : InRun(r, h) => /\ h <= k => TermIn(r, h) = l[h].term
                                /\ k <= h => t <= TermIn(r, h)

(* The first k entries of l are those of n.                                *)
Shares(l, n, k) == k <= Len(l) /\ k <= Len(n) /\ \A h \in 1..k : n[h] = l[h]

(* Two logs that hold the entry share all there is before it.              *)
LEMMA HoldersShare ==
  ASSUME NEW l \in Seq(Entry), NEW n \in Seq(Entry), Agree(LogOf(l), LogOf(n)),
         NEW t, NEW k \in Nat, Holds(l, k, t), Holds(n, k, t)
  PROVE  Shares(l, n, k)
<1>1. k \in 1..Len(l) /\ k \in 1..Len(n) /\ Len(l) \in Nat /\ Len(n) \in Nat
  BY LenProperties DEF Holds
<1>2. TermIn(LogOf(l), k) = t /\ TermIn(LogOf(n), k) = t
  BY <1>1, LogRun DEF Holds
<1>3. ASSUME NEW h \in 1..k PROVE n[h] = l[h]
  <2>1. h \in 1..Len(l) /\ h \in 1..Len(n)
    BY <1>1
  <2>2. Same(LogOf(l), LogOf(n), h)
    BY <1>1, <1>2, <2>1, LogRun DEF Agree
  <2> QED BY <2>1, <2>2, LogRun DEF Same
<1> QED BY <1>1, <1>3 DEF Shares

(* A log that holds the entry follows it, and so does a part of a run that *)
(* does.                                                                   *)
LEMMA HolderFollows ==
  ASSUME NEW l \in Seq(Entry), NEW n \in Seq(Entry), NEW t \in Nat, NEW k \in Nat,
         Holds(l, k, t), Shares(l, n, k), InOrder(LogOf(l))
  PROVE  Follows(LogOf(l), n, t, k)
<1>1. k \in 1..Len(l)
  BY LenProperties DEF Holds
<1> SUFFICES ASSUME NEW h \in Nat, InRun(LogOf(l), h)
             PROVE  /\ h <= k => TermIn(LogOf(l), h) = n[h].term
                    /\ k <= h => t <= TermIn(LogOf(l), h)
  BY DEF Follows
<1>2. h \in 1..Len(l)
  BY LogRun
<1>3. TermIn(LogOf(l), h) = l[h].term /\ TermIn(LogOf(l), k) = t /\ InRun(LogOf(l), k)
  BY <1>1, <1>2, LogRun DEF Holds
<1>4. h <= k => l[h] = n[h]
  BY <1>2 DEF Shares
<1>5. k <= h => t <= TermIn(LogOf(l), h)
  BY <1>3 DEF InOrder
<1> QED BY <1>3, <1>4, <1>5

LEMMA PartFollows ==
  ASSUME NEW r, NEW s, PartOf(r, s), NEW l, NEW t, NEW k, Follows(s, l, t, k)
  PROVE  Follows(r, l, t, k)
BY DEF Follows, PartOf, Same

LEMMA PartInOrder ==
  ASSUME NEW r, NEW s, PartOf(r, s)
  PROVE  /\ InOrder(s) => InOrder(r)
         /\ \A t : Within(s, t) => Within(r, t)
BY DEF InOrder, Within, PartOf, Same

(* What follows the entry in one log follows it in one that shares it.     *)
LEMMA FollowsShared ==
  ASSUME NEW r, NEW l, NEW n, NEW t, NEW k \in Nat, Follows(r, l, t, k), Shares(l, n, k)
  PROVE  Follows(r, n, t, k)
<1> SUFFICES ASSUME NEW h \in Nat, InRun(r, h), h <= k
             PROVE  TermIn(r, h) = n[h].term
  BY DEF Follows
<1>1. h \in 1..k
  BY DEF InRun
<1> QED BY <1>1 DEF Follows, Shares

(* raft_append_entry.                                                      *)
LEMMA AppendedLog ==
  ASSUME NEW l \in Seq(Entry), NEW e \in Entry
  PROVE  /\ Append(l, e) \in Seq(Entry) /\ Len(Append(l, e)) = Len(l) + 1 /\ Len(l) \in Nat
         /\ Append(l, e)[Len(l) + 1] = e
         /\ \A p \in 1..Len(l) : Append(l, e)[p] = l[p]
BY AppendProperties, LenProperties

(* Deleting the end of a log.                                              *)
LEMMA DeletedLog ==
  ASSUME NEW l \in Seq(Entry), NEW n \in 0..Len(l)
  PROVE  /\ SubSeq(l, 1, n) \in Seq(Entry) /\ Len(SubSeq(l, 1, n)) = n
         /\ \A p \in 1..n : SubSeq(l, 1, n)[p] = l[p]
<1>1. Len(l) \in Nat
  BY LenProperties
<1>2. \A p \in 1..n : l[p] \in Entry
  BY <1>1, ElementOfSeq
<1> QED BY <1>1, <1>2, PartOfLog, SubSeqProperties

(* A log that has taken over a message says all that the message says, and *)
(* of the rest what it said before.                                        *)
LEMMA MergedSays ==
  ASSUME NEW l \in Seq(Entry), NEW m \in AppendEntries, HasPrev(l, m),
         NEW k \in 0..Len(m.entries), MatchesUpTo(l, m, k)
  PROVE  /\ Merged(l, m, k) \in Seq(Entry)
         /\ m.prevIdx + k <= Len(l) /\ m.prevIdx + k <= Len(Merged(l, m, k))
         /\ \A p \in 1..m.prevIdx + k : Merged(l, m, k)[p] = l[p]
         /\ \A p \in Nat : InRun(m, p) =>
              p \in 1..Len(Merged(l, m, k)) /\ Merged(l, m, k)[p].term = TermIn(m, p)
         /\ k = Len(m.entries) => Merged(l, m, k) = l
         /\ k # Len(m.entries) => Len(Merged(l, m, k)) = End(m)
<1> DEFINE n == Merged(l, m, k)
<1>1. /\ m.prevIdx \in Nat /\ Len(m.entries) \in Nat /\ Len(l) \in Nat
      /\ n \in Seq(Entry) /\ Len(n) \in Nat /\ m.prevIdx + k <= Len(l)
  BY MergedType, LenProperties DEF AppendEntries
<1>2. k = Len(m.entries) => n = l
  BY DEF Merged
<1>3. k # Len(m.entries) =>
        /\ Len(n) = m.prevIdx + Len(m.entries)
        /\ \A p \in 1..m.prevIdx + k : n[p] = l[p]
        /\ \A p \in (m.prevIdx + k + 1)..(m.prevIdx + Len(m.entries)) :
             n[p] = m.entries[p - m.prevIdx]
  BY MergedParts
<1> HIDE DEF n
<1>4. m.prevIdx + k <= Len(n) /\ \A p \in 1..m.prevIdx + k : n[p] = l[p]
  BY <1>1, <1>2, <1>3
<1>5. ASSUME NEW p \in Nat, InRun(m, p)
      PROVE  p \in 1..Len(n) /\ n[p].term = TermIn(m, p)
  <2>1. p # 0 /\ m.prevIdx <= p /\ p <= m.prevIdx + Len(m.entries)
    BY <1>1, <1>5 DEF InRun
  <2>2. CASE p > m.prevIdx + k
    <3>1. /\ k # Len(m.entries) /\ p # m.prevIdx
          /\ p \in (m.prevIdx + k + 1)..(m.prevIdx + Len(m.entries))
      BY <1>1, <2>1, <2>2
    <3>2. n[p] = EntryAt(m, p) /\ p \in 1..Len(n)
      BY <1>1, <1>3, <3>1 DEF EntryAt
    <3> QED BY <3>1, <3>2 DEF TermIn
  <2>3. CASE p <= m.prevIdx + k
    <3>1. p \in 1..m.prevIdx + k /\ p \in 1..Len(n) /\ n[p] = l[p]
      BY <1>1, <1>4, <2>1, <2>3
    <3>2. CASE p = m.prevIdx
      <4>1. l[p].term = m.prevTerm
        BY <2>1, <3>2 DEF HasPrev, Holds
      <4> QED BY <3>1, <3>2, <4>1 DEF TermIn
    <3>3. CASE p # m.prevIdx
      <4>1. p - m.prevIdx \in 1..k /\ m.prevIdx + (p - m.prevIdx) = p
        BY <1>1, <2>1, <2>3, <3>3
      <4>2. Holds(l, p, m.entries[p - m.prevIdx].term)
        BY <4>1 DEF MatchesUpTo
      <4> QED BY <3>1, <3>3, <4>2 DEF Holds, TermIn, EntryAt
    <3> QED BY <3>2, <3>3
  <2> QED BY <1>1, <2>1, <2>2, <2>3
<1> QED BY <1>1, <1>2, <1>3, <1>4, <1>5 DEF n, End

(* The terms of a log stay in order when it takes over a message.          *)
LEMMA MergedInOrder ==
  ASSUME NEW l \in Seq(Entry), NEW m \in AppendEntries, HasPrev(l, m),
         NEW k \in 0..Len(m.entries), MatchesUpTo(l, m, k),
         InOrder(LogOf(l)), InOrder(m), NEW t \in Nat, Within(LogOf(l), t), Within(m, t)
  PROVE  InOrder(LogOf(Merged(l, m, k))) /\ Within(LogOf(Merged(l, m, k)), t)
<1> DEFINE n == Merged(l, m, k)
<1>1. /\ n \in Seq(Entry)
      /\ \A p \in 1..m.prevIdx + k : n[p] = l[p]
      /\ \A p \in Nat : InRun(m, p) => p \in 1..Len(n) /\ n[p].term = TermIn(m, p)
      /\ k = Len(m.entries) => n = l
      /\ k # Len(m.entries) => Len(n) = m.prevIdx + Len(m.entries)
      /\ m.prevIdx + k <= Len(l)
  BY MergedSays DEF End
<1>2. m.prevIdx \in Nat /\ Len(m.entries) \in Nat /\ Len(l) \in Nat /\ Len(n) \in Nat
  BY <1>1, LenProperties DEF AppendEntries
<1> HIDE DEF n
<1>3. /\ \A p, q \in 1..Len(l) : p <= q => l[p].term <= l[q].term
      /\ \A p \in 1..Len(l) : l[p].term <= t
  <2>1. ASSUME NEW p \in 1..Len(l)
        PROVE  p \in Nat /\ InRun(LogOf(l), p) /\ TermIn(LogOf(l), p) = l[p].term
    BY LogRun
  <2> QED BY <2>1 DEF InOrder, Within
<1>4. CASE k = Len(m.entries)
  <2>1. n = l
    BY <1>1, <1>4
  <2> QED BY <2>1 DEF n
<1>5. CASE k # Len(m.entries)
  <2>1. ASSUME NEW p \in 1..Len(n) PROVE p < m.prevIdx \/ InRun(m, p)
    BY <1>1, <1>2, <1>5 DEF InRun
  <2>2. ASSUME NEW p \in 1..Len(n), p < m.prevIdx
        PROVE  /\ n[p] = l[p] /\ p \in 1..Len(l) /\ InRun(m, m.prevIdx)
               /\ m.prevIdx \in 1..Len(l) /\ n[m.prevIdx] = l[m.prevIdx]
    <3>1. /\ p \in 1..m.prevIdx + k /\ m.prevIdx \in 1..m.prevIdx + k
          /\ p \in 1..Len(l) /\ m.prevIdx \in 1..Len(l)
      BY <1>1, <1>2, <2>2
    <3>2. InRun(m, m.prevIdx)
      BY <1>2, <3>1 DEF InRun
    <3> QED BY <1>1, <3>1, <3>2
  <2>3. ASSUME NEW p \in 1..Len(n), NEW q \in 1..Len(n), p <= q
        PROVE  n[p].term <= n[q].term
    <3>1. CASE InRun(m, p)
      <4>1. InRun(m, q)
        BY <1>1, <1>2, <1>5, <2>3, <3>1 DEF InRun
      <4> QED BY <1>1, <2>3, <3>1, <4>1 DEF InOrder
    <3>2. CASE p < m.prevIdx /\ q < m.prevIdx
      BY <1>3, <2>2, <2>3, <3>2
    <3>3. CASE p < m.prevIdx /\ InRun(m, q)
      <4>1. n[p].term <= n[m.prevIdx].term /\ InRun(m, m.prevIdx)
        BY <1>2, <1>3, <2>2, <3>3
      <4>2. n[m.prevIdx].term <= n[q].term
        <5>1. m.prevIdx <= q
          BY <1>2, <3>3 DEF InRun
        <5>2. TermIn(m, m.prevIdx) <= TermIn(m, q)
          BY <1>2, <3>3, <4>1, <5>1 DEF InOrder
        <5> QED BY <1>1, <1>2, <3>3, <4>1, <5>2
      <4>3. /\ n[p].term \in Nat /\ n[m.prevIdx].term \in Nat /\ n[q].term \in Nat
        <5>1. m.prevIdx \in 1..Len(n)
          BY <1>1, <1>2, <4>1
        <5>2. n[p] \in Entry /\ n[q] \in Entry /\ n[m.prevIdx] \in Entry
          BY <1>1, <5>1, ElementOfSeq
        <5> QED BY <5>2 DEF Entry
      <4> QED BY <4>1, <4>2, <4>3
    <3> QED BY <2>1, <3>1, <3>2, <3>3
  <2>4. ASSUME NEW p \in 1..Len(n) PROVE n[p].term <= t
    BY <1>1, <1>3, <2>1, <2>2 DEF Within
  <2>5. ASSUME NEW p \in Nat, InRun(LogOf(n), p)
        PROVE  p \in 1..Len(n) /\ TermIn(LogOf(n), p) = n[p].term
    BY <1>1, <2>5, LogRun
  <2> QED BY <2>3, <2>4, <2>5 DEF InOrder, Within, n
<1> QED BY <1>4, <1>5

(* A log that holds the entry does not lose it, nor anything before it, to *)
(* a message that follows it.                                              *)
LEMMA DeleteKeeps ==
  ASSUME NEW l \in Seq(Entry), NEW n \in Seq(Entry), NEW m \in AppendEntries,
         NEW t \in Nat, NEW k \in Nat, Holds(l, k, t), Shares(l, n, k), Follows(m, n, t, k),
         m.prevIdx # 0, ~HasPrev(l, m)
  PROVE  Shares(l, SubSeq(l, 1, Lower(m.prevIdx - 1, Len(l))), k)
<1>1. /\ m.prevIdx \in Nat /\ Len(m.entries) \in Nat /\ Len(l) \in Nat /\ k \in 1..Len(l)
  BY LenProperties DEF AppendEntries, Holds
<1>2. k < m.prevIdx
  <2> SUFFICES ASSUME m.prevIdx <= k PROVE FALSE
    BY <1>1
  <2>1. InRun(m, m.prevIdx) /\ TermIn(m, m.prevIdx) = m.prevTerm
    BY <1>1 DEF InRun, TermIn
  <2>2. m.prevTerm = n[m.prevIdx].term
    BY <1>1, <2>1 DEF Follows
  <2>3. n[m.prevIdx] = l[m.prevIdx] /\ m.prevIdx \in 1..Len(l)
    BY <1>1 DEF Shares
  <2> QED BY <2>2, <2>3 DEF HasPrev, Holds
<1>3. Lower(m.prevIdx - 1, Len(l)) \in 0..Len(l) /\ k <= Lower(m.prevIdx - 1, Len(l))
  BY <1>1, <1>2 DEF Lower
<1> QED BY <1>1, <1>3, DeletedLog DEF Shares

LEMMA MergeKeeps ==
  ASSUME NEW l \in Seq(Entry), NEW n \in Seq(Entry), NEW m \in AppendEntries,
         NEW t \in Nat, NEW k \in Nat, Holds(l, k, t), Shares(l, n, k), Follows(m, n, t, k),
         HasPrev(l, m), NEW q \in 0..Len(m.entries), MatchesUpTo(l, m, q)
  PROVE  Shares(l, Merged(l, m, q), k)
<1>1. /\ m.prevIdx \in Nat /\ Len(m.entries) \in Nat /\ Len(l) \in Nat /\ k \in 1..Len(l)
      /\ q \in Nat
  BY LenProperties DEF AppendEntries, Holds
<1>2. /\ m.prevIdx + q <= Len(l) /\ m.prevIdx + q <= Len(Merged(l, m, q))
      /\ \A p \in 1..m.prevIdx + q : Merged(l, m, q)[p] = l[p]
      /\ q = Len(m.entries) => Merged(l, m, q) = l
  BY MergedSays
<1>3. CASE q = Len(m.entries)
  BY <1>1, <1>2, <1>3 DEF Shares
<1>4. CASE q # Len(m.entries)
  <2>1. k <= m.prevIdx + q
    <3> SUFFICES ASSUME m.prevIdx + q < k PROVE FALSE
      BY <1>1
    <3> DEFINE h == m.prevIdx + q + 1
    <3>1. h \in 1..k /\ h \in 1..Len(l) /\ InRun(m, h) /\ h # m.prevIdx /\ h - m.prevIdx = q + 1
      BY <1>1, <1>4 DEF InRun
    <3>2. TermIn(m, h) = m.entries[q + 1].term
      BY <3>1 DEF TermIn, EntryAt
    <3>3. TermIn(m, h) = l[h].term
      BY <3>1 DEF Follows, Shares
    <3>4. ~Holds(l, h, m.entries[q + 1].term)
      BY <1>1, <1>4 DEF MatchesUpTo
    <3> HIDE DEF h
    <3>5. h \in DOMAIN l
      BY <3>1
    <3> QED BY <3>2, <3>3, <3>4, <3>5 DEF Holds
  <2>2. \A p \in 1..k : p \in 1..m.prevIdx + q
    BY <1>1, <2>1
  <2> QED BY <1>1, <1>2, <2>1, <2>2 DEF Shares
<1> QED BY <1>3, <1>4

(* A log that has as much as the entry's index of a message that follows   *)
(* the entry holds the entry, if no recent log is without it.              *)
LEMMA MatchedHolds ==
  ASSUME NEW l \in Seq(Entry), NEW n \in Seq(Entry), NEW m \in AppendEntries,
         NEW t \in Nat, NEW k \in Nat \ {0}, Holds(n, k, t), Follows(m, n, t, k),
         HasPrev(l, m), NEW q \in 0..Len(m.entries), MatchesUpTo(l, m, q),
         Recent(l, t, k) => Holds(l, k, t)
  PROVE  /\ k <= m.prevIdx + q => Holds(l, k, t)
         /\ k <= End(m) => Holds(Merged(l, m, q), k, t)
<1> DEFINE g == Merged(l, m, q)
<1>1. /\ m.prevIdx \in Nat /\ Len(m.entries) \in Nat /\ Len(l) \in Nat /\ q \in Nat
  BY LenProperties DEF AppendEntries
<1>2. /\ g \in Seq(Entry)
      /\ m.prevIdx + q <= Len(l) /\ m.prevIdx + q <= Len(g)
      /\ \A p \in 1..m.prevIdx + q : g[p] = l[p]
      /\ \A p \in Nat : InRun(m, p) => p \in 1..Len(g) /\ g[p].term = TermIn(m, p)
  BY MergedSays
<1>3. Len(g) \in Nat
  BY <1>2, LenProperties
<1> HIDE DEF g
<1>4. ASSUME k <= m.prevIdx + q PROVE Holds(l, k, t)
  <2>1. CASE m.prevIdx <= k
    <3>1. InRun(m, k) /\ k \in 1..Len(l) /\ k \in 1..m.prevIdx + q
      BY <1>1, <1>2, <1>4, <2>1 DEF InRun
    <3>2. l[k].term = TermIn(m, k)
      BY <1>2, <3>1
    <3>3. TermIn(m, k) = t
      BY <3>1 DEF Follows, Holds
    <3> QED BY <3>1, <3>2, <3>3 DEF Holds
  <2>2. CASE k < m.prevIdx
    <3>1. m.prevIdx \in 1..Len(l) /\ InRun(m, m.prevIdx) /\ TermIn(m, m.prevIdx) = m.prevTerm
      BY <1>1, <1>2, <2>2 DEF InRun, TermIn
    <3>2. t <= m.prevTerm /\ l[m.prevIdx].term = m.prevTerm
      BY <1>1, <2>2, <3>1 DEF Follows, HasPrev, Holds
    <3>3. m.prevTerm \in Nat
      BY DEF AppendEntries
    <3>4. Recent(l, t, k)
      <4>1. m.prevIdx \in DOMAIN l
        BY <3>1
      <4>2. l[m.prevIdx].term > t \/ (l[m.prevIdx].term = t /\ k <= m.prevIdx)
        BY <1>1, <2>2, <3>1, <3>2, <3>3
      <4> QED BY <4>1, <4>2 DEF Recent
    <3> QED BY <3>4
  <2> QED BY <1>1, <2>1, <2>2
<1>5. ASSUME k <= End(m) PROVE Holds(g, k, t)
  <2>1. CASE m.prevIdx <= k
    <3>1. InRun(m, k)
      BY <1>1, <1>5, <2>1 DEF InRun, End
    <3>2. k \in 1..Len(g) /\ g[k].term = TermIn(m, k)
      BY <1>2, <3>1
    <3>3. TermIn(m, k) = t
      BY <3>1 DEF Follows, Holds
    <3> QED BY <3>2, <3>3 DEF Holds
  <2>2. CASE k < m.prevIdx
    <3>1. k <= m.prevIdx + q /\ k \in 1..Len(g) /\ k \in 1..m.prevIdx + q
      BY <1>1, <1>2, <1>3, <2>2
    <3> QED BY <1>2, <1>4, <3>1 DEF Holds
  <2> QED BY <1>1, <2>1, <2>2
<1> QED BY <1>4, <1>5 DEF g

(* Taking over a message makes no log recent that is without the entry.    *)
LEMMA MergedRecent ==
  ASSUME NEW l \in Seq(Entry), NEW n \in Seq(Entry), NEW m \in AppendEntries,
         NEW t \in Nat, NEW k \in Nat \ {0}, Holds(n, k, t), InOrder(LogOf(n)),
         t <= m.term => Follows(m, n, t, k), Within(m, m.term),
         HasPrev(l, m), NEW q \in 0..Len(m.entries), MatchesUpTo(l, m, q),
         Recent(Merged(l, m, q), t, k)
  PROVE  Recent(l, t, k) \/ (t <= m.term /\ k <= End(m))
<1> DEFINE g == Merged(l, m, q)
<1>1. /\ m.prevIdx \in Nat /\ Len(m.entries) \in Nat /\ Len(l) \in Nat /\ q \in Nat
      /\ m.term \in Nat /\ n \in Seq(Entry) /\ k \in 1..Len(n)
  BY LenProperties DEF AppendEntries, Holds
<1>2. /\ g \in Seq(Entry) /\ m.prevIdx + q <= Len(l)
      /\ \A p \in 1..m.prevIdx + q : g[p] = l[p]
      /\ \A p \in Nat : InRun(m, p) => p \in 1..Len(g) /\ g[p].term = TermIn(m, p)
      /\ q = Len(m.entries) => g = l
      /\ q # Len(m.entries) => Len(g) = m.prevIdx + Len(m.entries)
  BY MergedSays DEF End
<1> HIDE DEF g
<1>3. PICK p \in DOMAIN g : g[p].term > t \/ (g[p].term = t /\ k <= p)
  BY DEF Recent, g
<1>4. p \in 1..Len(g) /\ Len(g) \in Nat /\ g[p].term \in Nat
  <2>1. p \in 1..Len(g) /\ Len(g) \in Nat
    BY <1>2, LenProperties
  <2>2. g[p] \in Entry
    BY <1>2, <2>1, ElementOfSeq
  <2> QED BY <2>1, <2>2 DEF Entry
<1>5. CASE p <= m.prevIdx + q \/ q = Len(m.entries)
  <2>1. p \in DOMAIN l /\ l[p] = g[p]
    BY <1>1, <1>2, <1>4, <1>5
  <2> QED BY <1>3, <2>1 DEF Recent
<1>6. CASE m.prevIdx + q < p /\ q # Len(m.entries)
  <2>1. InRun(m, p) /\ p <= End(m) /\ p \in Nat
    BY <1>1, <1>2, <1>4, <1>6 DEF InRun, End
  <2>2. g[p].term = TermIn(m, p) /\ TermIn(m, p) <= m.term
    BY <1>2, <2>1 DEF Within
  <2>3. t <= m.term
    BY <1>1, <1>3, <1>4, <2>2
  <2>4. k <= p
    <3> SUFFICES ASSUME p < k PROVE FALSE
      BY <1>4
    <3>1. TermIn(m, p) = n[p].term
      BY <2>1, <2>3 DEF Follows
    <3>2. p \in 1..Len(n) /\ p \in Nat
      BY <1>1, <1>4
    <3>3. n[p].term <= n[k].term
      <4>1. /\ InRun(LogOf(n), p) /\ TermIn(LogOf(n), p) = n[p].term
            /\ InRun(LogOf(n), k) /\ TermIn(LogOf(n), k) = n[k].term
        BY <1>1, <3>2, LogRun
      <4> QED BY <3>2, <4>1 DEF InOrder
    <3> QED BY <1>3, <1>4, <2>2, <3>1, <3>3 DEF Holds
  <2>5. k <= End(m)
    BY <1>1, <2>1, <2>4 DEF End
  <2> QED BY <2>3, <2>5
<1> QED BY <1>1, <1>4, <1>5, <1>6

(* A part of a part is a part, and a log that only grew is a part of what  *)
(* it became.                                                              *)
LEMMA PartOfPart ==
  ASSUME NEW r, NEW s, NEW u, PartOf(r, s), PartOf(s, u)
  PROVE  PartOf(r, u)
BY DEF PartOf, Same

LEMMA GrownIsPart ==
  ASSUME NEW l \in Seq(Entry), NEW n \in Seq(Entry), Shares(l, n, Len(l))
  PROVE  PartOf(LogOf(l), LogOf(n))
<1> SUFFICES ASSUME NEW p \in Nat, InRun(LogOf(l), p)
             PROVE  /\ InRun(LogOf(n), p) /\ Same(LogOf(l), LogOf(n), p)
                    /\ p # LogOf(n).prevIdx
  BY DEF PartOf
<1>1. Len(l) \in Nat /\ Len(n) \in Nat /\ p \in 1..Len(l)
  BY LenProperties, LogRun
<1>2. p \in 1..Len(n) /\ n[p] = l[p]
  BY <1>1 DEF Shares
<1> QED BY <1>1, <1>2, LogRun DEF Same

-----------------------------------------------------------------------------
(* Terms, requests and answers *)

(* Terms in a log or a message do not decrease, and none is beyond the     *)
(* term of the vehicle or of the message.  A request for a vote, a vote    *)
(* and an acknowledgement are of no later term than their candidate's or   *)
(* sender's.  Of a candidate that has not given up since, the log still    *)
(* has what its requests say of it, and of a leader what it has sent.      *)
TermsInOrder == \A r \in Runs : InOrder(r)
TermsWithin == /\ \A x \in Server : Within(LogOf(log[x]), currentTerm[x])
               /\ \A n \in Of("AE") : Within(n, n.term)
RequestsWithin ==
  \A w \in Of("RV") :
    /\ w.term <= currentTerm[w.from]
    /\ w.term = currentTerm[w.from] /\ state[w.from] # "Follower" =>
         /\ w.lastIdx <= Len(log[w.from])
         /\ w.lastTerm = TermAt(log[w.from], w.lastIdx)
GrantsWithin == \A v \in Of("RVR") : v.granted => v.term <= currentTerm[v.to]
AcksWithin == \A a \in Of("AER") : a.success => a.term <= currentTerm[a.from]
SentWithin ==
  \A n \in Of("AE") :
    state[n.from] = "Leader" /\ currentTerm[n.from] = n.term =>
      PartOf(n, LogOf(log[n.from]))
OrderInv == /\ TermsInOrder /\ TermsWithin
            /\ RequestsWithin /\ GrantsWithin /\ AcksWithin /\ SentWithin

(* What a step does to a log: a leader appends an entry of its term, and a *)
(* follower that hears an AppendEntries deletes or takes over entries.     *)
Appends(x) ==
  /\ state[x] = "Leader" /\ state'[x] = "Leader" /\ currentTerm'[x] = currentTerm[x]
  /\ \E e \in Entry : e.term = currentTerm[x] /\ log'[x] = Append(log[x], e)
Hears(x, m) == /\ currentTerm[x] <= m.term
               /\ currentTerm'[x] = m.term /\ state'[x] = "Follower"
Deletes(x) ==
  \E m \in Of("AE") :
    /\ Hears(x, m) /\ m.prevIdx # 0 /\ ~HasPrev(log[x], m)
    /\ log'[x] = SubSeq(log[x], 1, Lower(m.prevIdx - 1, Len(log[x])))
Takes(x, m, k) == Hears(x, m) /\ HasPrev(log[x], m) /\ MatchesUpTo(log[x], m, k)
TakesOver(x) ==
  \E m \in Of("AE") : \E k \in 0..Len(m.entries) :
    Takes(x, m, k) /\ log'[x] = Merged(log[x], m, k)
LogsStep ==
  \A x \in Server : log'[x] = log[x] \/ Appends(x) \/ Deletes(x) \/ TakesOver(x)

(* What a step sends.  An acknowledgement covers what its sender now has   *)
(* of a message, up to where the log matches it.                           *)
RequestsStep ==
  \A w \in Of("RV")' : w \notin Of("RV") =>
    /\ w.from \in Server /\ w.term = currentTerm'[w.from]
    /\ w.lastIdx = Len(log'[w.from]) /\ w.lastTerm = LastTerm(log'[w.from])
GrantsStep ==
  \A v \in Of("RVR")' : v \notin Of("RVR") /\ v.granted =>
    \E w \in Of("RV") : /\ w.from = v.to /\ w.to = v.from /\ w.term = v.term
                        /\ UpToDate(log[v.from], w)
AcksStep ==
  \A a \in Of("AER")' : a \notin Of("AER") /\ a.success =>
    /\ a.from \in Server
    /\ \E m \in Of("AE") : \E k \in 0..Len(m.entries) :
         /\ Takes(a.from, m, k) /\ a.term = m.term
         /\ \/ log'[a.from] = Merged(log[a.from], m, k) /\ a.curIdx = End(m)
            \/ log'[a.from] = log[a.from] /\ a.curIdx = m.prevIdx + k
SendsStep ==
  \A n \in Of("AE")' : n \notin Of("AE") =>
    PartOf(n, LogOf(log'[n.from])) /\ n.leaderCommit <= commitIdx'[n.from]
MoveStep == LogsStep /\ RequestsStep /\ GrantsStep /\ AcksStep /\ SendsStep

LEMMA MessageTypes ==
  ASSUME TypeOK
  PROVE  /\ \A w \in Of("RV") : /\ w.from \in Server /\ w.to \in Server /\ w.term \in Nat
                                /\ w.lastIdx \in Nat /\ w.lastTerm \in Nat
         /\ \A v \in Of("RVR") : v.from \in Server /\ v.to \in Server /\ v.term \in Nat
         /\ \A n \in Of("AE") : /\ n.from \in Server /\ n.to \in Server /\ n.term \in Nat
                                /\ n.leaderCommit \in Nat
         /\ \A a \in Of("AER") : /\ a.from \in Server /\ a.to \in Server /\ a.term \in Nat
                                 /\ a.curIdx \in Nat
<1>1. \A m \in msgs : m \in Message
  BY DEF TypeOK
<1>2. \A w \in Of("RV") : w \in RequestVote
  BY <1>1, MessageFields DEF Of
<1>3. \A v \in Of("RVR") : v \in RequestVoteResponse
  BY <1>1, MessageFields DEF Of
<1>4. \A n \in Of("AE") : n \in AppendEntries
  BY <1>1, MessageFields DEF Of
<1>5. \A a \in Of("AER") : a \in AppendEntriesResponse
  BY <1>1, MessageFields DEF Of
<1>6. \A w \in Of("RV") : /\ w.from \in Server /\ w.to \in Server /\ w.term \in Nat
                          /\ w.lastIdx \in Nat /\ w.lastTerm \in Nat
  BY <1>2 DEF RequestVote
<1>7. \A v \in Of("RVR") : v.from \in Server /\ v.to \in Server /\ v.term \in Nat
  BY <1>3 DEF RequestVoteResponse
<1>8. \A n \in Of("AE") : /\ n.from \in Server /\ n.to \in Server /\ n.term \in Nat
                          /\ n.leaderCommit \in Nat
  BY <1>4 DEF AppendEntries
<1>9. \A a \in Of("AER") : /\ a.from \in Server /\ a.to \in Server /\ a.term \in Nat
                           /\ a.curIdx \in Nat
  BY <1>5 DEF AppendEntriesResponse
<1> QED BY <1>6, <1>7, <1>8, <1>9

(* Who is no follower after a step has the log it had, and perhaps more.   *)
LEMMA OnlyFollowersLose ==
  ASSUME TypeOK, LogsStep, NEW x \in Server, state'[x] # "Follower"
  PROVE  Shares(log[x], log'[x], Len(log[x]))
<1>1. log[x] \in Seq(Entry) /\ Len(log[x]) \in Nat
  BY LenProperties DEF TypeOK
<1>2. CASE log'[x] = log[x]
  BY <1>1, <1>2 DEF Shares
<1>3. CASE Appends(x)
  BY <1>1, <1>3, AppendedLog DEF Appends, Shares
<1> QED BY <1>2, <1>3 DEF LogsStep, Deletes, TakesOver, Takes, Hears

LEMMA LogInOrder ==
  ASSUME TypeOK, TypeOK', OrderInv, TermsMove, LogsStep, NEW x \in Server
  PROVE  InOrder(LogOf(log'[x])) /\ Within(LogOf(log'[x]), currentTerm'[x])
<1> DEFINE l == log[x]
<1>1. /\ l \in Seq(Entry) /\ Len(l) \in Nat
      /\ currentTerm[x] \in Nat /\ currentTerm'[x] \in Nat /\ currentTerm[x] <= currentTerm'[x]
  BY LenProperties DEF TypeOK, TermsMove
<1>2. InOrder(LogOf(l)) /\ Within(LogOf(l), currentTerm[x])
  BY DEF OrderInv, TermsInOrder, TermsWithin, Runs
<1>3. Within(LogOf(l), currentTerm'[x])
  <2> SUFFICES ASSUME NEW p \in Nat, InRun(LogOf(l), p)
               PROVE  TermIn(LogOf(l), p) <= currentTerm'[x]
    BY DEF Within
  <2>1. TermIn(LogOf(l), p) <= currentTerm[x]
    BY <1>2 DEF Within
  <2>2. TermIn(LogOf(l), p) \in Nat
    <3>1. IsRun(LogOf(l))
      BY RunsAreRuns DEF Runs
    <3> QED BY <3>1, TermInType
  <2> QED BY <1>1, <2>1, <2>2
<1>4. CASE log'[x] = l
  BY <1>2, <1>3, <1>4
<1>5. CASE Appends(x)
  <2>1. PICK e \in Entry : e.term = currentTerm[x] /\ log'[x] = Append(l, e)
    BY <1>5 DEF Appends
  <2> DEFINE n == Append(l, e)
  <2>2. /\ n \in Seq(Entry) /\ Len(n) = Len(l) + 1 /\ n[Len(l) + 1] = e
        /\ \A p \in 1..Len(l) : n[p] = l[p]
    BY <1>1, AppendedLog
  <2> HIDE DEF n
  <2>3. ASSUME NEW p \in Nat, InRun(LogOf(n), p)
        PROVE  \/ /\ p \in 1..Len(l) /\ InRun(LogOf(l), p)
                  /\ TermIn(LogOf(n), p) = TermIn(LogOf(l), p)
               \/ p = Len(l) + 1 /\ TermIn(LogOf(n), p) = currentTerm[x]
    <3>1. p \in 1..Len(n) /\ TermIn(LogOf(n), p) = n[p].term
      BY <2>2, <2>3, LogRun
    <3>2. CASE p = Len(l) + 1
      BY <2>1, <2>2, <3>1, <3>2
    <3>3. CASE p # Len(l) + 1
      <4>1. p \in 1..Len(l)
        BY <1>1, <2>2, <3>1, <3>3
      <4> QED BY <1>1, <2>2, <3>1, <4>1, LogRun
    <3> QED BY <3>2, <3>3
  <2>4. Within(LogOf(n), currentTerm[x])
    BY <1>1, <1>2, <2>3 DEF Within
  <2>5. InOrder(LogOf(n))
    <3> SUFFICES ASSUME NEW p \in Nat, NEW q \in Nat, p <= q,
                        InRun(LogOf(n), p), InRun(LogOf(n), q)
                 PROVE  TermIn(LogOf(n), p) <= TermIn(LogOf(n), q)
      BY DEF InOrder
    <3>1. CASE q = Len(l) + 1 /\ TermIn(LogOf(n), q) = currentTerm[x]
      BY <2>4, <3>1 DEF Within
    <3>2. CASE q \in 1..Len(l)
      <4>1. p # Len(l) + 1 /\ q # Len(l) + 1
        BY <1>1, <3>2
      <4> QED BY <1>2, <2>3, <4>1 DEF InOrder
    <3> QED BY <2>3, <3>1, <3>2
  <2>6. currentTerm'[x] = currentTerm[x]
    BY <1>5 DEF Appends
  <2> QED BY <2>1, <2>4, <2>5, <2>6 DEF n
<1>6. CASE Deletes(x)
  <2>1. PICK m \in Of("AE") : log'[x] = SubSeq(l, 1, Lower(m.prevIdx - 1, Len(l))) /\ m.prevIdx # 0
    BY <1>6 DEF Deletes
  <2>2. Lower(m.prevIdx - 1, Len(l)) \in 0..Len(l)
    <3>1. m.prevIdx \in Nat
      BY RunsAreRuns DEF AppendEntries
    <3> QED BY <1>1, <2>1, <3>1 DEF Lower
  <2>3. PartOf(LogOf(log'[x]), LogOf(l))
    BY <1>1, <2>1, <2>2, PrefixIsPart
  <2> QED BY <1>2, <1>3, <2>3, PartInOrder
<1>7. CASE TakesOver(x)
  <2>1. PICK m \in Of("AE") : \E k \in 0..Len(m.entries) :
          Takes(x, m, k) /\ log'[x] = Merged(l, m, k)
    BY <1>7 DEF TakesOver
  <2>2. PICK k \in 0..Len(m.entries) : Takes(x, m, k) /\ log'[x] = Merged(l, m, k)
    BY <2>1
  <2>3. m \in AppendEntries /\ InOrder(m) /\ Within(m, currentTerm'[x])
    BY <2>2, RunsAreRuns DEF OrderInv, TermsInOrder, TermsWithin, Runs, Takes, Hears
  <2> QED BY <1>1, <1>2, <1>3, <2>2, <2>3, MergedInOrder DEF Takes
<1> QED BY <1>4, <1>5, <1>6, <1>7 DEF LogsStep

LEMMA OrderStep ==
  ASSUME TypeOK, TypeOK', LogInv, OrderInv, GoodStep, MoveStep
  PROVE  OrderInv'
<1>1. /\ TermsMove /\ SendersStep /\ RolesStep
      /\ LogsStep /\ RequestsStep /\ GrantsStep /\ AcksStep /\ SendsStep
  BY DEF GoodStep, MoveStep
<1>2. \A x \in Server : InOrder(LogOf(log'[x])) /\ Within(LogOf(log'[x]), currentTerm'[x])
  BY <1>1, LogInOrder
<1>3. \A x \in Server : /\ currentTerm[x] \in Nat /\ currentTerm'[x] \in Nat
                        /\ currentTerm[x] <= currentTerm'[x]
  BY <1>1 DEF TypeOK, TermsMove
<1>4. \A x \in Server : log[x] \in Seq(Entry) /\ log'[x] \in Seq(Entry)
                        /\ Len(log[x]) \in Nat /\ Len(log'[x]) \in Nat
  BY LenProperties DEF TypeOK
<1>5. ASSUME NEW n \in Of("AE")', n \notin Of("AE")
      PROVE  /\ n.from \in Server /\ n.term = currentTerm'[n.from]
             /\ PartOf(n, LogOf(log'[n.from]))
  BY <1>1, <1>5 DEF SendersStep, SendsStep
<1>6. TermsInOrder'
  <2>1. \A n \in Of("AE")' : n \notin Of("AE") => InOrder(n)
    BY <1>2, <1>5, PartInOrder
  <2> QED BY <1>2, <2>1 DEF TermsInOrder, OrderInv, Runs
<1>7. TermsWithin'
  <2>1. \A n \in Of("AE")' : n \notin Of("AE") => Within(n, n.term)
    BY <1>2, <1>5, PartInOrder
  <2> QED BY <1>2, <2>1 DEF TermsWithin, OrderInv
<1>8. RequestsWithin'
  <2> SUFFICES ASSUME NEW w \in Of("RV")'
               PROVE  /\ w.term <= currentTerm'[w.from]
                      /\ w.term = currentTerm'[w.from] /\ state'[w.from] # "Follower" =>
                           /\ w.lastIdx <= Len(log'[w.from])
                           /\ w.lastTerm = TermAt(log'[w.from], w.lastIdx)
    BY DEF RequestsWithin
  <2>1. CASE w \notin Of("RV")
    BY <1>1, <1>3, <1>4, <2>1 DEF RequestsStep, LastTerm
  <2>2. CASE w \in Of("RV")
    <3>1. w.from \in Server /\ w.term \in Nat /\ w.lastIdx \in Nat
      BY <2>2, MessageTypes
    <3>2. w.term <= currentTerm[w.from]
      BY <2>2 DEF OrderInv, RequestsWithin
    <3>3. w.term <= currentTerm'[w.from]
      BY <1>3, <3>1, <3>2
    <3>4. ASSUME w.term = currentTerm'[w.from], state'[w.from] # "Follower"
          PROVE  /\ w.lastIdx <= Len(log'[w.from])
                 /\ w.lastTerm = TermAt(log'[w.from], w.lastIdx)
      <4>1. w.term = currentTerm[w.from]
        BY <1>3, <3>1, <3>2, <3>4
      <4>2. state[w.from] # "Follower"
        <5>1. state'[w.from] \in {"Candidate", "Leader"}
          BY <3>1, <3>4 DEF TypeOK
        <5>2. state'[w.from] = "Candidate" => state[w.from] = "Candidate"
          BY <1>1, <3>1, <3>4, <4>1 DEF TermsMove
        <5>3. state'[w.from] = "Leader" => state[w.from] \in {"Candidate", "Leader"}
          BY <1>1, <3>1 DEF RolesStep
        <5> QED BY <5>1, <5>2, <5>3
      <4>3. /\ w.lastIdx <= Len(log[w.from])
            /\ w.lastTerm = TermAt(log[w.from], w.lastIdx)
        BY <2>2, <4>1, <4>2 DEF OrderInv, RequestsWithin
      <4>4. Shares(log[w.from], log'[w.from], Len(log[w.from]))
        BY <1>1, <3>1, <3>4, OnlyFollowersLose
      <4>5. Len(log[w.from]) <= Len(log'[w.from])
        BY <4>4 DEF Shares
      <4>6. TermAt(log'[w.from], w.lastIdx) = TermAt(log[w.from], w.lastIdx)
        <5>1. CASE w.lastIdx = 0
          <6>1. w.lastIdx \notin 1..Len(log[w.from]) /\ w.lastIdx \notin 1..Len(log'[w.from])
            BY <5>1
          <6>2. DOMAIN log[w.from] = 1..Len(log[w.from]) /\ DOMAIN log'[w.from] = 1..Len(log'[w.from])
            BY <1>4, <3>1, LenProperties
          <6> QED BY <6>1, <6>2 DEF TermAt
        <5>2. CASE w.lastIdx # 0
          <6>1. w.lastIdx \in 1..Len(log[w.from]) /\ w.lastIdx \in 1..Len(log'[w.from])
            BY <1>4, <3>1, <4>3, <4>5, <5>2
          <6>2. DOMAIN log[w.from] = 1..Len(log[w.from]) /\ DOMAIN log'[w.from] = 1..Len(log'[w.from])
            BY <1>4, <3>1, LenProperties
          <6> QED BY <4>4, <6>1, <6>2 DEF TermAt, Shares
        <5> QED BY <5>1, <5>2
      <4> QED BY <1>4, <3>1, <4>3, <4>5, <4>6
    <3> QED BY <3>3, <3>4
  <2> QED BY <2>1, <2>2
<1>9. GrantsWithin'
  <2> SUFFICES ASSUME NEW v \in Of("RVR")', v.granted PROVE v.term <= currentTerm'[v.to]
    BY DEF GrantsWithin
  <2>1. CASE v \in Of("RVR")
    BY <1>3, <2>1, MessageTypes DEF OrderInv, GrantsWithin
  <2>2. CASE v \notin Of("RVR")
    <3>1. PICK w \in Of("RV") : w.from = v.to /\ w.term = v.term
      BY <1>1, <2>2 DEF GrantsStep
    <3>2. w.term <= currentTerm[w.from] /\ w.from \in Server /\ w.term \in Nat
      BY MessageTypes DEF OrderInv, RequestsWithin
    <3> QED BY <1>3, <3>1, <3>2
  <2> QED BY <2>1, <2>2
<1>10. AcksWithin'
  <2> SUFFICES ASSUME NEW a \in Of("AER")', a.success PROVE a.term <= currentTerm'[a.from]
    BY DEF AcksWithin
  <2>1. CASE a \in Of("AER")
    BY <1>3, <2>1, MessageTypes DEF OrderInv, AcksWithin
  <2>2. CASE a \notin Of("AER")
    BY <1>1, <1>3, <2>2 DEF AcksStep, Takes, Hears
  <2> QED BY <2>1, <2>2
<1>11. SentWithin'
  <2> SUFFICES ASSUME NEW n \in Of("AE")', state'[n.from] = "Leader", currentTerm'[n.from] = n.term
               PROVE  PartOf(n, LogOf(log'[n.from]))
    BY DEF SentWithin
  <2>1. CASE n \notin Of("AE")
    BY <1>5, <2>1
  <2>2. CASE n \in Of("AE")
    <3>1. n.from \in Server
      BY <2>2, MessageTypes
    <3>2. currentTerm[n.from] = n.term /\ state[n.from] \in {"Candidate", "Leader"}
      BY <1>1, <3>1 DEF RolesStep
    <3>3. state[n.from] # "Candidate"
      <4>1. Led(n.from, n.term)
        BY <2>2 DEF LogInv, SendersLed
      <4> QED BY <3>2, <4>1 DEF Led
    <3>4. PartOf(n, LogOf(log[n.from]))
      BY <2>2, <3>2, <3>3 DEF OrderInv, SentWithin
    <3>5. PartOf(LogOf(log[n.from]), LogOf(log'[n.from]))
      BY <1>1, <1>4, <3>1, OnlyFollowersLose, GrownIsPart
    <3> QED BY <3>4, <3>5, PartOfPart
  <2> QED BY <2>1, <2>2
<1> QED BY <1>6, <1>7, <1>8, <1>9, <1>10, <1>11 DEF OrderInv

-----------------------------------------------------------------------------
(* Entries that may still be committed *)

(* Who has the entry at index k of term t, that o led: o, and whoever      *)
(* acknowledged to o at least that much.                                   *)
Have(o, t, k) ==
  {o} \cup {q \in Server : \E a \in Of("AER") :
              a.success /\ a.from = q /\ a.term = t /\ k <= a.curIdx}

(* A majority is in later terms without it: it will never be acknowledged  *)
(* by a majority.                                                          *)
Blocked(o, t, k) ==
  \E Q \in Majorities(Server) : \A q \in Q : t < currentTerm[q] /\ q \notin Have(o, t, k)

(* The entry stands somewhere, and may still be committed in term t.       *)
Stands(t, k) == \E r \in Runs : InRun(r, k) /\ TermIn(r, k) = t
Open(o, t, k) == Led(o, t) /\ Stands(t, k) /\ ~Blocked(o, t, k)

(* x campaigns in a later term, or leads it, with the vote of a vehicle    *)
(* that has the entry.                                                     *)
Voted(x, o, t, k) ==
  /\ state[x] # "Follower" /\ t < currentTerm[x]
  /\ \E v \in Of("RVR") : /\ v.granted /\ v.to = x /\ v.term = currentTerm[x]
                          /\ v.from \in Have(o, t, k)

(* Such an entry is held by all that have it, by every log as recent as    *)
(* it, and by those that got the vote of a vehicle that has it; and what   *)
(* was sent in its term or a later one follows it.                         *)
Keeper(x, o, t, k) ==
  x \in Have(o, t, k) \/ Recent(log[x], t, k) \/ Voted(x, o, t, k)
KeepersHold(o, t, k) == \A x \in Server : Keeper(x, o, t, k) => Holds(log[x], k, t)
MessagesFollow(o, t, k) ==
  \A n \in Of("AE") : t <= n.term => Follows(n, log[o], t, k)
Safe(o, t, k) == KeepersHold(o, t, k) /\ MessagesFollow(o, t, k)
OpenSafe == \A o \in Server : \A t, k \in Nat : Open(o, t, k) => Safe(o, t, k)

(* Whoever comes to have the entry acknowledges it now, in its term.       *)
LEMMA HaveGrows ==
  ASSUME TermsMove, AcksStep, NEW o \in Server, NEW t \in Nat, NEW k \in Nat
  PROVE  /\ Have(o, t, k) \subseteq Have(o, t, k)'
         /\ \A q \in Server : q \in Have(o, t, k)' /\ q \notin Have(o, t, k) =>
              /\ currentTerm'[q] = t
              /\ \E a \in Of("AER")' : /\ a \notin Of("AER") /\ a.success
                                      /\ a.from = q /\ a.term = t /\ k <= a.curIdx
<1>1. Of("AER") \subseteq Of("AER")'
  BY DEF Of, TermsMove
<1>2. Have(o, t, k) \subseteq Have(o, t, k)'
  BY <1>1 DEF Have
<1>3. ASSUME NEW q \in Server, q \in Have(o, t, k)', q \notin Have(o, t, k)
      PROVE  /\ currentTerm'[q] = t
             /\ \E a \in Of("AER")' : /\ a \notin Of("AER") /\ a.success
                                     /\ a.from = q /\ a.term = t /\ k <= a.curIdx
  <2>1. PICK a \in Of("AER")' : a.success /\ a.from = q /\ a.term = t /\ k <= a.curIdx
    BY <1>3 DEF Have
  <2>2. a \notin Of("AER")
    BY <1>3, <2>1 DEF Have
  <2>3. currentTerm'[q] = t
    BY <2>1, <2>2 DEF AcksStep, Takes, Hears
  <2> QED BY <2>1, <2>2, <2>3
<1> QED BY <1>2, <1>3

(* Blocked entries stay blocked.                                           *)
LEMMA BlockedStays ==
  ASSUME TypeOK, TypeOK', TermsMove, AcksStep,
         NEW o \in Server, NEW t \in Nat, NEW k \in Nat, Blocked(o, t, k)
  PROVE  Blocked(o, t, k)'
<1>1. PICK Q \in Majorities(Server) :
        \A q \in Q : t < currentTerm[q] /\ q \notin Have(o, t, k)
  BY DEF Blocked
<1>2. ASSUME NEW q \in Q PROVE t < currentTerm'[q] /\ q \notin Have(o, t, k)'
  <2>1. q \in Server
    BY DEF Majorities
  <2>2. t < currentTerm'[q]
    BY <1>1, <2>1, SMTT(20) DEF TypeOK, TermsMove
  <2>3. currentTerm'[q] # t
    BY <2>1, <2>2 DEF TypeOK
  <2> QED BY <1>1, <2>1, <2>2, <2>3, HaveGrows
<1> QED BY <1>2 DEF Blocked

(* An entry that is open after a step was before, or is new.               *)
LEMMA OpenBefore ==
  ASSUME AtMostOneLeaves, TypeOK, TypeOK', ElectionInv', LogInv, TermsMove, AcksStep,
         NEW o \in Server, NEW t \in Nat, NEW k \in Nat, Open(o, t, k)'
  PROVE  ~Blocked(o, t, k) /\ (Stands(t, k) => Open(o, t, k))
<1>1. ~Blocked(o, t, k)
  BY BlockedStays DEF Open
<1>2. ASSUME Stands(t, k) PROVE Led(o, t)
  <2>1. PICK r \in Runs : InRun(r, k) /\ TermIn(r, k) = t
    BY <1>2 DEF Stands
  <2>2. PICK p \in Server : Led(p, t)
    BY <2>1 DEF LogInv, TermsLed
  <2>3. Led(p, t)'
    BY <2>2, LedKept
  <2>4. Led(o, t)'
    BY DEF Open
  <2> QED BY <2>2, <2>3, <2>4, LedOnceNext DEF ElectionInv
<1> QED BY <1>1, <1>2 DEF Open

(* Who is elected after t got the vote of a vehicle that has an entry of   *)
(* term t that is not blocked, or has it.                                  *)
LEMMA QuorumHas ==
  ASSUME MayLeave = {}, NEW x \in Server, NEW T \in Nat, NEW t \in Nat, t < T,
         NEW M, NEW ct \in [Server -> Nat], NEW H,
         \E A \in Views : \E Q \in Majorities(A) :
           x \in Q /\ \A j \in Q \ {x} : Granted(j, x, T) \in M,
         T <= ct[x], \A j \in Server : Granted(j, x, T) \in M => T <= ct[j],
         ~\E Q \in Majorities(Server) : \A q \in Q : t < ct[q] /\ q \notin H
  PROVE  \E q \in H : q = x \/ Granted(q, x, T) \in M
<1>1. PICK Q \in Majorities(Server) : x \in Q /\ \A j \in Q \ {x} : Granted(j, x, T) \in M
  BY DEF Views
<1>2. ASSUME NEW q \in Q PROVE t < ct[q]
  <2>1. q \in Server
    BY DEF Majorities
  <2>2. T <= ct[q]
    BY <1>1, <2>1
  <2> QED BY <2>1, <2>2
<1> QED BY <1>1, <1>2

LEMMA LeaderHolds ==
  ASSUME MayLeave = {}, TypeOK, ElectionInv,
         NEW o \in Server, NEW t \in Nat, NEW k \in Nat, KeepersHold(o, t, k), ~Blocked(o, t, k),
         NEW x \in Server, state[x] = "Leader", t < currentTerm[x]
  PROVE  Holds(log[x], k, t)
<1> DEFINE T == currentTerm[x]
<1>1. T \in Nat /\ currentTerm \in [Server -> Nat]
  BY DEF TypeOK
<1>2. \E A \in Views : \E Q \in Majorities(A) :
        x \in Q /\ \A j \in Q \ {x} : Granted(j, x, T) \in msgs
  BY DEF ElectionInv, LeadersElected, Elected
<1>3. \A j \in Server : Granted(j, x, T) \in msgs => T <= currentTerm[j]
  <2> SUFFICES ASSUME NEW j \in Server, Granted(j, x, T) \in msgs PROVE T <= currentTerm[j]
    OBVIOUS
  <2>1. Granted(j, x, T) \in Of("RVR")
    BY DEF Granted, Of
  <2> QED BY <2>1 DEF ElectionInv, GrantsBind, Granted
<1>4. ~\E Q \in Majorities(Server) : \A q \in Q : t < currentTerm[q] /\ q \notin Have(o, t, k)
  BY DEF Blocked
<1> HIDE DEF T
<1>5. T <= currentTerm[x] /\ t < T
  BY <1>1 DEF T
<1>6. PICK q \in Have(o, t, k) : q = x \/ Granted(q, x, T) \in msgs
  BY <1>1, <1>2, <1>3, <1>4, <1>5, QuorumHas, ZenonT(40)
<1>7. CASE q = x
  BY <1>6, <1>7 DEF KeepersHold, Keeper
<1>8. CASE Granted(q, x, T) \in msgs
  <2>1. /\ Granted(q, x, T) \in Of("RVR")
        /\ Granted(q, x, T).granted /\ Granted(q, x, T).to = x
        /\ Granted(q, x, T).term = T /\ Granted(q, x, T).from = q
    BY <1>8 DEF Granted, Of
  <2>2. Voted(x, o, t, k)
    BY <1>6, <2>1 DEF Voted, T
  <2> QED BY <2>2 DEF KeepersHold, Keeper
<1> QED BY <1>6, <1>7, <1>8

LEMMA LeaderHoldsNext ==
  ASSUME MayLeave = {}, TypeOK', ElectionInv',
         NEW o \in Server, NEW t \in Nat, NEW k \in Nat, KeepersHold(o, t, k)', ~Blocked(o, t, k)',
         NEW x \in Server, state'[x] = "Leader", t < currentTerm'[x]
  PROVE  Holds(log'[x], k, t)
<1> DEFINE T == currentTerm'[x]
<1>1. T \in Nat /\ currentTerm' \in [Server -> Nat]
  BY DEF TypeOK
<1>2. \E A \in Views : \E Q \in Majorities(A) :
        x \in Q /\ \A j \in Q \ {x} : Granted(j, x, T) \in msgs'
  BY DEF ElectionInv, LeadersElected, Elected
<1>3. \A j \in Server : Granted(j, x, T) \in msgs' => T <= currentTerm'[j]
  <2> SUFFICES ASSUME NEW j \in Server, Granted(j, x, T) \in msgs' PROVE T <= currentTerm'[j]
    OBVIOUS
  <2>1. Granted(j, x, T) \in Of("RVR")'
    BY DEF Granted, Of
  <2> QED BY <2>1 DEF ElectionInv, GrantsBind, Granted
<1>4. ~\E Q \in Majorities(Server) : \A q \in Q : t < currentTerm'[q] /\ q \notin Have(o, t, k)'
  BY DEF Blocked
<1> HIDE DEF T
<1>5. T <= currentTerm'[x] /\ t < T
  BY <1>1 DEF T
<1> DEFINE H == Have(o, t, k)'
<1>6. \E q \in H : q = x \/ Granted(q, x, T) \in msgs'
  <2> HIDE DEF H
  <2>1. ~\E Q \in Majorities(Server) : \A q \in Q : t < currentTerm'[q] /\ q \notin H
    BY <1>4 DEF H
  <2> QED BY <1>1, <1>2, <1>3, <1>5, <2>1, QuorumHas
<1>7. PICK q : q \in Have(o, t, k)' /\ (q = x \/ Granted(q, x, T) \in msgs')
  BY <1>6
<1>8. CASE q = x
  BY <1>7, <1>8 DEF KeepersHold, Keeper
<1>9. CASE Granted(q, x, T) \in msgs'
  <2>1. /\ Granted(q, x, T) \in Of("RVR")'
        /\ Granted(q, x, T).granted /\ Granted(q, x, T).to = x
        /\ Granted(q, x, T).term = T /\ Granted(q, x, T).from = q
    BY <1>9 DEF Granted, Of
  <2>2. Voted(x, o, t, k)'
    BY <1>7, <2>1 DEF Voted, T
  <2> QED BY <2>2 DEF KeepersHold, Keeper
<1> QED BY <1>7, <1>8, <1>9

(* Runs agree, so logs that hold the entry share all there is before it.   *)
LEMMA LogsShare ==
  ASSUME TypeOK, LogInv, NEW x \in Server, NEW y \in Server, NEW t, NEW k \in Nat,
         Holds(log[x], k, t), Holds(log[y], k, t)
  PROVE  Shares(log[x], log[y], k)
<1>1. Agree(LogOf(log[x]), LogOf(log[y]))
  BY DEF LogInv, RunsAgree, Runs
<1>2. log[x] \in Seq(Entry) /\ log[y] \in Seq(Entry)
  BY DEF TypeOK
<1> QED BY <1>1, <1>2, HoldersShare

LEMMA LogsShareNext ==
  ASSUME TypeOK', LogInv', NEW x \in Server, NEW y \in Server, NEW t, NEW k \in Nat,
         Holds(log'[x], k, t), Holds(log'[y], k, t)
  PROVE  Shares(log'[x], log'[y], k)
<1>1. Agree(LogOf(log'[x]), LogOf(log'[y]))
  BY DEF LogInv, RunsAgree, Runs
<1>2. log'[x] \in Seq(Entry) /\ log'[y] \in Seq(Entry)
  BY DEF TypeOK
<1> QED BY <1>1, <1>2, HoldersShare

(* Who holds a safe entry is in its term or a later one, so that what it   *)
(* hears follows the entry.                                                *)
LEMMA HeardFollows ==
  ASSUME TypeOK, OrderInv, NEW o \in Server, NEW t \in Nat, NEW k \in Nat,
         MessagesFollow(o, t, k), NEW x \in Server, Holds(log[x], k, t),
         NEW m \in Of("AE"), Hears(x, m)
  PROVE  t <= m.term /\ Follows(m, log[o], t, k)
<1>1. k \in 1..Len(log[x]) /\ log[x] \in Seq(Entry)
  BY LenProperties DEF Holds, TypeOK
<1>2. TermIn(LogOf(log[x]), k) = t /\ InRun(LogOf(log[x]), k)
  BY <1>1, LogRun DEF Holds
<1>3. t <= currentTerm[x]
  BY <1>2 DEF OrderInv, TermsWithin, Within
<1>4. currentTerm[x] \in Nat /\ m.term \in Nat
  BY MessageTypes DEF TypeOK
<1>5. t <= m.term
  BY <1>3, <1>4 DEF Hears
<1> QED BY <1>5 DEF MessagesFollow

(* Nobody loses a safe entry.                                              *)
LEMMA EntryKept ==
  ASSUME TypeOK, TypeOK', LogInv, OrderInv, LogsStep,
         NEW o \in Server, NEW t \in Nat, NEW k \in Nat, Safe(o, t, k),
         NEW x \in Server, Holds(log[x], k, t)
  PROVE  Shares(log[x], log'[x], k) /\ Holds(log'[x], k, t)
<1>1. o \in Have(o, t, k)
  BY DEF Have
<1>2. Holds(log[o], k, t)
  BY <1>1 DEF Safe, KeepersHold, Keeper
<1>3. Shares(log[x], log[o], k)
  BY <1>2, LogsShare
<1>4. /\ log[x] \in Seq(Entry) /\ log[o] \in Seq(Entry)
      /\ Len(log[x]) \in Nat /\ k \in 1..Len(log[x])
  BY LenProperties DEF TypeOK, Holds
<1> SUFFICES Shares(log[x], log'[x], k)
  <2>1. Shares(log[x], log'[x], k) => log'[x][k] = log[x][k] /\ k <= Len(log'[x])
    BY <1>4 DEF Shares
  <2>2. Len(log'[x]) \in Nat /\ DOMAIN log'[x] = 1..Len(log'[x])
    BY LenProperties DEF TypeOK
  <2> QED BY <1>4, <2>1, <2>2 DEF Holds
<1>5. CASE log'[x] = log[x]
  BY <1>4, <1>5 DEF Shares
<1>6. CASE Appends(x)
  <2>1. PICK e \in Entry : log'[x] = Append(log[x], e)
    BY <1>6 DEF Appends
  <2>2. /\ Len(log'[x]) = Len(log[x]) + 1
        /\ \A p \in 1..Len(log[x]) : log'[x][p] = log[x][p]
    BY <1>4, <2>1, AppendedLog
  <2> QED BY <1>4, <2>2 DEF Shares
<1>7. CASE Deletes(x)
  <2>1. PICK m \in Of("AE") :
          /\ Hears(x, m) /\ m.prevIdx # 0 /\ ~HasPrev(log[x], m)
          /\ log'[x] = SubSeq(log[x], 1, Lower(m.prevIdx - 1, Len(log[x])))
    BY <1>7 DEF Deletes
  <2>2. Follows(m, log[o], t, k) /\ m \in AppendEntries
    BY <2>1, HeardFollows, RunsAreRuns DEF Safe
  <2> QED BY <1>3, <1>4, <2>1, <2>2, DeleteKeeps
<1>8. CASE TakesOver(x)
  <2>1. PICK m \in Of("AE") : \E q \in 0..Len(m.entries) :
          Takes(x, m, q) /\ log'[x] = Merged(log[x], m, q)
    BY <1>8 DEF TakesOver
  <2>2. PICK q \in 0..Len(m.entries) : Takes(x, m, q) /\ log'[x] = Merged(log[x], m, q)
    BY <2>1
  <2>3. Follows(m, log[o], t, k) /\ m \in AppendEntries
    BY <2>2, HeardFollows, RunsAreRuns DEF Safe, Takes
  <2> QED BY <1>3, <1>4, <2>2, <2>3, MergeKeeps DEF Takes
<1> QED BY <1>5, <1>6, <1>7, <1>8 DEF LogsStep

(* A log as recent as one that holds the entry, for __should_grant_vote.   *)
LEMMA UpToDateRecent ==
  ASSUME NEW l \in Seq(Entry), NEW n \in Seq(Entry), NEW t \in Nat, NEW k \in Nat,
         Holds(l, k, t), InOrder(LogOf(l)), NEW w, w.lastIdx \in Nat,
         w.lastIdx <= Len(n), w.lastTerm = TermAt(n, w.lastIdx), UpToDate(l, w)
  PROVE  Recent(n, t, k)
<1> DEFINE e == Len(l)
<1>1. /\ e \in Nat /\ Len(n) \in Nat /\ DOMAIN l = 1..e /\ DOMAIN n = 1..Len(n)
      /\ k \in 1..e /\ e \in 1..e
  BY LenProperties DEF Holds
<1>2. t <= l[e].term /\ LastTerm(l) = l[e].term
  <2>1. InRun(LogOf(l), k) /\ InRun(LogOf(l), e)
    BY <1>1, LogRun
  <2>2. TermIn(LogOf(l), k) = t /\ TermIn(LogOf(l), e) = l[e].term
    BY <1>1, LogRun DEF Holds
  <2> QED BY <1>1, <2>1, <2>2 DEF InOrder, LastTerm, TermAt
<1>3. l[e].term \in Nat
  <2>1. l[e] \in Entry
    BY <1>1, ElementOfSeq
  <2> QED BY <2>1 DEF Entry
<1>4. l[e].term < w.lastTerm \/ (l[e].term = w.lastTerm /\ e <= w.lastIdx)
  BY <1>1, <1>2 DEF UpToDate
<1>5. w.lastIdx \in DOMAIN n
  BY <1>1, <1>3, <1>4 DEF TermAt
<1>6. n[w.lastIdx].term = w.lastTerm /\ n[w.lastIdx] \in Entry
  BY <1>1, <1>5, ElementOfSeq DEF TermAt
<1>7. w.lastTerm \in Nat
  BY <1>6 DEF Entry
<1> HIDE DEF e
<1>8. w.lastTerm > t \/ (w.lastTerm = t /\ k <= w.lastIdx)
  BY <1>1, <1>2, <1>3, <1>4, <1>7
<1> QED BY <1>5, <1>6, <1>8 DEF Recent

(* Who has the entry holds it after the step, also who has it only now.    *)
LEMMA HaveHolds ==
  ASSUME TypeOK, TypeOK', LogInv, OrderInv, TermsMove, LogsStep, AcksStep,
         NEW o \in Server, NEW t \in Nat, NEW k \in Nat, Safe(o, t, k),
         NEW x \in Server, x \in Have(o, t, k)'
  PROVE  Holds(log'[x], k, t)
<1>1. Holds(log[o], k, t)
  BY DEF Safe, KeepersHold, Keeper, Have
<1>2. /\ log[o] \in Seq(Entry) /\ log[x] \in Seq(Entry) /\ k \in Nat \ {0}
  <2>1. log[o] \in Seq(Entry) /\ log[x] \in Seq(Entry)
    BY DEF TypeOK
  <2>2. k \in 1..Len(log[o])
    BY <1>1, <2>1, LenProperties DEF Holds
  <2> QED BY <2>1, <2>2
<1>3. CASE x \in Have(o, t, k)
  <2>1. Holds(log[x], k, t)
    BY <1>3 DEF Safe, KeepersHold, Keeper
  <2> QED BY <2>1, EntryKept
<1>4. CASE x \notin Have(o, t, k)
  <2>1. PICK a \in Of("AER")' : /\ a \notin Of("AER") /\ a.success
                                /\ a.from = x /\ a.term = t /\ k <= a.curIdx
    BY <1>4, HaveGrows
  <2>2. PICK m \in Of("AE") : \E q \in 0..Len(m.entries) :
          /\ Takes(x, m, q) /\ t = m.term
          /\ \/ log'[x] = Merged(log[x], m, q) /\ a.curIdx = End(m)
             \/ log'[x] = log[x] /\ a.curIdx = m.prevIdx + q
    BY <2>1 DEF AcksStep
  <2>3. PICK q \in 0..Len(m.entries) :
          /\ Takes(x, m, q) /\ t = m.term
          /\ \/ log'[x] = Merged(log[x], m, q) /\ a.curIdx = End(m)
             \/ log'[x] = log[x] /\ a.curIdx = m.prevIdx + q
    BY <2>2
  <2>4. Follows(m, log[o], t, k) /\ m \in AppendEntries
    BY <2>3, RunsAreRuns DEF Safe, MessagesFollow
  <2>5. Recent(log[x], t, k) => Holds(log[x], k, t)
    BY DEF Safe, KeepersHold, Keeper
  <2>6. /\ k <= m.prevIdx + q => Holds(log[x], k, t)
        /\ k <= End(m) => Holds(Merged(log[x], m, q), k, t)
    BY <1>1, <1>2, <2>3, <2>4, <2>5, MatchedHolds DEF Takes
  <2> QED BY <2>1, <2>3, <2>6
<1> QED BY <1>3, <1>4

(* A log that is as recent as the entry after the step holds it.           *)
LEMMA RecentHolds ==
  ASSUME MayLeave = {}, AtMostOneLeaves, TypeOK, TypeOK', ElectionInv, LogInv, OrderInv,
         TermsMove, LogsStep,
         NEW o \in Server, NEW t \in Nat, NEW k \in Nat, Led(o, t), ~Blocked(o, t, k),
         Safe(o, t, k), NEW x \in Server, Recent(log'[x], t, k)
  PROVE  Holds(log'[x], k, t)
<1> DEFINE l == log[x]
<1>1. Holds(log[o], k, t)
  BY DEF Safe, KeepersHold, Keeper, Have
<1>2. /\ log[o] \in Seq(Entry) /\ l \in Seq(Entry) /\ k \in Nat \ {0}
      /\ Len(l) \in Nat /\ DOMAIN l = 1..Len(l)
  <2>1. log[o] \in Seq(Entry) /\ log[x] \in Seq(Entry)
    BY DEF TypeOK
  <2>2. k \in 1..Len(log[o])
    BY <1>1, <2>1, LenProperties DEF Holds
  <2> QED BY <2>1, <2>2, LenProperties
<1>3. Recent(l, t, k) => Holds(l, k, t)
  BY DEF Safe, KeepersHold, Keeper
<1>4. Holds(l, k, t) => Holds(log'[x], k, t)
  BY EntryKept
<1>5. CASE log'[x] = l
  BY <1>3, <1>5
<1>6. CASE Appends(x)
  <2>1. PICK e \in Entry : e.term = currentTerm[x] /\ log'[x] = Append(l, e)
    BY <1>6 DEF Appends
  <2>2. /\ Len(log'[x]) = Len(l) + 1 /\ log'[x][Len(l) + 1] = e
        /\ \A p \in 1..Len(l) : log'[x][p] = l[p]
    BY <1>2, <2>1, AppendedLog
  <2>3. PICK p \in DOMAIN log'[x] :
          log'[x][p].term > t \/ (log'[x][p].term = t /\ k <= p)
    BY DEF Recent
  <2>4. p \in 1..Len(log'[x])
    BY <2>3, LenProperties DEF TypeOK
  <2>5. CASE p \in 1..Len(l)
    BY <1>2, <1>3, <1>4, <2>2, <2>3, <2>5 DEF Recent
  <2>6. CASE p = Len(l) + 1
    <3>1. currentTerm[x] > t \/ currentTerm[x] = t
      BY <2>1, <2>2, <2>3, <2>6
    <3>2. state[x] = "Leader"
      BY <1>6 DEF Appends
    <3>3. CASE currentTerm[x] > t
      BY <1>4, <3>2, <3>3, LeaderHolds DEF Safe
    <3>4. CASE currentTerm[x] = t
      <4>1. x = o
        BY <3>2, <3>4, LeaderLed, LedOnce DEF ElectionInv
      <4> QED BY <1>1, <1>4, <4>1
    <3> QED BY <3>1, <3>3, <3>4
  <2> QED BY <1>2, <2>2, <2>4, <2>5, <2>6
<1>7. CASE Deletes(x)
  <2>1. PICK m \in Of("AE") : m.prevIdx # 0 /\ log'[x] = SubSeq(l, 1, Lower(m.prevIdx - 1, Len(l)))
    BY <1>7 DEF Deletes
  <2> DEFINE n == Lower(m.prevIdx - 1, Len(l))
  <2>2. n \in 0..Len(l)
    <3>1. m.prevIdx \in Nat
      BY RunsAreRuns DEF AppendEntries
    <3> QED BY <1>2, <2>1, <3>1 DEF Lower
  <2>3. log'[x] = SubSeq(l, 1, n)
    BY <2>1
  <2> HIDE DEF n
  <2>4. Len(log'[x]) = n /\ \A p \in 1..n : log'[x][p] = l[p]
    BY <1>2, <2>2, <2>3, DeletedLog
  <2>5. DOMAIN log'[x] = 1..n /\ 1..n \subseteq DOMAIN l
    BY <1>2, <2>2, <2>4, LenProperties DEF TypeOK
  <2>6. Recent(l, t, k)
    BY <2>4, <2>5 DEF Recent
  <2> QED BY <1>3, <1>4, <2>6
<1>8. CASE TakesOver(x)
  <2>1. PICK m \in Of("AE") : \E q \in 0..Len(m.entries) :
          Takes(x, m, q) /\ log'[x] = Merged(l, m, q)
    BY <1>8 DEF TakesOver
  <2>2. PICK q \in 0..Len(m.entries) : Takes(x, m, q) /\ log'[x] = Merged(l, m, q)
    BY <2>1
  <2>3. /\ t <= m.term => Follows(m, log[o], t, k)
        /\ m \in AppendEntries /\ Within(m, m.term) /\ InOrder(LogOf(log[o]))
    BY RunsAreRuns DEF Safe, MessagesFollow, OrderInv, TermsWithin, TermsInOrder, Runs
  <2>4. HasPrev(l, m) /\ MatchesUpTo(l, m, q) /\ Recent(Merged(l, m, q), t, k)
    BY <2>2 DEF Takes
  <2>5. Recent(l, t, k) \/ (t <= m.term /\ k <= End(m))
    BY <1>1, <1>2, <2>3, <2>4, MergedRecent
  <2>6. CASE t <= m.term /\ k <= End(m)
    <3>1. Holds(Merged(l, m, q), k, t)
      BY <1>1, <1>2, <1>3, <2>3, <2>4, <2>6, MatchedHolds
    <3> QED BY <2>2, <3>1
  <2> QED BY <1>3, <1>4, <2>5, <2>6
<1> QED BY <1>5, <1>6, <1>7, <1>8 DEF LogsStep

(* Who has the vote, after the step, of a vehicle that has the entry holds *)
(* it.                                                                     *)
LEMMA VotedHolds ==
  ASSUME TypeOK, TypeOK', ElectionInv', LogInv, OrderInv,
         TermsMove, RolesStep, LogsStep, GrantsStep, AcksStep,
         NEW o \in Server, NEW t \in Nat, NEW k \in Nat, Safe(o, t, k),
         NEW x \in Server, Voted(x, o, t, k)'
  PROVE  Holds(log'[x], k, t)
<1>1. PICK v \in Of("RVR")' : /\ v.granted /\ v.to = x /\ v.term = currentTerm'[x]
                              /\ v.from \in Have(o, t, k)'
  BY DEF Voted
<1>2. /\ state'[x] # "Follower" /\ t < currentTerm'[x]
      /\ currentTerm[x] \in Nat /\ currentTerm'[x] \in Nat /\ currentTerm[x] <= currentTerm'[x]
  BY DEF Voted, TypeOK, TermsMove
<1>3. v.from \in Server
  <2>1. v \in Message
    BY DEF TypeOK, Of
  <2> QED BY <2>1, MessageFields DEF Of, RequestVoteResponse
<1>4. v.from \in Have(o, t, k)
  <2>1. v.term <= currentTerm'[v.from]
    BY <1>1 DEF ElectionInv, GrantsBind
  <2>2. currentTerm'[v.from] # t
    <3>1. currentTerm'[v.from] \in Nat
      BY <1>3 DEF TypeOK
    <3>2. v.term = currentTerm'[x]
      BY <1>1
    <3> QED BY <1>2, <2>1, <3>1, <3>2
  <2>3. v.from \in Have(o, t, k)' /\ v.from \notin Have(o, t, k) => currentTerm'[v.from] = t
    BY <1>3, HaveGrows
  <2> QED BY <1>1, <2>2, <2>3
<1>5. currentTerm'[x] = currentTerm[x] => state[x] # "Follower"
  <2>1. state'[x] \in {"Candidate", "Leader"}
    BY <1>2 DEF TypeOK
  <2>2. currentTerm'[x] = currentTerm[x] /\ state'[x] = "Candidate" => state[x] = "Candidate"
    BY DEF TermsMove
  <2>3. state'[x] = "Leader" => state[x] \in {"Candidate", "Leader"}
    BY DEF RolesStep
  <2> QED BY <2>1, <2>2, <2>3
<1> SUFFICES Holds(log[x], k, t)
  BY EntryKept
<1>6. CASE v \in Of("RVR")
  <2>1. v.term <= currentTerm[x]
    BY <1>1, <1>6 DEF OrderInv, GrantsWithin
  <2>2. currentTerm'[x] = currentTerm[x]
    BY <1>1, <1>2, <2>1
  <2>3. Voted(x, o, t, k)
    BY <1>1, <1>2, <1>4, <1>5, <1>6, <2>2 DEF Voted
  <2> QED BY <2>3 DEF Safe, KeepersHold, Keeper
<1>7. CASE v \notin Of("RVR")
  <2>1. PICK w \in Of("RV") : /\ w.from = x /\ w.term = currentTerm'[x]
                              /\ UpToDate(log[v.from], w)
    BY <1>1, <1>7 DEF GrantsStep
  <2>2. w.term <= currentTerm[x]
    BY <2>1 DEF OrderInv, RequestsWithin
  <2>3. currentTerm'[x] = currentTerm[x]
    BY <1>2, <2>1, <2>2
  <2>4. w.lastIdx <= Len(log[x]) /\ w.lastTerm = TermAt(log[x], w.lastIdx)
    BY <1>5, <2>1, <2>3 DEF OrderInv, RequestsWithin
  <2>5. Holds(log[v.from], k, t)
    BY <1>3, <1>4 DEF Safe, KeepersHold, Keeper
  <2>6. log[x] \in Seq(Entry) /\ log[v.from] \in Seq(Entry) /\ InOrder(LogOf(log[v.from]))
    BY <1>3 DEF TypeOK, OrderInv, TermsInOrder, Runs
  <2>7. w.lastIdx \in Nat
    BY MessageTypes
  <2>8. Recent(log[x], t, k)
    BY <2>1, <2>4, <2>5, <2>6, <2>7, UpToDateRecent
  <2> QED BY <2>8 DEF Safe, KeepersHold, Keeper
<1> QED BY <1>6, <1>7

(* What is under way after the step follows the entry.                     *)
LEMMA SentFollows ==
  ASSUME MayLeave = {}, AtMostOneLeaves, TypeOK, TypeOK', ElectionInv', LogInv, LogInv',
         OrderInv, OrderInv', TermsMove, LogsStep, SendersStep, SendsStep,
         NEW o \in Server, NEW t \in Nat, NEW k \in Nat, Led(o, t), ~Blocked(o, t, k)',
         Safe(o, t, k), KeepersHold(o, t, k)'
  PROVE  MessagesFollow(o, t, k)'
<1> SUFFICES ASSUME NEW n \in Of("AE")', t <= n.term PROVE Follows(n, log'[o], t, k)
  BY DEF MessagesFollow
<1>1. Holds(log[o], k, t)
  BY DEF Safe, KeepersHold, Keeper, Have
<1>2. Shares(log[o], log'[o], k) /\ Holds(log'[o], k, t)
  BY <1>1, EntryKept
<1>3. CASE n \in Of("AE")
  <2>1. Follows(n, log[o], t, k)
    BY <1>3 DEF Safe, MessagesFollow
  <2> QED BY <1>2, <2>1, FollowsShared
<1>4. CASE n \notin Of("AE")
  <2> DEFINE i == n.from
  <2>1. /\ i \in Server /\ state'[i] = "Leader" /\ n.term = currentTerm'[i]
        /\ PartOf(n, LogOf(log'[i]))
    BY <1>4 DEF SendersStep, SendsStep
  <2> HIDE DEF i
  <2>2. Holds(log'[i], k, t)
    <3>1. CASE t < currentTerm'[i]
      BY <2>1, <3>1, LeaderHoldsNext
    <3>2. CASE t = currentTerm'[i]
      <4>1. Led(i, t)'
        BY <2>1, <3>2, LeaderLedNext
      <4>2. Led(o, t)'
        BY LedKept
      <4>3. i = o
        BY <2>1, <4>1, <4>2, LedOnceNext DEF ElectionInv
      <4> QED BY <1>2, <4>3
    <3>3. currentTerm'[i] \in Nat
      BY <2>1 DEF TypeOK
    <3> QED BY <2>1, <3>1, <3>2, <3>3
  <2>3. Shares(log'[i], log'[o], k)
    BY <1>2, <2>1, <2>2, LogsShareNext
  <2>4. log'[i] \in Seq(Entry) /\ log'[o] \in Seq(Entry) /\ InOrder(LogOf(log'[i]))
    BY <2>1 DEF TypeOK, OrderInv, TermsInOrder, Runs
  <2>5. Follows(LogOf(log'[i]), log'[o], t, k)
    BY <2>2, <2>3, <2>4, HolderFollows
  <2> QED BY <2>1, <2>5, PartFollows
<1> QED BY <1>3, <1>4

(* What was safe stays safe for as long as it may be committed.            *)
LEMMA SafeStep ==
  ASSUME MayLeave = {}, AtMostOneLeaves, TypeOK, TypeOK', ElectionInv, ElectionInv',
         LogInv, LogInv', OrderInv, OrderInv', GoodStep, MoveStep,
         NEW o \in Server, NEW t \in Nat, NEW k \in Nat,
         Led(o, t), ~Blocked(o, t, k), ~Blocked(o, t, k)', Safe(o, t, k)
  PROVE  Safe(o, t, k)'
<1>1. /\ TermsMove /\ SendersStep /\ RolesStep
      /\ LogsStep /\ GrantsStep /\ AcksStep /\ SendsStep
  BY DEF GoodStep, MoveStep
<1>2. KeepersHold(o, t, k)'
  <2> SUFFICES ASSUME NEW x \in Server,
                      x \in Have(o, t, k)' \/ Recent(log'[x], t, k) \/ Voted(x, o, t, k)'
               PROVE  Holds(log'[x], k, t)
    BY DEF KeepersHold, Keeper
  <2> QED BY <1>1, HaveHolds, RecentHolds, VotedHolds
<1>3. MessagesFollow(o, t, k)'
  BY <1>1, <1>2, SentFollows
<1> QED BY <1>2, <1>3 DEF Safe

(* While nobody but its leader has an entry and the leader is in its term, *)
(* a later term that was led blocks the entry.                             *)
LEMMA LaterTermBlocks ==
  ASSUME MayLeave = {}, TypeOK', ElectionInv',
         NEW o \in Server, NEW t \in Nat, NEW k \in Nat,
         currentTerm'[o] = t, Have(o, t, k)' = {o},
         NEW p \in Server, NEW T \in Nat, t < T, Led(p, T)'
  PROVE  Blocked(o, t, k)'
<1>1. PICK A \in Views : \E Q \in Majorities(A) :
        p \in Q /\ \A j \in Q \ {p} : Granted(j, p, T) \in msgs'
  BY DEF Led, Elected
<1>2. PICK Q \in Majorities(Server) : p \in Q /\ \A j \in Q \ {p} : Granted(j, p, T) \in msgs'
  BY <1>1 DEF Views
<1>3. ASSUME NEW q \in Q PROVE t < currentTerm'[q] /\ q # o
  <2>1. q \in Server
    BY DEF Majorities
  <2>2. currentTerm'[q] \in Nat /\ currentTerm'[o] \in Nat
    BY <2>1 DEF TypeOK
  <2>3. T <= currentTerm'[q]
    <3>1. CASE q = p
      BY <3>1 DEF Led
    <3>2. CASE q # p
      <4>1. Granted(q, p, T) \in Of("RVR")'
        BY <1>2, <3>2 DEF Granted, Of
      <4> QED BY <4>1 DEF ElectionInv, GrantsBind, Granted
    <3> QED BY <3>1, <3>2
  <2> QED BY <2>2, <2>3
<1> QED BY <1>3 DEF Blocked

(* An entry that stands nowhere before the step is one its leader appends. *)
LEMMA FreshAppended ==
  ASSUME AtMostOneLeaves, TypeOK, TypeOK', ElectionInv', SpotsStep, LogsStep,
         NEW o \in Server, NEW t \in Nat, NEW k \in Nat, Led(o, t)',
         ~Stands(t, k), Stands(t, k)'
  PROVE  /\ state[o] = "Leader" /\ currentTerm[o] = t
         /\ state'[o] = "Leader" /\ currentTerm'[o] = t
         /\ k = Len(log[o]) + 1 /\ k = Len(log'[o]) /\ Holds(log'[o], k, t)
<1>1. PICK r \in Runs' : InRun(r, k) /\ TermIn(r, k) = t
  BY DEF Stands
<1>2. PICK j \in Server : /\ state'[j] = "Leader" /\ t = currentTerm'[j]
                          /\ Len(log[j]) < k /\ k <= Len(log'[j])
  BY <1>1 DEF SpotsStep, Stands
<1>3. log[j] \in Seq(Entry) /\ log'[j] \in Seq(Entry)
  BY DEF TypeOK
<1>4. Len(log[j]) \in Nat /\ DOMAIN log'[j] = 1..Len(log'[j])
  BY <1>3, LenProperties
<1>5. log'[j] # log[j]
  BY <1>2, <1>4
<1>6. Appends(j)
  BY <1>2, <1>5 DEF LogsStep, Deletes, TakesOver, Takes, Hears
<1>7. PICK e \in Entry : e.term = currentTerm[j] /\ log'[j] = Append(log[j], e)
  BY <1>6 DEF Appends
<1>8. Len(log'[j]) = Len(log[j]) + 1 /\ log'[j][Len(log[j]) + 1] = e
  BY <1>3, <1>7, AppendedLog
<1>9. k = Len(log[j]) + 1
  BY <1>2, <1>4, <1>8
<1>10. currentTerm[j] = t /\ state[j] = "Leader"
  BY <1>2, <1>6 DEF Appends
<1>11. Holds(log'[j], k, t)
  <2>1. k \in DOMAIN log'[j]
    BY <1>4, <1>8, <1>9
  <2> QED BY <1>7, <1>8, <1>9, <1>10, <2>1 DEF Holds
<1>12. Led(j, t)'
  BY <1>2, LeaderLedNext
<1>13. j = o
  BY <1>12, LedOnceNext DEF ElectionInv
<1> QED BY <1>2, <1>8, <1>9, <1>10, <1>11, <1>13

(* A new entry is safe: nobody but its leader can have it.                 *)
LEMMA FreshSafe ==
  ASSUME MayLeave = {}, AtMostOneLeaves, TypeOK, TypeOK', ElectionInv, ElectionInv',
         LogInv, LogInv', OrderInv', IndexInv, GoodStep, MoveStep, IndexStep,
         NEW o \in Server, NEW t \in Nat, NEW k \in Nat, Led(o, t)',
         ~Stands(t, k), Stands(t, k)', ~Blocked(o, t, k)'
  PROVE  Safe(o, t, k)'
<1>1. /\ state[o] = "Leader" /\ currentTerm[o] = t
      /\ state'[o] = "Leader" /\ currentTerm'[o] = t
      /\ k = Len(log[o]) + 1 /\ k = Len(log'[o]) /\ Holds(log'[o], k, t)
  BY FreshAppended DEF GoodStep, MoveStep
<1>2. Len(log[o]) \in Nat
  BY LenProperties DEF TypeOK
<1>3. Have(o, t, k)' = {o}
  <2> SUFFICES ASSUME NEW a \in Of("AER")', a.success, a.term = t PROVE ~(k <= a.curIdx)
    BY DEF Have
  <2>1. PICK n \in Of("AE") : n.term = t /\ a.curIdx <= End(n)
    BY DEF IndexInv, RepliesWithin, IndexStep, RepliesStep
  <2>2. n.from \in Server /\ Led(n.from, t)
    BY <2>1, MessageTypes DEF LogInv, SendersLed
  <2>3. n.from = o
    BY <1>1, <2>2, LeaderLed, LedOnce DEF ElectionInv
  <2>4. End(n) <= Len(log[o])
    BY <1>1, <2>1, <2>3 DEF IndexInv, EndsWithin
  <2>5. End(n) \in Nat
    <3>1. n.prevIdx \in Nat /\ n.entries \in Seq(Entry)
      BY RunsAreRuns DEF AppendEntries
    <3> QED BY <3>1, LenProperties DEF End
  <2>6. a.curIdx \in Nat
    <3>1. a \in Message
      BY DEF TypeOK, Of
    <3> QED BY <3>1, MessageFields DEF Of, AppendEntriesResponse
  <2> QED BY <1>1, <1>2, <2>1, <2>4, <2>5, <2>6
<1>4. \A p \in Server : \A T \in Nat : Led(p, T)' => T <= t
  <2> SUFFICES ASSUME NEW p \in Server, NEW T \in Nat, Led(p, T)', t < T PROVE FALSE
    OBVIOUS
  <2> QED BY <1>1, <1>3, LaterTermBlocks
<1>5. ASSUME NEW r \in Runs', NEW p \in Nat, InRun(r, p) PROVE TermIn(r, p) <= t
  <2>1. PICK j \in Server : Led(j, TermIn(r, p))'
    BY <1>5 DEF LogInv, TermsLed
  <2>2. TermIn(r, p) \in Nat
    <3>1. IsRun(r)
      <4>1. CASE r \in Of("AE")'
        <5>1. r \in AppendEntries
          BY <4>1, MessageFields DEF Of, TypeOK
        <5> QED BY <5>1 DEF IsRun, AppendEntries
      <4>2. CASE r \notin Of("AE")'
        <5>1. PICK y \in Server : r = LogOf(log'[y])
          BY <4>2 DEF Runs
        <5> QED BY <5>1 DEF IsRun, LogOf, TypeOK
      <4> QED BY <4>1, <4>2
    <3> QED BY <1>5, <3>1, TermInType
  <2> QED BY <1>4, <2>1, <2>2
<1>6. ASSUME NEW x \in Server, x \in Have(o, t, k)' \/ Recent(log'[x], t, k) \/ Voted(x, o, t, k)'
      PROVE  Holds(log'[x], k, t)
  <2>1. CASE x \in Have(o, t, k)'
    BY <1>1, <1>3, <2>1
  <2>2. CASE Recent(log'[x], t, k)
    <3>1. PICK p \in DOMAIN log'[x] : log'[x][p].term > t \/ (log'[x][p].term = t /\ k <= p)
      BY <2>2 DEF Recent
    <3>2. log'[x] \in Seq(Entry)
      BY DEF TypeOK
    <3>3. p \in 1..Len(log'[x]) /\ Len(log'[x]) \in Nat
      BY <3>1, <3>2, LenProperties
    <3>4. /\ InRun(LogOf(log'[x]), p) /\ TermIn(LogOf(log'[x]), p) = log'[x][p].term
          /\ LogOf(log'[x]) \in Runs' /\ p \in Nat
      BY <3>2, <3>3, LogRun DEF Runs
    <3>5. log'[x][p].term \in Nat
      <4>1. log'[x][p] \in Entry
        BY <3>2, <3>3, ElementOfSeq
      <4> QED BY <4>1 DEF Entry
    <3>6. log'[x][p].term <= t
      BY <1>5, <3>4
    <3>7. log'[x][p].term = t /\ k <= p
      BY <3>1, <3>5, <3>6
    <3>8. p <= Len(log'[o])
      BY <1>1, <3>4, <3>7 DEF LogInv, LeaderHasAll
    <3>9. p = k
      BY <1>1, <3>4, <3>7, <3>8
    <3> QED BY <3>1, <3>7, <3>9 DEF Holds
  <2>3. CASE Voted(x, o, t, k)'
    <3>1. PICK v \in Of("RVR")' : /\ v.granted /\ v.term = currentTerm'[x]
                                  /\ v.from \in Have(o, t, k)'
      BY <2>3 DEF Voted
    <3>2. v.from = o
      BY <1>3, <3>1
    <3>3. currentTerm'[x] <= currentTerm'[o]
      BY <3>1, <3>2 DEF ElectionInv, GrantsBind
    <3>4. t < currentTerm'[x] /\ currentTerm'[x] \in Nat
      BY <2>3 DEF Voted, TypeOK
    <3> QED BY <1>1, <3>3, <3>4
  <2> QED BY <1>6, <2>1, <2>2, <2>3
<1>7. ASSUME NEW n \in Of("AE")', t <= n.term PROVE Follows(n, log'[o], t, k)
  <2>1. n.from \in Server /\ n.term \in Nat /\ Led(n.from, n.term)'
    <3>1. n \in AppendEntries
      BY MessageFields DEF Of, TypeOK
    <3> QED BY <3>1 DEF AppendEntries, LogInv, SendersLed
  <2>2. n.term = t
    BY <1>4, <1>7, <2>1
  <2>3. n.from = o
    BY <2>1, <2>2, LedOnceNext DEF ElectionInv
  <2>4. PartOf(n, LogOf(log'[o]))
    BY <1>1, <2>2, <2>3 DEF OrderInv, SentWithin
  <2>5. log'[o] \in Seq(Entry) /\ InOrder(LogOf(log'[o]))
    BY DEF TypeOK, OrderInv, TermsInOrder, Runs
  <2>6. Shares(log'[o], log'[o], k)
    BY <1>1, <1>2 DEF Shares
  <2>7. Follows(LogOf(log'[o]), log'[o], t, k)
    BY <1>1, <2>5, <2>6, HolderFollows
  <2> QED BY <2>4, <2>7, PartFollows
<1> QED BY <1>6, <1>7 DEF Safe, KeepersHold, Keeper, MessagesFollow

(* What may still be committed is safe.                                    *)
LEMMA OpenSafeStep ==
  ASSUME MayLeave = {}, AtMostOneLeaves, TypeOK, TypeOK', ElectionInv, ElectionInv',
         LogInv, LogInv', OrderInv, OrderInv', IndexInv, OpenSafe,
         GoodStep, MoveStep, IndexStep
  PROVE  OpenSafe'
<1> SUFFICES ASSUME NEW o \in Server, NEW t \in Nat, NEW k \in Nat, Open(o, t, k)'
             PROVE  Safe(o, t, k)'
  BY DEF OpenSafe
<1>1. ~Blocked(o, t, k) /\ (Stands(t, k) => Open(o, t, k))
  BY OpenBefore DEF GoodStep, MoveStep
<1>2. Led(o, t)' /\ Stands(t, k)' /\ ~Blocked(o, t, k)'
  BY DEF Open
<1>3. CASE Stands(t, k)
  <2>1. Led(o, t) /\ Safe(o, t, k)
    BY <1>1, <1>3 DEF Open, OpenSafe
  <2> QED BY <1>1, <1>2, <2>1, SafeStep
<1>4. CASE ~Stands(t, k)
  BY <1>2, <1>4, FreshSafe
<1> QED BY <1>3, <1>4

-----------------------------------------------------------------------------
(* Every step is such a step *)

(* What a leader counts towards a majority was acknowledged to it.         *)
MatchAcked ==
  \A i \in Server : state[i] = "Leader" =>
    \A j \in Server \ {i} :
      matchIdx[i][j] = 0 \/ j \in Have(i, currentTerm[i], matchIdx[i][j])
MatchStep ==
  \A i \in Server : state'[i] = "Leader" =>
    \A j \in Server \ {i} :
      \/ matchIdx'[i][j] = 0
      \/ state[i] = "Leader" /\ matchIdx'[i][j] = matchIdx[i][j]
      \/ j \in Have(i, currentTerm[i], matchIdx'[i][j])

(* A leader commits what a majority has, a follower what it is told.       *)
LeaderCommits(x) ==
  /\ state[x] = "Leader" /\ state'[x] = "Leader" /\ log'[x] = log[x]
  /\ Holds(log[x], commitIdx'[x], currentTerm[x])
  /\ \E Q \in Majorities(Server) : Q \subseteq Have(x, currentTerm[x], commitIdx'[x])
FollowerCommits(x) ==
  \E m \in Of("AE") : \E k \in 0..Len(m.entries) :
    /\ Takes(x, m, k) /\ log'[x] = Merged(log[x], m, k)
    /\ commitIdx'[x] <= m.leaderCommit
CommitsStep ==
  \A x \in Server : commitIdx'[x] = commitIdx[x] \/ LeaderCommits(x) \/ FollowerCommits(x)

(* A step is of one vehicle, and does not both commit and apply.           *)
OneMoves ==
  \E x \in Server :
    /\ \A y \in Server \ {x} : commitIdx'[y] = commitIdx[y] /\ lastApplied'[y] = lastApplied[y]
    /\ lastApplied'[x] = lastApplied[x] \/ (commitIdx'[x] = commitIdx[x] /\ lastApplied'[x] = commitIdx[x])

CoverStep == MoveStep /\ MatchStep /\ CommitsStep /\ OneMoves

LEMMA HaveLess ==
  ASSUME NEW o \in Server, NEW t, NEW k \in Nat, NEW h \in Nat, h <= k, TypeOK
  PROVE  Have(o, t, k) \subseteq Have(o, t, h)
<1> SUFFICES ASSUME NEW a \in Of("AER"), k <= a.curIdx PROVE h <= a.curIdx
  BY DEF Have
<1> QED BY MessageTypes

(* Nothing is sent and no log changes.                                     *)
LEMMA SilentMove ==
  ASSUME log' = log, msgs' = msgs
  PROVE  MoveStep
BY DEF MoveStep, LogsStep, RequestsStep, GrantsStep, AcksStep, SendsStep, Of

(* A leader sends what stands in its log.                                  *)
LEMMA SendingMove ==
  ASSUME TypeOK, NEW i \in Server, log' = log,
         \A n \in msgs' \ msgs : n.type = "AE" /\
           \E j \in Server, next \in Nat \ {0} :
             n = AppendEntriesTo(i, j, currentTerm[i], next, log[i], commitIdx'[i]),
         commitIdx'[i] \in Nat
  PROVE  MoveStep
<1>1. ASSUME NEW n \in msgs' \ msgs
      PROVE  n.type = "AE" /\ PartOf(n, LogOf(log'[n.from])) /\ n.leaderCommit <= commitIdx'[n.from]
  <2>1. PICK j \in Server, next \in Nat \ {0} :
          n = AppendEntriesTo(i, j, currentTerm[i], next, log[i], commitIdx'[i])
    BY <1>1
  <2>2. PartOf(n, LogOf(log[i]))
    BY <2>1, SentIsPart DEF TypeOK
  <2>3. n.from = i /\ n.leaderCommit = commitIdx'[i]
    BY <2>1 DEF AppendEntriesTo
  <2> QED BY <1>1, <2>2, <2>3
<1> QED BY <1>1 DEF MoveStep, LogsStep, RequestsStep, GrantsStep, AcksStep, SendsStep, Of

(* No index changes but, perhaps, last_applied_idx, to commit_idx.         *)
LEMMA SameCommits ==
  ASSUME TypeOK, NEW i \in Server, commitIdx' = commitIdx,
         lastApplied' = lastApplied \/ ApplyAll(i)
  PROVE  CommitsStep /\ OneMoves
<1>1. CommitsStep
  BY DEF CommitsStep
<1>2. /\ \A y \in Server \ {i} : lastApplied'[y] = lastApplied[y]
      /\ lastApplied'[i] = lastApplied[i] \/ lastApplied'[i] = commitIdx[i]
  BY DEF ApplyAll, TypeOK
<1> QED BY <1>1, <1>2 DEF OneMoves

LEMMA SameMatches ==
  ASSUME matchIdx' = matchIdx,
         \A x \in Server : state'[x] = "Leader" => state[x] = "Leader"
  PROVE  MatchStep
BY DEF MatchStep

(* raft_become_leader starts over with match_idx.                          *)
LEMMA BecomeLeaderCover ==
  ASSUME MayLeave = {}, TypeOK, ElectionInv, NEW i \in Server,
         BecomeLeader(i, currentTerm[i]), log' = log, commitIdx' = commitIdx
  PROVE  MoveStep /\ MatchStep
<1>1. Peers(i) = Server \ {i}
  BY DEF ElectionInv, ViewsHeld, Views, Peers
<1>2. /\ \A j \in Server \ {i} : matchIdx'[i][j] = 0
      /\ \A k \in Server : k # i => matchIdx'[k] = matchIdx[k] /\ state'[k] = state[k]
  BY <1>1 DEF BecomeLeader, TypeOK
<1>3. MatchStep
  BY <1>2 DEF MatchStep
<1>4. Len(log[i]) + 1 \in Nat \ {0} /\ commitIdx[i] \in Nat
  BY LenProperties DEF TypeOK
<1>5. \A n \in msgs' \ msgs : n.type = "AE" /\ \E j \in Server :
        n = AppendEntriesTo(i, j, currentTerm[i], Len(log[i]) + 1, log[i], commitIdx[i])
  BY BecomeLeaderSends
<1>6. MoveStep
  BY <1>4, <1>5, SendingMove
<1> QED BY <1>3, <1>6

LEMMA FormClusterCover ==
  ASSUME Designated = None, TypeOK, NEW i \in Server, FormCluster(i)
  PROVE  CoverStep
<1>1. i # Designated
  BY ServerAssumption
<1>2. /\ log' = log /\ commitIdx' = commitIdx /\ lastApplied' = lastApplied
      /\ matchIdx' = matchIdx /\ msgs' = msgs /\ state' = state
  BY <1>1 DEF FormCluster, logVars, peerVars
<1> QED BY <1>2, SilentMove, SameCommits, SameMatches DEF CoverStep

LEMMA PeriodicCover ==
  ASSUME AtMostOneLeaves, \A j \in Server : Server # {j}, TypeOK, ElectionInv,
         NEW i \in Server, Periodic(i)
  PROVE  CoverStep
<1>1. ~PeriodicOnlyVoter(i)
  <2>1. PeriodicOnlyVoter(i) => {i} \in Views
    BY DEF PeriodicOnlyVoter, OnlyVoter, ElectionInv, ViewsHeld
  <2> QED BY <2>1, LastVoterIsAlone
<1>2. /\ log' = log /\ commitIdx' = commitIdx /\ ApplyAll(i) /\ matchIdx' = matchIdx
      /\ \A x \in Server : state'[x] = "Leader" => state[x] = "Leader"
  BY <1>1 DEF Periodic, PeriodicElection, PeriodicHeartbeat, PeriodicIdle, peerVars,
              electionVars, TypeOK
<1>3. MatchStep /\ CommitsStep /\ OneMoves
  BY <1>2, SameCommits, SameMatches
<1>4. CASE PeriodicElection(i)
  <2>1. \A w \in msgs' \ msgs : /\ w.type = "RV" /\ w.from = i /\ w.term = currentTerm'[i]
                                /\ w.lastIdx = Len(log[i]) /\ w.lastTerm = LastTerm(log[i])
    BY <1>4 DEF PeriodicElection, Send
  <2>2. MoveStep
    BY <1>2, <2>1 DEF MoveStep, LogsStep, RequestsStep, GrantsStep, AcksStep, SendsStep, Of
  <2> QED BY <1>3, <2>2 DEF CoverStep
<1>5. CASE PeriodicHeartbeat(i)
  <2>1. \A n \in msgs' \ msgs : n.type = "AE" /\ \E j \in Server \ {i} :
          n = AppendEntriesTo(i, j, currentTerm[i], nextIdx[i][j], log[i], commitIdx[i])
    BY <1>5, HeartbeatSends
  <2>2. commitIdx[i] \in Nat /\ \A j \in Server : nextIdx[i][j] \in Nat \ {0}
    BY DEF TypeOK
  <2>3. \A n \in msgs' \ msgs : n.type = "AE" /\ \E j \in Server, next \in Nat \ {0} :
          n = AppendEntriesTo(i, j, currentTerm[i], next, log[i], commitIdx'[i])
    BY <1>2, <2>1, <2>2
  <2>4. MoveStep
    BY <1>2, <2>2, <2>3, SendingMove
  <2> QED BY <1>3, <2>4 DEF CoverStep
<1>6. CASE PeriodicIdle(i)
  BY <1>2, <1>3, <1>6, SilentMove DEF CoverStep, PeriodicIdle
<1> QED BY <1>1, <1>4, <1>5, <1>6 DEF Periodic

(* Nothing but a vote: a granted one to a candidate that is up to date.    *)
LEMMA RequestVoteCover ==
  ASSUME TypeOK, NEW i \in Server, NEW m \in msgs, RecvRequestVote(i, m)
  PROVE  CoverStep
<1>1. /\ log' = log /\ commitIdx' = commitIdx /\ lastApplied' = lastApplied
      /\ matchIdx' = matchIdx
      /\ \A x \in Server : state'[x] = "Leader" => state[x] = "Leader"
  BY DEF RecvRequestVote, RefuseForLeader, ConsiderVote, logVars, peerVars, electionVars, TypeOK
<1>2. m \in Of("RV") /\ m.to = i
  BY DEF RecvRequestVote, Of
<1>3. m.term \in Nat /\ currentTerm[i] \in Nat
  BY <1>2, MessageTypes DEF TypeOK
<1>4. ASSUME NEW v \in msgs' \ msgs
      PROVE  /\ v.type = "RVR"
             /\ v.granted => /\ v.from = i /\ v.to = m.from /\ v.term = m.term
                             /\ UpToDate(log[i], m)
  <2>1. CASE RefuseForLeader(i, m)
    BY <1>4, <2>1 DEF RefuseForLeader, Send, VoteReply
  <2>2. CASE ConsiderVote(i, m)
    <3> DEFINE vote == IF currentTerm[i] < m.term THEN None ELSE votedFor[i]
               grant == ShouldGrantVote(i, m, vote)
    <3>1. /\ currentTerm'[i] = IF currentTerm[i] < m.term THEN m.term ELSE currentTerm[i]
          /\ v = VoteReply(i, m, currentTerm'[i], grant)
      BY <1>4, <2>2 DEF ConsiderVote, Send, TypeOK
    <3>2. grant => currentTerm[i] <= m.term /\ UpToDate(log[i], m)
      BY DEF ShouldGrantVote
    <3> HIDE DEF grant
    <3>3. /\ v.type = "RVR" /\ v.from = i /\ v.to = m.from
          /\ v.term = currentTerm'[i] /\ v.granted = grant
      BY <3>1 DEF VoteReply
    <3> QED BY <1>3, <3>1, <3>2, <3>3
  <2> QED BY <2>1, <2>2 DEF RecvRequestVote
<1>5. MoveStep
  BY <1>1, <1>2, <1>4 DEF MoveStep, LogsStep, RequestsStep, GrantsStep, AcksStep, SendsStep, Of
<1> QED BY <1>1, <1>5, SameCommits, SameMatches DEF CoverStep

LEMMA RequestVoteResponseCover ==
  ASSUME MayLeave = {}, TypeOK, ElectionInv, NEW i \in Server, NEW m \in msgs,
         RecvRequestVoteResponse(i, m)
  PROVE  CoverStep
<1>1. log' = log /\ commitIdx' = commitIdx /\ lastApplied' = lastApplied
  BY DEF RecvRequestVoteResponse, CountVote, logVars
<1>2. CommitsStep /\ OneMoves
  BY <1>1, SameCommits
<1>3. CASE CountVote(i, m) /\ BecomeLeader(i, currentTerm[i])
  BY <1>1, <1>2, <1>3, BecomeLeaderCover DEF CoverStep
<1>4. CASE CountVote(i, m) /\ UNCHANGED <<votedFor, state, currentLeader, peerVars, msgs>>
  BY <1>1, <1>2, <1>4, SilentMove, SameMatches DEF CoverStep, peerVars
<1>5. CASE StepDown(i, m.term, None) /\ UNCHANGED <<memberVars, voteForMe, logVars, peerVars, msgs>>
  <2>1. /\ matchIdx' = matchIdx /\ msgs' = msgs
        /\ \A x \in Server : state'[x] = "Leader" => state[x] = "Leader"
    BY <1>5 DEF StepDown, peerVars, TypeOK
  <2> QED BY <1>1, <1>2, <2>1, SilentMove, SameMatches DEF CoverStep
<1> QED BY <1>3, <1>4, <1>5 DEF RecvRequestVoteResponse, CountVote

(* A vehicle that accepts the sender of an AppendEntries hears it.         *)
LEMMA FollowHears ==
  ASSUME AtMostOneLeaves, TypeOK, ElectionInv, LogInv, NEW i \in Server,
         NEW m \in Of("AE"), m.to = i, FollowLeader(i, m)
  PROVE  Hears(i, m) /\ MatchStep
<1>1. m.term \in Nat /\ currentTerm[i] \in Nat
  BY MessageTypes DEF TypeOK
<1>2. /\ currentTerm[i] <= m.term /\ currentTerm'[i] = m.term /\ matchIdx' = matchIdx
      /\ state' = [state EXCEPT ![i] = IF currentTerm[i] < m.term \/ @ = "Candidate"
                                       THEN "Follower" ELSE @]
  BY DEF FollowLeader, peerVars, TypeOK
<1>3. currentTerm[i] < m.term \/ state[i] # "Leader"
  BY <1>1, <1>2, NotOwnTerm
<1>4. state'[i] = "Follower"
  BY <1>2, <1>3 DEF TypeOK
<1>5. \A x \in Server : state'[x] = "Leader" => state[x] = "Leader"
  BY <1>2 DEF TypeOK
<1> QED BY <1>2, <1>4, <1>5, SameMatches DEF Hears

(* It replies, and changes no log but its own.                             *)
LEMMA ReplyMove ==
  ASSUME TypeOK, NEW i \in Server, NEW m \in Of("AE"),
         \A x \in Server \ {i} : log'[x] = log[x],
         log'[i] = log[i] \/ Deletes(i) \/ TakesOver(i),
         NEW success, NEW idx, Send({AppendReply(i, m, m.term, success, idx)}),
         success => \E k \in 0..Len(m.entries) :
           /\ Takes(i, m, k)
           /\ \/ log'[i] = Merged(log[i], m, k) /\ idx = End(m)
              \/ log'[i] = log[i] /\ idx = m.prevIdx + k
  PROVE  MoveStep
<1>1. \A n \in msgs' \ msgs : /\ n.type = "AER" /\ n.from = i /\ n.term = m.term
                              /\ n.success = success /\ n.curIdx = idx
  BY DEF Send, AppendReply
<1>2. LogsStep
  BY DEF LogsStep
<1>3. AcksStep
  BY <1>1 DEF AcksStep, Of
<1> QED BY <1>1, <1>2, <1>3 DEF MoveStep, RequestsStep, GrantsStep, SendsStep, Of

LEMMA AppendMismatchCover ==
  ASSUME AtMostOneLeaves, TypeOK, ElectionInv, LogInv, NEW i \in Server,
         NEW m \in Of("AE"), m.to = i, AppendMismatch(i, m)
  PROVE  CoverStep
<1>1. Hears(i, m) /\ MatchStep
  BY FollowHears DEF AppendMismatch
<1>2. /\ ~HasPrev(log[i], m) /\ commitIdx' = commitIdx /\ lastApplied' = lastApplied
      /\ Send({AppendReply(i, m, m.term, FALSE, Len(log'[i]))})
      /\ \A x \in Server \ {i} : log'[x] = log[x]
      /\ \/ log'[i] = log[i]
         \/ log'[i] = SubSeq(log[i], 1, Lower(m.prevIdx - 1, Len(log[i])))
  BY DEF AppendMismatch, TypeOK
<1>3. m.prevIdx # 0
  BY <1>2 DEF HasPrev
<1>4. log'[i] = log[i] \/ Deletes(i)
  BY <1>1, <1>2, <1>3 DEF Deletes
<1>5. MoveStep
  BY <1>2, <1>4, ReplyMove
<1> QED BY <1>1, <1>2, <1>5, SameCommits DEF CoverStep

LEMMA AppendMatchCover ==
  ASSUME AtMostOneLeaves, TypeOK, TypeOK', ElectionInv, LogInv, IndexInv, NEW i \in Server,
         NEW m \in Of("AE"), m.to = i, AppendMatch(i, m)
  PROVE  CoverStep
<1>1. PICK k \in 0..Len(m.entries) :
        /\ MatchesUpTo(log[i], m, k)
        /\ AppendAccept(i, m, k) \/ AppendShutdown(i, m, k)
  BY DEF AppendMatch
<1>2. Hears(i, m) /\ MatchStep
  BY FollowHears DEF AppendMatch
<1>3. Takes(i, m, k)
  BY <1>1, <1>2 DEF AppendMatch, Takes
<1>4. CASE AppendAccept(i, m, k)
  <2>1. /\ log'[i] = Merged(log[i], m, k)
        /\ \A x \in Server \ {i} : log'[x] = log[x] /\ commitIdx'[x] = commitIdx[x]
        /\ commitIdx'[i] = FollowerCommit(commitIdx[i], Len(log'[i]), m)
        /\ lastApplied' = lastApplied
        /\ Send({AppendReply(i, m, m.term, TRUE, LastMatching(m))})
    BY <1>4 DEF AppendAccept, TypeOK
  <2>2. TakesOver(i) /\ LastMatching(m) = End(m)
    BY <1>3, <2>1 DEF TakesOver, LastMatching, End
  <2>3. MoveStep
    BY <1>3, <2>1, <2>2, ReplyMove
  <2>4. commitIdx'[i] = commitIdx[i] \/ commitIdx'[i] <= m.leaderCommit
    <3>1. Len(log'[i]) \in Nat /\ m.leaderCommit \in Nat
      BY MessageTypes, LenProperties DEF TypeOK
    <3> QED BY <2>1, <3>1 DEF FollowerCommit, Lower, Upper
  <2>5. CommitsStep
    BY <1>3, <2>1, <2>4 DEF CommitsStep, FollowerCommits
  <2>6. OneMoves
    BY <2>1 DEF OneMoves
  <2> QED BY <1>2, <2>3, <2>5, <2>6 DEF CoverStep
<1>5. CASE AppendShutdown(i, m, k)
  <2>1. /\ log' = log /\ commitIdx' = commitIdx /\ lastApplied' = lastApplied
        /\ Send({AppendReply(i, m, m.term, TRUE, m.prevIdx + k)})
    BY <1>5 DEF AppendShutdown, logVars
  <2>2. MoveStep
    BY <1>3, <2>1, ReplyMove
  <2> QED BY <1>2, <2>1, <2>2, SameCommits DEF CoverStep
<1> QED BY <1>1, <1>4, <1>5

LEMMA AppendEntriesCover ==
  ASSUME AtMostOneLeaves, TypeOK, TypeOK', ElectionInv, LogInv, IndexInv, NEW i \in Server,
         NEW m \in msgs, RecvAppendEntries(i, m)
  PROVE  CoverStep
<1>1. m \in Of("AE") /\ m.to = i
  BY DEF RecvAppendEntries, Of
<1>2. CASE AppendStale(i, m)
  <2>1. /\ log' = log /\ commitIdx' = commitIdx /\ lastApplied' = lastApplied
        /\ matchIdx' = matchIdx /\ state' = state
        /\ \A n \in msgs' \ msgs : n.type = "AER" /\ ~n.success
    BY <1>2 DEF AppendStale, logVars, peerVars, electionVars, Send, AppendReply
  <2>2. MoveStep
    BY <2>1 DEF MoveStep, LogsStep, RequestsStep, GrantsStep, AcksStep, SendsStep, Of
  <2> QED BY <2>1, <2>2, SameCommits, SameMatches DEF CoverStep
<1> QED BY <1>1, <1>2, AppendMismatchCover, AppendMatchCover DEF RecvAppendEntries

(* What a leader commits, a majority acknowledged to it.                   *)
LEMMA CommitHad ==
  ASSUME MayLeave = {}, TypeOK, TypeOK', ElectionInv, MatchAcked, NEW i \in Server,
         NEW m \in Of("AER"), m.from # i, state[i] = "Leader", currentTerm[i] = m.term,
         m.success, matchIdx' = [matchIdx EXCEPT ![i][m.from] = m.curIdx],
         NEW point \in Nat, point = m.curIdx, Commits(i, matchIdx'[i], point)
  PROVE  /\ Holds(log[i], point, currentTerm[i])
         /\ \E Q \in Majorities(Server) : Q \subseteq Have(i, currentTerm[i], point)
<1> DEFINE R == {j \in Peers(i) : point <= matchIdx'[i][j]}
<1>1. Peers(i) = Server \ {i} /\ active[i] = Server
  BY DEF ElectionInv, ViewsHeld, Views, Peers
<1>2. IsMajority(Cardinality(R) + 1, Server) /\ Holds(log[i], point, currentTerm[i])
  BY <1>1 DEF Commits, MajorityHolds, Replicas
<1>3. point # 0
  BY DEF Commits, TypeOK
<1>4. ASSUME NEW j \in R PROVE j \in Have(i, currentTerm[i], point)
  <2>1. j \in Server \ {i} /\ point <= matchIdx'[i][j]
    BY <1>1, <1>4
  <2>2. CASE j = m.from
    BY <2>1, <2>2 DEF Have
  <2>3. CASE j # m.from
    <3>1. matchIdx'[i][j] = matchIdx[i][j] /\ matchIdx[i][j] \in Nat
      BY <2>1, <2>3 DEF TypeOK
    <3>2. j \in Have(i, currentTerm[i], matchIdx[i][j])
      BY <1>3, <2>1, <3>1 DEF MatchAcked
    <3> QED BY <2>1, <3>1, <3>2, HaveLess
  <2> QED BY <2>2, <2>3
<1>5. i \in Have(i, currentTerm[i], point)
  BY DEF Have
<1> DEFINE Q == R \cup {i}
<1>6. Q \in Majorities(Server)
  <2>1. R \subseteq Server /\ i \notin R
    BY <1>1
  <2>2. IsFiniteSet(R)
    BY <2>1, ServerAssumption, FS_Subset
  <2> HIDE DEF R
  <2>3. Cardinality(Q) = Cardinality(R) + 1
    BY <2>1, <2>2, FS_AddElement
  <2> QED BY <1>2, <2>1, <2>3 DEF Majorities
<1>7. Q \subseteq Have(i, currentTerm[i], point)
  BY <1>4, <1>5
<1> QED BY <1>2, <1>6, <1>7

LEMMA AppendAcknowledgedCover ==
  ASSUME MayLeave = {}, TypeOK, TypeOK', ElectionInv, MatchAcked, NEW i \in Server,
         NEW m \in Of("AER"), m.from \in Server \ {i}, state[i] = "Leader",
         currentTerm[i] = m.term, AppendAcknowledged(i, m)
  PROVE  CoverStep
<1> DEFINE point == m.curIdx
<1>1. /\ log' = log /\ lastApplied' = lastApplied /\ state' = state /\ m.success
      /\ matchIdx' = [matchIdx EXCEPT ![i][m.from] = m.curIdx]
      /\ \A x \in Server \ {i} : commitIdx'[x] = commitIdx[x]
      /\ commitIdx'[i] = IF Commits(i, matchIdx'[i], point) THEN point ELSE commitIdx[i]
      /\ Resend(i, m.from, point + 1, commitIdx'[i]) \/ msgs' = msgs
  BY DEF AppendAcknowledged, logVars, electionVars, TypeOK
<1>2. point \in Nat
  BY MessageTypes
<1>3. CommitsStep
  <2>1. CASE Commits(i, matchIdx'[i], point)
    <3> HIDE DEF point
    <3>1. /\ Holds(log[i], point, currentTerm[i])
          /\ \E Q \in Majorities(Server) : Q \subseteq Have(i, currentTerm[i], point)
      BY <1>1, <1>2, <2>1, CommitHad DEF point
    <3>2. LeaderCommits(i)
      BY <1>1, <2>1, <3>1 DEF LeaderCommits
    <3> QED BY <1>1, <3>2 DEF CommitsStep
  <2>2. CASE ~Commits(i, matchIdx'[i], point)
    BY <1>1, <2>2 DEF CommitsStep
  <2> QED BY <2>1, <2>2
<1>4. MatchStep
  <2>1. m.from \in Have(i, currentTerm[i], point)
    BY <1>1, <1>2 DEF Have
  <2>2. \A x, j \in Server : matchIdx'[x][j] = IF x = i /\ j = m.from THEN point ELSE matchIdx[x][j]
    BY <1>1 DEF TypeOK
  <2> HIDE DEF point
  <2> SUFFICES ASSUME NEW x \in Server, state[x] = "Leader", NEW j \in Server \ {x}
               PROVE  matchIdx'[x][j] = matchIdx[x][j] \/ j \in Have(x, currentTerm[x], matchIdx'[x][j])
    BY <1>1 DEF MatchStep
  <2>3. CASE x = i /\ j = m.from
    BY <2>1, <2>2, <2>3
  <2>4. CASE ~(x = i /\ j = m.from)
    BY <2>2, <2>4
  <2> QED BY <2>3, <2>4
<1>5. OneMoves
  BY <1>1 DEF OneMoves
<1>6. MoveStep
  <2> HIDE DEF point
  <2>1. point + 1 \in Nat \ {0}
    BY <1>2
  <2>2. commitIdx'[i] \in Nat
    BY DEF TypeOK
  <2>3. ASSUME NEW n \in msgs' \ msgs
        PROVE  n = AppendEntriesTo(i, m.from, currentTerm[i], point + 1, log[i], commitIdx'[i])
    BY <1>1 DEF Resend, Send
  <2>4. ASSUME NEW n \in msgs' \ msgs
        PROVE  n.type = "AE"
    BY <2>3 DEF AppendEntriesTo
  <2> QED BY <1>1, <2>1, <2>2, <2>3, <2>4, SendingMove
<1> QED BY <1>3, <1>4, <1>5, <1>6 DEF CoverStep

LEMMA AppendRefusedCover ==
  ASSUME TypeOK, TypeOK', NEW i \in Server,
         NEW m \in Of("AER"), m.from \in Server \ {i}, AppendRefused(i, m)
  PROVE  CoverStep
<1>1. /\ log' = log /\ commitIdx' = commitIdx /\ lastApplied' = lastApplied
      /\ state' = state /\ matchIdx' = matchIdx
      /\ Resend(i, m.from, nextIdx'[i][m.from], commitIdx[i])
  BY DEF AppendRefused, logVars, electionVars
<1>2. nextIdx'[i][m.from] \in Nat \ {0} /\ commitIdx'[i] \in Nat
  BY DEF TypeOK
<1>3. ASSUME NEW n \in msgs' \ msgs
      PROVE  n.type = "AE" /\ n = AppendEntriesTo(i, m.from, currentTerm[i], nextIdx'[i][m.from], log[i], commitIdx'[i])
  BY <1>1, AppendEntriesType DEF Resend, Send
<1>4. MoveStep
  BY <1>1, <1>2, <1>3, SendingMove
<1> QED BY <1>1, <1>4, SameCommits, SameMatches DEF CoverStep

LEMMA AppendEntriesResponseCover ==
  ASSUME MayLeave = {}, TypeOK, TypeOK', ElectionInv, LogInv, MatchAcked, NEW i \in Server,
         NEW m \in msgs, RecvAppendEntriesResponse(i, m)
  PROVE  CoverStep
<1>1. m \in Of("AER") /\ m.to = i /\ state[i] = "Leader"
  BY DEF RecvAppendEntriesResponse, Of
<1>2. m.from \in Server \ {i}
  BY <1>1, MessageTypes DEF LogInv, SendersLed
<1>3. CASE StepDown(i, m.term, None) /\ UNCHANGED <<memberVars, voteForMe, logVars, peerVars, msgs>>
  <2>1. /\ log' = log /\ commitIdx' = commitIdx /\ lastApplied' = lastApplied
        /\ matchIdx' = matchIdx /\ msgs' = msgs
        /\ \A x \in Server : state'[x] = "Leader" => state[x] = "Leader"
    BY <1>3 DEF StepDown, logVars, peerVars, TypeOK
  <2> QED BY <2>1, SilentMove, SameCommits, SameMatches DEF CoverStep
<1> QED BY <1>1, <1>2, <1>3, AppendRefusedCover, AppendAcknowledgedCover
        DEF RecvAppendEntriesResponse

LEMMA RecvEntryCover ==
  ASSUME AtMostOneLeaves, \A j \in Server : Server # {j}, TypeOK, TypeOK', ElectionInv,
         NEW i \in Server, RecvEntry(i)
  PROVE  CoverStep
<1> DEFINE e == [term |-> currentTerm[i], owner |-> i]
           new == Append(log[i], e)
<1>1. ~OnlyVoter(i)
  <2>1. OnlyVoter(i) => {i} \in Views
    BY DEF OnlyVoter, ElectionInv, ViewsHeld
  <2> QED BY <2>1, LastVoterIsAlone
<1>2. /\ commitIdx' = commitIdx /\ lastApplied' = lastApplied /\ matchIdx' = matchIdx
      /\ state' = state /\ currentTerm' = currentTerm /\ state[i] = "Leader"
      /\ log'[i] = new /\ \A x \in Server \ {i} : log'[x] = log[x]
      /\ \A n \in msgs' \ msgs : \E j \in Peers(i) :
           n = AppendEntriesTo(i, j, currentTerm[i], Len(new), new, commitIdx[i])
  BY <1>1 DEF RecvEntry, Send, electionVars, peerVars, TypeOK
<1>3. e \in Entry /\ e.term = currentTerm[i]
  BY DEF Entry, TypeOK
<1>4. Appends(i)
  BY <1>2, <1>3 DEF Appends
<1>5. new \in Seq(Entry) /\ Len(new) \in Nat \ {0}
  BY <1>3, AppendProperties, LenProperties DEF TypeOK
<1> HIDE DEF new
<1>6. ASSUME NEW n \in msgs' \ msgs
      PROVE  n.type = "AE" /\ PartOf(n, LogOf(log'[n.from])) /\ n.leaderCommit <= commitIdx'[n.from]
  <2>1. PICK j \in Peers(i) :
          n = AppendEntriesTo(i, j, currentTerm[i], Len(new), new, commitIdx[i])
    BY <1>2
  <2>2. PartOf(n, LogOf(new))
    BY <1>5, <2>1, SentIsPart
  <2>3. n.type = "AE" /\ n.from = i /\ n.leaderCommit = commitIdx[i] /\ commitIdx[i] \in Nat
    BY <2>1 DEF AppendEntriesTo, TypeOK
  <2> QED BY <1>2, <2>2, <2>3
<1>7. MoveStep
  BY <1>2, <1>4, <1>6 DEF MoveStep, LogsStep, RequestsStep, GrantsStep, AcksStep, SendsStep, Of
<1> QED BY <1>2, <1>7, SameCommits, SameMatches DEF CoverStep

LEMMA EveryStepCovers ==
  ASSUME MayLeave = {}, Designated = None, \A j \in Server : Server # {j},
         TypeOK, TypeOK', ElectionInv, LogInv, IndexInv, MatchAcked, Next
  PROVE  CoverStep
<1>1. AtMostOneLeaves
  BY DEF AtMostOneLeaves
<1>2. PICK i \in Server :
        \/ FormCluster(i)
        \/ \E j \in Server : MarkInactive(i, j)
        \/ Periodic(i)
        \/ RecvEntry(i)
        \/ \E m \in msgs : \/ RecvRequestVote(i, m)
                           \/ RecvRequestVoteResponse(i, m)
                           \/ RecvAppendEntries(i, m)
                           \/ RecvAppendEntriesResponse(i, m)
  BY DEF Next
<1>3. ~\E j \in Server : MarkInactive(i, j)
  BY DEF MarkInactive
<1> QED BY <1>1, <1>2, <1>3, FormClusterCover, PeriodicCover, RequestVoteCover,
        RequestVoteResponseCover, AppendEntriesCover, AppendEntriesResponseCover, RecvEntryCover

-----------------------------------------------------------------------------
(* Chosen entries *)

(* A majority has the entry of term t that stands at index k in the log of *)
(* the vehicle o that led t.                                               *)
Chosen(o, t, k) ==
  /\ Led(o, t) /\ Holds(log[o], k, t)
  /\ \E Q \in Majorities(Server) : Q \subseteq Have(o, t, k)

(* What a vehicle has committed stands in the log of a leader of its term  *)
(* or an earlier one, no further than an entry chosen there; and a commit  *)
(* index that is under way is covered by such an entry.                    *)
CommitCovered ==
  \A x \in Server : commitIdx[x] = 0 \/
    \E o \in Server : \E t, k \in Nat :
      /\ Chosen(o, t, k) /\ commitIdx[x] <= k /\ t <= currentTerm[x]
      /\ \A h \in 1..commitIdx[x] : log[x][h] = log[o][h]
SentCovered ==
  \A n \in Of("AE") : n.leaderCommit = 0 \/
    \E o \in Server : \E t, k \in Nat :
      Chosen(o, t, k) /\ n.leaderCommit <= k /\ t <= n.term

CommitInv == OrderInv /\ OpenSafe /\ MatchAcked /\ CommitCovered /\ SentCovered

LEMMA FirstSame ==
  ASSUME NEW l \in Seq(Entry), NEW n \in Seq(Entry), NEW k \in Nat,
         k <= Len(l), k <= Len(n), SubSeq(l, 1, k) = SubSeq(n, 1, k)
  PROVE  \A h \in 1..k : l[h] = n[h]
<1>1. Len(l) \in Nat /\ Len(n) \in Nat
  BY LenProperties
<1>2. k \in 0..Len(l) /\ k \in 0..Len(n)
  BY <1>1
<1>3. /\ \A h \in 1..k : SubSeq(l, 1, k)[h] = l[h]
      /\ \A h \in 1..k : SubSeq(n, 1, k)[h] = n[h]
  BY <1>2, DeletedLog
<1> QED BY <1>3

(* Every majority meets the one that has a chosen entry.                   *)
LEMMA ChosenSafe ==
  ASSUME MayLeave = {}, AtMostOneLeaves, TypeOK, OpenSafe,
         NEW o \in Server, NEW t \in Nat, NEW k \in Nat, Chosen(o, t, k)
  PROVE  Safe(o, t, k) /\ ~Blocked(o, t, k)
<1>1. Server \in Views
  BY DEF Views
<1>2. ~Blocked(o, t, k)
  <2> SUFFICES ASSUME NEW R \in Majorities(Server), \A q \in R : q \notin Have(o, t, k)
               PROVE  FALSE
    BY DEF Blocked
  <2>1. PICK Q \in Majorities(Server) : Q \subseteq Have(o, t, k)
    BY DEF Chosen
  <2>2. Q \cap R # {}
    BY <1>1, MajoritiesIntersect
  <2> QED BY <2>1, <2>2
<1>3. log[o] \in Seq(Entry)
  BY DEF TypeOK
<1>4. k \in 1..Len(log[o])
  BY <1>3, LenProperties DEF Chosen, Holds
<1>5. Stands(t, k)
  <2>1. InRun(LogOf(log[o]), k) /\ TermIn(LogOf(log[o]), k) = log[o][k].term
    BY <1>3, <1>4, LogRun
  <2>2. log[o][k].term = t
    BY DEF Chosen, Holds
  <2> QED BY <2>1, <2>2 DEF Stands, Runs
<1> QED BY <1>2, <1>5 DEF OpenSafe, Open, Chosen

(* A chosen entry stays chosen, with all that stands before it.            *)
LEMMA ChosenStays ==
  ASSUME MayLeave = {}, AtMostOneLeaves, TypeOK, TypeOK', ElectionInv', LogInv, OrderInv,
         OpenSafe, GoodStep, MoveStep,
         NEW o \in Server, NEW t \in Nat, NEW k \in Nat, Chosen(o, t, k)
  PROVE  Chosen(o, t, k)' /\ Shares(log[o], log'[o], k)
<1>1. TermsMove /\ LogsStep /\ AcksStep
  BY DEF GoodStep, MoveStep
<1>2. Led(o, t) /\ Holds(log[o], k, t)
  BY DEF Chosen
<1>3. Led(o, t)'
  BY <1>1, <1>2, LedKept
<1>4. Shares(log[o], log'[o], k) /\ Holds(log'[o], k, t)
  BY <1>1, <1>2, ChosenSafe, EntryKept
<1>5. Have(o, t, k) \subseteq Have(o, t, k)'
  BY <1>1, HaveGrows
<1>6. \E Q \in Majorities(Server) : Q \subseteq Have(o, t, k)'
  BY <1>5 DEF Chosen
<1> QED BY <1>3, <1>4, <1>6 DEF Chosen

(* A follower commits no further than the chosen entry that covers what it *)
(* was told, and has what stands before that.                              *)
LEMMA ToldIsCovered ==
  ASSUME MayLeave = {}, AtMostOneLeaves, TypeOK, TypeOK', ElectionInv', LogInv, LogInv',
         OrderInv, IndexInv, OpenSafe, GoodStep, MoveStep,
         NEW x \in Server, NEW m \in Of("AE"), NEW q \in 0..Len(m.entries), Takes(x, m, q),
         log'[x] = Merged(log[x], m, q),
         NEW o \in Server, NEW t \in Nat, NEW k \in Nat, Chosen(o, t, k),
         NEW c \in Nat \ {0}, c <= m.leaderCommit, m.leaderCommit <= k
  PROVE  t <= m.term => \A h \in 1..c : log'[x][h] = log'[o][h]
<1> SUFFICES ASSUME t <= m.term PROVE \A h \in 1..c : log'[x][h] = log'[o][h]
  OBVIOUS
<1>1. /\ Safe(o, t, k) /\ Chosen(o, t, k)' /\ Shares(log[o], log'[o], k)
  BY ChosenSafe, ChosenStays
<1>2. /\ m \in AppendEntries /\ m.leaderCommit \in Nat
      /\ log[x] \in Seq(Entry) /\ log[o] \in Seq(Entry)
      /\ log'[x] \in Seq(Entry) /\ log'[o] \in Seq(Entry)
  BY RunsAreRuns, MessageTypes DEF TypeOK
<1>3. Follows(m, log[o], t, k) /\ (Recent(log[x], t, k) => Holds(log[x], k, t))
  BY <1>1 DEF Safe, MessagesFollow, KeepersHold, Keeper
<1>4. Holds(log[o], k, t) /\ Holds(log'[o], k, t)
  BY <1>1 DEF Chosen
<1>5. /\ m.prevIdx \in Nat /\ Len(m.entries) \in Nat /\ m.leaderCommit <= End(m)
      /\ End(m) = m.prevIdx + Len(m.entries)
  BY <1>2, LenProperties DEF AppendEntries, IndexInv, EndsWithin, End
<1>6. k \in Nat \ {0}
  BY <1>2
<1>7. CASE k <= End(m)
  <2>1. Holds(log'[x], k, t)
    BY <1>2, <1>3, <1>4, <1>6, <1>7, MatchedHolds DEF Takes
  <2>2. Shares(log'[o], log'[x], k)
    BY <1>4, <2>1, LogsShareNext
  <2> QED BY <1>2, <2>2 DEF Shares
<1>8. CASE End(m) < k
  <2> DEFINE d == End(m)
  <2>1. d \in Nat \ {0} /\ d \in 1..k /\ c <= d
    BY <1>2, <1>5, <1>8
  <2>2. InRun(m, d)
    BY <1>5, <2>1 DEF InRun
  <2>3. TermIn(m, d) = log[o][d].term /\ log[o][d] = log'[o][d]
    BY <1>1, <1>3, <2>1, <2>2 DEF Follows, Shares
  <2>4. d \in 1..Len(log'[x]) /\ log'[x][d].term = TermIn(m, d)
    BY <1>2, <2>1, <2>2, MergedSays DEF Takes
  <2>5. d \in 1..Len(log'[o])
    <3>1. k <= Len(log'[o]) /\ Len(log'[o]) \in Nat
      BY <1>1, <1>2, LenProperties DEF Shares
    <3> QED BY <2>1, <3>1
  <2>6. Agree(LogOf(log'[x]), LogOf(log'[o]))
    BY DEF LogInv, RunsAgree, Runs
  <2> HIDE DEF d
  <2>7. SubSeq(log'[x], 1, d) = SubSeq(log'[o], 1, d)
    <3>1. d \in DOMAIN log'[x] \cap DOMAIN log'[o]
      BY <1>2, <2>4, <2>5, LenProperties
    <3>2. log'[x][d].term = log'[o][d].term
      BY <2>3, <2>4
    <3> QED BY <1>2, <2>6, <3>1, <3>2, AgreeingLogsMatch
  <2>8. \A h \in 1..d : log'[x][h] = log'[o][h]
    BY <1>2, <2>1, <2>4, <2>5, <2>7, FirstSame, SMTT(20)
  <2> QED BY <2>1, <2>8
<1> QED BY <1>5, <1>7, <1>8

LEMMA CommitCoveredNext ==
  ASSUME MayLeave = {}, AtMostOneLeaves, TypeOK, TypeOK', ElectionInv, ElectionInv',
         LogInv, LogInv', OrderInv, IndexInv, OpenSafe, CommitCovered, SentCovered,
         GoodStep, IndexStep, CoverStep
  PROVE  CommitCovered'
<1> SUFFICES ASSUME NEW x \in Server, commitIdx'[x] # 0
             PROVE  \E o \in Server : \E t, k \in Nat :
                      /\ Chosen(o, t, k)' /\ commitIdx'[x] <= k /\ t <= currentTerm'[x]
                      /\ \A h \in 1..commitIdx'[x] : log'[x][h] = log'[o][h]
  BY DEF CommitCovered
<1>1. MoveStep /\ CommitsStep /\ TermsMove
  BY DEF CoverStep, GoodStep
<1>2. /\ commitIdx'[x] \in Nat \ {0} /\ commitIdx[x] \in Nat
      /\ currentTerm[x] \in Nat /\ currentTerm'[x] \in Nat /\ currentTerm[x] <= currentTerm'[x]
      /\ log[x] \in Seq(Entry) /\ log'[x] \in Seq(Entry)
  BY <1>1 DEF TypeOK, TermsMove
<1>3. CASE commitIdx'[x] = commitIdx[x]
  <2>1. PICK o \in Server : \E t, k \in Nat :
          /\ Chosen(o, t, k) /\ commitIdx[x] <= k /\ t <= currentTerm[x]
          /\ \A h \in 1..commitIdx[x] : log[x][h] = log[o][h]
    BY <1>2, <1>3 DEF CommitCovered
  <2>2. PICK t \in Nat, k \in Nat :
          /\ Chosen(o, t, k) /\ commitIdx[x] <= k /\ t <= currentTerm[x]
          /\ \A h \in 1..commitIdx[x] : log[x][h] = log[o][h]
    BY <2>1
  <2>3. Chosen(o, t, k)' /\ Shares(log[o], log'[o], k)
    BY <1>1, <2>2, ChosenStays
  <2>4. /\ SubSeq(log'[x], 1, commitIdx[x]) = SubSeq(log[x], 1, commitIdx[x])
        /\ commitIdx[x] <= Len(log[x]) /\ commitIdx[x] <= Len(log'[x])
    BY <1>3 DEF IndexStep, CommitStep, IndexInv, CommitsWithin
  <2>5. \A h \in 1..commitIdx[x] : log'[x][h] = log[x][h]
    BY <1>2, <2>4, FirstSame
  <2>6. \A h \in 1..commitIdx[x] : log'[o][h] = log[o][h]
    BY <1>2, <2>2, <2>3 DEF Shares
  <2>7. t <= currentTerm'[x]
    BY <1>2, <2>2
  <2> QED BY <1>3, <2>2, <2>3, <2>5, <2>6, <2>7
<1>4. CASE LeaderCommits(x)
  <2>1. Led(x, currentTerm[x])
    BY <1>4, LeaderLed DEF LeaderCommits
  <2>2. Chosen(x, currentTerm[x], commitIdx'[x])
    BY <1>4, <2>1 DEF LeaderCommits, Chosen
  <2>3. \A t \in Nat, k \in Nat : Chosen(x, t, k) => Chosen(x, t, k)'
    BY <1>1, ChosenStays
  <2>4. PICK t \in Nat, k \in Nat : t = currentTerm[x] /\ k = commitIdx'[x]
    BY <1>2
  <2>5. Chosen(x, t, k)'
    BY <2>2, <2>3, <2>4
  <2> QED BY <1>2, <2>4, <2>5
<1>5. CASE FollowerCommits(x)
  <2>1. PICK m \in Of("AE") : \E q \in 0..Len(m.entries) :
          /\ Takes(x, m, q) /\ log'[x] = Merged(log[x], m, q)
          /\ commitIdx'[x] <= m.leaderCommit
    BY <1>5 DEF FollowerCommits
  <2>2. PICK q \in 0..Len(m.entries) :
          /\ Takes(x, m, q) /\ log'[x] = Merged(log[x], m, q)
          /\ commitIdx'[x] <= m.leaderCommit
    BY <2>1
  <2>3. m.leaderCommit \in Nat /\ m.leaderCommit # 0
    BY <1>2, <2>2, MessageTypes
  <2>4. PICK o \in Server : \E t, k \in Nat :
          Chosen(o, t, k) /\ m.leaderCommit <= k /\ t <= m.term
    BY <2>3 DEF SentCovered
  <2>5. PICK t \in Nat, k \in Nat : Chosen(o, t, k) /\ m.leaderCommit <= k /\ t <= m.term
    BY <2>4
  <2>6. Chosen(o, t, k)'
    BY <1>1, <2>5, ChosenStays
  <2>7. currentTerm'[x] = m.term
    BY <2>2 DEF Takes, Hears
  <2>8. commitIdx'[x] <= k
    BY <1>2, <2>2, <2>3, <2>5
  <2>9. \A c \in Nat \ {0} : c <= m.leaderCommit => \A h \in 1..c : log'[x][h] = log'[o][h]
    BY <1>1, <2>2, <2>5, ToldIsCovered
  <2>10. \A h \in 1..commitIdx'[x] : log'[x][h] = log'[o][h]
    BY <1>2, <2>2, <2>9
  <2> QED BY <2>5, <2>6, <2>7, <2>8, <2>10
<1> QED BY <1>1, <1>3, <1>4, <1>5 DEF CommitsStep

LEMMA SentCoveredNext ==
  ASSUME MayLeave = {}, AtMostOneLeaves, TypeOK, TypeOK', ElectionInv, ElectionInv',
         LogInv, OrderInv, OpenSafe, SentCovered, CommitCovered', GoodStep, CoverStep
  PROVE  SentCovered'
<1> SUFFICES ASSUME NEW n \in Of("AE")', n.leaderCommit # 0
             PROVE  \E o \in Server : \E t, k \in Nat :
                      Chosen(o, t, k)' /\ n.leaderCommit <= k /\ t <= n.term
  BY DEF SentCovered
<1>1. MoveStep /\ SendsStep /\ SendersStep
  BY DEF CoverStep, GoodStep, MoveStep
<1>2. CASE n \in Of("AE")
  <2>1. PICK o \in Server : \E t, k \in Nat :
          Chosen(o, t, k) /\ n.leaderCommit <= k /\ t <= n.term
    BY <1>2 DEF SentCovered
  <2> QED BY <1>1, <2>1, ChosenStays
<1>3. CASE n \notin Of("AE")
  <2> DEFINE y == n.from
  <2>1. y \in Server /\ n.term = currentTerm'[y] /\ n.leaderCommit <= commitIdx'[y]
    BY <1>1, <1>3 DEF SendsStep, SendersStep
  <2> HIDE DEF y
  <2>2. n.leaderCommit \in Nat /\ commitIdx'[y] \in Nat
    <3>1. n \in AppendEntries
      BY MessageFields DEF Of, TypeOK
    <3> QED BY <2>1, <3>1 DEF AppendEntries, TypeOK
  <2>3. PICK o \in Server : \E t, k \in Nat :
          Chosen(o, t, k)' /\ commitIdx'[y] <= k /\ t <= currentTerm'[y]
    BY <2>1, <2>2 DEF CommitCovered
  <2>4. PICK t \in Nat, k \in Nat : Chosen(o, t, k)' /\ commitIdx'[y] <= k /\ t <= currentTerm'[y]
    BY <2>3
  <2> QED BY <2>1, <2>2, <2>4
<1> QED BY <1>2, <1>3

(* What is counted stays acknowledged.                                     *)
LEMMA MatchAckedNext ==
  ASSUME TypeOK, TypeOK', MatchAcked, GoodStep, CoverStep
  PROVE  MatchAcked'
<1>1. /\ TermsMove /\ RolesStep /\ AcksStep /\ MatchStep
  BY DEF CoverStep, MoveStep, GoodStep
<1> SUFFICES ASSUME NEW i \in Server, state'[i] = "Leader", NEW j \in Server \ {i},
                    NEW t \in Nat, NEW k \in Nat, t = currentTerm'[i], k = matchIdx'[i][j],
                    k # 0
             PROVE  j \in Have(i, t, k)'
  <2>1. \A i, j \in Server : currentTerm'[i] \in Nat /\ matchIdx'[i][j] \in Nat
    BY DEF TypeOK
  <2> QED BY <2>1 DEF MatchAcked
<1>2. currentTerm[i] = t
  BY <1>1 DEF RolesStep
<1>3. j \in Have(i, t, k)
  <2>1. CASE state[i] = "Leader" /\ matchIdx'[i][j] = matchIdx[i][j]
    BY <1>2, <2>1 DEF MatchAcked
  <2>2. CASE j \in Have(i, currentTerm[i], matchIdx'[i][j])
    BY <1>2, <2>2
  <2> QED BY <1>1, <2>1, <2>2 DEF MatchStep
<1> QED BY <1>1, <1>3, HaveGrows

-----------------------------------------------------------------------------
(* CommitInv is an invariant where there is more than one vehicle.         *)

LEMMA CommitInvInit ==
  ASSUME Init
  PROVE  CommitInv
<1>1. \A r \in Runs : \A p \in Nat : ~InRun(r, p)
  <2>1. Runs = {LogOf(<<>>) : i \in Server}
    BY DEF Init, Runs, Of
  <2>2. <<>> \in Seq(Entry) /\ Len(<<>>) = 0
    BY EmptySeq
  <2>3. \A p : ~InRun(LogOf(<<>>), p)
    BY <2>2 DEF InRun, LogOf
  <2> QED BY <2>1, <2>3
<1>2. \A type : Of(type) = {}
  BY DEF Init, Of
<1>3. OrderInv
  <2>1. TermsInOrder
    BY <1>1 DEF TermsInOrder, InOrder
  <2>2. TermsWithin
    BY <1>1, <1>2 DEF TermsWithin, Within, Runs
  <2> QED BY <1>2, <2>1, <2>2 DEF OrderInv, RequestsWithin, GrantsWithin, AcksWithin, SentWithin
<1>4. OpenSafe
  BY <1>1 DEF OpenSafe, Open, Stands
<1>5. MatchAcked /\ CommitCovered
  BY DEF Init, MatchAcked, CommitCovered
<1>6. SentCovered
  BY <1>2 DEF SentCovered
<1> QED BY <1>3, <1>4, <1>5, <1>6 DEF CommitInv

LEMMA CommitInvStutter ==
  ASSUME CommitInv, UNCHANGED vars
  PROVE  CommitInv'
<1>1. /\ currentTerm' = currentTerm /\ votedFor' = votedFor /\ state' = state /\ log' = log
      /\ commitIdx' = commitIdx /\ matchIdx' = matchIdx /\ msgs' = msgs
  BY DEF vars, electionVars, logVars, peerVars
<1>2. OrderInv'
  BY <1>1 DEF CommitInv, OrderInv, TermsInOrder, TermsWithin, RequestsWithin, GrantsWithin,
              AcksWithin, SentWithin, Runs, Of
<1>3. OpenSafe'
  BY <1>1 DEF CommitInv, OpenSafe, Open, Led, Elected, Stands, Blocked, Have, Safe, KeepersHold,
              Keeper, Voted, MessagesFollow, Runs, Of
<1>4. MatchAcked'
  BY <1>1 DEF CommitInv, MatchAcked, Have, Of
<1>5. \A o, t, k : Chosen(o, t, k) => Chosen(o, t, k)'
  BY <1>1 DEF Chosen, Led, Elected, Have, Of
<1>6. CommitCovered'
  BY <1>1, <1>5 DEF CommitInv, CommitCovered
<1>7. SentCovered'
  BY <1>1, <1>5 DEF CommitInv, SentCovered, Of
<1> QED BY <1>2, <1>3, <1>4, <1>6, <1>7 DEF CommitInv

LEMMA CommitInvNext ==
  ASSUME MayLeave = {}, Designated = None, \A j \in Server : Server # {j},
         TypeOK, ElectionInv, LogInv, IndexInv, CommitInv, TypeOK', ElectionInv', LogInv', Next
  PROVE  CommitInv'
<1>1. AtMostOneLeaves
  BY DEF AtMostOneLeaves
<1>2. OrderInv /\ OpenSafe /\ MatchAcked /\ CommitCovered /\ SentCovered
  BY DEF CommitInv
<1>3. GoodStep /\ IndexStep /\ CoverStep /\ MoveStep
  BY <1>2, EveryStepIndices, EveryStepCovers DEF CoverStep
<1>4. OrderInv'
  BY <1>2, <1>3, OrderStep
<1>5. OpenSafe'
  BY <1>1, <1>2, <1>3, <1>4, OpenSafeStep
<1>6. MatchAcked'
  BY <1>2, <1>3, MatchAckedNext
<1>7. CommitCovered'
  BY <1>1, <1>2, <1>3, CommitCoveredNext
<1>8. SentCovered'
  BY <1>1, <1>2, <1>3, <1>7, SentCoveredNext
<1> QED BY <1>4, <1>5, <1>6, <1>7, <1>8 DEF CommitInv

LEMMA CommitInvHolds ==
  ASSUME MayLeave = {}, Designated = None, \A j \in Server : Server # {j}
  PROVE  Spec => []CommitInv
<1>1. /\ TypeOK /\ ElectionInv /\ LogInv /\ IndexInv /\ CommitInv
      /\ TypeOK' /\ ElectionInv' /\ LogInv' /\ [Next]_vars
      => CommitInv'
  BY CommitInvNext, CommitInvStutter
<1>2. AtMostOneLeaves
  BY DEF AtMostOneLeaves
<1>3. Spec => []TypeOK /\ []ElectionInv /\ []LogInv /\ []IndexInv
  BY <1>2, TypeCorrect, ElectionInvariant, LogInvHolds, IndexInvHolds, PTL
<1> QED BY <1>1, <1>3, CommitInvInit, PTL DEF Spec

-----------------------------------------------------------------------------
(* What is committed *)

(* Two logs that reach a chosen entry each share what stands before the    *)
(* lower of the two.                                                       *)
LEMMA ChosenShare ==
  ASSUME MayLeave = {}, AtMostOneLeaves, TypeOK, ElectionInv, LogInv, OpenSafe,
         NEW o \in Server, NEW t \in Nat, NEW k \in Nat, Chosen(o, t, k),
         NEW p \in Server, NEW u \in Nat, NEW l \in Nat, Chosen(p, u, l), t <= u,
         NEW c \in Nat, c <= k, c <= l
  PROVE  \A h \in 1..c : log[o][h] = log[p][h]
<1>1. Holds(log[o], k, t) /\ Holds(log[p], l, u)
  BY DEF Chosen
<1>2. CASE t = u
  <2>1. o = p
    BY <1>2, LedOnce DEF Chosen, ElectionInv
  <2> QED BY <2>1
<1>3. CASE t < u
  <2>1. Recent(log[p], t, k)
    BY <1>1, <1>3 DEF Holds, Recent
  <2>2. Holds(log[p], k, t)
    BY <2>1, ChosenSafe DEF Safe, KeepersHold, Keeper
  <2>3. Shares(log[o], log[p], k)
    BY <1>1, <2>2, LogsShare
  <2> QED BY <2>3 DEF Shares
<1> QED BY <1>2, <1>3

LEMMA CommitInvAgrees ==
  ASSUME MayLeave = {}, AtMostOneLeaves, TypeOK, ElectionInv, LogInv, CommitInv
  PROVE  CommittedAgree
<1> SUFFICES ASSUME NEW i \in Server, NEW j \in Server,
                    NEW c \in Nat, c <= commitIdx[i], c <= commitIdx[j], c # 0
             PROVE  \A h \in 1..c : log[i][h] = log[j][h]
  <2>1. \A i, j \in Server : /\ Lower(commitIdx[i], commitIdx[j]) \in Nat
                             /\ Lower(commitIdx[i], commitIdx[j]) <= commitIdx[i]
                             /\ Lower(commitIdx[i], commitIdx[j]) <= commitIdx[j]
    BY DEF TypeOK, Lower
  <2>2. \A i, j \in Server : Lower(commitIdx[i], commitIdx[j]) = 0 \/
          \A h \in 1..Lower(commitIdx[i], commitIdx[j]) : log[i][h] = log[j][h]
    BY <2>1
  <2> QED BY <2>2 DEF CommittedAgree
<1>1. OpenSafe /\ CommitCovered /\ commitIdx[i] \in Nat \ {0} /\ commitIdx[j] \in Nat \ {0}
  BY DEF CommitInv, TypeOK
<1>2. PICK o \in Server, t \in Nat, k \in Nat :
        Chosen(o, t, k) /\ commitIdx[i] <= k /\ \A h \in 1..commitIdx[i] : log[i][h] = log[o][h]
  BY <1>1 DEF CommitCovered
<1>3. PICK p \in Server, u \in Nat, l \in Nat :
        Chosen(p, u, l) /\ commitIdx[j] <= l /\ \A h \in 1..commitIdx[j] : log[j][h] = log[p][h]
  BY <1>1 DEF CommitCovered
<1>4. \A h \in 1..c : log[o][h] = log[p][h]
  <2>1. c <= k /\ c <= l
    BY <1>1, <1>2, <1>3
  <2>2. CASE t <= u
    BY <1>1, <1>2, <1>3, <2>1, <2>2, ChosenShare
  <2>3. CASE u <= t
    BY <1>1, <1>2, <1>3, <2>1, <2>3, ChosenShare
  <2> QED BY <2>2, <2>3
<1> QED BY <1>1, <1>2, <1>3, <1>4

(* "Agreement": no two vehicles ever commit different schedules at one     *)
(* index, however often leaders change and whatever is lost, repeated or   *)
(* overtaken: raft_recv_appendentries_response counts only entries of the  *)
(* leader's own term, and __should_grant_vote refuses a shorter log.       *)
THEOREM CommittedSchedulesAgree ==
  ASSUME MayLeave = {}, Designated = None, \A j \in Server : Server # {j}
  PROVE  Spec => []CommittedAgree
<1>1. AtMostOneLeaves
  BY DEF AtMostOneLeaves
<1>2. TypeOK /\ ElectionInv /\ LogInv /\ CommitInv => CommittedAgree
  BY <1>1, CommitInvAgrees
<1>3. Spec => []TypeOK /\ []ElectionInv /\ []LogInv
  BY <1>1, TypeCorrect, ElectionInvariant, LogInvHolds, PTL
<1> QED BY <1>2, <1>3, CommitInvHolds, PTL

LEMMA CommitInvComplete ==
  ASSUME MayLeave = {}, AtMostOneLeaves, TypeOK, ElectionInv, LogInv, CommitInv
  PROVE  LeaderCompleteness
<1> SUFFICES ASSUME NEW i \in Server, NEW j \in Server, state[i] = "Leader",
                    currentTerm[j] <= currentTerm[i], commitIdx[j] # 0
             PROVE  /\ commitIdx[j] <= Len(log[i])
                    /\ \A h \in 1..commitIdx[j] : log[i][h] = log[j][h]
  <2>1. \A i \in Server : log[i] \in Seq(Entry)
    BY DEF TypeOK
  <2>2. \A i \in Server : 0 <= Len(log[i])
    BY <2>1, LenProperties
  <2>3. \A i, j \in Server : commitIdx[j] = 0 =>
          commitIdx[j] <= Len(log[i]) /\ \A h \in 1..commitIdx[j] : log[i][h] = log[j][h]
    BY <2>2
  <2> QED BY <2>3 DEF LeaderCompleteness
<1>1. /\ OpenSafe /\ CommitCovered /\ commitIdx[j] \in Nat \ {0}
      /\ currentTerm[i] \in Nat /\ currentTerm[j] \in Nat
  BY DEF CommitInv, TypeOK
<1>2. PICK o \in Server, t \in Nat, k \in Nat :
        /\ Chosen(o, t, k) /\ commitIdx[j] <= k /\ t <= currentTerm[j]
        /\ \A h \in 1..commitIdx[j] : log[j][h] = log[o][h]
  BY <1>1 DEF CommitCovered
<1>3. Holds(log[o], k, t) /\ Led(o, t)
  BY <1>2 DEF Chosen
<1>4. Holds(log[i], k, t)
  <2>1. CASE t < currentTerm[i]
    <3>1. KeepersHold(o, t, k) /\ ~Blocked(o, t, k)
      BY <1>1, <1>2, ChosenSafe DEF Safe
    <3> QED BY <2>1, <3>1, LeaderHolds
  <2>2. CASE t = currentTerm[i]
    <3>1. Led(i, t)
      BY <2>2, LeaderLed
    <3>2. i = o
      BY <1>3, <3>1, LedOnce DEF ElectionInv
    <3> QED BY <1>3, <3>2
  <2> QED BY <1>1, <1>2, <2>1, <2>2
<1>5. Shares(log[o], log[i], k)
  BY <1>3, <1>4, LogsShare
<1>6. Len(log[i]) \in Nat
  BY LenProperties DEF TypeOK
<1> QED BY <1>1, <1>2, <1>5, <1>6 DEF Shares

(* Leader completeness: whoever leads a term holds every schedule that any *)
(* vehicle has committed in that term or before, so that what it proposes  *)
(* next comes after what is agreed.                                        *)
THEOREM LeadersAreComplete ==
  ASSUME MayLeave = {}, Designated = None, \A j \in Server : Server # {j}
  PROVE  Spec => []LeaderCompleteness
<1>1. AtMostOneLeaves
  BY DEF AtMostOneLeaves
<1>2. TypeOK /\ ElectionInv /\ LogInv /\ CommitInv => LeaderCompleteness
  BY <1>1, CommitInvComplete
<1>3. Spec => []TypeOK /\ []ElectionInv /\ []LogInv
  BY <1>1, TypeCorrect, ElectionInvariant, LogInvHolds, PTL
<1> QED BY <1>2, <1>3, CommitInvHolds, PTL

LEMMA CommitInvNoConflict ==
  ASSUME MayLeave = {}, AtMostOneLeaves, TypeOK, ElectionInv, LogInv, CommitInv, IndexInv
  PROVE  NoCommittedConflict
<1> SUFFICES ASSUME NEW m \in Of("AE"), NEW x \in Server, x = m.to, currentTerm[x] <= m.term
             PROVE  /\ m.prevIdx \in 1..commitIdx[x] => log[x][m.prevIdx].term = m.prevTerm
                    /\ HasPrev(log[x], m) => \A q \in 0..Len(m.entries) :
                         MatchesUpTo(log[x], m, q) => ~ConflictsWithCommitted(x, m, q)
  <2>1. \A m \in Of("AE") : m.to \in Server /\ m.term \in Nat
    BY MessageTypes
  <2>2. \A x \in Server : currentTerm[x] \in Nat
    BY DEF TypeOK
  <2>3. \A m \in Of("AE") : m.term >= currentTerm[m.to] => currentTerm[m.to] <= m.term
    BY <2>1, <2>2
  <2> QED BY <2>1, <2>3 DEF NoCommittedConflict
<1>1. /\ m \in AppendEntries /\ m.prevIdx \in Nat /\ Len(m.entries) \in Nat /\ m.term \in Nat
      /\ log[x] \in Seq(Entry) /\ Len(log[x]) \in Nat /\ commitIdx[x] \in Nat
      /\ currentTerm[x] \in Nat /\ commitIdx[x] <= Len(log[x])
  BY RunsAreRuns, LenProperties DEF AppendEntries, TypeOK, IndexInv, CommitsWithin
(* What the message says of the committed part, the log says too.          *)
<1>2. ASSUME NEW p \in 1..commitIdx[x], InRun(m, p) PROVE TermIn(m, p) = log[x][p].term
  <2>1. OpenSafe /\ commitIdx[x] # 0
    BY <1>1 DEF CommitInv
  <2>2. PICK o \in Server, t \in Nat, k \in Nat :
          /\ Chosen(o, t, k) /\ commitIdx[x] <= k /\ t <= currentTerm[x]
          /\ \A h \in 1..commitIdx[x] : log[x][h] = log[o][h]
    BY <2>1 DEF CommitInv, CommitCovered
  <2>3. t <= m.term /\ p <= k /\ p \in Nat
    BY <1>1, <2>2
  <2>4. Follows(m, log[o], t, k)
    BY <2>1, <2>2, <2>3, ChosenSafe DEF Safe, MessagesFollow
  <2>5. TermIn(m, p) = log[o][p].term
    BY <1>2, <2>3, <2>4 DEF Follows
  <2> QED BY <2>2, <2>5
<1>3. ASSUME m.prevIdx \in 1..commitIdx[x] PROVE log[x][m.prevIdx].term = m.prevTerm
  <2>1. InRun(m, m.prevIdx) /\ TermIn(m, m.prevIdx) = m.prevTerm
    BY <1>1, <1>3 DEF InRun, TermIn
  <2> QED BY <1>2, <1>3, <2>1
<1>4. ASSUME NEW q \in 0..Len(m.entries), MatchesUpTo(log[x], m, q),
             ConflictsWithCommitted(x, m, q)
      PROVE  FALSE
  <2> DEFINE p == m.prevIdx + q + 1
  <2>1. q < Len(m.entries) /\ p \in 1..commitIdx[x] /\ p \in 1..Len(log[x])
    BY <1>1, <1>4 DEF ConflictsWithCommitted, Lower
  <2>2. InRun(m, p) /\ p # m.prevIdx /\ p - m.prevIdx = q + 1
    BY <1>1, <2>1 DEF InRun
  <2> HIDE DEF p
  <2>3. TermIn(m, p) = m.entries[q + 1].term
    BY <2>2 DEF TermIn, EntryAt
  <2>4. log[x][p].term = m.entries[q + 1].term
    BY <1>2, <2>1, <2>2, <2>3
  <2>5. p \in DOMAIN log[x]
    BY <1>1, <2>1, LenProperties
  <2> QED BY <1>4, <2>1, <2>4, <2>5 DEF MatchesUpTo, Holds, p
<1> QED BY <1>3, <1>4

(* "Should never happen; something is seriously wrong!" does never happen: *)
(* no AppendEntries that its receiver would still accept contradicts what  *)
(* the receiver has committed, so raft_recv_appendentries never returns    *)
(* RAFT_ERR_SHUTDOWN.                                                      *)
THEOREM CommittedNeverContradicted ==
  ASSUME MayLeave = {}, Designated = None, \A j \in Server : Server # {j}
  PROVE  Spec => []NoCommittedConflict
<1>1. AtMostOneLeaves
  BY DEF AtMostOneLeaves
<1>2. TypeOK /\ ElectionInv /\ LogInv /\ IndexInv /\ CommitInv => NoCommittedConflict
  BY <1>1, CommitInvNoConflict
<1>3. Spec => []TypeOK /\ []ElectionInv /\ []LogInv
  BY <1>1, TypeCorrect, ElectionInvariant, LogInvHolds, PTL
<1> QED BY <1>2, <1>3, CommitInvHolds, IndexInvHolds, PTL

-----------------------------------------------------------------------------
(* LibRaft implements AgreedLog *)

(* Some vehicle has committed furthest: a step moves one commit_idx, and   *)
(* moves it up.                                                            *)
FurthestExists == \E i \in Server : \A j \in Server : commitIdx[j] <= commitIdx[i]

LEMMA FurthestNext ==
  ASSUME TypeOK, TypeOK', FurthestExists, OneMoves, CommitStep
  PROVE  FurthestExists'
<1>1. PICK f \in Server : \A j \in Server : commitIdx[j] <= commitIdx[f]
  BY DEF FurthestExists
<1>2. PICK x \in Server : \A y \in Server \ {x} : commitIdx'[y] = commitIdx[y]
  BY DEF OneMoves
<1>3. /\ \A y \in Server : commitIdx[y] \in Nat /\ commitIdx'[y] \in Nat
      /\ \A y \in Server : commitIdx[y] <= commitIdx'[y]
  BY DEF TypeOK, CommitStep
<1>4. CASE commitIdx'[x] <= commitIdx'[f]
  <2>1. \A y \in Server : commitIdx'[y] <= commitIdx'[f]
    BY <1>1, <1>2, <1>3, <1>4
  <2> QED BY <2>1 DEF FurthestExists
<1>5. CASE commitIdx'[f] <= commitIdx'[x]
  <2>1. \A y \in Server : commitIdx'[y] <= commitIdx'[x]
    BY <1>1, <1>2, <1>3, <1>5
  <2> QED BY <2>1 DEF FurthestExists
<1> QED BY <1>3, <1>4, <1>5

(* The first entries of a log extend fewer first entries that are the      *)
(* same.                                                                   *)
LEMMA FirstExtends ==
  ASSUME NEW l \in Seq(Entry), NEW n \in Seq(Entry), NEW k \in 0..Len(l), NEW c \in 0..Len(n),
         c <= k, \A h \in 1..c : l[h] = n[h]
  PROVE  Agreed!Extends(SubSeq(l, 1, k), SubSeq(n, 1, c))
<1> DEFINE a == SubSeq(l, 1, k)
           b == SubSeq(n, 1, c)
<1>1. /\ a \in Seq(Entry) /\ Len(a) = k /\ (\A h \in 1..k : a[h] = l[h])
      /\ b \in Seq(Entry) /\ Len(b) = c /\ (\A h \in 1..c : b[h] = n[h])
  BY DeletedLog
<1>2. k \in Nat /\ c \in Nat
  BY LenProperties
<1> HIDE DEF a, b
<1>3. SubSeq(a, 1, c) = SubSeq(b, 1, c)
  <2>1. \A h \in 1..c : a[h] = b[h]
    BY <1>1, <1>2
  <2> QED BY <1>1, <1>2, <2>1, SamePrefix
<1>4. SubSeq(b, 1, c) = b
  <2>1. /\ SubSeq(b, 1, c) \in Seq(Entry) /\ Len(SubSeq(b, 1, c)) = c
        /\ \A h \in 1..c : SubSeq(b, 1, c)[h] = b[h]
    BY <1>1, <1>2, DeletedLog
  <2> QED BY <1>1, <2>1, SeqEqual
<1> QED BY <1>1, <1>3, <1>4 DEF Agreed!Extends, a, b

(* What a vehicle has applied grows along with what it has committed.      *)
LEMMA AppliedGrows ==
  ASSUME TypeOK, TypeOK', CommitsWithin, CommitsWithin', CommitStep,
         NEW y \in Server, lastApplied'[y] = lastApplied[y] \/ lastApplied'[y] = commitIdx[y]
  PROVE  /\ Agreed!Extends(SubSeq(log'[y], 1, lastApplied'[y]), SubSeq(log[y], 1, lastApplied[y]))
         /\ lastApplied'[y] = lastApplied[y] =>
              SubSeq(log'[y], 1, lastApplied'[y]) = SubSeq(log[y], 1, lastApplied[y])
<1>1. /\ log[y] \in Seq(Entry) /\ log'[y] \in Seq(Entry)
      /\ commitIdx[y] \in Nat /\ commitIdx'[y] \in Nat
      /\ lastApplied[y] \in Nat /\ lastApplied'[y] \in Nat
  BY DEF TypeOK
<1>2. Len(log[y]) \in Nat /\ Len(log'[y]) \in Nat
  BY <1>1, LenProperties
<1>3. /\ lastApplied[y] <= commitIdx[y] /\ commitIdx[y] <= Len(log[y])
      /\ lastApplied'[y] <= commitIdx'[y] /\ commitIdx'[y] <= Len(log'[y])
      /\ commitIdx[y] <= commitIdx'[y]
      /\ SubSeq(log'[y], 1, commitIdx[y]) = SubSeq(log[y], 1, commitIdx[y])
  BY DEF CommitsWithin, CommitStep
<1>4. \A h \in 1..commitIdx[y] : log'[y][h] = log[y][h]
  BY <1>1, <1>2, <1>3, FirstSame
<1>5. \A h \in 1..lastApplied[y] : log'[y][h] = log[y][h]
  BY <1>1, <1>3, <1>4
<1>6. /\ lastApplied[y] \in 0..Len(log[y]) /\ lastApplied'[y] \in 0..Len(log'[y])
      /\ lastApplied[y] <= lastApplied'[y]
      /\ lastApplied[y] <= Len(log[y]) /\ lastApplied[y] <= Len(log'[y])
  BY <1>1, <1>2, <1>3
<1> QED BY <1>1, <1>5, <1>6, FirstExtends, SamePrefix, ZenonT(40)

LEMMA AgreedStep ==
  ASSUME TypeOK, TypeOK', CommitsWithin, CommitsWithin', CommittedAgree', CommitStep, OneMoves,
         FurthestExists, FurthestExists'
  PROVE  Agreed!Next
<1> DEFINE f == Furthest
           g == Furthest'
<1>1. /\ f \in Server /\ \A j \in Server : commitIdx[j] <= commitIdx[f]
      /\ g \in Server /\ \A j \in Server : commitIdx'[j] <= commitIdx'[g]
  BY DEF FurthestExists, Furthest
<1>2. \A i \in Server : /\ log[i] \in Seq(Entry) /\ log'[i] \in Seq(Entry)
                        /\ commitIdx[i] \in Nat /\ commitIdx'[i] \in Nat
                        /\ lastApplied[i] \in Nat /\ lastApplied'[i] \in Nat
  BY DEF TypeOK
<1>3. \A i \in Server : Len(log[i]) \in Nat /\ Len(log'[i]) \in Nat
  BY <1>2, LenProperties
<1>4. \A i \in Server :
        /\ commitIdx[i] <= Len(log[i]) /\ commitIdx'[i] <= Len(log'[i])
        /\ commitIdx[i] <= commitIdx'[i] /\ lastApplied'[i] <= commitIdx'[i]
        /\ SubSeq(log'[i], 1, commitIdx[i]) = SubSeq(log[i], 1, commitIdx[i])
  BY DEF CommitsWithin, CommitStep
<1>5. ASSUME NEW i \in Server, NEW j \in Server, NEW c \in Nat,
             c <= commitIdx'[i], c <= commitIdx'[j]
      PROVE  \A h \in 1..c : log'[i][h] = log'[j][h]
  <2>1. \A h \in 1..Lower(commitIdx'[i], commitIdx'[j]) : log'[i][h] = log'[j][h]
    BY DEF CommittedAgree
  <2>2. c <= Lower(commitIdx'[i], commitIdx'[j]) /\ Lower(commitIdx'[i], commitIdx'[j]) \in Nat
    BY <1>2, <1>5 DEF Lower
  <2> QED BY <2>1, <2>2
<1>6. PICK x \in Server :
        /\ \A y \in Server \ {x} : commitIdx'[y] = commitIdx[y] /\ lastApplied'[y] = lastApplied[y]
        /\ lastApplied'[x] = lastApplied[x] \/ (commitIdx'[x] = commitIdx[x] /\ lastApplied'[x] = commitIdx[x])
  BY DEF OneMoves
<1>7. \A y \in Server :
        /\ Agreed!Extends(SubSeq(log'[y], 1, lastApplied'[y]), SubSeq(log[y], 1, lastApplied[y]))
        /\ lastApplied'[y] = lastApplied[y] =>
             SubSeq(log'[y], 1, lastApplied'[y]) = SubSeq(log[y], 1, lastApplied[y])
  BY <1>6, AppliedGrows
<1> HIDE DEF f, g
(* Nobody commits: x applies what it has committed.                        *)
<1>8. CASE commitIdx' = commitIdx
  <2>1. g = f
    BY <1>8 DEF Furthest, f, g
  <2>2. SubSeq(log'[g], 1, commitIdx'[g]) = SubSeq(log[f], 1, commitIdx[f])
    BY <1>1, <1>4, <1>8, <2>1
  <2>3. Agreed!Extends(SubSeq(log'[g], 1, commitIdx'[g]), SubSeq(log'[x], 1, lastApplied'[x]))
    <3>1. lastApplied'[x] <= commitIdx'[x] /\ lastApplied'[x] <= commitIdx'[g]
      BY <1>1, <1>2, <1>4, <1>6
    <3>2. \A h \in 1..lastApplied'[x] : log'[g][h] = log'[x][h]
      BY <1>1, <1>2, <1>5, <3>1
    <3>3. commitIdx'[g] \in 0..Len(log'[g]) /\ lastApplied'[x] \in 0..Len(log'[x])
      BY <1>1, <1>2, <1>3, <1>4, <3>1
    <3> QED BY <1>1, <1>2, <3>1, <3>2, <3>3, FirstExtends
  <2>4. \A y \in Server \ {x} :
          SubSeq(log'[y], 1, lastApplied'[y]) = SubSeq(log[y], 1, lastApplied[y])
    BY <1>6, <1>7
  <2>5. Agreed!Apply(x)
    BY <1>7, <2>2, <2>3, <2>4 DEF Agreed!Apply, Agreed!Extends, f, g
  <2> QED BY <2>5 DEF Agreed!Next
(* x commits: what is agreed grows, and nobody applies anything.           *)
<1>9. CASE lastApplied'[x] = lastApplied[x]
  <2>1. \A y \in Server : SubSeq(log'[y], 1, lastApplied'[y]) = SubSeq(log[y], 1, lastApplied[y])
    BY <1>6, <1>7, <1>9
  <2>2. commitIdx[f] <= commitIdx'[f] /\ commitIdx[f] <= commitIdx'[g]
    BY <1>1, <1>2, <1>4
  <2>3. \A h \in 1..commitIdx[f] : log'[g][h] = log[f][h]
    <3>1. \A h \in 1..commitIdx[f] : log'[g][h] = log'[f][h]
      BY <1>1, <1>2, <1>5, <2>2
    <3>2. \A h \in 1..commitIdx[f] : log'[f][h] = log[f][h]
      <4>1. commitIdx[f] <= Len(log[f]) /\ commitIdx[f] <= Len(log'[f])
        BY <1>1, <1>2, <1>3, <1>4, <2>2
      <4> QED BY <1>1, <1>2, <1>4, <4>1, FirstSame
    <3> QED BY <3>1, <3>2
  <2>4. commitIdx'[g] \in 0..Len(log'[g]) /\ commitIdx[f] \in 0..Len(log[f])
    BY <1>1, <1>2, <1>3, <1>4
  <2>5. Agreed!Extends(SubSeq(log'[g], 1, commitIdx'[g]), SubSeq(log[f], 1, commitIdx[f]))
    BY <1>1, <1>2, <2>2, <2>3, <2>4, FirstExtends
  <2>6. SubSeq(log'[g], 1, commitIdx'[g]) \in Seq(Entry)
    BY <1>1, <1>2, <2>4, DeletedLog
  <2>7. Agreed!Agree
    BY <2>1, <2>5, <2>6 DEF Agreed!Agree, Agreed!Extends, f, g
  <2> QED BY <2>7 DEF Agreed!Next
<1>10. commitIdx'[x] = commitIdx[x] => commitIdx' = commitIdx
  BY <1>6 DEF TypeOK
<1> QED BY <1>6, <1>8, <1>9, <1>10

(* The vehicles agree on one growing sequence of schedules, and each       *)
(* applies a prefix of it, in order, and never takes it back: raft keeps   *)
(* its promise for any number of vehicles, terms and schedules.            *)
THEOREM RaftImplementsAgreedLog ==
  ASSUME MayLeave = {}, Designated = None, Server # {}, \A j \in Server : Server # {j}
  PROVE  Spec => ImplementsAgreedLog
<1>1. AtMostOneLeaves
  BY DEF AtMostOneLeaves
<1>2. Init => Agreed!Init /\ FurthestExists
  <2> SUFFICES ASSUME Init PROVE Agreed!Init /\ FurthestExists
    OBVIOUS
  <2>1. /\ log = [i \in Server |-> <<>>]
        /\ commitIdx = [i \in Server |-> 0] /\ lastApplied = [i \in Server |-> 0]
    BY DEF Init
  <2>2. FurthestExists
    BY <2>1 DEF FurthestExists
  <2>3. Furthest \in Server
    BY <2>2 DEF FurthestExists, Furthest
  <2>4. SubSeq(<<>>, 1, 0) = <<>>
    BY EmptySeq, SubSeqProperties
  <2> QED BY <2>1, <2>2, <2>3, <2>4 DEF Agreed!Init
<1> DEFINE agreed == SubSeq(log[Furthest], 1, commitIdx[Furthest])
           applied == [i \in Server |-> SubSeq(log[i], 1, lastApplied[i])]
<1>3. /\ TypeOK /\ ElectionInv /\ LogInv /\ IndexInv /\ FurthestExists
      /\ TypeOK' /\ IndexInv' /\ CommittedAgree' /\ MatchAcked /\ [Next]_vars
      => FurthestExists' /\ [Agreed!Next]_<<agreed, applied>>
  <2> SUFFICES ASSUME TypeOK, ElectionInv, LogInv, IndexInv, FurthestExists,
                      TypeOK', IndexInv', CommittedAgree', MatchAcked, [Next]_vars
               PROVE  FurthestExists' /\ [Agreed!Next]_<<agreed, applied>>
    OBVIOUS
  <2>1. CASE UNCHANGED vars
    <3>1. log' = log /\ commitIdx' = commitIdx /\ lastApplied' = lastApplied
      BY <2>1 DEF vars, logVars
    <3>2. FurthestExists'
      BY <3>1 DEF FurthestExists
    <3>3. Furthest' = Furthest
      BY <3>1 DEF Furthest
    <3> QED BY <3>1, <3>2, <3>3
  <2>2. CASE Next
    <3>1. CommitStep /\ OneMoves
      BY <2>2, EveryStepIndices, EveryStepCovers DEF IndexStep, CoverStep
    <3>2. FurthestExists'
      BY <3>1, FurthestNext
    <3>3. Agreed!Next
      BY <3>1, <3>2, AgreedStep DEF IndexInv
    <3> QED BY <3>2, <3>3
  <2> QED BY <2>1, <2>2
<1>4. CommitInv => MatchAcked
  BY DEF CommitInv
<1>5. Spec => []TypeOK /\ []ElectionInv /\ []LogInv /\ []IndexInv
  BY <1>1, TypeCorrect, ElectionInvariant, LogInvHolds, IndexInvHolds, PTL
<1>6. Spec => []CommitInv /\ []CommittedAgree
  BY CommitInvHolds, CommittedSchedulesAgree, PTL
<1> QED BY <1>2, <1>3, <1>4, <1>5, <1>6, PTL DEF Spec, ImplementsAgreedLog, Agreed!Spec
=============================================================================
