---------------------------- MODULE LibRaftProof ----------------------------
(* Theorems about LibRaft for any number of vehicles and any bounds.  Type *)
(* correctness.  One leader a term, as long as at most one vehicle may be  *)
(* taken to have left while raft runs, and no vehicle is made leader by    *)
(* its id: the run designated shows that the second assumption cannot be   *)
(* dropped.  Entries of one index and term are the same schedule after the *)
(* same schedules (LogMatching), under the same assumptions.  And where    *)
(* nobody is marked inactive while raft runs: indices stay within the log, *)
(* and what is committed is never rewritten.                               *)
EXTENDS LibRaft, SequenceTheorems, FiniteSetTheorems, TLAPS

-----------------------------------------------------------------------------
(* Parts of a log are logs. *)

(* A prefix or a suffix of a log is a log.                                 *)
LEMMA PartOfLog ==
  ASSUME NEW l \in Seq(Entry), NEW p \in Nat \ {0}, NEW q \in 0..Len(l)
  PROVE  SubSeq(l, p, q) \in Seq(Entry)
<1>1. \A k \in p..q : l[k] \in Entry
  BY ElementOfSeq
<1> QED
  BY <1>1, SubSeqProperties

(* The term of an entry, and 0 where there is none.                        *)
LEMMA TermAtType ==
  ASSUME NEW l \in Seq(Entry), NEW idx \in Int
  PROVE  TermAt(l, idx) \in Nat
<1>1. CASE idx \in DOMAIN l
  <2>1. l[idx] \in Entry
    BY <1>1, ElementOfSeq, LenProperties
  <2> QED
    BY <1>1, <2>1 DEF TermAt, Entry
<1>2. CASE idx \notin DOMAIN l
  BY <1>2 DEF TermAt
<1> QED
  BY <1>1, <1>2

(* raft_send_appendentries builds a well-formed message from any next_idx. *)
LEMMA AppendEntriesToType ==
  ASSUME NEW i \in Server, NEW j \in Server, NEW term \in Nat,
         NEW next \in Nat \ {0}, NEW l \in Seq(Entry), NEW commit \in Nat
  PROVE  AppendEntriesTo(i, j, term, next, l, commit) \in Message
<1>1. SubSeq(l, next, Len(l)) \in Seq(Entry)
  BY PartOfLog, LenProperties
<1>2. TermAt(l, next - 1) \in Nat
  BY TermAtType
<1>3. (IF next - 1 \in DOMAIN l THEN next - 1 ELSE 0) \in Nat
  OBVIOUS
<1> QED
  BY <1>1, <1>2, <1>3 DEF AppendEntriesTo, Message, AppendEntries

(* Merging what a leader sends into a log gives a log: the entries kept of *)
(* the old log are all there.                                              *)
LEMMA MergedType ==
  ASSUME NEW l \in Seq(Entry), NEW m \in AppendEntries, HasPrev(l, m),
         NEW k \in 0..Len(m.entries), MatchesUpTo(l, m, k)
  PROVE  /\ Merged(l, m, k) \in Seq(Entry)
         /\ m.prevIdx + k <= Len(l)
<1>1. m.entries \in Seq(Entry) /\ m.prevIdx \in Nat /\ Len(m.entries) \in Nat /\ Len(l) \in Nat
  BY LenProperties DEF AppendEntries
<1>2. m.prevIdx + k <= Len(l)
  <2>1. CASE k = 0
    BY <1>1, <2>1, LenProperties DEF HasPrev, Holds
  <2>2. CASE k # 0
    <3>1. Holds(l, m.prevIdx + k, m.entries[k].term)
      BY <2>2, <1>1 DEF MatchesUpTo
    <3> QED
      BY <3>1, <1>1, LenProperties DEF Holds
  <2> QED
    BY <2>1, <2>2
<1>3. CASE k = Len(m.entries)
  BY <1>2, <1>3 DEF Merged
<1>4. CASE k # Len(m.entries)
  <2>1. SubSeq(l, 1, m.prevIdx + k) \in Seq(Entry)
    BY <1>1, <1>2, PartOfLog
  <2>2. SubSeq(m.entries, k + 1, Len(m.entries)) \in Seq(Entry)
    BY <1>1, PartOfLog
  <2> QED
    BY <1>2, <1>4, <2>1, <2>2, ConcatProperties DEF Merged
<1> QED
  BY <1>3, <1>4
-----------------------------------------------------------------------------
(* The pieces the actions are made of. *)

(* A message of one type has the fields of that type.                      *)
LEMMA MessageFields ==
  ASSUME NEW m \in Message
  PROVE  /\ m.type = "RV" => m \in RequestVote
         /\ m.type = "RVR" => m \in RequestVoteResponse
         /\ m.type = "AE" => m \in AppendEntries
         /\ m.type = "AER" => m \in AppendEntriesResponse
BY DEF Message, RequestVote, RequestVoteResponse, AppendEntries, AppendEntriesResponse

(* raft_become_leader.                                                     *)
LEMMA BecomeLeaderType ==
  ASSUME TypeOK, NEW i \in Server, NEW term \in Nat, BecomeLeader(i, term)
  PROVE  /\ state' \in [Server -> {"Follower", "Candidate", "Leader"}]
         /\ currentLeader' \in [Server -> Server \cup {None}]
         /\ votedFor' \in [Server -> Server \cup {None}]
         /\ nextIdx' \in [Server -> [Server -> Nat \ {0}]]
         /\ matchIdx' \in [Server -> [Server -> Nat]]
         /\ msgs' \subseteq Message
<1> DEFINE next == Len(log[i]) + 1
<1>1. next \in Nat \ {0}
  BY LenProperties DEF TypeOK
<1>2. nextIdx' \in [Server -> [Server -> Nat \ {0}]]
  <2>1. nextIdx' = [nextIdx EXCEPT ![i] =
                      [j \in Server |-> IF j \in Peers(i) THEN next ELSE @[j]]]
    BY DEF BecomeLeader
  <2>2. [j \in Server |-> IF j \in Peers(i) THEN next ELSE nextIdx[i][j]]
          \in [Server -> Nat \ {0}]
    BY <1>1 DEF TypeOK
  <2> HIDE DEF next
  <2> QED
    BY <2>1, <2>2 DEF TypeOK
<1>3. matchIdx' \in [Server -> [Server -> Nat]]
  <2>1. [j \in Server |-> IF j \in Peers(i) THEN 0 ELSE matchIdx[i][j]]
          \in [Server -> Nat]
    BY DEF TypeOK
  <2> QED
    BY <2>1 DEF TypeOK, BecomeLeader
<1>4. \A j \in Peers(i) :
        AppendEntriesTo(i, j, term, next, log[i], commitIdx[i]) \in Message
  BY <1>1, AppendEntriesToType DEF TypeOK, Peers
<1>5. msgs' \subseteq Message
  <2>1. msgs' = msgs \cup {AppendEntriesTo(i, j, term, next, log[i], commitIdx[i]) :
                            j \in Peers(i)}
    BY DEF BecomeLeader, Send
  <2> HIDE DEF next
  <2> QED
    BY <1>4, <2>1 DEF TypeOK
<1> QED
  BY <1>2, <1>3, <1>5 DEF TypeOK, BecomeLeader

(* FollowLeader and StepDown.                                              *)
LEMMA FollowLeaderType ==
  ASSUME TypeOK, NEW i \in Server, NEW m \in AppendEntries, FollowLeader(i, m)
  PROVE  /\ currentTerm' \in [Server -> Nat]
         /\ votedFor' \in [Server -> Server \cup {None}]
         /\ state' \in [Server -> {"Follower", "Candidate", "Leader"}]
         /\ currentLeader' \in [Server -> Server \cup {None}]
BY DEF FollowLeader, TypeOK, AppendEntries

LEMMA StepDownType ==
  ASSUME TypeOK, NEW i \in Server, NEW term \in Nat, StepDown(i, term, None)
  PROVE  /\ currentTerm' \in [Server -> Nat]
         /\ votedFor' \in [Server -> Server \cup {None}]
         /\ state' \in [Server -> {"Follower", "Candidate", "Leader"}]
         /\ currentLeader' \in [Server -> Server \cup {None}]
BY DEF StepDown, TypeOK
-----------------------------------------------------------------------------
(* Every step keeps the types. *)

(* formCluster, markRaftNodeInactive and raft_recv_entry.                  *)
LEMMA MembershipType ==
  ASSUME TypeOK, NEW i \in Server, FormCluster(i)
  PROVE  TypeOK'
<1>1. CASE i = Designated
  <2>1. BecomeLeader(i, 1) /\ currentTerm' = [currentTerm EXCEPT ![i] = 1]
    BY <1>1 DEF FormCluster
  <2> QED
    BY <2>1, BecomeLeaderType DEF FormCluster, TypeOK, logVars
<1>2. CASE i # Designated
  BY <1>2 DEF FormCluster, TypeOK, logVars, peerVars
<1> QED
  BY <1>1, <1>2

LEMMA MarkInactiveType ==
  ASSUME TypeOK, NEW i \in Server, NEW j \in Server, MarkInactive(i, j)
  PROVE  TypeOK'
BY DEF MarkInactive, TypeOK, electionVars, logVars, peerVars

LEMMA RecvEntryType ==
  ASSUME TypeOK, NEW i \in Server, RecvEntry(i)
  PROVE  TypeOK'
<1> DEFINE new == Append(log[i], [term |-> currentTerm[i], owner |-> i])
<1>1. new \in Seq(Entry) /\ Len(new) \in Nat \ {0}
  <2>1. [term |-> currentTerm[i], owner |-> i] \in Entry
    BY DEF TypeOK, Entry
  <2> QED
    BY <2>1, AppendProperties, LenProperties DEF TypeOK
<1>2. \A j \in Peers(i) :
        AppendEntriesTo(i, j, currentTerm[i], Len(new), new, commitIdx[i]) \in Message
  BY <1>1, AppendEntriesToType DEF TypeOK, Peers
<1>3. /\ log' = [log EXCEPT ![i] = new]
      /\ commitIdx' = [commitIdx EXCEPT ![i] = IF OnlyVoter(i) THEN Len(new) ELSE @]
      /\ msgs' = msgs \cup
           {AppendEntriesTo(i, j, currentTerm[i], Len(new), new, commitIdx[i]) :
              j \in {k \in Peers(i) : nextIdx[i][k] = Len(new)}}
      /\ UNCHANGED <<memberVars, electionVars, peerVars, lastApplied>>
  BY DEF RecvEntry, Send
<1> HIDE DEF new
<1> QED
  BY <1>1, <1>2, <1>3 DEF TypeOK, memberVars, electionVars, peerVars

(* raft_periodic.                                                          *)
LEMMA PeriodicType ==
  ASSUME TypeOK, NEW i \in Server, Periodic(i)
  PROVE  TypeOK'
<1>0. ApplyAll(i)
  BY DEF Periodic
<1>1. CASE PeriodicOnlyVoter(i)
  <2>1. BecomeLeader(i, currentTerm[i]) /\ currentTerm[i] \in Nat
    BY <1>1 DEF PeriodicOnlyVoter, TypeOK
  <2> QED
    BY <1>0, <1>1, <2>1, BecomeLeaderType DEF PeriodicOnlyVoter, ApplyAll, TypeOK, memberVars
<1>2. CASE PeriodicElection(i)
  <2>1. currentTerm' \in [Server -> Nat] /\ currentTerm'[i] \in Nat
    BY <1>2 DEF PeriodicElection, TypeOK
  <2>2. \A j \in Peers(i) :
          [type |-> "RV", from |-> i, to |-> j, term |-> currentTerm'[i],
           lastIdx |-> Len(log[i]), lastTerm |-> LastTerm(log[i])] \in Message
    <3>1. Len(log[i]) \in Nat /\ LastTerm(log[i]) \in Nat
      BY TermAtType, LenProperties DEF LastTerm, TypeOK
    <3> QED
      BY <2>1, <3>1 DEF Message, RequestVote, Peers, TypeOK
  <2>3. msgs' \subseteq Message
    BY <1>2, <2>2 DEF PeriodicElection, Send, TypeOK
  <2> QED
    BY <1>0, <1>2, <2>1, <2>3 DEF PeriodicElection, ApplyAll, TypeOK, memberVars, peerVars
<1>3. CASE PeriodicHeartbeat(i)
  <2>1. \A j \in Peers(i) :
          AppendEntriesTo(i, j, currentTerm[i], nextIdx[i][j], log[i], commitIdx[i])
            \in Message
    BY AppendEntriesToType DEF TypeOK, Peers
  <2>2. msgs' \subseteq Message
    BY <1>3, <2>1 DEF PeriodicHeartbeat, Send, TypeOK
  <2> QED
    BY <1>0, <1>3, <2>2 DEF PeriodicHeartbeat, ApplyAll, TypeOK, memberVars, electionVars, peerVars
<1>4. CASE PeriodicIdle(i)
  BY <1>0, <1>4 DEF PeriodicIdle, ApplyAll, TypeOK, memberVars, electionVars, peerVars
<1> QED
  BY <1>1, <1>2, <1>3, <1>4 DEF Periodic

(* raft_recv_requestvote.                                                  *)
LEMMA RecvRequestVoteType ==
  ASSUME TypeOK, NEW i \in Server, NEW m \in msgs, RecvRequestVote(i, m)
  PROVE  TypeOK'
<1>1. m \in RequestVote
  BY MessageFields DEF RecvRequestVote, TypeOK
<1>2. \A term \in Nat, granted \in BOOLEAN : VoteReply(i, m, term, granted) \in Message
  BY <1>1 DEF VoteReply, Message, RequestVoteResponse, RequestVote
<1>3. CASE RefuseForLeader(i, m)
  BY <1>2, <1>3 DEF RefuseForLeader, Send, TypeOK, memberVars, electionVars, logVars, peerVars
<1>4. CASE ConsiderVote(i, m)
  <2>1. currentTerm' \in [Server -> Nat]
    BY <1>1, <1>4 DEF ConsiderVote, TypeOK, RequestVote
  <2>2. PICK granted \in BOOLEAN : Send({VoteReply(i, m, currentTerm'[i], granted)})
    <3> DEFINE vote == IF currentTerm[i] < m.term THEN None ELSE votedFor[i]
    <3>1. ShouldGrantVote(i, m, vote) \in BOOLEAN
      BY DEF ShouldGrantVote
    <3> QED
      BY <1>4, <3>1 DEF ConsiderVote
  <2>3. msgs' \subseteq Message
    BY <1>2, <2>1, <2>2 DEF Send, TypeOK
  <2> QED
    BY <1>1, <1>4, <2>1, <2>3
    DEF ConsiderVote, TypeOK, RequestVote, memberVars, logVars, peerVars
<1> QED
  BY <1>3, <1>4 DEF RecvRequestVote

(* raft_recv_requestvote_response.                                         *)
LEMMA RecvRequestVoteResponseType ==
  ASSUME TypeOK, NEW i \in Server, NEW m \in msgs, RecvRequestVoteResponse(i, m)
  PROVE  TypeOK'
<1>1. m \in RequestVoteResponse
  BY MessageFields DEF RecvRequestVoteResponse, TypeOK
<1>2. CASE StepDown(i, m.term, None)
           /\ UNCHANGED <<memberVars, voteForMe, logVars, peerVars, msgs>>
  <2>1. m.term \in Nat
    BY <1>1 DEF RequestVoteResponse
  <2> QED
    BY <1>2, <2>1, StepDownType DEF TypeOK, memberVars, logVars, peerVars
<1>3. CASE CountVote(i, m)
  <2>1. voteForMe' \in [Server -> SUBSET Server]
    BY <1>1, <1>3 DEF CountVote, TypeOK, RequestVoteResponse
  <2>2. CASE BecomeLeader(i, currentTerm[i])
    <3>1. currentTerm[i] \in Nat
      BY DEF TypeOK
    <3> QED
      BY <1>3, <2>1, <2>2, <3>1, BecomeLeaderType DEF CountVote, TypeOK, memberVars, logVars
  <2>3. CASE UNCHANGED <<votedFor, state, currentLeader, peerVars, msgs>>
    BY <1>3, <2>1, <2>3 DEF CountVote, TypeOK, memberVars, logVars, peerVars
  <2> QED
    BY <1>3, <2>2, <2>3 DEF CountVote
<1> QED
  BY <1>2, <1>3 DEF RecvRequestVoteResponse

(* The reply to an AppendEntries.                                          *)
LEMMA AppendReplyType ==
  ASSUME NEW i \in Server, NEW m \in AppendEntries,
         NEW term \in Nat, NEW success \in BOOLEAN, NEW idx \in Nat
  PROVE  AppendReply(i, m, term, success, idx) \in Message
BY DEF AppendReply, Message, AppendEntriesResponse, AppendEntries

(* raft_recv_appendentries.                                                *)
LEMMA RecvAppendEntriesType ==
  ASSUME TypeOK, NEW i \in Server, NEW m \in msgs, RecvAppendEntries(i, m)
  PROVE  TypeOK'
<1>1. m \in AppendEntries
  BY MessageFields DEF RecvAppendEntries, TypeOK
<1>2. /\ m.prevIdx \in Nat /\ m.entries \in Seq(Entry) /\ Len(m.entries) \in Nat
      /\ m.leaderCommit \in Nat /\ m.term \in Nat
  BY <1>1, LenProperties DEF AppendEntries
<1>4. log[i] \in Seq(Entry) /\ Len(log[i]) \in Nat /\ commitIdx[i] \in Nat
      /\ currentTerm[i] \in Nat
  BY LenProperties DEF TypeOK
<1>5. CASE AppendStale(i, m)
  <2>1. AppendReply(i, m, currentTerm[i], FALSE, Len(log[i])) \in Message
    BY <1>1, <1>4, AppendReplyType
  <2> QED
    BY <1>5, <2>1
    DEF AppendStale, Send, TypeOK, memberVars, electionVars, logVars, peerVars
<1>6. CASE AppendMismatch(i, m)
  <2>1. log' \in [Server -> Seq(Entry)]
    <3>1. CASE commitIdx[i] < m.prevIdx
      <4>1. Lower(m.prevIdx - 1, Len(log[i])) \in 0..Len(log[i])
        BY <1>2, <1>4, <3>1 DEF Lower
      <4>2. SubSeq(log[i], 1, Lower(m.prevIdx - 1, Len(log[i]))) \in Seq(Entry)
        BY <1>4, <4>1, PartOfLog
      <4> QED
        BY <1>6, <3>1, <4>2 DEF AppendMismatch, TypeOK
    <3>2. CASE ~(commitIdx[i] < m.prevIdx)
      BY <1>6, <3>2 DEF AppendMismatch, TypeOK
    <3> QED
      BY <3>1, <3>2
  <2>2. Len(log'[i]) \in Nat
    BY <2>1, LenProperties
  <2>3. msgs' \subseteq Message
    <3>1. AppendReply(i, m, m.term, FALSE, Len(log'[i])) \in Message
      BY <1>1, <1>2, <2>2, AppendReplyType
    <3> QED
      BY <1>6, <3>1 DEF AppendMismatch, Send, TypeOK
  <2>4. FollowLeader(i, m)
    BY <1>6 DEF AppendMismatch
  <2> QED
    BY <1>1, <1>6, <2>1, <2>3, <2>4, FollowLeaderType
    DEF AppendMismatch, FollowLeader, TypeOK, memberVars, peerVars
<1>7. CASE AppendMatch(i, m)
  <2>1. FollowLeader(i, m) /\ HasPrev(log[i], m)
    BY <1>7 DEF AppendMatch
  <2>2. PICK k \in 0..Len(m.entries) :
          /\ MatchesUpTo(log[i], m, k)
          /\ AppendAccept(i, m, k) \/ AppendShutdown(i, m, k)
    BY <1>7 DEF AppendMatch
  <2>3. /\ log' \in [Server -> Seq(Entry)] /\ commitIdx' \in [Server -> Nat]
        /\ lastApplied' = lastApplied /\ msgs' \subseteq Message
    <3>1. CASE AppendAccept(i, m, k)
      <4>1. Merged(log[i], m, k) \in Seq(Entry)
        BY <1>1, <1>4, <2>1, <2>2, MergedType
      <4>2. log' \in [Server -> Seq(Entry)]
        BY <3>1, <4>1 DEF AppendAccept, TypeOK
      <4>3. Len(log'[i]) \in Nat
        BY <4>2, LenProperties
      <4>4. FollowerCommit(commitIdx[i], Len(log'[i]), m) \in Nat
        BY <1>2, <1>4, <4>3 DEF FollowerCommit, Lower, Upper
      <4>5. AppendReply(i, m, m.term, TRUE, LastMatching(m)) \in Message
        <5>1. LastMatching(m) \in Nat
          BY <1>2 DEF LastMatching
        <5> QED
          BY <1>1, <1>2, <5>1, AppendReplyType
      <4> QED
        BY <3>1, <4>2, <4>4, <4>5 DEF AppendAccept, Send, TypeOK
    <3>2. CASE AppendShutdown(i, m, k)
      <4>1. AppendReply(i, m, m.term, TRUE, m.prevIdx + k) \in Message
        <5>1. m.prevIdx + k \in Nat
          BY <1>2
        <5> QED
          BY <1>1, <1>2, <5>1, AppendReplyType
      <4> QED
        BY <3>2, <4>1 DEF AppendShutdown, Send, TypeOK, logVars
    <3> QED
      BY <2>2, <3>1, <3>2
  <2> QED
    BY <1>1, <2>1, <2>3, FollowLeaderType DEF FollowLeader, TypeOK, memberVars, peerVars
<1> QED
  BY <1>5, <1>6, <1>7 DEF RecvAppendEntries

(* raft_recv_appendentries_response.                                       *)
LEMMA RecvAppendEntriesResponseType ==
  ASSUME TypeOK, NEW i \in Server, NEW m \in msgs, RecvAppendEntriesResponse(i, m)
  PROVE  TypeOK'
<1>1. m \in AppendEntriesResponse
  BY MessageFields DEF RecvAppendEntriesResponse, TypeOK
<1>2. m.from \in Server /\ m.curIdx \in Nat /\ m.term \in Nat
  BY <1>1 DEF AppendEntriesResponse
<1>3. /\ log[i] \in Seq(Entry) /\ Len(log[i]) \in Nat /\ currentTerm[i] \in Nat
  BY LenProperties DEF TypeOK
<1>4. \A next \in Nat \ {0}, commit \in Nat :
        AppendEntriesTo(i, m.from, currentTerm[i], next, log[i], commit) \in Message
  BY <1>2, <1>3, AppendEntriesToType
<1>5. CASE StepDown(i, m.term, None)
           /\ UNCHANGED <<memberVars, voteForMe, logVars, peerVars, msgs>>
  BY <1>2, <1>5, StepDownType DEF TypeOK, memberVars, logVars, peerVars
<1>6. CASE AppendRefused(i, m)
  <2> DEFINE next == nextIdx[i][m.from]
             back == IF m.curIdx < next - 1 THEN Lower(m.curIdx + 1, Len(log[i]))
                                            ELSE next - 1
  <2>1. Upper(back, 1) \in Nat \ {0}
    <3>1. next \in Nat \ {0}
      BY <1>2 DEF TypeOK
    <3> QED
      BY <1>2, <1>3, <3>1 DEF Upper, Lower
  <2>2. nextIdx' = [nextIdx EXCEPT ![i][m.from] = Upper(back, 1)]
        /\ Resend(i, m.from, nextIdx'[i][m.from], commitIdx[i])
        /\ UNCHANGED <<memberVars, electionVars, logVars, matchIdx>>
    BY <1>6 DEF AppendRefused
  <2> HIDE DEF back
  <2>3. nextIdx' \in [Server -> [Server -> Nat \ {0}]]
    BY <1>2, <2>1, <2>2 DEF TypeOK
  <2>4. AppendEntriesTo(i, m.from, currentTerm[i], nextIdx'[i][m.from], log[i], commitIdx[i])
          \in Message
    BY <1>2, <1>4, <2>3 DEF TypeOK
  <2> QED
    BY <2>2, <2>3, <2>4
    DEF Resend, Send, TypeOK, memberVars, electionVars, logVars
<1>7. CASE AppendAcknowledged(i, m)
  <2>1. /\ nextIdx' = [nextIdx EXCEPT ![i][m.from] = m.curIdx + 1]
        /\ matchIdx' = [matchIdx EXCEPT ![i][m.from] = m.curIdx]
        /\ commitIdx' = [commitIdx EXCEPT ![i] =
                           IF Commits(i, matchIdx'[i], m.curIdx) THEN m.curIdx ELSE @]
        /\ \/ Resend(i, m.from, m.curIdx + 1, commitIdx'[i])
           \/ UNCHANGED msgs
        /\ UNCHANGED <<memberVars, electionVars, log, lastApplied>>
    BY <1>7 DEF AppendAcknowledged
  <2>2. nextIdx' \in [Server -> [Server -> Nat \ {0}]]
    <3>1. m.curIdx + 1 \in Nat \ {0}
      BY <1>2
    <3> DEFINE up == m.curIdx + 1
    <3>2. up \in Nat \ {0} /\ nextIdx' = [nextIdx EXCEPT ![i][m.from] = up]
      BY <3>1, <2>1
    <3> HIDE DEF up
    <3> QED
      BY <1>2, <3>2 DEF TypeOK
  <2>3. matchIdx' \in [Server -> [Server -> Nat]]
    BY <1>2, <2>1 DEF TypeOK
  <2>4. commitIdx' \in [Server -> Nat]
    BY <1>2, <2>1 DEF TypeOK
  <2>5. AppendEntriesTo(i, m.from, currentTerm[i], m.curIdx + 1, log[i], commitIdx'[i])
          \in Message
    BY <1>2, <1>4, <2>4
  <2>6. msgs' \subseteq Message
    BY <2>1, <2>5 DEF Resend, Send, TypeOK
  <2> QED
    BY <2>1, <2>2, <2>3, <2>4, <2>6 DEF TypeOK, memberVars, electionVars
<1> QED
  BY <1>5, <1>6, <1>7 DEF RecvAppendEntriesResponse

(* Nothing changes at all.                                                 *)
LEMMA StutterType == TypeOK /\ UNCHANGED vars => TypeOK'
BY DEF TypeOK, vars, memberVars, electionVars, logVars, peerVars

-----------------------------------------------------------------------------
(* No handler of raft_server.c, whatever messages reach it and in whatever *)
(* order, leaves a field with a value its declaration in raft_private.h or *)
(* raft_node.c does not allow; next_idx never falls below 1.               *)
THEOREM TypeCorrect == Spec => []TypeOK
<1>1. Init => TypeOK
  BY ServerAssumption, EmptySeq DEF Init, TypeOK
<1>2. TypeOK /\ [Next]_vars => TypeOK'
  <2> SUFFICES ASSUME TypeOK, [Next]_vars PROVE TypeOK'
    OBVIOUS
  <2>1. CASE UNCHANGED vars
    BY <2>1, StutterType
  <2>2. CASE Next
    <3>1. PICK i \in Server :
            \/ FormCluster(i)
            \/ \E j \in Server : MarkInactive(i, j)
            \/ Periodic(i)
            \/ RecvEntry(i)
            \/ \E m \in msgs : \/ RecvRequestVote(i, m)
                               \/ RecvRequestVoteResponse(i, m)
                               \/ RecvAppendEntries(i, m)
                               \/ RecvAppendEntriesResponse(i, m)
      BY <2>2 DEF Next
    <3> QED
      BY <3>1, MembershipType, MarkInactiveType, PeriodicType, RecvEntryType,
         RecvRequestVoteType, RecvRequestVoteResponseType, RecvAppendEntriesType,
         RecvAppendEntriesResponseType
  <2> QED
    BY <2>1, <2>2
<1> QED
  BY <1>1, <1>2, PTL DEF Spec

-----------------------------------------------------------------------------
(* The assumption *)

AtMostOneLeaves ==
  \/ MayLeave = {}
  \/ Cardinality(Server) >= 3 /\ \E x \in Server : MayLeave = {x}

-----------------------------------------------------------------------------
(* Quorums *)

(* Two majorities of one member set intersect, and so do a majority of all *)
(* the vehicles and one of all but one of them.                            *)
LEMMA MajoritiesIntersect ==
  ASSUME AtMostOneLeaves, NEW A \in Views, NEW B \in Views,
         NEW Q \in Majorities(A), NEW R \in Majorities(B)
  PROVE  Q \cap R # {}
<1>1. IsFiniteSet(Server)
  BY ServerAssumption
<1>2. Q \subseteq A /\ R \subseteq B /\ A \subseteq Server /\ B \subseteq Server
  BY DEF Majorities, Views
<1>3. /\ IsFiniteSet(A) /\ IsFiniteSet(B)
      /\ Cardinality(A) \in Nat /\ Cardinality(B) \in Nat
      /\ Cardinality(Q) \in Nat /\ Cardinality(R) \in Nat
      /\ Cardinality(Server) \in Nat
  BY <1>1, <1>2, FS_Subset, FS_CardinalityType
<1>4. /\ Cardinality(A) \div 2 + 1 <= Cardinality(Q)
      /\ Cardinality(B) \div 2 + 1 <= Cardinality(R)
  BY DEF Majorities, IsMajority
<1>5. CASE A = B
  <2>1. Cardinality(Q) + Cardinality(R) > Cardinality(A)
    BY <1>3, <1>4, <1>5
  <2> QED
    BY <1>2, <1>3, <1>5, <2>1, FS_MajoritiesIntersect
<1>6. CASE A # B
  <2>1. PICK x \in Server : MayLeave = {x}
    BY <1>2, <1>6 DEF AtMostOneLeaves, Views
  <2>2. \/ A = Server /\ B = Server \ {x}
        \/ B = Server /\ A = Server \ {x}
    BY <1>2, <1>6, <2>1 DEF Views
  <2>3. Cardinality(Server \ {x}) = Cardinality(Server) - 1
    BY <1>1, FS_RemoveElement
  <2>4. Cardinality(Q) + Cardinality(R) > Cardinality(Server)
    <3>1. \A n \in Nat : n \div 2 + 1 + (n - 1) \div 2 + 1 > n
      OBVIOUS
    <3>2. Cardinality(Server) \div 2 + 1 + (Cardinality(Server) - 1) \div 2 + 1
            > Cardinality(Server)
      BY <1>3, <3>1
    <3>3. CASE A = Server /\ B = Server \ {x}
      <4>1. /\ Cardinality(Server) \div 2 + 1 <= Cardinality(Q)
            /\ (Cardinality(Server) - 1) \div 2 + 1 <= Cardinality(R)
        BY <1>4, <2>3, <3>3
      <4> QED
        BY <1>3, <3>2, <4>1
    <3>4. CASE B = Server /\ A = Server \ {x}
      <4>1. /\ Cardinality(Server) \div 2 + 1 <= Cardinality(R)
            /\ (Cardinality(Server) - 1) \div 2 + 1 <= Cardinality(Q)
        BY <1>4, <2>3, <3>4
      <4> QED
        BY <1>3, <3>2, <4>1
    <3> QED
      BY <2>2, <3>3, <3>4
  <2>5. Q \subseteq Server /\ R \subseteq Server
    BY <1>2
  <2> QED
    BY <1>1, <2>4, <2>5, FS_MajoritiesIntersect
<1> QED
  BY <1>5, <1>6

(* A vehicle can come to be the only voter only where it is alone anyway.  *)
LEMMA LastVoterIsAlone ==
  ASSUME AtMostOneLeaves, NEW i \in Server, {i} \in Views
  PROVE  Server = {i}
<1>1. CASE MayLeave = {}
  BY <1>1 DEF Views
<1>2. CASE Cardinality(Server) >= 3 /\ \E x \in Server : MayLeave = {x}
  <2>1. PICK x \in Server : MayLeave = {x}
    BY <1>2
  <2>2. Server \ {x} \subseteq {i}
    BY <2>1 DEF Views
  <2>3. IsFiniteSet(Server) /\ IsFiniteSet({i}) /\ Cardinality({i}) = 1
    BY ServerAssumption, FS_Singleton
  <2>4. Cardinality(Server \ {x}) = Cardinality(Server) - 1
    BY <2>3, FS_RemoveElement
  <2>5. Cardinality(Server \ {x}) <= 1 /\ Cardinality(Server) \in Nat
    BY <2>2, <2>3, FS_Subset, FS_CardinalityType
  <2> QED
    BY <1>2, <2>4, <2>5
<1> QED
  BY <1>1, <1>2 DEF AtMostOneLeaves

-----------------------------------------------------------------------------
(* ElectionInv is enough. *)

(* Two leaders of one term would share a voter, who voted for both.        *)
LEMMA OneLeader ==
  ASSUME AtMostOneLeaves, TypeOK, ElectionInv
  PROVE  ElectionSafety
<1> SUFFICES ASSUME NEW i \in Server, NEW j \in Server,
                    state[i] = "Leader", state[j] = "Leader",
                    currentTerm[i] = currentTerm[j], i # j
             PROVE  FALSE
  BY DEF ElectionSafety
<1> DEFINE t == currentTerm[i]
<1>1. PICK A \in Views : \E Q \in Majorities(A) :
        i \in Q /\ \A k \in Q \ {i} : Granted(k, i, t) \in msgs
  BY DEF ElectionInv, LeadersElected, Elected
<1>2. PICK Q \in Majorities(A) :
        i \in Q /\ \A k \in Q \ {i} : Granted(k, i, t) \in msgs
  BY <1>1
<1>3. PICK B \in Views : \E R \in Majorities(B) :
        j \in R /\ \A k \in R \ {j} : Granted(k, j, t) \in msgs
  BY DEF ElectionInv, LeadersElected, Elected
<1>4. PICK R \in Majorities(B) :
        j \in R /\ \A k \in R \ {j} : Granted(k, j, t) \in msgs
  BY <1>3
<1>5. PICK v : v \in Q \cap R
  BY MajoritiesIntersect
<1>6. votedFor[i] = i /\ votedFor[j] = j
  BY DEF ElectionInv, OwnVote
<1>7. CASE v = i
  <2>1. Granted(i, j, t) \in Of("RVR")
    BY <1>4, <1>5, <1>7 DEF Of, Granted
  <2>2. votedFor[i] = j
    BY <2>1 DEF ElectionInv, GrantsBind, Granted
  <2> QED
    BY <1>6, <2>2
<1>8. CASE v = j
  <2>1. Granted(j, i, t) \in Of("RVR")
    BY <1>2, <1>5, <1>8 DEF Of, Granted
  <2>2. votedFor[j] = i
    BY <2>1 DEF ElectionInv, GrantsBind, Granted
  <2> QED
    BY <1>6, <2>2
<1>9. CASE v # i /\ v # j
  <2>1. Granted(v, i, t) \in Of("RVR") /\ Granted(v, j, t) \in Of("RVR")
    BY <1>2, <1>4, <1>5, <1>9 DEF Of, Granted
  <2> QED
    BY <2>1 DEF ElectionInv, VoteOnce, Granted
<1> QED
  BY <1>7, <1>8, <1>9
-----------------------------------------------------------------------------
(* Every step keeps ElectionInv. *)

(* A step that sends no vote.                                              *)
NoNewVote ==
  /\ msgs \subseteq msgs'
  /\ \A m \in msgs' \ msgs : m.type = "RVR" => ~m.granted

(* A step of i that sends no vote leaves ElectionInv true if it does for   *)
(* the conjuncts that speak of i.                                          *)
LEMMA StepOfOne ==
  ASSUME TypeOK, ElectionInv, NEW i \in Server,
         NoNewVote,
         ViewsHeld',
         \A j \in Server \ {i} :
           /\ currentTerm'[j] = currentTerm[j] /\ votedFor'[j] = votedFor[j]
           /\ state'[j] = state[j] /\ voteForMe'[j] = voteForMe[j],
         currentTerm'[i] \in Nat,
         currentTerm[i] <= currentTerm'[i],
         currentTerm'[i] = currentTerm[i] =>
           \/ votedFor'[i] = votedFor[i]
           \/ votedFor[i] = None
           \/ Server = {i} /\ votedFor'[i] = i,
         state'[i] # "Follower" => votedFor'[i] = i,
         state'[i] = "Candidate" =>
           \A j \in voteForMe'[i] \ {i} : Granted(j, i, currentTerm'[i]) \in msgs',
         state'[i] = "Leader" => Elected(i, currentTerm[i])'
  PROVE  ElectionInv'
<1>1. msgs \subseteq msgs' /\ \A m \in msgs' \ msgs : m.type = "RVR" => ~m.granted
  BY DEF NoNewVote
<1>2. \A m \in Of("RVR")' : m.granted => m \in Of("RVR")
  BY <1>1 DEF Of
<1>3. \A m \in Of("RVR") : m.from \in Server /\ m.to \in Server /\ m.term \in Nat
  <2> SUFFICES ASSUME NEW m \in Of("RVR")
               PROVE  m.from \in Server /\ m.to \in Server /\ m.term \in Nat
    OBVIOUS
  <2>1. m \in Message /\ m.type = "RVR"
    BY DEF Of, TypeOK
  <2>2. m \in RequestVoteResponse
    BY <2>1, MessageFields
  <2> QED
    BY <2>2 DEF RequestVoteResponse
<1>4. VoteOnce'
  BY <1>2 DEF ElectionInv, VoteOnce
<1>5. GrantsBind'
  <2> SUFFICES ASSUME NEW m \in Of("RVR")', m.granted
               PROVE  /\ m.term <= currentTerm'[m.from]
                      /\ m.term = currentTerm'[m.from] => votedFor'[m.from] = m.to
    BY DEF GrantsBind
  <2>1. /\ m \in Of("RVR") /\ m.from \in Server /\ m.to \in Server /\ m.term \in Nat
        /\ m.term <= currentTerm[m.from]
        /\ m.term = currentTerm[m.from] => votedFor[m.from] = m.to
    BY <1>2, <1>3 DEF ElectionInv, GrantsBind
  <2>2. CASE m.from # i
    BY <2>1, <2>2
  <2>3. CASE m.from = i
    <3>1. currentTerm[i] \in Nat
      BY DEF TypeOK
    <3>2. m.to # None
      BY <2>1, ServerAssumption
    <3> QED
      BY <2>1, <2>3, <3>1, <3>2
  <2> QED
    BY <2>2, <2>3
<1>6. CountedVotes'
  BY <1>1 DEF ElectionInv, CountedVotes
<1>7. OwnVote'
  BY DEF ElectionInv, OwnVote
<1>8. LeadersElected'
  <2> SUFFICES ASSUME NEW j \in Server, state'[j] = "Leader"
               PROVE  Elected(j, currentTerm[j])'
    BY DEF LeadersElected
  <2>1. CASE j = i
    BY <2>1
  <2>2. CASE j # i
    <3>1. Elected(j, currentTerm[j]) /\ currentTerm'[j] = currentTerm[j]
      BY <2>2 DEF ElectionInv, LeadersElected
    <3> QED
      BY <1>1, <3>1 DEF Elected
  <2> QED
    BY <2>1, <2>2
<1> QED
  BY <1>4, <1>5, <1>6, <1>7, <1>8 DEF ElectionInv

(* A step that changes neither a vote nor a role.                          *)
LEMMA QuietStep ==
  ASSUME TypeOK, ElectionInv, NoNewVote, ViewsHeld',
         UNCHANGED electionVars
  PROVE  ElectionInv'
<1>1. /\ currentTerm' = currentTerm /\ votedFor' = votedFor /\ state' = state
      /\ voteForMe' = voteForMe
  BY DEF electionVars
<1>2. msgs \subseteq msgs' /\ \A m \in msgs' \ msgs : m.type = "RVR" => ~m.granted
  BY DEF NoNewVote
<1>3. \A m \in Of("RVR")' : m.granted => m \in Of("RVR")
  BY <1>2 DEF Of
<1>4. VoteOnce' /\ GrantsBind'
  BY <1>1, <1>3 DEF ElectionInv, VoteOnce, GrantsBind
<1>5. CountedVotes' /\ OwnVote'
  BY <1>1, <1>2 DEF ElectionInv, CountedVotes, OwnVote
<1>6. LeadersElected'
  BY <1>1, <1>2 DEF ElectionInv, LeadersElected, Elected
<1> QED
  BY <1>4, <1>5, <1>6 DEF ElectionInv

(* Messages that are no votes.                                             *)
LEMMA SendsNoVote ==
  ASSUME NEW ms, Send(ms), \A m \in ms : m.type = "RVR" => ~m.granted
  PROVE  NoNewVote
BY DEF Send, NoNewVote

(* What raft_become_leader does to a vote and a role.                      *)
LEMMA BecomeLeaderElection ==
  ASSUME TypeOK, NEW i \in Server, NEW term, BecomeLeader(i, term)
  PROVE  /\ NoNewVote
         /\ state' = [state EXCEPT ![i] = "Leader"]
         /\ votedFor' = [votedFor EXCEPT ![i] = i]
<1> DEFINE ms == {AppendEntriesTo(i, j, term, Len(log[i]) + 1, log[i], commitIdx[i]) :
                    j \in Peers(i)}
<1>1. Send(ms)
  BY DEF BecomeLeader
<1>2. \A m \in ms : m.type # "RVR"
  <2>1. \A j : AppendEntriesTo(i, j, term, Len(log[i]) + 1, log[i], commitIdx[i]).type = "AE"
    BY DEF AppendEntriesTo
  <2> QED
    BY <2>1
<1>3. NoNewVote
  <2> HIDE DEF ms
  <2> QED
    BY <1>1, <1>2, SendsNoVote
<1> QED
  BY <1>3 DEF BecomeLeader

LEMMA FormClusterElection ==
  ASSUME Designated = None, TypeOK, ElectionInv, NEW i \in Server, FormCluster(i)
  PROVE  ElectionInv'
<1>1. i # Designated
  BY ServerAssumption
<1>2. UNCHANGED electionVars /\ msgs' = msgs /\ active' = active
  BY <1>1 DEF FormCluster, electionVars
<1> QED
  BY <1>2, QuietStep DEF NoNewVote, ElectionInv, ViewsHeld

(* Only vehicles that may leave are marked inactive.                       *)
LEMMA MarkInactiveElection ==
  ASSUME TypeOK, ElectionInv, NEW i \in Server, NEW j \in Server, MarkInactive(i, j)
  PROVE  ElectionInv'
<1>1. ViewsHeld'
  <2>1. /\ active' = [active EXCEPT ![i] = active[i] \ {j}]
        /\ j \in MayLeave /\ j # i
    BY DEF MarkInactive, Peers
  <2>2. active[i] \ {j} \in Views /\ i \in active[i] \ {j}
    BY <2>1 DEF ElectionInv, ViewsHeld, Views
  <2> QED
    BY <2>1, <2>2 DEF ElectionInv, ViewsHeld, TypeOK
<1>2. UNCHANGED electionVars /\ NoNewVote
  BY DEF MarkInactive, NoNewVote
<1> QED
  BY <1>1, <1>2, QuietStep

LEMMA RecvEntryElection ==
  ASSUME TypeOK, ElectionInv, NEW i \in Server, RecvEntry(i)
  PROVE  ElectionInv'
<1> DEFINE new == Append(log[i], [term |-> currentTerm[i], owner |-> i])
           ms == {AppendEntriesTo(i, j, currentTerm[i], Len(new), new, commitIdx[i]) :
                    j \in {k \in Peers(i) : nextIdx[i][k] = Len(new)}}
<1>1. Send(ms) /\ UNCHANGED electionVars /\ active' = active
  BY DEF RecvEntry, memberVars
<1> HIDE DEF new
<1>2. \A m \in ms : m.type # "RVR"
  <2>1. \A j : AppendEntriesTo(i, j, currentTerm[i], Len(new), new, commitIdx[i]).type = "AE"
    BY DEF AppendEntriesTo
  <2> QED
    BY <2>1
<1> HIDE DEF ms
<1>3. NoNewVote
  BY <1>1, <1>2, SendsNoVote
<1> QED
  BY <1>1, <1>3, QuietStep DEF ElectionInv, ViewsHeld

(* raft_periodic.  A candidate starts a term of its own and votes for      *)
(* itself in it; an only voter is alone.                                   *)
LEMMA PeriodicElectionInv ==
  ASSUME AtMostOneLeaves, TypeOK, ElectionInv, NEW i \in Server, Periodic(i)
  PROVE  ElectionInv'
<1>1. CASE PeriodicOnlyVoter(i)
  <2>1. active[i] = {i} /\ active[i] \in Views
    BY <1>1 DEF PeriodicOnlyVoter, OnlyVoter, ElectionInv, ViewsHeld
  <2>2. Server = {i}
    BY <2>1, LastVoterIsAlone
  <2>3. /\ BecomeLeader(i, currentTerm[i]) /\ currentTerm' = currentTerm
        /\ voteForMe' = voteForMe /\ active' = active
    BY <1>1 DEF PeriodicOnlyVoter, memberVars
  <2>4. /\ NoNewVote
        /\ state' = [state EXCEPT ![i] = "Leader"]
        /\ votedFor' = [votedFor EXCEPT ![i] = i]
    BY <2>3, BecomeLeaderElection
  <2>5. {i} \in Majorities({i})
    <3>1. Cardinality({i}) = 1
      BY FS_Singleton
    <3>2. 1 \div 2 + 1 <= 1
      OBVIOUS
    <3> QED
      BY <3>1, <3>2 DEF Majorities, IsMajority
  <2>6. Elected(i, currentTerm[i])'
    BY <2>1, <2>5 DEF Elected
  <2>7. /\ currentTerm'[i] \in Nat /\ currentTerm[i] <= currentTerm'[i]
        /\ votedFor'[i] = i /\ state'[i] = "Leader"
        /\ ViewsHeld'
    BY <2>3, <2>4 DEF TypeOK, ElectionInv, ViewsHeld
  <2> QED
    BY <2>2, <2>4, <2>6, <2>7, StepOfOne
<1>2. CASE PeriodicElection(i)
  <2> DEFINE ms == {[type |-> "RV", from |-> i, to |-> j, term |-> currentTerm'[i],
                     lastIdx |-> Len(log[i]), lastTerm |-> LastTerm(log[i])] :
                      j \in Peers(i)}
  <2>1. /\ Send(ms) /\ active' = active
        /\ currentTerm' = [currentTerm EXCEPT ![i] = @ + 1]
        /\ votedFor' = [votedFor EXCEPT ![i] = i]
        /\ voteForMe' = [voteForMe EXCEPT ![i] = {}]
        /\ state' = [state EXCEPT ![i] = "Candidate"]
    BY <1>2 DEF PeriodicElection, memberVars
  <2>2. \A m \in ms : m.type # "RVR"
    OBVIOUS
  <2> HIDE DEF ms
  <2>3. NoNewVote
    BY <2>1, <2>2, SendsNoVote
  <2>4. /\ currentTerm'[i] \in Nat /\ currentTerm[i] <= currentTerm'[i]
        /\ currentTerm'[i] # currentTerm[i]
        /\ votedFor'[i] = i /\ state'[i] = "Candidate" /\ voteForMe'[i] = {}
        /\ ViewsHeld'
        /\ \A j \in Server \ {i} :
             /\ currentTerm'[j] = currentTerm[j] /\ votedFor'[j] = votedFor[j]
             /\ state'[j] = state[j] /\ voteForMe'[j] = voteForMe[j]
    BY <2>1 DEF TypeOK, ElectionInv, ViewsHeld
  <2> QED
    BY <2>3, <2>4, StepOfOne
<1>3. CASE PeriodicHeartbeat(i)
  <2>1. PICK skipped :
          Send({AppendEntriesTo(i, j, currentTerm[i], nextIdx[i][j], log[i], commitIdx[i]) :
                  j \in Peers(i) \ skipped})
    BY <1>3 DEF PeriodicHeartbeat
  <2> DEFINE ms == {AppendEntriesTo(i, j, currentTerm[i], nextIdx[i][j], log[i],
                                    commitIdx[i]) : j \in Peers(i) \ skipped}
  <2>2. \A m \in ms : m.type # "RVR"
    BY DEF AppendEntriesTo
  <2>3. Send(ms)
    BY <2>1
  <2> HIDE DEF ms
  <2>4. NoNewVote
    BY <2>2, <2>3, SendsNoVote
  <2>5. UNCHANGED electionVars /\ active' = active
    BY <1>3 DEF PeriodicHeartbeat, memberVars
  <2> QED
    BY <2>4, <2>5, QuietStep DEF ElectionInv, ViewsHeld
<1>4. CASE PeriodicIdle(i)
  <2>1. UNCHANGED electionVars /\ active' = active /\ NoNewVote
    BY <1>4 DEF PeriodicIdle, memberVars, NoNewVote
  <2> QED
    BY <2>1, QuietStep DEF ElectionInv, ViewsHeld
<1> QED
  BY <1>1, <1>2, <1>3, <1>4 DEF Periodic

(* Stepping down, or following a leader: a later term has no vote yet, and *)
(* in the same term the vote stays.                                        *)
LEMMA FollowerElection ==
  ASSUME TypeOK, ElectionInv, NEW i \in Server, NEW t \in Nat,
         NoNewVote, active' = active, voteForMe' = voteForMe,
         currentTerm[i] <= t,
         currentTerm' = [currentTerm EXCEPT ![i] = t],
         votedFor' = [votedFor EXCEPT ![i] = IF currentTerm[i] < t THEN None ELSE @],
         state' = [state EXCEPT ![i] = IF currentTerm[i] < t \/ @ = "Candidate"
                                       THEN "Follower" ELSE @]
  PROVE  ElectionInv'
<1>1. \A j \in Server \ {i} :
        /\ currentTerm'[j] = currentTerm[j] /\ votedFor'[j] = votedFor[j]
        /\ state'[j] = state[j] /\ voteForMe'[j] = voteForMe[j]
  BY DEF TypeOK
<1>2. currentTerm'[i] = t /\ currentTerm[i] \in Nat /\ state[i] \in {"Follower", "Candidate", "Leader"}
  BY DEF TypeOK
<1>3. t = currentTerm[i] => votedFor'[i] = votedFor[i]
  BY <1>2 DEF TypeOK
<1>4. state'[i] # "Follower" =>
        t = currentTerm[i] /\ state'[i] = state[i] /\ state[i] = "Leader"
  BY <1>2 DEF TypeOK
<1>5. state'[i] # "Follower" => votedFor'[i] = i
  BY <1>3, <1>4 DEF ElectionInv, OwnVote
<1>6. state'[i] = "Leader" => Elected(i, currentTerm[i])'
  <2> SUFFICES ASSUME state'[i] = "Leader" PROVE Elected(i, currentTerm[i])'
    OBVIOUS
  <2>1. Elected(i, currentTerm[i]) /\ currentTerm'[i] = currentTerm[i]
    BY <1>2, <1>4 DEF ElectionInv, LeadersElected
  <2> QED
    BY <2>1 DEF Elected, NoNewVote
<1>7. ViewsHeld'
  BY DEF ElectionInv, ViewsHeld
<1> QED
  BY <1>1, <1>2, <1>3, <1>4, <1>5, <1>6, <1>7, StepOfOne

LEMMA StepDownElection ==
  ASSUME TypeOK, ElectionInv, NEW i \in Server, NEW t \in Nat,
         currentTerm[i] < t, StepDown(i, t, None),
         UNCHANGED <<memberVars, voteForMe, logVars, peerVars, msgs>>
  PROVE  ElectionInv'
<1>1. NoNewVote /\ active' = active /\ voteForMe' = voteForMe
  BY DEF NoNewVote, memberVars
<1>2. currentTerm[i] <= t
  BY DEF TypeOK
<1>3. /\ currentTerm' = [currentTerm EXCEPT ![i] = t]
      /\ votedFor' = [votedFor EXCEPT ![i] = IF currentTerm[i] < t THEN None ELSE @]
      /\ state' = [state EXCEPT ![i] = IF currentTerm[i] < t \/ @ = "Candidate"
                                       THEN "Follower" ELSE @]
  BY DEF StepDown
<1> QED
  BY <1>1, <1>2, <1>3, FollowerElection

(* raft_recv_requestvote: the one step that sends a vote.  It is the first *)
(* of its term, and votedFor remembers it.                                 *)
LEMMA RecvRequestVoteElection ==
  ASSUME TypeOK, ElectionInv, NEW i \in Server, NEW m \in msgs, RecvRequestVote(i, m)
  PROVE  ElectionInv'
<1>1. m \in RequestVote
  BY MessageFields DEF RecvRequestVote, TypeOK
<1>2. m.from \in Server /\ m.term \in Nat /\ m.from # None
  BY <1>1, ServerAssumption DEF RequestVote
<1>3. CASE RefuseForLeader(i, m)
  <2>1. UNCHANGED electionVars /\ active' = active
    BY <1>3 DEF RefuseForLeader, memberVars
  <2>2. NoNewVote
    BY <1>3 DEF RefuseForLeader, Send, NoNewVote, VoteReply
  <2> QED
    BY <2>1, <2>2, QuietStep DEF ElectionInv, ViewsHeld
<1>4. CASE ConsiderVote(i, m)
  <2> DEFINE newer == currentTerm[i] < m.term
             vote == IF newer THEN None ELSE votedFor[i]
             grant == ShouldGrantVote(i, m, vote)
  <2>1. /\ currentTerm' = [currentTerm EXCEPT ![i] = IF newer THEN m.term ELSE @]
        /\ state' = [state EXCEPT ![i] = IF newer THEN "Follower" ELSE @]
        /\ votedFor' = [votedFor EXCEPT ![i] = IF grant THEN m.from ELSE vote]
        /\ msgs' = msgs \cup {VoteReply(i, m, currentTerm'[i], grant)}
        /\ active' = active /\ voteForMe' = voteForMe
    BY <1>4 DEF ConsiderVote, Send, memberVars
  <2>2. grant \in BOOLEAN
    BY DEF ShouldGrantVote
  <2>3. grant => vote = None /\ currentTerm[i] <= m.term
    BY DEF ShouldGrantVote
  <2> HIDE DEF grant
  <2>4. currentTerm[i] \in Nat
    BY DEF TypeOK
  <2>5. /\ currentTerm'[i] = IF newer THEN m.term ELSE currentTerm[i]
        /\ currentTerm'[i] \in Nat /\ currentTerm[i] <= currentTerm'[i]
        /\ votedFor'[i] = IF grant THEN m.from ELSE vote
        /\ state'[i] = IF newer THEN "Follower" ELSE state[i]
    BY <1>2, <2>1, <2>4, SMTT(20) DEF TypeOK
  <2>6. \A j \in Server \ {i} :
          /\ currentTerm'[j] = currentTerm[j] /\ votedFor'[j] = votedFor[j]
          /\ state'[j] = state[j] /\ voteForMe'[j] = voteForMe[j]
    BY <2>1 DEF TypeOK
  <2>7. state'[i] # "Follower" =>
          ~newer /\ ~grant /\ state'[i] = state[i] /\ votedFor'[i] = i
    <3> SUFFICES ASSUME state'[i] # "Follower"
                 PROVE  ~newer /\ ~grant /\ state'[i] = state[i] /\ votedFor'[i] = i
      OBVIOUS
    <3>1. ~newer /\ state'[i] = state[i]
      BY <2>5
    <3>2. votedFor[i] = i /\ i # None
      BY <3>1, ServerAssumption DEF ElectionInv, OwnVote
    <3> QED
      BY <2>3, <2>5, <3>1, <3>2
  <2>8. state'[i] = "Candidate" =>
          \A j \in voteForMe'[i] \ {i} : Granted(j, i, currentTerm'[i]) \in msgs'
    BY <2>1, <2>5, <2>7 DEF ElectionInv, CountedVotes
  <2>9. state'[i] = "Leader" => Elected(i, currentTerm[i])'
    <3> SUFFICES ASSUME state'[i] = "Leader" PROVE Elected(i, currentTerm[i])'
      OBVIOUS
    <3>1. Elected(i, currentTerm[i]) /\ currentTerm'[i] = currentTerm[i]
      BY <2>5, <2>7 DEF ElectionInv, LeadersElected
    <3>2. msgs \subseteq msgs'
      BY <2>1
    <3> QED
      BY <3>1, <3>2 DEF Elected
  <2>10. CASE ~grant
    <3>1. NoNewVote
      BY <2>1, <2>10 DEF NoNewVote, VoteReply
    <3>2. currentTerm'[i] = currentTerm[i] => votedFor'[i] = votedFor[i]
      BY <1>2, <2>4, <2>5, <2>10
    <3>3. ViewsHeld'
      BY <2>1 DEF ElectionInv, ViewsHeld
    <3> QED
      BY <2>5, <2>6, <2>7, <2>8, <2>9, <3>1, <3>2, <3>3, StepOfOne
  <2>11. CASE grant
    <3> DEFINE g == VoteReply(i, m, currentTerm'[i], grant)
    <3>1. /\ g.type = "RVR" /\ g.from = i /\ g.to = m.from /\ g.term = currentTerm'[i]
          /\ g.granted = grant
      BY DEF VoteReply
    <3>2. msgs' = msgs \cup {g}
      BY <2>1
    <3> HIDE DEF g
    <3>3. Of("RVR")' = Of("RVR") \cup {g}
      BY <3>1, <3>2 DEF Of
    <3>4. \A w \in Of("RVR") : w.granted /\ w.from = i => w.term < currentTerm'[i]
      <4> SUFFICES ASSUME NEW w \in Of("RVR"), w.granted, w.from = i
                   PROVE  w.term < currentTerm'[i]
        OBVIOUS
      <4>1. w \in Message /\ w.type = "RVR"
        BY DEF Of, TypeOK
      <4>2. w \in RequestVoteResponse
        BY <4>1, MessageFields
      <4>3. w.term \in Nat /\ w.to \in Server
        BY <4>2 DEF RequestVoteResponse
      <4>4. /\ w.term <= currentTerm[i]
            /\ w.term = currentTerm[i] => votedFor[i] = w.to
        BY DEF ElectionInv, GrantsBind
      <4>5. w.to # None
        BY <4>3, ServerAssumption
      <4> QED
        BY <1>2, <2>3, <2>4, <2>5, <2>11, <4>3, <4>4, <4>5
    <3>5. VoteOnce'
      <4> SUFFICES ASSUME NEW v \in Of("RVR")', NEW w \in Of("RVR")',
                          v.granted, w.granted, v.from = w.from, v.term = w.term
                   PROVE  v.to = w.to
        BY DEF VoteOnce
      <4>1. CASE v \in Of("RVR") /\ w \in Of("RVR")
        BY <4>1 DEF ElectionInv, VoteOnce
      <4>2. CASE v = g /\ w = g
        BY <4>2
      <4>3. CASE v = g /\ w \in Of("RVR")
        BY <2>5, <3>1, <3>4, <4>3
      <4>4. CASE w = g /\ v \in Of("RVR")
        BY <2>5, <3>1, <3>4, <4>4
      <4> QED
        BY <3>3, <4>1, <4>2, <4>3, <4>4
    <3>6. GrantsBind'
      <4> SUFFICES ASSUME NEW w \in Of("RVR")', w.granted
                   PROVE  /\ w.term <= currentTerm'[w.from]
                          /\ w.term = currentTerm'[w.from] => votedFor'[w.from] = w.to
        BY DEF GrantsBind
      <4>1. CASE w = g
        BY <2>5, <2>11, <3>1, <4>1
      <4>2. CASE w \in Of("RVR")
        <5>1. w \in Message /\ w.type = "RVR"
          BY <4>2 DEF Of, TypeOK
        <5>2. w \in RequestVoteResponse
          BY <5>1, MessageFields
        <5>3. w.from \in Server /\ w.term \in Nat
          BY <5>2 DEF RequestVoteResponse
        <5>4. CASE w.from = i
          BY <2>5, <3>4, <4>2, <5>3, <5>4
        <5>5. CASE w.from # i
          BY <2>6, <4>2, <5>3, <5>5 DEF ElectionInv, GrantsBind
        <5> QED
          BY <5>4, <5>5
      <4> QED
        BY <3>3, <4>1, <4>2
    <3>7. CountedVotes'
      <4> SUFFICES ASSUME NEW j \in Server, state'[j] = "Candidate"
                   PROVE  \A k \in voteForMe'[j] \ {j} :
                            Granted(k, j, currentTerm'[j]) \in msgs'
        BY DEF CountedVotes
      <4>1. CASE j = i
        BY <2>8, <4>1
      <4>2. CASE j # i
        BY <2>6, <3>2, <4>2 DEF ElectionInv, CountedVotes
      <4> QED
        BY <4>1, <4>2
    <3>8. OwnVote'
      BY <2>6, <2>7 DEF ElectionInv, OwnVote
    <3>9. LeadersElected'
      <4> SUFFICES ASSUME NEW j \in Server, state'[j] = "Leader"
                   PROVE  Elected(j, currentTerm[j])'
        BY DEF LeadersElected
      <4>1. CASE j = i
        BY <2>9, <4>1
      <4>2. CASE j # i
        <5>1. Elected(j, currentTerm[j]) /\ currentTerm'[j] = currentTerm[j]
          BY <2>6, <4>2 DEF ElectionInv, LeadersElected
        <5> QED
          BY <3>2, <5>1 DEF Elected
      <4> QED
        BY <4>1, <4>2
    <3> QED
      BY <2>1, <3>5, <3>6, <3>7, <3>8, <3>9 DEF ElectionInv, ViewsHeld
  <2> QED
    BY <2>2, <2>10, <2>11
<1> QED
  BY <1>3, <1>4 DEF RecvRequestVote

(* raft_recv_requestvote_response.  The votes that make a candidate leader *)
(* are flags of active nodes, each set by a vote that was sent, and its    *)
(* own.                                                                    *)
LEMMA CountVoteElection ==
  ASSUME TypeOK, ElectionInv, NEW i \in Server, NEW m \in msgs,
         m \in RequestVoteResponse, m.to = i, state[i] = "Candidate", CountVote(i, m)
  PROVE  ElectionInv'
<1>1. /\ m.term = currentTerm[i] /\ m.granted = TRUE /\ m.from \in Server
      /\ voteForMe' = [voteForMe EXCEPT ![i] = @ \cup {m.from}]
      /\ currentTerm' = currentTerm /\ active' = active
  BY DEF CountVote, memberVars, RequestVoteResponse
<1>2. m = Granted(m.from, i, currentTerm[i])
  BY <1>1 DEF Granted, RequestVoteResponse
<1>3. voteForMe'[i] = voteForMe[i] \cup {m.from}
  BY <1>1 DEF TypeOK
<1>4. \A j \in voteForMe'[i] \ {i} : Granted(j, i, currentTerm[i]) \in msgs
  BY <1>2, <1>3 DEF ElectionInv, CountedVotes
<1>5. votedFor[i] = i
  BY DEF ElectionInv, OwnVote
<1>6. currentTerm[i] \in Nat /\ currentTerm[i] <= currentTerm[i]
  BY DEF TypeOK
<1>7. ViewsHeld'
  BY <1>1 DEF ElectionInv, ViewsHeld
<1>8. CASE IsMajority(VotesFor(i, voteForMe'[i]), active[i]) /\ BecomeLeader(i, currentTerm[i])
  <2>1. /\ NoNewVote
        /\ state' = [state EXCEPT ![i] = "Leader"]
        /\ votedFor' = [votedFor EXCEPT ![i] = i]
    BY <1>8, BecomeLeaderElection
  <2> DEFINE V == voteForMe'[i] \cap Peers(i)
             Q == V \cup {i}
  <2>2. active[i] \in Views /\ active[i] \subseteq Server
    BY DEF ElectionInv, ViewsHeld, Views
  <2>3. V \subseteq active[i] /\ i \notin V /\ i \in active[i]
    BY DEF Peers, ElectionInv, ViewsHeld
  <2>4. IsFiniteSet(V)
    BY <2>2, <2>3, ServerAssumption, FS_Subset
  <2>5. Cardinality(Q) = Cardinality(V) + 1
    BY <2>3, <2>4, FS_AddElement
  <2>6. VotesFor(i, voteForMe'[i]) = Cardinality(V) + 1
    BY <1>5 DEF VotesFor
  <2>7. Q \in Majorities(active[i])
    BY <1>8, <2>3, <2>5, <2>6 DEF Majorities
  <2>8. \A j \in Q \ {i} : Granted(j, i, currentTerm[i]) \in msgs'
    BY <1>4, <2>1, <2>3 DEF NoNewVote
  <2>9. Elected(i, currentTerm[i])'
    BY <1>1, <2>2, <2>7, <2>8 DEF Elected
  <2>10. votedFor'[i] = i /\ state'[i] = "Leader"
    BY <2>1 DEF TypeOK
  <2>11. \A j \in Server \ {i} :
           /\ currentTerm'[j] = currentTerm[j] /\ votedFor'[j] = votedFor[j]
           /\ state'[j] = state[j] /\ voteForMe'[j] = voteForMe[j]
    BY <1>1, <2>1 DEF TypeOK
  <2> QED
    BY <1>1, <1>5, <1>6, <1>7, <2>1, <2>9, <2>10, <2>11, StepOfOne
<1>9. CASE UNCHANGED <<votedFor, state, currentLeader, peerVars, msgs>>
  <2>1. NoNewVote
    BY <1>9 DEF NoNewVote
  <2> QED
    <3>1. /\ votedFor' = votedFor /\ state' = state
          /\ \A j \in Server \ {i} : voteForMe'[j] = voteForMe[j]
      BY <1>1, <1>9 DEF TypeOK
    <3>2. \A j \in voteForMe'[i] \ {i} : Granted(j, i, currentTerm'[i]) \in msgs'
      BY <1>1, <1>4, <1>9
    <3> QED
      BY <1>1, <1>5, <1>6, <1>7, <2>1, <3>1, <3>2, StepOfOne
<1> QED
  BY <1>8, <1>9 DEF CountVote

LEMMA RecvRequestVoteResponseElection ==
  ASSUME TypeOK, ElectionInv, NEW i \in Server, NEW m \in msgs,
         RecvRequestVoteResponse(i, m)
  PROVE  ElectionInv'
<1>1. m \in RequestVoteResponse
  BY MessageFields DEF RecvRequestVoteResponse, TypeOK
<1>2. CASE currentTerm[i] < m.term /\ StepDown(i, m.term, None)
           /\ UNCHANGED <<memberVars, voteForMe, logVars, peerVars, msgs>>
  <2>1. m.term \in Nat
    BY <1>1 DEF RequestVoteResponse
  <2> QED
    BY <1>2, <2>1, StepDownElection
<1>3. CASE CountVote(i, m)
  BY <1>1, <1>3, CountVoteElection DEF RecvRequestVoteResponse
<1> QED
  BY <1>2, <1>3 DEF RecvRequestVoteResponse

(* raft_recv_appendentries.                                                *)
LEMMA RecvAppendEntriesElection ==
  ASSUME TypeOK, ElectionInv, NEW i \in Server, NEW m \in msgs, RecvAppendEntries(i, m)
  PROVE  ElectionInv'
<1>1. m \in AppendEntries
  BY MessageFields DEF RecvAppendEntries, TypeOK
<1>2. m.term \in Nat
  BY <1>1 DEF AppendEntries
<1>3. CASE AppendStale(i, m)
  <2>1. UNCHANGED electionVars /\ active' = active
    BY <1>3 DEF AppendStale, memberVars
  <2>2. NoNewVote
    BY <1>3 DEF AppendStale, Send, NoNewVote, AppendReply
  <2> QED
    BY <2>1, <2>2, QuietStep DEF ElectionInv, ViewsHeld
<1>4. CASE AppendMismatch(i, m) \/ AppendMatch(i, m)
  <2>1. FollowLeader(i, m)
    BY <1>4 DEF AppendMismatch, AppendMatch
  <2>2. PICK success, idx : Send({AppendReply(i, m, m.term, success, idx)})
    BY <1>4 DEF AppendMismatch, AppendMatch, AppendAccept, AppendShutdown
  <2>3. NoNewVote
    BY <2>2 DEF Send, NoNewVote, AppendReply
  <2>4. /\ active' = active /\ voteForMe' = voteForMe /\ currentTerm[i] <= m.term
        /\ currentTerm' = [currentTerm EXCEPT ![i] = m.term]
        /\ votedFor' = [votedFor EXCEPT ![i] = IF currentTerm[i] < m.term THEN None ELSE @]
        /\ state' = [state EXCEPT ![i] = IF currentTerm[i] < m.term \/ @ = "Candidate"
                                         THEN "Follower" ELSE @]
    BY <2>1 DEF FollowLeader, memberVars
  <2> QED
    BY <1>2, <2>3, <2>4, FollowerElection
<1> QED
  BY <1>3, <1>4 DEF RecvAppendEntries

(* raft_recv_appendentries_response.                                       *)
LEMMA RecvAppendEntriesResponseElection ==
  ASSUME TypeOK, ElectionInv, NEW i \in Server, NEW m \in msgs,
         RecvAppendEntriesResponse(i, m)
  PROVE  ElectionInv'
<1>1. m \in AppendEntriesResponse
  BY MessageFields DEF RecvAppendEntriesResponse, TypeOK
<1>2. CASE currentTerm[i] < m.term /\ StepDown(i, m.term, None)
           /\ UNCHANGED <<memberVars, voteForMe, logVars, peerVars, msgs>>
  <2>1. m.term \in Nat
    BY <1>1 DEF AppendEntriesResponse
  <2> QED
    BY <1>2, <2>1, StepDownElection
<1>3. CASE AppendRefused(i, m) \/ AppendAcknowledged(i, m)
  <2>1. UNCHANGED electionVars /\ active' = active
    BY <1>3 DEF AppendRefused, AppendAcknowledged, memberVars
  <2>2. msgs' = msgs \/ \E next, commit : Resend(i, m.from, next, commit)
    BY <1>3 DEF AppendRefused, AppendAcknowledged
  <2>3. NoNewVote
    BY <2>2 DEF Resend, Send, NoNewVote, AppendEntriesTo
  <2> QED
    BY <2>1, <2>3, QuietStep DEF ElectionInv, ViewsHeld
<1> QED
  BY <1>2, <1>3 DEF RecvAppendEntriesResponse

-----------------------------------------------------------------------------
(* The votes are kept straight: ElectionInv is an invariant.               *)
THEOREM ElectionInvariant ==
  ASSUME AtMostOneLeaves, Designated = None
  PROVE  Spec => [](TypeOK /\ ElectionInv)
<1>1. Init => ElectionInv
  BY DEF Init, ElectionInv, ViewsHeld, Views, VoteOnce, GrantsBind, CountedVotes, OwnVote,
         LeadersElected, Of
<1>2. TypeOK /\ ElectionInv /\ [Next]_vars => ElectionInv'
  <2> SUFFICES ASSUME TypeOK, ElectionInv, [Next]_vars PROVE ElectionInv'
    OBVIOUS
  <2>1. CASE UNCHANGED vars
    BY <2>1, QuietStep DEF vars, memberVars, NoNewVote, ElectionInv, ViewsHeld
  <2>2. CASE Next
    <3>1. PICK i \in Server :
            \/ FormCluster(i)
            \/ \E j \in Server : MarkInactive(i, j)
            \/ Periodic(i)
            \/ RecvEntry(i)
            \/ \E m \in msgs : \/ RecvRequestVote(i, m)
                               \/ RecvRequestVoteResponse(i, m)
                               \/ RecvAppendEntries(i, m)
                               \/ RecvAppendEntriesResponse(i, m)
      BY <2>2 DEF Next
    <3> QED
      BY <3>1, FormClusterElection, MarkInactiveElection, PeriodicElectionInv,
         RecvEntryElection, RecvRequestVoteElection, RecvRequestVoteResponseElection,
         RecvAppendEntriesElection, RecvAppendEntriesResponseElection
  <2> QED
    BY <2>1, <2>2
<1> QED
  BY <1>1, <1>2, TypeCorrect, PTL DEF Spec

(* "One leader is elected": no two vehicles ever lead the same term.       *)
THEOREM ElectionSafe ==
  ASSUME AtMostOneLeaves, Designated = None
  PROVE  Spec => []ElectionSafety
<1>1. TypeOK /\ ElectionInv => ElectionSafety
  BY OneLeader
<1> QED
  BY <1>1, ElectionInvariant, PTL

(* A vote is given to at most one candidate a term.                        *)
THEOREM VotesOnce ==
  ASSUME AtMostOneLeaves, Designated = None
  PROVE  Spec => []VoteOnce
<1>1. ElectionInv => VoteOnce
  BY DEF ElectionInv
<1> QED
  BY <1>1, ElectionInvariant, PTL

-----------------------------------------------------------------------------
(* Runs of entries *)

(* A log, and what an AppendEntries carries of one: entries that follow    *)
(* the index prevIdx, where the term is prevTerm.                          *)
LogOf(l) == [prevIdx |-> 0, prevTerm |-> 0, entries |-> l]
Runs == {LogOf(log[i]) : i \in Server} \cup Of("AE")

InRun(r, p) == p # 0 /\ p \in r.prevIdx..(r.prevIdx + Len(r.entries))
EntryAt(r, p) == r.entries[p - r.prevIdx]
TermIn(r, p) == IF p = r.prevIdx THEN r.prevTerm ELSE EntryAt(r, p).term

(* Both say the same of index p.                                           *)
Same(r, s, p) ==
  /\ TermIn(r, p) = TermIn(s, p)
  /\ p # r.prevIdx /\ p # s.prevIdx => EntryAt(r, p) = EntryAt(s, p)

(* From an index where the terms are the same downwards they say the same. *)
Agree(r, s) ==
  \A p \in Nat : InRun(r, p) /\ InRun(s, p) /\ TermIn(r, p) = TermIn(s, p) =>
    \A h \in 1..p : InRun(r, h) /\ InRun(s, h) => Same(r, s, h)

(* All that r says s says too.                                             *)
PartOf(r, s) ==
  \A p \in Nat : InRun(r, p) =>
    InRun(s, p) /\ Same(r, s, p) /\ (p # r.prevIdx => p # s.prevIdx)

(* o has led term t, or leads it.                                          *)
Led(o, t) ==
  /\ Elected(o, t)
  /\ t <= currentTerm[o]
  /\ t = currentTerm[o] => votedFor[o] = o /\ state[o] # "Candidate"
  /\ \A m \in Of("RVR") : m.granted /\ m.from = o /\ m.term = t => m.to = o

(* Runs agree; a term that stands in one has been led, and so has the term *)
(* of an AppendEntries, by its sender; a leader has all there is of its    *)
(* own term.  Nobody answers itself.                                       *)
RunsAgree == \A r, s \in Runs : Agree(r, s)
TermsLed == \A r \in Runs : \A p \in Nat :
              InRun(r, p) => \E o \in Server : Led(o, TermIn(r, p))
SendersLed == /\ \A m \in Of("AE") : m.from # m.to /\ Led(m.from, m.term)
              /\ \A m \in Of("AER") : m.from # m.to
LeaderHasAll ==
  \A i \in Server : state[i] = "Leader" =>
    \A r \in Runs : \A p \in Nat :
      InRun(r, p) /\ TermIn(r, p) = currentTerm[i] => p <= Len(log[i])
LogInv == RunsAgree /\ TermsLed /\ SendersLed /\ LeaderHasAll

-----------------------------------------------------------------------------
(* Lemmas about runs *)

IsRun(r) == r.prevIdx \in Nat /\ r.prevTerm \in Nat /\ r.entries \in Seq(Entry)

LEMMA RunsAreRuns ==
  ASSUME TypeOK
  PROVE  /\ \A r \in Runs : IsRun(r)
         /\ \A m \in Of("AE") : m \in AppendEntries
<1>1. \A i \in Server : IsRun(LogOf(log[i]))
  BY DEF TypeOK, IsRun, LogOf
<1>2. \A m \in Of("AE") : m \in AppendEntries
  BY MessageFields DEF Of, TypeOK
<1> QED BY <1>1, <1>2 DEF Runs, IsRun, AppendEntries

LEMMA TermInType ==
  ASSUME NEW r, IsRun(r), NEW p \in Nat, InRun(r, p)
  PROVE  TermIn(r, p) \in Nat
<1>1. CASE p = r.prevIdx
  BY <1>1 DEF TermIn, IsRun
<1>2. CASE p # r.prevIdx
  <2>1. p - r.prevIdx \in 1..Len(r.entries)
    BY <1>2, LenProperties DEF IsRun, InRun
  <2>2. EntryAt(r, p) \in Entry
    BY <2>1, ElementOfSeq DEF EntryAt, IsRun
  <2> QED BY <1>2, <2>2 DEF TermIn, Entry
<1> QED BY <1>1, <1>2

(* What stands in a log.                                                   *)
LEMMA LogRun ==
  ASSUME NEW l \in Seq(Entry)
  PROVE  /\ \A p : InRun(LogOf(l), p) <=> p \in 1..Len(l)
         /\ \A p \in 1..Len(l) : /\ p # LogOf(l).prevIdx
                                 /\ EntryAt(LogOf(l), p) = l[p]
                                 /\ TermIn(LogOf(l), p) = l[p].term
<1>1. Len(l) \in Nat
  BY LenProperties
<1>2. ASSUME NEW p \in 1..Len(l)
      PROVE  /\ p # LogOf(l).prevIdx
             /\ EntryAt(LogOf(l), p) = l[p]
             /\ TermIn(LogOf(l), p) = l[p].term
  BY <1>1 DEF LogOf, EntryAt, TermIn
<1> QED BY <1>1, <1>2 DEF InRun, LogOf

LEMMA PartOfItself ==
  ASSUME NEW r
  PROVE  PartOf(r, r)
BY DEF PartOf, Same

LEMMA PartsAgree ==
  ASSUME NEW r, NEW r1, NEW s, NEW s1,
         PartOf(r, r1), PartOf(s, s1), Agree(r1, s1)
  PROVE  Agree(r, s)
<1> SUFFICES ASSUME NEW p \in Nat, InRun(r, p), InRun(s, p), TermIn(r, p) = TermIn(s, p),
                    NEW h \in 1..p, InRun(r, h), InRun(s, h)
             PROVE  Same(r, s, h)
  BY DEF Agree
<1>1. h \in Nat
  OBVIOUS
<1>2. /\ InRun(r1, p) /\ TermIn(r1, p) = TermIn(r, p)
      /\ InRun(s1, p) /\ TermIn(s1, p) = TermIn(s, p)
  BY DEF PartOf, Same
<1>3. /\ InRun(r1, h) /\ Same(r, r1, h) /\ (h # r.prevIdx => h # r1.prevIdx)
      /\ InRun(s1, h) /\ Same(s, s1, h) /\ (h # s.prevIdx => h # s1.prevIdx)
  BY <1>1 DEF PartOf
<1>4. Same(r1, s1, h)
  BY <1>2, <1>3 DEF Agree
<1> QED BY <1>3, <1>4 DEF Same

LEMMA AgreeBothWays ==
  ASSUME NEW r, NEW s, Agree(r, s)
  PROVE  Agree(s, r)
BY DEF Agree, Same

LEMMA AgreeWithItself ==
  ASSUME NEW r
  PROVE  Agree(r, r)
BY DEF Agree, Same

(* raft_send_appendentries sends a part of its log.                        *)
LEMMA SentIsPart ==
  ASSUME NEW i, NEW j, NEW term, NEW commit, NEW l \in Seq(Entry), NEW next \in Nat \ {0}
  PROVE  PartOf(AppendEntriesTo(i, j, term, next, l, commit), LogOf(l))
<1> DEFINE m == AppendEntriesTo(i, j, term, next, l, commit)
           s == SubSeq(l, next, Len(l))
<1>1. Len(l) \in Nat /\ DOMAIN l = 1..Len(l)
  BY LenProperties
<1>2. \A k \in next..Len(l) : l[k] \in Entry
  BY <1>1, ElementOfSeq
<1>3. /\ s \in Seq(Entry) /\ Len(s) = IF next <= Len(l) THEN Len(l) - next + 1 ELSE 0
      /\ \A h \in 1..Len(l) - next + 1 : s[h] = l[next + h - 1]
  BY <1>1, <1>2, SubSeqProperties
<1> HIDE DEF s
<1>4. /\ m.entries = s
      /\ m.prevIdx = IF next - 1 \in DOMAIN l THEN next - 1 ELSE 0
      /\ m.prevTerm = TermAt(l, next - 1)
  BY DEF AppendEntriesTo, s
<1> HIDE DEF m
<1> SUFFICES ASSUME NEW p \in Nat, InRun(m, p)
             PROVE  /\ InRun(LogOf(l), p) /\ Same(m, LogOf(l), p)
                    /\ p # LogOf(l).prevIdx
  BY DEF PartOf, m
<1>5. CASE p = m.prevIdx
  <2>1. next - 1 \in DOMAIN l /\ p = next - 1 /\ TermIn(m, p) = l[p].term
    BY <1>1, <1>4, <1>5 DEF InRun, TermIn, TermAt
  <2> QED BY <1>1, <1>5, <2>1, LogRun DEF Same
<1>6. CASE p # m.prevIdx
  <2>1. /\ next <= Len(l) /\ m.prevIdx = next - 1
        /\ p - m.prevIdx \in 1..Len(l) - next + 1
    BY <1>1, <1>3, <1>4, <1>6 DEF InRun
  <2>2. EntryAt(m, p) = l[p] /\ p \in 1..Len(l)
    BY <1>1, <1>3, <1>4, <2>1 DEF EntryAt
  <2> QED BY <1>6, <2>2, LogRun DEF Same, TermIn
<1> QED BY <1>5, <1>6

(* Deleting the end of a log leaves a part of it.                          *)
LEMMA PrefixIsPart ==
  ASSUME NEW l \in Seq(Entry), NEW n \in 0..Len(l)
  PROVE  PartOf(LogOf(SubSeq(l, 1, n)), LogOf(l))
<1> DEFINE s == SubSeq(l, 1, n)
<1>1. Len(l) \in Nat
  BY LenProperties
<1>2. s \in Seq(Entry)
  BY <1>1, PartOfLog
<1>3. Len(s) = n /\ \A k \in 1..n : s[k] = l[k]
  <2>1. \A k \in 1..n : l[k] \in Entry
    BY <1>1, ElementOfSeq
  <2> QED BY <1>1, <2>1, SubSeqProperties
<1> HIDE DEF s
<1> SUFFICES ASSUME NEW p \in Nat, InRun(LogOf(s), p)
             PROVE  /\ InRun(LogOf(l), p) /\ Same(LogOf(s), LogOf(l), p)
                    /\ p # LogOf(l).prevIdx
  BY DEF PartOf, s
<1>4. p \in 1..n /\ p \in 1..Len(l)
  BY <1>1, <1>2, <1>3, LogRun
<1> QED BY <1>2, <1>3, <1>4, LogRun DEF Same

LEMMA SamePrefix ==
  ASSUME NEW l \in Seq(Entry), NEW n \in Seq(Entry), NEW k \in Nat,
         k <= Len(l), k <= Len(n), \A h \in 1..k : l[h] = n[h]
  PROVE  SubSeq(l, 1, k) = SubSeq(n, 1, k)
<1>1. Len(l) \in Nat /\ Len(n) \in Nat
  BY LenProperties
<1>2. (\A h \in 1..k : l[h] \in Entry) /\ (\A h \in 1..k : n[h] \in Entry)
  BY <1>1, ElementOfSeq
<1>3. /\ SubSeq(l, 1, k) \in Seq(Entry) /\ SubSeq(n, 1, k) \in Seq(Entry)
      /\ Len(SubSeq(l, 1, k)) = k /\ Len(SubSeq(n, 1, k)) = k
      /\ \A h \in 1..k : SubSeq(l, 1, k)[h] = l[h] /\ SubSeq(n, 1, k)[h] = n[h]
  BY <1>2, SubSeqProperties
<1> QED BY <1>3, SeqEqual

(* What a merge takes from where.                                          *)
LEMMA MergedParts ==
  ASSUME NEW l \in Seq(Entry), NEW m \in AppendEntries, HasPrev(l, m),
         NEW k \in 0..Len(m.entries), MatchesUpTo(l, m, k), k # Len(m.entries)
  PROVE  /\ Merged(l, m, k) \in Seq(Entry)
         /\ m.prevIdx + k <= Len(l)
         /\ Len(Merged(l, m, k)) = m.prevIdx + Len(m.entries)
         /\ \A p \in 1..m.prevIdx + k : Merged(l, m, k)[p] = l[p]
         /\ \A p \in (m.prevIdx + k + 1)..(m.prevIdx + Len(m.entries)) :
              Merged(l, m, k)[p] = m.entries[p - m.prevIdx]
<1> DEFINE a == SubSeq(l, 1, m.prevIdx + k)
           b == SubSeq(m.entries, k + 1, Len(m.entries))
<1>1. /\ m.entries \in Seq(Entry) /\ m.prevIdx \in Nat /\ Len(m.entries) \in Nat
      /\ Len(l) \in Nat /\ m.prevIdx + k <= Len(l)
  BY MergedType, LenProperties DEF AppendEntries
<1>2. a \in Seq(Entry) /\ b \in Seq(Entry)
  BY <1>1, PartOfLog
<1>3. Len(a) = m.prevIdx + k /\ \A p \in 1..m.prevIdx + k : a[p] = l[p]
  <2>1. \A p \in 1..m.prevIdx + k : l[p] \in Entry
    BY <1>1, ElementOfSeq
  <2> QED BY <1>1, <2>1, SubSeqProperties
<1>4. /\ Len(b) = Len(m.entries) - k
      /\ \A p \in 1..Len(m.entries) - k : b[p] = m.entries[k + p]
  <2>1. \A p \in k + 1..Len(m.entries) : m.entries[p] \in Entry
    BY <1>1, ElementOfSeq
  <2>2. /\ Len(b) = Len(m.entries) - (k + 1) + 1
        /\ \A p \in 1..Len(m.entries) - (k + 1) + 1 : b[p] = m.entries[(k + 1) + p - 1]
    BY <1>1, <2>1, SubSeqProperties
  <2> QED BY <1>1, <2>2
<1>5. Merged(l, m, k) = a \o b
  BY DEF Merged
<1> HIDE DEF a, b
<1>6. /\ a \o b \in Seq(Entry) /\ Len(a \o b) = Len(a) + Len(b)
      /\ \A p \in 1..Len(a) + Len(b) :
           (a \o b)[p] = IF p <= Len(a) THEN a[p] ELSE b[p - Len(a)]
  BY <1>2, ConcatProperties
<1>7. \A p \in 1..m.prevIdx + k : (a \o b)[p] = l[p]
  BY <1>1, <1>3, <1>4, <1>6
<1>8. ASSUME NEW p \in (m.prevIdx + k + 1)..(m.prevIdx + Len(m.entries))
      PROVE  (a \o b)[p] = m.entries[p - m.prevIdx]
  <2>1. (a \o b)[p] = b[p - (m.prevIdx + k)]
    <3>1. p \in 1..Len(a) + Len(b) /\ ~(p <= Len(a)) /\ Len(a) = m.prevIdx + k
      BY <1>1, <1>3, <1>4
    <3> QED BY <1>6, <3>1
  <2>2. p - (m.prevIdx + k) \in 1..Len(m.entries) - k
    BY <1>1
  <2>3. k + (p - (m.prevIdx + k)) = p - m.prevIdx
    BY <1>1
  <2> QED BY <1>4, <2>1, <2>2, <2>3
<1>9. Len(a \o b) = m.prevIdx + Len(m.entries)
  <2>1. Len(a) = m.prevIdx + k /\ Len(b) = Len(m.entries) - k
    BY <1>3, <1>4
  <2>2. Len(a \o b) = Len(a) + Len(b)
    BY <1>6
  <2>3. m.prevIdx + k + (Len(m.entries) - k) = m.prevIdx + Len(m.entries)
    BY <1>1
  <2> QED BY <2>1, <2>2, <2>3
<1> QED BY <1>1, <1>5, <1>6, <1>7, <1>8, <1>9

(* A log that takes over what a leader sends agrees with everything that   *)
(* both the log and the message agree with.                                *)
LEMMA MergedAgrees ==
  ASSUME NEW l \in Seq(Entry), NEW m \in AppendEntries, HasPrev(l, m),
         NEW k \in 0..Len(m.entries), MatchesUpTo(l, m, k), k # Len(m.entries),
         NEW s, IsRun(s), Agree(LogOf(l), s), Agree(m, s), Agree(LogOf(l), m)
  PROVE  Agree(LogOf(Merged(l, m, k)), s)
<1> DEFINE n == Merged(l, m, k)
           q == m.prevIdx + k
<1>1. /\ m.prevIdx \in Nat /\ Len(m.entries) \in Nat /\ Len(l) \in Nat
      /\ s.prevIdx \in Nat /\ Len(s.entries) \in Nat
  BY LenProperties DEF AppendEntries, IsRun
<1>2. /\ n \in Seq(Entry) /\ q <= Len(l) /\ Len(n) = m.prevIdx + Len(m.entries)
      /\ \A p \in 1..q : n[p] = l[p]
      /\ \A p \in (q + 1)..Len(n) : n[p] = EntryAt(m, p)
  BY MergedParts DEF EntryAt
<1> HIDE DEF n
<1> SUFFICES ASSUME NEW p \in Nat, InRun(LogOf(n), p), InRun(s, p),
                    TermIn(LogOf(n), p) = TermIn(s, p),
                    NEW h \in 1..p, InRun(LogOf(n), h), InRun(s, h)
             PROVE  Same(LogOf(n), s, h)
  BY DEF Agree, n
<1>3. p \in 1..Len(n) /\ h \in 1..Len(n) /\ h \in Nat
  BY <1>2, LogRun
<1>4. /\ n[p].term = TermIn(LogOf(n), p)
      /\ TermIn(LogOf(n), h) = n[h].term /\ EntryAt(LogOf(n), h) = n[h]
      /\ h # LogOf(n).prevIdx
  BY <1>2, <1>3, LogRun
(* What the log kept says the same as before.                              *)
<1>5. ASSUME NEW x \in 1..q
      PROVE  /\ InRun(LogOf(l), x) /\ TermIn(LogOf(l), x) = l[x].term
             /\ EntryAt(LogOf(l), x) = l[x] /\ x # LogOf(l).prevIdx
             /\ n[x] = l[x] /\ x \in Nat
  <2>1. x \in 1..Len(l)
    BY <1>1, <1>2
  <2> QED BY <1>2, <2>1, LogRun
<1>6. h <= q /\ Same(LogOf(l), s, h) => Same(LogOf(n), s, h)
  BY <1>1, <1>3, <1>4, <1>5 DEF Same
<1>7. CASE p <= q
  <2>1. p \in 1..q /\ h \in 1..q
    BY <1>1, <1>3, <1>7
  <2>2. TermIn(LogOf(l), p) = TermIn(s, p) /\ InRun(LogOf(l), p) /\ InRun(LogOf(l), h)
    BY <1>4, <1>5, <2>1
  <2>3. Same(LogOf(l), s, h)
    BY <2>2 DEF Agree
  <2> QED BY <1>6, <2>1, <2>3
<1>8. CASE p > q
  <2>1. ASSUME NEW x \in (m.prevIdx + 1)..Len(n)
        PROVE  InRun(m, x) /\ TermIn(m, x) = EntryAt(m, x).term /\ x # m.prevIdx
    BY <1>1, <1>2, SMTT(20) DEF InRun, TermIn
  <2>2. InRun(m, p) /\ TermIn(m, p) = TermIn(s, p)
    <3>1. p \in (q + 1)..Len(n) /\ p \in (m.prevIdx + 1)..Len(n)
      BY <1>1, <1>3, <1>8
    <3> QED BY <1>2, <1>4, <2>1, <3>1
  <2>3. ASSUME NEW x \in 1..p, InRun(m, x), InRun(s, x) PROVE Same(m, s, x)
    BY <2>2, <2>3 DEF Agree
  <2>4. CASE h > q
    <3>1. h \in (q + 1)..Len(n) /\ h \in (m.prevIdx + 1)..Len(n)
      BY <1>1, <1>3, <2>4
    <3>2. n[h] = EntryAt(m, h) /\ InRun(m, h) /\ TermIn(m, h) = EntryAt(m, h).term
          /\ h # m.prevIdx
      BY <1>2, <2>1, <3>1
    <3> QED BY <1>4, <2>3, <3>2 DEF Same
  <2>5. CASE h <= q /\ m.prevIdx < h
    <3>1. h \in (m.prevIdx + 1)..Len(n) /\ h \in 1..q
      BY <1>1, <1>3, <2>5
    <3>2. Holds(l, m.prevIdx + (h - m.prevIdx), m.entries[h - m.prevIdx].term)
      <4>1. h - m.prevIdx \in 1..k
        BY <1>1, <2>5, <3>1
      <4> QED BY <4>1 DEF MatchesUpTo
    <3>3. l[h].term = EntryAt(m, h).term
      <4>1. m.prevIdx + (h - m.prevIdx) = h
        BY <1>1, <3>1
      <4> QED BY <3>2, <4>1 DEF Holds, EntryAt
    <3>4. InRun(m, h) /\ TermIn(m, h) = EntryAt(m, h).term /\ h # m.prevIdx
      BY <2>1, <3>1
    <3>5. Same(LogOf(l), m, h)
      <4>1. InRun(LogOf(l), h) /\ TermIn(LogOf(l), h) = TermIn(m, h) /\ h \in 1..h
        BY <1>3, <1>5, <3>1, <3>3, <3>4
      <4> QED BY <1>3, <3>4, <4>1 DEF Agree
    <3>6. Same(m, s, h)
      BY <2>3, <3>4
    <3>7. Same(LogOf(l), s, h)
      BY <1>5, <3>1, <3>4, <3>5, <3>6 DEF Same
    <3> QED BY <1>6, <2>5, <3>7
  <2>6. CASE h <= m.prevIdx
    <3>1. m.prevIdx \in 1..q /\ h \in 1..m.prevIdx /\ h \in 1..q /\ m.prevIdx \in 1..p
      BY <1>1, <1>3, <1>8, <2>6
    <3>2. Holds(l, m.prevIdx, m.prevTerm)
      BY <3>1 DEF HasPrev
    <3>3. InRun(m, m.prevIdx) /\ TermIn(m, m.prevIdx) = m.prevTerm
      BY <1>1, <3>1 DEF InRun, TermIn
    <3>4. InRun(s, m.prevIdx)
      BY <1>1, <1>3, <3>1, SMTT(20) DEF InRun
    <3>5. TermIn(s, m.prevIdx) = m.prevTerm
      BY <2>3, <3>1, <3>3, <3>4 DEF Same
    <3>6. InRun(LogOf(l), m.prevIdx) /\ TermIn(LogOf(l), m.prevIdx) = m.prevTerm
      BY <1>5, <3>1, <3>2 DEF Holds
    <3>7. Same(LogOf(l), s, h)
      BY <1>1, <1>5, <3>1, <3>4, <3>5, <3>6 DEF Agree
    <3> QED BY <1>6, <3>1, <3>7
  <2> QED BY <1>1, <1>3, <2>4, <2>5, <2>6
<1> QED BY <1>1, <1>3, <1>7, <1>8

-----------------------------------------------------------------------------
(* Terms that were led *)

(* Two vehicles elected in one term would share a voter.                   *)
LEMMA NoTwoElected ==
  ASSUME AtMostOneLeaves, NEW i \in Server, NEW j \in Server, NEW t, NEW M,
         \E A \in Views : \E Q \in Majorities(A) :
           i \in Q /\ \A v \in Q \ {i} : Granted(v, i, t) \in M,
         \E A \in Views : \E Q \in Majorities(A) :
           j \in Q /\ \A v \in Q \ {j} : Granted(v, j, t) \in M,
         \A v : Granted(v, i, t) \in M /\ Granted(v, j, t) \in M => i = j,
         Granted(i, j, t) \in M => i = j,
         Granted(j, i, t) \in M => i = j
  PROVE  i = j
<1>1. PICK A \in Views : \E Q \in Majorities(A) :
        i \in Q /\ \A v \in Q \ {i} : Granted(v, i, t) \in M
  OBVIOUS
<1>2. PICK Q \in Majorities(A) : i \in Q /\ \A v \in Q \ {i} : Granted(v, i, t) \in M
  BY <1>1
<1>3. PICK B \in Views : \E R \in Majorities(B) :
        j \in R /\ \A v \in R \ {j} : Granted(v, j, t) \in M
  OBVIOUS
<1>4. PICK R \in Majorities(B) : j \in R /\ \A v \in R \ {j} : Granted(v, j, t) \in M
  BY <1>3
<1>5. PICK v : v \in Q \cap R
  BY MajoritiesIntersect
<1>6. v = i \/ Granted(v, i, t) \in M
  BY <1>2, <1>5
<1>7. v = j \/ Granted(v, j, t) \in M
  BY <1>4, <1>5
<1> QED BY <1>6, <1>7

LEMMA LedOnce ==
  ASSUME AtMostOneLeaves, VoteOnce, NEW i \in Server, NEW j \in Server, NEW t,
         Led(i, t), Led(j, t)
  PROVE  i = j
<1>1. \A v, w : Granted(v, w, t) \in msgs => Granted(v, w, t) \in Of("RVR")
  BY DEF Granted, Of
<1>2. \A v : Granted(v, i, t) \in msgs /\ Granted(v, j, t) \in msgs => i = j
  BY <1>1 DEF VoteOnce, Granted
<1>3. /\ Granted(i, j, t) \in msgs => i = j
      /\ Granted(j, i, t) \in msgs => i = j
  BY <1>1 DEF Led, Granted
<1> QED BY <1>2, <1>3, NoTwoElected DEF Led, Elected

LEMMA LedOnceNext ==
  ASSUME AtMostOneLeaves, VoteOnce', NEW i \in Server, NEW j \in Server, NEW t,
         Led(i, t)', Led(j, t)'
  PROVE  i = j
<1>1. \A v, w : Granted(v, w, t) \in msgs' => Granted(v, w, t) \in Of("RVR")'
  BY DEF Granted, Of
<1>2. \A v : Granted(v, i, t) \in msgs' /\ Granted(v, j, t) \in msgs' => i = j
  BY <1>1 DEF VoteOnce, Granted
<1>3. /\ Granted(i, j, t) \in msgs' => i = j
      /\ Granted(j, i, t) \in msgs' => i = j
  BY <1>1 DEF Led, Granted
<1> QED BY <1>2, <1>3, NoTwoElected DEF Led, Elected

(* A leader leads its term.                                                *)
LEMMA LeaderLed ==
  ASSUME TypeOK, ElectionInv, NEW i \in Server, state[i] = "Leader"
  PROVE  Led(i, currentTerm[i])
BY DEF TypeOK, ElectionInv, LeadersElected, OwnVote, GrantsBind, Led

LEMMA LeaderLedNext ==
  ASSUME TypeOK', ElectionInv', NEW i \in Server, state'[i] = "Leader",
         NEW t, t = currentTerm'[i]
  PROVE  Led(i, t)'
BY DEF TypeOK, ElectionInv, LeadersElected, OwnVote, GrantsBind, Led

(* What every step does to votes, terms and roles.                         *)
TermsMove ==
  /\ msgs \subseteq msgs'
  /\ \A m \in msgs' \ msgs : m.type = "RVR" /\ m.granted => m.term = currentTerm'[m.from]
  /\ \A j \in Server :
       /\ currentTerm[j] <= currentTerm'[j]
       /\ currentTerm'[j] = currentTerm[j] =>
            /\ votedFor[j] = j => votedFor'[j] = j
            /\ state'[j] = "Candidate" => state[j] = "Candidate"

(* A term that was led stays one.                                          *)
LEMMA LedKept ==
  ASSUME TypeOK, TypeOK', ElectionInv', TermsMove,
         NEW o \in Server, NEW t \in Nat, Led(o, t)
  PROVE  Led(o, t)'
<1>1. Elected(o, t)'
  BY DEF Led, Elected, TermsMove
<1>2. currentTerm[o] \in Nat /\ currentTerm'[o] \in Nat /\ currentTerm[o] <= currentTerm'[o]
  BY DEF TypeOK, TermsMove
<1>3. t <= currentTerm'[o]
  BY <1>2 DEF Led
<1>4. t = currentTerm'[o] => /\ currentTerm'[o] = currentTerm[o]
                             /\ votedFor'[o] = o /\ state'[o] # "Candidate"
  BY <1>2 DEF Led, TermsMove
<1>5. ASSUME NEW m \in Of("RVR")', m.granted, m.from = o, m.term = t PROVE m.to = o
  <2>1. CASE m \in msgs
    BY <1>5, <2>1 DEF Led, Of
  <2>2. CASE m \notin msgs
    <3>1. m.term = currentTerm'[o]
      BY <1>5, <2>2 DEF TermsMove, Of
    <3>2. votedFor'[o] = m.to
      BY <1>5, <3>1 DEF ElectionInv, GrantsBind
    <3> QED BY <1>4, <1>5, <3>1, <3>2
  <2> QED BY <2>1, <2>2
<1> QED BY <1>1, <1>3, <1>4, <1>5 DEF Led

-----------------------------------------------------------------------------
(* What keeps LogInv *)

(* Whatever stands in a run stood in one before, or its leader put it      *)
(* there.                                                                  *)
SpotsStep ==
  \A r \in Runs' : \A p \in Nat : InRun(r, p) =>
    \/ \E s \in Runs : InRun(s, p) /\ TermIn(s, p) = TermIn(r, p)
    \/ \E k \in Server : /\ state'[k] = "Leader" /\ TermIn(r, p) = currentTerm'[k]
                         /\ Len(log[k]) < p /\ p <= Len(log'[k])
(* Leaders send AppendEntries, to others.                                  *)
SendersStep ==
  /\ \A m \in Of("AE")' : m \notin Of("AE") =>
       /\ m.from \in Server /\ m.from # m.to
       /\ state'[m.from] = "Leader" /\ m.term = currentTerm'[m.from]
  /\ \A m \in Of("AER")' : m \notin Of("AER") => m.from # m.to
(* Candidates become leaders, and a leader's log does not shrink.          *)
RolesStep ==
  \A k \in Server : state'[k] = "Leader" =>
    /\ currentTerm'[k] = currentTerm[k]
    /\ state[k] = "Candidate" \/ (state[k] = "Leader" /\ Len(log[k]) <= Len(log'[k]))

LEMMA LogStep ==
  ASSUME AtMostOneLeaves, TypeOK, ElectionInv, LogInv, TypeOK', ElectionInv',
         TermsMove, RunsAgree', SpotsStep, SendersStep, RolesStep
  PROVE  LogInv'
<1>1. /\ \A r \in Runs : IsRun(r)
      /\ \A m \in Of("AE") : m \in AppendEntries
  BY RunsAreRuns
<1>2. ASSUME NEW s \in Runs, NEW p \in Nat, InRun(s, p)
      PROVE  \E o \in Server : Led(o, TermIn(s, p)) /\ Led(o, TermIn(s, p))'
  <2>1. PICK o \in Server : Led(o, TermIn(s, p))
    BY <1>2 DEF LogInv, TermsLed
  <2>2. TermIn(s, p) \in Nat
    BY <1>1, <1>2, TermInType
  <2> QED BY <2>1, <2>2, LedKept
<1>3. ASSUME NEW k \in Server, state'[k] = "Leader", NEW t, t = currentTerm'[k]
      PROVE  Led(k, t)'
  BY <1>3, LeaderLedNext
<1>4. TermsLed'
  <2> SUFFICES ASSUME NEW r \in Runs', NEW p \in Nat, InRun(r, p)
               PROVE  \E o \in Server : Led(o, TermIn(r, p))'
    BY DEF TermsLed
  <2>1. CASE \E s \in Runs : InRun(s, p) /\ TermIn(s, p) = TermIn(r, p)
    <3>1. PICK s \in Runs : InRun(s, p) /\ TermIn(s, p) = TermIn(r, p)
      BY <2>1
    <3> QED BY <1>2, <3>1
  <2>2. CASE \E k \in Server : state'[k] = "Leader" /\ TermIn(r, p) = currentTerm'[k]
    BY <1>3, <2>2
  <2> QED BY <2>1, <2>2 DEF SpotsStep
<1>5. SendersLed'
  <2> SUFFICES ASSUME NEW m \in Of("AE")'
               PROVE  m.from # m.to /\ Led(m.from, m.term)'
    BY DEF SendersLed, SendersStep, LogInv
  <2>1. CASE m \in Of("AE")
    <3>1. m.from \in Server /\ m.term \in Nat
      BY <1>1, <2>1 DEF AppendEntries
    <3> QED BY <2>1, <3>1, LedKept DEF LogInv, SendersLed
  <2>2. CASE m \notin Of("AE")
    BY <1>3, <2>2 DEF SendersStep
  <2> QED BY <2>1, <2>2
<1>6. LeaderHasAll'
  <2> SUFFICES ASSUME NEW k \in Server, state'[k] = "Leader",
                      NEW r \in Runs', NEW p \in Nat, InRun(r, p),
                      TermIn(r, p) = currentTerm'[k]
               PROVE  p <= Len(log'[k])
    BY DEF LeaderHasAll
  <2>1. CASE \E s \in Runs : InRun(s, p) /\ TermIn(s, p) = TermIn(r, p)
    <3>1. PICK s \in Runs : InRun(s, p) /\ TermIn(s, p) = currentTerm'[k]
      BY <2>1
    <3>2. CASE state[k] = "Leader" /\ Len(log[k]) <= Len(log'[k])
      <4>1. p <= Len(log[k])
        BY <3>1, <3>2 DEF LogInv, LeaderHasAll, RolesStep
      <4>2. Len(log[k]) \in Nat /\ Len(log'[k]) \in Nat
        BY LenProperties DEF TypeOK
      <4> QED BY <3>2, <4>1, <4>2
    <3>3. CASE state[k] = "Candidate"
      <4>1. PICK o \in Server : Led(o, TermIn(s, p)) /\ Led(o, TermIn(s, p))'
        BY <1>2, <3>1
      <4>2. Led(k, TermIn(s, p))'
        BY <1>3, <3>1
      <4>3. o = k
        BY <4>1, <4>2, LedOnceNext DEF ElectionInv
      <4> QED BY <3>1, <3>3, <4>1, <4>3 DEF Led, RolesStep
    <3> QED BY <3>2, <3>3 DEF RolesStep
  <2>2. CASE \E j \in Server : /\ state'[j] = "Leader" /\ TermIn(r, p) = currentTerm'[j]
                               /\ p <= Len(log'[j])
    <3>1. PICK j \in Server : /\ state'[j] = "Leader" /\ TermIn(r, p) = currentTerm'[j]
                             /\ p <= Len(log'[j])
      BY <2>2
    <3>2. Led(k, TermIn(r, p))' /\ Led(j, TermIn(r, p))'
      BY <1>3, <3>1
    <3> QED BY <3>1, <3>2, LedOnceNext DEF ElectionInv
  <2> QED BY <2>1, <2>2 DEF SpotsStep
<1> QED BY <1>4, <1>5, <1>6 DEF LogInv

-----------------------------------------------------------------------------
(* The steps *)

GoodStep == TermsMove /\ RunsAgree' /\ SpotsStep /\ SendersStep /\ RolesStep

(* Nothing is in the runs but parts of what was there.                     *)
LEMMA PartsStep ==
  ASSUME RunsAgree, \A r \in Runs' : \E s \in Runs : PartOf(r, s)
  PROVE  RunsAgree' /\ SpotsStep
<1>1. RunsAgree'
  BY PartsAgree DEF RunsAgree
<1>2. SpotsStep
  BY DEF SpotsStep, PartOf, Same
<1> QED BY <1>1, <1>2

(* AppendEntries that leader i sends of its log, and replies to others.    *)
SentBy(i) ==
  \A m \in msgs' \ msgs :
    /\ m.type = "AE" =>
         /\ state'[i] = "Leader"
         /\ \E j \in Server \ {i}, next \in Nat \ {0}, commit \in Nat :
              m = AppendEntriesTo(i, j, currentTerm'[i], next, log[i], commit)
    /\ m.type = "AER" => m.from # m.to

LEMMA SendingStep ==
  ASSUME TypeOK, RunsAgree, NEW i \in Server, log' = log, SentBy(i)
  PROVE  RunsAgree' /\ SpotsStep /\ SendersStep
<1>1. ASSUME NEW m \in Of("AE")', m \notin Of("AE")
      PROVE  /\ PartOf(m, LogOf(log[i]))
             /\ m.from = i /\ m.to # i /\ state'[i] = "Leader" /\ m.term = currentTerm'[i]
  <2>1. m \in msgs' \ msgs /\ m.type = "AE"
    BY <1>1 DEF Of
  <2>2. PICK j \in Server \ {i}, next \in Nat \ {0}, commit \in Nat :
          m = AppendEntriesTo(i, j, currentTerm'[i], next, log[i], commit)
    BY <2>1 DEF SentBy
  <2>3. PartOf(m, LogOf(log[i]))
    BY <2>2, SentIsPart DEF TypeOK
  <2>4. m.from = i /\ m.to = j /\ m.term = currentTerm'[i] /\ j # i
    BY <2>2 DEF AppendEntriesTo
  <2> QED BY <2>1, <2>3, <2>4 DEF SentBy
<1>2. \A r \in Runs' : \E s \in Runs : PartOf(r, s)
  BY <1>1, PartOfItself DEF Runs
<1>3. SendersStep
  BY <1>1 DEF SendersStep, SentBy, Of
<1> QED BY <1>2, <1>3, PartsStep

(* A step that changes no vote, no term, no role and no log.               *)
LEMMA QuietGood ==
  ASSUME TypeOK, LogInv, NEW i \in Server, UNCHANGED electionVars, log' = log,
         NoNewVote, SentBy(i)
  PROVE  GoodStep
<1>1. TermsMove
  BY DEF electionVars, NoNewVote, TermsMove, TypeOK
<1>2. RolesStep
  <2>1. \A k \in Server : Len(log[k]) <= Len(log'[k])
    BY LenProperties DEF TypeOK
  <2> QED BY <2>1 DEF electionVars, RolesStep
<1> QED BY <1>1, <1>2, SendingStep DEF GoodStep, LogInv

LEMMA FormClusterGood ==
  ASSUME Designated = None, TypeOK, LogInv, NEW i \in Server, FormCluster(i)
  PROVE  GoodStep
<1>1. i # Designated
  BY ServerAssumption
<1>2. UNCHANGED electionVars /\ msgs' = msgs /\ log' = log
  BY <1>1 DEF FormCluster, electionVars, logVars
<1> QED BY <1>2, QuietGood DEF NoNewVote, SentBy

LEMMA MarkInactiveGood ==
  ASSUME TypeOK, LogInv, NEW i \in Server, NEW j \in Server, MarkInactive(i, j)
  PROVE  GoodStep
<1>1. UNCHANGED electionVars /\ msgs' = msgs /\ log' = log
  BY DEF MarkInactive, logVars
<1> QED BY <1>1, QuietGood DEF NoNewVote, SentBy

(* Others are others, and only they are sent anything.                     *)
LEMMA PeersAreOthers ==
  ASSUME TypeOK, NEW i \in Server
  PROVE  Peers(i) \subseteq Server \ {i}
BY DEF TypeOK, Peers

LEMMA AppendEntriesType ==
  ASSUME NEW i, NEW j, NEW term, NEW next, NEW l, NEW commit
  PROVE  AppendEntriesTo(i, j, term, next, l, commit).type = "AE"
BY DEF AppendEntriesTo

(* What raft_become_leader sends.                                          *)
LEMMA BecomeLeaderSends ==
  ASSUME TypeOK, NEW i \in Server, BecomeLeader(i, currentTerm[i]), NEW m \in msgs' \ msgs
  PROVE  m.type = "AE" /\ \E j \in Server \ {i} :
           m = AppendEntriesTo(i, j, currentTerm[i], Len(log[i]) + 1, log[i], commitIdx[i])
<1>1. PICK j \in Peers(i) :
        m = AppendEntriesTo(i, j, currentTerm[i], Len(log[i]) + 1, log[i], commitIdx[i])
  BY DEF BecomeLeader, Send
<1>2. j \in Server \ {i}
  BY PeersAreOthers
<1> QED BY <1>1, <1>2, AppendEntriesType

(* What the heartbeats of raft_periodic send.                              *)
LEMMA HeartbeatSends ==
  ASSUME TypeOK, NEW i \in Server, PeriodicHeartbeat(i), NEW m \in msgs' \ msgs
  PROVE  m.type = "AE" /\ \E j \in Server \ {i} :
           m = AppendEntriesTo(i, j, currentTerm[i], nextIdx[i][j], log[i], commitIdx[i])
<1>1. PICK j \in Peers(i) :
        m = AppendEntriesTo(i, j, currentTerm[i], nextIdx[i][j], log[i], commitIdx[i])
  BY DEF PeriodicHeartbeat, Send
<1>2. j \in Server \ {i}
  BY PeersAreOthers
<1> QED BY <1>1, <1>2, AppendEntriesType

(* raft_become_leader sends what a candidate's log ends with.              *)
LEMMA BecomeLeaderGood ==
  ASSUME TypeOK, LogInv, NEW i \in Server, BecomeLeader(i, currentTerm[i]),
         state[i] = "Candidate", currentTerm' = currentTerm, log' = log
  PROVE  GoodStep
<1>1. /\ NoNewVote
      /\ state' = [state EXCEPT ![i] = "Leader"]
      /\ votedFor' = [votedFor EXCEPT ![i] = i]
  BY BecomeLeaderElection
<1>2. TermsMove
  BY <1>1 DEF NoNewVote, TermsMove, TypeOK
<1>3. RolesStep
  <2>1. \A k \in Server : Len(log[k]) <= Len(log'[k])
    BY LenProperties DEF TypeOK
  <2> QED BY <1>1, <2>1 DEF RolesStep, TypeOK
<1>4. SentBy(i)
  <2>1. /\ Len(log[i]) + 1 \in Nat \ {0} /\ commitIdx[i] \in Nat
        /\ state'[i] = "Leader"
    BY <1>1, LenProperties DEF TypeOK
  <2>2. \A m \in msgs' \ msgs : m.type = "AE" /\ \E j \in Server \ {i} :
          m = AppendEntriesTo(i, j, currentTerm[i], Len(log[i]) + 1, log[i], commitIdx[i])
    BY BecomeLeaderSends
  <2> QED BY <2>1, <2>2 DEF SentBy
<1> QED BY <1>2, <1>3, <1>4, SendingStep DEF GoodStep, LogInv

(* raft_periodic, where no vehicle is alone.                               *)
LEMMA PeriodicGood ==
  ASSUME AtMostOneLeaves, \A j \in Server : Server # {j}, TypeOK, ElectionInv, LogInv,
         NEW i \in Server, Periodic(i)
  PROVE  GoodStep
<1>1. CASE PeriodicOnlyVoter(i)
  <2>1. {i} \in Views
    BY <1>1 DEF PeriodicOnlyVoter, OnlyVoter, ElectionInv, ViewsHeld
  <2> QED BY <2>1, LastVoterIsAlone
<1>2. CASE PeriodicElection(i)
  <2>1. /\ currentTerm' = [currentTerm EXCEPT ![i] = @ + 1]
        /\ state' = [state EXCEPT ![i] = "Candidate"]
        /\ votedFor' = [votedFor EXCEPT ![i] = i]
        /\ log' = log /\ msgs \subseteq msgs'
        /\ \A m \in msgs' \ msgs : m.type = "RV"
    BY <1>2 DEF PeriodicElection, Send
  <2>2. \A k \in Server : k # i =>
          /\ currentTerm'[k] = currentTerm[k] /\ state'[k] = state[k]
          /\ votedFor'[k] = votedFor[k]
    BY <2>1 DEF TypeOK
  <2>3. /\ currentTerm'[i] = currentTerm[i] + 1 /\ state'[i] = "Candidate"
        /\ \A k \in Server : currentTerm[k] \in Nat
    BY <2>1 DEF TypeOK
  <2>4. TermsMove
    BY <2>1, <2>2, <2>3 DEF TermsMove
  <2>5. RolesStep
    <3>1. \A k \in Server : Len(log[k]) <= Len(log'[k])
      BY <2>1, LenProperties DEF TypeOK
    <3> QED BY <2>2, <2>3, <3>1 DEF RolesStep
  <2>6. SentBy(i)
    BY <2>1 DEF SentBy
  <2> QED BY <2>1, <2>4, <2>5, <2>6, SendingStep DEF GoodStep, LogInv
<1>3. CASE PeriodicHeartbeat(i)
  <2>1. /\ UNCHANGED electionVars /\ log' = log /\ state[i] = "Leader"
        /\ msgs \subseteq msgs'
        /\ \A m \in msgs' \ msgs : m.type = "AE" /\ \E j \in Server \ {i} :
             m = AppendEntriesTo(i, j, currentTerm[i], nextIdx[i][j], log[i], commitIdx[i])
    BY <1>3, HeartbeatSends DEF PeriodicHeartbeat, Send
  <2>2. commitIdx[i] \in Nat /\ \A j \in Server : nextIdx[i][j] \in Nat \ {0}
    BY DEF TypeOK
  <2>3. SentBy(i)
    BY <2>1, <2>2 DEF SentBy, electionVars
  <2>4. NoNewVote
    BY <2>1 DEF NoNewVote
  <2> QED BY <2>1, <2>3, <2>4, QuietGood
<1>4. CASE PeriodicIdle(i)
  <2>1. UNCHANGED electionVars /\ log' = log /\ msgs' = msgs
    BY <1>4 DEF PeriodicIdle
  <2> QED BY <2>1, QuietGood DEF NoNewVote, SentBy
<1> QED BY <1>1, <1>2, <1>3, <1>4 DEF Periodic

(* raft_recv_requestvote sends no entries.                                 *)
LEMMA RequestVoteGood ==
  ASSUME TypeOK, ElectionInv, LogInv, NEW i \in Server, NEW m \in msgs,
         RecvRequestVote(i, m)
  PROVE  GoodStep
<1>1. m \in RequestVote
  BY MessageFields DEF RecvRequestVote, TypeOK
<1>2. m.from \in Server /\ m.term \in Nat /\ i # None
  BY <1>1, ServerAssumption DEF RequestVote
<1>3. CASE RefuseForLeader(i, m)
  <2>1. UNCHANGED electionVars /\ log' = log
    BY <1>3 DEF RefuseForLeader, logVars
  <2>2. NoNewVote /\ SentBy(i)
    BY <1>3 DEF RefuseForLeader, Send, NoNewVote, SentBy, VoteReply
  <2> QED BY <2>1, <2>2, QuietGood
<1>4. CASE ConsiderVote(i, m)
  <2> DEFINE newer == currentTerm[i] < m.term
             vote == IF newer THEN None ELSE votedFor[i]
             grant == ShouldGrantVote(i, m, vote)
  <2>1. /\ currentTerm' = [currentTerm EXCEPT ![i] = IF newer THEN m.term ELSE @]
        /\ state' = [state EXCEPT ![i] = IF newer THEN "Follower" ELSE @]
        /\ votedFor' = [votedFor EXCEPT ![i] = IF grant THEN m.from ELSE vote]
        /\ msgs' = msgs \cup {VoteReply(i, m, currentTerm'[i], grant)}
        /\ log' = log
    BY <1>4 DEF ConsiderVote, Send, logVars
  <2>2. grant => vote = None
    BY DEF ShouldGrantVote
  <2> HIDE DEF grant
  <2>3. /\ \A k \in Server : currentTerm[k] \in Nat
        /\ \A k \in Server : k # i =>
             /\ currentTerm'[k] = currentTerm[k] /\ state'[k] = state[k]
             /\ votedFor'[k] = votedFor[k]
        /\ currentTerm'[i] = IF newer THEN m.term ELSE currentTerm[i]
        /\ state'[i] = IF newer THEN "Follower" ELSE state[i]
        /\ votedFor'[i] = IF grant THEN m.from ELSE vote
    BY <2>1 DEF TypeOK
  <2>4. \A n \in msgs' \ msgs : n.type = "RVR" /\ n.from = i /\ n.term = currentTerm'[i]
    BY <2>1 DEF VoteReply
  <2>5. TermsMove
    BY <1>2, <2>1, <2>2, <2>3, <2>4 DEF TermsMove
  <2>6. RolesStep
    <3>1. \A k \in Server : Len(log[k]) <= Len(log'[k])
      BY <2>1, LenProperties DEF TypeOK
    <3> QED BY <2>3, <3>1 DEF RolesStep
  <2>7. SentBy(i)
    BY <2>4 DEF SentBy
  <2> QED BY <2>1, <2>5, <2>6, <2>7, SendingStep DEF GoodStep, LogInv
<1> QED BY <1>3, <1>4 DEF RecvRequestVote

(* A vehicle that hears of a later term.                                   *)
LEMMA StepDownGood ==
  ASSUME TypeOK, LogInv, NEW i \in Server, NEW t \in Nat, currentTerm[i] < t,
         StepDown(i, t, None), msgs' = msgs, log' = log
  PROVE  GoodStep
<1>1. /\ \A k \in Server : currentTerm[k] \in Nat
      /\ \A k \in Server : k # i =>
           /\ currentTerm'[k] = currentTerm[k] /\ state'[k] = state[k]
           /\ votedFor'[k] = votedFor[k]
      /\ currentTerm'[i] = t /\ state'[i] = "Follower"
  BY DEF StepDown, TypeOK
<1>2. TermsMove
  BY <1>1 DEF TermsMove
<1>3. RolesStep
  <2>1. \A k \in Server : Len(log[k]) <= Len(log'[k])
    BY LenProperties DEF TypeOK
  <2> QED BY <1>1, <2>1 DEF RolesStep
<1>4. SentBy(i)
  BY DEF SentBy
<1> QED BY <1>2, <1>3, <1>4, SendingStep DEF GoodStep, LogInv

LEMMA RequestVoteResponseGood ==
  ASSUME TypeOK, ElectionInv, LogInv, NEW i \in Server, NEW m \in msgs,
         RecvRequestVoteResponse(i, m)
  PROVE  GoodStep
<1>1. m \in RequestVoteResponse
  BY MessageFields DEF RecvRequestVoteResponse, TypeOK
<1>2. CASE currentTerm[i] < m.term /\ StepDown(i, m.term, None)
           /\ UNCHANGED <<memberVars, voteForMe, logVars, peerVars, msgs>>
  <2>1. m.term \in Nat /\ log' = log /\ msgs' = msgs
    BY <1>1, <1>2 DEF RequestVoteResponse, logVars
  <2> QED BY <1>2, <2>1, StepDownGood
<1>3. CASE CountVote(i, m)
  <2>1. currentTerm' = currentTerm /\ log' = log /\ state[i] = "Candidate"
    BY <1>3 DEF CountVote, logVars, RecvRequestVoteResponse
  <2>2. CASE BecomeLeader(i, currentTerm[i])
    BY <2>1, <2>2, BecomeLeaderGood
  <2>3. CASE UNCHANGED <<votedFor, state, currentLeader, peerVars, msgs>>
    <3>1. TermsMove
      BY <2>1, <2>3 DEF TermsMove, TypeOK
    <3>2. RolesStep
      <4>1. \A k \in Server : Len(log[k]) <= Len(log'[k])
        BY <2>1, LenProperties DEF TypeOK
      <4> QED BY <2>1, <2>3, <4>1 DEF RolesStep
    <3>3. SentBy(i)
      BY <2>3 DEF SentBy
    <3> QED BY <2>1, <3>1, <3>2, <3>3, SendingStep DEF GoodStep, LogInv
  <2> QED BY <1>3, <2>2, <2>3 DEF CountVote
<1> QED BY <1>2, <1>3 DEF RecvRequestVoteResponse

(* A leader never hears an AppendEntries of its own term.                  *)
LEMMA NotOwnTerm ==
  ASSUME AtMostOneLeaves, TypeOK, ElectionInv, LogInv, NEW i \in Server,
         NEW m \in Of("AE"), m.to = i, state[i] = "Leader"
  PROVE  m.term # currentTerm[i]
<1>1. m.from \in Server
  BY RunsAreRuns DEF AppendEntries
<1>2. Led(m.from, m.term) /\ m.from # i
  BY DEF LogInv, SendersLed
<1>3. Led(i, currentTerm[i])
  BY LeaderLed
<1> QED BY <1>1, <1>2, <1>3, LedOnce DEF ElectionInv

(* What accepting an AppendEntries does besides the log.                   *)
LEMMA FollowGood ==
  ASSUME AtMostOneLeaves, TypeOK, ElectionInv, LogInv, NEW i \in Server,
         NEW m \in Of("AE"), m.to = i, FollowLeader(i, m),
         NEW success, NEW idx, Send({AppendReply(i, m, m.term, success, idx)}),
         NEW l, log' = [log EXCEPT ![i] = l]
  PROVE  TermsMove /\ SendersStep /\ RolesStep /\ Of("AE")' = Of("AE")
<1>1. m.term \in Nat
  BY RunsAreRuns DEF AppendEntries
<1>2. /\ \A k \in Server : currentTerm[k] \in Nat
      /\ \A k \in Server : k # i =>
           /\ currentTerm'[k] = currentTerm[k] /\ state'[k] = state[k]
           /\ votedFor'[k] = votedFor[k]
      /\ currentTerm'[i] = m.term /\ currentTerm[i] <= m.term
      /\ currentTerm[i] = m.term => votedFor'[i] = votedFor[i]
      /\ state'[i] # "Follower" => currentTerm[i] = m.term /\ state'[i] = state[i]
      /\ state'[i] # "Candidate"
  BY <1>1 DEF FollowLeader, TypeOK
<1>3. /\ msgs \subseteq msgs'
      /\ \A n \in msgs' \ msgs : n.type = "AER" /\ n.from = i /\ n.to = m.from
  BY DEF Send, AppendReply
<1>4. TermsMove
  BY <1>2, <1>3 DEF TermsMove
<1>5. state'[i] # "Leader"
  BY <1>2, NotOwnTerm
<1>6. RolesStep
  <2>1. \A k \in Server : k # i => log'[k] = log[k]
    BY DEF TypeOK
  <2>2. \A k \in Server : k # i => Len(log[k]) <= Len(log'[k])
    BY <2>1, LenProperties DEF TypeOK
  <2> QED BY <1>2, <1>5, <2>2 DEF RolesStep
<1>7. Of("AE")' = Of("AE")
  BY <1>3 DEF Of
<1>8. SendersStep
  <2>1. m.from # i
    BY DEF LogInv, SendersLed
  <2> QED BY <1>3, <1>7, <2>1 DEF SendersStep, Of
<1> QED BY <1>4, <1>6, <1>7, <1>8

LEMMA AppendMismatchGood ==
  ASSUME AtMostOneLeaves, TypeOK, ElectionInv, LogInv, NEW i \in Server,
         NEW m \in Of("AE"), m.to = i, AppendMismatch(i, m)
  PROVE  GoodStep
<1> DEFINE n == Lower(m.prevIdx - 1, Len(log[i]))
           l == IF commitIdx[i] < m.prevIdx THEN SubSeq(log[i], 1, n) ELSE log[i]
<1>1. log' = [log EXCEPT ![i] = l]
  BY DEF AppendMismatch
<1>2. m.prevIdx \in Nat /\ m.prevIdx # 0 /\ log[i] \in Seq(Entry)
  BY RunsAreRuns DEF AppendEntries, AppendMismatch, HasPrev, TypeOK
<1>3. n \in 0..Len(log[i])
  BY <1>2, LenProperties DEF Lower
<1>4. PartOf(LogOf(l), LogOf(log[i]))
  BY <1>2, <1>3, PrefixIsPart, PartOfItself
<1>5. TermsMove /\ SendersStep /\ RolesStep /\ Of("AE")' = Of("AE")
  <2>1. FollowLeader(i, m) /\ Send({AppendReply(i, m, m.term, FALSE, Len(log'[i]))})
    BY DEF AppendMismatch
  <2> HIDE DEF l
  <2> QED BY <1>1, <2>1, FollowGood
<1> HIDE DEF l
<1>6. \A r \in Runs' : \E s \in Runs : PartOf(r, s)
  <2>1. log'[i] = l /\ \A k \in Server : k # i => log'[k] = log[k]
    BY <1>1 DEF TypeOK
  <2> QED BY <1>4, <1>5, <2>1, PartOfItself DEF Runs
<1> QED BY <1>5, <1>6, PartsStep DEF GoodStep, LogInv

(* A log that takes over entries still agrees with all the others.         *)
LEMMA AppendAcceptGood ==
  ASSUME AtMostOneLeaves, TypeOK, ElectionInv, LogInv, NEW i \in Server,
         NEW m \in Of("AE"), m.to = i, FollowLeader(i, m), HasPrev(log[i], m),
         NEW k \in 0..Len(m.entries), MatchesUpTo(log[i], m, k), AppendAccept(i, m, k)
  PROVE  GoodStep
<1> DEFINE n == Merged(log[i], m, k)
<1>1. m \in AppendEntries /\ log[i] \in Seq(Entry)
  BY RunsAreRuns DEF TypeOK
<1>2. log' = [log EXCEPT ![i] = n]
  BY DEF AppendAccept
<1>3. TermsMove /\ SendersStep /\ RolesStep /\ Of("AE")' = Of("AE")
  <2>1. Send({AppendReply(i, m, m.term, TRUE, LastMatching(m))})
    BY DEF AppendAccept
  <2> HIDE DEF n
  <2> QED BY <1>2, <2>1, FollowGood
<1>4. log'[i] = n /\ \A j \in Server : j # i => log'[j] = log[j]
  BY <1>2 DEF TypeOK
<1>5. CASE k = Len(m.entries)
  <2>1. n = log[i]
    BY <1>5 DEF Merged
  <2>2. \A r \in Runs' : \E s \in Runs : PartOf(r, s)
    BY <1>3, <1>4, <2>1, PartOfItself DEF Runs
  <2> QED BY <1>3, <2>2, PartsStep DEF GoodStep, LogInv
<1>6. CASE k # Len(m.entries)
  <2>1. LogOf(log[i]) \in Runs /\ m \in Runs
    BY DEF Runs
  <2>2. \A r \in Runs' : r = LogOf(n) \/ r \in Runs
    BY <1>3, <1>4 DEF Runs
  <2>3. ASSUME NEW s \in Runs PROVE Agree(LogOf(n), s)
    <3>1. /\ IsRun(s) /\ Agree(LogOf(log[i]), s) /\ Agree(m, s)
          /\ Agree(LogOf(log[i]), m)
      BY <2>1, RunsAreRuns DEF LogInv, RunsAgree
    <3> QED BY <1>1, <1>6, <3>1, MergedAgrees
  <2>4. RunsAgree'
    <3> HIDE DEF n
    <3> QED BY <2>2, <2>3, AgreeBothWays, AgreeWithItself DEF RunsAgree, LogInv
  <2>5. SpotsStep
    <3>1. ASSUME NEW p \in Nat, InRun(LogOf(n), p)
          PROVE  \E s \in Runs : InRun(s, p) /\ TermIn(s, p) = TermIn(LogOf(n), p)
      <4>1. /\ n \in Seq(Entry) /\ m.prevIdx + k <= Len(log[i])
            /\ Len(n) = m.prevIdx + Len(m.entries)
            /\ \A h \in 1..m.prevIdx + k : n[h] = log[i][h]
            /\ \A h \in (m.prevIdx + k + 1)..Len(n) : n[h] = EntryAt(m, h)
        BY <1>1, <1>6, MergedParts DEF EntryAt
      <4>2. /\ m.prevIdx \in Nat /\ Len(m.entries) \in Nat /\ Len(log[i]) \in Nat
        BY <1>1, LenProperties DEF AppendEntries
      <4> HIDE DEF n
      <4>3. p \in 1..Len(n) /\ TermIn(LogOf(n), p) = n[p].term
        BY <3>1, <4>1, LogRun
      <4>4. CASE p <= m.prevIdx + k
        <5>1. p \in 1..Len(log[i]) /\ n[p] = log[i][p]
          BY <4>1, <4>2, <4>3, <4>4
        <5>2. InRun(LogOf(log[i]), p) /\ TermIn(LogOf(log[i]), p) = n[p].term
          BY <1>1, <5>1, LogRun
        <5> QED BY <2>1, <4>3, <5>2
      <4>5. CASE p > m.prevIdx + k
        <5>1. n[p] = EntryAt(m, p) /\ InRun(m, p) /\ p # m.prevIdx
          BY <4>1, <4>2, <4>3, <4>5 DEF InRun
        <5> QED BY <2>1, <4>3, <5>1 DEF TermIn
      <4> QED BY <4>2, <4>3, <4>4, <4>5
    <3> HIDE DEF n
    <3> QED BY <2>2, <3>1 DEF SpotsStep
  <2> QED BY <1>3, <2>4, <2>5 DEF GoodStep
<1> QED BY <1>5, <1>6

LEMMA AppendEntriesGood ==
  ASSUME AtMostOneLeaves, TypeOK, ElectionInv, LogInv, NEW i \in Server,
         NEW m \in msgs, RecvAppendEntries(i, m)
  PROVE  GoodStep
<1>1. m \in Of("AE") /\ m.to = i
  BY DEF RecvAppendEntries, Of
<1>2. CASE AppendStale(i, m)
  <2>1. UNCHANGED electionVars /\ log' = log
    BY <1>2 DEF AppendStale, logVars
  <2>2. NoNewVote /\ SentBy(i)
    BY <1>1, <1>2 DEF AppendStale, Send, NoNewVote, SentBy, AppendReply, LogInv, SendersLed
  <2> QED BY <2>1, <2>2, QuietGood
<1>3. CASE AppendMismatch(i, m)
  BY <1>1, <1>3, AppendMismatchGood
<1>4. CASE AppendMatch(i, m)
  <2>1. PICK k \in 0..Len(m.entries) :
          /\ MatchesUpTo(log[i], m, k)
          /\ AppendAccept(i, m, k) \/ AppendShutdown(i, m, k)
    BY <1>4 DEF AppendMatch
  <2>2. FollowLeader(i, m) /\ HasPrev(log[i], m)
    BY <1>4 DEF AppendMatch
  <2>3. CASE AppendShutdown(i, m, k)
    <3>1. /\ Send({AppendReply(i, m, m.term, TRUE, m.prevIdx + k)})
          /\ log' = log
      BY <2>3 DEF AppendShutdown, logVars
    <3>2. log' = [log EXCEPT ![i] = log[i]]
      BY <3>1 DEF TypeOK
    <3>3. TermsMove /\ SendersStep /\ RolesStep /\ Of("AE")' = Of("AE")
      BY <1>1, <2>2, <3>1, <3>2, FollowGood
    <3>4. \A r \in Runs' : \E s \in Runs : PartOf(r, s)
      BY <3>1, <3>3, PartOfItself DEF Runs
    <3> QED BY <3>3, <3>4, PartsStep DEF GoodStep, LogInv
  <2> QED BY <1>1, <2>1, <2>2, <2>3, AppendAcceptGood
<1> QED BY <1>2, <1>3, <1>4 DEF RecvAppendEntries

LEMMA AppendEntriesResponseGood ==
  ASSUME TypeOK, LogInv, NEW i \in Server, NEW m \in msgs,
         RecvAppendEntriesResponse(i, m), TypeOK'
  PROVE  GoodStep
<1>1. m \in AppendEntriesResponse
  BY MessageFields DEF RecvAppendEntriesResponse, TypeOK
<1>2. m.from \in Server /\ m.term \in Nat /\ m.curIdx \in Nat
  BY <1>1 DEF AppendEntriesResponse
<1>3. CASE currentTerm[i] < m.term /\ StepDown(i, m.term, None)
           /\ UNCHANGED <<memberVars, voteForMe, logVars, peerVars, msgs>>
  <2>1. log' = log /\ msgs' = msgs
    BY <1>3 DEF logVars
  <2> QED BY <1>2, <1>3, <2>1, StepDownGood
<1>4. CASE AppendRefused(i, m) \/ AppendAcknowledged(i, m)
  <2>1. UNCHANGED electionVars /\ log' = log /\ state[i] = "Leader"
    BY <1>4 DEF AppendRefused, AppendAcknowledged, RecvAppendEntriesResponse, logVars
  <2>2. \/ msgs' = msgs
        \/ \E next \in Nat \ {0}, commit \in Nat :
             msgs' = msgs \cup {AppendEntriesTo(i, m.from, currentTerm[i], next, log[i], commit)}
    <3>1. CASE AppendRefused(i, m)
      <4>1. nextIdx'[i][m.from] \in Nat \ {0} /\ commitIdx[i] \in Nat
        BY <1>2 DEF TypeOK
      <4> QED BY <3>1, <4>1 DEF AppendRefused, Resend, Send
    <3>2. CASE AppendAcknowledged(i, m)
      <4>1. m.curIdx + 1 \in Nat \ {0}
        BY <1>2
      <4>2. commitIdx'[i] \in Nat
        BY DEF TypeOK
      <4> QED BY <3>2, <4>1, <4>2 DEF AppendAcknowledged, Resend, Send
    <3> QED BY <1>4, <3>1, <3>2
  <2>3. NoNewVote
    BY <2>2 DEF NoNewVote, AppendEntriesTo
  <2>4. m.from \in Server \ {i}
    BY <1>2 DEF LogInv, SendersLed, RecvAppendEntriesResponse, Of
  <2>5. SentBy(i)
    BY <2>1, <2>2, <2>4, SMTT(20) DEF SentBy, electionVars, AppendEntriesTo
  <2> QED BY <2>1, <2>3, <2>5, QuietGood
<1> QED BY <1>3, <1>4 DEF RecvAppendEntriesResponse

(* raft_recv_entry: a leader has all there is of its term, so nothing of   *)
(* that term stands at the index after its last.                           *)
LEMMA RecvEntryGood ==
  ASSUME TypeOK, ElectionInv, LogInv, NEW i \in Server, RecvEntry(i), TypeOK'
  PROVE  GoodStep
<1> DEFINE e == [term |-> currentTerm[i], owner |-> i]
           new == Append(log[i], e)
           n == Len(log[i])
<1>1. /\ log' = [log EXCEPT ![i] = new] /\ state[i] = "Leader"
      /\ UNCHANGED electionVars /\ msgs \subseteq msgs'
      /\ \A m \in msgs' \ msgs : \E j \in Peers(i) :
           m = AppendEntriesTo(i, j, currentTerm[i], Len(new), new, commitIdx[i])
  BY DEF RecvEntry, Send
<1>2. /\ new \in Seq(Entry) /\ n \in Nat /\ Len(new) = n + 1 /\ log[i] \in Seq(Entry)
      /\ new[n + 1] = e /\ \A p \in 1..n : new[p] = log[i][p]
  <2>1. e \in Entry
    BY DEF Entry, TypeOK
  <2> QED BY <2>1, AppendProperties, LenProperties DEF TypeOK
<1>3. log'[i] = new /\ \A j \in Server : j # i => log'[j] = log[j]
  BY <1>1 DEF TypeOK
<1> HIDE DEF new
<1>4. ASSUME NEW m \in msgs' \ msgs
      PROVE  /\ m.type = "AE" /\ PartOf(m, LogOf(new))
             /\ m.from = i /\ m.to # i /\ m.term = currentTerm[i]
  <2>1. PICK j \in Peers(i) :
          m = AppendEntriesTo(i, j, currentTerm[i], Len(new), new, commitIdx[i])
    BY <1>1
  <2>2. /\ m.type = "AE" /\ m.from = i /\ m.to = j /\ j # i /\ m.term = currentTerm[i]
    BY <2>1 DEF AppendEntriesTo, Peers
  <2>3. Len(new) \in Nat \ {0}
    BY <1>2
  <2> QED BY <1>2, <2>1, <2>2, <2>3, SentIsPart
<1>5. TermsMove /\ RolesStep
  <2>1. TermsMove
    <3>1. \A j \in Server : currentTerm[j] \in Nat
      BY DEF TypeOK
    <3>2. \A m \in msgs' \ msgs : m.type # "RVR"
      BY <1>4
    <3> QED BY <1>1, <3>1, <3>2 DEF TermsMove, electionVars
  <2>2. \A k \in Server : Len(log[k]) <= Len(log'[k])
    <3>1. \A k \in Server : Len(log[k]) \in Nat
      BY LenProperties DEF TypeOK
    <3>2. Len(log[i]) <= Len(new)
      BY <1>2
    <3> QED BY <1>3, <3>1, <3>2
  <2> QED BY <1>1, <2>1, <2>2 DEF RolesStep, electionVars
<1>6. SendersStep
  BY <1>1, <1>4 DEF SendersStep, Of, electionVars
(* The new log, against what there was.                                    *)
<1>7. ASSUME NEW p \in Nat, InRun(LogOf(new), p)
      PROVE  \/ /\ p \in 1..n
                /\ InRun(LogOf(log[i]), p) /\ Same(LogOf(new), LogOf(log[i]), p)
                /\ p # LogOf(log[i]).prevIdx /\ p # LogOf(new).prevIdx
             \/ p = n + 1 /\ TermIn(LogOf(new), p) = currentTerm[i]
  <2>1. p \in 1..n + 1
    BY <1>2, <1>7, LogRun
  <2>2. CASE p = n + 1
    BY <1>2, <2>2, LogRun
  <2>3. CASE p # n + 1
    <3>1. p \in 1..n /\ p \in 1..Len(new)
      BY <1>2, <2>1, <2>3
    <3>2. /\ EntryAt(LogOf(new), p) = new[p] /\ TermIn(LogOf(new), p) = new[p].term
          /\ p # LogOf(new).prevIdx
      BY <1>2, <3>1, LogRun
    <3>3. /\ InRun(LogOf(log[i]), p) /\ EntryAt(LogOf(log[i]), p) = log[i][p]
          /\ TermIn(LogOf(log[i]), p) = log[i][p].term /\ p # LogOf(log[i]).prevIdx
      BY <1>2, <3>1, LogRun
    <3> QED BY <1>2, <3>1, <3>2, <3>3 DEF Same
  <2> QED BY <2>2, <2>3
<1>8. ASSUME NEW s \in Runs PROVE Agree(LogOf(new), s)
  <2> SUFFICES ASSUME NEW p \in Nat, InRun(LogOf(new), p), InRun(s, p),
                      TermIn(LogOf(new), p) = TermIn(s, p),
                      NEW h \in 1..p, InRun(LogOf(new), h), InRun(s, h)
               PROVE  Same(LogOf(new), s, h)
    BY DEF Agree
  <2>1. p # n + 1 \/ TermIn(s, p) # currentTerm[i]
    <3>1. TermIn(s, p) = currentTerm[i] => p <= n
      BY <1>1 DEF LogInv, LeaderHasAll
    <3> QED BY <1>2, <3>1
  <2>2. p # n + 1 /\ p \in 1..n
    <3>1. (p = n + 1 /\ TermIn(s, p) = currentTerm[i]) \/ p \in 1..n
      BY <1>7
    <3> QED BY <1>2, <2>1, <3>1
  <2>3. /\ InRun(LogOf(log[i]), p) /\ TermIn(LogOf(log[i]), p) = TermIn(s, p)
    BY <1>7, <2>2 DEF Same
  <2>4. h \in Nat /\ h # n + 1
    BY <1>2, <2>2
  <2>5. /\ InRun(LogOf(log[i]), h) /\ Same(LogOf(new), LogOf(log[i]), h)
        /\ h # LogOf(log[i]).prevIdx
    BY <1>7, <2>2, <2>4
  <2>6. Agree(LogOf(log[i]), s)
    BY DEF LogInv, RunsAgree, Runs
  <2>7. Same(LogOf(log[i]), s, h)
    BY <2>3, <2>5, <2>6 DEF Agree
  <2> QED BY <2>5, <2>7 DEF Same
<1>9. \A r \in Runs' : \E s \in Runs \cup {LogOf(new)} : PartOf(r, s)
  BY <1>3, <1>4, PartOfItself DEF Runs, Of
<1>10. RunsAgree'
  <2>1. \A r, s \in Runs \cup {LogOf(new)} : Agree(r, s)
    BY <1>8, AgreeBothWays, AgreeWithItself DEF LogInv, RunsAgree
  <2> QED BY <1>9, <2>1, PartsAgree DEF RunsAgree
<1>11. SpotsStep
  <2> SUFFICES ASSUME NEW r \in Runs', NEW p \in Nat, InRun(r, p)
               PROVE  \/ \E s \in Runs : InRun(s, p) /\ TermIn(s, p) = TermIn(r, p)
                      \/ /\ state'[i] = "Leader" /\ TermIn(r, p) = currentTerm'[i]
                         /\ Len(log[i]) < p /\ p <= Len(log'[i])
    BY DEF SpotsStep
  <2>1. PICK s \in Runs \cup {LogOf(new)} : PartOf(r, s)
    BY <1>9
  <2>2. InRun(s, p) /\ TermIn(s, p) = TermIn(r, p)
    BY <2>1 DEF PartOf, Same
  <2>3. CASE s \in Runs
    BY <2>2, <2>3
  <2>4. CASE s = LogOf(new)
    <3>1. CASE InRun(LogOf(log[i]), p) /\ Same(LogOf(new), LogOf(log[i]), p)
      BY <2>2, <2>4, <3>1 DEF Same, Runs
    <3>2. CASE p = n + 1 /\ TermIn(LogOf(new), p) = currentTerm[i]
      BY <1>1, <1>2, <1>3, <2>2, <2>4, <3>2 DEF electionVars
    <3> QED BY <1>7, <2>2, <2>4, <3>1, <3>2
  <2> QED BY <2>3, <2>4
<1> QED BY <1>5, <1>6, <1>10, <1>11 DEF GoodStep

-----------------------------------------------------------------------------
(* LogInv is an invariant where there is more than one vehicle, and is     *)
(* enough for LogMatching.                                                 *)

LEMMA LogInvInit ==
  ASSUME Init
  PROVE  LogInv
<1>1. Runs = {LogOf(<<>>) : i \in Server}
  BY DEF Init, Runs, Of
<1>2. \A r \in Runs : \A p \in Nat : ~InRun(r, p)
  <2>1. <<>> \in Seq(Entry) /\ Len(<<>>) = 0
    BY EmptySeq
  <2>2. \A p : ~InRun(LogOf(<<>>), p)
    BY <2>1 DEF InRun, LogOf
  <2> QED BY <1>1, <2>2
<1> QED BY <1>2 DEF Init, LogInv, RunsAgree, Agree, TermsLed, SendersLed, LeaderHasAll, Of

LEMMA EveryStepGood ==
  ASSUME AtMostOneLeaves, Designated = None, \A j \in Server : Server # {j},
         TypeOK, ElectionInv, LogInv, TypeOK', Next
  PROVE  GoodStep
<1>1. PICK i \in Server :
        \/ FormCluster(i)
        \/ \E j \in Server : MarkInactive(i, j)
        \/ Periodic(i)
        \/ RecvEntry(i)
        \/ \E m \in msgs : \/ RecvRequestVote(i, m)
                           \/ RecvRequestVoteResponse(i, m)
                           \/ RecvAppendEntries(i, m)
                           \/ RecvAppendEntriesResponse(i, m)
  BY DEF Next
<1> QED BY <1>1, FormClusterGood, MarkInactiveGood, PeriodicGood, RecvEntryGood,
        RequestVoteGood, RequestVoteResponseGood, AppendEntriesGood,
        AppendEntriesResponseGood

LEMMA LogInvNext ==
  ASSUME AtMostOneLeaves, Designated = None, \A j \in Server : Server # {j},
         TypeOK, ElectionInv, LogInv, TypeOK', ElectionInv', [Next]_vars
  PROVE  LogInv'
<1>1. CASE UNCHANGED vars
  <2>1. UNCHANGED <<state, currentTerm, votedFor, log, msgs>>
    BY <1>1 DEF vars, electionVars, logVars
  <2>2. Runs' = Runs /\ \A t : Of(t)' = Of(t)
    BY <2>1 DEF Runs, Of
  <2>3. \A o, t : Led(o, t)' <=> Led(o, t)
    BY <2>1, <2>2 DEF Led, Elected
  <2>4. RunsAgree'
    BY <2>2 DEF LogInv, RunsAgree
  <2>5. TermsLed' /\ SendersLed'
    BY <2>2, <2>3 DEF LogInv, TermsLed, SendersLed
  <2>6. LeaderHasAll'
    BY <2>1, <2>2 DEF LogInv, LeaderHasAll
  <2> QED BY <2>4, <2>5, <2>6 DEF LogInv
<1>2. CASE Next
  BY <1>2, EveryStepGood, LogStep DEF GoodStep
<1> QED BY <1>1, <1>2

LEMMA LogInvHolds ==
  ASSUME AtMostOneLeaves, Designated = None, \A j \in Server : Server # {j}
  PROVE  Spec => []LogInv
<1>1. TypeOK /\ ElectionInv /\ LogInv /\ TypeOK' /\ ElectionInv' /\ [Next]_vars => LogInv'
  BY LogInvNext
<1> QED BY <1>1, LogInvInit, ElectionInvariant, PTL DEF Spec

LEMMA AgreeingLogsMatch ==
  ASSUME NEW l \in Seq(Entry), NEW n \in Seq(Entry), Agree(LogOf(l), LogOf(n)),
         NEW k \in DOMAIN l \cap DOMAIN n, l[k].term = n[k].term
  PROVE  SubSeq(l, 1, k) = SubSeq(n, 1, k)
<1>1. k \in 1..Len(l) /\ k \in 1..Len(n) /\ Len(l) \in Nat /\ Len(n) \in Nat
  BY LenProperties
<1>2. ASSUME NEW h \in 1..k PROVE l[h] = n[h]
  <2>1. h \in 1..Len(l) /\ h \in 1..Len(n)
    BY <1>1
  <2>2. Same(LogOf(l), LogOf(n), h)
    BY <1>1, <2>1, LogRun DEF Agree
  <2> QED BY <2>1, <2>2, LogRun DEF Same
<1> QED BY <1>1, <1>2, SamePrefix

(* Entries of one index and term are the same schedule after the same      *)
(* schedules, whatever is lost, repeated or overtaken and however often    *)
(* leaders change: the log matching property of raft, for this library.    *)
THEOREM LogsMatch ==
  ASSUME AtMostOneLeaves, Designated = None
  PROVE  Spec => []LogMatching
<1>1. CASE \E j \in Server : Server = {j}
  <2>1. TypeOK => LogMatching
    BY <1>1 DEF LogMatching
  <2> QED BY <2>1, TypeCorrect, PTL
<1>2. CASE \A j \in Server : Server # {j}
  <2>1. TypeOK /\ LogInv => LogMatching
    <3> SUFFICES ASSUME TypeOK, LogInv, NEW i \in Server, NEW j \in Server,
                        NEW k \in DOMAIN log[i] \cap DOMAIN log[j],
                        log[i][k].term = log[j][k].term
                 PROVE  SubSeq(log[i], 1, k) = SubSeq(log[j], 1, k)
      BY DEF LogMatching
    <3>1. Agree(LogOf(log[i]), LogOf(log[j]))
      BY DEF LogInv, RunsAgree, Runs
    <3>2. log[i] \in Seq(Entry) /\ log[j] \in Seq(Entry)
      BY DEF TypeOK
    <3> QED BY <3>1, <3>2, AgreeingLogsMatch
  <2>2. Spec => []LogInv
    BY <1>2, LogInvHolds
  <2> QED BY <2>1, <2>2, TypeCorrect, PTL
<1> QED BY <1>1, <1>2

-----------------------------------------------------------------------------
(* Indices *)

End(m) == m.prevIdx + Len(m.entries)

(* With the indices of IndicesWithinLog: next_idx of a leader's peers; an  *)
(* AppendEntries reaches at least as far as the commit index it carries,   *)
(* and while its sender leads no further than the sender's log; and what a *)
(* reply acknowledges was sent.                                            *)
CommitsWithin ==
  \A i \in Server : commitIdx[i] <= Len(log[i]) /\ lastApplied[i] <= commitIdx[i]
NextWithin ==
  \A i \in Server : state[i] = "Leader" =>
    \A j \in Server \ {i} : nextIdx[i][j] <= Len(log[i]) + 1
EndsWithin ==
  \A m \in Of("AE") :
    /\ m.leaderCommit <= End(m)
    /\ state[m.from] = "Leader" /\ currentTerm[m.from] = m.term => End(m) <= Len(log[m.from])
RepliesWithin ==
  \A m \in Of("AER") : m.success =>
    \E n \in Of("AE") : n.from = m.to /\ n.term = m.term /\ m.curIdx <= End(n)
IndexInv == CommitsWithin /\ NextWithin /\ EndsWithin /\ RepliesWithin

(* What raft_send_appendentries sends reaches the end of the log.          *)
LEMMA SentToEnd ==
  ASSUME NEW i, NEW j, NEW term, NEW commit, NEW l \in Seq(Entry),
         NEW next \in Nat \ {0}, next <= Len(l) + 1
  PROVE  /\ End(AppendEntriesTo(i, j, term, next, l, commit)) = Len(l)
         /\ AppendEntriesTo(i, j, term, next, l, commit).leaderCommit = commit
         /\ AppendEntriesTo(i, j, term, next, l, commit).from = i
<1> DEFINE s == SubSeq(l, next, Len(l))
<1>1. Len(l) \in Nat /\ DOMAIN l = 1..Len(l)
  BY LenProperties
<1>2. \A k \in next..Len(l) : l[k] \in Entry
  BY <1>1, ElementOfSeq
<1>3. Len(s) = IF next <= Len(l) THEN Len(l) - next + 1 ELSE 0
  BY <1>1, <1>2, SubSeqProperties
<1> HIDE DEF s
<1>4. (IF next - 1 \in DOMAIN l THEN next - 1 ELSE 0) + Len(s) = Len(l)
  <2>1. CASE next - 1 \in DOMAIN l
    BY <1>1, <1>3, <2>1
  <2>2. CASE next - 1 \notin DOMAIN l
    <3>1. next = 1
      BY <1>1, <2>2
    <3> QED BY <1>1, <1>3, <2>2, <3>1
  <2> QED BY <2>1, <2>2
<1> QED BY <1>4 DEF AppendEntriesTo, End, s

(* What a step does to indices.                                            *)
CommitStep ==
  \A k \in Server : /\ commitIdx[k] <= commitIdx'[k] /\ commitIdx'[k] <= Len(log'[k])
                    /\ lastApplied'[k] <= commitIdx'[k]
                    /\ SubSeq(log'[k], 1, commitIdx[k]) = SubSeq(log[k], 1, commitIdx[k])
EndsStep ==
  \A m \in Of("AE")' : m \notin Of("AE") =>
    End(m) = Len(log'[m.from]) /\ m.leaderCommit <= End(m)
RepliesStep ==
  \A m \in Of("AER")' : m \notin Of("AER") /\ m.success =>
    \E n \in Of("AE") : n.from = m.to /\ n.term = m.term /\ m.curIdx <= End(n)
IndexStep == CommitStep /\ NextWithin' /\ EndsStep /\ RepliesStep

LEMMA IndexStepKeeps ==
  ASSUME TypeOK, LogInv, IndexInv, TypeOK', GoodStep, IndexStep
  PROVE  IndexInv'
<1>1. CommitsWithin' /\ NextWithin'
  BY DEF IndexStep, CommitStep, CommitsWithin
<1>2. EndsWithin'
  <2> SUFFICES ASSUME NEW m \in Of("AE")'
               PROVE  /\ m.leaderCommit <= End(m)
                      /\ state'[m.from] = "Leader" /\ currentTerm'[m.from] = m.term
                           => End(m) <= Len(log'[m.from])
    BY DEF EndsWithin
  <2>1. CASE m \in Of("AE")
    <3>1. m \in AppendEntries
      BY <2>1, RunsAreRuns
    <3>2. m.from \in Server /\ End(m) \in Nat
      BY <3>1, LenProperties DEF AppendEntries, End
    <3>3. m.leaderCommit <= End(m)
      BY <2>1 DEF IndexInv, EndsWithin
    <3>4. ASSUME state'[m.from] = "Leader", currentTerm'[m.from] = m.term
          PROVE  End(m) <= Len(log'[m.from])
      <4>1. currentTerm[m.from] = m.term
        BY <3>2, <3>4 DEF GoodStep, RolesStep
      <4>2. state[m.from] # "Candidate"
        BY <2>1, <4>1 DEF LogInv, SendersLed, Led
      <4>3. state[m.from] = "Leader" /\ Len(log[m.from]) <= Len(log'[m.from])
        BY <3>2, <3>4, <4>2 DEF GoodStep, RolesStep
      <4>4. End(m) <= Len(log[m.from])
        BY <2>1, <4>1, <4>3 DEF IndexInv, EndsWithin
      <4>5. Len(log[m.from]) \in Nat /\ Len(log'[m.from]) \in Nat
        BY <3>2, LenProperties DEF TypeOK
      <4> QED BY <3>2, <4>3, <4>4, <4>5
    <3> QED BY <3>3, <3>4
  <2>2. CASE m \notin Of("AE")
    <3>1. m.from \in Server
      BY <2>2 DEF GoodStep, SendersStep
    <3>2. End(m) = Len(log'[m.from]) /\ m.leaderCommit <= End(m)
      BY <2>2 DEF IndexStep, EndsStep
    <3>3. Len(log'[m.from]) \in Nat
      BY <3>1, LenProperties DEF TypeOK
    <3> QED BY <3>2, <3>3
  <2> QED BY <2>1, <2>2
<1>3. RepliesWithin'
  <2>1. Of("AE") \subseteq Of("AE")'
    BY DEF GoodStep, TermsMove, Of
  <2> QED BY <2>1 DEF IndexStep, RepliesStep, IndexInv, RepliesWithin
<1> QED BY <1>1, <1>2, <1>3 DEF IndexInv

(* A step that changes no index but lastApplied.                           *)
LEMMA QuietIndices ==
  ASSUME TypeOK, IndexInv, NEW i \in Server,
         log' = log, commitIdx' = commitIdx, lastApplied' = lastApplied \/ ApplyAll(i)
  PROVE  CommitStep
<1> SUFFICES ASSUME NEW k \in Server
             PROVE  /\ commitIdx[k] <= commitIdx'[k] /\ commitIdx'[k] <= Len(log'[k])
                    /\ lastApplied'[k] <= commitIdx'[k]
                    /\ SubSeq(log'[k], 1, commitIdx[k]) = SubSeq(log[k], 1, commitIdx[k])
  BY DEF CommitStep
<1>1. commitIdx[k] \in Nat /\ lastApplied[k] <= commitIdx[k] /\ commitIdx[k] <= Len(log[k])
  BY DEF TypeOK, IndexInv, CommitsWithin
<1>2. lastApplied'[k] = lastApplied[k] \/ lastApplied'[k] = commitIdx[k]
  BY DEF ApplyAll, TypeOK
<1> QED BY <1>1, <1>2

(* Nothing is sent but votes and refusals, and no leader's next_idx changes.*)
LEMMA SilentStep ==
  ASSUME IndexInv, nextIdx' = nextIdx, log' = log,
         \A k \in Server : state'[k] = "Leader" => state[k] = "Leader",
         \A m \in msgs' \ msgs : m.type # "AE" /\ (m.type = "AER" => ~m.success)
  PROVE  NextWithin' /\ EndsStep /\ RepliesStep
<1>1. NextWithin'
  BY DEF IndexInv, NextWithin
<1> QED BY <1>1 DEF EndsStep, RepliesStep, Of

(* Leader i sends to the end of its log, what it has committed at most.    *)
LEMMA LeaderSends ==
  ASSUME TypeOK, NEW i \in Server, log' = log,
         \A m \in msgs' \ msgs : m.type = "AE" /\ \E j \in Server, term \in Nat, commit \in Nat,
           next \in Nat \ {0} :
             /\ next <= Len(log[i]) + 1 /\ commit <= Len(log[i])
             /\ m = AppendEntriesTo(i, j, term, next, log[i], commit)
  PROVE  EndsStep /\ RepliesStep
<1>1. ASSUME NEW m \in msgs' \ msgs
      PROVE  m.type = "AE" /\ End(m) = Len(log'[m.from]) /\ m.leaderCommit <= End(m)
  <2>1. PICK j \in Server, term \in Nat, commit \in Nat, next \in Nat \ {0} :
          /\ next <= Len(log[i]) + 1 /\ commit <= Len(log[i])
          /\ m = AppendEntriesTo(i, j, term, next, log[i], commit)
    BY <1>1
  <2>2. log[i] \in Seq(Entry)
    BY DEF TypeOK
  <2> QED BY <1>1, <2>1, <2>2, SentToEnd
<1> QED BY <1>1 DEF EndsStep, RepliesStep, Of

LEMMA BecomeLeaderIndices ==
  ASSUME MayLeave = {}, TypeOK, ElectionInv, IndexInv, NEW i \in Server,
         BecomeLeader(i, currentTerm[i]), log' = log, commitIdx' = commitIdx
  PROVE  NextWithin' /\ EndsStep /\ RepliesStep
<1>1. Peers(i) = Server \ {i}
  BY DEF ElectionInv, ViewsHeld, Views, Peers
<1>2. /\ \A j \in Server \ {i} : nextIdx'[i][j] = Len(log[i]) + 1
      /\ \A k \in Server : k # i => nextIdx'[k] = nextIdx[k] /\ state'[k] = state[k]
  BY <1>1 DEF BecomeLeader, TypeOK
<1>3. /\ Len(log[i]) + 1 \in Nat \ {0} /\ Len(log[i]) + 1 <= Len(log[i]) + 1
      /\ commitIdx[i] \in Nat /\ commitIdx[i] <= Len(log[i]) /\ currentTerm[i] \in Nat
  BY LenProperties DEF TypeOK, IndexInv, CommitsWithin
<1>4. NextWithin'
  <2> SUFFICES ASSUME NEW k \in Server, state'[k] = "Leader", NEW j \in Server \ {k}
               PROVE  nextIdx'[k][j] <= Len(log[k]) + 1
    BY DEF NextWithin
  <2>1. CASE k = i
    BY <1>2, <1>3, <2>1
  <2>2. CASE k # i
    BY <1>2, <2>2 DEF IndexInv, NextWithin
  <2> QED BY <2>1, <2>2
<1>5. \A m \in msgs' \ msgs : m.type = "AE" /\ \E j \in Server :
        m = AppendEntriesTo(i, j, currentTerm[i], Len(log[i]) + 1, log[i], commitIdx[i])
  BY BecomeLeaderSends
<1>6. EndsStep /\ RepliesStep
  BY <1>3, <1>5, LeaderSends
<1> QED BY <1>4, <1>6

LEMMA FormClusterIndices ==
  ASSUME Designated = None, TypeOK, IndexInv, NEW i \in Server, FormCluster(i)
  PROVE  IndexStep
<1>1. i # Designated
  BY ServerAssumption
<1>2. /\ log' = log /\ commitIdx' = commitIdx /\ lastApplied' = lastApplied
      /\ nextIdx' = nextIdx /\ msgs' = msgs /\ state' = state
  BY <1>1 DEF FormCluster, logVars, peerVars
<1> QED BY <1>2, QuietIndices, SilentStep DEF IndexStep

LEMMA PeriodicIndices ==
  ASSUME MayLeave = {}, AtMostOneLeaves, \A j \in Server : Server # {j}, TypeOK, ElectionInv,
         IndexInv, NEW i \in Server, Periodic(i)
  PROVE  IndexStep
<1>1. CASE PeriodicOnlyVoter(i)
  <2>1. {i} \in Views
    BY <1>1 DEF PeriodicOnlyVoter, OnlyVoter, ElectionInv, ViewsHeld
  <2> QED BY <2>1, LastVoterIsAlone
<1>2. log' = log /\ commitIdx' = commitIdx /\ ApplyAll(i)
  BY <1>1 DEF Periodic, PeriodicOnlyVoter, PeriodicElection, PeriodicHeartbeat, PeriodicIdle
<1>3. CommitStep
  BY <1>2, QuietIndices
<1>4. CASE PeriodicElection(i)
  <2>1. /\ nextIdx' = nextIdx /\ state' = [state EXCEPT ![i] = "Candidate"]
        /\ \A m \in msgs' \ msgs : m.type = "RV"
    BY <1>4 DEF PeriodicElection, peerVars, Send
  <2>2. \A k \in Server : state'[k] = "Leader" => state[k] = "Leader"
    BY <2>1 DEF TypeOK
  <2> QED BY <1>2, <1>3, <2>1, <2>2, SilentStep DEF IndexStep
<1>5. CASE PeriodicHeartbeat(i)
  <2>1. /\ nextIdx' = nextIdx /\ state' = state /\ state[i] = "Leader"
        /\ \A m \in msgs' \ msgs : m.type = "AE" /\ \E j \in Server \ {i} :
             m = AppendEntriesTo(i, j, currentTerm[i], nextIdx[i][j], log[i], commitIdx[i])
    BY <1>5, HeartbeatSends DEF PeriodicHeartbeat, peerVars, electionVars
  <2>2. /\ currentTerm[i] \in Nat /\ commitIdx[i] \in Nat /\ commitIdx[i] <= Len(log[i])
        /\ \A j \in Server \ {i} :
             nextIdx[i][j] \in Nat \ {0} /\ nextIdx[i][j] <= Len(log[i]) + 1
    BY <2>1 DEF TypeOK, IndexInv, NextWithin, CommitsWithin
  <2>3. ASSUME NEW m \in msgs' \ msgs
        PROVE  m.type = "AE" /\ \E j \in Server, term \in Nat, commit \in Nat,
                 next \in Nat \ {0} :
                   /\ next <= Len(log[i]) + 1 /\ commit <= Len(log[i])
                   /\ m = AppendEntriesTo(i, j, term, next, log[i], commit)
    <3>1. PICK j \in Server \ {i} :
            m = AppendEntriesTo(i, j, currentTerm[i], nextIdx[i][j], log[i], commitIdx[i])
      BY <2>1
    <3>2. nextIdx[i][j] \in Nat \ {0} /\ nextIdx[i][j] <= Len(log[i]) + 1
      BY <2>2
    <3> QED BY <2>1, <2>2, <3>1, <3>2
  <2>4. NextWithin'
    BY <1>2, <2>1 DEF IndexInv, NextWithin
  <2>5. EndsStep /\ RepliesStep
    BY <1>2, <2>3, LeaderSends
  <2> QED BY <1>3, <2>4, <2>5 DEF IndexStep
<1>6. CASE PeriodicIdle(i)
  <2>1. nextIdx' = nextIdx /\ state' = state /\ msgs' = msgs
    BY <1>6 DEF PeriodicIdle, peerVars, electionVars
  <2> QED BY <1>2, <1>3, <2>1, SilentStep DEF IndexStep
<1> QED BY <1>1, <1>4, <1>5, <1>6 DEF Periodic

LEMMA VoteIndices ==
  ASSUME MayLeave = {}, TypeOK, ElectionInv, IndexInv, NEW i \in Server, NEW m \in msgs,
         RecvRequestVote(i, m) \/ RecvRequestVoteResponse(i, m)
  PROVE  IndexStep
<1>1. log' = log /\ commitIdx' = commitIdx /\ lastApplied' = lastApplied
  BY DEF RecvRequestVote, RefuseForLeader, ConsiderVote, RecvRequestVoteResponse, CountVote,
         logVars
<1>2. CommitStep
  BY <1>1, QuietIndices
<1>3. CASE RecvRequestVote(i, m)
  <2>1. /\ nextIdx' = nextIdx /\ \A n \in msgs' \ msgs : n.type = "RVR"
        /\ \A k \in Server : state'[k] = "Leader" => state[k] = "Leader"
    BY <1>3 DEF RecvRequestVote, RefuseForLeader, ConsiderVote, VoteReply, Send, peerVars,
                electionVars, TypeOK
  <2> QED BY <1>1, <1>2, <2>1, SilentStep DEF IndexStep
<1>4. CASE RecvRequestVoteResponse(i, m)
  <2>1. CASE CountVote(i, m) /\ BecomeLeader(i, currentTerm[i])
    BY <1>1, <1>2, <2>1, BecomeLeaderIndices DEF IndexStep
  <2>2. CASE CountVote(i, m) /\ UNCHANGED <<votedFor, state, currentLeader, peerVars, msgs>>
    BY <1>1, <1>2, <2>2, SilentStep DEF IndexStep, peerVars
  <2>3. CASE StepDown(i, m.term, None) /\ UNCHANGED <<memberVars, voteForMe, logVars, peerVars, msgs>>
    <3>1. /\ nextIdx' = nextIdx /\ msgs' = msgs
          /\ \A k \in Server : state'[k] = "Leader" => state[k] = "Leader"
      BY <2>3 DEF StepDown, peerVars, TypeOK
    <3> QED BY <1>1, <1>2, <3>1, SilentStep DEF IndexStep
  <2> QED BY <1>4, <2>1, <2>2, <2>3 DEF RecvRequestVoteResponse, CountVote
<1> QED BY <1>3, <1>4

(* Accepting or refusing an AppendEntries leaves all leaders as they were.  *)
LEMMA FollowIndices ==
  ASSUME TypeOK, TypeOK', IndexInv, NEW i \in Server, NEW m \in Of("AE"),
         FollowLeader(i, m), RolesStep,
         NEW success, NEW idx, success => idx <= End(m),
         Send({AppendReply(i, m, m.term, success, idx)})
  PROVE  NextWithin' /\ EndsStep /\ RepliesStep
<1>1. /\ nextIdx' = nextIdx
      /\ \A k \in Server : state'[k] = "Leader" => state[k] = "Leader"
  BY DEF FollowLeader, peerVars, TypeOK
<1>2. NextWithin'
  <2> SUFFICES ASSUME NEW k \in Server, state'[k] = "Leader", NEW j \in Server \ {k}
               PROVE  nextIdx'[k][j] <= Len(log'[k]) + 1
    BY DEF NextWithin
  <2>1. state[k] = "Leader" /\ Len(log[k]) <= Len(log'[k])
    BY <1>1 DEF RolesStep
  <2>2. nextIdx[k][j] \in Nat /\ nextIdx[k][j] <= Len(log[k]) + 1
    BY <2>1 DEF IndexInv, NextWithin, TypeOK
  <2>3. Len(log[k]) \in Nat /\ Len(log'[k]) \in Nat
    BY LenProperties DEF TypeOK
  <2> QED BY <1>1, <2>1, <2>2, <2>3
<1>3. \A n \in msgs' \ msgs : /\ n.type = "AER" /\ n.to = m.from /\ n.term = m.term
                              /\ n.success = success /\ n.curIdx = idx
  BY DEF Send, AppendReply
<1>4. EndsStep
  BY <1>3 DEF EndsStep, Of
<1>5. RepliesStep
  <2> SUFFICES ASSUME NEW n \in msgs' \ msgs, n.success
               PROVE  \E a \in Of("AE") : a.from = n.to /\ a.term = n.term /\ n.curIdx <= End(a)
    BY DEF RepliesStep, Of
  <2> QED BY <1>3
<1> QED BY <1>2, <1>4, <1>5

(* A vehicle's own step that keeps what it has committed.                  *)
LEMMA CommitsOfOne ==
  ASSUME TypeOK, TypeOK', IndexInv, NEW i \in Server,
         \A k \in Server : k # i => log'[k] = log[k] /\ commitIdx'[k] = commitIdx[k],
         lastApplied' = lastApplied,
         commitIdx[i] <= commitIdx'[i], commitIdx'[i] <= Len(log'[i]),
         \A h \in 1..commitIdx[i] : log'[i][h] = log[i][h]
  PROVE  CommitStep
<1> SUFFICES ASSUME NEW k \in Server
             PROVE  /\ commitIdx[k] <= commitIdx'[k] /\ commitIdx'[k] <= Len(log'[k])
                    /\ lastApplied'[k] <= commitIdx'[k]
                    /\ SubSeq(log'[k], 1, commitIdx[k]) = SubSeq(log[k], 1, commitIdx[k])
  BY DEF CommitStep
<1>1. /\ commitIdx[k] \in Nat /\ lastApplied[k] \in Nat /\ commitIdx'[k] \in Nat
      /\ lastApplied[k] <= commitIdx[k] /\ commitIdx[k] <= Len(log[k])
  BY DEF TypeOK, IndexInv, CommitsWithin
<1>2. CASE k # i
  BY <1>1, <1>2
<1>3. CASE k = i
  <2>1. /\ log[i] \in Seq(Entry) /\ log'[i] \in Seq(Entry) /\ Len(log'[i]) \in Nat
    BY LenProperties DEF TypeOK
  <2>2. commitIdx[i] <= Len(log'[i]) /\ commitIdx[i] <= Len(log[i])
    BY <1>1, <1>3, <2>1
  <2>3. SubSeq(log'[i], 1, commitIdx[i]) = SubSeq(log[i], 1, commitIdx[i])
    BY <1>1, <1>3, <2>1, <2>2, SamePrefix
  <2> QED BY <1>1, <1>3, <2>3
<1> QED BY <1>2, <1>3

LEMMA AppendMismatchIndices ==
  ASSUME TypeOK, TypeOK', IndexInv, NEW i \in Server, NEW m \in Of("AE"),
         AppendMismatch(i, m), RolesStep
  PROVE  IndexStep
<1> DEFINE n == Lower(m.prevIdx - 1, Len(log[i]))
<1>1. /\ commitIdx' = commitIdx /\ lastApplied' = lastApplied
      /\ log' = [log EXCEPT ![i] = IF commitIdx[i] < m.prevIdx THEN SubSeq(@, 1, n) ELSE @]
  BY DEF AppendMismatch
<1>2. /\ log[i] \in Seq(Entry) /\ Len(log[i]) \in Nat /\ m.prevIdx \in Nat
      /\ commitIdx[i] \in Nat /\ commitIdx[i] <= Len(log[i])
  BY RunsAreRuns, LenProperties DEF AppendEntries, TypeOK, IndexInv, CommitsWithin
<1>3. /\ \A k \in Server : k # i => log'[k] = log[k]
      /\ log'[i] = IF commitIdx[i] < m.prevIdx THEN SubSeq(log[i], 1, n) ELSE log[i]
  BY <1>1 DEF TypeOK
<1>4. ASSUME commitIdx[i] < m.prevIdx PROVE CommitStep
  <2>1. n \in 0..Len(log[i]) /\ commitIdx[i] <= n
    BY <1>2, <1>4 DEF Lower
  <2> HIDE DEF n
  <2>2. \A h \in 1..n : log[i][h] \in Entry
    BY <1>2, <2>1, ElementOfSeq
  <2>3. Len(log'[i]) = n /\ \A h \in 1..n : log'[i][h] = log[i][h]
    BY <1>3, <1>4, <2>1, <2>2, SubSeqProperties
  <2>4. \A h \in 1..commitIdx[i] : log'[i][h] = log[i][h]
    BY <1>2, <2>1, <2>3
  <2>5. commitIdx[i] <= commitIdx'[i] /\ commitIdx'[i] <= Len(log'[i])
    BY <1>1, <1>2, <2>1, <2>3
  <2> QED BY <1>1, <1>3, <2>4, <2>5, CommitsOfOne
<1>5. ASSUME ~(commitIdx[i] < m.prevIdx) PROVE CommitStep
  <2>1. commitIdx[i] <= commitIdx'[i] /\ commitIdx'[i] <= Len(log'[i])
    BY <1>1, <1>2, <1>3, <1>5
  <2> QED BY <1>1, <1>3, <1>5, <2>1, CommitsOfOne
<1>6. NextWithin' /\ EndsStep /\ RepliesStep
  BY FollowIndices DEF AppendMismatch
<1> QED BY <1>4, <1>5, <1>6 DEF IndexStep

LEMMA AppendAcceptIndices ==
  ASSUME TypeOK, TypeOK', IndexInv, NEW i \in Server, NEW m \in Of("AE"),
         FollowLeader(i, m), HasPrev(log[i], m),
         NEW k \in 0..Len(m.entries), MatchesUpTo(log[i], m, k), AppendAccept(i, m, k),
         RolesStep
  PROVE  IndexStep
<1> DEFINE n == Merged(log[i], m, k)
<1>1. /\ lastApplied' = lastApplied /\ log' = [log EXCEPT ![i] = n]
      /\ commitIdx' = [commitIdx EXCEPT ![i] = FollowerCommit(@, Len(log'[i]), m)]
      /\ ~ConflictsWithCommitted(i, m, k)
      /\ Send({AppendReply(i, m, m.term, TRUE, LastMatching(m))})
  BY DEF AppendAccept
<1>2. /\ m \in AppendEntries /\ m.prevIdx \in Nat /\ Len(m.entries) \in Nat
      /\ m.leaderCommit \in Nat /\ log[i] \in Seq(Entry) /\ Len(log[i]) \in Nat
      /\ commitIdx[i] \in Nat /\ commitIdx[i] <= Len(log[i])
  BY RunsAreRuns, LenProperties DEF AppendEntries, TypeOK, IndexInv, CommitsWithin
<1>3. /\ \A j \in Server : j # i => log'[j] = log[j] /\ commitIdx'[j] = commitIdx[j]
      /\ log'[i] = n /\ commitIdx'[i] = FollowerCommit(commitIdx[i], Len(n), m)
  BY <1>1 DEF TypeOK
(* The log now reaches as far as the message, and keeps what is committed. *)
<1>4. /\ Len(n) \in Nat /\ End(m) <= Len(n) /\ commitIdx[i] <= Len(n)
      /\ \A h \in 1..commitIdx[i] : n[h] = log[i][h]
  <2>1. CASE k = Len(m.entries)
    <3>1. n = log[i]
      BY <2>1 DEF Merged
    <3>2. m.prevIdx + k <= Len(log[i])
      BY <1>2, MergedType
    <3> QED BY <1>2, <2>1, <3>1, <3>2 DEF End
  <2>2. CASE k # Len(m.entries)
    <3>1. /\ m.prevIdx + k <= Len(log[i]) /\ Len(n) = m.prevIdx + Len(m.entries)
          /\ \A h \in 1..m.prevIdx + k : n[h] = log[i][h]
      BY <1>2, <2>2, MergedParts
    <3> HIDE DEF n
    <3>2. commitIdx[i] <= m.prevIdx + k
      <4>1. ~(m.prevIdx + k + 1 <= Lower(commitIdx[i], Len(log[i])))
        BY <1>1, <1>2, <2>2 DEF ConflictsWithCommitted
      <4> QED BY <1>2, <4>1 DEF Lower
    <3>3. \A h \in 1..commitIdx[i] : h \in 1..m.prevIdx + k
      BY <1>2, <3>2
    <3> QED BY <1>2, <2>2, <3>1, <3>2, <3>3, SMTT(20) DEF End
  <2> QED BY <2>1, <2>2
<1> HIDE DEF n
<1>5. m.leaderCommit <= Len(n)
  <2>1. m.leaderCommit <= End(m) /\ End(m) \in Nat
    BY <1>2 DEF IndexInv, EndsWithin, End
  <2> QED BY <1>2, <1>4, <2>1
<1>6. commitIdx[i] <= commitIdx'[i] /\ commitIdx'[i] <= Len(log'[i])
  BY <1>2, <1>3, <1>4, <1>5 DEF FollowerCommit, Lower, Upper
<1>7. CommitStep
  BY <1>1, <1>3, <1>4, <1>6, CommitsOfOne
<1>8. NextWithin' /\ EndsStep /\ RepliesStep
  <2>1. LastMatching(m) <= End(m)
    BY <1>2 DEF LastMatching, End
  <2> QED BY <1>1, <2>1, FollowIndices
<1> QED BY <1>7, <1>8 DEF IndexStep

LEMMA AppendEntriesIndices ==
  ASSUME TypeOK, TypeOK', IndexInv, NEW i \in Server, NEW m \in msgs,
         RecvAppendEntries(i, m), RolesStep
  PROVE  IndexStep
<1>1. m \in Of("AE")
  BY DEF RecvAppendEntries, Of
<1>2. CASE AppendStale(i, m)
  <2>1. /\ log' = log /\ commitIdx' = commitIdx /\ lastApplied' = lastApplied
        /\ nextIdx' = nextIdx /\ state' = state
        /\ \A n \in msgs' \ msgs : n.type = "AER" /\ ~n.success
    BY <1>2 DEF AppendStale, logVars, peerVars, electionVars, Send, AppendReply
  <2> QED BY <2>1, QuietIndices, SilentStep DEF IndexStep
<1>3. CASE AppendMismatch(i, m)
  BY <1>1, <1>3, AppendMismatchIndices
<1>4. CASE AppendMatch(i, m)
  <2>1. PICK k \in 0..Len(m.entries) :
          /\ MatchesUpTo(log[i], m, k)
          /\ AppendAccept(i, m, k) \/ AppendShutdown(i, m, k)
    BY <1>4 DEF AppendMatch
  <2>2. FollowLeader(i, m) /\ HasPrev(log[i], m)
    BY <1>4 DEF AppendMatch
  <2>3. CASE AppendShutdown(i, m, k)
    <3>1. /\ Send({AppendReply(i, m, m.term, TRUE, m.prevIdx + k)})
          /\ log' = log /\ commitIdx' = commitIdx /\ lastApplied' = lastApplied
      BY <2>3 DEF AppendShutdown, logVars
    <3>2. m.prevIdx + k <= End(m)
      <4>1. m.prevIdx \in Nat /\ Len(m.entries) \in Nat
        BY <1>1, RunsAreRuns, LenProperties DEF AppendEntries
      <4> QED BY <4>1 DEF End
    <3>3. NextWithin' /\ EndsStep /\ RepliesStep
      BY <1>1, <2>2, <3>1, <3>2, FollowIndices
    <3> QED BY <3>1, <3>3, QuietIndices DEF IndexStep
  <2> QED BY <1>1, <2>1, <2>2, <2>3, AppendAcceptIndices
<1> QED BY <1>2, <1>3, <1>4 DEF RecvAppendEntries

(* What a follower acknowledges stands in the log of the leader of the     *)
(* term, which has sent it.                                                *)
LEMMA AcknowledgedWithin ==
  ASSUME TypeOK, IndexInv, NEW i \in Server, NEW m \in Of("AER"), m.success, m.to = i,
         state[i] = "Leader", currentTerm[i] = m.term
  PROVE  m.curIdx <= Len(log[i])
<1>1. PICK n \in Of("AE") : n.from = i /\ n.term = m.term /\ m.curIdx <= End(n)
  BY DEF IndexInv, RepliesWithin
<1>2. End(n) <= Len(log[i])
  BY <1>1 DEF IndexInv, EndsWithin
<1>3. m.curIdx \in Nat /\ End(n) \in Nat /\ Len(log[i]) \in Nat
  <2>1. m \in AppendEntriesResponse /\ n \in AppendEntries
    BY MessageFields, RunsAreRuns DEF Of, TypeOK
  <2>2. m.curIdx \in Nat /\ n.prevIdx \in Nat /\ n.entries \in Seq(Entry)
    BY <2>1 DEF AppendEntriesResponse, AppendEntries
  <2>3. Len(n.entries) \in Nat /\ Len(log[i]) \in Nat
    BY <2>2, LenProperties DEF TypeOK
  <2> QED BY <2>2, <2>3 DEF End
<1> QED BY <1>1, <1>2, <1>3

(* A leader sets next_idx of one peer, and sends at most from there on.    *)
LEMMA ResendIndices ==
  ASSUME TypeOK, IndexInv, NEW i \in Server, NEW j \in Server, log' = log, state' = state,
         NEW next \in Nat \ {0}, next <= Len(log[i]) + 1,
         NEW commit \in Nat, commit <= Len(log[i]),
         nextIdx' = [nextIdx EXCEPT ![i][j] = next],
         Resend(i, j, next, commit) \/ msgs' = msgs
  PROVE  NextWithin' /\ EndsStep /\ RepliesStep
<1>1. NextWithin'
  BY ZenonT(40) DEF NextWithin, IndexInv, TypeOK
<1>2. ASSUME NEW m \in msgs' \ msgs
      PROVE  m.type = "AE" /\ m = AppendEntriesTo(i, j, currentTerm[i], next, log[i], commit)
  BY <1>2 DEF Resend, Send, AppendEntriesTo
<1>3. currentTerm[i] \in Nat
  BY DEF TypeOK
<1>4. EndsStep /\ RepliesStep
  BY <1>2, <1>3, LeaderSends
<1> QED BY <1>1, <1>4

LEMMA AppendRefusedIndices ==
  ASSUME TypeOK, IndexInv, NEW i \in Server, NEW m \in AppendEntriesResponse,
         state[i] = "Leader", m.from # i, AppendRefused(i, m)
  PROVE  IndexStep
<1> DEFINE j == m.from
           back == IF m.curIdx < nextIdx[i][j] - 1 THEN Lower(m.curIdx + 1, Len(log[i]))
                                                   ELSE nextIdx[i][j] - 1
           next == Upper(back, 1)
<1>1. /\ log' = log /\ commitIdx' = commitIdx /\ lastApplied' = lastApplied
      /\ state' = state /\ nextIdx' = [nextIdx EXCEPT ![i][j] = next]
      /\ Resend(i, j, nextIdx'[i][j], commitIdx[i])
  BY DEF AppendRefused, logVars, electionVars
<1>2. /\ j \in Server /\ m.curIdx \in Nat /\ Len(log[i]) \in Nat
      /\ nextIdx[i][j] \in Nat \ {0} /\ commitIdx[i] \in Nat
  BY LenProperties DEF AppendEntriesResponse, TypeOK
<1>3. nextIdx[i][j] <= Len(log[i]) + 1 /\ commitIdx[i] <= Len(log[i])
  BY <1>2 DEF IndexInv, NextWithin, CommitsWithin
<1>4. next \in Nat \ {0} /\ next <= Len(log[i]) + 1
  BY <1>2, <1>3 DEF Lower, Upper
<1> HIDE DEF next
<1>5. nextIdx'[i][j] = next
  BY <1>1, <1>2 DEF TypeOK
<1>6. NextWithin' /\ EndsStep /\ RepliesStep
  BY <1>1, <1>2, <1>3, <1>4, <1>5, ResendIndices
<1> QED BY <1>1, <1>6, QuietIndices DEF IndexStep

LEMMA AppendAcknowledgedIndices ==
  ASSUME TypeOK, TypeOK', IndexInv, NEW i \in Server, NEW m \in AppendEntriesResponse,
         m \in msgs, m.to = i, state[i] = "Leader", currentTerm[i] = m.term,
         AppendAcknowledged(i, m)
  PROVE  IndexStep
<1> DEFINE j == m.from
           point == m.curIdx
<1>1. /\ log' = log /\ lastApplied' = lastApplied /\ state' = state
      /\ nextIdx' = [nextIdx EXCEPT ![i][j] = point + 1]
      /\ \A k \in Server : k # i => commitIdx'[k] = commitIdx[k]
      /\ commitIdx'[i] = commitIdx[i] \/ (commitIdx'[i] = point /\ commitIdx[i] < point)
      /\ Resend(i, j, point + 1, commitIdx'[i]) \/ msgs' = msgs
  BY DEF AppendAcknowledged, logVars, electionVars, Commits, TypeOK
<1>2. /\ j \in Server /\ point \in Nat /\ Len(log[i]) \in Nat
      /\ commitIdx[i] \in Nat /\ commitIdx'[i] \in Nat
  BY LenProperties DEF AppendEntriesResponse, TypeOK
<1>3. point <= Len(log[i]) /\ commitIdx[i] <= Len(log[i])
  <2>1. m \in Of("AER") /\ m.success
    BY DEF AppendEntriesResponse, Of, AppendAcknowledged
  <2> QED BY <2>1, AcknowledgedWithin DEF IndexInv, CommitsWithin
<1> HIDE DEF point
<1>4. commitIdx[i] <= commitIdx'[i] /\ commitIdx'[i] <= Len(log[i])
  BY <1>1, <1>2, <1>3
<1>5. CommitStep
  BY <1>1, <1>4, CommitsOfOne
<1>6. NextWithin' /\ EndsStep /\ RepliesStep
  <2>1. point + 1 \in Nat \ {0} /\ point + 1 <= Len(log[i]) + 1
    BY <1>2, <1>3
  <2> QED BY <1>1, <1>2, <1>4, <2>1, ResendIndices
<1> QED BY <1>5, <1>6 DEF IndexStep

LEMMA AppendEntriesResponseIndices ==
  ASSUME TypeOK, TypeOK', LogInv, IndexInv, NEW i \in Server, NEW m \in msgs,
         RecvAppendEntriesResponse(i, m)
  PROVE  IndexStep
<1>1. m \in AppendEntriesResponse /\ m.to = i /\ state[i] = "Leader"
  BY MessageFields DEF RecvAppendEntriesResponse, TypeOK
<1>2. CASE StepDown(i, m.term, None) /\ UNCHANGED <<memberVars, voteForMe, logVars, peerVars, msgs>>
  <2>1. /\ log' = log /\ commitIdx' = commitIdx /\ lastApplied' = lastApplied
        /\ nextIdx' = nextIdx /\ msgs' = msgs
        /\ \A k \in Server : state'[k] = "Leader" => state[k] = "Leader"
    BY <1>2 DEF StepDown, logVars, peerVars, TypeOK
  <2> QED BY <2>1, QuietIndices, SilentStep DEF IndexStep
<1>3. CASE currentTerm[i] = m.term /\ AppendRefused(i, m)
  <2>1. m.from # i
    BY <1>1 DEF LogInv, SendersLed, Of, AppendEntriesResponse
  <2> QED BY <1>1, <1>3, <2>1, AppendRefusedIndices
<1>4. CASE currentTerm[i] = m.term /\ AppendAcknowledged(i, m)
  BY <1>1, <1>4, AppendAcknowledgedIndices
<1> QED BY <1>2, <1>3, <1>4 DEF RecvAppendEntriesResponse

LEMMA RecvEntryIndices ==
  ASSUME TypeOK, TypeOK', IndexInv, NEW i \in Server, RecvEntry(i)
  PROVE  IndexStep
<1> DEFINE e == [term |-> currentTerm[i], owner |-> i]
           new == Append(log[i], e)
           n == Len(log[i])
<1>1. /\ log' = [log EXCEPT ![i] = new] /\ nextIdx' = nextIdx /\ state' = state
      /\ lastApplied' = lastApplied
      /\ \A k \in Server : k # i => commitIdx'[k] = commitIdx[k]
      /\ commitIdx'[i] = commitIdx[i] \/ commitIdx'[i] = Len(new)
      /\ \A m \in msgs' \ msgs : \E j \in Peers(i) :
           m = AppendEntriesTo(i, j, currentTerm[i], Len(new), new, commitIdx[i])
  BY DEF RecvEntry, Send, electionVars, peerVars, TypeOK
<1>2. /\ new \in Seq(Entry) /\ n \in Nat /\ Len(new) = n + 1
      /\ \A p \in 1..n : new[p] = log[i][p]
  <2>1. e \in Entry
    BY DEF Entry, TypeOK
  <2> QED BY <2>1, AppendProperties, LenProperties DEF TypeOK
<1>3. log'[i] = new /\ \A k \in Server : k # i => log'[k] = log[k]
  BY <1>1 DEF TypeOK
<1> HIDE DEF new
<1>4. commitIdx[i] \in Nat /\ commitIdx[i] <= n
  BY DEF TypeOK, IndexInv, CommitsWithin
<1>5. CommitStep
  <2>1. commitIdx[i] <= commitIdx'[i] /\ commitIdx'[i] <= Len(log'[i])
    BY <1>1, <1>2, <1>3, <1>4
  <2>2. \A h \in 1..commitIdx[i] : log'[i][h] = log[i][h]
    <3>1. \A h \in 1..commitIdx[i] : h \in 1..n
      BY <1>2, <1>4
    <3> QED BY <1>2, <1>3, <3>1
  <2> QED BY <1>1, <1>3, <2>1, <2>2, CommitsOfOne
<1>6. NextWithin'
  <2> SUFFICES ASSUME NEW k \in Server, state[k] = "Leader", NEW j \in Server \ {k}
               PROVE  nextIdx[k][j] <= Len(log'[k]) + 1
    BY <1>1 DEF NextWithin
  <2>1. nextIdx[k][j] \in Nat /\ nextIdx[k][j] <= Len(log[k]) + 1
    BY DEF IndexInv, NextWithin, TypeOK
  <2>2. CASE k = i
    BY <1>2, <1>3, <2>1, <2>2
  <2>3. CASE k # i
    BY <1>3, <2>1, <2>3
  <2> QED BY <2>2, <2>3
<1>7. ASSUME NEW m \in msgs' \ msgs
      PROVE  m.type = "AE" /\ End(m) = Len(log'[m.from]) /\ m.leaderCommit <= End(m)
  <2>1. PICK j \in Peers(i) :
          m = AppendEntriesTo(i, j, currentTerm[i], Len(new), new, commitIdx[i])
    BY <1>1
  <2>2. Len(new) \in Nat \ {0} /\ Len(new) <= Len(new) + 1
    BY <1>2
  <2>3. End(m) = Len(new) /\ m.leaderCommit = commitIdx[i] /\ m.from = i
    BY <1>2, <2>1, <2>2, SentToEnd
  <2>4. m.type = "AE"
    BY <2>1 DEF AppendEntriesTo
  <2> QED BY <1>2, <1>3, <1>4, <2>3, <2>4
<1>8. EndsStep /\ RepliesStep
  BY <1>7 DEF EndsStep, RepliesStep, Of
<1> QED BY <1>5, <1>6, <1>8 DEF IndexStep

-----------------------------------------------------------------------------
(* IndexInv is an invariant as long as nobody is marked inactive.  With a  *)
(* vehicle marked inactive, a leader's next_idx for it is whatever it was, *)
(* and says nothing any more.                                              *)

LEMMA EveryStepIndices ==
  ASSUME MayLeave = {}, Designated = None, \A j \in Server : Server # {j},
         TypeOK, ElectionInv, LogInv, IndexInv, TypeOK', Next
  PROVE  GoodStep /\ IndexStep
<1>1. AtMostOneLeaves
  BY DEF AtMostOneLeaves
<1>2. PICK i \in Server :
        \/ FormCluster(i)
        \/ \E j \in Server : MarkInactive(i, j)
        \/ Periodic(i)
        \/ RecvEntry(i)
        \/ \E m \in msgs : \/ RecvRequestVote(i, m)
                           \/ RecvRequestVoteResponse(i, m)
                           \/ RecvAppendEntries(i, m)
                           \/ RecvAppendEntriesResponse(i, m)
  BY DEF Next
<1>3. GoodStep
  BY <1>1, EveryStepGood
<1>4. ~\E j \in Server : MarkInactive(i, j)
  BY DEF MarkInactive
<1>5. RolesStep
  BY <1>3 DEF GoodStep
<1> QED BY <1>1, <1>2, <1>3, <1>4, <1>5, FormClusterIndices, PeriodicIndices, VoteIndices,
        AppendEntriesIndices, AppendEntriesResponseIndices, RecvEntryIndices

LEMMA IndexInvInit ==
  ASSUME Init
  PROVE  IndexInv
<1>1. Len(<<>>) = 0
  BY EmptySeq
<1> QED BY <1>1 DEF Init, IndexInv, CommitsWithin, NextWithin, EndsWithin, RepliesWithin, Of

LEMMA IndexInvNext ==
  ASSUME MayLeave = {}, Designated = None, \A j \in Server : Server # {j},
         TypeOK, ElectionInv, LogInv, IndexInv, TypeOK', [Next]_vars
  PROVE  IndexInv'
<1>1. CASE UNCHANGED vars
  BY <1>1 DEF vars, electionVars, logVars, peerVars, IndexInv, CommitsWithin, NextWithin,
              EndsWithin, RepliesWithin, Of
<1>2. CASE Next
  BY <1>2, EveryStepIndices, IndexStepKeeps
<1> QED BY <1>1, <1>2

LEMMA IndexInvHolds ==
  ASSUME MayLeave = {}, Designated = None, \A j \in Server : Server # {j}
  PROVE  Spec => []IndexInv
<1>1. TypeOK /\ ElectionInv /\ LogInv /\ IndexInv /\ TypeOK' /\ [Next]_vars => IndexInv'
  BY IndexInvNext
<1>2. AtMostOneLeaves
  BY DEF AtMostOneLeaves
<1>3. Spec => []TypeOK /\ []ElectionInv /\ []LogInv
  BY <1>2, TypeCorrect, ElectionInvariant, LogInvHolds, PTL
<1> QED BY <1>1, <1>3, IndexInvInit, PTL DEF Spec

(* The assertions of raft_set_commit_idx and of raft_recv_appendentries_-  *)
(* response never fail: commit_idx, last_applied_idx and what a follower   *)
(* acknowledges to the leader of its term all stay within the log, for any *)
(* loss, delay, order and repetition of frames.                            *)
THEOREM IndicesStayWithin ==
  ASSUME MayLeave = {}, Designated = None, \A j \in Server : Server # {j}
  PROVE  Spec => []IndicesWithinLog
<1>1. TypeOK /\ IndexInv => IndicesWithinLog
  <2> SUFFICES ASSUME TypeOK, IndexInv PROVE IndicesWithinLog
    OBVIOUS
  <2>1. \A m \in Of("AER") : m.to \in Server
    BY MessageFields DEF Of, TypeOK, AppendEntriesResponse
  <2>2. \A m \in Of("AER") :
          m.success /\ state[m.to] = "Leader" /\ currentTerm[m.to] = m.term
            => m.curIdx <= Len(log[m.to])
    BY <2>1, AcknowledgedWithin
  <2> QED BY <2>2 DEF IndicesWithinLog, IndexInv, CommitsWithin
<1> QED BY <1>1, IndexInvHolds, TypeCorrect, PTL

(* raft refuses to delete what is committed, and raft_recv_appendentries   *)
(* only deletes what contradicts the leader's entries: no step of any      *)
(* vehicle moves its commit_idx back or alters its log up to there.        *)
THEOREM CommittedStays ==
  ASSUME MayLeave = {}, Designated = None, \A j \in Server : Server # {j}
  PROVE  Spec => CommittedStable
<1> DEFINE Kept == \A i \in Server :
             /\ commitIdx[i] <= commitIdx'[i]
             /\ SubSeq(log'[i], 1, commitIdx[i]) = SubSeq(log[i], 1, commitIdx[i])
<1>1. TypeOK /\ ElectionInv /\ LogInv /\ IndexInv /\ TypeOK' /\ [Next]_vars => [Kept]_vars
  BY EveryStepIndices DEF IndexStep, CommitStep
<1>2. AtMostOneLeaves
  BY DEF AtMostOneLeaves
<1>3. Spec => []TypeOK /\ []ElectionInv /\ []LogInv /\ []IndexInv
  BY <1>2, TypeCorrect, ElectionInvariant, LogInvHolds, IndexInvHolds, PTL
<1> QED BY <1>1, <1>3, PTL DEF Spec, CommittedStable
=============================================================================
