------------------------ MODULE SchedulingRoundProof ------------------------
(***************************************************************************)
(* Proofs about SchedulingRound, for any number of vehicles and terms: a   *)
(* round is a run of LibRaft, so that what is proved of LibRaft holds of   *)
(* it; a leader without a schedule has a timer that will make it propose;  *)
(* nobody has two schedules in one round; and who leads for the first time *)
(* has in its log what it proposed.                                        *)
(***************************************************************************)
EXTENDS SchedulingRound, LibRaftCommit

-----------------------------------------------------------------------------
(* The round runs on LibRaft. *)

LEMMA ProposingIsRaft ==
  ASSUME NEW i \in Server, ProposePassOrder(i)
  PROVE  RecvEntry(i) \/ UNCHANGED vars
  BY DEF ProposePassOrder, vars

LEMMA StepIsRaft ==
  ASSUME [RoundNext]_roundVars
  PROVE  [Next]_vars
<1>1. CASE UNCHANGED roundVars
  BY <1>1 DEF roundVars
<1>2. ASSUME NEW i \in Server, ProcessRaftPeriodic(i) PROVE [Next]_vars
  BY <1>2 DEF ProcessRaftPeriodic, PeriodicNothing, Next
<1>3. ASSUME NEW i \in Server, RaftFrame(i) PROVE [Next]_vars
  BY <1>3 DEF RaftFrame, Next
<1>4. ASSUME NEW i \in Server, NEW j \in Server, HandleStatusRequest(i, j) PROVE [Next]_vars
  BY <1>4 DEF HandleStatusRequest
<1>5. ASSUME NEW i \in Server, NEW j \in Server, HandleDbResponse(i, j) PROVE [Next]_vars
  <2>1. ProposePassOrder(i) \/ UNCHANGED vars
    BY <1>5 DEF HandleDbResponse
  <2> QED BY <2>1, ProposingIsRaft DEF Next
<1>6. ASSUME NEW i \in Server, StatusDeadline(i) PROVE [Next]_vars
  <2>1. ProposePassOrder(i) \/ UNCHANGED vars
    BY <1>6 DEF StatusDeadline
  <2> QED BY <2>1, ProposingIsRaft DEF Next
<1>7. ASSUME NEW i \in Server, HandlePassOrderBroadcast(i) PROVE [Next]_vars
  BY <1>7 DEF HandlePassOrderBroadcast
<1>8. ASSUME NEW i \in Server, MarkLeft(i) PROVE [Next]_vars
  BY <1>8 DEF MarkLeft, Next
<1> QED BY <1>1, <1>2, <1>3, <1>4, <1>5, <1>6, <1>7, <1>8 DEF RoundNext

(* Whatever RaftCore does with it, the library is in no other state than   *)
(* LibRaft's.                                                              *)
THEOREM RoundIsRaft == RoundSpec => Spec
<1>1. RoundInit => Init
  BY DEF RoundInit
<1>2. [RoundNext]_roundVars => [Next]_vars
  BY StepIsRaft
<1> QED BY <1>1, <1>2, PTL DEF RoundSpec, Spec

LEMMA RoundTypes == RoundSpec => []TypeOK
  BY RoundIsRaft, TypeCorrect, PTL

(* One leader a term, in a round that one vehicle of three or more leaves. *)
THEOREM RoundElectionSafe ==
  ASSUME AtMostOneLeaves
  PROVE  RoundSpec => []ElectionSafety
<1>1. Designated = None
  BY RoundAssumption
<1> QED BY <1>1, RoundIsRaft, ElectionSafe, PTL

(* One sequence of schedules, of which every vehicle has committed a       *)
(* beginning, in a round that nobody leaves before it has its order.       *)
THEOREM RoundCommitsAgree ==
  ASSUME MayLeave = {}
  PROVE  RoundSpec => []CommittedAgree
<1>1. \A j : Cardinality({j}) = 1
  BY FS_Singleton
<1>2. Designated = None /\ \A j \in Server : Server # {j}
  BY <1>1, RoundAssumption
<1> QED BY <1>2, RoundIsRaft, CommittedSchedulesAgree, PTL

-----------------------------------------------------------------------------
(* The flags and the timers *)

(* Whoever waits still lacks an answer.                                    *)
WaitsForMore == \A i \in waiting : responses[i] < ExpectedResponses

FlagsInv == RoundTypeOK /\ WaitsForMore /\ WillPropose

LEMMA ExpectedIsNat == ExpectedResponses \in Nat \ {0}
  BY ServerAssumption, FS_CardinalityType DEF ExpectedResponses, Upper

LEMMA FlagsInit == RoundInit => FlagsInv
  BY ExpectedIsNat DEF RoundInit, FlagsInv, RoundTypeOK, WaitsForMore, WillPropose

(* The tick: whoever becomes leader without a schedule starts a timer.     *)
LEMMA TickKeepsFlags ==
  ASSUME FlagsInv, NEW i \in Server, ProcessRaftPeriodic(i)
  PROVE  FlagsInv'
<1>1. /\ isLeader \in SUBSET Server /\ waiting \in SUBSET isLeader
      /\ responses \in [Server -> 0..ExpectedResponses]
      /\ deadlines \in [Server -> Nat]
      /\ proposed \in SUBSET Server /\ ordered \in SUBSET Server
      /\ frames \in SUBSET Frame
      /\ \A j \in waiting : responses[j] < ExpectedResponses
      /\ \A j \in isLeader \ (ordered \cup proposed) : deadlines[j] > 0
  BY DEF FlagsInv, RoundTypeOK, WaitsForMore, WillPropose
<1>2. /\ ordered \subseteq ordered' /\ ordered' \in SUBSET Server /\ proposed' = proposed
  BY <1>1 DEF ProcessRaftPeriodic, Apply
<1>3. CASE UNCHANGED <<isLeader, statusVars>>
  BY <1>1, <1>2, <1>3
     DEF FlagsInv, RoundTypeOK, WaitsForMore, WillPropose, statusVars, ExpectedResponses
<1>4. CASE LostLeadership(i)
  BY <1>1, <1>2, <1>4
     DEF LostLeadership, FlagsInv, RoundTypeOK, WaitsForMore, WillPropose, ExpectedResponses
<1>5. CASE BecameLeader(i)
  <2>1. CASE i \in ordered'
    BY <1>1, <1>2, <1>5, <2>1
       DEF BecameLeader, FlagsInv, RoundTypeOK, WaitsForMore, WillPropose, statusVars,
           ExpectedResponses
  <2>2. CASE i \notin ordered'
    <3>1. /\ isLeader' = isLeader \cup {i} /\ waiting' = waiting \cup {i}
          /\ responses' = [responses EXCEPT ![i] = 0]
          /\ frames' = frames \cup {StatusRequest(i)}
          /\ deadlines' = [deadlines EXCEPT ![i] = @ + 1]
      BY <1>5, <2>2 DEF BecameLeader, SendStatusRequest, WithDeadline
    <3>2. /\ responses' \in [Server -> 0..ExpectedResponses]
          /\ \A j \in Server : responses'[j] = IF j = i THEN 0 ELSE responses[j]
      BY <1>1, <3>1, ExpectedIsNat
    <3>3. /\ deadlines' \in [Server -> Nat]
          /\ \A j \in Server : deadlines'[j] = IF j = i THEN deadlines[j] + 1 ELSE deadlines[j]
      BY <1>1, <3>1
    <3>4. frames' \in SUBSET Frame
      BY <1>1, <3>1 DEF Frame, StatusRequest
    <3>5. RoundTypeOK'
      BY <1>1, <1>2, <3>1, <3>2, <3>3, <3>4 DEF RoundTypeOK, ExpectedResponses
    <3>6. WaitsForMore'
      BY <1>1, <3>1, <3>2, ExpectedIsNat DEF WaitsForMore, ExpectedResponses
    <3>7. WillPropose'
      BY <1>1, <1>2, <3>1, <3>3 DEF WillPropose
    <3> QED BY <3>5, <3>6, <3>7 DEF FlagsInv
  <2> QED BY <2>1, <2>2
<1> QED BY <1>3, <1>4, <1>5 DEF ProcessRaftPeriodic, CheckLeadershipChange

(* A call of proposePassOrder by a leader without an order leaves it with   *)
(* passOrderProposed_ set.                                                 *)
LEMMA ProposingKeepsFlags ==
  ASSUME FlagsInv, NEW i \in isLeader, ProposePassOrder(i)
  PROVE  /\ proposed \subseteq proposed' /\ proposed' \in SUBSET Server
         /\ i \in ordered \cup proposed'
  BY DEF ProposePassOrder, MayPropose, FlagsInv, RoundTypeOK

LEMMA AnswerKeepsFlags ==
  ASSUME FlagsInv, NEW i \in Server, NEW j \in Server, HandleDbResponse(i, j)
  PROVE  FlagsInv'
<1>1. /\ isLeader \in SUBSET Server /\ waiting \in SUBSET isLeader
      /\ responses \in [Server -> 0..ExpectedResponses]
      /\ \A k \in waiting : responses[k] < ExpectedResponses
      /\ \A k \in isLeader \ (ordered \cup proposed) : deadlines[k] > 0
      /\ proposed \in SUBSET Server
  BY DEF FlagsInv, RoundTypeOK, WaitsForMore, WillPropose
<1>2. /\ UNCHANGED <<isLeader, deadlines, ordered, frames>>
      /\ i \in isLeader /\ i \in waiting
      /\ responses' = [responses EXCEPT ![i] = @ + 1]
      /\ IF responses'[i] >= ExpectedResponses
         THEN waiting' = waiting \ {i} /\ ProposePassOrder(i)
         ELSE waiting' = waiting /\ proposed' = proposed
  BY DEF HandleDbResponse
<1>3. /\ responses' \in [Server -> 0..ExpectedResponses]
      /\ \A k \in Server : responses'[k] = IF k = i THEN responses[k] + 1 ELSE responses[k]
  BY <1>1, <1>2, ExpectedIsNat
<1>4. proposed \subseteq proposed' /\ proposed' \in SUBSET Server
  BY <1>1, <1>2, ProposingKeepsFlags
<1>5. RoundTypeOK'
  BY <1>1, <1>2, <1>3, <1>4 DEF FlagsInv, RoundTypeOK, ExpectedResponses
<1>6. WaitsForMore'
  <2>1. i \in waiting' => responses'[i] < ExpectedResponses
    BY <1>1, <1>2, <1>3, ExpectedIsNat
  <2> QED BY <1>1, <1>2, <1>3, <2>1 DEF WaitsForMore, ExpectedResponses
<1>7. WillPropose'
  BY <1>1, <1>2, <1>4 DEF WillPropose
<1> QED BY <1>5, <1>6, <1>7 DEF FlagsInv

(* A timer that fires is one less, but it makes its vehicle propose.       *)
LEMMA DeadlineKeepsFlags ==
  ASSUME FlagsInv, NEW i \in Server, StatusDeadline(i)
  PROVE  FlagsInv'
<1>1. /\ isLeader \in SUBSET Server /\ waiting \in SUBSET isLeader
      /\ deadlines \in [Server -> Nat]
      /\ \A k \in waiting : responses[k] < ExpectedResponses
      /\ \A k \in isLeader \ (ordered \cup proposed) : deadlines[k] > 0
      /\ proposed \in SUBSET Server
  BY DEF FlagsInv, RoundTypeOK, WaitsForMore, WillPropose
<1>2. /\ UNCHANGED <<isLeader, responses, ordered, frames>> /\ deadlines[i] > 0
      /\ deadlines' = [deadlines EXCEPT ![i] = @ - 1]
      /\ IF i \in isLeader \ ordered
         THEN waiting' = waiting \ {i} /\ ProposePassOrder(i)
         ELSE waiting' = waiting /\ proposed' = proposed
  BY DEF StatusDeadline
<1>3. /\ deadlines' \in [Server -> Nat]
      /\ \A k \in Server : deadlines'[k] = IF k = i THEN deadlines[k] - 1 ELSE deadlines[k]
  BY <1>1, <1>2
<1>4. /\ proposed \subseteq proposed' /\ proposed' \in SUBSET Server
      /\ i \in isLeader => i \in ordered \cup proposed'
  BY <1>1, <1>2, ProposingKeepsFlags
<1>5. RoundTypeOK'
  BY <1>1, <1>2, <1>3, <1>4 DEF FlagsInv, RoundTypeOK, ExpectedResponses
<1>6. WaitsForMore'
  BY <1>1, <1>2 DEF WaitsForMore, ExpectedResponses
<1>7. WillPropose'
  BY <1>1, <1>2, <1>3, <1>4 DEF WillPropose
<1> QED BY <1>5, <1>6, <1>7 DEF FlagsInv

LEMMA FlagsNext ==
  ASSUME FlagsInv, [RoundNext]_roundVars
  PROVE  FlagsInv'
<1>1. CASE UNCHANGED appVars
  BY <1>1 DEF FlagsInv, RoundTypeOK, WaitsForMore, WillPropose, appVars, statusVars,
              ExpectedResponses
<1>2. ASSUME NEW i \in Server, NEW j \in Server, HandleStatusRequest(i, j) PROVE FlagsInv'
  <2>1. /\ UNCHANGED <<isLeader, waiting, responses, deadlines, proposed, ordered>>
        /\ frames' = frames \cup {StatusResponse(i, j)}
    BY <1>2 DEF HandleStatusRequest
  <2>2. frames' \in SUBSET Frame
    BY <2>1 DEF FlagsInv, RoundTypeOK, Frame, StatusResponse
  <2> QED BY <2>1, <2>2 DEF FlagsInv, RoundTypeOK, WaitsForMore, WillPropose,
                            ExpectedResponses
<1>3. ASSUME NEW i \in Server, HandlePassOrderBroadcast(i) PROVE FlagsInv'
  BY <1>3 DEF HandlePassOrderBroadcast, statusVars, FlagsInv, RoundTypeOK, WaitsForMore,
              WillPropose, ExpectedResponses
<1>4. \A i \in Server : RaftFrame(i) \/ MarkLeft(i) => UNCHANGED appVars
  BY DEF RaftFrame, MarkLeft
<1> QED BY <1>1, <1>2, <1>3, <1>4, TickKeepsFlags, AnswerKeepsFlags, DeadlineKeepsFlags
        DEF RoundNext, roundVars

(* No order of ticks, frames and timers leaves a flag or a counter with a  *)
(* value it should not have; in particular answers are counted up to the   *)
(* expected number only.                                                   *)
THEOREM RoundTypesHold == RoundSpec => []RoundTypeOK
<1>1. FlagsInv => RoundTypeOK
  BY DEF FlagsInv
<1> QED BY <1>1, FlagsInit, FlagsNext, PTL DEF RoundSpec

(* A leader without a schedule that has not proposed one has a timer       *)
(* running, although every change of leadership starts another one and     *)
(* none is ever cancelled.                                                 *)
THEOREM LeadersWillPropose == RoundSpec => []WillPropose
<1>1. FlagsInv => WillPropose
  BY DEF FlagsInv
<1> QED BY <1>1, FlagsInit, FlagsNext, PTL DEF RoundSpec

-----------------------------------------------------------------------------
(* Where the entries are *)

Has(l, k, e) == k \in DOMAIN l /\ l[k] = e

(* Entry e stands at index k of some log, or is on its way there.          *)
Placed(k, e) ==
  \/ \E j \in Server : Has(log[j], k, e)
  \/ \E m \in Of("AE") : \E h \in DOMAIN m.entries :
       k = m.prevIdx + h /\ m.entries[h] = e

NoNewPlace == \A k, e : Placed(k, e)' => Placed(k, e)

(* The entries of m are those of l, at the same indices.                   *)
SentFrom(m, l) == \A h \in DOMAIN m.entries : Has(l, m.prevIdx + h, m.entries[h])

LEMMA SentFromLog ==
  ASSUME NEW i, NEW j, NEW term, NEW commit,
         NEW l \in Seq(Entry), NEW next \in Nat \ {0}
  PROVE  SentFrom(AppendEntriesTo(i, j, term, next, l, commit), l)
<1> DEFINE m == AppendEntriesTo(i, j, term, next, l, commit)
           s == SubSeq(l, next, Len(l))
<1>1. Len(l) \in Nat /\ DOMAIN l = 1..Len(l)
  BY LenProperties
<1>2. \A k \in next..Len(l) : l[k] \in Entry
  BY <1>1, ElementOfSeq
<1>3. /\ s \in Seq(Entry) /\ Len(s) = IF next <= Len(l) THEN Len(l) - next + 1 ELSE 0
      /\ \A h \in 1..Len(l) - next + 1 : s[h] = l[next + h - 1]
  BY <1>1, <1>2, SubSeqProperties
<1>4. DOMAIN s = 1..Len(s)
  BY <1>3, LenProperties
<1> HIDE DEF s
<1>5. ASSUME NEW h \in DOMAIN s
      PROVE  Has(l, (IF next - 1 \in DOMAIN l THEN next - 1 ELSE 0) + h, s[h])
  <2>1. /\ h \in Nat \ {0} /\ next <= Len(l) /\ h <= Len(l) - next + 1
    BY <1>1, <1>3, <1>4, <1>5
  <2>2. s[h] = l[next + h - 1] /\ next + h - 1 \in DOMAIN l
    BY <1>1, <1>3, <2>1
  <2>3. (IF next - 1 \in DOMAIN l THEN next - 1 ELSE 0) + h = next + h - 1
    BY <1>1, <2>1
  <2> QED BY <2>2, <2>3 DEF Has
<1>6. /\ m.entries = s
      /\ m.prevIdx = IF next - 1 \in DOMAIN l THEN next - 1 ELSE 0
  BY DEF AppendEntriesTo, s
<1> QED BY <1>5, <1>6 DEF SentFrom

(* A step that rearranges what logs hold, and sends what one of them holds.*)
LEMMA NothingNew ==
  ASSUME NEW i \in Server,
         \A j \in Server : \A k \in DOMAIN log'[j] : Placed(k, log'[j][k]),
         \A m \in msgs' : m \in msgs \/ m.type # "AE" \/ SentFrom(m, log[i])
  PROVE  NoNewPlace
<1> SUFFICES ASSUME NEW k, NEW e, Placed(k, e)' PROVE Placed(k, e)
  BY DEF NoNewPlace
<1>1. CASE \E j \in Server : Has(log'[j], k, e)
  BY <1>1 DEF Has
<1>2. CASE \E m \in Of("AE")' : \E h \in DOMAIN m.entries :
             k = m.prevIdx + h /\ m.entries[h] = e
  <2>1. PICK m \in msgs' : /\ m.type = "AE"
                          /\ \E h \in DOMAIN m.entries : k = m.prevIdx + h /\ m.entries[h] = e
    BY <1>2 DEF Of
  <2>2. CASE m \in msgs
    BY <2>1, <2>2 DEF Placed, Of
  <2>3. CASE SentFrom(m, log[i])
    BY <2>1, <2>3 DEF Placed, SentFrom
  <2> QED BY <2>1, <2>2, <2>3
<1> QED BY <1>1, <1>2 DEF Placed

LEMMA LogsStay ==
  ASSUME log' = log
  PROVE  \A j \in Server : \A k \in DOMAIN log'[j] : Placed(k, log'[j][k])
  BY DEF Placed, Has

-----------------------------------------------------------------------------
(* The handlers of raft *)

LEMMA BecomeLeaderPlaces ==
  ASSUME TypeOK, NEW i \in Server, NEW term, BecomeLeader(i, term), log' = log
  PROVE  NoNewPlace
<1>1. log[i] \in Seq(Entry) /\ Len(log[i]) + 1 \in Nat \ {0}
  BY LenProperties DEF TypeOK
<1>2. \A m \in msgs' : m \in msgs \/ SentFrom(m, log[i])
  BY <1>1, SentFromLog DEF BecomeLeader, Send
<1> QED BY <1>2, LogsStay, NothingNew

LEMMA PeriodicPlaces ==
  ASSUME TypeOK, NEW i \in Server, Periodic(i)
  PROVE  NoNewPlace
<1>1. CASE PeriodicOnlyVoter(i)
  BY <1>1, BecomeLeaderPlaces DEF PeriodicOnlyVoter
<1>2. CASE PeriodicElection(i)
  <2>1. log' = log /\ \A m \in msgs' : m \in msgs \/ m.type = "RV"
    BY <1>2 DEF PeriodicElection, Send
  <2> QED BY <2>1, LogsStay, NothingNew
<1>3. CASE PeriodicHeartbeat(i)
  <2>1. log[i] \in Seq(Entry) /\ \A j \in Server : nextIdx[i][j] \in Nat \ {0}
    BY DEF TypeOK
  <2>2. Peers(i) \subseteq Server
    BY DEF Peers, TypeOK
  <2>3. log' = log /\ \E skipped \in SUBSET Peers(i) :
          msgs' = msgs \cup {AppendEntriesTo(i, j, currentTerm[i], nextIdx[i][j], log[i],
                                            commitIdx[i]) : j \in Peers(i) \ skipped}
    BY <1>3 DEF PeriodicHeartbeat, Send
  <2>4. \A m \in msgs' : m \in msgs \/ SentFrom(m, log[i])
    BY <2>1, <2>2, <2>3, SentFromLog
  <2> QED BY <2>3, <2>4, LogsStay, NothingNew
<1>4. CASE PeriodicIdle(i)
  BY <1>4, LogsStay, NothingNew DEF PeriodicIdle
<1> QED BY <1>1, <1>2, <1>3, <1>4 DEF Periodic

LEMMA VotePlaces ==
  ASSUME TypeOK, NEW i \in Server, NEW m \in msgs,
         RecvRequestVote(i, m) \/ RecvRequestVoteResponse(i, m)
  PROVE  NoNewPlace
<1>1. CASE RecvRequestVote(i, m)
  <2>1. log' = log /\ \A n \in msgs' : n \in msgs \/ n.type = "RVR"
    BY <1>1 DEF RecvRequestVote, RefuseForLeader, ConsiderVote, VoteReply, Send, logVars
  <2> QED BY <2>1, LogsStay, NothingNew
<1>2. CASE RecvRequestVoteResponse(i, m)
  <2>1. log' = log /\ (msgs' = msgs \/ BecomeLeader(i, currentTerm[i]))
    BY <1>2 DEF RecvRequestVoteResponse, CountVote, logVars
  <2> QED BY <2>1, LogsStay, NothingNew, BecomeLeaderPlaces
<1> QED BY <1>1, <1>2

LEMMA AcknowledgementPlaces ==
  ASSUME TypeOK, NEW i \in Server, NEW m \in msgs, RecvAppendEntriesResponse(i, m)
  PROVE  NoNewPlace
<1>1. m \in AppendEntriesResponse /\ m.from \in Server /\ m.curIdx \in Nat
  BY MessageFields DEF RecvAppendEntriesResponse, TypeOK, AppendEntriesResponse
<1>2. log[i] \in Seq(Entry) /\ Len(log[i]) \in Nat /\ nextIdx[i][m.from] \in Nat \ {0}
  BY <1>1, LenProperties DEF TypeOK
<1>3. CASE msgs' = msgs /\ log' = log
  BY <1>3, LogsStay, NothingNew
<1>4. CASE AppendRefused(i, m)
  <2> DEFINE next == nextIdx[i][m.from]
             back == IF m.curIdx < next - 1 THEN Lower(m.curIdx + 1, Len(log[i])) ELSE next - 1
  <2>1. Upper(back, 1) \in Nat \ {0}
    BY <1>1, <1>2 DEF Upper, Lower
  <2>2. nextIdx' = [nextIdx EXCEPT ![i][m.from] = Upper(back, 1)] /\ log' = log
        /\ msgs' = msgs \cup {AppendEntriesTo(i, m.from, currentTerm[i], nextIdx'[i][m.from],
                                              log[i], commitIdx[i])}
    BY <1>4 DEF AppendRefused, Resend, Send, logVars
  <2>3. nextIdx'[i][m.from] = Upper(back, 1)
    BY <1>1, <2>2 DEF TypeOK
  <2>4. \A n \in msgs' : n \in msgs \/ SentFrom(n, log[i])
    BY <1>2, <2>1, <2>2, <2>3, SentFromLog
  <2> QED BY <2>2, <2>4, LogsStay, NothingNew
<1>5. CASE AppendAcknowledged(i, m)
  <2>1. m.curIdx + 1 \in Nat \ {0}
    BY <1>1
  <2>2. log' = log /\ (msgs' = msgs \/
          msgs' = msgs \cup {AppendEntriesTo(i, m.from, currentTerm[i], m.curIdx + 1,
                                            log[i], commitIdx'[i])})
    BY <1>5 DEF AppendAcknowledged, Resend, Send
  <2>3. \A n \in msgs' : n \in msgs \/ SentFrom(n, log[i])
    BY <1>2, <2>1, <2>2, SentFromLog
  <2> QED BY <2>2, <2>3, LogsStay, NothingNew
<1> QED BY <1>3, <1>4, <1>5 DEF RecvAppendEntriesResponse, logVars

(* A prefix of a log holds what the log holds.                             *)
LEMMA PrefixPlaces ==
  ASSUME NEW l \in Seq(Entry), NEW n \in 0..Len(l)
  PROVE  \A k \in DOMAIN SubSeq(l, 1, n) : Has(l, k, SubSeq(l, 1, n)[k])
<1>1. Len(l) \in Nat /\ DOMAIN l = 1..Len(l)
  BY LenProperties
<1>2. \A k \in 1..n : l[k] \in Entry
  BY <1>1, ElementOfSeq
<1>3. /\ SubSeq(l, 1, n) \in Seq(Entry) /\ Len(SubSeq(l, 1, n)) = n
      /\ \A k \in 1..n : SubSeq(l, 1, n)[k] = l[k]
  BY <1>1, <1>2, SubSeqProperties
<1>4. DOMAIN SubSeq(l, 1, n) = 1..n
  BY <1>3, LenProperties
<1> QED BY <1>1, <1>3, <1>4 DEF Has

(* A merged log holds entries of the old log and of the message, each at   *)
(* the index it had there.                                                 *)
LEMMA MergedPlaces ==
  ASSUME NEW l \in Seq(Entry), NEW m \in AppendEntries, HasPrev(l, m),
         NEW n \in 0..Len(m.entries), MatchesUpTo(l, m, n),
         NEW k \in DOMAIN Merged(l, m, n)
  PROVE  \/ Has(l, k, Merged(l, m, n)[k])
         \/ \E h \in DOMAIN m.entries :
              k = m.prevIdx + h /\ m.entries[h] = Merged(l, m, n)[k]
<1> DEFINE p == m.prevIdx + n
           new == SubSeq(m.entries, n + 1, Len(m.entries))
           kept == SubSeq(l, 1, p)
<1>1. /\ m.entries \in Seq(Entry) /\ Len(m.entries) \in Nat /\ m.prevIdx \in Nat
      /\ DOMAIN m.entries = 1..Len(m.entries) /\ Len(l) \in Nat /\ DOMAIN l = 1..Len(l)
  BY LenProperties DEF AppendEntries
<1>2. p \in 0..Len(l)
  BY <1>1, MergedType
<1>3. CASE n = Len(m.entries)
  BY <1>1, <1>3 DEF Merged, Has
<1>4. CASE n # Len(m.entries)
  <2>1. Merged(l, m, n) = kept \o new
    BY <1>4 DEF Merged
  <2>2. \A h \in n + 1..Len(m.entries) : m.entries[h] \in Entry
    BY <1>1, ElementOfSeq
  <2>3. /\ new \in Seq(Entry) /\ Len(new) = Len(m.entries) - n
        /\ \A h \in 1..Len(m.entries) - n : new[h] = m.entries[n + h]
    BY <1>1, <1>4, <2>2, SubSeqProperties
  <2>4. \A h \in 1..p : l[h] \in Entry
    BY <1>1, <1>2, ElementOfSeq
  <2>5. /\ kept \in Seq(Entry) /\ Len(kept) = p
        /\ \A h \in 1..p : kept[h] = l[h]
    BY <1>2, <2>4, SubSeqProperties
  <2> HIDE DEF kept, new, p
  <2>6. /\ kept \o new \in Seq(Entry) /\ Len(kept \o new) = p + Len(new)
        /\ \A h \in 1..p + Len(new) : (kept \o new)[h] =
             IF h <= p THEN kept[h] ELSE new[h - p]
    BY <2>3, <2>5, ConcatProperties
  <2>7. k \in 1..p + Len(new)
    BY <2>1, <2>6, LenProperties
  <2>8. CASE k <= p
    BY <1>1, <1>2, <2>1, <2>5, <2>6, <2>7, <2>8 DEF Has
  <2>9. CASE k > p
    <3> DEFINE g == k - p
    <3>1. g \in 1..Len(m.entries) - n
      BY <1>1, <1>2, <2>3, <2>7, <2>9
    <3>2. (kept \o new)[k] = new[g]
      BY <1>2, <2>6, <2>7, <2>9
    <3>3. g \in Int /\ k = p + g /\ k \in Int
      BY <1>2, <2>7
    <3> HIDE DEF g
    <3>4. new[g] = m.entries[n + g]
      BY <2>3, <3>1
    <3>5. n + g \in DOMAIN m.entries /\ k = m.prevIdx + (n + g)
      BY <1>1, <3>1, <3>3 DEF p
    <3> QED BY <2>1, <3>2, <3>4, <3>5
  <2> QED BY <1>2, <2>7, <2>8, <2>9
<1> QED BY <1>3, <1>4

LEMMA AppendEntriesPlaces ==
  ASSUME TypeOK, NEW i \in Server, NEW m \in msgs, RecvAppendEntries(i, m)
  PROVE  NoNewPlace
<1>1. m \in AppendEntries /\ m.prevIdx \in Nat /\ m \in Of("AE")
  BY MessageFields DEF RecvAppendEntries, TypeOK, AppendEntries, Of
<1>2. /\ log \in [Server -> Seq(Entry)] /\ log[i] \in Seq(Entry) /\ Len(log[i]) \in Nat
      /\ commitIdx[i] \in Nat
  BY LenProperties DEF TypeOK
<1>3. \A n \in msgs' : n \in msgs \/ n.type # "AE"
  BY DEF RecvAppendEntries, AppendStale, AppendMismatch, AppendMatch, AppendAccept,
         AppendShutdown, AppendReply, Send
<1>4. CASE log' = log
  BY <1>3, <1>4, LogsStay, NothingNew
<1>5. CASE AppendMismatch(i, m) /\ commitIdx[i] < m.prevIdx
  <2> DEFINE n == Lower(m.prevIdx - 1, Len(log[i]))
  <2>1. n \in 0..Len(log[i])
    BY <1>1, <1>2, <1>5 DEF Lower
  <2>2. log' = [log EXCEPT ![i] = SubSeq(@, 1, n)]
    BY <1>5 DEF AppendMismatch
  <2> HIDE DEF n
  <2>3. \A k \in DOMAIN SubSeq(log[i], 1, n) : Has(log[i], k, SubSeq(log[i], 1, n)[k])
    BY <1>2, <2>1, PrefixPlaces
  <2>4. \A j \in Server : \A k \in DOMAIN log'[j] : Placed(k, log'[j][k])
    BY <1>2, <2>2, <2>3 DEF Placed, Has
  <2> QED BY <1>3, <2>4, NothingNew
<1>6. CASE AppendMatch(i, m) /\ log' # log
  <2>1. PICK n \in 0..Len(m.entries) :
          /\ HasPrev(log[i], m) /\ MatchesUpTo(log[i], m, n)
          /\ log' = [log EXCEPT ![i] = Merged(@, m, n)]
    BY <1>6 DEF AppendMatch, AppendAccept, AppendShutdown, logVars
  <2>2. \A k \in DOMAIN Merged(log[i], m, n) : Placed(k, Merged(log[i], m, n)[k])
    BY <1>1, <1>2, <2>1, MergedPlaces DEF Placed
  <2>3. \A j \in Server : \A k \in DOMAIN log'[j] : Placed(k, log'[j][k])
    BY <1>2, <2>1, <2>2 DEF Placed, Has
  <2> QED BY <1>3, <2>3, NothingNew
<1>7. log' = log \/ AppendMismatch(i, m) \/ AppendMatch(i, m)
  BY DEF RecvAppendEntries, AppendStale, logVars
<1>8. AppendMismatch(i, m) /\ ~(commitIdx[i] < m.prevIdx) => log' = log
  BY <1>2 DEF AppendMismatch
<1> QED BY <1>4, <1>5, <1>6, <1>7, <1>8

LEMMA FormPlaces ==
  ASSUME TypeOK, NEW i \in Server, FormCluster(i)
  PROVE  NoNewPlace
<1>1. i # Designated
  BY RoundAssumption, ServerAssumption
<1> QED BY <1>1, LogsStay, NothingNew DEF FormCluster, logVars

(* raft_recv_entry: the one step that places a new entry.                  *)
LEMMA RecvEntryPlaces ==
  ASSUME TypeOK, NEW i \in Server, RecvEntry(i)
  PROVE  \A k, e : Placed(k, e)' =>
           \/ Placed(k, e)
           \/ k = Len(log[i]) + 1 /\ e = [term |-> currentTerm[i], owner |-> i]
<1> DEFINE e0 == [term |-> currentTerm[i], owner |-> i]
           new == Append(log[i], e0)
           cur == Len(log[i]) + 1
<1>1. /\ log \in [Server -> Seq(Entry)] /\ log[i] \in Seq(Entry) /\ Len(log[i]) \in Nat
      /\ DOMAIN log[i] = 1..Len(log[i]) /\ e0 \in Entry
  BY LenProperties DEF TypeOK, Entry
<1> HIDE DEF e0
<1>2. /\ new \in Seq(Entry) /\ Len(new) = cur /\ new[cur] = e0
      /\ \A h \in 1..Len(log[i]) : new[h] = log[i][h]
  BY <1>1, AppendProperties
<1>3. DOMAIN new = 1..cur
  BY <1>2, LenProperties
<1> HIDE DEF new
<1>4. \A k \in DOMAIN new : Has(log[i], k, new[k]) \/ (k = cur /\ new[k] = e0)
  BY <1>1, <1>2, <1>3 DEF Has
<1>5. /\ log' = [log EXCEPT ![i] = new]
      /\ \A m \in msgs' : m \in msgs \/ \E j :
           m = AppendEntriesTo(i, j, currentTerm[i], cur, new, commitIdx[i])
  BY <1>2 DEF RecvEntry, Send, new, e0
<1>6. \A m \in msgs' : m \in msgs \/ SentFrom(m, new)
  BY <1>1, <1>2, <1>5, SentFromLog
<1> SUFFICES ASSUME NEW k, NEW e, Placed(k, e)'
             PROVE  Placed(k, e) \/ (k = cur /\ e = e0)
  BY DEF e0
<1>7. CASE \E j \in Server : Has(log'[j], k, e)
  BY <1>1, <1>4, <1>5, <1>7 DEF Has, Placed
<1>8. CASE \E m \in Of("AE")' : \E h \in DOMAIN m.entries :
             k = m.prevIdx + h /\ m.entries[h] = e
  <2>1. PICK m \in msgs' : /\ m.type = "AE"
                          /\ \E h \in DOMAIN m.entries : k = m.prevIdx + h /\ m.entries[h] = e
    BY <1>8 DEF Of
  <2>2. CASE m \in msgs
    BY <2>1, <2>2 DEF Placed, Of
  <2>3. CASE SentFrom(m, new)
    <3>1. Has(new, k, e)
      BY <2>1, <2>3 DEF SentFrom
    <3> QED BY <1>4, <3>1 DEF Has, Placed
  <2> QED BY <1>6, <2>1, <2>2, <2>3
<1> QED BY <1>7, <1>8 DEF Placed

-----------------------------------------------------------------------------
(* One schedule each *)

(* Nobody has an entry without having proposed, and all the places of a    *)
(* vehicle's entries are copies of one.                                    *)
OwnersProposed == \A k, e : Placed(k, e) => e.owner \in proposed
OnePlace ==
  \A k1, e1, k2, e2 :
    Placed(k1, e1) /\ Placed(k2, e2) /\ e1.owner = e2.owner => k1 = k2 /\ e1 = e2

PlaceInv == OwnersProposed /\ OnePlace

(* A step that places nothing new.                                         *)
LEMMA PlacesStay ==
  ASSUME PlaceInv, NoNewPlace, proposed \subseteq proposed'
  PROVE  PlaceInv'
<1>1. \A k, e : Placed(k, e)' => Placed(k, e)
  BY DEF NoNewPlace
<1>2. OwnersProposed'
  <2> SUFFICES ASSUME NEW k, NEW e, Placed(k, e)' PROVE e.owner \in proposed'
    BY DEF OwnersProposed
  <2>1. Placed(k, e)
    BY <1>1
  <2> QED BY <2>1 DEF PlaceInv, OwnersProposed
<1>3. OnePlace'
  <2> SUFFICES ASSUME NEW k1, NEW e1, NEW k2, NEW e2,
                      Placed(k1, e1)', Placed(k2, e2)', e1.owner = e2.owner
               PROVE  k1 = k2 /\ e1 = e2
    BY DEF OnePlace
  <2>1. Placed(k1, e1) /\ Placed(k2, e2)
    BY <1>1
  <2> QED BY <2>1 DEF PlaceInv, OnePlace
<1> QED BY <1>2, <1>3 DEF PlaceInv

LEMMA RaftStaysPlaces ==
  ASSUME UNCHANGED vars
  PROVE  NoNewPlace
  BY DEF NoNewPlace, Placed, Has, Of, vars, logVars

(* proposePassOrder places an entry of a vehicle that had none.            *)
LEMMA ProposingPlaces ==
  ASSUME TypeOK, PlaceInv, NEW i \in Server, ProposePassOrder(i)
  PROVE  PlaceInv'
<1>1. CASE UNCHANGED vars /\ proposed \subseteq proposed'
  BY <1>1, RaftStaysPlaces, PlacesStay
<1>2. CASE MayPropose(i) /\ RecvEntry(i)
  <2> DEFINE e0 == [term |-> currentTerm[i], owner |-> i]
             cur == Len(log[i]) + 1
  <2>1. i \notin proposed /\ proposed' = proposed \cup {i}
    BY <1>2 DEF ProposePassOrder, MayPropose
  <2>2. \A k, e : Placed(k, e)' => Placed(k, e) \/ (k = cur /\ e = e0)
    BY <1>2, RecvEntryPlaces
  <2>3. e0.owner = i
    OBVIOUS
  <2>4. \A k, e : Placed(k, e) => e.owner \in proposed /\ e.owner # i
    BY <2>1 DEF PlaceInv, OwnersProposed
  <2> HIDE DEF e0, cur
  <2>5. OwnersProposed'
    <3> SUFFICES ASSUME NEW k, NEW e, Placed(k, e)' PROVE e.owner \in proposed'
      BY DEF OwnersProposed
    <3>1. Placed(k, e) \/ (k = cur /\ e = e0)
      BY <2>2
    <3> QED BY <2>1, <2>3, <2>4, <3>1
  <2>6. OnePlace'
    <3> SUFFICES ASSUME NEW k1, NEW e1, NEW k2, NEW e2,
                        Placed(k1, e1)', Placed(k2, e2)', e1.owner = e2.owner
                 PROVE  k1 = k2 /\ e1 = e2
      BY DEF OnePlace
    <3>1. /\ Placed(k1, e1) \/ (k1 = cur /\ e1 = e0)
          /\ Placed(k2, e2) \/ (k2 = cur /\ e2 = e0)
      BY <2>2
    <3>2. CASE Placed(k1, e1) /\ Placed(k2, e2)
      BY <3>2 DEF PlaceInv, OnePlace
    <3>3. CASE ~(Placed(k1, e1) /\ Placed(k2, e2))
      BY <2>3, <2>4, <3>1, <3>3
    <3> QED BY <3>2, <3>3
  <2> QED BY <2>5, <2>6 DEF PlaceInv
<1> QED BY <1>1, <1>2 DEF ProposePassOrder, vars

LEMMA PlacesInit == RoundInit => PlaceInv
<1> SUFFICES ASSUME RoundInit PROVE PlaceInv
  OBVIOUS
<1>1. \A k, e : ~Placed(k, e)
  BY DEF RoundInit, Init, Placed, Has, Of
<1> QED BY <1>1 DEF PlaceInv, OwnersProposed, OnePlace

LEMMA PlacesNext ==
  ASSUME TypeOK, PlaceInv, [RoundNext]_roundVars
  PROVE  PlaceInv'
<1>1. CASE UNCHANGED roundVars
  BY <1>1, RaftStaysPlaces, PlacesStay DEF roundVars, appVars
<1>2. ASSUME NEW i \in Server, ProcessRaftPeriodic(i) PROVE PlaceInv'
  <2>1. NoNewPlace
    BY <1>2, PeriodicPlaces, RaftStaysPlaces DEF ProcessRaftPeriodic, PeriodicNothing
  <2> QED BY <1>2, <2>1, PlacesStay DEF ProcessRaftPeriodic
<1>3. ASSUME NEW i \in Server, RaftFrame(i) PROVE PlaceInv'
  <2>1. NoNewPlace
    BY <1>3, FormPlaces, VotePlaces, AppendEntriesPlaces, AcknowledgementPlaces DEF RaftFrame
  <2> QED BY <1>3, <2>1, PlacesStay DEF RaftFrame, appVars
<1>4. ASSUME NEW i \in Server, NEW j \in Server, HandleStatusRequest(i, j) PROVE PlaceInv'
  BY <1>4, RaftStaysPlaces, PlacesStay DEF HandleStatusRequest
<1>5. ASSUME NEW i \in Server, NEW j \in Server, HandleDbResponse(i, j) PROVE PlaceInv'
  <2>1. ProposePassOrder(i) \/ UNCHANGED <<proposed, vars>>
    BY <1>5 DEF HandleDbResponse
  <2> QED BY <2>1, ProposingPlaces, RaftStaysPlaces, PlacesStay
<1>6. ASSUME NEW i \in Server, StatusDeadline(i) PROVE PlaceInv'
  <2>1. ProposePassOrder(i) \/ UNCHANGED <<proposed, vars>>
    BY <1>6 DEF StatusDeadline
  <2> QED BY <2>1, ProposingPlaces, RaftStaysPlaces, PlacesStay
<1>7. ASSUME NEW i \in Server, HandlePassOrderBroadcast(i) PROVE PlaceInv'
  BY <1>7, RaftStaysPlaces, PlacesStay DEF HandlePassOrderBroadcast
<1>8. ASSUME NEW i \in Server, MarkLeft(i) PROVE PlaceInv'
  <2>1. NoNewPlace
    BY <1>8, LogsStay, NothingNew DEF MarkLeft, MarkInactive, logVars
  <2> QED BY <1>8, <2>1, PlacesStay DEF MarkLeft, appVars
<1> QED BY <1>1, <1>2, <1>3, <1>4, <1>5, <1>6, <1>7, <1>8 DEF RoundNext

(* passOrderProposed_ does what it is for: over all changes of leadership,  *)
(* whatever logs hold of a vehicle is one schedule at one index.           *)
THEOREM OneProposalEachHolds == RoundSpec => []OneProposalEach
<1>1. OnePlace => OneProposalEach
  <2> SUFFICES ASSUME OnePlace, NEW i \in Server,
                      NEW x \in OwnEntries(i), NEW y \in OwnEntries(i)
               PROVE  x = y
    BY DEF OneProposalEach
  <2>1. PICK j \in Server : \E k \in DOMAIN log[j] :
          x = <<k, log[j][k]>> /\ log[j][k].owner = i
    BY DEF OwnEntries
  <2>2. PICK k \in DOMAIN log[j] : x = <<k, log[j][k]>> /\ log[j][k].owner = i
    BY <2>1
  <2>4. PICK h \in Server : \E g \in DOMAIN log[h] :
          y = <<g, log[h][g]>> /\ log[h][g].owner = i
    BY DEF OwnEntries
  <2>5. PICK g \in DOMAIN log[h] : y = <<g, log[h][g]>> /\ log[h][g].owner = i
    BY <2>4
  <2>3. Placed(k, log[j][k]) /\ Placed(g, log[h][g])
    BY DEF Placed, Has
  <2> QED BY <2>2, <2>3, <2>5 DEF OnePlace
<1>2. PlaceInv => OneProposalEach
  BY <1>1 DEF PlaceInv
<1> QED BY <1>2, PlacesInit, PlacesNext, RoundTypes, PTL DEF RoundSpec

-----------------------------------------------------------------------------
(* A leader done proposing has proposed in its term *)

(* Vehicle i has sent an AppendEntries: it has led.                        *)
HasLed(i) == \E m \in Of("AE") : m.from = i

(* Leaders have said so to the others.  Who believes to lead, or has        *)
(* proposed, has led.                                                      *)
LeadersSpoke ==
  \A i \in Server : state[i] = "Leader" =>
    \E m \in Of("AE") : m.from = i /\ m.term = currentTerm[i]
BelieversLed == \A i \in isLeader \cup proposed : HasLed(i)
ProposersSubmitted ==
  \A i \in proposed :
    state[i] = "Leader" /\ ~LedBefore(i) => ProposalIn(log[i], i, currentTerm[i])
SubmitInv == LeadersSpoke /\ BelieversLed /\ ProposersSubmitted

(* What LibRaftProof shows of a round's raft.                              *)
RaftInv == TypeOK /\ ElectionInv /\ LogInv

LEMMA NobodyIsAlone == Designated = None /\ \A j \in Server : Server # {j}
<1>1. \A j : Cardinality({j}) = 1
  BY FS_Singleton
<1> QED BY <1>1, RoundAssumption

LEMMA RoundRaftInv ==
  ASSUME AtMostOneLeaves
  PROVE  RoundSpec => []RaftInv
<1>1. Designated = None /\ \A j \in Server : Server # {j}
  BY NobodyIsAlone
<1>2. Spec => [](TypeOK /\ ElectionInv)
  BY <1>1, ElectionInvariant
<1>3. Spec => []LogInv
  BY <1>1, LogInvHolds
<1>4. TypeOK /\ ElectionInv /\ LogInv => RaftInv
  BY DEF RaftInv
<1> QED BY <1>2, <1>3, <1>4, RoundIsRaft, PTL

(* Whoever becomes leader does so by raft_become_leader.                   *)
LEMMA LeadersAreMade ==
  ASSUME AtMostOneLeaves, RaftInv, TypeOK', Next,
         NEW k \in Server, state[k] # "Leader", state'[k] = "Leader"
  PROVE  BecomeLeader(k, currentTerm[k])
<1>1. state \in [Server -> {"Follower", "Candidate", "Leader"}] /\ TypeOK
  BY DEF RaftInv, TypeOK
<1>2. ASSUME NEW i \in Server, FormCluster(i) PROVE state' = state
  <2>1. i # Designated
    BY ServerAssumption, RoundAssumption
  <2> QED BY <1>2, <2>1 DEF FormCluster
<1>3. ASSUME NEW i \in Server, NEW j \in Server, MarkInactive(i, j) PROVE state' = state
  BY <1>3 DEF MarkInactive, electionVars
<1>4. ASSUME NEW i \in Server, Periodic(i) PROVE FALSE
  <2>1. CASE PeriodicOnlyVoter(i)
    <3>1. {i} \in Views
      BY <2>1 DEF PeriodicOnlyVoter, OnlyVoter, RaftInv, ElectionInv, ViewsHeld
    <3> QED BY <3>1, LastVoterIsAlone, NobodyIsAlone
  <2>2. CASE PeriodicElection(i)
    BY <1>1, <2>2 DEF PeriodicElection
  <2>3. CASE PeriodicHeartbeat(i)
    BY <2>3 DEF PeriodicHeartbeat, electionVars
  <2>4. CASE PeriodicIdle(i)
    BY <2>4 DEF PeriodicIdle, electionVars
  <2> QED BY <1>4, <2>1, <2>2, <2>3, <2>4 DEF Periodic
<1>5. ASSUME NEW i \in Server, RecvEntry(i) PROVE state' = state
  BY <1>5 DEF RecvEntry, electionVars
<1>6. ASSUME NEW i \in Server, NEW m \in msgs, RecvRequestVote(i, m) PROVE FALSE
  BY <1>1, <1>6 DEF RecvRequestVote, RefuseForLeader, ConsiderVote, electionVars
<1>7. ASSUME NEW i \in Server, NEW m \in msgs, RecvRequestVoteResponse(i, m)
      PROVE  BecomeLeader(k, currentTerm[k])
  <2>1. CASE StepDown(i, m.term, None)
    BY <1>1, <2>1 DEF StepDown
  <2>2. CASE CountVote(i, m)
    <3>1. CASE BecomeLeader(i, currentTerm[i])
      <4>1. k = i
        BY <1>1, <3>1 DEF BecomeLeader
      <4> QED BY <3>1, <4>1
    <3>2. CASE state' = state
      BY <3>2
    <3> QED BY <2>2, <3>1, <3>2 DEF CountVote
  <2> QED BY <1>7, <2>1, <2>2 DEF RecvRequestVoteResponse
<1>8. ASSUME NEW i \in Server, NEW m \in msgs, RecvAppendEntries(i, m) PROVE FALSE
  <2>1. state' = state \/ FollowLeader(i, m)
    BY <1>8 DEF RecvAppendEntries, AppendStale, AppendMismatch, AppendMatch, electionVars
  <2> QED BY <1>1, <2>1 DEF FollowLeader
<1>9. ASSUME NEW i \in Server, NEW m \in msgs, RecvAppendEntriesResponse(i, m) PROVE FALSE
  <2>1. state' = state \/ StepDown(i, m.term, None)
    BY <1>9 DEF RecvAppendEntriesResponse, AppendRefused, AppendAcknowledged, electionVars
  <2> QED BY <1>1, <2>1 DEF StepDown
<1> QED BY <1>2, <1>3, <1>4, <1>5, <1>6, <1>7, <1>8, <1>9 DEF Next

(* A leader's log only grows.                                              *)
LEMMA LeadersKeep ==
  ASSUME AtMostOneLeaves, RaftInv, TypeOK', Next,
         NEW k \in Server, state'[k] = "Leader", NEW h \in DOMAIN log[k]
  PROVE  h \in DOMAIN log'[k] /\ log'[k][h] = log[k][h]
<1>1. /\ log \in [Server -> Seq(Entry)] /\ log[k] \in Seq(Entry) /\ TypeOK
      /\ state \in [Server -> {"Follower", "Candidate", "Leader"}]
      /\ ElectionInv /\ LogInv
  BY DEF RaftInv, TypeOK
<1>2. ASSUME NEW i \in Server, FormCluster(i) PROVE log' = log
  BY <1>2 DEF FormCluster, logVars
<1>3. ASSUME NEW i \in Server, NEW j \in Server, MarkInactive(i, j) PROVE log' = log
  BY <1>3 DEF MarkInactive, logVars
<1>4. ASSUME NEW i \in Server, Periodic(i) PROVE log' = log
  BY <1>4 DEF Periodic, PeriodicOnlyVoter, PeriodicElection, PeriodicHeartbeat, PeriodicIdle
<1>5. ASSUME NEW i \in Server, RecvEntry(i)
      PROVE  h \in DOMAIN log'[k] /\ log'[k][h] = log[k][h]
  <2> DEFINE e == [term |-> currentTerm[i], owner |-> i]
  <2>1. log' = [log EXCEPT ![i] = Append(log[i], e)] /\ e \in Entry /\ log[i] \in Seq(Entry)
    BY <1>5 DEF RecvEntry, RaftInv, TypeOK, Entry
  <2> HIDE DEF e
  <2>2. /\ Append(log[i], e) \in Seq(Entry) /\ Len(Append(log[i], e)) = Len(log[i]) + 1
        /\ \A p \in 1..Len(log[i]) : Append(log[i], e)[p] = log[i][p]
    BY <2>1, AppendProperties
  <2>3. /\ DOMAIN log[i] = 1..Len(log[i]) /\ Len(log[i]) \in Nat
        /\ DOMAIN Append(log[i], e) = 1..Len(log[i]) + 1
    BY <2>1, <2>2, LenProperties
  <2>4. CASE k = i
    BY <1>1, <2>1, <2>2, <2>3, <2>4
  <2>5. CASE k # i
    BY <1>1, <2>1, <2>5
  <2> QED BY <2>4, <2>5
<1>6. ASSUME NEW i \in Server, NEW m \in msgs,
             RecvRequestVote(i, m) \/ RecvRequestVoteResponse(i, m)
      PROVE  log' = log
  BY <1>6 DEF RecvRequestVote, RefuseForLeader, ConsiderVote, RecvRequestVoteResponse, CountVote,
              logVars
<1>7. ASSUME NEW i \in Server, NEW m \in msgs, RecvAppendEntries(i, m)
      PROVE  log'[k] = log[k]
  <2>1. m \in Of("AE") /\ m.to = i
    BY <1>7 DEF RecvAppendEntries, Of
  <2>2. log' = log \/ (FollowLeader(i, m) /\ \E l : log' = [log EXCEPT ![i] = l])
    BY <1>7 DEF RecvAppendEntries, AppendStale, AppendMismatch, AppendMatch, AppendAccept,
                AppendShutdown, logVars
  <2>3. CASE k # i
    BY <1>1, <2>2, <2>3
  <2>4. CASE k = i /\ FollowLeader(i, m)
    <3>1. state[i] = "Leader" /\ currentTerm[i] = m.term
      <4>1. ~(currentTerm[i] < m.term) /\ state[i] = "Leader"
        BY <1>1, <2>4 DEF FollowLeader
      <4>2. currentTerm[i] <= m.term /\ currentTerm[i] \in Nat
        BY <1>1, <2>4 DEF FollowLeader, TypeOK
      <4>3. m.term \in Nat
        BY <1>1, <2>1, RunsAreRuns DEF AppendEntries
      <4> QED BY <4>1, <4>2, <4>3
    <3> QED BY <1>1, <2>1, <3>1, NotOwnTerm
  <2> QED BY <2>2, <2>3, <2>4
<1>8. ASSUME NEW i \in Server, NEW m \in msgs, RecvAppendEntriesResponse(i, m)
      PROVE  log' = log
  BY <1>8 DEF RecvAppendEntriesResponse, AppendRefused, AppendAcknowledged, logVars
<1> QED BY <1>2, <1>3, <1>4, <1>5, <1>6, <1>7, <1>8 DEF Next

(* Whoever was made leader has told somebody of it.                        *)
LEMMA NewLeadersSpeak ==
  ASSUME AtMostOneLeaves, RaftInv, NEW k \in Server, BecomeLeader(k, currentTerm[k])
  PROVE  \E m \in Of("AE")' : m.from = k /\ m.term = currentTerm[k]
<1>1. Peers(k) # {}
  <2>1. active[k] \in Views /\ k \in active[k]
    BY DEF RaftInv, ElectionInv, ViewsHeld
  <2>2. active[k] # {k}
    BY <2>1, LastVoterIsAlone, NobodyIsAlone
  <2> QED BY <2>1, <2>2 DEF Peers
<1>2. PICK j : j \in Peers(k)
  BY <1>1
<1> DEFINE m == AppendEntriesTo(k, j, currentTerm[k], Len(log[k]) + 1, log[k], commitIdx[k])
<1>3. m \in msgs'
  BY <1>2 DEF BecomeLeader, Send
<1>4. m.type = "AE" /\ m.from = k /\ m.term = currentTerm[k]
  BY DEF AppendEntriesTo
<1> HIDE DEF m
<1> QED BY <1>3, <1>4 DEF Of

(* Who has led before, in whatever term, is in a new one when it leads     *)
(* again.                                                                  *)
LEMMA LeadsAgain ==
  ASSUME RaftInv, NEW k \in Server, HasLed(k), state[k] = "Candidate",
         currentTerm'[k] = currentTerm[k], msgs \subseteq msgs'
  PROVE  LedBefore(k)'
<1>1. PICK m \in Of("AE") : m.from = k
  BY DEF HasLed
<1>2. Led(k, m.term)
  BY <1>1 DEF RaftInv, LogInv, SendersLed
<1>3. m.term \in Nat /\ currentTerm[k] \in Nat
  <2>1. m \in AppendEntries
    BY RunsAreRuns DEF RaftInv
  <2> QED BY <2>1 DEF AppendEntries, RaftInv, TypeOK
<1>4. m.term < currentTerm[k]
  BY <1>2, <1>3 DEF Led
<1>5. m \in Of("AE")'
  BY DEF Of
<1> QED BY <1>1, <1>4, <1>5 DEF LedBefore

(* What a step of raft leaves alone.                                       *)
LEMMA RaftKeeps ==
  ASSUME AtMostOneLeaves, RaftInv, TypeOK', [Next]_vars, LeadersSpoke
  PROVE  /\ LeadersSpoke'
         /\ \A k \in Server : HasLed(k) => HasLed(k)'
         /\ \A k \in Server :
              /\ HasLed(k) /\ state'[k] = "Leader" /\ ~LedBefore(k)'
              /\ state[k] = "Leader" /\ ~LedBefore(k) => ProposalIn(log[k], k, currentTerm[k])
              => ProposalIn(log'[k], k, currentTerm'[k])
<1>1. CASE UNCHANGED vars
  BY <1>1 DEF vars, electionVars, logVars, LeadersSpoke, HasLed, LedBefore, Of
<1>2. CASE Next
  <2>1. GoodStep /\ Designated = None /\ \A j \in Server : Server # {j}
    BY <1>2, NobodyIsAlone, EveryStepGood DEF RaftInv
  <2>2. msgs \subseteq msgs' /\ RolesStep
    BY <2>1 DEF GoodStep, TermsMove
  <2>3. \A m \in Of("AE") : m \in Of("AE")'
    BY <2>2 DEF Of
  <2>4. LeadersSpoke'
    <3> SUFFICES ASSUME NEW k \in Server, state'[k] = "Leader"
                 PROVE  \E m \in Of("AE")' : m.from = k /\ m.term = currentTerm'[k]
      BY DEF LeadersSpoke
    <3>1. currentTerm'[k] = currentTerm[k]
      BY <2>2 DEF RolesStep
    <3>2. CASE state[k] = "Leader"
      BY <2>3, <3>1, <3>2 DEF LeadersSpoke
    <3>3. CASE state[k] # "Leader"
      BY <1>2, <3>1, <3>3, LeadersAreMade, NewLeadersSpeak
    <3> QED BY <3>2, <3>3
  <2>5. ASSUME NEW k \in Server, HasLed(k), state'[k] = "Leader", ~LedBefore(k)',
               state[k] = "Leader" /\ ~LedBefore(k) => ProposalIn(log[k], k, currentTerm[k])
        PROVE  ProposalIn(log'[k], k, currentTerm'[k])
    <3>1. /\ currentTerm'[k] = currentTerm[k]
          /\ state[k] \in {"Candidate", "Leader"}
      BY <2>2, <2>5 DEF RolesStep
    <3>2. state[k] # "Candidate"
      BY <2>2, <2>5, <3>1, LeadsAgain
    <3>3. ~LedBefore(k)
      BY <2>3, <2>5, <3>1 DEF LedBefore
    <3>4. PICK h \in DOMAIN log[k] : log[k][h] = [term |-> currentTerm[k], owner |-> k]
      BY <2>5, <3>1, <3>2, <3>3 DEF ProposalIn
    <3>5. h \in DOMAIN log'[k] /\ log'[k][h] = log[k][h]
      BY <1>2, <2>5, LeadersKeep
    <3> QED BY <3>1, <3>4, <3>5 DEF ProposalIn
  <2>6. \A k \in Server : HasLed(k) => HasLed(k)'
    BY <2>3 DEF HasLed
  <2> QED BY <2>4, <2>5, <2>6
<1> QED BY <1>1, <1>2

(* proposePassOrder, of a leader: raft takes the schedule, in its term, or  *)
(* the vehicle leads no more.                                              *)
LEMMA ProposingSubmits ==
  ASSUME RaftInv, NEW i \in Server, ProposePassOrder(i), i \in proposed' \ proposed,
         state'[i] = "Leader"
  PROVE  ProposalIn(log'[i], i, currentTerm'[i])
<1>1. RecvEntry(i)
  BY DEF ProposePassOrder, vars, electionVars
<1> DEFINE e == [term |-> currentTerm[i], owner |-> i]
<1>2. /\ log' = [log EXCEPT ![i] = Append(log[i], e)] /\ currentTerm' = currentTerm
      /\ e \in Entry /\ log[i] \in Seq(Entry) /\ log \in [Server -> Seq(Entry)]
  BY <1>1 DEF RecvEntry, electionVars, RaftInv, TypeOK, Entry
<1> HIDE DEF e
<1>3. /\ Append(log[i], e) \in Seq(Entry) /\ Len(Append(log[i], e)) = Len(log[i]) + 1
      /\ Append(log[i], e)[Len(log[i]) + 1] = e
  BY <1>2, AppendProperties
<1>4. Len(log[i]) + 1 \in DOMAIN Append(log[i], e)
  BY <1>2, <1>3, LenProperties
<1>5. log'[i] = Append(log[i], e) /\ e = [term |-> currentTerm'[i], owner |-> i]
  BY <1>2 DEF e
<1> QED BY <1>3, <1>4, <1>5 DEF ProposalIn

(* What a step of a round does to the flags.                               *)
LEMMA FlagsMove ==
  ASSUME RoundTypeOK, [RoundNext]_roundVars
  PROVE  /\ \A k \in isLeader' : k \in isLeader \/ (k \in Server /\ state'[k] = "Leader")
         /\ \A k \in proposed' : k \in proposed \/ (k \in isLeader /\ ProposePassOrder(k))
<1>1. CASE UNCHANGED roundVars
  BY <1>1 DEF roundVars, appVars
<1>2. ASSUME NEW i \in Server, ProcessRaftPeriodic(i)
      PROVE  /\ proposed' = proposed
             /\ \A k \in isLeader' : k \in isLeader \/ (k = i /\ state'[k] = "Leader")
  BY <1>2 DEF ProcessRaftPeriodic, CheckLeadershipChange, BecameLeader, LostLeadership, Leads
<1>3. ASSUME NEW i \in Server, RaftFrame(i) \/ MarkLeft(i) \/ HandlePassOrderBroadcast(i)
      PROVE  UNCHANGED <<isLeader, proposed>>
  BY <1>3 DEF RaftFrame, MarkLeft, HandlePassOrderBroadcast, appVars
<1>4. ASSUME NEW i \in Server, NEW j \in Server, HandleStatusRequest(i, j)
      PROVE  UNCHANGED <<isLeader, proposed>>
  BY <1>4 DEF HandleStatusRequest
<1>5. ASSUME NEW i \in Server, ProposePassOrder(i)
      PROVE  \A k \in proposed' : k \in proposed \/ (k = i /\ i \in isLeader)
  BY <1>5 DEF ProposePassOrder, MayPropose
<1>6. ASSUME NEW i \in Server, NEW j \in Server, HandleDbResponse(i, j)
      PROVE  UNCHANGED isLeader /\ (proposed' = proposed \/ ProposePassOrder(i))
  BY <1>6 DEF HandleDbResponse
<1>7. ASSUME NEW i \in Server, StatusDeadline(i)
      PROVE  UNCHANGED isLeader /\ (proposed' = proposed \/ ProposePassOrder(i))
  BY <1>7 DEF StatusDeadline
<1> QED BY <1>1, <1>2, <1>3, <1>4, <1>5, <1>6, <1>7 DEF RoundNext

LEMMA SubmitNext ==
  ASSUME AtMostOneLeaves, RaftInv, TypeOK', RoundTypeOK, SubmitInv, [RoundNext]_roundVars
  PROVE  SubmitInv'
<1>1. [Next]_vars /\ LeadersSpoke
  BY StepIsRaft DEF SubmitInv
<1>2. /\ LeadersSpoke'
      /\ \A k \in Server : HasLed(k) => HasLed(k)'
  BY <1>1, RaftKeeps
<1>3. isLeader \subseteq Server /\ proposed \subseteq Server
  BY DEF RoundTypeOK
<1>4. /\ \A k \in isLeader' : k \in isLeader \/ (k \in Server /\ state'[k] = "Leader")
      /\ \A k \in proposed' : k \in proposed \/ (k \in isLeader /\ ProposePassOrder(k))
  BY FlagsMove
<1>5. BelieversLed'
  <2> SUFFICES ASSUME NEW k \in isLeader' \cup proposed' PROVE HasLed(k)'
    BY DEF BelieversLed
  <2>1. CASE k \in isLeader \cup proposed
    BY <1>2, <1>3, <2>1 DEF SubmitInv, BelieversLed
  <2>2. CASE k \in Server /\ state'[k] = "Leader"
    BY <1>2, <2>2 DEF LeadersSpoke, HasLed
  <2> QED BY <1>4, <2>1, <2>2
<1>6. ProposersSubmitted'
  <2> SUFFICES ASSUME NEW k \in proposed', state'[k] = "Leader", ~LedBefore(k)'
               PROVE  ProposalIn(log'[k], k, currentTerm'[k])
    BY DEF ProposersSubmitted
  <2>1. CASE k \in proposed
    <3>1. HasLed(k) /\ k \in Server
      BY <1>3, <2>1 DEF SubmitInv, BelieversLed
    <3>2. state[k] = "Leader" /\ ~LedBefore(k) => ProposalIn(log[k], k, currentTerm[k])
      BY <2>1 DEF SubmitInv, ProposersSubmitted
    <3> QED BY <1>1, <3>1, <3>2, RaftKeeps
  <2>2. CASE k \notin proposed
    <3>1. k \in Server /\ ProposePassOrder(k) /\ k \in proposed' \ proposed
      BY <1>3, <1>4, <2>2
    <3> QED BY <3>1, ProposingSubmits
  <2> QED BY <2>1, <2>2
<1> QED BY <1>2, <1>5, <1>6 DEF SubmitInv

(* A vehicle that leads for the first time and is done proposing has a     *)
(* schedule of this very term in its log, whatever frames came in between  *)
(* and although raft is asked only after passOrderProposed_ is set.        *)
THEOREM FirstLeadersSubmit ==
  ASSUME AtMostOneLeaves
  PROVE  RoundSpec => []ProposalSubmitted
<1>1. RoundInit => SubmitInv
  BY DEF RoundInit, Init, SubmitInv, LeadersSpoke, BelieversLed, ProposersSubmitted
<1>2. RaftInv /\ RaftInv' /\ RoundTypeOK /\ SubmitInv /\ [RoundNext]_roundVars => SubmitInv'
  BY SubmitNext DEF RaftInv
<1>3. SubmitInv => ProposalSubmitted
  BY DEF SubmitInv, ProposersSubmitted, ProposalSubmitted
<1> QED BY <1>1, <1>2, <1>3, RoundRaftInv, RoundTypesHold, PTL DEF RoundSpec
=============================================================================
