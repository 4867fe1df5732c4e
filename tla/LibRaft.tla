------------------------------ MODULE LibRaft ------------------------------
(***************************************************************************)
(* The consensus core of the benchmark: lib/raft/raft_server.c as the      *)
(* vehicles drive it (src/raft/RaftCore.cc, RaftDiscovery.cc and the       *)
(* transports).  Each server is the raft_server_t of one vehicle.  A       *)
(* vehicle runs on one event loop, so every callback, with all the calls   *)
(* it makes, is one atomic step; vehicles interleave freely.               *)
(*                                                                         *)
(* Messages are broadcast frames over a lossy radio channel.  msgs holds   *)
(* every message ever sent; a step may handle any of them, at any time and *)
(* any number of times, or never: loss, delay, reordering and duplication. *)
(*                                                                         *)
(* Time is left out.  A timer of raft_periodic may find its interval       *)
(* elapsed or not on any tick, and "timeout_elapsed < election_timeout" in *)
(* raft_recv_requestvote may read either way.  HeartbeatTiming models the  *)
(* timers themselves.                                                      *)
(***************************************************************************)
EXTENDS Integers, Sequences, FiniteSets

CONSTANTS
  Server,       \* the vehicles of one cluster, each with its raft_server_t
  None,         \* no vote (voted_for = -1), no leader (current_leader = NULL)
  Designated,   \* "allVehicles" mode: the member with the lowest id; else None
  MayLeave,     \* vehicles the others may mark inactive while raft runs
  MaxTerm,      \* bound: no election is started beyond this term
  MaxLog        \* bound: no leader appends beyond this log length

ASSUME ServerAssumption ==
  /\ IsFiniteSet(Server)
  /\ None \notin Server
  /\ Designated \in Server \cup {None}
  /\ MayLeave \subseteq Server

ASSUME BoundAssumption == MaxTerm \in Nat /\ MaxLog \in Nat

VARIABLES
  formed,         \* the vehicles that have a raft_server_t
  active,         \* active[i]: the nodes i has not marked inactive
  currentTerm,    \* current_term
  votedFor,       \* voted_for
  state,          \* state
  currentLeader,  \* current_leader
  voteForMe,      \* voteForMe[i]: the nodes with RAFT_NODE_VOTED_FOR_ME at i
  log,            \* the entries, oldest first
  commitIdx,      \* commit_idx
  lastApplied,    \* last_applied_idx
  nextIdx,        \* nextIdx[i][j]: next_idx of node j at i
  matchIdx,       \* matchIdx[i][j]: match_idx of node j at i
  msgs            \* every message sent so far

electionVars == <<currentTerm, votedFor, state, currentLeader, voteForMe>>
logVars == <<log, commitIdx, lastApplied>>
peerVars == <<nextIdx, matchIdx>>
memberVars == <<formed, active>>
vars == <<memberVars, electionVars, logVars, peerVars, msgs>>

-----------------------------------------------------------------------------
(* Data *)

(* The payload of an entry is the pass schedule the leader computed; all   *)
(* that matters here is whose schedule it is.                              *)
Entry == [term : Nat, owner : Server]

RequestVote == [type : {"RV"}, from : Server, to : Server, term : Nat,
                lastIdx : Nat, lastTerm : Nat]
RequestVoteResponse == [type : {"RVR"}, from : Server, to : Server,
                        term : Nat, granted : BOOLEAN]
AppendEntries == [type : {"AE"}, from : Server, to : Server, term : Nat,
                  prevIdx : Nat, prevTerm : Nat, entries : Seq(Entry),
                  leaderCommit : Nat]
AppendEntriesResponse == [type : {"AER"}, from : Server, to : Server,
                          term : Nat, success : BOOLEAN, curIdx : Nat]
Message == RequestVote \cup RequestVoteResponse
             \cup AppendEntries \cup AppendEntriesResponse

Of(type) == {m \in msgs : m.type = type}
Granted(j, i, t) ==
  [type |-> "RVR", from |-> j, to |-> i, term |-> t, granted |-> TRUE]

Lower(a, b) == IF a <= b THEN a ELSE b
Upper(a, b) == IF a <= b THEN b ELSE a

Holds(l, idx, term) == idx \in DOMAIN l /\ l[idx].term = term
TermAt(l, idx) == IF idx \in DOMAIN l THEN l[idx].term ELSE 0
LastTerm(l) == TermAt(l, Len(l))

(* raft_votes_is_majority over the voting nodes that are active.           *)
IsMajority(votes, view) == Cardinality(view) \div 2 + 1 <= votes
Majorities(view) == {Q \in SUBSET view : IsMajority(Cardinality(Q), view)}

Peers(i) == active[i] \ {i}
\* A faulty OnlyVoter: counts one peer too few.
AtMostOneOther(i) == Cardinality(Peers(i)) <= 1
OnlyVoter(i) == active[i] = {i}

-----------------------------------------------------------------------------
(* Messages *)

Send(ms) == msgs' = msgs \cup ms

(* raft_send_appendentries: all of the log l from next_idx on, after the    *)
(* entry just before it (or after nothing, when l has no such entry).      *)
AppendEntriesTo(i, j, term, next, l, commit) ==
  [type |-> "AE", from |-> i, to |-> j, term |-> term,
   prevIdx |-> IF next - 1 \in DOMAIN l THEN next - 1 ELSE 0,
   prevTerm |-> TermAt(l, next - 1),
   entries |-> SubSeq(l, next, Len(l)), leaderCommit |-> commit]

(* raft_become_leader, in the given term.                                  *)
BecomeLeader(i, term) ==
  LET next == Len(log[i]) + 1
  IN  /\ state' = [state EXCEPT ![i] = "Leader"]
      /\ currentLeader' = [currentLeader EXCEPT ![i] = i]
      /\ votedFor' = [votedFor EXCEPT ![i] = i]
      /\ nextIdx' = [nextIdx EXCEPT ![i] =
                       [j \in Server |-> IF j \in Peers(i) THEN next ELSE @[j]]]
      /\ matchIdx' = [matchIdx EXCEPT ![i] =
                        [j \in Server |-> IF j \in Peers(i) THEN 0 ELSE @[j]]]
      /\ Send({AppendEntriesTo(i, j, term, next, log[i], commitIdx[i]) : j \in Peers(i)})

(* raft_set_current_term to a higher term, raft_become_follower and        *)
(* current_leader = leader.                                                *)
StepDown(i, term, leader) ==
  /\ currentTerm' = [currentTerm EXCEPT ![i] = term]
  /\ votedFor' = [votedFor EXCEPT ![i] = None]
  /\ state' = [state EXCEPT ![i] = "Follower"]
  /\ currentLeader' = [currentLeader EXCEPT ![i] = leader]

-----------------------------------------------------------------------------
(* Membership *)

(* formCluster: raft_new and the member set.  In "allVehicles" mode the    *)
(* vehicle with the lowest id makes itself leader of term 1 on the spot.   *)
FormCluster(i) ==
  /\ i \notin formed
  /\ formed' = formed \cup {i}
  /\ IF i = Designated
     THEN /\ currentTerm' = [currentTerm EXCEPT ![i] = 1]
          /\ BecomeLeader(i, 1)
     ELSE UNCHANGED <<currentTerm, state, currentLeader, votedFor, peerVars, msgs>>
  /\ UNCHANGED <<active, voteForMe, logVars>>

(* markRaftNodeInactive, by pollBatchExit: i has a pass order, applied by   *)
(* itself or broadcast to it by a vehicle that applied it, and takes j to  *)
(* have left the intersection.  A vehicle that has no raft_server_t yet    *)
(* remembers j for formCluster (vehiclesLeftBeforeFormed_).                *)
MarkInactive(i, j) ==
  /\ j \in MayLeave \cap Peers(i)
  /\ \E k \in Server : lastApplied[k] > 0
  /\ active' = [active EXCEPT ![i] = @ \ {j}]
  /\ UNCHANGED <<formed, electionVars, logVars, peerVars, msgs>>

-----------------------------------------------------------------------------
(* raft_periodic *)

(* raft_apply_all, at the end of every tick.                               *)
ApplyAll(i) == lastApplied' = [lastApplied EXCEPT ![i] = commitIdx[i]]

(* A tick of a server that is the only voting node left: it makes itself   *)
(* leader of the term it is in.                                            *)
PeriodicOnlyVoter(i) ==
  /\ OnlyVoter(i) /\ state[i] # "Leader"
  /\ BecomeLeader(i, currentTerm[i])
  /\ UNCHANGED <<memberVars, currentTerm, voteForMe, log, commitIdx>>

(* A tick after the election timeout: raft_become_candidate.               *)
PeriodicElection(i) ==
  /\ ~OnlyVoter(i) /\ state[i] # "Leader"
  /\ currentTerm[i] < MaxTerm
  /\ currentTerm' = [currentTerm EXCEPT ![i] = @ + 1]
  /\ votedFor' = [votedFor EXCEPT ![i] = i]
  /\ voteForMe' = [voteForMe EXCEPT ![i] = {}]
  /\ currentLeader' = [currentLeader EXCEPT ![i] = None]
  /\ state' = [state EXCEPT ![i] = "Candidate"]
  /\ Send({[type |-> "RV", from |-> i, to |-> j, term |-> currentTerm'[i],
            lastIdx |-> Len(log[i]), lastTerm |-> LastTerm(log[i])] : j \in Peers(i)})
  /\ UNCHANGED <<memberVars, log, commitIdx, peerVars>>

(* A tick of a leader after the request timeout: raft_send_appendentries_- *)
(* all.  While entries are uncommitted, nodes that have them all are       *)
(* skipped, except on every fifth cycle.                                   *)
PeriodicHeartbeat(i) ==
  LET caughtUp == {j \in Peers(i) : matchIdx[i][j] >= Len(log[i])}
      uncommitted == commitIdx[i] < Len(log[i])
  IN  /\ state[i] = "Leader"
      /\ \E skipped \in {{}} \cup (IF uncommitted THEN {caughtUp} ELSE {}) :
           Send({AppendEntriesTo(i, j, currentTerm[i], nextIdx[i][j], log[i],
                                 commitIdx[i]) : j \in Peers(i) \ skipped})
      /\ UNCHANGED <<memberVars, electionVars, log, commitIdx, peerVars>>

(* A tick on which no timer has run out.                                   *)
PeriodicIdle(i) ==
  /\ OnlyVoter(i) => state[i] = "Leader"
  /\ lastApplied[i] < commitIdx[i]
  /\ UNCHANGED <<memberVars, electionVars, log, commitIdx, peerVars, msgs>>

(* raft_periodic: one of them, then raft_apply_all.                        *)
Periodic(i) ==
  /\ i \in formed
  /\ \/ PeriodicOnlyVoter(i)
     \/ PeriodicElection(i)
     \/ PeriodicHeartbeat(i)
     \/ PeriodicIdle(i)
  /\ ApplyAll(i)

-----------------------------------------------------------------------------
(* raft_recv_requestvote *)

VoteReply(i, m, term, granted) ==
  [type |-> "RVR", from |-> i, to |-> m.from, term |-> term, granted |-> granted]

UpToDate(l, m) ==
  \/ Len(l) = 0
  \/ LastTerm(l) < m.lastTerm
  \/ LastTerm(l) = m.lastTerm /\ Len(l) <= m.lastIdx

(* "Reject request if we have a leader" and have heard of it lately.       *)
RefuseForLeader(i, m) ==
  /\ currentLeader[i] \notin {None, m.from}
  /\ Send({VoteReply(i, m, currentTerm[i], FALSE)})
  /\ UNCHANGED <<memberVars, electionVars, logVars, peerVars>>

(* __should_grant_vote, for a server in the candidate's term or a later one*)
(* that holds the given vote.                                              *)
\* Faulty: a second vote in the term.
VoteTwice(i, m, vote) ==
  currentTerm[i] <= m.term /\ UpToDate(log[i], m)
\* Faulty: a vote for any log.
VoteForShorter(i, m, vote) ==
  currentTerm[i] <= m.term /\ vote = None
ShouldGrantVote(i, m, vote) ==
  currentTerm[i] <= m.term /\ vote = None /\ UpToDate(log[i], m)

(* No leader it has heard of lately, or only the candidate itself.  A      *)
(* leader's own timer never gets as far as the election timeout: it starts *)
(* over every request timeout.  A server grants at most one vote a term,   *)
(* and answers "no" to the same candidate the second time.                 *)
ConsiderVote(i, m) ==
  LET newer == currentTerm[i] < m.term
      vote  == IF newer THEN None ELSE votedFor[i]
      grant == ShouldGrantVote(i, m, vote)
  IN  /\ state[i] = "Leader" => currentLeader[i] = m.from
      /\ currentTerm' = [currentTerm EXCEPT ![i] = IF newer THEN m.term ELSE @]
      /\ state' = [state EXCEPT ![i] = IF newer THEN "Follower" ELSE @]
      /\ votedFor' = [votedFor EXCEPT ![i] = IF grant THEN m.from ELSE vote]
      /\ currentLeader' = [currentLeader EXCEPT ![i] =
                             IF newer \/ grant THEN None ELSE @]
      /\ Send({VoteReply(i, m, currentTerm'[i], grant)})
      /\ UNCHANGED <<memberVars, voteForMe, logVars, peerVars>>

RecvRequestVote(i, m) ==
  /\ i \in formed /\ m.type = "RV" /\ m.to = i
  /\ RefuseForLeader(i, m) \/ ConsiderVote(i, m)

-----------------------------------------------------------------------------
(* raft_recv_requestvote_response *)

VotesFor(i, flags) ==
  Cardinality(flags \cap Peers(i)) + (IF votedFor[i] = i THEN 1 ELSE 0)

(* raft_node_vote_for_me, and raft_become_leader once the votes are a      *)
(* majority.                                                               *)
CountVote(i, m) ==
  /\ m.term = currentTerm[i] /\ m.granted
  /\ voteForMe' = [voteForMe EXCEPT ![i] = @ \cup {m.from}]
  /\ UNCHANGED currentTerm
  /\ IF IsMajority(VotesFor(i, voteForMe'[i]), active[i])
     THEN BecomeLeader(i, currentTerm[i])
     ELSE UNCHANGED <<votedFor, state, currentLeader, peerVars, msgs>>
  /\ UNCHANGED <<memberVars, logVars>>

RecvRequestVoteResponse(i, m) ==
  /\ i \in formed /\ m.type = "RVR" /\ m.to = i
  /\ state[i] = "Candidate"
  /\ \/ /\ currentTerm[i] < m.term
        /\ StepDown(i, m.term, None)
        /\ UNCHANGED <<memberVars, voteForMe, logVars, peerVars, msgs>>
     \/ CountVote(i, m)

-----------------------------------------------------------------------------
(* raft_recv_appendentries *)

\* Faulty: acknowledges the whole log, also what the leader did not send.
ReplyWithLength(i, m, term, success, idx) ==
  [type |-> "AER", from |-> i, to |-> m.from, term |-> term,
   success |-> success, curIdx |-> Len(log[i])]
AppendReply(i, m, term, success, idx) ==
  [type |-> "AER", from |-> i, to |-> m.from, term |-> term,
   success |-> success, curIdx |-> idx]

(* "Reply false if term < currentTerm".                                    *)
AppendStale(i, m) ==
  /\ m.term < currentTerm[i]
  /\ Send({AppendReply(i, m, currentTerm[i], FALSE, Len(log[i]))})
  /\ UNCHANGED <<memberVars, electionVars, logVars, peerVars>>

(* The sender is the leader of a term at least as new as ours.  A leader   *)
(* that hears another leader of its own term stays a leader.               *)
FollowLeader(i, m) ==
  /\ currentTerm[i] <= m.term
  /\ currentTerm' = [currentTerm EXCEPT ![i] = m.term]
  /\ votedFor' = [votedFor EXCEPT ![i] = IF currentTerm[i] < m.term THEN None ELSE @]
  /\ state' = [state EXCEPT ![i] = IF currentTerm[i] < m.term \/ @ = "Candidate"
                                   THEN "Follower" ELSE @]
  /\ currentLeader' = [currentLeader EXCEPT ![i] = m.from]
  /\ UNCHANGED <<memberVars, voteForMe, peerVars>>

(* The entry just before the new ones is in the log, with the same term.   *)
\* Faulty: any entry there will do.
HasPrevIndex(l, m) == m.prevIdx = 0 \/ m.prevIdx \in DOMAIN l
HasPrev(l, m) == m.prevIdx = 0 \/ Holds(l, m.prevIdx, m.prevTerm)

(* The log has no entry of prev_log_term at prev_log_idx.  A conflicting   *)
(* entry is deleted with all that follow, unless it is committed           *)
(* (RAFT_ERR_SHUTDOWN, which the transports ignore).                       *)
AppendMismatch(i, m) ==
  /\ FollowLeader(i, m)
  /\ ~HasPrev(log[i], m)
  /\ log' = [log EXCEPT ![i] = IF commitIdx[i] < m.prevIdx
                               THEN SubSeq(@, 1, Lower(m.prevIdx - 1, Len(@)))
                               ELSE @]
  /\ Send({AppendReply(i, m, m.term, FALSE, Len(log'[i]))})
  /\ UNCHANGED <<commitIdx, lastApplied>>

(* The log already holds the first k of the new entries, and not the one   *)
(* that follows them.                                                      *)
MatchesUpTo(l, m, k) ==
  /\ \A h \in 1..k : Holds(l, m.prevIdx + h, m.entries[h].term)
  /\ k < Len(m.entries) => ~Holds(l, m.prevIdx + k + 1, m.entries[k + 1].term)

(* The entries that follow replace whatever the log has in their place.    *)
Merged(l, m, k) ==
  IF k = Len(m.entries) THEN l
  ELSE SubSeq(l, 1, m.prevIdx + k) \o SubSeq(m.entries, k + 1, Len(m.entries))

(* The entry to be replaced is one this server has committed.              *)
ConflictsWithCommitted(i, m, k) ==
  k < Len(m.entries) /\ m.prevIdx + k + 1 <= Lower(commitIdx[i], Len(log[i]))

(* "min(leaderCommit, index of most recent entry)".                        *)
\* Faulty: takes over the commit index of a leader that knows of less.
LeaderCommit(commit, len, m) == Lower(Upper(len, 1), m.leaderCommit)
FollowerCommit(commit, len, m) ==
  IF commit < m.leaderCommit THEN Lower(Upper(len, 1), m.leaderCommit) ELSE commit

(* current_idx of a successful reply: the last entry known to match.       *)
\* Faulty: off by one.
OneBeforeLast(m) == m.prevIdx + Len(m.entries) - 1
LastMatching(m) == m.prevIdx + Len(m.entries)

AppendAccept(i, m, k) ==
  /\ ~ConflictsWithCommitted(i, m, k)
  /\ log' = [log EXCEPT ![i] = Merged(@, m, k)]
  /\ commitIdx' = [commitIdx EXCEPT ![i] = FollowerCommit(@, Len(log'[i]), m)]
  /\ Send({AppendReply(i, m, m.term, TRUE, LastMatching(m))})
  /\ UNCHANGED lastApplied

(* RAFT_ERR_SHUTDOWN after success was set: the reply still goes out.      *)
AppendShutdown(i, m, k) ==
  /\ ConflictsWithCommitted(i, m, k)
  /\ Send({AppendReply(i, m, m.term, TRUE, m.prevIdx + k)})
  /\ UNCHANGED logVars

AppendMatch(i, m) ==
  /\ FollowLeader(i, m)
  /\ HasPrev(log[i], m)
  /\ \E k \in 0..Len(m.entries) :
       /\ MatchesUpTo(log[i], m, k)
       /\ AppendAccept(i, m, k) \/ AppendShutdown(i, m, k)

RecvAppendEntries(i, m) ==
  /\ i \in formed /\ m.type = "AE" /\ m.to = i
  /\ \/ AppendStale(i, m)
     \/ AppendMismatch(i, m)
     \/ AppendMatch(i, m)

-----------------------------------------------------------------------------
(* raft_recv_appendentries_response *)

Resend(i, j, next, commit) ==
  Send({AppendEntriesTo(i, j, currentTerm[i], next, log[i], commit)})

(* The follower's log did not match: step next_idx back and try again.     *)
AppendRefused(i, m) ==
  LET j    == m.from
      next == nextIdx[i][j]
      back == IF m.curIdx < next - 1 THEN Lower(m.curIdx + 1, Len(log[i]))
                                     ELSE next - 1
  IN  /\ ~m.success
      /\ matchIdx[i][j] <= m.curIdx
      /\ nextIdx' = [nextIdx EXCEPT ![i][j] = Upper(back, 1)]
      /\ Resend(i, j, nextIdx'[i][j], commitIdx[i])
      /\ UNCHANGED <<memberVars, electionVars, logVars, matchIdx>>

Replicas(i, match, idx) == {j \in Peers(i) : idx <= match[j]}

(* A majority holds the entry at idx, an entry of the current term.        *)
MajorityHolds(i, match, idx) ==
  IsMajority(Cardinality(Replicas(i, match, idx)) + 1, active[i])
\* Faulty: counts replicas of an earlier term's entry.
CommitsAnyTerm(i, match, idx) ==
  commitIdx[i] < idx /\ MajorityHolds(i, match, idx)
Commits(i, match, idx) ==
  /\ commitIdx[i] < idx /\ Holds(log[i], idx, currentTerm[i])
  /\ MajorityHolds(i, match, idx)

(* The follower holds the log up to curIdx: commit what a majority holds,  *)
(* if it is of the current term, and send what is left.                    *)
AppendAcknowledged(i, m) ==
  LET j == m.from
      point == m.curIdx
  IN  /\ m.success
      /\ matchIdx[i][j] < point
      /\ nextIdx' = [nextIdx EXCEPT ![i][j] = point + 1]
      /\ matchIdx' = [matchIdx EXCEPT ![i][j] = point]
      /\ commitIdx' = [commitIdx EXCEPT ![i] =
                         IF Commits(i, matchIdx'[i], point) THEN point ELSE @]
      /\ IF point + 1 \in DOMAIN log[i]
         THEN Resend(i, j, point + 1, commitIdx'[i])
         ELSE UNCHANGED msgs
      /\ UNCHANGED <<memberVars, electionVars, log, lastApplied>>

RecvAppendEntriesResponse(i, m) ==
  /\ i \in formed /\ m.type = "AER" /\ m.to = i
  /\ state[i] = "Leader"
  /\ \/ /\ currentTerm[i] < m.term
        /\ StepDown(i, m.term, None)
        /\ UNCHANGED <<memberVars, voteForMe, logVars, peerVars, msgs>>
     \/ /\ currentTerm[i] = m.term
        /\ AppendRefused(i, m) \/ AppendAcknowledged(i, m)

-----------------------------------------------------------------------------
(* raft_recv_entry: proposePassOrder hands the leader its schedule, and    *)
(* the peers that were up to date are sent it at once.                     *)
RecvEntry(i) ==
  LET new == Append(log[i], [term |-> currentTerm[i], owner |-> i])
      cur == Len(new)
  IN  /\ i \in formed /\ state[i] = "Leader"
      /\ Len(log[i]) < MaxLog
      /\ log' = [log EXCEPT ![i] = new]
      /\ commitIdx' = [commitIdx EXCEPT ![i] = IF OnlyVoter(i) THEN cur ELSE @]
      /\ UNCHANGED <<memberVars, electionVars, peerVars, lastApplied>>
      /\ Send({AppendEntriesTo(i, j, currentTerm[i], cur, new, commitIdx[i]) :
                 j \in {k \in Peers(i) : nextIdx[i][k] = cur}})

-----------------------------------------------------------------------------
Init ==
  /\ formed = {}
  /\ active = [i \in Server |-> Server]
  /\ currentTerm = [i \in Server |-> 0]
  /\ votedFor = [i \in Server |-> None]
  /\ state = [i \in Server |-> "Follower"]
  /\ currentLeader = [i \in Server |-> None]
  /\ voteForMe = [i \in Server |-> {}]
  /\ log = [i \in Server |-> <<>>]
  /\ commitIdx = [i \in Server |-> 0]
  /\ lastApplied = [i \in Server |-> 0]
  /\ nextIdx = [i \in Server |-> [j \in Server |-> 1]]
  /\ matchIdx = [i \in Server |-> [j \in Server |-> 0]]
  /\ msgs = {}

Next ==
  \E i \in Server :
    \/ FormCluster(i)
    \/ \E j \in Server : MarkInactive(i, j)
    \/ Periodic(i)
    \/ RecvEntry(i)
    \/ \E m \in msgs : \/ RecvRequestVote(i, m)
                       \/ RecvRequestVoteResponse(i, m)
                       \/ RecvAppendEntries(i, m)
                       \/ RecvAppendEntriesResponse(i, m)

Spec == Init /\ [][Next]_vars

-----------------------------------------------------------------------------
(* Correctness *)

TypeOK ==
  /\ formed \in SUBSET Server
  /\ active \in [Server -> SUBSET Server]
  /\ currentTerm \in [Server -> Nat]
  /\ votedFor \in [Server -> Server \cup {None}]
  /\ state \in [Server -> {"Follower", "Candidate", "Leader"}]
  /\ currentLeader \in [Server -> Server \cup {None}]
  /\ voteForMe \in [Server -> SUBSET Server]
  /\ log \in [Server -> Seq(Entry)]
  /\ commitIdx \in [Server -> Nat]
  /\ lastApplied \in [Server -> Nat]
  /\ nextIdx \in [Server -> [Server -> Nat \ {0}]]
  /\ matchIdx \in [Server -> [Server -> Nat]]
  /\ msgs \subseteq Message

(* One leader is elected: no two vehicles are leader of the same term.     *)
ElectionSafety ==
  \A i, j \in Server :
    state[i] = "Leader" /\ state[j] = "Leader" /\ currentTerm[i] = currentTerm[j]
      => i = j

(* The votes behind it.  Views are the member sets a vehicle may come to   *)
(* hold; a vehicle is elected when a majority of one of them voted for it. *)
Views == {A \in SUBSET Server : Server \ MayLeave \subseteq A}
Elected(i, t) ==
  \E A \in Views : \E Q \in Majorities(A) :
    i \in Q /\ \A j \in Q \ {i} : Granted(j, i, t) \in msgs

(* A vehicle answers at most one candidate a term with its vote, whatever  *)
(* requests reach it in whatever order.                                    *)
VoteOnce ==
  \A v, w \in Of("RVR") :
    v.granted /\ w.granted /\ v.from = w.from /\ v.term = w.term => v.to = w.to

(* A vote that was sent binds its sender: for as long as the sender stays  *)
(* in that term it holds that vote.  What a candidate counts was sent to   *)
(* it, candidates and leaders hold their own vote, and every leader was    *)
(* elected.  Together with VoteOnce this is why ElectionSafety holds.      *)
GrantsBind ==
  \A m \in Of("RVR") :
    m.granted => /\ m.term <= currentTerm[m.from]
                 /\ m.term = currentTerm[m.from] => votedFor[m.from] = m.to
CountedVotes ==
  \A i \in Server : state[i] = "Candidate" =>
    \A j \in voteForMe[i] \ {i} : Granted(j, i, currentTerm[i]) \in msgs
OwnVote == \A i \in Server : state[i] # "Follower" => votedFor[i] = i
LeadersElected ==
  \A i \in Server : state[i] = "Leader" => Elected(i, currentTerm[i])
ViewsHeld == \A i \in Server : active[i] \in Views /\ i \in active[i]
ElectionInv == /\ ViewsHeld
               /\ VoteOnce /\ GrantsBind /\ CountedVotes /\ OwnVote /\ LeadersElected

(* Entries of the same index and term are the same schedule, and so are    *)
(* all the entries before them.                                            *)
LogMatching ==
  \A i, j \in Server :
    \A k \in DOMAIN log[i] \cap DOMAIN log[j] :
      log[i][k].term = log[j][k].term =>
        SubSeq(log[i], 1, k) = SubSeq(log[j], 1, k)

(* Two vehicles never commit different schedules at the same index.        *)
CommittedAgree ==
  \A i, j \in Server :
    \A k \in 1..Lower(commitIdx[i], commitIdx[j]) : log[i][k] = log[j][k]

(* A leader holds all that was committed in its term or an earlier one, by *)
(* whomever: the vehicles that elected it would have refused a log without *)
(* it.                                                                     *)
LeaderCompleteness ==
  \A i, j \in Server :
    state[i] = "Leader" /\ currentTerm[j] <= currentTerm[i] =>
      /\ commitIdx[j] <= Len(log[i])
      /\ \A k \in 1..commitIdx[j] : log[i][k] = log[j][k]

(* "Should never happen; something is seriously wrong!": an AppendEntries  *)
(* still under way that contradicts what its receiver has committed.       *)
NoCommittedConflict ==
  \A m \in Of("AE") :
    m.term >= currentTerm[m.to] =>
      /\ m.prevIdx \in 1..commitIdx[m.to] => log[m.to][m.prevIdx].term = m.prevTerm
      /\ HasPrev(log[m.to], m) =>
           \A k \in 0..Len(m.entries) :
             MatchesUpTo(log[m.to], m, k) => ~ConflictsWithCommitted(m.to, m, k)

(* The assertions of raft_set_commit_idx and of raft_recv_appendentries_-  *)
(* response: no index beyond the end of the log is committed or            *)
(* acknowledged to the leader that is still to hear of it.                 *)
IndicesWithinLog ==
  /\ \A i \in Server : commitIdx[i] <= Len(log[i]) /\ lastApplied[i] <= commitIdx[i]
  /\ \A m \in Of("AER") :
       m.success /\ state[m.to] = "Leader" /\ currentTerm[m.to] = m.term
         => m.curIdx <= Len(log[m.to])

(* A vehicle never rewrites an entry it has committed, not even when two   *)
(* leaders of one term contradict each other: raft refuses to delete at or *)
(* below commit_idx.                                                       *)
CommittedStable ==
  [][\A i \in Server :
       /\ commitIdx[i] <= commitIdx'[i]
       /\ SubSeq(log'[i], 1, commitIdx[i]) = SubSeq(log[i], 1, commitIdx[i])]_vars

(* The committed part of the log that goes furthest, and what the others   *)
(* have applied of it: the vehicles agree on one growing sequence of       *)
(* schedules, and each applies a prefix of it and never takes it back.     *)
Furthest == CHOOSE i \in Server : \A j \in Server : commitIdx[j] <= commitIdx[i]

Agreed == INSTANCE AgreedLog
  WITH agreed  <- SubSeq(log[Furthest], 1, commitIdx[Furthest]),
       applied <- [i \in Server |-> SubSeq(log[i], 1, lastApplied[i])]

ImplementsAgreedLog == Agreed!Spec
=============================================================================
