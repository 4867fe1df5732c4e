# A TLA+ model of the V2V intersection benchmark

The repository simulates vehicles that agree, by radio and without a traffic
light, on the order in which they pass an intersection. The vehicles at the
front of each lane form a Raft cluster; its leader computes a *pass schedule*
(batches of vehicles that may cross together) and commits it through the Raft
log; every vehicle then drives by the schedule it was given. OMNeT++ runs the
protocol code, SUMO moves the cars.

This directory models the parts where an error would be hard to see in a
simulation: how vehicles come to be one cluster, the consensus core under
message loss and the array its log is kept in, the timers that keep a leader in
office, how a leader collects what it needs and proposes, the schedule itself,
and the driving by it. All paths below are relative to `src/`.

Contents: 1 the system and its hazards · 2 the modules · 3 how state and actions
correspond to the code · 4 the runs · 5 what the runs found · 6 fairness ·
7 what is proved · 8 what is not modelled · 9 the plan · 10 how to run.

## 1. The system

| Component | State it keeps | Operations | Talks to |
|---|---|---|---|
| Raft library, `lib/raft/raft_server.c` (and `_properties`, `raft_node.c`) | term, vote, role, known leader, commit and applied index, per node `next_idx`, `match_idx`, voted, active | `raft_periodic`, `raft_recv_{requestvote,appendentries}[_response]`, `raft_recv_entry`, `raft_apply_all`, `raft_become_*` | calls `send_*`, `applylog`, `persist_*` callbacks of RaftCore |
| Raft timers, same file | `timeout_elapsed`, `appendentries_cycle` | one tick per `raft_periodic`, which RaftCore calls every 20 ms with the time since its last call (`RAFT_PERIODIC_INTERVAL`) | decide when RaftCore's `send_*` run |
| Log storage, `lib/raft/raft_log.c` | a circular array with `front`, `back`, `base` | append, delete from an index, get from an index | the library only |
| Leadership and proposal, `src/raft/RaftCore.cc` | `vehicleDB_`, `collectedLeaderDBs_`, `isLeader_`, `passOrderProposed_`, `hasCommittedOrder_`, responses counted | `onBecameLeader`, `handleStatusRequest`, `handleDbResponse`, `proposePassOrder`, `doApplyLog` | hands entries to the library, gets committed ones back, hands them to RaftCoordination |
| Pass schedule, `src/raft/RaftDecision.cc` | none (a function) | `computePassOrder` and its helpers | called by RaftCore |
| Driving, `src/raft/RaftCoordination.cc`, movement code in `RaftUtilities.cc`, `RaftCore.cc` | `committedSchedule_`, `currentBatch_`, `vehiclesLeftInBatch_`, stop flags, fallback timers | stop, `applyCommittedPassOrder`, `pollBatchExit`, `resumeMovement`, fallbacks | SUMO through TraCI; marks vehicles that left as inactive in the library |
| Cluster formation, `src/raft/RaftDiscovery.cc` | peers by beacon, members, role (lane leader or not), round number | beacons, invites, joining, the form broadcast, `formCluster`, `startNewRound` | creates and frees the raft server |
| Transports, `WaveRaftApplication.cc`, `UdpRaftApplication.cc` | sequence numbers, radio metrics | frame in, frame out, timers | the event loop |
| Gossip, `RaftUtilities.cc` | hashes of frames seen | `gossipIfNew` | transports |
| Signatures, metrics, results file, scripts | counters | – | – |

**Interaction.** Every vehicle is one object on OMNeT++'s single event loop: a
frame or timer is handled to its end, with all the calls it makes, before
anything else happens. Nothing is shared between vehicles except SUMO's world
(which a vehicle polls by TraCI) and a results file. All protocol messages are
broadcast frames on a lossy channel. `README.md:304` speaks of a `VEHICLE_LEFT`
message: the code has none, each vehicle polls SUMO for itself every 500 ms.

**What is hard here.** Frames get lost, delayed, repeated (gossip, retries) and
overtake each other; every vehicle has its own idea of who is still in the
cluster and of which batch is under way; three different fallback timers make
a vehicle go without anybody's permission; a vehicle that moves up to the front
of its lane forgets what it knew; roles are given without a vote in
`allVehicles` mode; a leader spares followers the heartbeats it thinks they do
not need; a sort has an inconsistent comparator. `PROJECT.json` lists each
hazard at the line where it bites, with the properties that watch it.

**What makes it correct.**

- Raft library: one leader a term; one vote a term; logs that agree on an entry
  agree on all before it; committed entries are never replaced and all commit
  the same ones; no assertion or "should never happen" branch is reached.
- Timers: a follower that hears everything does not start an election against a
  leader that is doing well; a leader's own timer never reaches the timeout.
- Schedule: every vehicle once; batches whose paths do not cross; blockers
  before those they block, also for a priority vehicle; nobody forgotten; it ends.
- Driving: batches take turns in the junction unless somebody gave up waiting;
  those counted as gone are gone; everyone passes in the end.
- Log storage: the array stands for a sequence; a reader gets a part of that sequence.
- Formation: a vehicle is a member of the cluster it runs; member sets differ only over
  a lane that had two fronts; a majority of one member set forms.
- Proposal: a leader without a schedule will propose one; a vehicle proposes once a
  round; what it proposes is something raft can commit.

## 2. The modules

| Module | What it is |
|---|---|
| `ClusterFormation`, `MCClusterFormation` | invites, the collection of members, the form broadcast and its retry, in both cluster modes; its instance |
| `ClusterFormationProof` | proofs about it |
| `LibRaft` | the Raft library and the calls into it: elections, replication, commit, apply, inactive nodes, designated leader |
| `AgreedLog` | the abstract specification of it: all vehicles apply one growing log |
| `MCLibRaft`, `MCLibRaftRivals` | instances of `LibRaft`: constraints, views, symmetry |
| `LibRaftProof` | proofs about `LibRaft`: types, elections, logs and indices |
| `LibRaftCommit` | on top of it: what is committed stays committed; leader completeness; the refinement of `AgreedLog` |
| `RaftLog` | the circular array of `raft_log.c` |
| `SequenceLog` | the abstract specification of it: a sequence with a base index |
| `RaftLogProof` | proofs about it, the refinement included |
| `HeartbeatTiming`, `HeartbeatTimingProof` | the timers of one leadership, in ticks; proofs |
| `SchedulingRound`, `MCSchedulingRound` | leadership flags, status collection and proposal, EXTENDS `LibRaft`; its instance |
| `SchedulingRoundProof` | proofs about it, on top of those about `LibRaft` |
| `PassOrder`, `MCPassOrder` | `computePassOrder` as a state machine, one action per loop iteration; its instance |
| `PassOrderProof` | proofs about it |
| `Crossing`, `MCCrossing` | stopping, being told the order, polling, fallbacks, promotion to the front; its instance |
| `CrossingProof` | proofs about it |

How they meet. `ClusterFormation` says which member sets can exist side by side;
`LibRaft` then takes one member set, of whose vehicles some may not have formed
yet. `RaftLog` shows that the sequence `LibRaft` has for a log is what the array
implements. `SchedulingRound` contains `LibRaft`, message by message, and adds what
RaftCore does with it; its theorem `RoundIsRaft` says that nothing it adds
interferes. What a schedule looks like is left to `PassOrder`; *which* schedules
are committed, one or several, comes out of `LibRaft` and `SchedulingRound`, and
`Crossing` takes a sequence of committed schedules (`Logs`) as its input: one,
which is what a quiet round yields, or two, after a change of leader.

## 3. From the code to the model

`PROJECT.json` maps each definition to its lines. In general:

- **A callback is an action.** It contains every state change the handler makes:
  for instance all ticks of `LibRaft` end with `ApplyAll`, because
  `raft_periodic` ends with `raft_apply_all`, and those of `SchedulingRound` with
  `doApplyLog` and the check for a change of leadership.
- **Messages** (`msgs`, `frames`, `invites`, `forms`) are sets that only grow. A step may handle any of
  them, any number of times, in any order, or never: loss, delay, reordering and
  repetition in one device.
- **Time** is left out of all modules but one: a timer that is set may run out at any moment.
  `HeartbeatTiming` keeps the time and leaves out the contents of messages.
- **Data**: a log entry is its term and the leader that made it; a proposal
  is a lane, a place in it, a kind of path, a priority and a waiting time of a few
  levels; SUMO's positions become `approach`, `line`, `junction`, `exit` and who is ahead
  on the same lane.

`LibRaft`, variable by variable: `currentTerm, votedFor, state, currentLeader,
commitIdx, lastApplied` are the fields of `raft_server_private_t`; `voteForMe[i]`,
`nextIdx[i]`, `matchIdx[i]`, `active[i]` are the flags and indices of `i`'s nodes;
`formed` is the set of vehicles whose server pointer is not null. `PeriodicOnlyVoter`,
`PeriodicElection`, `PeriodicHeartbeat`, `PeriodicIdle` are the outcomes of
`raft_periodic`; `RecvRequestVote`, ... the handlers, split by their early
returns; `RecvEntry` is a proposal, `FormCluster` and `MarkInactive` are what
RaftDiscovery and `pollBatchExit` do to the server.

`SchedulingRound` adds per vehicle `isLeader_` (a flag from the last tick, not what
the library says now), `waitingForStatus_`, `statusResponseCount_`,
`passOrderProposed_`, `hasCommittedOrder_`, and `deadlines`, the number of 800 ms
timers under way: they are never cancelled, so there may be several.
`ProcessRaftPeriodic` is one raft tick with all that follows it in the handler;
`RaftFrame` any raft frame, after which the flags are stale until that tick.

`ClusterFormation` has `collected` for both `collectedLaneLeaders_` (at most one vehicle
of a lane, the last one heard) and `collectedAllVehicles_`; `members` for
`clusterVehicles_` of those that have formed, `looping` and `retrying` for its two
timer chains. `Resume` is `resumeMovement`, `Pass` a vehicle leaving the junction, whether it
had stopped or was set in motion on its approach; after either the vehicle behind
may become a front: at its next tick, `leaders` is stale until then. `SetLaneLeader` is
`isLaneLeaderByTraci` with all its outcomes. SUMO looks 200 m ahead, and an approach of
`simple.net.xml` has 292.8 m; without TraCI and after an exception the answer is yes. So
any vehicle may be told that nobody is ahead of it, and the guess a vehicle starts with
may be wrong. The history variable `misled` holds those it happened to: nothing in the code
reads it, only `SameMembers` and `QuorumForms` do.

`Crossing` has the fields of RaftAppBase that its comments name. `Fallible[v]` are the vehicles whose
road `v` may fail to look up: `pollBatchExit` then takes them to have left
(`RaftCoordination.cc:166-172`), and the history variable `lost` remembers it.
`LoseLead` and `PromotedToFront` are the changes of `isLaneLeader_`, which TraCI may set for
any vehicle; `RoundTimeout` ends the 500 ms of `seekingNewCluster_`.

`RaftLog` has the fields of `log_private_t`; slots are numbered from 0 as in the code.
`Contents` is the refinement mapping: the `count` slots from `front` on. A refused
entry (`log_offer` fails) is written to its slot but not counted, as in the code.

Places where the model allows more than the code, on purpose:

- A leader may append several schedules in `LibRaft` alone; the flags that limit it
  are in `SchedulingRound`. The safety properties hold all the more.
- `SchedulingRound` lets any vehicle with an order take any vehicle of `MayLeave` to
  have left (`MarkLeft`), and a broadcast pass order be heard at any time.
- `SetLaneLeader` lets any vehicle be told at any tick that nobody is ahead, and the first
  guess of `isLaneLeader_` be anything.
- A vehicle that others have marked inactive goes on acting, because a vehicle
  can be presumed gone and be there.
- `std::sort` with a comparator that is no strict weak ordering leaves the order
  undetermined: `PassOrder` takes any permutation in which no neighbours stand in
  the wrong order.

Places where it allows less: in `LibRaft` all members have the same member set
(`SameMembers` of `ClusterFormation` says when that may be different); snapshots,
configuration changes and non-voting nodes are left out because no vehicle uses
them; `SchedulingRound` is `cluster` mode; it and `Crossing` are one round, in which the early
returns of `proposePassOrder` (`RaftCore.cc:531-535`, `546`) are not met: the collected DBs hold
the leader itself, whom no earlier round has scheduled, so there is at least one batch.
`PassOrder` stops letting vehicles in when all sixteen batches are in use, where the
top-up of step 2 (`RaftDecision.cc:66-82`) works on a seventeenth, behind the array; nothing
of that becomes part of the schedule. In `Crossing`
who has heard of whom (`Heard`) does not change during the run.

## 4. The runs

| Run | Instance | Checks | States | Time |
|---|---|---|---|---|
| `cluster` | 3 vehicles, 2 terms, 1 entry, 2 campaigns, one may be taken to have left | `TypeOK`, `ElectionSafety`, `VoteOnce`, `ElectionInv`, `CommittedAgree`, `ImplementsAgreedLog` | 168,668 | 128 s |
| `rivals` | 3 vehicles, 4 terms, 2 entries, two rivals taking turns | `LogMatching`, `CommittedAgree`, `LeaderCompleteness`, `NoCommittedConflict`, `IndicesWithinLog`, `CommittedStable` | 79,809 | 132 s |
| `designated` | `allVehicles` mode, 3 vehicles | `CommittedAgree` **violated** | | 1 s |
| `raftLog` | 2 slots growing to 8, indices to 7, 3 entries, one refused | `ArrayInv`, `ReadsARun`, `WholeSuffix`, `TailIsLast`, `ImplementsSequence` | 128,129 | 10 s |
| `heartbeat` | 3 followers, 1 reachable; request timeout 2, election timeout 12 ticks | `HeardInTime`, `LeaderUndisturbed`, `HeartbeatInv` | 249,504 | 6 s |
| `heartbeatDefault` | the same with the defaults' ratio, 2 and 5 | `HeardInTime` **violated** | | 1 s |
| `formation` | 3 vehicles on 2 lanes, both modes, anybody may be misled about the front | `TypeOK`, `OwnCluster`, `SameMembers`, `QuorumForms` | 522,260 | 92 s |
| `round` | 2 vehicles, 3 terms, 2 entries, 3 campaigns, one may be taken to have left | `RoundTypeOK`, `OneProposalEach`, `WillPropose`, `ProposalSubmitted` | 203,069 | 110 s |
| `stuck` | the same, nobody leaves | `LeaderReplicates` **violated** | | 1 s |
| `schedule` | all proposals of 4 vehicles on 3 approaches, the last two equally close, batches of 2, at most 3 | the eight properties of `PassOrder` | 791,679 | 82 s |
| `crossing` | 3 vehicles, two on one lane, one of them unheard by the third and unable to look it up, any of four schedules | `TakeTurns`, `CountedLeft`, `CrossingInv`, `EveryonePasses` | 126,340 | 55 s |
| `crossingTwoOrders` | two schedules committed one after the other | `TakeTurns` **violated** | | 1 s |

**What they show.**

- `cluster`: over a channel that may do anything but invent messages, and while one
  vehicle may be taken to have left, by some earlier than by others, one leader
  a term: majorities counted over different sets of active nodes still meet. The
  applied logs, seen through the refinement mapping of
  `ImplementsAgreedLog`, behave as one growing log that each vehicle has read a
  prefix of. `AgreedLog` knows of no terms, votes or messages, so this is what a
  vehicle relies on when it drives by what it applied.
- `rivals`: long enough for an entry to sit on a majority without being committed
  and be replaced (figure 8 of the Raft paper); `raft_recv_appendentries_response`
  counts only entries of its own term, and the run shows the need for it.
  `LeaderCompleteness` is what makes that count binding: whoever is elected later holds
  what was committed before.
  `NoCommittedConflict` and `IndicesWithinLog` say that the branches marked as
  impossible and the assertions are; `CommittedStable` that no step takes back what
  a vehicle has committed.
- `raftLog`: the array grows twice, wraps, is cut behind and before the wrap,
  polled and reloaded, and stands for the sequence throughout. `ReadsARun` is the
  contract of `log_get_from_idx`, which may return less than there is; `WholeSuffix` says
  that it does not as long as nothing is compacted, which is what `LibRaft` assumes.
- `heartbeat`: the exact bound on the timeouts under which sparing the followers
  is harmless; both sides of the bound are runs. A tick is 100 ms in both, which keeps the ratio
  of the defaults; the theorems hold for any number of ticks, those of 20 ms included.
- `formation`: vehicle 3 stands behind vehicle 1. `SameMembers` finds the member
  sets {1, 2} and {3, 2} and allows them only because 1 was set in motion or has
  passed, or because 3 was told that nobody is ahead of it. `QuorumForms` (liveness) needs the repeated invites and form broadcasts: with a
  sender that gives up, it fails.
- `round`: leadership is lost and won again in every way that three terms allow,
  with frames and timers of an earlier leadership still under way, and with a
  vehicle that ends up as the only voter (the one run in which `PeriodicOnlyVoter` happens).
  `WillPropose`: a leader that has not proposed has a timer that will make it.
  `OneProposalEach`: no vehicle has two entries anywhere, although old answers count
  for new requests. `ProposalSubmitted`: a vehicle leading for the first time
  has in its log what it proposed. `stuck` is what happens the second time.
- `schedule`: `ScheduledOnce`, `PathsClear` (two left turners of opposite
  approaches may share a batch, as the code says), `BlockersGoFirst` (whoever stands
  before a priority vehicle goes in an earlier batch), `PriorityFirst` (no batch
  before a priority vehicle's is without a vehicle that goes on behalf of one; it
  speaks of priority vehicles that are the only closest one of their lane, and the
  instance has two equally close vehicles to show why, see section 5),
  `FrontsLead` (without priority, batches with a front vehicle come before those of
  queued vehicles only), `NobodyForgotten` (a vehicle is left out only when the
  batches have run out).
- `crossing`: vehicle `a` leads its lane, `b` stands behind it and is no member,
  `c` comes from another approach and has never heard of `b`. The schedules include
  one that leaves `b` out and one that puts `b` before `a`, which blocks it: then the
  fallback timers must get everyone through. `TakeTurns` and `CountedLeft` name the
  three ways out: a vehicle that gave up, one that counted a vehicle it never heard
  of as gone (`RaftCoordination.cc:156`), and one that counted a vehicle as gone whose road
  it could not look up (`RaftCoordination.cc:166-172`). In this run `c` does meet `b` in the
  junction; if `c` had heard of `b` it would not. `b` may fail to look up `c`, and may be
  told anything about whether it is at the front.

**Bounds, and why they are enough.** Two terms are needed for two leaders, two
servers and a third for majorities that can differ; one entry per log suffices for
commitment and agreement at one index, two entries and four terms are the least
for figure 8. `MaxCampaigns` limits how many elections are started over
the whole run; it is a constraint on the runs, not on `LibRaft`.
In `cluster` the vehicle that may be marked does not campaign (`StayersCampaign`).
In `rivals` two vehicles campaign; one wins odd terms, the other even ones
(`ByTurns`); they never answer each other (`OutOfRange`), so that the third
vehicle decides; and nothing new is proposed after term 2 (`FewProposals`). These
three keep four terms small enough to check and leave the interesting histories in.
In `round` three terms let a vehicle lead, lose to the other, and lead again; the run
looks no further once both have a schedule (`RoundOpen`), and a vehicle that is taken
to have left is so before the third term (`EarlyDeparture`).
In `raftLog` two doublings, with a poll between, bring every alignment of front and wrap.
In `formation` 3 vehicles on 2 lanes are the least with a full set of
fronts and someone behind one; every mistake about the front is allowed; in `allVehicles` mode the run stops when the first
vehicle has stopped (`OnApproach`), because the clusters of that mode form during the approach.
In `schedule` 3 approaches contain opposite and crossing ones, 4
vehicles fill two batches and overflow one, and three batches at most makes
the array run full. In `crossing` three vehicles are the smallest number with
someone behind somebody and someone across; TraCI tells the two real fronts that they
are fronts (`Steady`), and the vehicle between may be told either; one lookup may
fail, that of `c` by `b` (`OneFails`).

**Views and symmetry.** `LiveView` and `VotesView` leave out of a state those
messages which can change nothing in any future: a refused vote, a granted vote
of a term that is over, an answer to a leader of an earlier term, a request that will
be refused and whose sender learns nothing from that (`RefusedVote`, `SpentVote`,
`PastVote`, `OldReply`, `PastRequest`). Two
states with the same view have the same successors up to the view, and the
properties of the run read nothing else; `VotesView` keeps the
granted votes that `VoteOnce` and `ElectionInv` read; `Campaigns` counts the hidden
requests for the bound. `RoundView` adds the variables of the round. Symmetry permutes
only vehicles that no constant tells apart, in `cluster` and the two violations of
`LibRaft` and `SchedulingRound`; none of them checks liveness.
`ImplementsAgreedLog` is a safety property and symmetric in the vehicles.

`CHECK_DEADLOCK FALSE` appears where a run really stops: `LibRaft` and
`SchedulingRound` at their bounds, `PassOrder` when the function returns, `Crossing`
and `ClusterFormation` when everybody has passed. `HeartbeatTiming` and `RaftLog` never
stop and are checked for deadlock.

## 5. What the runs found

Four runs end in a violation on purpose. Each checks one sentence of the
documentation or of a comment against what the code does; `PROJECT.json` quotes it.

1. `designated` (`RaftDiscovery.cc:470`): the designated leader of term 1 is not
   bound by a vote the others may meanwhile hold in term 1; two leaders
   of one term commit different schedules.
2. `heartbeatDefault` (`raft_server.c:952`): "Skip caught-up nodes except every
   5th cycle [...] (heartbeat to prevent election timeout)". Five cycles of 200 ms are
   longer than an election timeout of 500 ms.
3. `stuck` (`RaftCore.cc:496`): `passOrderProposed_` outlives the leadership in
   which it was set. A vehicle that leads for the second time proposes nothing, and
   raft commits nothing of an earlier term without something of the present one.
4. `crossingTwoOrders` (`RaftCore.cc:156`): a second committed schedule replaces one
   under way and keeps its batch counter. `LibRaft` shows that this can be committed:
   a leader that takes over before the first schedule is committed proposes its own.

Noticed on the way, without a run of their own:

- `raft_server.c:229` makes the only voting node leader because "it's safe". With
  nodes taken to have left it is not: a vehicle that takes both others of three to have left
  becomes a second leader of its term. This is why `ElectionSafe` assumes
  `AtMostOneLeaves`, and why `cluster` marks one vehicle only.
- `RaftCore.cc:455` says to use the sender's id from the payload of a status answer,
  since the frame's may be a relay's; line 467 then stores the answer under the frame's.
- In `allVehicles` mode the retry of the form broadcast stops when the sender knows a
  leader. The vehicle with the lowest id is one itself at once, and never repeats
  the broadcast.
- The WAVE handlers of raft frames use the sender's node without checking that there
  is one; the UDP handlers check.
- `raft_become_leader` (`raft_server.c:171`) resets `next_idx` of active nodes only. A
  vehicle taken to have left keeps answering, and a refusal of an old frame makes
  the new leader send by the `next_idx` of an earlier leadership. If that is
  beyond the leader's log, the frame goes out without entries and without a previous
  entry to match, but with the commit index, and the vehicle commits what it
  happens to hold. With `MayLeave` of one vehicle among three this is a history of
  six terms and logs of four entries that contradicts `CommittedAgree`. It needs four entries
  of one leadership in a log, more than a round of three vehicles makes
  (`OneProposalEach`), so it is a flaw of the library as used alone and not a run here.
- Two vehicles may report the same distance: one that cannot ask TraCI reports
  999999 m (`getDistanceToJunction`). Of two equally close priority vehicles of one lane,
  step 2 of `computePassOrder` releases the lane after the first; the second goes with
  the others, possibly after batches in which nobody goes for a priority vehicle.
- `isLaneLeaderByTraci` asks for a vehicle within 200 m, "large enough to cover a full
  approach lane queue" (`RaftUtilities.cc:106`), on approaches of 292.8 m, and answers yes
  without TraCI or on an exception, the "safe default". It is not safe for the
  membership: a vehicle behind that hears an invite then registers itself
  for its lane in place of the front (`RaftDiscovery.cc:390-393`). `RaftDiscovery.cc:287`
  counts on every member forming with the same set; two sets may be formed without any
  front having moved, and with enough such vehicles no set need find a
  majority. `SameMembers` says that nothing else makes sets differ.
- `log_clear_entries` runs over `base + count` entries by index and includes one too many at the end;
  nobody sets the callback it calls.

## 6. Fairness

Safety properties assume none, and no run assumes that any message arrives.
`PassOrder` has weak fairness of `Next`: it is a sequential function, which the
machine runs to its end (`Terminates`). `ClusterFormation` has weak fairness of
`FirstStop` (every vehicle reaches the junction and stops), of `Beacon` (the 200 ms
loop is a timer that schedules itself), and of hearing a frame that its sender
keeps repeating: an invite of a vehicle whose loop runs, a form broadcast of one that
still retries. A frame that is sent once may always be lost, and nothing says that a
front vehicle waits, or that TraCI is right: `QuorumForms` allows that somebody was set in motion or
has passed, or took itself for the front with another ahead. `Crossing` has weak fairness of `Drive` (SUMO moves
a vehicle that may move and has a free way) and of `GiveUp` (an OMNeT++ timer
that was scheduled fires). All of these are what the simulator guarantees. Under them
`EveryonePasses` needs no frame at all: the fallback timers suffice, and the
property says that no order of events disarms them for a vehicle still waiting.

## 7. What is proved

`tlapm` checks these for every value of the constants.

| Theorem | Says | Assumes |
|---|---|---|
| `TypeCorrect` (`LibRaftProof`) | `Spec => []TypeOK` | the module's ASSUMEs |
| `ElectionInvariant`, `ElectionSafe`, `VotesOnce` (the same) | `[]ElectionInv`, `[]ElectionSafety`, `[]VoteOnce` | `AtMostOneLeaves`, `Designated = None` |
| `LogsMatch` (the same) | `[]LogMatching` | the same |
| `IndicesStayWithin`, `CommittedStays` (the same) | `[]IndicesWithinLog`; `CommittedStable` | `MayLeave = {}`, `Designated = None`, more than one vehicle |
| `CommittedSchedulesAgree`, `LeadersAreComplete`, `CommittedNeverContradicted` (`LibRaftCommit`) | `[]CommittedAgree`, `[]LeaderCompleteness`, `[]NoCommittedConflict` | `MayLeave = {}`, `Designated = None`, more than one vehicle |
| `RaftImplementsAgreedLog` (the same) | `Spec => ImplementsAgreedLog`: `LibRaft` refines the agreed log, step by step | the same |
| `HeartbeatInvariant`, `HeardInTimeHolds`, `LeaderUndisturbedHolds` (`HeartbeatTimingProof`) | the bound on silence; the two properties of `heartbeat` | `TimeoutIsLong` for `HeardInTime`; request timeout at most the election timeout for `LeaderUndisturbed` |
| `ScheduleInvariant`, `EachScheduledOnce`, `BatchesAreClear` (`PassOrderProof`) | the loop invariant of `computePassOrder`; `[]ScheduledOnce`, `[]PathsClear` | the module's ASSUMEs |
| `EverybodyGoes`, `FrontsGoFirst`, `BlockersGo`, `PriorityGoesFirst` (the same) | `[]NobodyForgotten`, `[]FrontsLead`, `[]BlockersGoFirst`, `[]PriorityFirst` | the same |
| `CrossingInvariant`, `TurnsAreTaken`, `CountsAreRight` (`CrossingProof`) | `[]CrossingInv`, `[]TakeTurns`, `[]CountedLeft` | `OneOrder` |
| `ArrayInOrder`, `ArrayIsSequence` (`RaftLogProof`) | `[]ArrayInv`; `Spec => ImplementsSequence`, the refinement | the module's ASSUME |
| `ReadersAreRight`, `ReadersMissNothing`, `TailIsNewest` (the same) | `[]ReadsARun`, `[]WholeSuffix`, `[]TailIsLast` | the same |
| `FormationTypes`, `OwnClusterHolds`, `SameMembersHolds` (`ClusterFormationProof`) | `[]TypeOK`, `[]OwnCluster`, `[]SameMembers` | the module's ASSUMEs |
| `RoundIsRaft` (`SchedulingRoundProof`) | `RoundSpec => Spec`: a round is a run of `LibRaft` | – |
| `RoundTypesHold`, `LeadersWillPropose`, `OneProposalEachHolds` (the same) | `[]RoundTypeOK`, `[]WillPropose`, `[]OneProposalEach` | `RoundAssumption` |
| `RoundElectionSafe`, `FirstLeadersSubmit` (the same) | `[]ElectionSafety`, `[]ProposalSubmitted` | also `AtMostOneLeaves` |
| `RoundCommitsAgree` (the same) | `RoundSpec => []CommittedAgree` | also `MayLeave = {}` |

The assumptions are not for convenience: without `Designated = None` the run
`designated` is a counterexample, without `TimeoutIsLong` `heartbeatDefault` is, without
`OneOrder` `crossingTwoOrders` is, and without `AtMostOneLeaves` two departures out of
three vehicles give a term two leaders (section 5). `MayLeave = {}` is stronger than
one would like but cannot just be dropped: with one marked vehicle
`CommittedAgree` is false where logs and terms are long enough, by the history of
`next_idx` in section 5. `cluster` checks it with a marked vehicle at bounds that are below
that. A vehicle is marked only by vehicles that drive by a committed schedule, so
what is proved covers a round up to the first departure.

**The arguments.**

- *Types.* `TypeOK` is inductive. The steps that take work are those on indices:
  `next_idx` is decremented and must stay at least 1, and a suffix of the log
  from there must be a sequence of entries.
- *Elections.* `ElectionSafety` is not inductive: two leaders in one term are
  ruled out by the votes they counted some time ago. `ElectionInv` keeps the
  history: every view contains the vehicles that stay, and its owner (`ViewsHeld`); nobody granted two
  candidates a vote in one term (`VoteOnce`); a grant binds the vehicle as long as it is
  in that term (`GrantsBind`); the votes a candidate counts were granted to it
  (`CountedVotes`) and it counts its own (`OwnVote`); a leader has a majority
  of some view behind it (`LeadersElected`). Two majorities of views that lack at
  most the same one vehicle meet, and whoever is in both voted once.
- *Logs.* `LogMatching` is about logs only, and what keeps it is also about the frames
  under way. A *run* is a log or the part of one an AppendEntries carries. `LogInv` says:
  two runs that have an entry of one index and term have the same before it
  (`RunsAgree`); every term in a run was led by one vehicle, by `ElectionInv` no other
  can lead it (`TermsLed`); AppendEntries come from the leader of their term, so a
  leader never hears one of its own (`SendersLed`); and a leader has all there is of
  its term (`LeaderHasAll`), which is why the entry it appends is new. Every other
  step cuts runs, sends a part of one or merges a message into a log (`Merged`):
  a merged log is, at every index, one of the two it was made of.
- *Indices.* `IndexInv`, on top of `LogInv`: an AppendEntries reaches at least as far as
  the commit index it carries, and no further than the log of its sender while that one
  still leads the term (`EndsWithin`); a leader's `next_idx` is at most one past its log
  (`NextWithin`); what is acknowledged was sent (`RepliesWithin`). So a follower commits
  only what it holds, and a leader is only told of entries it has. Each step also keeps
  the committed part of the log, which is `CommittedStays`. These two assume that no
  vehicle is marked inactive while raft runs: `raft_become_leader` sets `next_idx`
  of its active nodes only, so the invariant as stated says nothing of the others.
- *Commits.* Raft's argument is usually told as a history: an entry is chosen when a
  majority has it, and every later leader has met that majority. Here it is
  an invariant of single states. `Have` is who holds the entry of a term at an
  index or acknowledged it, by the frames sent so far; an entry is `Blocked`
  when a majority is in later terms without being among them, which no step undoes
  (`BlockedStays`). `OpenSafe`: as long as an entry is not blocked, whoever has it, is as recent
  as it, or campaigns later with the vote of a vehicle that has it holds it, and
  every frame of its term or a later one follows it. This is inductive because it does not
  wait for the majority: a campaign that passes the entry by makes it blocked.
  A majority that has an entry meets every majority, so that a chosen one is never blocked
  (`ChosenSafe`), and `CommitCovered` says that whatever a vehicle has committed
  is covered by a chosen entry. `LeaderCompleteness`, `CommittedAgree` and
  `NoCommittedConflict` follow. `EveryStepCovers` sums up each action as what it does to
  logs, votes and acknowledgements (`CoverStep`), and the invariant is shown of that
  sum. The refinement maps the agreed log to the log of the vehicle
  that has committed furthest; a step grows it, or lets one vehicle read on.
- *Heartbeats.* `HeartbeatInv` bounds how long a follower has been silent by the
  cycle count and the time since the leader's last request timeout.
- *Schedule.* `ScheduleInv`: a vehicle in a pool or a lane queue is in no batch
  yet, each stands in one place only, the lanes to be released are not empty, and
  the paths of a batch do not cross. Vehicles leave a pool when they are placed,
  so nobody is placed twice. The rest is on top of that. `Everybody`: in step 3 who has no place stands
  in the pool, so the loop ends with an empty pool or a full schedule. `FrontsInv`: the
  pool has its fronts first whatever permutation the inconsistent
  comparator yields, because no neighbours in it stand the wrong way round. `QueuesInv`: the lane queues
  ascend by distance and hold everybody of an unreleased lane that has no place, and a lane
  is released only when its first priority vehicle and all before it have theirs.
  `BehindInv`: such a vehicle joins a batch only when those before it are in closed
  batches, since two of a lane never share one. `UrgentInv`: each batch of step 2 has a vehicle
  that goes on behalf of a priority vehicle, namely the one the batch was opened for.
  That a queue's head is its least element is induction along the queue; it is
  done by the least index at which it fails (`LeastNatural`, from the theorem
  that the order of the naturals is well-founded), which needs no induction theorem with an operator parameter.
- *Crossing.* `CrossingInv`: whoever has been told to go and has not given
  up has a batch counter that is right, that is, all of the earlier batches are
  past the junction, but for those it never heard of or could not look up (`WayIsClear`); the counts of the batch under way are of vehicles that left
  (`CountedLeft`); a vehicle without an order counts afresh (`CountsAfresh`); and one
  whose second timer is running has given up already (`GaveUp`).

- *Log array.* `ArrayInv` is inductive: `back` is always the slot `count` places behind
  `front`, modulo the size. The lemmas say what `%` does one step around the wrap.
  Each writer then maps to one step of `SequenceLog`: growing the array is a stutter of
  the contents, a refused entry stutters altogether. For `WholeSuffix` one more
  invariant is needed: without compaction the front stays at slot 0.
- *Formation.* `SameMembers` compares two vehicles that may never have heard each
  other, so the invariant is about every member set sent or formed (`Complete`): in
  cluster mode one vehicle of every lane, by the pigeonhole principle from the count
  the code compares, each of them with all before it gone, or misled about them (`AsFront`, in `FrontsOnly`);
in the other mode everybody. Two complete sets that differ over a lane have different
vehicles there; one stands behind the other, and stood as a front only because that one had
been set in motion or because it was itself misled. Being gone and having been misled are never undone,
so that what was true of a set when it was sent stays true.
- *Round.* `RoundIsRaft` goes action by action, whereby a proposal is `RecvEntry` or
  nothing. `OneProposalEach` needs `PlaceInv`: whatever log or AppendEntries frame holds an
  entry of a vehicle, that vehicle has set `passOrderProposed_` (`OwnersProposed`) and it is
  the same entry at the same index everywhere (`OnePlace`); every step of raft only
  copies entries that are somewhere already (`NoNewPlace`), but for `RecvEntry`.
  `WillPropose` is inductive together with: who waits still lacks an answer.
  `ProposalSubmitted` needs `SubmitInv`: whoever leads, believes to lead or has proposed has sent an
  AppendEntries of its own, the trace by which the property tells a first leadership
  from a second; a first leader's log has only grown since it proposed.

**Only model-checked:** the liveness properties `Terminates`, `EveryonePasses` and
`QuorumForms`; liveness under fairness is beyond the proof system used. All
invariants and action properties of the passing runs and both refinements are
proved, each under the assumptions in the table. Where a run goes beyond these (`cluster`
with a vehicle marked while raft runs, for `CommittedAgree` and `ImplementsAgreedLog`), that case
is only model-checked, at its bounds.

## 8. What is not modelled, and why

- Later rounds (`startNewRound`, `allowMultipleRounds`, `forceFormCluster_`): `Crossing` has
  the start of one, in which a vehicle promoted to the front forgets its order
  (`PromotedToFront`), but not what the new cluster decides. A later round is a second
  cluster, with raft terms from 0, beside vehicles that drive by the first one's
  schedule. Planned.
- `allVehicles` mode in RaftCore: there the leader proposes what it knows, without
  asking, at once or at its first stop. `LibRaft` and `Crossing` allow for it;
  `SchedulingRound` is the mode that collects.
- The merge of the collected proposals: `PassOrder` takes any set of proposals.
- Gossip (`gossipIfNew`, `allVehicles` mode): a relayed frame is a repeated one, and a
  frame the duplicate filter drops is a lost one; the modules allow for both.
  It has no part in `QuorumForms`, which is about `cluster` mode, where nothing is relayed.
- Peer beacons: what they tell about a vehicle is an input of `PassOrder`, who has
  heard whose is `Heard` of `Crossing`.
- Signatures (`lib/crypto`): pure functions around OpenSSL. A proposal in the
  model is one that was accepted.
- Metrics, results file, plots, scripts: no protocol state; nothing reads it back.
- Generated messages (`*_m.cc`) and `veins_inet`: generated and third-party code.
- Snapshots, configuration changes and non-voting nodes of the library: unused.
  (`RaftLog` does have the operations of the array that snapshots would use.)
- A vehicle caught inside the junction by a short approach
  (`handleClusterJunctionStop`).

## 9. The plan

Order by importance. Done: 1–7.

1. `LibRaft` with `AgreedLog`; types, elections, logs, indices, commits and the
   refinement proved.
2. `HeartbeatTiming`; proved.
3. `PassOrder`; its safety proved.
4. `Crossing`; turns and counts proved.
5. `SchedulingRound`, composed with `LibRaft`; proved.
6. `ClusterFormation`; its safety proved.
7. `RaftLog` with `SequenceLog`; proved, the refinement included.
8. `IntersectionSystem`: rounds one after another (`startNewRound`), composed of
   `ClusterFormation` and `Crossing`; frames of an old round met in a new one, and
   vehicles of a later cluster that drive beside those of an earlier one.

Proofs to come: indices and commits when one vehicle is marked, under a bound on the
entries of a leadership that keeps the history of section 5 out (`OneProposalEach` gives
one in a round); election safety for several departures that all others notice
before the next campaign.

## 10. How to run

    tlc -workers 2 -config LibRaft_cluster.cfg MCLibRaft.tla
    tlc -workers 2 -config HeartbeatTiming_long.cfg HeartbeatTiming.tla
    tlc -workers 2 -config SchedulingRound.cfg MCSchedulingRound.tla
    tlapm LibRaftProof.tla
    tlapm LibRaftCommit.tla
    tlapm SchedulingRoundProof.tla

The other runs are named in `PROJECT.json` with their module and configuration.
