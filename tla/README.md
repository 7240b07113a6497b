# TLA+ models of duva's cluster actor and client request parser

This directory holds TLA+ models of three parts of duva and the TLC
configurations that check them:
- the replication and election core of `ClusterActor`
  (`src/duva/src/domains/cluster_actors/actor.rs`);
- the hash-ring rebalancing, key migration and write gate of the same actor;
- the membership of the same actor: members, ban list, idle eviction,
  gossip heartbeats, joins and `CLUSTER FORGET`;
- the client command parser
  (`src/duva/src/presentation/clients/request.rs`).

 `PROJECT.json` lists:
- every component, modelled or not;
- every run and its expected outcome;
- one mutant per checked property;
- the source lines that each definition models;
- the findings and the hazards of the code.

## The system and how its parts interact

A duva node runs one `ClusterActor`. It is a single task that takes commands
off a bounded mailbox and handles each one to completion before the next:
client writes, messages from peers, and scheduler ticks. The peers of a shard
group (one `ReplicationId`) run a Raft-like protocol.

- **Write path.** A client connection parses a request
  (`ClientRequest::from_user_input`). Writes are the actions for which
  `consensus_required` holds; they are turned into a `WriteRequest` and sent
  to the actor as `leader_req_consensus`.
  - A session already in `client_sessions` is answered `AlreadyProcessed`.
  - Otherwise `req_consensus` appends the entry to the WAL. In a one-peer
    group it answers at once. Otherwise it registers the entry with the
    `LogConsensusTracker` and sends `AppendEntriesRPC` to the replicas.
- **Follower path.**
  1. `append_entries_rpc` runs `check_term_outdated` and then
     `reset_election_timeout` and `maybe_update_term`.
  2. `replicate_log_entries` writes the entries.
     - If the previous entry does not match, it drops the suffix and rejects.
     - It records the entries' sessions.
     - It replies with an ack or a rejection.
  3. `replicate_state` applies entries up to the leader's hwm.
- **Acks.** `ack_replication` updates `match_index`, or handles a rejection
  (a higher term, a log inconsistency or a failed write).
  `track_replication_progress` then counts the ack. Once the required count
  is reached, it raises `hwm` and answers the client `LogIndex(i)`.
- **Election.** The `HeartBeatScheduler` runs in leader mode (it fires
  `send_rpc`) or in follower mode (it fires election timeouts, which call
  `run_for_election`). Peers answer `RequestVote` in `vote_election`. The
  candidate counts votes in `receive_election_vote` and calls
  `become_leader` once it has enough.
- **Rebalancing.** `CLUSTER MEET <peer> eager` ends in a `RebalanceRequest`
  for the actor.
  1. `rebalance_request` closes the write gate (`block_write_reqs`) and asks
     the peer to coordinate (`StartRebalance`).
  2. `start_rebalance` computes the new ring and closes the coordinator's own
     gate. It sends the ring in a heartbeat to every peer and calls
     `maybe_update_hashring` itself.
  3. In `maybe_update_hashring`, a leader with no key to move just takes the
     ring. A leader with keys to move closes its gate and spawns one task per
     batch. Each task sends `ScheduleMigrationBatch` back to the actor.
  4. `migrate_batch` reads the keys, records the batch in
     `pending_migrations` and sends it. The receiver commits it as an `MSet`,
     and a spawned task applies it and acks (`send_batch_ack`).
  5. `handle_migration_ack` commits a `Delete` of the keys. Its task then
     sends `TryUnblockWriteReqs`.
  6. Once no batch is pending, `unblock_write_reqs_if_done` takes the new
     ring and reopens the gate. A spawned task re-sends the held writes.
  While the gate is closed, `leader_req_consensus` queues writes in
  `pending_requests`.
- **Membership.** A leader-mode scheduler fires `send_cluster_heartbeat`
  every heartbeat interval. It evicts members not seen for `node_timeout`
  (`remove_idle_peers`). It then sends every member a heartbeat that lists
  its members and itself, carries its ban list, and has the hop count
  `hop_count(FANOUT, members.len())`. `receive_cluster_heartbeat` works in
  this order:
  1. it drops the heartbeat if the sender is banned;
  2. `apply_banlist` merges the sender's bans, keeping the later ban time,
     prunes bans 60 s old, and removes every banned member;
  3. `update_cluster_members` touches `last_seen` of every listed member;
  4. `join_peer_network_if_absent` connects to the first listed node with a
     lower id that is neither a member nor banned;
  5. `gossip` forwards a heartbeat with the hop count less one.

  `connect_to_server` spawns the outbound handshake, and the other side's
  `accept_inbound_stream` spawns the inbound one. Each ends in `add_peer`,
  which unbans the peer and inserts it. `CLUSTER FORGET` (`forget_peer`)
  removes the peer and bans it for 60 s.
- **Not modelled:** REPLICAOF, and the connect step of `CLUSTER MEET`. See
  below.

## Modules

### `Replication.tla` (actor.rs: replication and election)

**State.**
- These variables are the fields of `ClusterActor` and `ReplicationState`:
  `currentTerm`, `role`, `electionState`, `hwm`, `matchIndex`
  (`members[p].match_index`), `tracker` (the consensus tracker) and
  `sessions` (`client_sessions`).
- `schedMode` is the mode of the heartbeat scheduler.
- `log` is the WAL. A hole left by a failed write is `NoEntry`.
- `applied[n][i]` is what `apply_log` was last given for index i.
- Peers talk over per-peer FIFO streams `chan[m][n]`. `lost` counts the
  messages lost so far.
- `replies` and `votes` are history variables: every answer a client got,
  and every vote granted.

**Actions.**
- There is one action per handler: `LeaderReqConsensus`, `SendRpc`,
  `RunForElection`, `AppendEntriesRPC`, `AckReplication`, `VoteElection`
  and `ReceiveElectionVote`.
- The fault action `LoseMessage` drops one message from a stream. The code
  discards the result of every peer send (`let _ = peer.send(..)`, e.g.
  actor.rs:793), so a failed write loses the message and the handler
  carries on. `MaxLost` bounds the losses.
- Each action includes every helper the handler calls:
  - `ReqConsensus`, `TrackReplicationProgress` and `HandleReplRejection`;
  - `Replicate`, `PrevConsistent` and `ReplicateState`;
  - `BecomeLeader`, `BecomeCandidate` and `StepDown`.
- Early returns and error paths are disjuncts: a follower answering "not
  leader", a WAL failure, a rejection for a higher term, for log
  inconsistency, or for a failed write.
- A bounded `send().await` blocks the actor while the stream is full. The
  conjunct `Fits` models this: every stream holds at most `MaxChan`
  messages after the step.

**Collaborators outside `src/`**, modelled from `spec.md` and marked
`spec_modelled` in the map:
- the WAL operations;
- `become_follower_if_term_higher_and_votable`;
- the election and consensus vote counts (`ElectionRequired`,
  `RequiredVotes` = ceil((rc+1)/2)-1, spec 4.C);
- the scheduler.

Two modelling choices follow the specification where the caller is not
under `src/`:
- the scheduler calls `send_rpc` in leader mode (spec 4.E);
- `step_down` sets the follower role.

### `ClientRequest.tla` (request.rs: command parsing)

**State.** The state is the input (a command token followed by up to
`MaxArgs` argument tokens) and the parse result. The single action `Parse`
is `from_user_input`.

**Operators.** `ExtractAction`, `ExtractSet`, `ExtractGet`, `ExtractCluster`
and `ExtractExpiry` follow the match arms and their early returns.
`ConsensusRequired` and `ToWriteRequest` are the `ClientAction` conversions.

**Abstractions.**
- Letter case is abstracted. Payloads are a few tokens, and numbers are
  strings with a value (`NumVal`).
- Time uses a scaled axis: `Now` stands for `Utc::now()`, `DateBound` for
  chrono's range, and `U64Mod` for 2^64. The order of the scale is kept:
  now < range < 2^64.

### `Rebalance.tla` (actor.rs: rebalancing, migration, write gate)

**State.**
- Each shard group is represented by its leader. The per-leader variables
  are `ring` (`hash_ring`, as a key-to-group function), `cache` (the
  `CacheManager`), `pendingReqs` (`pending_requests`), `pendingMig`
  (`pending_migrations`) and `mailbox` (the actor's command queue).
- `inflight[g]` is the group's consensus queue. Consensus is abstracted to
  in-order commits, which `Replication.tla` checks separately.
- `tasks` is the set of live spawned tokio tasks: batch schedulers, MSet and
  Delete waiters, and the drain task.
- `wkey`, `reply` and `commitLog` record the clients' writes, their answers
  and the order in which they committed.

**Actions.**
- There is one action per handler: `RebalanceRequest`, `StartRebalance`,
  `ReceiveRing` (the hashring of `receive_cluster_heartbeat`),
  `MigrateBatch`, `ReceiveBatch`, `SendBatchAck`, `HandleMigrationAck`,
  `UnblockWriteReqsIfDone` and `LeaderReqConsensus`.
- There is one action per task body: `ScheduleTask`, `MSetWaitTask`,
  `DeleteWaitTask` and `DrainTask`.
- `Commit` stands for consensus and `Submit` for a client.
- `MaybeUpdateHashring` is part of both `StartRebalance` and `ReceiveRing`.
  `Batches` cuts batches as the code does: pop from the back, and close a
  batch once it holds more than `BatchCap` (100 in the code) keys.
- Each task waits for its own consensus entry to commit (`Committed`).

**Abstractions.**
- `HashRing` is outside `src/`. The ring after the meet is the constant
  `NewRing`, and the migration plan is the set of held keys whose owner
  changes (`MovingKeys`).
- A value is the id of the write that set it.
- Every ack duva sends is a success, so the failure branch of
  `handle_migration_ack` is not reachable here.

### `Membership.tla` (actor.rs: members, ban list, gossip)

**State.**
- `members[n]` is n's members map.
- `lastSeen[n][m]` is `Peer::last_seen`.
- `ban[n][m]` is the ban time of m in n's `banlist`, or `None`.
- `clock[n]` serves both `time_in_secs()` and `Instant::now()`. Clocks run
  at one rate; wall clocks may differ by at most `MaxSkew`.
- `alive` holds the open peer connections.
- `chan[a][b]` is the FIFO of heartbeats from a to b.
- `adding` holds the `add_peer` commands that spawned handshake tasks still
  have to deliver.
- `beat` holds the leaders that have sent this interval's heartbeat.
- The history variable `forgot` feeds `ForgottenStaysOut`. The counters
  `nForgets` and `nConnects` bound the client's forgets and the joins.

**Actions.** One per handler:
- `SendClusterHeartbeat`;
- `ReceiveClusterHeartbeat`, built from `ApplyBanlist` (`MergeBans`,
  `RetainBans`), `UpdateClusterMembers`, `JoinPeerNetworkIfAbsent` (which
  calls `ConnectToServer`) and `Gossip`;
- `AddPeer`;
- `ForgetPeer`;
- `Tick`, which advances the clocks by one heartbeat interval.

**Kill.** `remove_peer` kills the connection. Of what either side had
queued on it, a prefix may already be in the other actor's mailbox (`Killed`).
Such a heartbeat is still handled after the kill, and this is how a banned
sender's heartbeat reaches the ban check.

**Details from the code.**
- `hop_count` is `ILog`, an integer logarithm. With `FANOUT` ≥ 2 and more
  members than `FANOUT`, `ilog` cannot panic, and the u8 cast cannot
  overflow.
- `members` is a `BTreeMap`, so `cluster_nodes` lists members in id order
  and the sender last. `FirstListed` is the node that
  `join_peer_network_if_absent` picks.
- The retain of `apply_banlist` subtracts in u64. A ban time ahead of the
  local clock wraps, and the entry is pruned (`Retained`). This is the
  release build; a debug build panics instead, which is not modelled.

**Abstractions.**
- `remove_idle_peers` runs only in `send_cluster_heartbeat`. Only
  leader-mode nodes (the constant `Leaders`) send it, so only they evict.
- The `add_peer` heartbeat to a new follower, `update_peer_index`, the
  heartbeat's hashring, and the topology broadcast and snapshot are left to
  `Replication`, to `Rebalance`, or out.
- A failed handshake is folded into the failed-connect branch of
  `ConnectToServer`.

### `WriteGate.tla` (the write gate's promise)

`WriteGate.tla` is an abstract FIFO gate with four steps:
- `Block` closes the gate;
- `Hold` appends a write to the queue;
- `Open` releases the whole queue behind earlier releases;
- `Readmit` decides the oldest released write, or holds it again.

`Rebalance.tla` instantiates it once per leader: `Gate(g) == INSTANCE
WriteGate WITH ...`. The mapping is:
- `blocked` is `pendingReqs[g] # None`;
- `queue` is the held writes;
- `released` (`Released(g)`) is the re-sent writes still in the mailbox,
  followed by the writes the drain task has not yet sent.

`GateRefinement` checks this as a property.

### MC modules

`MCMembership.tla` numbers four peers 1..4 and starts them fully connected
(`MCMesh`). A full member map then has three peers, above `FANOUT` 2, so
leader heartbeats gossip one hop further. A client may send
`CLUSTER FORGET 1` to node 4 (`MCForgets`).

`MCReplication.tla`, `MCClientRequest.tla` and `MCRebalance.tla` give the
constants model values. The first two also define the symmetry sets.
Symmetry is applied only to peers that the initial state treats alike: the
followers of a fixed initial leader, or all peers when none leads. No
liveness run uses symmetry.

`MCRebalance.tla` sets up two leaders, A and B, and three keys:
- A holds k1 and k3, and B holds k2;
- each ring first covers only its own group, as after `ClusterActor::new`;
- the new ring moves k1 to B and k2 to A;
- A runs `CLUSTER MEET B eager`, so B coordinates.

## Runs

Each `.cfg` starts with a comment that says what it sets up.

| run | what it checks | result |
|---|---|---|
| `stable` | 3 peers, n1 leads term 0, 2 sessions, 2 entries, 1 WAL failure, streams of 2, under `FairSpec`. Checks `AppliedOnlyCommitted`, `MatchIndexSound`, `CommittedOnMajority`, `WriteEventuallyAnswered` and `CommittedEventuallyApplied`. | pass, 73k states, about 1.5 min |
| `election4` | 4 interchangeable peers (symmetry), no initial leader, one term, one client write, one lost message, streams of 2: elections, rejected, split and lost votes, step-downs, replication. Checks `TypeOK`, `ElectionSafety` and `ElectedByMajority`. | pass, 432k states, about 1 min |
| `client_parse` | All 21 command names with up to 4 arguments from 12 tokens. Checks `TypeOK` and `WritesReachConsensus`. | pass, 950k states |
| `rebalance` | A and B exchange keys in batches of one. Two clients write k1 (moving) and k3 (staying) at A. A's first mailbox message is the `RebalanceRequest`, so every write reaches A after its gate has closed: it is held, or answered `MOVED` once the gate reopens with the new ring. Runs under `FairSpec` and checks `TypeOK`, `KeyAtOwnerOnly`, `AckedWritesDurable`, `GateRefinement` and `WriteEventuallyAnswered`. | pass, 7.9k states |
| `membership` | 4 peers, synchronised clocks, node 4 in leader mode, one forget, one join. Checks `TypeOK`, `BannedNotMember` and `FreshBanEvicts`. | pass, 262k states, about 2.5 min |
| `v_failover_log` | `LogMatching` after a failover | violated |
| `v_stale_vote` | `ElectionSafety` with two terms | violated |
| `v_zombie_commit` | `LeaderHoldsCommitted`: 3 peers, n1 leads term 0, one election | violated |
| `v_coordinator_stuck` | `WriteEventuallyAnswered` when B holds no key | violated |
| `v_lost_update` | `AckedWritesDurable` with writes to k2 at A | violated |
| `v_ban_skew` | `FreshBanEvicts` with wall clocks one second apart | violated |
| `v_single_retry` | `SessionCommittedOnce`: a one-peer group, one session that submits twice | violated |

In `rebalance`, `KeyAtOwnerOnly` and `AckedWritesDurable` are read at
quiescence: every mailbox, consensus queue and task is empty. That is where
spec section 8 states them. The run reaches quiescence with held writes
drained and committed after the gate reopened, and with writes answered
`MOVED`. Writes that are in consensus when the gate closes are the case of
`MCRebalance_v_inflight_orphan.cfg`.

### What the violations show

The findings in `PROJECT.json` give the details.
- **`v_failover_log`.** `replicate_log_entries` keeps only the entries
  whose index is above the follower's `last_log_index` (actor.rs:822). It
  does not compare terms, so a new leader's entry at an index the follower
  already holds with an old term is skipped. `ensure_prev_consistency`
  truncates on a term mismatch at `prev_log_index` (:865-868), but here the
  previous entry matches. The follower therefore keeps an old-term entry
  under the new leader's entries.
  `MCReplication_v_divergent_apply.cfg` continues this to a follower
  applying, at a committed index, a different write (`AppliedIsCommitted`).
- **`v_stale_vote`.** `receive_election_vote` counts a vote without looking
  at its term, and two leaders of one term are elected.
- **`v_zombie_commit`.** n1 leads term 0 and appends a write. n2 is
  elected in term 1, and n1 is demoted by `maybe_update_term`, which leaves
  its scheduler in leader mode. The scheduler fires `send_rpc` (:331),
  which checks no role: n1 sends its term-0 entry under term 1, n3 (a
  follower of n2) accepts it, and `track_replication_progress` answers the
  client `LogIndex`. Leader n2 never held the entry. Spec section 8 says a
  write answered `LogIndex` is durable.
- **`v_coordinator_stuck`.** `start_rebalance` closes the coordinator's gate
  (:500). If the coordinator has no key to migrate, `maybe_update_hashring`
  takes the ring and spawns no batch. No `TryUnblockWriteReqs` ever comes,
  and writes to the coordinator stay queued for good. This is the case of
  an empty leader joining a cluster.
- **`v_lost_update`.** A reopens its gate and takes the new ring when its
  own batch is acked (:1265). B's batch of k2 may still be on its way. A
  commits and answers a client write to k2, and the later `MSet` overwrites
  it with the old value.

- **`v_ban_skew`.** Node 4's clock is a second ahead. It forgets node 1,
  and its heartbeat carries the ban to a node whose clock is behind the ban
  time. `current_time_in_sec - node.ban_time` wraps in u64 (:663), the
  fresh ban is pruned, and node 1 stays a member there. Spec scenario 6
  says every recipient removes the banned peer.
- **`v_single_retry`.** With no replica, `req_consensus` raises hwm and
  answers `LogIndex` at once (:320-324). It never calls
  `client_sessions.set_response`, so `is_processed` (:277) does not find a
  retry of the same request. The retry is written and committed again. Spec
  section 8 says re-delivery is a no-op, and scenario 1 answers a duplicate
  `AlreadyProcessed`.

These further configurations reproduce code behaviour that disagrees with
`spec.md`. The hazards cite them. They are kept out of the run list so that
it stays at twelve runs.
- `MCReplication_v_retry_race.cfg` (`SessionCommittedOnce`): a retry of a
  pending write is appended again and both commit. `v_single_retry` shows
  the one-peer case.
- `MCReplication_v_hwm_skip.cfg` (`CallbackAfterHwm`): hwm rises by one
  per commit (`fetch_add(1)`, :782). Three peers, one WAL failure and two
  writes in flight: `LogIndex(2)` is answered while hwm is 1.
- `MCMembership_v_forget_undone.cfg` (`ForgottenStaysOut`): node 4 evicts
  idle node 1. A heartbeat left in its mailbox lists node 1, so node 4
  joins it. `CLUSTER FORGET 1` runs while the handshake is under way.
  `add_peer` then unbans node 1 and re-adds it inside the 60 s ban
  (:163); an inbound accept (:217) checks no ban either.
- `MCReplication_v_lost_write.cfg` (`WriteEventuallyAnswered`): only the
  tracker entry named by the ack is answered. A write whose own ack never
  comes is never answered. `MCReplication_v_lost_ack.cfg` reaches the same
  outcome with one failed WAL write and one lost message.
- `MCRebalance_v_batch_race.cfg` (`KeyAtOwnerOnly`): A sends two batches.
  - The first batch's `TryUnblockWriteReqs` reopens A's gate before the
    second batch is scheduled.
  - `migrate_batch` then records nothing (`pending_migrations` is `None`),
    and the ack is ignored.
  - The second batch's key stays at A as well as at B.
- `MCRebalance_v_inflight_orphan.cfg` (`KeyAtOwnerOnly`): a write accepted
  at B before its gate closed commits after `maybe_update_hashring` read B's
  keys, so the key is never migrated.
- `MCReplication_v_zombie_sched.cfg` (`SchedulerFollowsRole`):
  `maybe_update_term` demotes a leader and leaves its scheduler in leader
  mode.
- `MCReplication_v_follower_session.cfg`
  (`AlreadyProcessedOnlyAfterCommit`): sessions recorded on receipt survive
  a failover.
- `MCReplication_v_even_quorum.cfg` (`CommittedOnMajority`): with four
  peers, spec 4.C's formula commits on two of four.
- `MCClientRequest_v_expiry_wrap.cfg` (`ExpiryIsRequestedInstant`): a
  negative expiry instant wraps through `as u64` to the far future
  (request.rs:49).
- `MCClientRequest_v_expiry_panic.cfg` (`ParseNeverPanics`): a large `PX`
  panics in `Utc::now() + Duration` (request.rs:304).

### Bounds

- Three peers are the smallest group in which a leader, a lagging follower
  and a competing candidate all exist.
- Four peers give an even quorum (`v_even_quorum`). In `stable`, a write
  waits for one of two replica acks, and an ack for an earlier index
  arrives while a later entry is tracked: `TrackReplicationProgressLaterRecs`
  breaks `CommittedOnMajority` there.
- Two log entries and two sessions are enough for a hole, a retry and a
  truncation.
- Terms 0..1 (0..2 for the stale vote) give one complete failover.
- `election4` needs four peers: with three, one vote elects, so neither a
  double vote nor a counted rejection can produce a second or a minority
  leader, and the election mutants go unnoticed.
- Streams of length 2 are needed for a candidate's broadcast to share a
  stream with an older message.
- In the parser, four arguments cover `SET k v PX ms` and
  `CLUSTER MEET host:port lazy`. The tokens include every word a match arm
  compares with, a number that is negative enough to cross the epoch, and
  one beyond chrono's range.
- In rebalancing, two leaders and three keys let keys move both ways and
  let one key stay. Two writes are enough for two held writes at one gate,
  which is what the drain order needs (`DrainOrderLifo` breaks
  `GateRefinement`). Batches of one key (`BatchCap` 0) make every key its
  own batch. The passing run gives each leader a single batch: two batches
  at one leader hit the batch race above.

- In membership, four peers are the fewest for which `hop_count` is above
  0 with `FANOUT` 2. Only node 4 is in leader mode. With every node in
  leader mode the run exceeds 4M states. Two clock values (0 and 1) with a
  one-second ban and a zero idle timeout are enough to reach the following:
  a fresh ban, an expired ban, an idle eviction, and a rejoin by gossip.
  One forget and one join are the fewest for a ban, its spread and a
  handshake racing it. Streams hold one heartbeat; a full stream makes the
  sender wait, as the bounded peer channel does.

### Fairness

`FairSpec` assumes weak fairness of every peer's handlers of
`AppendEntriesRPC`, `ReplicationAck`, `RequestVote` and `ElectionVote`: the
actor drains its mailbox. It also assumes weak fairness of the leader-mode
`send_rpc`: the scheduler ticks on a timer. Client writes and election
timeouts are not forced, because the code does not guarantee them.

`CommittedEventuallyApplied` rests on the scheduler's weak fairness: a
replica outside the acking majority learns the new hwm, and a replica whose
WAL write failed gets the entries again, only from a later `send_rpc`
(`replicate_state` is the only place a follower applies, actor.rs:904). A
scheduler that skipped heartbeats while no replica lags
(`SendRpcOnlyLagging`) leaves the last write unapplied at some replica.

Liveness is checked with one leader only. Across a failover, convergence of
the logs cannot hold as the code stands. The demoted leader's scheduler
keeps replicating (`v_zombie_commit`), and an empty heartbeat never
truncates a follower log that is longer than the leader's
(`replicate_log_entries` returns early on no entries, :813). Streams this
short also let two candidates wait on each other's full streams, which the
real peer channels, with their larger buffers, do not.

`Rebalance`'s `FairSpec` assumes weak fairness of each leader's actor step,
of each group's commits and of the spawned tasks. The actor loop takes
every command in turn, and tokio runs every spawned task. Clients are not
forced to write.

`Membership` checks only safety and has no fairness. Its behaviours end when
the clocks reach `MaxClock`, so deadlock is not checked.

`GateRefinement` is a safety property, and it allows new writes to overtake
held ones while the drain task runs (actor.rs:1279). `WriteGate` promises
order only among held writes.

## Not modelled, and the plan

- **Rebalancing, not yet modelled.**
  - Replicas of a group: they only swap the ring.
  - The lazy meet.
  - Failed migration acks: duva sends none.
  - Rings ordered by `last_modified`: there is one new ring here.
  - More than two groups.
- **Membership, not yet modelled.**
  - Node crashes, and the liveness of idle eviction. A follower never evicts
    (actor.rs:236), and any live peer that lists a dead node keeps it
    fresh (:1308).
  - The debug-build panic of the ban retain.
  - `CLUSTER FORGET` of a node's own id.
- **Further properties.**
  - Liveness of the truncation loop (actor.rs:998).
  - Leader completeness through an election alone. `LeaderHoldsCommitted`
    states it, but its run stops at the shorter zombie-leader path, so no
    run isolates the index-only up-to-date check in `vote_election`
    (actor.rs:351).
  - Re-apply counting in `replicate_state`.
- **Message loss with liveness.** `LoseMessage` is checked for safety
  (`election4`) and, in reproductions, for liveness. `stable` keeps its
  streams lossless, because a lost message plus its failed WAL write would
  make `WriteEventuallyAnswered` fail through the known tracker bug.
  Messages are lost, never duplicated or reordered: each peer stream is one
  TCP connection.
- **REPLICAOF.** `replicaof` (actor.rs:429) resets the WAL, hwm and replid,
  steps down and connects. The peer record it then gets, with the peer's
  replid and `match_index`, comes from the stream handshake. That handshake
  is outside src and the specification does not describe it, so the model
  has no faithful starting `match_index` for the new follower.
- **The connect step of `CLUSTER MEET`.** `cluster_meet` (actor.rs:441)
  connects, and `register_delayed_schedule` (:1001) queues
  `RebalanceRequest` whatever the result. `Rebalance` starts once the meet
  has connected, with that request queued and no write yet at A.
  - A copy of `Rebalance` with the connect, the handshake task, `add_peer`
    and the delayed schedule as actions was checked with writes only to k3.
    A meet answered OK was always followed by the rebalance.
  - With writes to keys that move, it fails `AckedWritesDurable`. A write
    sent to A while it connects is still in consensus when the gate closes.
    That is the in-flight race of `MCRebalance_v_inflight_orphan.cfg`, now
    at the initiator.
  - Checking the migration from a clean gate and reproducing that race
    cannot be the same run. The listed run checks the migration.
  - Not checked: a repeated `CLUSTER MEET` to a peer already met. It blocks
    A's writes at :480, and nothing unblocks them. This is the missing
    unblock of `v_coordinator_stuck`, and it is listed as a hazard.
- **Out of scope.** Topology snapshot files and reply formatting are I/O and
  text. No property here depends on them.
