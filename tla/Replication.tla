----------------------------- MODULE Replication -----------------------------
(***************************************************************************)
(* Log replication and leader election of duva's ClusterActor, for the    *)
(* peers of one shard group (one ReplicationId).                          *)
(*                                                                         *)
(* Source: src/duva/src/domains/cluster_actors/actor.rs.  Every peer is a  *)
(* single actor that handles one command to completion before the next,  *)
(* so each handler below is one atomic action.  Peers talk over per-peer  *)
(* FIFO streams: chan[m][n] is the ordered stream from m to n.            *)
(*                                                                         *)
(* The collaborators that are not under src/ (ReplicationState's voting  *)
(* rule, ElectionVoting, LogConsensusTracker, the HeartBeatScheduler and  *)
(* the WAL) are modelled from spec.md and marked so in PROJECT.json.      *)
(***************************************************************************)
EXTENDS Naturals, Sequences, FiniteSets, SequencesExt

CONSTANTS
    Node,          \* the peers of the shard group
    Session,       \* client session requests (idempotency tokens)
    None,          \* "no value" (voted_for = None, session_req = None)
    NoEntry,       \* what read_at returns for an index the WAL does not hold
    InitLeader,    \* the peer started as leader, or None
    MaxTerm,       \* bound: no election is started at term MaxTerm
    MaxLog,        \* bound: the leader appends no entry beyond index MaxLog
    MaxChan,       \* bound: a scheduler/client step waits while a stream is this long
    MaxSubmits,    \* bound: number of client write submissions
    MaxWalFaults,  \* bound: number of failed WAL writes
    MaxLost        \* bound: number of messages lost

ASSUME InitLeader \in Node \cup {None}
ASSUME MaxTerm \in Nat /\ MaxLog \in Nat /\ MaxChan \in Nat \ {0}
ASSUME MaxSubmits \in Nat /\ MaxWalFaults \in Nat /\ MaxLost \in Nat

Leader == "Leader"
Follower == "Follower"

VARIABLES
    currentTerm,   \* replication.term
    role,          \* replication.role
    electionState, \* replication.election_state
    schedMode,     \* heartbeat_scheduler mode: Leader fires ticks, Follower elections
    log,           \* the WAL behind logger: index -> entry, or NoEntry for a hole
    hwm,           \* replication.hwm
    applied,       \* applied[n][i]: the entry apply_log was last given for index i
    matchIndex,    \* matchIndex[n][p]: members[p].match_index at n
    tracker,       \* consensus_tracker at n: set of pending consensus records
    sessions,      \* client_sessions at n: processed session requests
    chan,          \* chan[m][n]: messages in flight from m to n, in order
    submits,       \* client writes submitted so far
    walFaults,     \* WAL write failures so far
    lost,          \* messages lost so far
    replies,       \* history: every callback answer a client received
    votes          \* history: every vote granted, [voter, cand, term]

vars == <<currentTerm, role, electionState, schedMode, log, hwm, applied,
          matchIndex, tracker, sessions, chan, submits, walFaults, lost, replies, votes>>

-----------------------------------------------------------------------------
(* ElectionState: Follower{voted_for}, Candidate{voting}, Leader.          *)
ESFollower(v) == [kind |-> "Follower", votedFor |-> v, granted |-> 0, required |-> 0]
ESCandidate(r) == [kind |-> "Candidate", votedFor |-> None, granted |-> 0, required |-> r]
ESLeader == [kind |-> "Leader", votedFor |-> None, granted |-> 0, required |-> 0]

Entry == [term : 0..MaxTerm, sess : Session \cup {None}]

Replicas(n) == Node \ {n}
ReplicaCount(n) == Cardinality(Replicas(n))


(* LogConsensusTracker::add: required_votes = ceil((replica_count+1)/2) - 1 *)
RequiredVotes(rc) == ((rc + 2) \div 2) - 1

ElectionRequiredHalf(rc) == rc \div 2

(* ElectionVoting::new(replica_count): a strict majority of the replica   *)
(* set, self included, so the peers must grant floor((rc+1)/2) votes.     *)
ElectionRequired(rc) == (rc + 1) \div 2

LastIdx(n) == Len(log[n])
Present(lg, i) == i \in 1..Len(lg) /\ lg[i] # NoEntry
TermAt(lg, i) == IF Present(lg, i) THEN lg[i].term ELSE 0

(* Message constructors.  The sender is the stream the message is on.     *)
AckMsgPrev(t, idx) == [type |-> "Ack", term |-> t, logIdx |-> idx - 1, granted |-> TRUE, reason |-> "None"]
AckMsg(t, idx) == [type |-> "Ack", term |-> t, logIdx |-> idx, granted |-> TRUE, reason |-> "None"]
RejectMsg(t, idx, why) == [type |-> "Ack", term |-> t, logIdx |-> idx, granted |-> FALSE, reason |-> why]

(* ReplicationState::default_heartbeat(0, last_log_index, last_log_term)  *)
DefaultHeartbeat(n, lg) ==
    [type |-> "AE", term |-> currentTerm[n], hwm |-> hwm[n],
     prevIdx |-> Len(lg), prevTerm |-> TermAt(lg, Len(lg)), entries |-> <<>>]

(* logger.list_append_log_entries(from): the held entries above index from *)
EntriesAbove(lg, from) ==
    SelectSeq([k \in 1..(Len(lg) - from) |-> [idx |-> from + k, e |-> lg[from + k]]],
              LAMBDA x : x.e # NoEntry)

(* take_low_watermark: the least match_index over the replicas           *)
LowWatermark(n) == CHOOSE w \in {matchIndex[n][p] : p \in Replicas(n)} :
                        \A p \in Replicas(n) : w <= matchIndex[n][p]

(* iter_follower_append_entries: the AppendEntriesRPC built for replica p *)
(* from log lg.  A replica that needs every listed entry gets the entry   *)
(* below them (or (0,0)) as previous entry, one that has some gets the   *)
(* last entry it has.                                                      *)
AppendEntriesFor(n, lg, p) ==
    LET low == LowWatermark(n)
        m == matchIndex[n][p]
        hb == DefaultHeartbeat(n, lg)
    IN  IF low >= Len(lg) \/ m >= Len(lg)
        THEN hb
        ELSE LET prev == IF m = low /\ ~Present(lg, low) THEN 0 ELSE m
             IN  [hb EXCEPT !.prevIdx = prev, !.prevTerm = TermAt(lg, prev),
                            !.entries = EntriesAbove(lg, m)]

(* A send on a full stream awaits in the actor: a step is taken only when *)
(* every message it sends fits in the bounded streams.                     *)
Fits == \A a, b \in Node : Len(chan'[a][b]) <= MaxChan

(* Append msg(p) to the stream n -> p of channel state c, every replica p. *)
BroadcastOn(c, n, msg(_)) ==
    [c EXCEPT ![n] = [p \in Node |-> IF p = n THEN c[n][p] ELSE Append(c[n][p], msg(p))]]

(* send_rpc_to_replicas: each replica gets the AppendEntriesRPC built    *)
(* for it from log lg.                                                      *)
SendRpcToReplicas(n, lg) == BroadcastOn(chan, n, LAMBDA p : AppendEntriesFor(n, lg, p))

(* Take the head of m -> n and append out to n -> m.                       *)
Deliver(m, n, out) == [chan EXCEPT ![m][n] = Tail(@), ![n][m] = @ \o out]

Reply(n, s, kind, idx, t) == replies \cup {[node |-> n, sess |-> s, kind |-> kind, idx |-> idx, term |-> t]}

-----------------------------------------------------------------------------
Init ==
    /\ currentTerm = [n \in Node |-> 0]
    /\ role = [n \in Node |-> IF n = InitLeader THEN Leader ELSE Follower]
    /\ electionState = [n \in Node |-> IF n = InitLeader THEN ESLeader ELSE ESFollower(None)]
    /\ schedMode = role
    /\ log = [n \in Node |-> <<>>]
    /\ hwm = [n \in Node |-> 0]
    /\ applied = [n \in Node |-> [i \in 1..MaxLog |-> NoEntry]]
    /\ matchIndex = [n \in Node |-> [p \in Node |-> 0]]
    /\ tracker = [n \in Node |-> {}]
    /\ sessions = [n \in Node |-> {}]
    /\ chan = [m \in Node |-> [n \in Node |-> <<>>]]
    /\ submits = 0
    /\ walFaults = 0
    /\ lost = 0
    /\ replies = {}
    /\ votes = {}

-----------------------------------------------------------------------------
(* follower_write_entries: the entries above the last index are written at *)
(* their own indices; an index between the old last index and them is a   *)
(* hole that read_at does not find.                                         *)
WriteEntries(lg, kept) ==
    IF kept = <<>> THEN lg
    ELSE [i \in 1..kept[Len(kept)].idx |->
            IF i <= Len(lg) THEN lg[i]
            ELSE LET ks == {k \in DOMAIN kept : kept[k].idx = i}
                 IN  IF ks = {} THEN NoEntry ELSE kept[CHOOSE k \in ks : TRUE].e]

(* ensure_prev_consistency succeeds                                        *)
PrevConsistent(n, hb) ==
    IF LastIdx(n) = 0 THEN hb.prevIdx = 0
    ELSE ~(Present(log[n], hb.prevIdx) /\ log[n][hb.prevIdx].term # hb.prevTerm)

ReplicateStateEager(n, m, hb, lg, out) ==
    /\ log' = [log EXCEPT ![n] = lg]
    /\ applied' = [applied EXCEPT ![n] =
                      [i \in 1..MaxLog |-> IF i \in (hwm[n] + 1)..Len(lg) THEN lg[i] ELSE @[i]]]
    /\ hwm' = IF Len(lg) > hwm[n] THEN [hwm EXCEPT ![n] = Len(lg)] ELSE hwm
    /\ chan' = Deliver(m, n, out)

(* replicate_state: apply the entries up to the leader's hwm; a missing    *)
(* entry stops it with a LogInconsistency rejection and leaves hwm alone,  *)
(* the entries before it having been applied already.  lg is the log the   *)
(* handler wrote, out the messages it sent before.                         *)
ReplicateState(n, m, hb, lg, out) ==
    LET missing == {i \in (hwm[n] + 1)..hb.hwm : ~Present(lg, i)}
        upto == IF missing = {} THEN hb.hwm ELSE Min(missing) - 1
    IN  /\ log' = [log EXCEPT ![n] = lg]
        /\ applied' = [applied EXCEPT ![n] =
                          [i \in 1..MaxLog |-> IF i \in (hwm[n] + 1)..upto THEN lg[i] ELSE @[i]]]
        /\ hwm' = IF missing = {} /\ hb.hwm > hwm[n] THEN [hwm EXCEPT ![n] = hb.hwm] ELSE hwm
        /\ chan' = Deliver(m, n, out \o IF missing = {} THEN <<>>
                                        ELSE <<RejectMsg(currentTerm'[n], Len(lg), "LogInconsistency")>>)

(* replicate's early return: a peer that is leader ignores the entries.   *)
IgnoresAppend(n) == role'[n] = Leader

(* replicate, after the term checks: role' and currentTerm' are the state *)
(* maybe_update_term left.                                                 *)
Replicate(n, m, hb) ==
    LET kept == SelectSeq(hb.entries, LAMBDA x : x.idx > LastIdx(n))
        t == currentTerm'[n]
    IN
    \/ /\ IgnoresAppend(n)
       /\ chan' = Deliver(m, n, <<>>)
       /\ UNCHANGED <<log, hwm, applied, sessions, walFaults>>
    \/ /\ ~IgnoresAppend(n)
       /\ hb.entries = <<>>
       /\ ReplicateState(n, m, hb, log[n], <<>>)
       /\ UNCHANGED <<sessions, walFaults>>
    \/ /\ ~IgnoresAppend(n)
       /\ hb.entries # <<>>
       /\ ~PrevConsistent(n, hb)
       /\ log' = IF LastIdx(n) = 0 THEN log
                 ELSE [log EXCEPT ![n] = SubSeq(@, 1, hb.prevIdx)]   \* truncate_after
       /\ chan' = Deliver(m, n, <<RejectMsg(t, Len(log'[n]), "LogInconsistency")>>)
       /\ UNCHANGED <<hwm, applied, sessions, walFaults>>
    \/ /\ ~IgnoresAppend(n)
       /\ hb.entries # <<>>
       /\ PrevConsistent(n, hb)
       /\ kept # <<>>
       /\ walFaults < MaxWalFaults
       /\ walFaults' = walFaults + 1
       /\ chan' = Deliver(m, n, <<RejectMsg(t, LastIdx(n), "FailToWrite")>>)
       /\ UNCHANGED <<log, hwm, applied, sessions>>
    \/ /\ ~IgnoresAppend(n)
       /\ hb.entries # <<>>
       /\ PrevConsistent(n, hb)
       /\ LET lg == WriteEntries(log[n], kept)
          IN  /\ sessions' = [sessions EXCEPT ![n] =
                                 @ \cup ({kept[k].e.sess : k \in DOMAIN kept} \ {None})]
              /\ ReplicateState(n, m, hb, lg, <<AckMsg(t, Len(lg))>>)
       /\ UNCHANGED walFaults

(* check_term_outdated: an AppendEntriesRPC of a lower term is rejected   *)
(* with ReceiverHasHigherTerm and the handler returns.                      *)
CheckTermOutdated(n, m, hb) ==
    /\ hb.term < currentTerm[n]
    /\ chan' = Deliver(m, n, <<RejectMsg(currentTerm[n], LastIdx(n), "ReceiverHasHigherTerm")>>)
    /\ UNCHANGED <<currentTerm, role, electionState, log, hwm, applied, sessions, walFaults>>

(* reset_election_timeout: the election state goes back to Follower{None} *)
(* whatever it was, a leader's included.                                    *)
ResetElectionTimeout(n) == electionState' = [electionState EXCEPT ![n] = ESFollower(None)]

(* maybe_update_term: a higher term is adopted and the role demoted; the *)
(* heartbeat scheduler is not touched.                                      *)
MaybeUpdateTerm(n, t) ==
    /\ currentTerm' = IF t > currentTerm[n] THEN [currentTerm EXCEPT ![n] = t] ELSE currentTerm
    /\ role' = IF t > currentTerm[n] THEN [role EXCEPT ![n] = Follower] ELSE role

(* append_entries_rpc: check_term_outdated, reset_election_timeout,       *)
(* maybe_update_term, then replicate.                                       *)
AppendEntriesRPC(n, m) ==
    /\ chan[m][n] # <<>>
    /\ Head(chan[m][n]).type = "AE"
    /\ LET hb == Head(chan[m][n]) IN
       \/ CheckTermOutdated(n, m, hb)
       \/ /\ hb.term >= currentTerm[n]
          /\ ResetElectionTimeout(n)
          /\ MaybeUpdateTerm(n, hb.term)
          /\ Replicate(n, m, hb)
    /\ UNCHANGED <<schedMode, matchIndex, tracker, submits, replies, votes, lost>>
    /\ Fits

EnoughVotesStrict(r) == Cardinality(r.votes) > r.required

(* the consensus record has the votes it requires                          *)
EnoughVotes(r) == Cardinality(r.votes) >= r.required

(* replication.hwm.fetch_add(1)                                             *)
RaiseHwm(n) == hwm' = [hwm EXCEPT ![n] = @ + 1]

TrackReplicationProgressLaterRecs(n, m, idx) ==
    LET recs == {r \in tracker[n] : r.idx >= idx}
    IN  \/ /\ recs = {}
           /\ UNCHANGED <<tracker, hwm, sessions, replies>>
        \/ \E r \in recs :
             LET r2 == [r EXCEPT !.votes = @ \cup {m}]
             IN  \/ /\ ~EnoughVotes(r2)
                    /\ tracker' = [tracker EXCEPT ![n] = (@ \ {r}) \cup {r2}]
                    /\ UNCHANGED <<hwm, sessions, replies>>
                 \/ /\ EnoughVotes(r2)
                    /\ tracker' = [tracker EXCEPT ![n] = @ \ {r}]
                    /\ RaiseHwm(n)
                    /\ sessions' = [sessions EXCEPT ![n] = @ \cup ({r.sess} \ {None})]
                    /\ replies' = Reply(n, r.sess, "LogIndex", r.idx, r.term)

(* track_replication_progress: count the vote of m for index idx; at the  *)
(* required count the record is dropped, hwm goes up by one, the session  *)
(* is recorded and the callback answers LogIndex(idx).                     *)
TrackReplicationProgress(n, m, idx) ==
    LET recs == {r \in tracker[n] : r.idx = idx}
    IN  \/ /\ recs = {}
           /\ UNCHANGED <<tracker, hwm, sessions, replies>>
        \/ \E r \in recs :
             LET r2 == [r EXCEPT !.votes = @ \cup {m}]
             IN  \/ /\ ~EnoughVotes(r2)
                    /\ tracker' = [tracker EXCEPT ![n] = (@ \ {r}) \cup {r2}]
                    /\ UNCHANGED <<hwm, sessions, replies>>
                 \/ /\ EnoughVotes(r2)
                    /\ tracker' = [tracker EXCEPT ![n] = @ \ {r}]
                    /\ RaiseHwm(n)
                    /\ sessions' = [sessions EXCEPT ![n] = @ \cup ({r.sess} \ {None})]
                    /\ replies' = Reply(n, r.sess, "LogIndex", idx, r.term)

(* step_down: vote_for(None) and the scheduler's follower mode            *)
StepDown(n) ==
    /\ role' = [role EXCEPT ![n] = Follower]
    /\ electionState' = [electionState EXCEPT ![n] = ESFollower(None)]
    /\ schedMode' = [schedMode EXCEPT ![n] = Follower]

UpdatePeerIndexNext(n, m, idx) == matchIndex' = [matchIndex EXCEPT ![n][m] = idx + 1]

(* update_peer_index                                                        *)
UpdatePeerIndex(n, m, idx) == matchIndex' = [matchIndex EXCEPT ![n][m] = idx]

(* decrease_match_index: match_index becomes the follower's last index    *)
DecreaseMatchIndex(n, m, idx) == matchIndex' = [matchIndex EXCEPT ![n][m] = idx]

(* handle_repl_rejection: step down, revert match_index, or wait for the *)
(* next send_rpc to resend.                                                 *)
HandleReplRejection(n, m, ack) ==
    \/ /\ ack.reason = "ReceiverHasHigherTerm"
       /\ StepDown(n)
       /\ UNCHANGED <<matchIndex, tracker, hwm, sessions, replies>>
    \/ /\ ack.reason = "LogInconsistency"
       /\ DecreaseMatchIndex(n, m, ack.logIdx)
       /\ UNCHANGED <<role, electionState, schedMode, tracker, hwm, sessions, replies>>
    \/ /\ ack.reason = "FailToWrite"
       /\ UNCHANGED <<role, electionState, schedMode, matchIndex, tracker, hwm, sessions, replies>>

(* ack_replication                                                          *)
AckReplication(n, m) ==
    /\ chan[m][n] # <<>>
    /\ Head(chan[m][n]).type = "Ack"
    /\ chan' = Deliver(m, n, <<>>)
    /\ LET ack == Head(chan[m][n]) IN
       \/ /\ ~ack.granted
          /\ HandleReplRejection(n, m, ack)
       \/ /\ ack.granted
          /\ UpdatePeerIndex(n, m, ack.logIdx)
          /\ TrackReplicationProgress(n, m, ack.logIdx)
          /\ UNCHANGED <<role, electionState, schedMode>>
    /\ UNCHANGED <<currentTerm, log, applied, submits, walFaults, lost, votes>>
    /\ Fits

BecomeFollowerIfTermAtLeast(n, cand, t) ==
    t >= currentTerm[n] /\ electionState[n].kind # "Leader"

(* ReplicationState::become_follower_if_term_higher_and_votable: a higher *)
(* term, and an election state that is not Leader.                         *)
BecomeFollowerIfTermHigherAndVotable(n, cand, t) ==
    t > currentTerm[n] /\ electionState[n].kind # "Leader"

(* vote_election                                                            *)
VoteElection(n, m) ==
    /\ chan[m][n] # <<>>
    /\ Head(chan[m][n]).type = "RV"
    /\ LET rv == Head(chan[m][n]) IN
       \/ /\ LastIdx(n) <= rv.lastIdx
          /\ BecomeFollowerIfTermHigherAndVotable(n, m, rv.term)
          /\ currentTerm' = [currentTerm EXCEPT ![n] = rv.term]
          /\ role' = [role EXCEPT ![n] = Follower]
          /\ electionState' = [electionState EXCEPT ![n] = ESFollower(m)]
          /\ chan' = Deliver(m, n, <<[type |-> "Vote", term |-> rv.term, granted |-> TRUE]>>)
          /\ votes' = votes \cup {[voter |-> n, cand |-> m, term |-> rv.term]}
       \/ /\ ~(LastIdx(n) <= rv.lastIdx /\ BecomeFollowerIfTermHigherAndVotable(n, m, rv.term))
          /\ chan' = Deliver(m, n, <<[type |-> "Vote", term |-> currentTerm[n], granted |-> FALSE]>>)
          /\ UNCHANGED <<currentTerm, role, electionState, votes>>
    /\ UNCHANGED <<schedMode, log, hwm, applied, matchIndex, tracker, sessions,
                   submits, walFaults, lost, replies>>
    /\ Fits

(* become_leader                                                            *)
BecomeLeader(n) ==
    /\ role' = [role EXCEPT ![n] = Leader]
    /\ electionState' = [electionState EXCEPT ![n] = ESLeader]
    /\ schedMode' = [schedMode EXCEPT ![n] = Leader]

(* receive_election_vote: ElectionVoting counts a granted vote; at the    *)
(* required count the candidate becomes leader and sends every replica an *)
(* empty AppendEntriesRPC.                                                  *)
ReceiveElectionVote(n, m) ==
    /\ chan[m][n] # <<>>
    /\ Head(chan[m][n]).type = "Vote"
    /\ LET v == Head(chan[m][n])
           es == electionState[n]
       IN
       \/ /\ ~v.granted \/ es.kind # "Candidate"
          /\ chan' = Deliver(m, n, <<>>)
          /\ UNCHANGED <<role, electionState, schedMode>>
       \/ /\ v.granted /\ es.kind = "Candidate"
          /\ es.granted + 1 < es.required
          /\ electionState' = [electionState EXCEPT ![n].granted = @ + 1]
          /\ chan' = Deliver(m, n, <<>>)
          /\ UNCHANGED <<role, schedMode>>
       \/ /\ v.granted /\ es.kind = "Candidate"
          /\ es.granted + 1 >= es.required
          /\ BecomeLeader(n)
          /\ chan' = BroadcastOn(Deliver(m, n, <<>>), n,
                                 LAMBDA p : DefaultHeartbeat(n, log[n]))
    /\ UNCHANGED <<currentTerm, log, hwm, applied, matchIndex, tracker, sessions,
                   submits, walFaults, lost, replies, votes>>
    /\ Fits

(* become_candidate: next term, and an ElectionVoting for the replicas    *)
BecomeCandidate(n) ==
    /\ currentTerm' = [currentTerm EXCEPT ![n] = @ + 1]
    /\ electionState' = [electionState EXCEPT ![n] = ESCandidate(ElectionRequired(ReplicaCount(n)))]

(* run_for_election, fired by the scheduler in follower mode:             *)
(* become_candidate, then a RequestVote to every replica.                 *)
RunForElection(n) ==
    /\ schedMode[n] = Follower
    /\ currentTerm[n] < MaxTerm
    /\ BecomeCandidate(n)
    /\ chan' = BroadcastOn(chan, n, LAMBDA p : [type |-> "RV", term |-> currentTerm[n] + 1,
                                         lastIdx |-> LastIdx(n)])
    /\ UNCHANGED <<role, schedMode, log, hwm, applied, matchIndex, tracker, sessions,
                   submits, walFaults, lost, replies, votes>>
    /\ Fits

SendRpcOnlyLagging(n) ==
    /\ schedMode[n] = Leader
    /\ ReplicaCount(n) > 0
    /\ LowWatermark(n) < LastIdx(n)
    /\ chan' = SendRpcToReplicas(n, log[n])
    /\ UNCHANGED <<currentTerm, role, electionState, schedMode, log, hwm, applied,
                   matchIndex, tracker, sessions, submits, walFaults, lost, replies, votes>>
    /\ Fits

(* send_rpc, fired by the scheduler in leader mode                         *)
SendRpc(n) ==
    /\ schedMode[n] = Leader
    /\ ReplicaCount(n) > 0
    /\ chan' = SendRpcToReplicas(n, log[n])
    /\ UNCHANGED <<currentTerm, role, electionState, schedMode, log, hwm, applied,
                   matchIndex, tracker, sessions, submits, walFaults, lost, replies, votes>>
    /\ Fits

(* req_consensus: a follower answers "Write given to follower"; a failed *)
(* write_single_entry answers Err; otherwise the entry is appended and    *)
(* either answered at once (no replicas) or registered with the consensus *)
(* tracker and sent to the replicas.                                       *)
ReqConsensus(n, s) ==
    \/ /\ role[n] # Leader
       /\ replies' = Reply(n, s, "NotLeader", 0, 0)
       /\ UNCHANGED <<log, hwm, tracker, chan, walFaults>>
    \/ /\ role[n] = Leader
       /\ walFaults < MaxWalFaults
       /\ walFaults' = walFaults + 1
       /\ replies' = Reply(n, s, "Err", 0, 0)
       /\ UNCHANGED <<log, hwm, tracker, chan>>
    \/ /\ role[n] = Leader
       /\ LastIdx(n) < MaxLog
       /\ log' = [log EXCEPT ![n] = Append(@, [term |-> currentTerm[n], sess |-> s])]
       /\ \/ /\ ReplicaCount(n) = 0
             /\ RaiseHwm(n)
             /\ replies' = Reply(n, s, "LogIndex", LastIdx(n) + 1, currentTerm[n])
             /\ UNCHANGED <<tracker, chan>>
          \/ /\ ReplicaCount(n) > 0
             /\ tracker' = [tracker EXCEPT ![n] = @ \cup
                              {[idx |-> LastIdx(n) + 1, votes |-> {},
                                required |-> RequiredVotes(ReplicaCount(n)),
                                sess |-> s, term |-> currentTerm[n]]}]
             /\ chan' = SendRpcToReplicas(n, log'[n])
             /\ UNCHANGED <<hwm, replies>>
       /\ UNCHANGED walFaults

(* leader_req_consensus, with no rebalance in progress (pending_requests  *)
(* is None) and every key owned by this shard group: a session request   *)
(* found in client_sessions is answered AlreadyProcessed with the last   *)
(* log index, on any peer.                                                  *)
LeaderReqConsensus(n, s) ==
    /\ submits < MaxSubmits
    /\ submits' = submits + 1
    /\ \/ /\ s \in sessions[n]
          /\ replies' = Reply(n, s, "AlreadyProcessed", LastIdx(n), 0)
          /\ UNCHANGED <<log, hwm, tracker, chan, walFaults>>
       \/ /\ s \notin sessions[n]
          /\ ReqConsensus(n, s)
    /\ UNCHANGED <<currentTerm, role, electionState, schedMode, applied, matchIndex, sessions, votes, lost>>
    /\ Fits

(* A peer send whose result is discarded (let _ = peer.send(..).await in  *)
(* send_replication_ack, vote_election and the broadcasts of send_rpc and *)
(* run_for_election): a failed write to the peer's connection loses that *)
(* one message, and the handler goes on as if it had been sent.           *)
LoseMessage(m, n) ==
    /\ lost < MaxLost
    /\ lost' = lost + 1
    /\ \E i \in 1..Len(chan[m][n]) : chan' = [chan EXCEPT ![m][n] = RemoveAt(@, i)]
    /\ UNCHANGED <<currentTerm, role, electionState, schedMode, log, hwm, applied,
                   matchIndex, tracker, sessions, submits, walFaults, replies, votes>>

-----------------------------------------------------------------------------
Next ==
    \/ \E n \in Node, s \in Session : LeaderReqConsensus(n, s)
    \/ \E n \in Node : SendRpc(n) \/ RunForElection(n)
    \/ \E n, m \in Node : m # n /\ \/ AppendEntriesRPC(n, m)
                                   \/ AckReplication(n, m)
                                   \/ VoteElection(n, m)
                                   \/ ReceiveElectionVote(n, m)
                                   \/ LoseMessage(m, n)

(* Every actor eventually takes the next command off its queue, and the   *)
(* leader-mode scheduler keeps ticking.  Client writes and election       *)
(* timeouts are not forced.                                                 *)
Fairness ==
    /\ \A n \in Node : WF_vars(SendRpc(n))
    /\ \A n, m \in Node : /\ WF_vars(AppendEntriesRPC(n, m))
                          /\ WF_vars(AckReplication(n, m))
                          /\ WF_vars(VoteElection(n, m))
                          /\ WF_vars(ReceiveElectionVote(n, m))

Spec == Init /\ [][Next]_vars
FairSpec == Spec /\ Fairness


-----------------------------------------------------------------------------
(* Properties                                                              *)

AEMsg == [type : {"AE"}, term : 0..MaxTerm, hwm : Nat, prevIdx : 0..MaxLog,
          prevTerm : 0..MaxTerm, entries : Seq([idx : 1..MaxLog, e : Entry])]
AckMsgs == [type : {"Ack"}, term : 0..MaxTerm, logIdx : 0..MaxLog, granted : BOOLEAN,
            reason : {"None", "ReceiverHasHigherTerm", "LogInconsistency", "FailToWrite"}]
RVMsg == [type : {"RV"}, term : 0..MaxTerm, lastIdx : 0..MaxLog]
VoteMsg == [type : {"Vote"}, term : 0..MaxTerm, granted : BOOLEAN]

TypeOK ==
    /\ currentTerm \in [Node -> 0..MaxTerm]
    /\ role \in [Node -> {Leader, Follower}]
    /\ \A n \in Node : electionState[n].kind \in {"Follower", "Candidate", "Leader"}
    /\ schedMode \in [Node -> {Leader, Follower}]
    /\ \A n \in Node : log[n] \in Seq(Entry \cup {NoEntry}) /\ Len(log[n]) <= MaxLog
    /\ hwm \in [Node -> Nat]
    /\ applied \in [Node -> [1..MaxLog -> Entry \cup {NoEntry}]]
    /\ matchIndex \in [Node -> [Node -> 0..MaxLog]]
    /\ \A n \in Node : tracker[n] \subseteq
           [idx : 1..MaxLog, votes : SUBSET Node, required : Nat,
            sess : Session \cup {None}, term : 0..MaxTerm]
    /\ sessions \in [Node -> SUBSET Session]
    /\ chan \in [Node -> [Node -> Seq(AEMsg \cup AckMsgs \cup RVMsg \cup VoteMsg)]]
    /\ submits \in 0..MaxSubmits /\ walFaults \in 0..MaxWalFaults /\ lost \in 0..MaxLost

Committed == {r \in replies : r.kind = "LogIndex"}
EntryOf(r) == [term |-> r.term, sess |-> r.sess]

(* Log matching (spec section 8, first invariant).  Two peers whose logs  *)
(* hold an entry of the same term at index i hold the same entries up to  *)
(* i.  It is about how append_entries_rpc filters, checks and writes the  *)
(* entries a leader sent and how iter_follower_append_entries chooses the *)
(* previous entry from the leader's match_index.                          *)
LogMatching ==
    \A a, b \in Node : \A i \in 1..MaxLog :
        (Present(log[a], i) /\ Present(log[b], i) /\ log[a][i].term = log[b][i].term)
            => SubSeq(log[a], 1, i) = SubSeq(log[b], 1, i)

(* State-machine safety: what replicate_state hands to apply_log at index *)
(* i is the entry whose write was answered LogIndex(i), and two peers     *)
(* never apply different entries at one index.                             *)
AppliedIsCommitted ==
    /\ \A a, b \in Node : \A i \in 1..MaxLog :
          (applied[a][i] # NoEntry /\ applied[b][i] # NoEntry) => applied[a][i] = applied[b][i]
    /\ \A r \in Committed, a \in Node :
          applied[a][r.idx] # NoEntry => applied[a][r.idx] = EntryOf(r)

(* A peer applies index i only once the leader has answered a write at i *)
(* or above, which commits every entry below it: replicate_state applies *)
(* up to the hwm the leader carried, and the leader raises hwm, by one,  *)
(* in track_replication_progress.                                          *)
AppliedOnlyCommitted ==
    \A a \in Node : \A i \in 1..MaxLog :
        applied[a][i] # NoEntry => \E r \in Committed : r.idx >= i

(* A write answered LogIndex(i) is held at index i by a strict majority  *)
(* of the peers, the leader included: track_replication_progress fires    *)
(* the callback once required_votes replicas acked, and only a peer of    *)
(* that majority can win a later election (spec 4.C: "majority minus      *)
(* self").                                                                  *)
CommittedOnMajority ==
    \A r \in Committed :
        2 * Cardinality({p \in Node : Present(log[p], r.idx) /\ log[p][r.idx] = EntryOf(r)})
            > Cardinality(Node)

(* The leader's record of a replica's progress is never ahead of the      *)
(* replica's log: match_index, set from acks and rejections in           *)
(* ack_replication, is what iter_follower_append_entries trusts the       *)
(* replica to hold when it leaves those entries out.                       *)
MatchIndexSound ==
    \A n \in Node : role[n] = Leader =>
        \A p \in Replicas(n) :
            /\ matchIndex[n][p] <= Len(log[p])
            /\ SubSeq(log[p], 1, matchIndex[n][p]) = SubSeq(log[n], 1, matchIndex[n][p])

(* Spec section 8: a write callback fires with LogIndex(i) only after hwm >= i. *)
CallbackAfterHwm ==
    [][\A r \in replies' \ replies : r.kind = "LogIndex" => hwm'[r.node] >= r.idx]_vars

(* Election safety: at most one peer is leader in a term.  It is about    *)
(* how receive_election_vote counts ElectionVote replies, which carry a  *)
(* term that the candidate does not compare with its own.                 *)
ElectionSafety ==
    \A a, b \in Node : (a # b /\ role[a] = Leader /\ role[b] = Leader)
                           => currentTerm[a] # currentTerm[b]

(* A peer that won an election holds, in its term, the votes of a strict *)
(* majority (spec section 8: "election succeeds iff a strict majority of *)
(* the replica set grants"); the candidate's own vote is implicit.         *)
ElectedByMajority ==
    \A n \in Node : (role[n] = Leader /\ n # InitLeader) =>
        2 * (Cardinality({v \in votes : v.cand = n /\ v.term = currentTerm[n]}) + 1)
            > Cardinality(Node)

(* Leader completeness: a peer that won an election in a later term holds *)
(* every entry answered LogIndex in an earlier term (spec section 8: a    *)
(* write answered LogIndex is durable). It rests on which logs can be     *)
(* acknowledged: vote_election grants on last_log_index alone, and         *)
(* send_rpc and track_replication_progress run without a leader check.    *)
LeaderHoldsCommitted ==
    \A n \in Node : role[n] = Leader =>
        \A r \in Committed : r.term < currentTerm[n] =>
            Present(log[n], r.idx) /\ log[n][r.idx] = EntryOf(r)

(* Spec 4.E and section 3: the scheduler runs in the mode of the role, so *)
(* a peer that became follower on a higher term runs election timeouts.   *)
SchedulerFollowsRole ==
    \A n \in Node : schedMode[n] = role[n]

(* Spec section 8: a write answered AlreadyProcessed for session s was    *)
(* committed earlier for s (leader_req_consensus answers from             *)
(* client_sessions, which replicate_log_entries fills on receipt).        *)
AlreadyProcessedOnlyAfterCommit ==
    \A r \in replies : r.kind = "AlreadyProcessed" =>
        \E c \in Committed : c.sess = r.sess

(* At-most-once client effects: a session's write is committed, and       *)
(* answered LogIndex, at most once.                                         *)
SessionCommittedOnce ==
    \A c1, c2 \in Committed : c1.sess = c2.sess => c1 = c2

(* Every write a leader appended and registered with the consensus        *)
(* tracker is eventually answered LogIndex (track_replication_progress).  *)
WriteEventuallyAnswered ==
    \A s \in Session :
        (\E n \in Node : \E r \in tracker[n] : r.sess = s)
            ~> (\E r \in Committed : r.sess = s)

(* A write answered LogIndex(i) is eventually applied at index i by every *)
(* replica of the leader that answered it. Followers learn the new hwm    *)
(* only from a later AppendEntriesRPC: the acks that committed the write  *)
(* need not come from every replica, and a replica whose WAL write failed *)
(* (FailToWrite) relies on the leader-mode scheduler's next send_rpc to   *)
(* resend the entries and carry the hwm (replicate_state applies up to it).*)
CommittedEventuallyApplied ==
    \A s \in Session :
        (\E r \in Committed : r.sess = s)
            ~> (\E r \in Committed : r.sess = s /\
                   \A p \in Replicas(r.node) : applied[p][r.idx] = EntryOf(r))

=============================================================================
