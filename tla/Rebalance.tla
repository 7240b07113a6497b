------------------------------ MODULE Rebalance ------------------------------
(***************************************************************************)
(* Hash-ring rebalancing and the write gate of duva's ClusterActor: the   *)
(* leaders of two or more shard groups after CLUSTER MEET ... eager.       *)
(*                                                                         *)
(* Source: src/duva/src/domains/cluster_actors/actor.rs: rebalance_request,*)
(* start_rebalance, receive_cluster_heartbeat (its hashring), block_write_ *)
(* reqs, maybe_update_hashring, migrate_batch, receive_batch,              *)
(* handle_migration_ack, unblock_write_reqs_if_done, send_batch_ack and    *)
(* the write-gate part of leader_req_consensus.                            *)
(*                                                                         *)
(* A shard group is represented by its leader.  Each leader is one actor  *)
(* that takes commands off its mailbox in order (mailbox[g]); peer         *)
(* messages and the commands spawned tasks send to the actor itself all    *)
(* join that queue.  Consensus inside a group (req_consensus) is           *)
(* abstracted to a queue of requests that commit in order (inflight[g]),  *)
(* as Replication.tla shows the leader's log does.  Spawned tokio tasks    *)
(* are the set tasks, each stepping on its own.                            *)
(***************************************************************************)
EXTENDS Naturals, Sequences, FiniteSets, SequencesExt

CONSTANTS
    Grp,          \* shard groups (ReplicationId), each standing for its leader
    Key,          \* keys
    Held,         \* Held[g]: keys g's cache holds at the start
    NewRing,      \* key -> group: the ring set_partitions computes once all groups met
    Initiator,    \* the leader that runs CLUSTER MEET <Coordinator> eager
    Coordinator,  \* the leader that runs start_rebalance
    WriteKey,     \* keys clients write during the run
    Entry,        \* the leaders clients send their writes to
    Write,        \* client write requests; a write's value is its own id
    BatchCap,     \* a migration batch closes once it holds more than BatchCap keys
    Null, None

ASSUME Held \in [Grp -> SUBSET Key] /\ NewRing \in [Key -> Grp]
ASSUME \A g, h \in Grp : g # h => Held[g] \cap Held[h] = {}
ASSUME {Initiator, Coordinator} \subseteq Grp /\ Initiator # Coordinator
ASSUME WriteKey \subseteq Key /\ Entry \subseteq Grp /\ BatchCap \in Nat

VARIABLES
    ring,         \* ring[g]: hash_ring at g, as key -> owning group
    cache,        \* cache[g]: key -> value (Null: absent) in g's CacheManager
    inflight,     \* inflight[g]: consensus requests of g not yet committed, in log order
    pendingReqs,  \* pending_requests at g: None, or the queue of held writes
    pendingMig,   \* pending_migrations at g: None, or the set of pending batches
    mailbox,      \* mailbox[g]: commands queued for g's actor, in order
    tasks,        \* spawned tasks alive
    nBatch,       \* nBatch[g]: batches g has created (ids are unique)
    wkey,         \* wkey[w]: the key of client write w, None before it is sent
    reply,        \* reply[w]: "None", "LogIndex" or "Moved"
    commitLog     \* history: client writes in the order they committed

vars == <<ring, cache, inflight, pendingReqs, pendingMig, mailbox, tasks, nBatch,
          wkey, reply, commitLog>>

-----------------------------------------------------------------------------
(* Commands and messages                                                   *)
WriteCmd(w, drained) == [type |-> "Write", w |-> w, drained |-> drained]
RingCmd == [type |-> "Ring"]
TryUnblockCmd == [type |-> "TryUnblock"]

(* The ring a group starts with covers only itself.                         *)
OwnRing(g) == [k \in Key |-> g]

Head1(g) == Head(mailbox[g])
(* the actor took the command at the head of its mailbox                    *)
Consume(g) == [mailbox EXCEPT ![g] = Tail(@)]
(* ... and sent msg to peer h                                                *)
ConsumeSend(g, h, msg) == [mailbox EXCEPT ![g] = Tail(@), ![h] = Append(@, msg)]

(* block_write_reqs creating only the request queue                         *)
BlockWriteReqsReqsOnly(g) ==
    IF pendingReqs[g] = None
    THEN /\ pendingReqs' = [pendingReqs EXCEPT ![g] = <<>>]
         /\ UNCHANGED pendingMig
    ELSE UNCHANGED <<pendingReqs, pendingMig>>

(* block_write_reqs                                                          *)
BlockWriteReqs(g) ==
    IF pendingReqs[g] = None
    THEN /\ pendingReqs' = [pendingReqs EXCEPT ![g] = <<>>]
         /\ pendingMig' = [pendingMig EXCEPT ![g] = {}]
    ELSE UNCHANGED <<pendingReqs, pendingMig>>

(* The order in which the spawned drain task re-sends held writes          *)
(* (pop_front until empty).                                                 *)
DrainOrderLifo(reqs) == Reverse(reqs)
DrainOrder(reqs) == reqs

(* The migration tasks of the keys in seq, cut into batches the way        *)
(* maybe_update_hashring does: pop from the back, close a batch once it    *)
(* holds more than BatchCap keys (every task holds one key here).          *)
RECURSIVE Batches(_)
Batches(seq) ==
    IF seq = <<>> THEN <<>>
    ELSE LET n == IF Len(seq) <= BatchCap + 1 THEN Len(seq) ELSE BatchCap + 1
         IN  <<ToSet(SubSeq(seq, Len(seq) - n + 1, Len(seq)))>>
                 \o Batches(SubSeq(seq, 1, Len(seq) - n))

(* create_migration_tasks: the keys g holds whose owner in the new ring    *)
(* differs from the owner in g's ring, by their new owner.                  *)
MovingKeys(g, to) ==
    {k \in Key : cache[g][k] # Null /\ NewRing[k] = to /\ ring[g][k] # to}

Init ==
    /\ ring = [g \in Grp |-> OwnRing(g)]
    /\ cache = [g \in Grp |-> [k \in Key |-> IF k \in Held[g] THEN k ELSE Null]]
    /\ inflight = [g \in Grp |-> <<>>]
    /\ pendingReqs = [g \in Grp |-> None]
    /\ pendingMig = [g \in Grp |-> None]
    \* CLUSTER MEET connected; register_delayed_schedule queues RebalanceRequest
    /\ mailbox = [g \in Grp |-> IF g = Initiator
                                THEN <<[type |-> "RebalanceRequest", to |-> Coordinator]>>
                                ELSE <<>>]
    /\ tasks = {}
    /\ nBatch = [g \in Grp |-> 0]
    /\ wkey = [w \in Write |-> None]
    /\ reply = [w \in Write |-> "None"]
    /\ commitLog = <<>>

-----------------------------------------------------------------------------
(* A client sends write w of key k to the leader of group g (the client    *)
(* routes with its own, possibly stale, view of the ring).                  *)
Submit(w, k, g) ==
    /\ wkey[w] = None
    /\ wkey' = [wkey EXCEPT ![w] = k]
    /\ mailbox' = [mailbox EXCEPT ![g] = Append(@, WriteCmd(w, FALSE))]
    /\ UNCHANGED <<ring, cache, inflight, pendingReqs, pendingMig, tasks, nBatch, reply,
                   commitLog>>

(* leader_req_consensus dropping the callback of a write whose key moved  *)
LeaderReqConsensusNoMoved(g) ==
    LET c == Head1(g)
        k == wkey[c.w]
    IN
    /\ mailbox[g] # <<>> /\ c.type = "Write"
    /\ mailbox' = Consume(g)
    /\ \/ /\ pendingReqs[g] # None
          /\ pendingReqs' = [pendingReqs EXCEPT ![g] = Append(@, c.w)]
          /\ UNCHANGED inflight
       \/ /\ pendingReqs[g] = None
          /\ ring[g][k] = g
          /\ inflight' = [inflight EXCEPT ![g] =
                            Append(@, [op |-> "Set", kv |-> (k :> c.w), cb |-> c.w])]
          /\ UNCHANGED pendingReqs
       \/ /\ pendingReqs[g] = None
          /\ ring[g][k] # g
          /\ UNCHANGED <<pendingReqs, inflight>>
    /\ UNCHANGED <<ring, cache, pendingMig, tasks, nBatch, wkey, reply, commitLog>>

(* leader_req_consensus: a closed gate holds the write; otherwise the ring *)
(* decides between req_consensus and "MOVED".  (Client sessions are none.) *)
LeaderReqConsensus(g) ==
    LET c == Head1(g)
        k == wkey[c.w]
    IN
    /\ mailbox[g] # <<>> /\ c.type = "Write"
    /\ mailbox' = Consume(g)
    /\ \/ /\ pendingReqs[g] # None
          /\ pendingReqs' = [pendingReqs EXCEPT ![g] = Append(@, c.w)]
          /\ UNCHANGED <<inflight, reply>>
       \/ /\ pendingReqs[g] = None
          /\ ring[g][k] = g
          /\ inflight' = [inflight EXCEPT ![g] =
                            Append(@, [op |-> "Set", kv |-> (k :> c.w), cb |-> c.w])]
          /\ UNCHANGED <<pendingReqs, reply>>
       \/ /\ pendingReqs[g] = None
          /\ ring[g][k] # g
          /\ reply' = [reply EXCEPT ![c.w] = "Moved"]
          /\ UNCHANGED <<pendingReqs, inflight>>
    /\ UNCHANGED <<ring, cache, pendingMig, tasks, nBatch, wkey, commitLog>>

-----------------------------------------------------------------------------
(* Ring update and migration planning                                      *)

(* The groups g has keys to send to under the new ring.                     *)
Targets(g) == SetToSeq({to \in Grp : MovingKeys(g, to) # {}})

(* The batches maybe_update_hashring plans, target by target.               *)
PlannedBatches(g) ==
    FlattenSeq([i \in 1..Len(Targets(g)) |->
        LET bs == Batches(SetToSeq(MovingKeys(g, Targets(g)[i])))
        IN  [j \in 1..Len(bs) |-> [to |-> Targets(g)[i], keys |-> bs[j]]]])

(* maybe_update_hashring(new ring), g being a leader: no-op for a ring     *)
(* equal to its own; with nothing to migrate the ring is swapped; else     *)
(* writes are blocked and one schedule_migration_in_batch task is spawned  *)
(* per batch, the ring being swapped only when the gate reopens.           *)
HashringBlocks(g) == ring[g] # NewRing /\ PlannedBatches(g) # <<>>
MaybeUpdateHashring(g) ==
    \/ /\ ring[g] = NewRing
       /\ UNCHANGED <<ring, tasks, nBatch>>
    \/ /\ ring[g] # NewRing
       /\ PlannedBatches(g) = <<>>
       /\ ring' = [ring EXCEPT ![g] = NewRing]
       /\ UNCHANGED <<tasks, nBatch>>
    \/ /\ HashringBlocks(g)
       /\ LET pb == PlannedBatches(g)
          IN  /\ tasks' = tasks \cup
                   {[kind |-> "Sched", g |-> g,
                     batch |-> [id |-> <<g, nBatch[g] + i>>, to |-> pb[i].to,
                                keys |-> pb[i].keys]] : i \in 1..Len(pb)}
              /\ nBatch' = [nBatch EXCEPT ![g] = @ + Len(pb)]
       /\ UNCHANGED ring

(* rebalance_request(to, Eager) at the meeting leader: block writes, send  *)
(* StartRebalance to the new peer.                                          *)
RebalanceRequest(g) ==
    /\ mailbox[g] # <<>> /\ Head1(g).type = "RebalanceRequest"
    /\ BlockWriteReqs(g)
    /\ mailbox' = ConsumeSend(g, Head1(g).to, [type |-> "StartRebalance"])
    /\ UNCHANGED <<ring, cache, inflight, tasks, nBatch, wkey, reply, commitLog>>

(* start_rebalance: the ring from the shard leaders (NewRing); if it is    *)
(* g's own ring, nothing to do; else block writes, send it in a heartbeat  *)
(* to every peer, and maybe_update_hashring with it.                        *)
StartRebalance(g) ==
    /\ mailbox[g] # <<>> /\ Head1(g).type = "StartRebalance"
    /\ \/ /\ ring[g] = NewRing
          /\ mailbox' = Consume(g)
          /\ UNCHANGED <<ring, pendingReqs, pendingMig, tasks, nBatch>>
       \/ /\ ring[g] # NewRing
          /\ BlockWriteReqs(g)
          /\ mailbox' = [h \in Grp |-> IF h = g THEN Tail(mailbox[g])
                                       ELSE Append(mailbox[h], RingCmd)]
          /\ MaybeUpdateHashring(g)
    /\ UNCHANGED <<cache, inflight, wkey, reply, commitLog>>

(* receive_cluster_heartbeat carrying the new hashring                      *)
ReceiveRing(g) ==
    /\ mailbox[g] # <<>> /\ Head1(g).type = "Ring"
    /\ mailbox' = Consume(g)
    /\ IF HashringBlocks(g) THEN BlockWriteReqs(g) ELSE UNCHANGED <<pendingReqs, pendingMig>>
    /\ MaybeUpdateHashring(g)
    /\ UNCHANGED <<cache, inflight, wkey, reply, commitLog>>

-----------------------------------------------------------------------------
(* Migration                                                               *)

(* schedule_migration_in_batch, a spawned task: sends                       *)
(* ScheduleMigrationBatch to its own actor (and then awaits the callback).  *)
ScheduleTask(t) ==
    /\ t.kind = "Sched"
    /\ mailbox' = [mailbox EXCEPT ![t.g] = Append(@, [type |-> "ScheduleMigrationBatch",
                                                       batch |-> t.batch])]
    /\ tasks' = tasks \ {t}
    /\ UNCHANGED <<ring, cache, inflight, pendingReqs, pendingMig, nBatch, wkey, reply,
                   commitLog>>

(* migrate_batch: read the batch's keys, drop absent ones, record the      *)
(* batch in pending_migrations if that map exists, send it to the target.  *)
MigrateBatch(g) ==
    LET b == Head1(g).batch
        present == {k \in b.keys : cache[g][k] # Null}
    IN
    /\ mailbox[g] # <<>> /\ Head1(g).type = "ScheduleMigrationBatch"
    /\ pendingMig' = IF pendingMig[g] = None THEN pendingMig
                     ELSE [pendingMig EXCEPT ![g] = @ \cup {[id |-> b.id, keys |-> b.keys]}]
    /\ mailbox' = ConsumeSend(g, b.to, [type |-> "MigrateBatch", id |-> b.id, from |-> g,
                                        entries |-> [k \in present |-> cache[g][k]]])
    /\ UNCHANGED <<ring, cache, inflight, pendingReqs, tasks, nBatch, wkey, reply, commitLog>>

(* receive_batch: an empty batch is acked at once; otherwise the entries   *)
(* go through consensus as an MSet and a spawned task waits for it.         *)
ReceiveBatch(h) ==
    LET m == Head1(h)
    IN
    /\ mailbox[h] # <<>> /\ m.type = "MigrateBatch"
    /\ \/ /\ DOMAIN m.entries = {}
          /\ mailbox' = ConsumeSend(h, m.from, [type |-> "BatchAck", id |-> m.id])
          /\ UNCHANGED <<inflight, tasks>>
       \/ /\ DOMAIN m.entries # {}
          /\ mailbox' = Consume(h)
          /\ inflight' = [inflight EXCEPT ![h] =
                            Append(@, [op |-> "MSet", kv |-> m.entries, cb |-> <<"mset", m.id>>])]
          /\ tasks' = tasks \cup {[kind |-> "MSetWait", g |-> h, cb |-> <<"mset", m.id>>,
                                   entries |-> m.entries, id |-> m.id, from |-> m.from]}
    /\ UNCHANGED <<ring, cache, pendingReqs, pendingMig, nBatch, wkey, reply, commitLog>>

(* A consensus request whose callback has fired (its entry committed).      *)
Committed(g, cb) == \A i \in 1..Len(inflight[g]) : inflight[g][i].cb # cb

(* The receive_batch task acking without applying the entries to its cache. *)
MSetWaitTaskNoApply(t) ==
    /\ t.kind = "MSetWait" /\ Committed(t.g, t.cb)
    /\ mailbox' = [mailbox EXCEPT ![t.g] = Append(@, [type |-> "SendBatchAck", id |-> t.id,
                                                       to |-> t.from])]
    /\ tasks' = tasks \ {t}
    /\ UNCHANGED <<ring, cache, inflight, pendingReqs, pendingMig, nBatch, wkey, reply,
                   commitLog>>

(* The receive_batch task, once the MSet commits: route_mset the entries,  *)
(* then send SendBatchAck to its own actor.                                 *)
MSetWaitTask(t) ==
    /\ t.kind = "MSetWait" /\ Committed(t.g, t.cb)
    /\ cache' = [cache EXCEPT ![t.g] = [k \in Key |->
                    IF k \in DOMAIN t.entries THEN t.entries[k] ELSE @[k]]]
    /\ mailbox' = [mailbox EXCEPT ![t.g] = Append(@, [type |-> "SendBatchAck", id |-> t.id,
                                                       to |-> t.from])]
    /\ tasks' = tasks \ {t}
    /\ UNCHANGED <<ring, inflight, pendingReqs, pendingMig, nBatch, wkey, reply, commitLog>>

(* send_batch_ack                                                            *)
SendBatchAck(h) ==
    /\ mailbox[h] # <<>> /\ Head1(h).type = "SendBatchAck"
    /\ mailbox' = ConsumeSend(h, Head1(h).to, [type |-> "BatchAck", id |-> Head1(h).id])
    /\ UNCHANGED <<ring, cache, inflight, pendingReqs, pendingMig, tasks, nBatch, wkey, reply,
                   commitLog>>

(* The batches pending_migrations records at g (none when it is None).    *)
PendingIds(g) == IF pendingMig[g] = None THEN {} ELSE {p.id : p \in pendingMig[g]}

(* handle_migration_ack: ignored without a pending_migrations map or for an *)
(* unknown batch; otherwise the batch is removed and its keys deleted by    *)
(* consensus, a spawned task waiting for the commit.  (Every ack duva      *)
(* sends is a success.)                                                     *)
HandleMigrationAck(g) ==
    LET id == Head1(g).id
    IN
    /\ mailbox[g] # <<>> /\ Head1(g).type = "BatchAck"
    /\ mailbox' = Consume(g)
    /\ \/ /\ id \notin PendingIds(g)
          /\ UNCHANGED <<inflight, pendingMig, tasks>>
       \/ /\ id \in PendingIds(g)
          /\ \E p \in pendingMig[g] :
             /\ p.id = id
             /\ pendingMig' = [pendingMig EXCEPT ![g] = @ \ {p}]
             /\ inflight' = [inflight EXCEPT ![g] =
                               Append(@, [op |-> "Delete", kv |-> [k \in p.keys |-> Null],
                                          cb |-> <<"del", id>>])]
             /\ tasks' = tasks \cup {[kind |-> "DeleteWait", g |-> g, cb |-> <<"del", id>>,
                                      keys |-> p.keys]}
    /\ UNCHANGED <<ring, cache, pendingReqs, nBatch, wkey, reply, commitLog>>

(* The handle_migration_ack task without route_delete.                      *)
DeleteWaitTaskKeep(t) ==
    /\ t.kind = "DeleteWait" /\ Committed(t.g, t.cb)
    /\ mailbox' = [mailbox EXCEPT ![t.g] = Append(@, TryUnblockCmd)]
    /\ tasks' = tasks \ {t}
    /\ UNCHANGED <<ring, cache, inflight, pendingReqs, pendingMig, nBatch, wkey, reply,
                   commitLog>>

(* The handle_migration_ack task, once the Delete commits: route_delete    *)
(* the keys, then send TryUnblockWriteReqs to its own actor.                *)
DeleteWaitTask(t) ==
    /\ t.kind = "DeleteWait" /\ Committed(t.g, t.cb)
    /\ cache' = [cache EXCEPT ![t.g] = [k \in Key |-> IF k \in t.keys THEN Null ELSE @[k]]]
    /\ mailbox' = [mailbox EXCEPT ![t.g] = Append(@, TryUnblockCmd)]
    /\ tasks' = tasks \ {t}
    /\ UNCHANGED <<ring, inflight, pendingReqs, pendingMig, nBatch, wkey, reply, commitLog>>

(* unblock_write_reqs_if_done: once no batch is pending, take the ring of   *)
(* the shard leaders; if writes were blocked, reopen the gate and spawn a  *)
(* task that sends the held writes back to the actor.                       *)
UnblockWriteReqsIfDone(g) ==
    /\ mailbox[g] # <<>> /\ Head1(g).type = "TryUnblock"
    /\ mailbox' = Consume(g)
    /\ \/ /\ pendingMig[g] \notin {None, {}}
          /\ UNCHANGED <<ring, pendingReqs, pendingMig, tasks>>
       \/ /\ pendingMig[g] \in {None, {}}
          /\ ring' = [ring EXCEPT ![g] = NewRing]
          /\ IF pendingReqs[g] = None
             THEN UNCHANGED <<pendingReqs, pendingMig, tasks>>
             ELSE /\ pendingReqs' = [pendingReqs EXCEPT ![g] = None]
                  /\ pendingMig' = [pendingMig EXCEPT ![g] = None]
                  /\ tasks' = IF pendingReqs[g] = <<>> THEN tasks
                              ELSE tasks \cup {[kind |-> "Drain", g |-> g,
                                                reqs |-> DrainOrder(pendingReqs[g])]}
    /\ UNCHANGED <<cache, inflight, nBatch, wkey, reply, commitLog>>

(* The drain task: pop_front and send LeaderReqConsensus to its own actor. *)
DrainTask(t) ==
    /\ t.kind = "Drain"
    /\ mailbox' = [mailbox EXCEPT ![t.g] = Append(@, WriteCmd(Head(t.reqs), TRUE))]
    /\ tasks' = (tasks \ {t}) \cup
                   IF Len(t.reqs) = 1 THEN {} ELSE {[t EXCEPT !.reqs = Tail(@)]}
    /\ UNCHANGED <<ring, cache, inflight, pendingReqs, pendingMig, nBatch, wkey, reply,
                   commitLog>>

(* The oldest consensus request of g commits.  A client Set is applied and  *)
(* answered LogIndex; an MSet or Delete fires its callback, which the      *)
(* waiting task observes.                                                    *)
Commit(g) ==
    LET e == Head(inflight[g])
    IN
    /\ inflight[g] # <<>>
    /\ inflight' = [inflight EXCEPT ![g] = Tail(@)]
    /\ IF e.op = "Set"
       THEN LET k == CHOOSE x \in DOMAIN e.kv : TRUE
            IN  /\ cache' = [cache EXCEPT ![g][k] = e.kv[k]]
                /\ reply' = [reply EXCEPT ![e.cb] = "LogIndex"]
                /\ commitLog' = Append(commitLog, e.cb)
       ELSE UNCHANGED <<cache, reply, commitLog>>
    /\ UNCHANGED <<ring, pendingReqs, pendingMig, mailbox, tasks, nBatch, wkey>>

-----------------------------------------------------------------------------
(* Each actor handles one command at a time, in mailbox order.             *)
ActorStep(g) ==
    \/ LeaderReqConsensus(g) \/ RebalanceRequest(g) \/ StartRebalance(g)
    \/ ReceiveRing(g) \/ MigrateBatch(g) \/ ReceiveBatch(g) \/ SendBatchAck(g)
    \/ HandleMigrationAck(g) \/ UnblockWriteReqsIfDone(g)

TaskStep(t) == ScheduleTask(t) \/ MSetWaitTask(t) \/ DeleteWaitTask(t) \/ DrainTask(t)

Next ==
    \/ \E w \in Write, k \in WriteKey, g \in Entry : Submit(w, k, g)
    \/ \E g \in Grp : ActorStep(g) \/ Commit(g)
    \/ \E t \in tasks : TaskStep(t)

Spec == Init /\ [][Next]_vars

(* Actors drain their mailboxes, consensus makes progress and spawned tasks *)
(* run; clients are not obliged to send.                                    *)
FairSpec ==
    /\ Spec
    /\ \A g \in Grp : WF_vars(ActorStep(g)) /\ WF_vars(Commit(g))
    /\ WF_vars(\E t \in tasks : TaskStep(t))

-----------------------------------------------------------------------------
(* Properties                                                              *)

CmdType == {"Write", "Ring", "TryUnblock", "StartRebalance", "RebalanceRequest", "BatchAck",
            "SendBatchAck", "ScheduleMigrationBatch", "MigrateBatch"}

(* The type invariant; pending_requests and pending_migrations are Some    *)
(* together and None together.                                               *)
TypeOK ==
    /\ ring \in [Grp -> [Key -> Grp]]
    /\ cache \in [Grp -> [Key -> Key \cup Write \cup {Null}]]
    /\ \A g \in Grp : \A i \in 1..Len(inflight[g]) : inflight[g][i].op \in {"Set", "MSet", "Delete"}
    /\ \A g \in Grp : pendingReqs[g] \in Seq(Write) \cup {None}
    /\ \A g \in Grp : pendingMig[g] \in SUBSET [id : Grp \X Nat, keys : SUBSET Key] \cup {None}
    /\ \A g \in Grp : (pendingReqs[g] = None) <=> (pendingMig[g] = None)
    /\ \A g \in Grp : \A i \in 1..Len(mailbox[g]) : mailbox[g][i].type \in CmdType
    /\ wkey \in [Write -> WriteKey \cup {None}]
    /\ reply \in [Write -> {"None", "LogIndex", "Moved"}]

(* Nothing is left to do: every mailbox, consensus queue and task is done.  *)
Quiescent ==
    /\ \A g \in Grp : mailbox[g] = <<>> /\ inflight[g] = <<>>
    /\ tasks = {}

(* Spec section 8: after maybe_update_hashring quiesces, a key is held only *)
(* by the group every ring names as its owner (get_node_for_keys routes to *)
(* the group that holds it): migrate_batch, receive_batch and               *)
(* handle_migration_ack's Delete move every key and leave no copy behind.   *)
KeyAtOwnerOnly ==
    Quiescent =>
        \A g \in Grp, k \in Key : cache[g][k] # Null => \A h \in Grp : ring[h][k] = g

(* The value a key must have: the last client write that committed to it, *)
(* else the value it started with.                                           *)
LatestValue(k) ==
    LET ws == SelectSeq(commitLog, LAMBDA w : wkey[w] = k)
    IN  IF ws # <<>> THEN Last(ws)
        ELSE IF \E g \in Grp : k \in Held[g] THEN k ELSE Null

(* A write answered LogIndex is not lost by the migration: once the        *)
(* rebalance quiesces, the group any leader's ring routes a key to holds   *)
(* its latest value (the MSet of receive_batch and the Delete of           *)
(* handle_migration_ack never overwrite or remove a newer committed write). *)
AckedWritesDurable ==
    Quiescent =>
        \A k \in Key, h \in Grp : cache[ring[h][k]][k] = LatestValue(k)

(* Every write a client sends is eventually answered (LogIndex or MOVED):   *)
(* a write held by the gate (leader_req_consensus) comes back through       *)
(* unblock_write_reqs_if_done's drain task.                                  *)
WriteEventuallyAnswered == \A w \in Write : wkey[w] # None ~> reply[w] # "None"

(* The writes g's gate has let out and not yet decided: the re-sent writes *)
(* in g's mailbox, then those the drain task still has to send.              *)
Released(g) ==
    LET drained == SelectSeq(mailbox[g], LAMBDA c : c.type = "Write" /\ c.drained)
        ds == {t \in tasks : t.kind = "Drain" /\ t.g = g}
    IN  [i \in 1..Len(drained) |-> drained[i].w]
        \o (IF ds = {} THEN <<>> ELSE (CHOOSE t \in ds : TRUE).reqs)

Gate(g) == INSTANCE WriteGate WITH
    blocked <- pendingReqs[g] # None,
    queue <- IF pendingReqs[g] = None THEN <<>> ELSE pendingReqs[g],
    released <- Released(g)

(* Each leader's write gate (block_write_reqs, the pending_requests queue of *)
(* leader_req_consensus, unblock_write_reqs_if_done and its drain task)     *)
(* implements WriteGate: held writes come back in the order they were held. *)
(* This is \A g \in Grp : Gate(g)!Spec, with the quantifier moved inside  *)
(* the box.                                                                   *)
GateRefinement ==
    /\ \A g \in Grp : Gate(g)!Init
    /\ [][\A g \in Grp : [Gate(g)!Next]_(Gate(g)!gateVars)]_vars

====
