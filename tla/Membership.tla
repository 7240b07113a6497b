----------------------------- MODULE Membership -----------------------------
(***************************************************************************)
(* Cluster membership of duva's ClusterActor (actor.rs): the members map,  *)
(* the ban list, idle eviction, cluster heartbeats with their gossip hop   *)
(* count, joining peers learnt from gossip, and CLUSTER FORGET.            *)
(*                                                                         *)
(* Each node is one actor; its mailbox is abstracted to the choice of the  *)
(* next enabled action. A peer connection is a pair of FIFO streams:       *)
(* chan[a][b] holds the heartbeats a sent to b that b has not read. Node   *)
(* identifiers are numbers so that join_peer_network_if_absent can compare *)
(* them. time_in_secs() and Instant::now() are both read from clock[n],    *)
(* which the nodes advance at one rate; their wall clocks may differ by up *)
(* to MaxSkew seconds.                                                     *)
(***************************************************************************)
EXTENDS Integers, FiniteSets, Sequences

CONSTANTS
    Node,       \* peer identifiers, ordered as PeerIdentifier is
    Fanout,     \* FANOUT of hop_count
    BanTtl,     \* the 60 seconds a ban lasts, in clock ticks
    NodeTimeout,\* node_timeout, in clock ticks
    MaxClock,   \* last clock value explored
    MaxSkew,    \* largest difference of two nodes' wall clocks
    MaxChan,    \* capacity of a peer stream (sends wait when it is full)
    MaxForgets, \* CLUSTER FORGET commands issued in a behaviour
    MaxConnects,\* connections opened by joins in a behaviour
    Leaders,    \* nodes whose HeartbeatScheduler is in leader mode
    Forgets,    \* <<n, m>>: a client may send CLUSTER FORGET m to n
    InitMembers,\* InitMembers[n]: the peers n is connected to at the start
    None

ASSUME Node \subseteq Nat /\ Fanout \in Nat /\ Fanout >= 2
ASSUME Leaders \subseteq Node /\ Forgets \subseteq Node \X Node
(* Connections are symmetric: each end has the other in members.          *)
ASSUME \A a, b \in Node : b \in InitMembers[a] <=> a \in InitMembers[b] /\ a # b

VARIABLES
    members,    \* members[n]: the peers in n's members map
    lastSeen,   \* lastSeen[n][m]: the clock of n when m was last touched
    ban,        \* ban[n][m]: ban_time of m in n's banlist, or None
    clock,      \* clock[n]: n's clock, in seconds
    alive,      \* the peer connections open, as sets {a, b}
    chan,       \* chan[a][b]: heartbeats from a to b, oldest first
    adding,     \* <<n, m>>: an add_peer of m on its way to n's mailbox
    forgot,     \* history: forgot[n][m], n's clock when it forgot m, or None
    nForgets,   \* CLUSTER FORGET commands issued
    nConnects,  \* connections opened by joins
    beat        \* the leaders that sent their heartbeat of this interval

vars == <<members, lastSeen, ban, clock, alive, chan, adding, forgot, nForgets, nConnects, beat>>

Time == 0..MaxClock

(* A heartbeat: the sender, the hop count, cluster_nodes (the sender's     *)
(* members and itself) and the sender's ban list as <<peer, ban_time>>.   *)
HeartBeat == [from : Node, hop : Nat, nodes : SUBSET Node,
              bans : SUBSET (Node \X Time)]

BannedIds(b) == {m \in Node : b[m] # None}

(* ReplicationState::in_ban_list                                            *)
InBanList(n, m) == ban[n][m] # None

(* hop_count: 0 when node_count <= fanout, else node_count.ilog(fanout)    *)
RECURSIVE ILog(_, _)
ILog(f, c) == IF c < f THEN 0 ELSE 1 + ILog(f, c \div f)

HopCount(f, c) == IF c <= f THEN 0 ELSE ILog(f, c)

(* default_heartbeat(..).set_cluster_nodes(self.cluster_nodes())          *)
ClusterHeartBeat(n, hop, mem, b) ==
    [from |-> n, hop |-> hop, nodes |-> mem \cup {n},
     bans |-> {<<m, b[m]>> : m \in BannedIds(b)}]

(* send_heartbeat: one copy to every member. A send on a stream that is   *)
(* closed fails and is ignored; a full stream makes the actor wait.        *)
Room(n, targets, ch) ==
    \A m \in targets : {n, m} \in alive => Len(ch[n][m]) < MaxChan

SendHeartbeat(n, targets, hb, ch) ==
    [ch EXCEPT ![n] = [m \in Node |->
        IF m \in targets /\ {n, m} \in alive THEN Append(ch[n][m], hb) ELSE ch[n][m]]]

(* remove_peer for every peer of gone: peer.kill() closes the connection. *)
(* Of what either side had queued on it, a prefix already reached the     *)
(* other actor's mailbox and is still handled; the rest is lost.           *)
Involved(n, gone) == {<<a, b>> \in Node \X Node : (a = n /\ b \in gone) \/ (b = n /\ a \in gone)}

PrefixTo(s, k) == SubSeq(s, 1, IF k < Len(s) THEN k ELSE Len(s))

Killed(n, gone, ch) ==
    {[a \in Node |-> [b \in Node |->
         IF <<a, b>> \in Involved(n, gone) THEN PrefixTo(ch[a][b], cut[<<a, b>>]) ELSE ch[a][b]]] :
     cut \in [Involved(n, gone) -> 0..MaxChan]}

RemovePeers(n, gone) == alive \ {{n, m} : m \in gone}

-----------------------------------------------------------------------------
Init ==
    /\ members = InitMembers
    /\ lastSeen = [n \in Node |-> [m \in Node |-> 0]]
    /\ ban = [n \in Node |-> [m \in Node |-> None]]
    /\ clock = [n \in Node |-> 0]
    /\ alive = UNION {{{a, b} : b \in InitMembers[a]} : a \in Node}
    /\ chan = [a \in Node |-> [b \in Node |-> <<>>]]
    /\ adding = {}
    /\ forgot = [n \in Node |-> [m \in Node |-> None]]
    /\ nForgets = 0
    /\ nConnects = 0
    /\ beat = {}

(* The nodes of S advance their clocks by one second, the heartbeat       *)
(* interval: their schedulers may fire SendClusterHeartbeat again.        *)
Tick ==
    /\ \E S \in SUBSET Node \ {{}} :
          LET c2 == [n \in Node |-> IF n \in S THEN clock[n] + 1 ELSE clock[n]]
          IN  /\ \A n \in S : clock[n] < MaxClock
              /\ \A a, b \in Node : c2[a] - c2[b] <= MaxSkew
              /\ clock' = c2
              /\ beat' = beat \ S
    /\ UNCHANGED <<members, lastSeen, ban, alive, chan, adding, forgot, nForgets, nConnects>>

(* remove_idle_peers: members not seen for more than node_timeout         *)
IdlePeers(n) == {m \in members[n] : clock[n] - lastSeen[n][m] > NodeTimeout}

(* send_cluster_heartbeat: evict idle peers, then send every member a     *)
(* heartbeat whose hop count is hop_count(FANOUT, members.len()). The     *)
(* leader-mode scheduler fires it once per heartbeat interval.           *)
SendClusterHeartbeat(n) ==
    LET gone == IdlePeers(n)
        mem  == members[n] \ gone
        hb   == ClusterHeartBeat(n, HopCount(Fanout, Cardinality(mem)), mem, ban[n])
    IN  /\ n \in Leaders /\ n \notin beat
        /\ beat' = beat \cup {n}
        /\ members' = [members EXCEPT ![n] = mem]
        /\ alive' = RemovePeers(n, gone)
        /\ \E ch \in Killed(n, gone, chan) :
              /\ Room(n, mem, ch)
              /\ chan' = SendHeartbeat(n, mem, hb, ch)
        /\ UNCHANGED <<lastSeen, ban, clock, adding, forgot, nForgets, nConnects>>

(* apply_banlist, merge: an entry for a peer already banned keeps the     *)
(* later of the two ban times.                                             *)
MergeBans(own, got) ==
    [m \in Node |->
        IF \E t \in Time : <<m, t>> \in got
        THEN LET t == CHOOSE t \in Time : <<m, t>> \in got
             IN  IF own[m] # None /\ ~(t > own[m]) THEN own[m] ELSE t
        ELSE own[m]]

(* apply_banlist, retain(|node| now - node.ban_time < 60): the u64         *)
(* subtraction wraps when ban_time is ahead of now, to a value far above   *)
(* 60, and the entry is dropped (a release build; a debug build panics).  *)
RetainedInverted(now, t) == IF now >= t THEN now - t >= BanTtl ELSE FALSE

Retained(now, t) == IF now >= t THEN now - t < BanTtl ELSE FALSE

RetainBans(n, b) == [m \in Node |-> IF b[m] # None /\ Retained(clock[n], b[m]) THEN b[m] ELSE None]

(* apply_banlist up to its remove_peer loop: merge, then retain.          *)
ApplyBanlist(n, got) == RetainBans(n, MergeBans(ban[n], got))

(* connect_to_server(x): OutboundStream::new connects, then a spawned     *)
(* task runs the handshake and sends add_peer to this actor, while x's    *)
(* accept_inbound_stream does the same at x. Connecting to itself, a     *)
(* failed connect, or a failed handshake, ends here.                      *)
ConnectToServer(n, x) ==
    \/ /\ x # n
       /\ nConnects < MaxConnects
       /\ nConnects' = nConnects + 1
       /\ adding' = adding \cup {<<n, x>>, <<x, n>>}
    \/ /\ adding' = adding
       /\ UNCHANGED nConnects

(* update_cluster_members: last_seen = now for every listed node that is *)
(* a member (the sender and every node it gossips about).                *)
UpdateClusterMembers(n, nodes, mem) ==
    [p \in Node |-> IF p \in nodes \cap mem THEN clock[n] ELSE lastSeen[n][p]]

(* join_peer_network_if_absent: the listed nodes with a lower id that are *)
(* neither members nor banned.                                             *)
JoinCandidates(n, nodes, mem, b) ==
    {x \in nodes : x # n /\ x < n /\ x \notin mem /\ b[x] = None}

(* cluster_nodes lists the sender's members in id order (a BTreeMap), then *)
(* the sender: the first candidate is the least one other than the sender *)
(* if there is one, else the sender.                                       *)
FirstListed(cand, from) ==
    IF cand \ {from} # {} THEN CHOOSE x \in cand \ {from} : \A y \in cand \ {from} : x <= y
    ELSE from

JoinPeerNetworkIfAbsent(n, hb, mem, b) ==
    LET cand == JoinCandidates(n, hb.nodes, mem, b)
    IN  \/ /\ cand = {}
           /\ UNCHANGED <<adding, nConnects>>
        \/ /\ cand # {}
           /\ ConnectToServer(n, FirstListed(cand, hb.from))

(* gossip(hop_count): nothing at hop 0, else send every member a cluster *)
(* heartbeat with hop_count - 1.                                          *)
Gossip(n, hop, mem, b, ch) ==
    \/ /\ hop = 0
       /\ chan' = ch
    \/ /\ hop > 0
       /\ Room(n, mem, ch)
       /\ chan' = SendHeartbeat(n, mem, ClusterHeartBeat(n, hop - 1, mem, b), ch)

(* receive_cluster_heartbeat from m: drop it if m is banned; else          *)
(* apply_banlist (merge, retain, remove_peer of every banned peer),        *)
(* update_cluster_members (touch last_seen of every listed member),       *)
(* join_peer_network_if_absent (connect to a listed lower id that is      *)
(* neither a member nor banned), and gossip with hop_count - 1.          *)
ReceiveClusterHeartbeat(n, m) ==
    /\ chan[m][n] # <<>>
    /\ LET hb == Head(chan[m][n])
           ch0 == [chan EXCEPT ![m][n] = Tail(@)]
       IN  \/ /\ InBanList(n, hb.from)
              /\ chan' = ch0
              /\ UNCHANGED <<members, lastSeen, ban, alive, adding, nConnects>>
           \/ /\ ~InBanList(n, hb.from)
              /\ LET b2   == ApplyBanlist(n, hb.bans)
                      gone == members[n] \cap BannedIds(b2)
                      mem  == members[n] \ gone
                  IN  /\ ban' = [ban EXCEPT ![n] = b2]
                      /\ members' = [members EXCEPT ![n] = mem]
                      /\ alive' = RemovePeers(n, gone)
                      /\ lastSeen' = [lastSeen EXCEPT ![n] = UpdateClusterMembers(n, hb.nodes, mem)]
                      /\ JoinPeerNetworkIfAbsent(n, hb, mem, b2)
                      /\ \E ch1 \in Killed(n, gone, ch0) : Gossip(n, hb.hop, mem, b2, ch1)
    /\ UNCHANGED <<clock, forgot, nForgets, beat>>

AddPeerNoUnban(n, m) ==
    /\ <<n, m>> \in adding
    /\ adding' = adding \ {<<n, m>>}
    /\ ban' = ban
    /\ chan' \in Killed(n, {m} \cap members[n], chan)
    /\ members' = [members EXCEPT ![n] = @ \cup {m}]
    /\ lastSeen' = [lastSeen EXCEPT ![n][m] = clock[n]]
    /\ alive' = alive \cup {{n, m}}
    /\ UNCHANGED <<clock, forgot, nForgets, nConnects, beat>>

(* add_peer: unban the peer, insert it into members (killing a previous   *)
(* connection to it) with last_seen now.                                   *)
AddPeer(n, m) ==
    /\ <<n, m>> \in adding
    /\ adding' = adding \ {<<n, m>>}
    /\ ban' = [ban EXCEPT ![n][m] = None]
    /\ chan' \in Killed(n, {m} \cap members[n], chan)
    /\ members' = [members EXCEPT ![n] = @ \cup {m}]
    /\ lastSeen' = [lastSeen EXCEPT ![n][m] = clock[n]]
    /\ alive' = alive \cup {{n, m}}
    /\ UNCHANGED <<clock, forgot, nForgets, nConnects, beat>>

ForgetPeerBanExpiry(n, m) ==
    /\ nForgets < MaxForgets
    /\ nForgets' = nForgets + 1
    /\ members' = [members EXCEPT ![n] = @ \ {m}]
    /\ alive' = RemovePeers(n, {m} \cap members[n])
    /\ chan' \in Killed(n, {m} \cap members[n], chan)
    /\ ban' = [ban EXCEPT ![n][m] = clock[n] + BanTtl]
    /\ forgot' = [forgot EXCEPT ![n][m] = clock[n]]
    /\ UNCHANGED <<lastSeen, clock, adding, nConnects, beat>>

(* forget_peer (CLUSTER FORGET m at n): remove_peer, then ban m with       *)
(* ban_time = time_in_secs().                                              *)
ForgetPeer(n, m) ==
    /\ nForgets < MaxForgets
    /\ nForgets' = nForgets + 1
    /\ members' = [members EXCEPT ![n] = @ \ {m}]
    /\ alive' = RemovePeers(n, {m} \cap members[n])
    /\ chan' \in Killed(n, {m} \cap members[n], chan)
    /\ ban' = [ban EXCEPT ![n][m] = clock[n]]
    /\ forgot' = [forgot EXCEPT ![n][m] = clock[n]]
    /\ UNCHANGED <<lastSeen, clock, adding, nConnects, beat>>

Next ==
    \/ Tick
    \/ \E n \in Node : SendClusterHeartbeat(n)
    \/ \E n, m \in Node : ReceiveClusterHeartbeat(n, m)
    \/ \E n, m \in Node : AddPeer(n, m)
    \/ \E f \in Forgets : ForgetPeer(f[1], f[2])

Spec == Init /\ [][Next]_vars
-----------------------------------------------------------------------------
TypeOK ==
    /\ members \in [Node -> SUBSET Node]
    /\ \A n \in Node : n \notin members[n]
    /\ lastSeen \in [Node -> [Node -> Time]]
    /\ ban \in [Node -> [Node -> Time \cup {None}]]
    /\ clock \in [Node -> Time]
    /\ alive \subseteq SUBSET Node
    /\ chan \in [Node -> [Node -> Seq(HeartBeat)]]
    /\ adding \subseteq Node \X Node
    /\ forgot \in [Node -> [Node -> Time \cup {None}]]
    /\ nForgets \in 0..MaxForgets
    /\ nConnects \in 0..MaxConnects
    /\ beat \subseteq Leaders

(* A ban of ban_time t is in force at n while n's clock reads less than    *)
(* t + 60 s, as spec section 4.A and scenario 6 describe it.               *)
InForce(n, t) == clock[n] < t + BanTtl

(* Spec section 8: a banned peer is never in members. add_peer unbans     *)
(* before it inserts, forget_peer removes before it bans, and             *)
(* apply_banlist removes every peer it keeps banned.                       *)
BannedNotMember ==
    \A n \in Node : members[n] \cap BannedIds(ban[n]) = {}

(* Spec scenario 6: a node that accepts a heartbeat carrying a ban still  *)
(* in force by its own clock has removed the banned peer from its members *)
(* when receive_cluster_heartbeat returns (apply_banlist's merge, retain  *)
(* and remove_peer).                                                       *)
FreshBanEvicts ==
    [][\A n, m \in Node :
          ReceiveClusterHeartbeat(n, m) /\ ~InBanList(n, m) =>
              \A bt \in Head(chan[m][n]).bans :
                  InForce(n, bt[2]) => bt[1] \notin members'[n]]_vars

(* CLUSTER FORGET m at n keeps m out of n's members for the 60 s of the   *)
(* ban it sets (forget_peer).                                              *)
ForgottenStaysOut ==
    \A n, m \in Node :
        forgot[n][m] # None /\ InForce(n, forgot[n][m]) => m \notin members[n]
=============================================================================
