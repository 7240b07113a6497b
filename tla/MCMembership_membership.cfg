\* Four fully connected peers with synchronised clocks; node 4 alone is in
\* leader mode (FANOUT 2, so its heartbeats gossip once more); a client may
\* send CLUSTER FORGET 1 to node 4. A ban lasts one second and a peer not
\* heard from within the second is idle. Clocks stop at 1 s, so behaviours
\* end and deadlock is not checked.
CONSTANTS
    None = None
    Node <- MCNode
    Fanout = 2
    BanTtl = 1
    NodeTimeout = 0
    MaxClock = 1
    MaxSkew = 0
    MaxChan = 1
    MaxForgets = 1
    MaxConnects = 1
    Leaders = {4}
    Forgets <- MCForgets
    InitMembers <- MCMesh
SPECIFICATION Spec
INVARIANTS TypeOK BannedNotMember
PROPERTIES FreshBanEvicts
CHECK_DEADLOCK FALSE
