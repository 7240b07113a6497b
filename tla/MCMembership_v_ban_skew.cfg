\* As membership, but the wall clocks of two nodes may differ by one
\* second: node 4, ahead, bans node 1 and its heartbeat reaches a node whose
\* clock is behind the ban time.
CONSTANTS
    None = None
    Node <- MCNode
    Fanout = 2
    BanTtl = 1
    NodeTimeout = 0
    MaxClock = 1
    MaxSkew = 1
    MaxChan = 1
    MaxForgets = 1
    MaxConnects = 1
    Leaders = {4}
    Forgets <- MCForgets
    InitMembers <- MCMesh
SPECIFICATION Spec
PROPERTIES FreshBanEvicts
CHECK_DEADLOCK FALSE
