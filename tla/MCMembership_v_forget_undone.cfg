\* As membership: node 4 evicts idle node 1, hears of it again by gossip
\* and connects to it; a client sends CLUSTER FORGET 1 to node 4 while the
\* handshake is under way.
CONSTANTS
    None = None
    Node <- MCNode
    Fanout = 2
    BanTtl = 1
    NodeTimeout = 0
    MaxClock = 1
    MaxSkew = 0
    MaxChan = 1
    MaxForgets = 1
    MaxConnects = 1
    Leaders = {4}
    Forgets <- MCForgets
    InitMembers <- MCMesh
SPECIFICATION Spec
INVARIANT ForgottenStaysOut
CHECK_DEADLOCK FALSE
