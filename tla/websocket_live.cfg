CONSTANTS
    clientA = clientA
    clientB = clientB
    t1 = t1
    NoConn = NoConn
    NoTunnel = NoTunnel
    NoRequest = NoRequest
    Conns = {c1}
    Foreign = {}
    Tunnels = {t1, t2}
    Requests = {q1}
    ClientOf <- MCClientOf
    OwnerOf <- MCOwnerOf
    Target <- MCTarget
SPECIFICATION FairSpec
PROPERTIES
    KeepsPromise
    ShutdownEnds
    BrokenConnectionCleanedUp
CHECK_DEADLOCK FALSE
