CONSTANTS
    clientA = clientA
    clientB = clientB
    t1 = t1
    NoConn = NoConn
    NoTunnel = NoTunnel
    NoRequest = NoRequest
    Conns = {c1, c2, c3}
    Foreign = {c3}
    Tunnels = {t1, t2}
    Requests = {q1}
    ClientOf <- MCClientOf
    OwnerOf <- MCOwnerOf
    Target <- MCTarget
SPECIFICATION MCSpec
INVARIANTS
    TypeOK
    TrafficStaysWithOwner
    EntryHasReader
    TableHasHandlers
    NoForgottenHandler
PROPERTIES
    OnlyOwnerEvicts
SYMMETRY MCSymmetry
CHECK_DEADLOCK FALSE
