CONSTANTS
    clientA = clientA
    clientB = clientB
    t1 = t1
    NoConn = NoConn
    NoTunnel = NoTunnel
    NoRequest = NoRequest
    Conns = {c1, c2}
    Foreign = {}
    Tunnels = {t1}
    Requests = {q1}
    ClientOf <- MCClientOf
    OwnerOf <- MCOwnerOf
    Target <- MCTarget
SPECIFICATION Spec
PROPERTY ReconnectedStaysServed
CHECK_DEADLOCK FALSE
